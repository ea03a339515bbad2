---- MODULE Relay ----
(* The relay (crates/mellowmesh-relay) and the daemon's outbound link to it   *)
(* (relay_link.rs): one hub id, whose daemon dials one link after another.    *)
(* A link is a WebSocket with a relay-side handler; requests and streams of   *)
(* remote clients travel down the link that was registered when they came.    *)
(* The channel of capacity 256, the writer task behind it and the connection  *)
(* are one queue of frames per direction.  The two ends of a connection fail  *)
(* apart: neither side sends pings or has a read timeout, so that an end may  *)
(* stay open for ever after the other has gone.                               *)
EXTENDS Naturals, Sequences

CONSTANTS MaxLinks,   \* bound: links dialled in a behaviour
          Requests, Streams,
          Parties,    \* bound: the sets of clients that come in one behaviour
          MaxData     \* bound: messages one bridge forwards

ASSUME RelayAssumption == /\ MaxLinks \in Nat \ {0}
                          /\ MaxData \in Nat
                          /\ Parties \subseteq SUBSET (Requests \cup Streams)

VARIABLES
  hub,        \* relay: the link registered for the hub id, or None
  link,       \* relay: where the handler of each link stands
  writer,     \* relay: links whose to_daemon receiver still exists
  pending,    \* relay: <<link, request>>: a response frame is awaited
  streams,    \* relay: <<link, stream>>: an event sender is in the map
  req,        \* relay: forwarded request -> state of its handler, its link
  str,        \* relay: client stream -> state of its handler, its link
  events,     \* relay: client stream -> events its handler has not taken yet
  relayEnd,   \* links whose connection the relay takes to be open
  daemonEnd,  \* links whose connection the daemon takes to be open
  down, up,   \* frames on their way to the daemon, to the relay
  key,        \* daemon: the key sent in each link's register frame
  dialed,     \* daemon: number of links dialled, the last one being current
  serving,    \* daemon: inside run_link
  work,       \* daemon: request -> state of its executor task, its link
  bridge,     \* daemon: stream -> state of its bridge task
  handles,    \* daemon: streams with an abort handle in the map
  spawned,    \* daemon: the bridge whose handle the reader is about to store
  served      \* history: requests the local API has executed

linkVars   == <<hub, link, writer, relayEnd, daemonEnd>>
clientVars == <<pending, streams, req, str, events>>
daemonVars == <<key, dialed, serving, work, bridge, handles, spawned, served>>
vars == <<linkVars, clientVars, daemonVars, down, up>>

Links == 1..MaxLinks

\* A link key is named by the first link it is sent on; a stored key that cannot be read
\* is followed by a new one.
Keys == Links
Keyings == {k \in [Links -> Keys] : \A l \in Links : k[l] <= l /\ k[k[l]] = k[l]}

None == 0
Frames == [type : {"request", "response"}, id : Requests]
            \cup [type : {"open", "data", "close"}, id : Streams]
At(st, l) == [st |-> st, link |-> l]

TypeOK ==
  /\ hub \in Links \cup {None}
  /\ link \in [Links -> {"none", "registering", "up", "closing", "clearing", "done"}]
  /\ writer \subseteq Links /\ relayEnd \subseteq Links /\ daemonEnd \subseteq Links
  /\ pending \subseteq Links \X Requests /\ streams \subseteq Links \X Streams
  /\ req \in [Requests -> [st : {"idle", "hungup", "offline"}, link : {None}]
                            \cup [st : {"sending", "waiting", "expiring", "answered",
                                       "offline", "timeout", "hungup"}, link : Links]]
  /\ str \in [Streams -> [st : {"idle", "upgrading", "opening", "open", "leaving", "done"},
                          link : Links \cup {None}]]
  /\ events \in [Streams -> Seq({"data", "close"})]
  /\ down \in [Links -> Seq(Frames)] /\ up \in [Links -> Seq(Frames)]
  /\ key \in [Links -> Keys] /\ dialed \in Nat /\ serving \in BOOLEAN
  /\ work \in [Requests -> [st : {"none", "running", "replying", "over"},
                            link : Links \cup {None}]]
  /\ bridge \in [Streams -> {"none", "running", "ending", "over"}]
  /\ handles \subseteq Streams /\ spawned \subseteq Streams
  /\ served \subseteq Requests

Init ==
  /\ hub = None /\ writer = {} /\ relayEnd = {} /\ daemonEnd = {}
  /\ link = [l \in Links |-> "none"]
  /\ pending = {} /\ streams = {}
  /\ \E come \in Parties :
       /\ req = [r \in Requests |-> At(IF r \in come THEN "idle" ELSE "hungup", None)]
       /\ str = [s \in Streams |-> At(IF s \in come THEN "idle" ELSE "done", None)]
  /\ events = [s \in Streams |-> <<>>]
  /\ down = [l \in Links |-> <<>>] /\ up = [l \in Links |-> <<>>]
  /\ key \in Keyings /\ dialed = 0 /\ serving = FALSE
  /\ work = [r \in Requests |-> At("none", None)]
  /\ bridge = [s \in Streams |-> "none"]
  /\ handles = {} /\ spawned = {} /\ served = {}

----
(* The life of a link: run_link on the daemon, handle_link on the relay.      *)

\* The daemon connects, sends its register frame and starts reading.
Dial ==
  /\ ~serving /\ dialed < MaxLinks
  /\ dialed' = dialed + 1 /\ serving' = TRUE
  /\ link' = [link EXCEPT ![dialed + 1] = "registering"]
  /\ relayEnd' = relayEnd \cup {dialed + 1} /\ daemonEnd' = daemonEnd \cup {dialed + 1}
  /\ UNCHANGED <<hub, writer, clientVars, down, up, key, work, bridge, handles, spawned, served>>

SetLink(l, st) == link' = [link EXCEPT ![l] = st]
KeyMatches(l) == hub # None => key[hub] = key[l]

\* The relay claims the hub id for the link, replacing an earlier one.
Register(l) ==
  /\ link[l] = "registering" /\ KeyMatches(l)
  /\ hub' = l /\ SetLink(l, "up") /\ writer' = writer \cup {l}
  /\ UNCHANGED <<relayEnd, daemonEnd, clientVars, daemonVars, down, up>>

\* A different key: an error frame, and the handler returns.
Reject(l) ==
  /\ link[l] = "registering" /\ ~KeyMatches(l)
  /\ SetLink(l, "done") /\ relayEnd' = relayEnd \ {l}
  /\ UNCHANGED <<hub, writer, daemonEnd, clientVars, daemonVars, down, up>>

\* The connection ends before the register frame is there.
NoRegister(l) ==
  /\ link[l] = "registering" /\ l \notin relayEnd
  /\ SetLink(l, "done")
  /\ UNCHANGED <<hub, writer, relayEnd, daemonEnd, clientVars, daemonVars, down, up>>

\* The connection fails for one end: it is reset, closed by the other end, or what was
\* sent is not acknowledged. Of the frames sent, the first few arrive.
Arrived(q) == {SubSeq(q, 1, n) : n \in 0 .. Len(q)}

RelayLoses(l) ==
  /\ l \in relayEnd /\ link[l] \in {"registering", "up"}
  /\ relayEnd' = relayEnd \ {l}
  /\ \E q \in Arrived(down[l]) : down' = [down EXCEPT ![l] = q]
  /\ UNCHANGED <<hub, link, writer, daemonEnd, clientVars, daemonVars, up>>

DaemonLoses(l) ==
  /\ l \in daemonEnd
  /\ daemonEnd' = daemonEnd \ {l}
  /\ \E q \in Arrived(up[l]) : up' = [up EXCEPT ![l] = q]
  /\ UNCHANGED <<hub, link, writer, relayEnd, clientVars, daemonVars, down>>

\* Somebody holds the Hub of the link, and with it a sender of its queue.
\* Mutant: the handler keeps the sender that it cloned into the Hub.
HeldByHandler(l) == link[l] = "up"

Held(l) == \/ hub = l
           \/ \E r \in Requests : req[r] \in {At(st, l) : st \in {"sending", "waiting", "expiring"}}
           \/ \E s \in Streams : str[s].link = l /\ str[s].st # "done"

\* With its reader the relay drops what has come up the link and was not read.
DropUp(l) == up' = [up EXCEPT ![l] = <<>>]

\* select: the reader is through first. It aborts the writer and does not wait.
ReaderEnds(l) ==
  /\ link[l] = "up" /\ l \notin relayEnd
  /\ SetLink(l, "closing") /\ DropUp(l)
  /\ UNCHANGED <<hub, writer, relayEnd, daemonEnd, clientVars, daemonVars, down>>

\* select: the writer is through first, after a failed write or, once the link
\* has been replaced, when nobody can send any more.
WriterEnds(l) ==
  /\ link[l] = "up" /\ l \in writer
  /\ l \notin relayEnd \/ ~Held(l)
  /\ SetLink(l, "closing") /\ writer' = writer \ {l} /\ DropUp(l)
  /\ UNCHANGED <<hub, relayEnd, daemonEnd, clientVars, daemonVars, down>>

\* The runtime drops the aborted writer and its receiver.
WriterDropped(l) ==
  /\ link[l] \in {"closing", "clearing", "done"} /\ l \in writer
  /\ writer' = writer \ {l}
  /\ UNCHANGED <<hub, link, relayEnd, daemonEnd, clientVars, daemonVars, down, up>>

\* The hub id is given up only if the channel registered for it is closed,
\* whosever link that is.
HubDropped == None
HubAfterCleanup == IF hub \in writer THEN hub ELSE None

Unregister(l) ==
  /\ link[l] = "closing"
  /\ hub' = HubAfterCleanup /\ SetLink(l, "clearing")
  /\ UNCHANGED <<writer, relayEnd, daemonEnd, clientVars, daemonVars, down, up>>

\* The link's event senders are dropped, and the handler is over.
ClearStreams(l) ==
  /\ link[l] = "clearing"
  /\ streams' = {p \in streams : p[1] # l}
  /\ SetLink(l, "done") /\ relayEnd' = relayEnd \ {l}
  /\ UNCHANGED <<hub, writer, daemonEnd, pending, req, str, events, daemonVars, down, up>>

\* The daemon's reader ends: the writer is stopped, every bridge aborted, what the
\* relay had sent is not read any more.
AbortAll == [s \in Streams |-> IF s \in handles THEN "over" ELSE bridge[s]]

Teardown ==
  /\ serving /\ dialed \notin daemonEnd /\ spawned = {}
  /\ serving' = FALSE /\ handles' = {} /\ bridge' = AbortAll
  /\ down' = [down EXCEPT ![dialed] = <<>>]
  /\ UNCHANGED <<linkVars, clientVars, up, key, dialed, work, spawned, served>>

----
(* A forwarded request: forward on the relay, an executor task on the daemon. *)

SetReq(r, st, l) == req' = [req EXCEPT ![r] = At(st, l)]
\* What is sent through an end that is not open goes nowhere.
SendDown(l, f) == down' = IF l \in relayEnd THEN [down EXCEPT ![l] = Append(@, f)] ELSE down
SendUp(f) == up' = IF dialed \in daemonEnd THEN [up EXCEPT ![dialed] = Append(@, f)] ELSE up

HubLinked == hub # None

Forward(r) ==
  /\ req[r].st = "idle"
  /\ IF HubLinked
     THEN SetReq(r, "sending", hub) /\ pending' = pending \cup {<<hub, r>>}
     ELSE SetReq(r, "offline", None) /\ UNCHANGED pending
  /\ UNCHANGED <<linkVars, streams, str, events, daemonVars, down, up>>

SendRequest(r) ==
  LET l == req[r].link IN
  /\ req[r].st = "sending"
  /\ IF l \in writer
     THEN /\ SetReq(r, "waiting", l)
          /\ SendDown(l, [type |-> "request", id |-> r])
          /\ UNCHANGED pending
     ELSE /\ SetReq(r, "offline", l)
          /\ pending' = pending \ {<<l, r>>}
          /\ UNCHANGED down
  /\ UNCHANGED <<linkVars, streams, str, events, daemonVars, up>>

\* FORWARD_TIMEOUT has passed and no response was there.
Timeout(r) ==
  /\ req[r].st = "waiting"
  /\ SetReq(r, "expiring", req[r].link)
  /\ UNCHANGED <<linkVars, pending, streams, str, events, daemonVars, down, up>>

BadGateway == "offline"
ExpiredAnswer == "timeout"

ForgetNothing(r) == pending
Forget(r) == pending \ {<<req[r].link, r>>}

Expire(r) ==
  /\ req[r].st = "expiring"
  /\ SetReq(r, ExpiredAnswer, req[r].link) /\ pending' = Forget(r)
  /\ UNCHANGED <<linkVars, streams, str, events, daemonVars, down, up>>

\* The remote client goes away: its handler is dropped where it waits.
HangUp(r) ==
  /\ req[r].st \in {"sending", "waiting"}
  /\ SetReq(r, "hungup", req[r].link)
  /\ UNCHANGED <<linkVars, pending, streams, str, events, daemonVars, down, up>>

\* The executor replays the request against the local API, and answers through
\* the writer of the link it came by, if that still is there.
Execute(r) ==
  /\ work[r].st = "running"
  /\ work' = [work EXCEPT ![r].st = "replying"]
  /\ served' = served \cup {r}
  /\ UNCHANGED <<linkVars, clientVars, down, up, key, dialed, serving, bridge, handles, spawned>>

Linked(l) == serving /\ dialed = l

Reply(r) ==
  /\ work[r].st = "replying"
  /\ work' = [work EXCEPT ![r].st = "over"]
  /\ IF Linked(work[r].link) THEN SendUp([type |-> "response", id |-> r]) ELSE UNCHANGED up
  /\ UNCHANGED <<linkVars, clientVars, down, key, dialed, serving, bridge, handles, spawned, served>>

----
(* A live stream: handle_hub_stream on the relay, a bridge on the daemon.     *)

SetStr(s, st, l) == str' = [str EXCEPT ![s] = At(st, l)]

\* The upgrade keeps the Hub that is registered now.
OpenStream(s) ==
  /\ str[s].st = "idle"
  /\ IF hub = None THEN SetStr(s, "done", None) ELSE SetStr(s, "upgrading", hub)
  /\ UNCHANGED <<linkVars, pending, streams, req, events, daemonVars, down, up>>

InsertStream(s) ==
  /\ str[s].st = "upgrading"
  /\ SetStr(s, "opening", str[s].link)
  /\ streams' = streams \cup {<<str[s].link, s>>}
  /\ UNCHANGED <<linkVars, pending, req, events, daemonVars, down, up>>

SendOpen(s) ==
  LET l == str[s].link IN
  /\ str[s].st = "opening"
  /\ IF l \in writer
     THEN /\ SetStr(s, "open", l)
          /\ SendDown(l, [type |-> "open", id |-> s])
          /\ UNCHANGED streams
     ELSE /\ SetStr(s, "done", l)
          /\ streams' = streams \ {<<l, s>>}
          /\ UNCHANGED down
  /\ UNCHANGED <<linkVars, pending, req, events, daemonVars, up>>

\* The handler writes the next event to its client.
Deliver(s) ==
  /\ str[s].st = "open" /\ events[s] # <<>> /\ Head(events[s]) = "data"
  /\ events' = [events EXCEPT ![s] = Tail(@)]
  /\ UNCHANGED <<linkVars, pending, streams, req, str, daemonVars, down, up>>

\* A close event, no sender left, or the client has closed or gone.
StreamEnded(s) == \/ events[s] # <<>> /\ Head(events[s]) = "close"
                  \/ events[s] = <<>> /\ <<str[s].link, s>> \notin streams

Leave(s) ==
  /\ str[s].st = "open"
  /\ SetStr(s, "leaving", str[s].link)
  /\ UNCHANGED <<linkVars, pending, streams, req, events, daemonVars, down, up>>

ClientCloses(s) == Leave(s)
EndOfStream(s) == StreamEnded(s) /\ Leave(s)

LeavesSilently(l, s) == UNCHANGED down
TellDaemon(l, s) == IF l \in writer THEN SendDown(l, [type |-> "close", id |-> s])
                                    ELSE UNCHANGED down

CloseStream(s) ==
  LET l == str[s].link IN
  /\ str[s].st = "leaving"
  /\ SetStr(s, "done", l)
  /\ streams' = streams \ {<<l, s>>}
  /\ TellDaemon(l, s)
  /\ UNCHANGED <<linkVars, pending, req, events, daemonVars, up>>

\* The reader, having spawned a bridge, stores its abort handle.
StoreHandle ==
  /\ spawned # {}
  /\ handles' = handles \cup spawned /\ spawned' = {}
  /\ UNCHANGED <<linkVars, clientVars, down, up, key, dialed, serving, work, bridge, served>>

\* The bridge sends a message of the local subscription up the link.
BridgeSends(s) ==
  /\ bridge[s] = "running" /\ serving
  /\ Len(up[dialed]) + Len(events[s]) < MaxData
  /\ SendUp([type |-> "data", id |-> s])
  /\ UNCHANGED <<linkVars, clientVars, down, daemonVars>>

\* The local subscription fails or ends: the bridge removes its handle, ...
BridgeEnds(s) ==
  /\ bridge[s] = "running"
  /\ bridge' = [bridge EXCEPT ![s] = "ending"] /\ handles' = handles \ {s}
  /\ UNCHANGED <<linkVars, clientVars, down, up, key, dialed, serving, work, spawned, served>>

\* ... and sends a close frame.
BridgeCloses(s) ==
  /\ bridge[s] = "ending"
  /\ bridge' = [bridge EXCEPT ![s] = "over"]
  /\ IF serving THEN SendUp([type |-> "close", id |-> s]) ELSE UNCHANGED up
  /\ UNCHANGED <<linkVars, clientVars, down, key, dialed, serving, work, handles, spawned, served>>

----
(* The two readers.                                                           *)

\* run_link: a request or a stream is given a task, a close aborts the bridge.
DaemonReads(l) ==
  LET f == Head(down[l]) IN
  /\ Linked(l) /\ l \in daemonEnd /\ spawned = {} /\ down[l] # <<>>
  /\ down' = [down EXCEPT ![l] = Tail(@)]
  /\ \/ /\ f.type = "request"
        /\ work' = [work EXCEPT ![f.id] = At("running", l)]
        /\ UNCHANGED <<bridge, handles, spawned>>
     \/ /\ f.type = "open"
        /\ bridge' = [bridge EXCEPT ![f.id] = "running"] /\ spawned' = {f.id}
        /\ UNCHANGED <<work, handles>>
     \/ /\ f.type = "close"
        /\ handles' = handles \ {f.id}
        /\ bridge' = [bridge EXCEPT ![f.id] = IF f.id \in handles THEN "over" ELSE @]
        /\ UNCHANGED <<work, spawned>>
  /\ UNCHANGED <<linkVars, clientVars, up, key, dialed, serving, served>>

\* handle_link's reader: a frame for a waiter or a stream that is gone is
\* dropped. Frames that arrived before the connection broke may still be read.
RelayReads(l) ==
  LET f == Head(up[l]) IN
  /\ link[l] = "up" /\ up[l] # <<>>
  /\ up' = [up EXCEPT ![l] = Tail(@)]
  /\ \/ /\ f.type = "response"
        /\ pending' = pending \ {<<l, f.id>>}
        /\ IF <<l, f.id>> \in pending /\ req[f.id].st = "waiting"
           THEN SetReq(f.id, "answered", l) ELSE UNCHANGED req
        /\ UNCHANGED <<streams, events>>
     \/ /\ f.type \in {"data", "close"}
        /\ events' = IF <<l, f.id>> \in streams
                     THEN [events EXCEPT ![f.id] = Append(@, f.type)] ELSE events
        /\ streams' = IF f.type = "close" THEN streams \ {<<l, f.id>>} ELSE streams
        /\ UNCHANGED <<pending, req>>
  /\ UNCHANGED <<linkVars, str, daemonVars, down>>

Next ==
  \/ Dial \/ Teardown \/ StoreHandle
  \/ \E l \in Links : \/ Register(l) \/ Reject(l) \/ NoRegister(l) \/ RelayLoses(l) \/ DaemonLoses(l)
                      \/ ReaderEnds(l) \/ WriterEnds(l) \/ WriterDropped(l) \/ Unregister(l) \/ ClearStreams(l)
                      \/ DaemonReads(l) \/ RelayReads(l)
  \/ \E r \in Requests : \/ Forward(r) \/ SendRequest(r) \/ Timeout(r) \/ Expire(r) \/ HangUp(r)
                         \/ Execute(r) \/ Reply(r)
  \/ \E s \in Streams : \/ OpenStream(s) \/ InsertStream(s) \/ SendOpen(s) \/ Deliver(s)
                        \/ ClientCloses(s) \/ EndOfStream(s) \/ CloseStream(s)
                        \/ BridgeSends(s) \/ BridgeEnds(s) \/ BridgeCloses(s)

Spec == Init /\ [][Next]_vars

\* TCP delivers what was sent, or the sender's end fails: it waits for
\* acknowledgements. Nothing tells an end that only reads.
DownMoves(l) == DaemonReads(l) \/ (down[l] # <<>> /\ RelayLoses(l))
UpMoves(l)   == RelayReads(l) \/ (up[l] # <<>> /\ DaemonLoses(l))

\* The runtime runs every task that can take a step; timers fire.
Fairness ==
  /\ WF_vars(Teardown) /\ WF_vars(StoreHandle)
  /\ \A l \in Links : /\ WF_vars(ReaderEnds(l) \/ WriterEnds(l)) /\ WF_vars(WriterDropped(l))
                      /\ WF_vars(Unregister(l) \/ ClearStreams(l))
                      /\ WF_vars(DownMoves(l)) /\ WF_vars(UpMoves(l))
  /\ \A r \in Requests : /\ WF_vars(SendRequest(r)) /\ WF_vars(Timeout(r)) /\ WF_vars(Expire(r))
  /\ \A s \in Streams : /\ WF_vars(InsertStream(s)) /\ WF_vars(SendOpen(s))
                        /\ WF_vars(Deliver(s)) /\ WF_vars(EndOfStream(s)) /\ WF_vars(CloseStream(s))
                        /\ WF_vars(BridgeCloses(s))

FairSpec == Spec /\ Fairness

----
(* Properties                                                                 *)

\* The cleanup of one link never makes the hub unreachable through another: a
\* link whose handler is running loses the hub id to a newer link only.
CleanupSparesNewerLink ==
  [][\A l \in Links : hub = l /\ link[l] = "up" => hub' # None]_vars

\* A request answered with 502 (no link, or the link dropped while forwarding)
\* was never executed by the hub, so repeating it is safe; only a timeout or a
\* hang-up leaves that open.
OfflineMeansNotExecuted ==
  \A r \in served \cup {r \in Requests : work[r].st # "none"} : req[r].st # "offline"

\* The waiter of a forwarded request is in the map exactly while its handler
\* may still take the answer; only a hung-up client leaves one behind.
PendingHasItsHandler ==
  \A r \in Requests :
    /\ req[r].st \in {"sending", "waiting"} => <<req[r].link, r>> \in pending
    /\ \A l \in Links : <<l, r>> \in pending =>
         req[r].link = l /\ req[r].st \in {"sending", "waiting", "expiring", "hungup"}

\* Every running bridge can be aborted: its handle is in the map or about to
\* be stored, and belongs to the link the daemon is serving.
BridgeCanBeAborted ==
  \A s \in Streams : bridge[s] = "running" => s \in handles \cup spawned /\ serving

\* The types, and what the maps of the relay and of the daemon hold.
LinkInv == TypeOK /\ PendingHasItsHandler /\ BridgeCanBeAborted

\* The daemon waits on a connection that the relay has given up.
HalfOpen == dialed \in daemonEnd \ relayEnd

\* When the remote client of a stream has gone, its bridge stops, whether the stream
\* ends by itself, the link ends or is replaced on either side: all but a daemon that
\* is not told of the end of its connection, which no ping and no timeout tells it.
OrphanBridgeStops ==
  \A s \in Streams : str[s].st = "leaving" ~> (bridge[s] # "running" \/ HalfOpen)

\* A link that lost the hub id to another one is closed by the relay once its last
\* stream is, whether or not its connection is ever seen to fail: requests let go of
\* it by an answer or a timeout.
ReplacedLinkCloses ==
  \A l \in Links : (link[l] = "up" /\ hub # l)
                     ~> (link[l] = "done" \/ \E s \in Streams : str[s] = At("open", l))

\* "Dropping the senders ends every live stream attached to this link"
\* (relay lib.rs:213).
\* Not kept by the code: see README, "Statements that do not hold".
LinkEndsItsStreams ==
  \A l \in Links, s \in Streams :
    link[l] = "done" /\ l \notin writer /\ str[s] = At("open", l) => <<l, s>> \notin streams
====
