---------------------------- MODULE RelayProofs -----------------------------
(***************************************************************************)
(* Theorems about Relay for any number of links, any requests and streams, *)
(* and any clients that come.                                              *)
(***************************************************************************)
EXTENDS Relay, TLAPS

USE RelayAssumption

-----------------------------------------------------------------------------
(* The inductive invariant.                                                *)

\* The daemon serves a link it has dialled, and the writer of a link whose
\* handler is up is still there: the channel that a cleanup looks at is open.
LinksInv ==
    /\ serving => dialed \in Links
    /\ \A l \in Links : link[l] = "up" => l \in writer

\* A stream that was upgraded holds the link it was upgraded with.
StreamsInv ==
    \A s \in Streams : str[s].st \in {"upgrading", "opening", "open", "leaving"} => str[s].link \in Links

\* The requests whose frame was never sent.
Unsent == {r \in Requests : req[r].st \in {"idle", "sending", "offline"}}
In(f, q) == \E i \in 1 .. Len(q) : q[i] = f

\* A request that was not sent is nowhere past its handler: neither on its way
\* to the daemon, nor with an executor, nor on its way back.
NotYet(r) ==
    /\ r \notin served /\ work[r].st = "none"
    /\ \A l \in Links : /\ ~In([type |-> "request", id |-> r], down[l])
                        /\ ~In([type |-> "response", id |-> r], up[l])

UnsentInv == \A r \in Unsent : NotYet(r)

RelayInv == /\ TypeOK /\ LinksInv /\ StreamsInv /\ UnsentInv
            /\ PendingHasItsHandler /\ BridgeCanBeAborted

-----------------------------------------------------------------------------
(* Queues of frames, and the types in four parts.                          *)

LEMMA InEmpty == ASSUME NEW f PROVE ~In(f, <<>>)
  BY DEF In

LEMMA InAppended ==
    ASSUME NEW S, NEW q \in Seq(S), NEW f \in S
    PROVE  Append(q, f) \in Seq(S) /\ \A g : In(g, Append(q, f)) => g = f \/ In(g, q)
  <1>1. Append(q, f) \in Seq(S) /\ Len(Append(q, f)) = Len(q) + 1 /\ Len(q) \in Nat
    OBVIOUS
  <1>2. \A i \in 1 .. Len(q) + 1 : Append(q, f)[i] = IF i = Len(q) + 1 THEN f ELSE q[i]
    OBVIOUS
  <1>3. ASSUME NEW g, NEW i \in 1 .. Len(q) + 1, Append(q, f)[i] = g, g # f PROVE In(g, q)
    <2>1. i \in 1 .. Len(q) /\ q[i] = g
      BY <1>1, <1>2, <1>3
    <2>2. QED
      BY <2>1 DEF In
  <1>4. QED
    BY <1>1, <1>3 DEF In

LEMMA InTail ==
    ASSUME NEW S, NEW q \in Seq(S), q # <<>>
    PROVE  /\ Head(q) \in S /\ Tail(q) \in Seq(S) /\ In(Head(q), q)
           /\ \A g : In(g, Tail(q)) => In(g, q)
  <1>1. Head(q) \in S /\ Tail(q) \in Seq(S) /\ Len(q) \in Nat \ {0} /\ Head(q) = q[1]
    OBVIOUS
  <1>2. Len(Tail(q)) = Len(q) - 1 /\ \A i \in 1 .. Len(q) - 1 : Tail(q)[i] = q[i + 1]
    BY <1>1
  <1>3. In(Head(q), q)
    BY <1>1 DEF In
  <1>4. ASSUME NEW g, NEW i \in 1 .. Len(q) - 1, Tail(q)[i] = g PROVE In(g, q)
    <2>1. i + 1 \in 1 .. Len(q) /\ q[i + 1] = g
      BY <1>1, <1>2, <1>4
    <2>2. QED
      BY <2>1 DEF In
  <1>5. QED
    BY <1>1, <1>2, <1>3, <1>4 DEF In

LEMMA InArrived ==
    ASSUME NEW S, NEW q \in Seq(S), NEW p \in Arrived(q)
    PROVE  p \in Seq(S) /\ \A g : In(g, p) => In(g, q)
  <1>1. PICK n \in 0 .. Len(q) : p = SubSeq(q, 1, n)
    BY DEF Arrived
  <1>2. p \in Seq(S) /\ Len(p) = n /\ \A i \in 1 .. n : p[i] = q[i]
    BY <1>1
  <1>3. QED
    BY <1>2 DEF In

LinkTypes ==
    /\ hub \in Links \cup {None}
    /\ link \in [Links -> {"none", "registering", "up", "closing", "clearing", "done"}]
    /\ writer \subseteq Links /\ relayEnd \subseteq Links /\ daemonEnd \subseteq Links
    /\ key \in [Links -> Keys] /\ dialed \in Nat /\ serving \in BOOLEAN

ReqStates == [st : {"idle", "hungup", "offline"}, link : {None}]
               \cup [st : {"sending", "waiting", "expiring", "answered",
                           "offline", "timeout", "hungup"}, link : Links]
StrStates == [st : {"idle", "upgrading", "opening", "open", "leaving", "done"},
              link : Links \cup {None}]
WorkStates == [st : {"none", "running", "replying", "over"}, link : Links \cup {None}]

ClientTypes ==
    /\ pending \subseteq Links \X Requests /\ streams \subseteq Links \X Streams
    /\ req \in [Requests -> ReqStates] /\ str \in [Streams -> StrStates]
    /\ events \in [Streams -> Seq({"data", "close"})]

FrameTypes == down \in [Links -> Seq(Frames)] /\ up \in [Links -> Seq(Frames)]

DaemonTypes ==
    /\ work \in [Requests -> WorkStates]
    /\ bridge \in [Streams -> {"none", "running", "ending", "over"}]
    /\ handles \subseteq Streams /\ spawned \subseteq Streams /\ served \subseteq Requests

LEMMA Types == TypeOK <=> LinkTypes /\ ClientTypes /\ FrameTypes /\ DaemonTypes
  BY DEF TypeOK, LinkTypes, ClientTypes, FrameTypes, DaemonTypes, ReqStates, StrStates, WorkStates

\* The frames that are sent.
LEMMA FrameKinds ==
    /\ \A r \in Requests, t \in {"request", "response"} : [type |-> t, id |-> r] \in Frames
    /\ \A s \in Streams, t \in {"open", "data", "close"} : [type |-> t, id |-> s] \in Frames
    /\ \A f \in Frames : /\ f = [type |-> f.type, id |-> f.id]
                         /\ f.type \in {"request", "response"} => f.id \in Requests
                         /\ f.type \in {"open", "data", "close"} => f.id \in Streams
  BY DEF Frames

LEMMA InitRelay == Init => RelayInv
  <1> SUFFICES ASSUME Init PROVE RelayInv
    OBVIOUS
  <1>1. PICK come \in Parties :
          /\ req = [r \in Requests |-> At(IF r \in come THEN "idle" ELSE "hungup", None)]
          /\ str = [s \in Streams |-> At(IF s \in come THEN "idle" ELSE "done", None)]
    BY DEF Init
  <1>2. LinkTypes
    BY DEF Init, LinkTypes, Links, None, Keyings
  <1>3. FrameTypes
    BY DEF Init, FrameTypes
  <1>4. DaemonTypes
    BY DEF Init, DaemonTypes, WorkStates, At
  <1>5. ClientTypes
    BY <1>1 DEF Init, ClientTypes, ReqStates, StrStates, At, None
  <1>6. LinksInv /\ StreamsInv
    BY <1>1 DEF Init, LinksInv, StreamsInv, At
  <1>7. UnsentInv
    BY InEmpty DEF Init, UnsentInv, Unsent, NotYet, At
  <1>8. PendingHasItsHandler /\ BridgeCanBeAborted
    BY <1>1 DEF Init, PendingHasItsHandler, BridgeCanBeAborted, At
  <1>9. QED
    BY <1>2, <1>3, <1>4, <1>5, <1>6, <1>7, <1>8, Types DEF RelayInv

-----------------------------------------------------------------------------
(* Links.                                                                  *)

LEMMA LinkStep == RelayInv /\ [Next]_vars => LinkTypes' /\ LinksInv'
  <1> SUFFICES ASSUME RelayInv, [Next]_vars PROVE LinkTypes' /\ LinksInv'
    OBVIOUS
  <1> LinkTypes /\ LinksInv
    BY Types DEF RelayInv
  <1>1. CASE Dial
    <2>1. dialed + 1 \in Links
      BY <1>1 DEF Dial, LinkTypes, Links
    <2>2. QED
      BY <1>1, <2>1 DEF Dial, LinkTypes, LinksInv
  <1>2. ASSUME NEW l \in Links,
               \/ Register(l) \/ Reject(l) \/ NoRegister(l) \/ ReaderEnds(l) \/ WriterEnds(l)
               \/ Unregister(l) \/ ClearStreams(l)
        PROVE  LinkTypes' /\ LinksInv'
    <2>1. PICK st \in {"up", "closing", "clearing", "done"} :
            /\ SetLink(l, st)
            /\ st = "up" => l \in writer'
            /\ writer \ {l} \subseteq writer' /\ writer' \subseteq Links
            /\ hub' \in {l, None, hub} /\ relayEnd' \subseteq relayEnd
            /\ UNCHANGED <<daemonEnd, key, dialed, serving>>
      BY <1>2 DEF Register, Reject, NoRegister,
                  ReaderEnds, WriterEnds, Unregister, HubAfterCleanup, ClearStreams,
                  daemonVars, LinkTypes
    <2>2. QED
      BY <2>1 DEF SetLink, LinkTypes, LinksInv
  <1>3. ASSUME NEW l \in Links, RelayLoses(l) \/ DaemonLoses(l) \/ WriterDropped(l)
        PROVE  LinkTypes' /\ LinksInv'
    BY <1>3 DEF RelayLoses, DaemonLoses, WriterDropped, daemonVars, LinkTypes, LinksInv
  <1>4. CASE UNCHANGED <<linkVars, key, dialed>> /\ (serving' = serving \/ serving' = FALSE)
    <2>1. UNCHANGED <<hub, link, writer, relayEnd, daemonEnd, key, dialed>>
      BY <1>4 DEF linkVars
    <2>2. (serving' => serving) /\ serving' \in BOOLEAN
      <3>1. serving \in BOOLEAN
        BY DEF LinkTypes
      <3>2. CASE serving' = serving
        BY <3>1, <3>2
      <3>3. CASE serving' = FALSE
        BY <3>3
      <3>4. QED
        BY <1>4, <3>2, <3>3
    <2>3. LinkTypes'
      BY <2>1, <2>2 DEF LinkTypes
    <2>4. LinksInv'
      BY <2>1, <2>2 DEF LinksInv
    <2>5. QED
      BY <2>3, <2>4
  <1>5. QED
    <2>1. CASE Teardown \/ StoreHandle \/ UNCHANGED vars
      BY <1>4, <2>1 DEF Teardown, StoreHandle, vars, daemonVars
    <2>2. ASSUME NEW l \in Links, DaemonReads(l) \/ RelayReads(l) PROVE LinkTypes' /\ LinksInv'
      BY <1>4, <2>2 DEF DaemonReads, RelayReads, daemonVars
    <2>3. ASSUME NEW r \in Requests, \/ Forward(r) \/ SendRequest(r) \/ Timeout(r) \/ Expire(r)
                                     \/ HangUp(r) \/ Execute(r) \/ Reply(r)
          PROVE  LinkTypes' /\ LinksInv'
      BY <1>4, <2>3 DEF Forward, SendRequest, Timeout, Expire, HangUp, Execute, Reply, daemonVars
    <2>4. ASSUME NEW s \in Streams, \/ OpenStream(s) \/ InsertStream(s) \/ SendOpen(s) \/ Deliver(s)
                                    \/ ClientCloses(s) \/ EndOfStream(s) \/ CloseStream(s)
                                    \/ BridgeSends(s) \/ BridgeEnds(s) \/ BridgeCloses(s)
          PROVE  LinkTypes' /\ LinksInv'
      BY <1>4, <2>4 DEF OpenStream, InsertStream, SendOpen, Deliver, ClientCloses, EndOfStream,
                        Leave, CloseStream, BridgeSends, BridgeEnds, BridgeCloses, daemonVars
    <2>5. QED
      BY <1>1, <1>2, <1>3, <2>1, <2>2, <2>3, <2>4 DEF Next

-----------------------------------------------------------------------------
(* Requests and streams of the remote clients.                             *)

Forwarding == {"sending", "waiting", "expiring", "answered", "offline", "timeout", "hungup"}

LEMMA RequestSet ==
    ASSUME ClientTypes, NEW r \in Requests, NEW st \in Forwarding, NEW l \in Links, SetReq(r, st, l)
    PROVE  /\ req' \in [Requests -> ReqStates]
           /\ req'[r].st = st /\ req'[r].link = l
           /\ \A q \in Requests \ {r} : req'[q] = req[q]
  <1>1. At(st, l) \in ReqStates /\ At(st, l).st = st /\ At(st, l).link = l
    BY DEF At, ReqStates, Forwarding
  <1>2. QED
    BY <1>1 DEF SetReq, ClientTypes

LEMMA RequestLinked ==
    ASSUME ClientTypes, NEW r \in Requests, req[r].st \in {"sending", "waiting", "expiring"}
    PROVE  req[r].link \in Links
  <1>1. req[r] \in ReqStates
    BY DEF ClientTypes
  <1>2. QED
    BY <1>1 DEF ReqStates

LEMMA StreamSet ==
    ASSUME ClientTypes, StreamsInv, NEW s \in Streams,
           NEW st \in {"upgrading", "opening", "open", "leaving", "done"}, NEW l \in Links \cup {None},
           st # "done" => l \in Links, SetStr(s, st, l)
    PROVE  str' \in [Streams -> StrStates] /\ StreamsInv'
  <1>1. At(st, l) \in StrStates /\ At(st, l).st = st /\ At(st, l).link = l
    BY DEF At, StrStates
  <1>2. QED
    BY <1>1 DEF SetStr, ClientTypes, StreamsInv

LEMMA ClientStep == RelayInv /\ [Next]_vars => ClientTypes' /\ StreamsInv'
  <1> SUFFICES ASSUME RelayInv, [Next]_vars PROVE ClientTypes' /\ StreamsInv'
    OBVIOUS
  <1> LinkTypes /\ ClientTypes /\ FrameTypes /\ StreamsInv
    BY Types DEF RelayInv
  <1>1. ASSUME UNCHANGED <<str, events>>, pending' \subseteq Links \X Requests,
               streams' \subseteq streams, req' \in [Requests -> ReqStates]
        PROVE  ClientTypes' /\ StreamsInv'
    BY <1>1 DEF ClientTypes, StreamsInv
  <1>2. ASSUME NEW r \in Requests, Forward(r) PROVE ClientTypes' /\ StreamsInv'
    <2>1. CASE HubLinked
      <3>1. hub \in Links /\ SetReq(r, "sending", hub) /\ pending' = pending \cup {<<hub, r>>}
        BY <1>2, <2>1 DEF Forward, HubLinked, LinkTypes
      <3>2. req' \in [Requests -> ReqStates]
        BY <3>1, RequestSet DEF Forwarding
      <3>3. pending' \subseteq Links \X Requests
        BY <3>1 DEF ClientTypes
      <3>4. QED
        BY <1>1, <1>2, <3>2, <3>3 DEF Forward
    <2>2. CASE ~HubLinked
      <3>1. At("offline", None) \in ReqStates
        BY DEF At, ReqStates
      <3>2. req' \in [Requests -> ReqStates] /\ pending' \subseteq Links \X Requests
        BY <1>2, <2>2, <3>1 DEF Forward, SetReq, ClientTypes
      <3>3. QED
        BY <1>1, <1>2, <3>2 DEF Forward
    <2>3. QED
      BY <2>1, <2>2
  <1>3. ASSUME NEW r \in Requests, SendRequest(r) \/ Timeout(r) \/ Expire(r) \/ HangUp(r)
        PROVE  ClientTypes' /\ StreamsInv'
    <2>1. req[r].link \in Links
      BY <1>3, RequestLinked DEF SendRequest, Timeout, Expire, HangUp
    <2>2. \E st \in Forwarding : SetReq(r, st, req[r].link)
      BY <1>3 DEF SendRequest, Timeout, Expire, ExpiredAnswer, HangUp, Forwarding
    <2>3. UNCHANGED <<str, events, streams>> /\ pending' \subseteq pending
      BY <1>3 DEF SendRequest, Timeout, Expire, Forget, HangUp
    <2>4. QED
      BY <1>1, <2>1, <2>2, <2>3, RequestSet DEF ClientTypes
  <1>4. ASSUME NEW l \in Links, RelayReads(l) PROVE ClientTypes' /\ StreamsInv'
    <2> DEFINE f == Head(up[l])
    <2>1. f \in Frames
      BY <1>4, InTail DEF RelayReads, FrameTypes
    <2>2. CASE f.type = "response"
      <3>1. f.id \in Requests
        BY <2>1, <2>2, FrameKinds
      <3>2. req' = req \/ SetReq(f.id, "answered", l)
        BY <1>4, <2>2 DEF RelayReads
      <3>3. req' \in [Requests -> ReqStates]
        BY <3>1, <3>2, RequestSet DEF Forwarding, ClientTypes
      <3>4. UNCHANGED <<str, events, streams>> /\ pending' \subseteq pending
        BY <1>4, <2>2 DEF RelayReads
      <3>5. QED
        BY <1>1, <3>3, <3>4 DEF ClientTypes
    <2>3. CASE f.type \in {"data", "close"}
      <3>1. f.id \in Streams
        BY <2>1, <2>3, FrameKinds
      <3>2. events' \in [Streams -> Seq({"data", "close"})]
        <4>1. Append(events[f.id], f.type) \in Seq({"data", "close"})
          BY <2>3, <3>1 DEF ClientTypes
        <4>2. events' \in {events, [events EXCEPT ![f.id] = Append(@, f.type)]}
          BY <1>4, <2>3 DEF RelayReads
        <4>3. QED
          BY <3>1, <4>1, <4>2 DEF ClientTypes
      <3>3. UNCHANGED <<str, req, pending>> /\ streams' \subseteq streams
        BY <1>4, <2>3 DEF RelayReads
      <3>4. QED
        BY <3>2, <3>3 DEF ClientTypes, StreamsInv
    <2>4. QED
      BY <1>4, <2>2, <2>3 DEF RelayReads
  <1>5. ASSUME NEW s \in Streams, OpenStream(s) PROVE ClientTypes' /\ StreamsInv'
    <2>1. SetStr(s, "done", None) \/ (hub \in Links /\ SetStr(s, "upgrading", hub))
      BY <1>5 DEF OpenStream, LinkTypes
    <2>2. str' \in [Streams -> StrStates] /\ StreamsInv'
      BY <2>1, StreamSet
    <2>3. QED
      BY <1>5, <2>2 DEF OpenStream, ClientTypes
  <1>6. ASSUME NEW s \in Streams, InsertStream(s) \/ SendOpen(s) \/ Leave(s) \/ CloseStream(s)
        PROVE  ClientTypes' /\ StreamsInv'
    <2>1. str[s].link \in Links
      BY <1>6 DEF InsertStream, SendOpen, Leave, CloseStream, StreamsInv
    <2>2. \E st \in {"opening", "open", "leaving", "done"} : SetStr(s, st, str[s].link)
      BY <1>6 DEF InsertStream, SendOpen, Leave, CloseStream
    <2>3. str' \in [Streams -> StrStates] /\ StreamsInv'
      BY <2>1, <2>2, StreamSet
    <2>4. UNCHANGED <<pending, req, events>> /\ streams' \subseteq Links \X Streams
      BY <1>6, <2>1 DEF InsertStream, SendOpen, Leave, CloseStream, ClientTypes
    <2>5. QED
      BY <2>3, <2>4 DEF ClientTypes
  <1>7. ASSUME NEW s \in Streams, Deliver(s) PROVE ClientTypes' /\ StreamsInv'
    <2>1. Tail(events[s]) \in Seq({"data", "close"})
      BY <1>7 DEF Deliver, ClientTypes
    <2>2. QED
      BY <1>7, <2>1 DEF Deliver, ClientTypes, StreamsInv
  <1>8. CASE UNCHANGED <<pending, req, str, events>> /\ streams' \subseteq streams
    BY <1>1, <1>8 DEF ClientTypes
  <1>9. QED
    <2>1. CASE Dial \/ Teardown \/ StoreHandle \/ UNCHANGED vars
      BY <1>8, <2>1 DEF Dial, Teardown, StoreHandle, vars, clientVars
    <2>2. ASSUME NEW l \in Links, \/ Register(l) \/ Reject(l) \/ NoRegister(l) \/ RelayLoses(l) \/ DaemonLoses(l)
                                  \/ ReaderEnds(l) \/ WriterEnds(l)
                                  \/ WriterDropped(l) \/ Unregister(l) \/ ClearStreams(l) \/ DaemonReads(l)
          PROVE  ClientTypes' /\ StreamsInv'
      BY <1>8, <2>2 DEF Register, Reject, NoRegister, RelayLoses, DaemonLoses,
                        ReaderEnds, WriterEnds, WriterDropped, Unregister,
                        ClearStreams, DaemonReads, clientVars
    <2>3. ASSUME NEW r \in Requests, Execute(r) \/ Reply(r) PROVE ClientTypes' /\ StreamsInv'
      BY <1>8, <2>3 DEF Execute, Reply, clientVars
    <2>4. ASSUME NEW s \in Streams, BridgeSends(s) \/ BridgeEnds(s) \/ BridgeCloses(s)
          PROVE  ClientTypes' /\ StreamsInv'
      BY <1>8, <2>4 DEF BridgeSends, BridgeEnds, BridgeCloses, clientVars
    <2>5. QED
      BY <1>2, <1>3, <1>4, <1>5, <1>6, <1>7, <2>1, <2>2, <2>3, <2>4 DEF Next, ClientCloses, EndOfStream

-----------------------------------------------------------------------------
(* Frames and the daemon's tasks.                                          *)

\* What is lost with an end of a link, a reader or a daemon's connection: nothing new
\* is in any queue.
Shrunk ==
    \A l \in Links : \A g : (In(g, down'[l]) => In(g, down[l])) /\ (In(g, up'[l]) => In(g, up[l]))

LEMMA FramesLost ==
    ASSUME LinkTypes, FrameTypes, LinksInv,
           \/ Teardown
           \/ \E l \in Links : RelayLoses(l) \/ DaemonLoses(l) \/ ReaderEnds(l) \/ WriterEnds(l)
    PROVE  FrameTypes' /\ Shrunk
  <1>1. ASSUME NEW l \in Links, NEW q \in Seq(Frames), \A g : In(g, q) => In(g, down[l]),
               down' = [down EXCEPT ![l] = q], UNCHANGED up
        PROVE  FrameTypes' /\ Shrunk
    BY <1>1 DEF FrameTypes, Shrunk
  <1>2. ASSUME NEW l \in Links, NEW q \in Seq(Frames), \A g : In(g, q) => In(g, up[l]),
               up' = [up EXCEPT ![l] = q], UNCHANGED down
        PROVE  FrameTypes' /\ Shrunk
    BY <1>2 DEF FrameTypes, Shrunk
  <1>3. <<>> \in Seq(Frames) /\ \A g : ~In(g, <<>>)
    BY InEmpty
  <1>4. CASE Teardown
    <2>1. dialed \in Links
      BY <1>4 DEF Teardown, LinksInv
    <2>2. QED
      BY <1>1, <1>3, <1>4, <2>1 DEF Teardown
  <1>5. ASSUME NEW l \in Links, RelayLoses(l) PROVE FrameTypes' /\ Shrunk
    <2>1. PICK q \in Arrived(down[l]) : down' = [down EXCEPT ![l] = q] /\ UNCHANGED up
      BY <1>5 DEF RelayLoses
    <2>2. q \in Seq(Frames) /\ \A g : In(g, q) => In(g, down[l])
      BY InArrived DEF FrameTypes
    <2>3. QED
      BY <1>1, <2>1, <2>2
  <1>6. ASSUME NEW l \in Links, DaemonLoses(l) PROVE FrameTypes' /\ Shrunk
    <2>1. PICK q \in Arrived(up[l]) : up' = [up EXCEPT ![l] = q] /\ UNCHANGED down
      BY <1>6 DEF DaemonLoses
    <2>2. q \in Seq(Frames) /\ \A g : In(g, q) => In(g, up[l])
      BY InArrived DEF FrameTypes
    <2>3. QED
      BY <1>2, <2>1, <2>2
  <1>7. ASSUME NEW l \in Links, ReaderEnds(l) \/ WriterEnds(l) PROVE FrameTypes' /\ Shrunk
    BY <1>2, <1>3, <1>7 DEF ReaderEnds, WriterEnds, DropUp
  <1>8. QED
    BY <1>4, <1>5, <1>6, <1>7

\* A step appends one frame to a queue, takes the first of one, or loses those
\* of a link.
LEMMA FrameStep == RelayInv /\ [Next]_vars => FrameTypes'
  <1> SUFFICES ASSUME RelayInv, [Next]_vars PROVE FrameTypes'
    OBVIOUS
  <1> LinkTypes /\ ClientTypes /\ FrameTypes /\ DaemonTypes /\ LinksInv
    BY Types DEF RelayInv
  <1>1. ASSUME NEW l \in Links, NEW f \in Frames, SendDown(l, f), UNCHANGED up PROVE FrameTypes'
    <2>1. Append(down[l], f) \in Seq(Frames)
      BY InAppended DEF FrameTypes
    <2>2. QED
      BY <1>1, <2>1 DEF SendDown, FrameTypes
  <1>2. ASSUME NEW f \in Frames, SendUp(f), UNCHANGED down, serving PROVE FrameTypes'
    <2>1. dialed \in Links /\ Append(up[dialed], f) \in Seq(Frames)
      BY <1>2, InAppended DEF FrameTypes, LinksInv
    <2>2. QED
      BY <1>2, <2>1 DEF SendUp, FrameTypes
  <1>3. ASSUME \/ Teardown
               \/ \E l \in Links : RelayLoses(l) \/ DaemonLoses(l) \/ ReaderEnds(l) \/ WriterEnds(l)
        PROVE  FrameTypes'
    BY <1>3, FramesLost
  <1>4. ASSUME NEW l \in Links, DaemonReads(l) \/ RelayReads(l) PROVE FrameTypes'
    <2>1. CASE DaemonReads(l)
      <3>1. Tail(down[l]) \in Seq(Frames)
        BY <2>1, InTail DEF DaemonReads, FrameTypes
      <3>2. QED
        BY <2>1, <3>1 DEF DaemonReads, FrameTypes
    <2>2. CASE RelayReads(l)
      <3>1. Tail(up[l]) \in Seq(Frames)
        BY <2>2, InTail DEF RelayReads, FrameTypes
      <3>2. QED
        BY <2>2, <3>1 DEF RelayReads, FrameTypes
    <2>3. QED
      BY <1>4, <2>1, <2>2
  <1>5. ASSUME NEW r \in Requests, SendRequest(r) PROVE FrameTypes'
    <2>1. [type |-> "request", id |-> r] \in Frames
      BY FrameKinds
    <2>2. CASE UNCHANGED <<down, up>>
      BY <2>2 DEF FrameTypes
    <2>3. CASE SendDown(req[r].link, [type |-> "request", id |-> r]) /\ UNCHANGED up
      BY <1>1, <1>5, <2>1, <2>3, RequestLinked DEF SendRequest
    <2>4. QED
      BY <1>5, <2>2, <2>3 DEF SendRequest
  <1>6. ASSUME NEW s \in Streams, SendOpen(s) \/ CloseStream(s) PROVE FrameTypes'
    <2>1. [type |-> "open", id |-> s] \in Frames /\ [type |-> "close", id |-> s] \in Frames
      BY FrameKinds
    <2>2. CASE UNCHANGED <<down, up>>
      BY <2>2 DEF FrameTypes
    <2>3. CASE /\ str[s].link \in Links /\ UNCHANGED up
               /\ \/ SendDown(str[s].link, [type |-> "open", id |-> s])
                  \/ SendDown(str[s].link, [type |-> "close", id |-> s])
      BY <1>1, <2>1, <2>3
    <2>4. QED
      BY <1>6, <2>2, <2>3 DEF SendOpen, CloseStream, TellDaemon, LinkTypes
  <1>7. ASSUME NEW r \in Requests, Reply(r) PROVE FrameTypes'
    <2>1. [type |-> "response", id |-> r] \in Frames
      BY FrameKinds
    <2>2. CASE UNCHANGED <<down, up>>
      BY <2>2 DEF FrameTypes
    <2>3. QED
      BY <1>2, <1>7, <2>1, <2>2 DEF Reply, Linked
  <1>8. ASSUME NEW s \in Streams, BridgeSends(s) \/ BridgeCloses(s) PROVE FrameTypes'
    <2>1. [type |-> "data", id |-> s] \in Frames /\ [type |-> "close", id |-> s] \in Frames
      BY FrameKinds
    <2>2. CASE UNCHANGED <<down, up>>
      BY <2>2 DEF FrameTypes
    <2>3. QED
      BY <1>2, <1>8, <2>1, <2>2 DEF BridgeSends, BridgeCloses
  <1>9. CASE UNCHANGED <<down, up>>
    BY <1>9 DEF FrameTypes
  <1>10. QED
    <2>1. CASE Dial \/ Teardown \/ StoreHandle \/ UNCHANGED vars
      BY <1>3, <1>9, <2>1 DEF Dial, StoreHandle, vars
    <2>2. ASSUME NEW l \in Links, \/ Register(l) \/ Reject(l) \/ NoRegister(l) \/ RelayLoses(l) \/ DaemonLoses(l)
                                  \/ ReaderEnds(l) \/ WriterEnds(l)
                                  \/ WriterDropped(l) \/ Unregister(l) \/ ClearStreams(l)
          PROVE  FrameTypes'
      BY <1>3, <1>9, <2>2 DEF Register, Reject, NoRegister, WriterDropped, Unregister, ClearStreams
    <2>3. ASSUME NEW r \in Requests, Forward(r) \/ Timeout(r) \/ Expire(r) \/ HangUp(r) \/ Execute(r)
          PROVE  FrameTypes'
      BY <1>9, <2>3 DEF Forward, Timeout, Expire, HangUp, Execute
    <2>4. ASSUME NEW s \in Streams, \/ OpenStream(s) \/ InsertStream(s) \/ Deliver(s)
                                    \/ ClientCloses(s) \/ EndOfStream(s) \/ BridgeEnds(s)
          PROVE  FrameTypes'
      BY <1>9, <2>4 DEF OpenStream, InsertStream, Deliver, ClientCloses, EndOfStream, Leave, BridgeEnds
    <2>5. QED
      BY <1>4, <1>5, <1>6, <1>7, <1>8, <2>1, <2>2, <2>3, <2>4 DEF Next

LEMMA DaemonStep == RelayInv /\ [Next]_vars => DaemonTypes' /\ BridgeCanBeAborted'
  <1> SUFFICES ASSUME RelayInv, [Next]_vars PROVE DaemonTypes' /\ BridgeCanBeAborted'
    OBVIOUS
  <1> FrameTypes /\ DaemonTypes /\ BridgeCanBeAborted
    BY Types DEF RelayInv
  <1>1. ASSUME NEW r \in Requests, NEW st \in {"none", "running", "replying", "over"},
               NEW l \in Links \cup {None}, work' = [work EXCEPT ![r] = At(st, l)]
        PROVE  work' \in [Requests -> WorkStates]
    <2>1. At(st, l) \in WorkStates
      BY DEF At, WorkStates
    <2>2. QED
      BY <1>1, <2>1 DEF DaemonTypes
  <1>2. ASSUME NEW l \in Links, DaemonReads(l) PROVE DaemonTypes' /\ BridgeCanBeAborted'
    <2> DEFINE f == Head(down[l])
    <2>1. f \in Frames
      BY <1>2, InTail DEF DaemonReads, FrameTypes
    <2>2. serving /\ spawned = {} /\ UNCHANGED <<serving, served>>
      BY <1>2 DEF DaemonReads, Linked
    <2>3. CASE f.type = "request"
      <3>1. f.id \in Requests
        BY <2>1, <2>3, FrameKinds
      <3>2. work' = [work EXCEPT ![f.id] = At("running", l)] /\ UNCHANGED <<bridge, handles, spawned>>
        BY <1>2, <2>3 DEF DaemonReads
      <3>3. work' \in [Requests -> WorkStates]
        BY <1>1, <3>1, <3>2
      <3>4. QED
        BY <2>2, <3>2, <3>3 DEF DaemonTypes, BridgeCanBeAborted
    <2>4. CASE f.type = "open"
      <3>1. f.id \in Streams
        BY <2>1, <2>4, FrameKinds
      <3>2. /\ bridge' = [bridge EXCEPT ![f.id] = "running"] /\ spawned' = {f.id}
            /\ UNCHANGED <<work, handles>>
        BY <1>2, <2>4 DEF DaemonReads
      <3>3. QED
        BY <2>2, <3>1, <3>2 DEF DaemonTypes, BridgeCanBeAborted
    <2>5. CASE f.type = "close"
      <3>1. f.id \in Streams
        BY <2>1, <2>5, FrameKinds
      <3>2. /\ handles' = handles \ {f.id}
            /\ bridge' = [bridge EXCEPT ![f.id] = IF f.id \in handles THEN "over" ELSE @]
            /\ UNCHANGED <<work, spawned>>
        BY <1>2, <2>5 DEF DaemonReads
      <3>3. QED
        BY <2>2, <3>1, <3>2 DEF DaemonTypes, BridgeCanBeAborted
    <2>6. QED
      BY <1>2, <2>3, <2>4, <2>5 DEF DaemonReads
  <1>3. ASSUME NEW r \in Requests, Execute(r) \/ Reply(r) PROVE DaemonTypes' /\ BridgeCanBeAborted'
    <2>1. UNCHANGED <<bridge, handles, spawned, serving>> /\ served' \in {served, served \cup {r}}
      BY <1>3 DEF Execute, Reply
    <2>2. \E st \in {"replying", "over"} : work' = [work EXCEPT ![r].st = st]
      BY <1>3 DEF Execute, Reply
    <2>3. work' \in [Requests -> WorkStates]
      BY <2>2 DEF DaemonTypes, WorkStates
    <2>4. QED
      BY <2>1, <2>3 DEF DaemonTypes, BridgeCanBeAborted
  <1>4. ASSUME NEW s \in Streams, BridgeEnds(s) \/ BridgeCloses(s) PROVE DaemonTypes' /\ BridgeCanBeAborted'
    BY <1>4 DEF BridgeEnds, BridgeCloses, DaemonTypes, BridgeCanBeAborted
  <1>5. CASE Teardown
    BY <1>5 DEF Teardown, AbortAll, DaemonTypes, BridgeCanBeAborted
  <1>6. CASE StoreHandle
    BY <1>6 DEF StoreHandle, DaemonTypes, BridgeCanBeAborted
  <1>7. CASE UNCHANGED <<work, bridge, handles, spawned, served>> /\ (serving' = serving \/ serving')
    BY <1>7 DEF DaemonTypes, BridgeCanBeAborted
  <1>8. QED
    <2>1. CASE Dial \/ UNCHANGED vars
      BY <1>7, <2>1 DEF Dial, vars, daemonVars
    <2>2. ASSUME NEW l \in Links, \/ Register(l) \/ Reject(l) \/ NoRegister(l) \/ RelayLoses(l) \/ DaemonLoses(l)
                                  \/ ReaderEnds(l) \/ WriterEnds(l)
                                  \/ WriterDropped(l) \/ Unregister(l) \/ ClearStreams(l) \/ RelayReads(l)
          PROVE  DaemonTypes' /\ BridgeCanBeAborted'
      BY <1>7, <2>2 DEF Register, Reject, NoRegister, RelayLoses, DaemonLoses,
                        ReaderEnds, WriterEnds, WriterDropped, Unregister,
                        ClearStreams, RelayReads, daemonVars
    <2>3. ASSUME NEW r \in Requests, \/ Forward(r) \/ SendRequest(r) \/ Timeout(r) \/ Expire(r) \/ HangUp(r)
          PROVE  DaemonTypes' /\ BridgeCanBeAborted'
      BY <1>7, <2>3 DEF Forward, SendRequest, Timeout, Expire, HangUp, daemonVars
    <2>4. ASSUME NEW s \in Streams, \/ OpenStream(s) \/ InsertStream(s) \/ SendOpen(s) \/ Deliver(s)
                                    \/ ClientCloses(s) \/ EndOfStream(s) \/ CloseStream(s) \/ BridgeSends(s)
          PROVE  DaemonTypes' /\ BridgeCanBeAborted'
      BY <1>7, <2>4 DEF OpenStream, InsertStream, SendOpen, Deliver, ClientCloses, EndOfStream, Leave,
                        CloseStream, BridgeSends, daemonVars
    <2>5. QED
      BY <1>2, <1>3, <1>4, <1>5, <1>6, <2>1, <2>2, <2>3, <2>4 DEF Next

-----------------------------------------------------------------------------
(* What was not sent, and what is awaited.                                 *)

\* Every frame that a step puts into a queue is one of these.
LEMMA UnsentStep == RelayInv /\ [Next]_vars => UnsentInv'
  <1> SUFFICES ASSUME RelayInv, [Next]_vars PROVE UnsentInv'
    OBVIOUS
  <1> LinkTypes /\ ClientTypes /\ FrameTypes /\ DaemonTypes /\ LinksInv /\ UnsentInv
    BY Types DEF RelayInv
  \* No request becomes unsent, and what a step does with the others is free.
  <1>1. ASSUME Unsent' \subseteq Unsent, served' \subseteq served,
               \A r \in Unsent' :
                 /\ work[r].st = "none" => work'[r].st = "none"
                 /\ \A l \in Links :
                      /\ In([type |-> "request", id |-> r], down'[l])
                           => In([type |-> "request", id |-> r], down[l])
                      /\ In([type |-> "response", id |-> r], up'[l])
                           => In([type |-> "response", id |-> r], up[l])
        PROVE  UnsentInv'
    <2> SUFFICES ASSUME NEW r \in Unsent' PROVE NotYet(r)'
      BY DEF UnsentInv
    <2>1. NotYet(r)
      BY <1>1 DEF UnsentInv
    <2>2. QED
      BY <1>1, <2>1 DEF NotYet
  <1>2. ASSUME Unsent' \subseteq Unsent, UNCHANGED <<served, work>>,
               \A l \in Links : /\ \A g \in Frames : g.type = "request" /\ In(g, down'[l]) => In(g, down[l])
                                /\ \A g \in Frames : g.type = "response" /\ In(g, up'[l]) => In(g, up[l])
        PROVE  UnsentInv'
    <2>1. \A r \in Unsent' : /\ r \in Requests
                             /\ [type |-> "request", id |-> r] \in Frames
                             /\ [type |-> "response", id |-> r] \in Frames
      BY FrameKinds DEF Unsent
    <2>2. QED
      BY <1>1, <1>2, <2>1
  \* A stream's frame is not a request's.
  <1>3. ASSUME NEW l \in Links, NEW f \in Frames, f.type \in {"open", "close"}, SendDown(l, f)
        PROVE  \A k \in Links, g \in Frames : g.type = "request" /\ In(g, down'[k]) => In(g, down[k])
    BY <1>3, InAppended DEF SendDown, FrameTypes
  <1>4. ASSUME NEW f \in Frames, f.type \in {"data", "close"}, SendUp(f), serving
        PROVE  \A k \in Links, g \in Frames : g.type = "response" /\ In(g, up'[k]) => In(g, up[k])
    BY <1>4, InAppended DEF SendUp, FrameTypes, LinksInv
  <1>5. ASSUME NEW r \in Requests, Forward(r) PROVE UnsentInv'
    <2>1. req[r].st = "idle" /\ \A q \in Requests \ {r} : req'[q] = req[q]
      BY <1>5 DEF Forward, SetReq, ClientTypes
    <2>2. Unsent' \subseteq Unsent
      BY <2>1 DEF Unsent
    <2>3. QED
      BY <1>2, <1>5, <2>2 DEF Forward, linkVars, daemonVars
  <1>6. ASSUME NEW r \in Requests, SendRequest(r) PROVE UnsentInv'
    <2>1. req[r].link \in Links /\ req[r].st = "sending" /\ UNCHANGED <<served, work, up>>
      BY <1>6, RequestLinked DEF SendRequest, daemonVars
    <2>2. CASE SetReq(r, "waiting", req[r].link) /\ SendDown(req[r].link, [type |-> "request", id |-> r])
      <3>1. r \notin Unsent' /\ Unsent' \subseteq Unsent
        BY <2>1, <2>2, RequestSet DEF Unsent, Forwarding
      <3>2. \A k \in Links : \A g : In(g, down'[k]) => g = [type |-> "request", id |-> r] \/ In(g, down[k])
        BY <2>1, <2>2, FrameKinds, InAppended DEF SendDown, FrameTypes
      <3>3. \A q \in Unsent' : [type |-> "request", id |-> q] # [type |-> "request", id |-> r]
        BY <3>1
      <3>4. QED
        BY <1>1, <2>1, <3>1, <3>2, <3>3
    <2>3. CASE SetReq(r, "offline", req[r].link) /\ UNCHANGED down
      <3>1. Unsent' \subseteq Unsent
        BY <2>1, <2>3, RequestSet DEF Unsent, Forwarding
      <3>2. QED
        BY <1>2, <2>1, <2>3, <3>1
    <2>4. QED
      BY <1>6, <2>2, <2>3 DEF SendRequest
  <1>7. ASSUME NEW r \in Requests, Timeout(r) \/ Expire(r) \/ HangUp(r) PROVE UnsentInv'
    <2>1. req[r].link \in Links
      BY <1>7, RequestLinked DEF Timeout, Expire, HangUp
    <2>2. \E st \in {"expiring", "timeout", "hungup"} : SetReq(r, st, req[r].link)
      BY <1>7 DEF Timeout, Expire, ExpiredAnswer, HangUp
    <2>3. Unsent' \subseteq Unsent
      BY <2>1, <2>2, RequestSet DEF Unsent, Forwarding
    <2>4. QED
      BY <1>2, <1>7, <2>3 DEF Timeout, Expire, HangUp, daemonVars
  <1>8. ASSUME NEW r \in Requests, Execute(r) \/ Reply(r) PROVE UnsentInv'
    <2>1. r \notin Unsent
      BY <1>8 DEF Execute, Reply, UnsentInv, NotYet
    <2>2. /\ Unsent' = Unsent /\ UNCHANGED down
          /\ served' \in {served, served \cup {r}}
          /\ \A q \in Requests \ {r} : work'[q] = work[q]
      BY <1>8 DEF Execute, Reply, clientVars, Unsent, DaemonTypes
    <2>3. \A k \in Links : \A g : In(g, up'[k]) => g = [type |-> "response", id |-> r] \/ In(g, up[k])
      <3>1. CASE UNCHANGED up
        BY <3>1
      <3>2. CASE SendUp([type |-> "response", id |-> r]) /\ serving
        <4>1. [type |-> "response", id |-> r] \in Frames
          BY FrameKinds
        <4>2. QED
          BY <3>2, <4>1, InAppended DEF SendUp, FrameTypes, LinksInv
      <3>3. QED
        BY <1>8, <3>1, <3>2 DEF Execute, Reply, Linked
    <2>4. ASSUME NEW q \in Unsent PROVE NotYet(q)'
      <3>1. NotYet(q) /\ q # r /\ q \in Requests
        BY <2>1, <2>4 DEF UnsentInv, Unsent
      <3>2. [type |-> "response", id |-> q] # [type |-> "response", id |-> r]
        BY <3>1
      <3>3. QED
        BY <2>2, <2>3, <3>1, <3>2 DEF NotYet
    <2>5. QED
      BY <2>2, <2>4 DEF UnsentInv
  <1>9. ASSUME NEW l \in Links, DaemonReads(l) PROVE UnsentInv'
    <2> DEFINE f == Head(down[l])
    <2>1. f \in Frames /\ In(f, down[l]) /\ \A k \in Links : \A g : In(g, down'[k]) => In(g, down[k])
      BY <1>9, InTail DEF DaemonReads, FrameTypes
    <2>2. Unsent' = Unsent /\ UNCHANGED <<up, served>>
      BY <1>9 DEF DaemonReads, clientVars, Unsent
    <2>3. ASSUME NEW q \in Unsent, work'[q] # work[q] PROVE FALSE
      <3>1. f.type = "request" /\ f.id = q
        <4>1. /\ f.type = "request"
              /\ work' = [work EXCEPT ![f.id] = At("running", l)]
          BY <1>9, <2>3 DEF DaemonReads
        <4>2. f.id \in Requests /\ q \in Requests
          BY <2>1, <4>1, FrameKinds DEF Unsent
        <4>3. QED
          BY <2>3, <4>1, <4>2 DEF DaemonTypes
      <3>2. f = [type |-> "request", id |-> q]
        BY <2>1, <3>1, FrameKinds
      <3>3. QED
        <4>1. NotYet(q)
          BY DEF UnsentInv
        <4>2. QED
          BY <2>1, <3>2, <4>1 DEF NotYet
    <2>4. QED
      BY <1>1, <2>1, <2>2, <2>3
  <1>10. ASSUME NEW l \in Links, RelayReads(l) PROVE UnsentInv'
    <2> DEFINE f == Head(up[l])
    <2>1. f \in Frames /\ \A k \in Links : \A g : In(g, up'[k]) => In(g, up[k])
      BY <1>10, InTail DEF RelayReads, FrameTypes
    <2>2. Unsent' \subseteq Unsent
      <3>1. CASE UNCHANGED req
        BY <3>1 DEF Unsent
      <3>2. CASE f.type = "response" /\ SetReq(f.id, "answered", l)
        BY <2>1, <3>2, FrameKinds, RequestSet DEF Unsent, Forwarding
      <3>3. QED
        BY <1>10, <3>1, <3>2 DEF RelayReads
    <2>3. QED
      BY <1>1, <1>10, <2>1, <2>2 DEF RelayReads, daemonVars
  <1>11. ASSUME \/ Teardown
                \/ \E l \in Links : RelayLoses(l) \/ DaemonLoses(l) \/ ReaderEnds(l) \/ WriterEnds(l)
         PROVE  UnsentInv'
    <2>1. Shrunk
      BY <1>11, FramesLost
    <2>2. UNCHANGED <<req, work, served>>
      BY <1>11 DEF Teardown, RelayLoses, DaemonLoses, ReaderEnds, WriterEnds, clientVars, daemonVars
    <2>3. QED
      BY <1>1, <2>1, <2>2 DEF Shrunk, Unsent
  <1>12. ASSUME NEW s \in Streams, SendOpen(s) \/ CloseStream(s) PROVE UnsentInv'
    <2>1. Unsent' = Unsent /\ UNCHANGED <<served, work, up>>
      BY <1>12 DEF SendOpen, CloseStream, daemonVars, Unsent
    <2>2. [type |-> "open", id |-> s] \in Frames /\ [type |-> "close", id |-> s] \in Frames
      BY FrameKinds
    <2>3. \/ UNCHANGED down
          \/ /\ str[s].link \in Links
             /\ \/ SendDown(str[s].link, [type |-> "open", id |-> s])
                \/ SendDown(str[s].link, [type |-> "close", id |-> s])
      BY <1>12 DEF SendOpen, CloseStream, TellDaemon, LinkTypes
    <2>4. \A k \in Links, g \in Frames : g.type = "request" /\ In(g, down'[k]) => In(g, down[k])
      BY <1>3, <2>2, <2>3
    <2>5. QED
      BY <1>2, <2>1, <2>4
  <1>13. ASSUME NEW s \in Streams, BridgeSends(s) \/ BridgeCloses(s) PROVE UnsentInv'
    <2>1. Unsent' = Unsent /\ UNCHANGED <<served, work, down>>
      BY <1>13 DEF BridgeSends, BridgeCloses, clientVars, daemonVars, Unsent
    <2>2. [type |-> "data", id |-> s] \in Frames /\ [type |-> "close", id |-> s] \in Frames
      BY FrameKinds
    <2>3. \/ UNCHANGED up
          \/ serving /\ SendUp([type |-> "data", id |-> s])
          \/ serving /\ SendUp([type |-> "close", id |-> s])
      BY <1>13 DEF BridgeSends, BridgeCloses
    <2>4. \A k \in Links, g \in Frames : g.type = "response" /\ In(g, up'[k]) => In(g, up[k])
      BY <1>4, <2>2, <2>3
    <2>5. QED
      BY <1>2, <2>1, <2>4
  <1>14. CASE UNCHANGED <<req, work, served, down, up>>
    BY <1>1, <1>14 DEF Unsent
  <1>15. QED
    <2>1. CASE Dial \/ Teardown \/ StoreHandle \/ UNCHANGED vars
      BY <1>11, <1>14, <2>1 DEF Dial, StoreHandle, vars, clientVars, daemonVars
    <2>2. ASSUME NEW l \in Links, \/ Register(l) \/ Reject(l) \/ NoRegister(l) \/ RelayLoses(l) \/ DaemonLoses(l)
                                  \/ ReaderEnds(l) \/ WriterEnds(l)
                                  \/ WriterDropped(l) \/ Unregister(l) \/ ClearStreams(l)
          PROVE  UnsentInv'
      BY <1>11, <1>14, <2>2 DEF Register, Reject, NoRegister, WriterDropped, Unregister, ClearStreams,
                                clientVars, daemonVars
    <2>3. ASSUME NEW s \in Streams, \/ OpenStream(s) \/ InsertStream(s) \/ Deliver(s)
                                    \/ ClientCloses(s) \/ EndOfStream(s) \/ BridgeEnds(s)
          PROVE  UnsentInv'
      BY <1>14, <2>3 DEF OpenStream, InsertStream, Deliver, ClientCloses, EndOfStream, Leave,
                         BridgeEnds, clientVars, daemonVars
    <2>4. QED
      BY <1>5, <1>6, <1>7, <1>8, <1>9, <1>10, <1>12, <1>13, <2>1, <2>2, <2>3 DEF Next

\* A waiter is put into the map before its request is sent, taken out by who
\* answers it or gives it up, and an answer comes for sent requests only.
LEMMA PendingStep == RelayInv /\ [Next]_vars => PendingHasItsHandler'
  <1> SUFFICES ASSUME RelayInv, [Next]_vars PROVE PendingHasItsHandler'
    OBVIOUS
  <1> LinkTypes /\ ClientTypes /\ FrameTypes /\ UnsentInv /\ PendingHasItsHandler
    BY Types DEF RelayInv
  <1> DEFINE Awaited(r) ==
        /\ req[r].st \in {"sending", "waiting"} => <<req[r].link, r>> \in pending
        /\ \A l \in Links : <<l, r>> \in pending =>
             req[r].link = l /\ req[r].st \in {"sending", "waiting", "expiring", "hungup"}
  <1>1. ASSUME NEW r \in Requests, Awaited(r)',
               \A q \in Requests \ {r} : req'[q] = req[q],
               \A q \in Requests \ {r} : \A l \in Links : <<l, q>> \in pending' <=> <<l, q>> \in pending
        PROVE  PendingHasItsHandler'
    <2>1. ASSUME NEW q \in Requests \ {r} PROVE Awaited(q)'
      <3>1. Awaited(q) /\ req'[q] = req[q]
        BY <1>1 DEF PendingHasItsHandler
      <3>2. req[q].st \in {"sending", "waiting"} => req[q].link \in Links
        BY RequestLinked
      <3>3. QED
        BY <1>1, <3>1, <3>2
    <2>2. QED
      BY <1>1, <2>1 DEF PendingHasItsHandler
  <1>2. ASSUME NEW r \in Requests, Forward(r) PROVE PendingHasItsHandler'
    <2>1. req[r].st = "idle" /\ \A l \in Links : <<l, r>> \notin pending
      BY <1>2 DEF Forward, PendingHasItsHandler
    <2>2. CASE HubLinked
      <3>1. hub \in Links /\ SetReq(r, "sending", hub) /\ pending' = pending \cup {<<hub, r>>}
        BY <1>2, <2>2 DEF Forward, HubLinked, LinkTypes
      <3>2. req'[r].st = "sending" /\ req'[r].link = hub /\ \A q \in Requests \ {r} : req'[q] = req[q]
        BY <3>1, RequestSet DEF Forwarding
      <3>3. QED
        BY <1>1, <2>1, <3>1, <3>2
    <2>3. CASE ~HubLinked
      <3>1. req' = [req EXCEPT ![r] = At("offline", None)] /\ UNCHANGED pending
        BY <1>2, <2>3 DEF Forward, SetReq
      <3>2. req'[r].st = "offline" /\ \A q \in Requests \ {r} : req'[q] = req[q]
        BY <3>1 DEF ClientTypes, At
      <3>3. QED
        BY <1>1, <2>1, <3>1, <3>2
    <2>4. QED
      BY <2>2, <2>3
  <1>3. ASSUME NEW r \in Requests, SendRequest(r) \/ Timeout(r) \/ Expire(r) \/ HangUp(r)
        PROVE  PendingHasItsHandler'
    <2>1. req[r].st \in {"sending", "waiting", "expiring"} /\ req[r].link \in Links
      BY <1>3, RequestLinked DEF SendRequest, Timeout, Expire, HangUp
    <2>2. /\ req[r].st \in {"sending", "waiting"} => <<req[r].link, r>> \in pending
          /\ \A l \in Links : <<l, r>> \in pending => l = req[r].link
      BY DEF PendingHasItsHandler
    <2>3. \/ /\ UNCHANGED pending /\ req[r].st \in {"sending", "waiting"}
             /\ \E st \in {"waiting", "expiring", "hungup"} : SetReq(r, st, req[r].link)
          \/ /\ pending' = pending \ {<<req[r].link, r>>}
             /\ \E st \in {"offline", "timeout"} : SetReq(r, st, req[r].link)
      BY <1>3 DEF SendRequest, Timeout, Expire, ExpiredAnswer, Forget, HangUp
    <2>4. CASE /\ UNCHANGED pending /\ req[r].st \in {"sending", "waiting"}
               /\ \E st \in {"waiting", "expiring", "hungup"} : SetReq(r, st, req[r].link)
      <3>1. PICK st \in {"waiting", "expiring", "hungup"} : SetReq(r, st, req[r].link)
        BY <2>4
      <3>2. st \in Forwarding
        BY DEF Forwarding
      <3>3. req'[r].st = st /\ req'[r].link = req[r].link /\ \A q \in Requests \ {r} : req'[q] = req[q]
        BY <2>1, <3>1, <3>2, RequestSet
      <3>4. QED
        BY <1>1, <2>2, <2>4, <3>3
    <2>5. CASE /\ pending' = pending \ {<<req[r].link, r>>}
               /\ \E st \in {"offline", "timeout"} : SetReq(r, st, req[r].link)
      <3>1. /\ req'[r].st \in {"offline", "timeout"}
            /\ \A q \in Requests \ {r} : req'[q] = req[q]
        BY <2>1, <2>5, RequestSet DEF Forwarding
      <3>2. \A l \in Links : <<l, r>> \notin pending'
        BY <2>2, <2>5
      <3>3. QED
        BY <1>1, <2>5, <3>1, <3>2
    <2>6. QED
      BY <2>3, <2>4, <2>5
  <1>4. ASSUME NEW l \in Links, RelayReads(l) PROVE PendingHasItsHandler'
    <2> DEFINE f == Head(up[l])
    <2>1. f \in Frames /\ In(f, up[l])
      BY <1>4, InTail DEF RelayReads, FrameTypes
    <2>2. CASE f.type = "response"
      <3>1. f.id \in Requests /\ f = [type |-> "response", id |-> f.id]
        BY <2>1, <2>2, FrameKinds
      <3>2. f.id \notin Unsent
        BY <2>1, <3>1 DEF UnsentInv, NotYet
      <3>3. /\ pending' = pending \ {<<l, f.id>>}
            /\ IF <<l, f.id>> \in pending /\ req[f.id].st = "waiting"
               THEN SetReq(f.id, "answered", l) ELSE UNCHANGED req
        BY <1>4, <2>2 DEF RelayReads
      <3>4. Awaited(f.id)
        BY <3>1 DEF PendingHasItsHandler
      <3>5. CASE <<l, f.id>> \in pending
        <4>1. \A k \in Links : <<k, f.id>> \notin pending'
          BY <3>3, <3>4, <3>5
        <4>2. req[f.id].st \in {"waiting", "expiring", "hungup"}
          BY <3>1, <3>2, <3>4, <3>5 DEF Unsent
        <4>3. CASE req[f.id].st = "waiting"
          <5>1. req'[f.id].st = "answered" /\ \A q \in Requests \ {f.id} : req'[q] = req[q]
            BY <3>1, <3>3, <3>5, <4>3, RequestSet DEF Forwarding
          <5>2. QED
            BY <1>1, <3>1, <3>3, <4>1, <5>1
        <4>4. CASE req[f.id].st # "waiting"
          BY <1>1, <3>1, <3>3, <4>1, <4>2, <4>4
        <4>5. QED
          BY <4>3, <4>4
      <3>6. CASE <<l, f.id>> \notin pending
        BY <3>3, <3>6 DEF PendingHasItsHandler
      <3>7. QED
        BY <3>5, <3>6
    <2>3. CASE UNCHANGED <<req, pending>>
      BY <2>3 DEF PendingHasItsHandler
    <2>4. QED
      BY <1>4, <2>2, <2>3 DEF RelayReads
  <1>5. CASE UNCHANGED <<req, pending>>
    BY <1>5 DEF PendingHasItsHandler
  <1>6. QED
    <2>1. CASE Dial \/ Teardown \/ StoreHandle \/ UNCHANGED vars
      BY <1>5, <2>1 DEF Dial, Teardown, StoreHandle, vars, clientVars
    <2>2. ASSUME NEW l \in Links, \/ Register(l) \/ Reject(l) \/ NoRegister(l) \/ RelayLoses(l) \/ DaemonLoses(l)
                                  \/ ReaderEnds(l) \/ WriterEnds(l)
                                  \/ WriterDropped(l) \/ Unregister(l) \/ ClearStreams(l) \/ DaemonReads(l)
          PROVE  PendingHasItsHandler'
      BY <1>5, <2>2 DEF Register, Reject, NoRegister, RelayLoses, DaemonLoses,
                        ReaderEnds, WriterEnds, WriterDropped, Unregister,
                        ClearStreams, DaemonReads, clientVars
    <2>3. ASSUME NEW r \in Requests, Execute(r) \/ Reply(r) PROVE PendingHasItsHandler'
      BY <1>5, <2>3 DEF Execute, Reply, clientVars
    <2>4. ASSUME NEW s \in Streams, \/ OpenStream(s) \/ InsertStream(s) \/ SendOpen(s) \/ Deliver(s)
                                    \/ ClientCloses(s) \/ EndOfStream(s) \/ CloseStream(s)
                                    \/ BridgeSends(s) \/ BridgeEnds(s) \/ BridgeCloses(s)
          PROVE  PendingHasItsHandler'
      BY <1>5, <2>4 DEF OpenStream, InsertStream, SendOpen, Deliver, ClientCloses, EndOfStream, Leave,
                        CloseStream, BridgeSends, BridgeEnds, BridgeCloses, clientVars
    <2>5. QED
      BY <1>2, <1>3, <1>4, <2>1, <2>2, <2>3, <2>4 DEF Next

LEMMA RelayInvariant == Spec => []RelayInv
  <1>1. RelayInv /\ [Next]_vars => RelayInv'
    <2> SUFFICES ASSUME RelayInv, [Next]_vars PROVE RelayInv'
      OBVIOUS
    <2>1. TypeOK'
      BY LinkStep, ClientStep, FrameStep, DaemonStep
      DEF LinkTypes, ClientTypes, FrameTypes, DaemonTypes, TypeOK, ReqStates, StrStates, WorkStates
    <2>2. QED
      BY <2>1, LinkStep, ClientStep, DaemonStep, UnsentStep, PendingStep DEF RelayInv
  <1>2. QED
    BY InitRelay, <1>1, PTL DEF Spec

-----------------------------------------------------------------------------
(* The theorems.                                                           *)

\* However links are dialled, replaced and dropped: every waiter in the map
\* belongs to a handler that may still take its answer, or to a client that hung
\* up, and every running bridge can be aborted. (relay lib.rs, relay_link.rs)
THEOREM NothingIsForgotten == Spec => []LinkInv
  <1>1. RelayInv => LinkInv
    BY DEF RelayInv, LinkInv
  <1>2. QED
    BY <1>1, RelayInvariant, PTL

\* A request that is answered with 502 was not executed, and never will be: its
\* frame was not sent. (relay lib.rs forward, relay_link.rs)
THEOREM OfflineIsSafe == Spec => []OfflineMeansNotExecuted
  <1>1. RelayInv => OfflineMeansNotExecuted
    BY Types DEF RelayInv, UnsentInv, Unsent, NotYet, OfflineMeansNotExecuted, DaemonTypes
  <1>2. QED
    BY <1>1, RelayInvariant, PTL

\* The cleanup of a link never takes the hub from a link that works.
\* (relay lib.rs:199-215)
THEOREM CleanupIsSafe == Spec => CleanupSparesNewerLink
  <1> DEFINE Spares == \A l \in Links : hub = l /\ link[l] = "up" => hub' # None
  <1>1. ASSUME RelayInv, Next PROVE Spares
    <2> SUFFICES ASSUME NEW l \in Links, hub = l, link[l] = "up" PROVE hub' # None
      OBVIOUS
    <2>1. l # None /\ l \in writer
      BY <1>1 DEF RelayInv, LinksInv, Links, None
    <2>2. ASSUME NEW k \in Links, Register(k) \/ Unregister(k) PROVE hub' # None
      BY <2>1, <2>2 DEF Register, Unregister, HubAfterCleanup, Links, None
    <2>3. CASE UNCHANGED hub
      BY <2>1, <2>3
    <2>4. CASE Dial \/ Teardown \/ StoreHandle
      BY <2>3, <2>4 DEF Dial, Teardown, StoreHandle, linkVars
    <2>5. ASSUME NEW k \in Links, \/ Reject(k) \/ NoRegister(k) \/ RelayLoses(k) \/ DaemonLoses(k)
                                  \/ ReaderEnds(k) \/ WriterEnds(k)
                                  \/ WriterDropped(k) \/ ClearStreams(k) \/ DaemonReads(k) \/ RelayReads(k)
          PROVE  hub' # None
      BY <2>3, <2>5 DEF Reject, NoRegister, RelayLoses, DaemonLoses,
                        ReaderEnds, WriterEnds, WriterDropped, ClearStreams, DaemonReads,
                        RelayReads, linkVars
    <2>6. ASSUME NEW r \in Requests, \/ Forward(r) \/ SendRequest(r) \/ Timeout(r) \/ Expire(r)
                                     \/ HangUp(r) \/ Execute(r) \/ Reply(r)
          PROVE  hub' # None
      BY <2>3, <2>6 DEF Forward, SendRequest, Timeout, Expire, HangUp, Execute, Reply, linkVars
    <2>7. ASSUME NEW s \in Streams, \/ OpenStream(s) \/ InsertStream(s) \/ SendOpen(s) \/ Deliver(s)
                                    \/ ClientCloses(s) \/ EndOfStream(s) \/ CloseStream(s)
                                    \/ BridgeSends(s) \/ BridgeEnds(s) \/ BridgeCloses(s)
          PROVE  hub' # None
      BY <2>3, <2>7 DEF OpenStream, InsertStream, SendOpen, Deliver, ClientCloses, EndOfStream, Leave,
                        CloseStream, BridgeSends, BridgeEnds, BridgeCloses, linkVars
    <2>8. QED
      BY <1>1, <2>2, <2>4, <2>5, <2>6, <2>7 DEF Next
  <1>2. RelayInv /\ [Next]_vars => [Spares]_vars
    BY <1>1
  <1>3. QED
    BY <1>2, RelayInvariant, PTL DEF Spec, CleanupSparesNewerLink
=============================================================================
