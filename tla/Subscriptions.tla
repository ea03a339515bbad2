--------------------------- MODULE Subscriptions ---------------------------
(***************************************************************************)
(* Live delivery: the registry of subscribers, the broadcast of published  *)
(* messages into a queue per subscriber, and the WebSocket handler that    *)
(* serves each of them with a task that sends and a task that receives.    *)
(*                                                                         *)
(* A broadcast runs under the mutex of the registry and is one step.  The  *)
(* sender looks at its queue under the mutex of the queue and waits for a  *)
(* notification in a later step.  The handler ends when one of its tasks   *)
(* has ended, and aborts the other, which may run a little further.        *)
(* Messages are numbered in the order in which they are broadcast; a       *)
(* client that connects again is another connection.                       *)
(***************************************************************************)
EXTENDS Integers, Sequences, Functions

CONSTANTS
    Conns,        \* WebSocket connections
    Topics,       \* the topics of messages
    Pattern,      \* Pattern[c]: the topics that match the pattern of c
    Scopes,       \* Scopes[c]: the topics within the read scopes of c's token
    Capacity,     \* the capacity of a subscriber's queue
    WireCapacity, \* how many frames fit in the socket buffers to a client
    MaxMessages   \* bound: how many messages are broadcast

ASSUME ConstantsAssumption ==
    /\ Pattern \in [Conns -> SUBSET Topics]
    /\ Scopes \in [Conns -> SUBSET Topics]
    /\ Capacity \in Nat \ {0}
    /\ WireCapacity \in Nat \ {0}
    /\ MaxMessages \in Nat

VARIABLES
    registry,   \* the connections in the registry
    queue,      \* queue[c]: the numbers of the messages queued for c
    notify,     \* notify[c]: a notification that did not find the sender waiting
    sender,     \* sender[c]: where the sending task is
    held,       \* held[c]: the message that it took from the queue, as a sequence
    receiver,   \* receiver[c]: where the receiving task is
    handler,    \* handler[c]: where the handler of the connection is
    client,     \* client[c]: where the client is
    sent,       \* sent[c]: the messages written to the socket of c
    read,       \* read[c]: how many of them the client has read
    published,  \* history: the topics of the messages broadcast so far
    since,      \* history: how many there were when c was registered ...
    until       \* history: ... and when it was taken out of the registry

tasks == <<sender, held, receiver, handler>>
io    == <<client, sent, read>>
vars  == <<registry, queue, notify, sender, held, receiver, handler, client,
           sent, read, published, since, until>>

----------------------------------------------------------------------------
Init ==
    /\ registry = {}
    /\ queue = [c \in Conns |-> <<>>]
    /\ notify = [c \in Conns |-> FALSE]
    /\ sender = [c \in Conns |-> "off"]
    /\ held = [c \in Conns |-> <<>>]
    /\ receiver = [c \in Conns |-> "off"]
    /\ handler = [c \in Conns |-> "off"]
    /\ client = [c \in Conns |-> "new"]
    /\ sent = [c \in Conns |-> <<>>]
    /\ read = [c \in Conns |-> 0]
    /\ published = <<>>
    /\ since = [c \in Conns |-> 0]
    /\ until = [c \in Conns |-> 0]

\* registry.remove, which does nothing for an entry that is gone already.
Unregister(S) ==
    /\ registry' = registry \ S
    /\ until' = [c \in Conns |-> IF c \in registry \cap S THEN Len(published) ELSE until[c]]

----------------------------------------------------------------------------
(* The client.                                                             *)

\* The client has the response to its upgrade before handle_socket begins.
Upgrade(c) ==
    /\ client[c] = "new"
    /\ client' = [client EXCEPT ![c] = "open"]
    /\ handler' = [handler EXCEPT ![c] = "upgraded"]
    /\ UNCHANGED <<registry, queue, notify, sender, held, receiver, sent, read,
                   published, since, until>>

Receive(c) ==
    /\ client[c] = "open"
    /\ read[c] < Len(sent[c])
    /\ read' = [read EXCEPT ![c] = @ + 1]
    /\ UNCHANGED <<registry, queue, notify, tasks, client, sent, published, since, until>>

\* It sends a close frame, or it is gone and the daemon may or may not notice.
Leave(c) ==
    /\ client[c] = "open"
    /\ \E s \in {"closing", "gone"} : client' = [client EXCEPT ![c] = s]
    /\ UNCHANGED <<registry, queue, notify, tasks, sent, read, published, since, until>>

----------------------------------------------------------------------------
(* broadcast: the subscribers whose pattern matches are served, unless     *)
(* their queue is full, in which case they are taken out of the registry.  *)

\* Mutant: an overflow ends the subscription, but the message is pushed all the same.
ServedEvenIfFull(t) == {c \in registry : t \in Pattern[c]}

Served(t) ==
    {c \in registry : t \in Pattern[c] /\ Len(queue[c]) < Capacity}
Overflown(t) ==
    {c \in registry : t \in Pattern[c] /\ Len(queue[c]) >= Capacity}

\* Mutant: notify_waiters(), which a sender that is not waiting yet misses.
NotifyWaitingSenders(S) ==
    /\ sender' = [c \in Conns |-> IF c \in S /\ sender[c] = "waiting" THEN "pop" ELSE sender[c]]
    /\ UNCHANGED notify

NotifySenders(S) ==
    /\ sender' = [c \in Conns |-> IF c \in S /\ sender[c] = "waiting" THEN "pop" ELSE sender[c]]
    /\ notify' = [c \in Conns |-> notify[c] \/ (c \in S /\ sender[c] # "waiting")]

\* Mutant: a full queue drops the newcomer and keeps the subscriber.
BroadcastDropsNewest(t) ==
    /\ Len(published) < MaxMessages
    /\ published' = Append(published, t)
    /\ queue' = [c \in Conns |-> IF c \in Served(t)
                                 THEN Append(queue[c], Len(published) + 1) ELSE queue[c]]
    /\ NotifySenders(Served(t))
    /\ UNCHANGED <<registry, until, held, receiver, handler, io, since>>

Broadcast(t) ==
    /\ Len(published) < MaxMessages
    /\ published' = Append(published, t)
    /\ queue' = [c \in Conns |-> IF c \in Served(t)
                                 THEN Append(queue[c], Len(published) + 1) ELSE queue[c]]
    /\ NotifySenders(Served(t))
    /\ Unregister(Overflown(t))
    /\ UNCHANGED <<held, receiver, handler, io, since>>

----------------------------------------------------------------------------
(* handle_socket: register, start both tasks, wait for one of them.        *)

Register(c) ==
    /\ handler[c] = "upgraded"
    /\ handler' = [handler EXCEPT ![c] = "select"]
    /\ registry' = registry \cup {c}
    /\ since' = [since EXCEPT ![c] = Len(published)]
    /\ sender' = [sender EXCEPT ![c] = "pop"]
    /\ receiver' = [receiver EXCEPT ![c] = "reading"]
    /\ UNCHANGED <<queue, notify, held, io, published, until>>

\* Mutant: the handler waits for the sending task only.
SelectSender(c) ==
    /\ handler[c] = "select"
    /\ sender[c] = "ended"
    /\ handler' = [handler EXCEPT ![c] = "remove"]
    /\ UNCHANGED <<registry, queue, notify, sender, held, receiver, io, published, since, until>>

\* tokio::select! over the two tasks; the one that has not ended is aborted.
Select(c) ==
    /\ handler[c] = "select"
    /\ sender[c] = "ended" \/ receiver[c] = "ended"
    /\ handler' = [handler EXCEPT ![c] = "remove"]
    /\ UNCHANGED <<registry, queue, notify, sender, held, receiver, io, published, since, until>>

\* Mutant: the entry is left to the receiving task, which may have been aborted.
EndWithoutRemove(c) ==
    /\ handler[c] = "remove"
    /\ handler' = [handler EXCEPT ![c] = "ended"]
    /\ UNCHANGED <<registry, queue, notify, sender, held, receiver, io, published, since, until>>

Remove(c) ==
    /\ handler[c] = "remove"
    /\ handler' = [handler EXCEPT ![c] = "ended"]
    /\ Unregister({c})
    /\ UNCHANGED <<queue, notify, sender, held, receiver, io, published, since>>

Aborted(c) == handler[c] \in {"remove", "ended"}

AbortSender(c) ==
    /\ Aborted(c)
    /\ sender[c] # "ended"
    /\ sender' = [sender EXCEPT ![c] = "ended"]
    /\ UNCHANGED <<registry, queue, notify, held, receiver, handler, io, published, since, until>>

AbortReceiver(c) ==
    /\ Aborted(c)
    /\ receiver[c] # "ended"
    /\ receiver' = [receiver EXCEPT ![c] = "ended"]
    /\ UNCHANGED <<registry, queue, notify, sender, held, handler, io, published, since, until>>

----------------------------------------------------------------------------
(* The sending task.                                                       *)

\* Mutant: the sender looks at the head of its queue and leaves it there.
PopLeavesHead(c) ==
    /\ sender[c] = "pop"
    /\ queue[c] # <<>>
    /\ published[Head(queue[c])] \in Scopes[c]
    /\ sender' = [sender EXCEPT ![c] = "send"]
    /\ held' = [held EXCEPT ![c] = <<Head(queue[c])>>]
    /\ UNCHANGED <<registry, queue, notify, receiver, handler, io, published, since, until>>

\* Messages outside the read scopes are skipped here, not in the broadcast.
Pop(c) ==
    /\ sender[c] = "pop"
    /\ queue[c] # <<>>
    /\ queue' = [queue EXCEPT ![c] = Tail(@)]
    /\ IF published[Head(queue[c])] \in Scopes[c]
       THEN /\ sender' = [sender EXCEPT ![c] = "send"]
            /\ held' = [held EXCEPT ![c] = <<Head(queue[c])>>]
       ELSE UNCHANGED <<sender, held>>
    /\ UNCHANGED <<registry, notify, receiver, handler, io, published, since, until>>

FindEmpty(c) ==
    /\ sender[c] = "pop"
    /\ queue[c] = <<>>
    /\ sender' = [sender EXCEPT ![c] = "empty"]
    /\ UNCHANGED <<registry, queue, notify, held, receiver, handler, io, published, since, until>>

AwaitMessages(c) ==
    /\ sender[c] = "empty"
    /\ sender' = [sender EXCEPT ![c] = IF notify[c] THEN "pop" ELSE "waiting"]
    /\ notify' = [notify EXCEPT ![c] = FALSE]
    /\ UNCHANGED <<registry, queue, held, receiver, handler, io, published, since, until>>

\* ws_sender.send waits for room in the socket buffers.
Send(c) ==
    /\ sender[c] = "send"
    /\ Len(sent[c]) - read[c] < WireCapacity
    /\ sent' = [sent EXCEPT ![c] = @ \o held[c]]
    /\ held' = [held EXCEPT ![c] = <<>>]
    /\ sender' = [sender EXCEPT ![c] = "pop"]
    /\ UNCHANGED <<registry, queue, notify, receiver, handler, client, read,
                   published, since, until>>

\* It fails once the client is known to be gone.
SendFails(c) ==
    /\ sender[c] = "send"
    /\ client[c] # "open"
    /\ sender' = [sender EXCEPT ![c] = "ended"]
    /\ UNCHANGED <<registry, queue, notify, held, receiver, handler, io, published, since, until>>

----------------------------------------------------------------------------
(* The receiving task reads until a close frame, an error or the end.      *)

Stop(c) ==
    /\ receiver[c] = "reading"
    /\ receiver' = [receiver EXCEPT ![c] = "ended"]
    /\ Unregister({c})
    /\ UNCHANGED <<queue, notify, sender, held, handler, io, published, since>>

ReadClose(c) == client[c] = "closing" /\ Stop(c)
ReadEnd(c)   == client[c] = "gone" /\ Stop(c)

----------------------------------------------------------------------------
Sender(c)  == Pop(c) \/ FindEmpty(c) \/ AwaitMessages(c) \/ Send(c)
Handler(c) == Register(c) \/ Select(c) \/ Remove(c)

Next ==
    \/ \E t \in Topics : Broadcast(t)
    \/ \E c \in Conns :
          \/ Upgrade(c) \/ Receive(c) \/ Leave(c)
          \/ Handler(c) \/ AbortSender(c) \/ AbortReceiver(c)
          \/ Sender(c) \/ SendFails(c)
          \/ ReadClose(c) \/ ReadEnd(c)

Spec == Init /\ [][Next]_vars

\* The runtime goes on with every task that can go on and drops the aborted ones,
\* a close frame arrives, and clients that stay read.  Nobody has to publish, to
\* connect or to leave, and that a client is gone may go unnoticed.
Fairness ==
    \A c \in Conns :
        /\ WF_vars(Handler(c))
        /\ WF_vars(Sender(c))
        /\ WF_vars(ReadClose(c))
        /\ WF_vars(Receive(c))
        /\ WF_vars(AbortSender(c))
        /\ WF_vars(AbortReceiver(c))

FairSpec == Spec /\ Fairness

----------------------------------------------------------------------------
TypeOK ==
    /\ registry \in SUBSET Conns
    /\ queue \in [Conns -> Seq(Nat)]
    /\ \A c \in Conns : Len(queue[c]) <= Capacity
    /\ notify \in [Conns -> BOOLEAN]
    /\ sender \in [Conns -> {"off", "pop", "empty", "waiting", "send", "ended"}]
    /\ held \in [Conns -> Seq(Nat)]
    /\ receiver \in [Conns -> {"off", "reading", "ended"}]
    /\ handler \in [Conns -> {"off", "upgraded", "select", "remove", "ended"}]
    /\ client \in [Conns -> {"new", "open", "closing", "gone"}]
    /\ sent \in [Conns -> Seq(Nat)]
    /\ read \in [Conns -> Nat]
    /\ published \in Seq(Topics)
    /\ since \in [Conns -> Nat]
    /\ until \in [Conns -> Nat]

\* Everything on the way to the client of c, the first to arrive first.
Line(c) == sent[c] \o held[c] \o queue[c]

\* A client gets its messages in the order of the broadcasts, and none twice.
DeliveredInOrder ==
    \A c \in Conns : \A i, j \in DOMAIN Line(c) : i < j => Line(c)[i] < Line(c)[j]

End(c) == IF c \in registry THEN Len(published) ELSE until[c]

Due(c) == {n \in since[c] + 1 .. End(c) : published[n] \in Pattern[c] \cap Scopes[c]}

\* There is no gap: from registration to removal, every message that matches the pattern
\* and that the scopes allow reaches the client or is on its way, and no other does.  An
\* overflow ends the subscription rather than leave a hole.
DeliveredWithoutGap ==
    \A c \in Conns :
        Range(sent[c]) \cup Range(held[c])
            \cup {n \in Range(queue[c]) : published[n] \in Scopes[c]} = Due(c)

\* The sender does not sleep on messages, although it looks at its queue and goes to
\* sleep in two steps.
SenderSleepsOnEmpty ==
    \A c \in Conns : queue[c] # <<>> =>
        /\ sender[c] # "waiting"
        /\ sender[c] = "empty" => notify[c]

\* A handler that has ended leaves no entry in the registry, whichever of its tasks
\* ended first and whether or not the other could still run.
EndedIsUnregistered ==
    \A c \in Conns : handler[c] = "ended" => c \notin registry

\* The types and capacities, and a registry without leftovers.
SubscriptionInv == TypeOK /\ EndedIsUnregistered

\* A message queued for a client that stays gets to it.
QueuedIsDelivered ==
    \A c \in Conns, n \in 1 .. MaxMessages :
        n \in Range(queue[c]) /\ published[n] \in Scopes[c]
            ~> client[c] # "open" \/ \E i \in 1 .. read[c] : sent[c][i] = n

\* A client that closes the connection releases what the daemon keeps for it.
ClosedIsReleased ==
    \A c \in Conns : client[c] = "closing"
        ~> handler[c] = "ended" /\ sender[c] = "ended" /\ c \notin registry

\* The policy of every subscriber is to disconnect it when it is slow.
\* Not kept by the code: see README, "Statements that do not hold".
SlowIsDisconnected ==
    \A c \in Conns :
        handler[c] = "select" /\ client[c] = "open" /\ c \notin registry
            ~> handler[c] = "ended" \/ client[c] # "open"
============================================================================
