------------------------ MODULE SubscriptionsProofs ------------------------
(***************************************************************************)
(* Theorems about Subscriptions for any connections, topics, patterns and  *)
(* scopes, and every size of the queues and the socket buffers.            *)
(***************************************************************************)
EXTENDS Subscriptions, TopicRoutes, SequenceTheorems, WellFoundedInduction, TLAPS

USE ConstantsAssumption

----------------------------------------------------------------------------
(* Type correctness.                                                       *)

LEMMA InitType == Init => TypeOK
  BY EmptySeq DEF Init, TypeOK

\* A broadcast appends to queues that have room.
LEMMA BroadcastType ==
    ASSUME TypeOK, NEW t \in Topics, Broadcast(t)
    PROVE  TypeOK'
  <1> USE DEF TypeOK, Broadcast
  <1>1. published' \in Seq(Topics)
    OBVIOUS
  <1>2. Len(published) + 1 \in Nat
    OBVIOUS
  <1>3. ASSUME NEW c \in Conns
        PROVE  queue'[c] \in Seq(Nat) /\ Len(queue'[c]) <= Capacity
    BY <1>2 DEF Served
  <1>4. queue' \in [Conns -> Seq(Nat)] /\ \A c \in Conns : Len(queue'[c]) <= Capacity
    BY <1>3
  <1>5. /\ notify' \in [Conns -> BOOLEAN]
        /\ sender' \in [Conns -> {"off", "pop", "empty", "waiting", "send", "ended"}]
    BY DEF NotifySenders
  <1>6. registry' \in SUBSET Conns /\ until' \in [Conns -> Nat]
    BY DEF Unregister
  <1>7. QED
    BY <1>1, <1>4, <1>5, <1>6 DEF io

LEMMA TypeStep == TypeOK /\ [Next]_vars => TypeOK'
  <1> SUFFICES ASSUME TypeOK, [Next]_vars PROVE TypeOK'
    OBVIOUS
  <1>1. CASE UNCHANGED vars
    BY <1>1 DEF vars, TypeOK
  <1>2. ASSUME NEW t \in Topics, Broadcast(t) PROVE TypeOK'
    BY <1>2, BroadcastType
  <1> USE DEF TypeOK, tasks, io
  <1>3. ASSUME NEW c \in Conns, Upgrade(c) \/ Receive(c) \/ Leave(c) PROVE TypeOK'
    <2>1. CASE Upgrade(c)
      BY <2>1 DEF Upgrade
    <2>2. CASE Receive(c)
      <3>1. read' \in [Conns -> Nat]
        BY <2>2 DEF Receive
      <3>2. QED
        BY <2>2, <3>1 DEF Receive
    <2>3. CASE Leave(c)
      BY SMTT(30), <2>3 DEF Leave
    <2>4. QED
      BY <1>3, <2>1, <2>2, <2>3
  <1>4. ASSUME NEW c \in Conns, Register(c) \/ Select(c) PROVE TypeOK'
    <2>1. CASE Register(c)
      BY <2>1 DEF Register
    <2>2. CASE Select(c)
      BY <2>2 DEF Select
    <2>3. QED
      BY <1>4, <2>1, <2>2
  <1>5. ASSUME NEW c \in Conns, Remove(c) PROVE TypeOK'
    BY <1>5 DEF Remove, Unregister
  <1>6. ASSUME NEW c \in Conns, AbortSender(c) \/ AbortReceiver(c) PROVE TypeOK'
    BY <1>6 DEF AbortSender, AbortReceiver
  <1>7. ASSUME NEW c \in Conns, Pop(c) PROVE TypeOK'
    <2>1. /\ Head(queue[c]) \in Nat
          /\ Tail(queue[c]) \in Seq(Nat)
          /\ Len(Tail(queue[c])) <= Capacity
      BY SMTT(30), <1>7, HeadTailProperties DEF Pop
    <2>2. queue' \in [Conns -> Seq(Nat)] /\ \A d \in Conns : Len(queue'[d]) <= Capacity
      <3>1. queue' = [queue EXCEPT ![c] = Tail(queue[c])]
        BY <1>7 DEF Pop
      <3>2. QED
        BY <2>1, <3>1
    <2>3. held' \in [Conns -> Seq(Nat)]
      <3>1. <<Head(queue[c])>> \in Seq(Nat)
        BY <2>1
      <3>2. held' = [held EXCEPT ![c] = <<Head(queue[c])>>] \/ held' = held
        BY <1>7 DEF Pop
      <3>3. QED
        BY <3>1, <3>2
    <2>4. QED
      BY <1>7, <2>2, <2>3 DEF Pop
  <1>8. ASSUME NEW c \in Conns, FindEmpty(c) \/ AwaitMessages(c) \/ SendFails(c) PROVE TypeOK'
    BY <1>8 DEF FindEmpty, AwaitMessages, SendFails
  <1>9. ASSUME NEW c \in Conns, Send(c) PROVE TypeOK'
    <2>1. sent[c] \o held[c] \in Seq(Nat) /\ <<>> \in Seq(Nat)
      BY ConcatProperties, EmptySeq
    <2>2. QED
      BY <1>9, <2>1 DEF Send
  <1>10. ASSUME NEW c \in Conns, ReadClose(c) \/ ReadEnd(c) PROVE TypeOK'
    <2>1. Stop(c)
      BY <1>10 DEF ReadClose, ReadEnd
    <2>2. QED
      BY <2>1 DEF Stop, Unregister
  <1>11. QED
    BY <1>1, <1>2, <1>3, <1>4, <1>5, <1>6, <1>7, <1>8, <1>9, <1>10 DEF Next, Handler, Sender

\* Types are kept; no queue outgrows its capacity.
THEOREM TypeCorrect == Spec => []TypeOK
  BY InitType, TypeStep, PTL DEF Spec

----------------------------------------------------------------------------
(* The sender does not sleep on messages: a broadcast wakes it, or leaves  *)
(* a notification that it finds when it is about to wait.                  *)

LEMMA SenderSleepStep ==
    TypeOK /\ SenderSleepsOnEmpty /\ [Next]_vars => SenderSleepsOnEmpty'
  <1> SUFFICES ASSUME TypeOK, SenderSleepsOnEmpty, [Next]_vars PROVE SenderSleepsOnEmpty'
    OBVIOUS
  <1> USE DEF TypeOK, SenderSleepsOnEmpty
  <1>1. CASE UNCHANGED <<queue, sender, notify>>
    BY <1>1
  <1>2. ASSUME NEW t \in Topics, Broadcast(t) PROVE SenderSleepsOnEmpty'
    <2> SUFFICES ASSUME NEW c \in Conns, queue'[c] # <<>>
                 PROVE  sender'[c] # "waiting" /\ (sender'[c] = "empty" => notify'[c])
      OBVIOUS
    <2>1. CASE c \in Served(t)
      BY <1>2, <2>1 DEF Broadcast, NotifySenders
    <2>2. CASE c \notin Served(t)
      BY <1>2, <2>2 DEF Broadcast, NotifySenders
    <2>3. QED
      BY <2>1, <2>2
  <1>3. ASSUME NEW c \in Conns, Pop(c) PROVE SenderSleepsOnEmpty'
    <2>1. UNCHANGED notify /\ \A d \in Conns : queue'[d] # <<>> => queue[d] # <<>> \/ d = c
      BY <1>3 DEF Pop
    <2>2. /\ queue[c] # <<>> /\ sender[c] = "pop" /\ sender'[c] \in {"pop", "send"}
          /\ \A d \in Conns \ {c} : sender'[d] = sender[d]
      BY <1>3 DEF Pop
    <2>3. QED
      BY <2>1, <2>2
  <1>4. ASSUME NEW c \in Conns, FindEmpty(c) \/ AwaitMessages(c) PROVE SenderSleepsOnEmpty'
    <2>1. CASE FindEmpty(c)
      BY <2>1 DEF FindEmpty
    <2>2. CASE AwaitMessages(c)
      BY <2>2 DEF AwaitMessages
    <2>3. QED
      BY <1>4, <2>1, <2>2
  <1>5. ASSUME NEW c \in Conns,
               Register(c) \/ AbortSender(c) \/ Send(c) \/ SendFails(c)
        PROVE  SenderSleepsOnEmpty'
    <2>1. UNCHANGED <<queue, notify>>
      BY <1>5 DEF Register, AbortSender, Send, SendFails
    <2>2. /\ sender'[c] \in {"pop", "ended"}
          /\ \A d \in Conns \ {c} : sender'[d] = sender[d]
      BY <1>5 DEF Register, AbortSender, Send, SendFails
    <2>3. QED
      BY <2>1, <2>2
  <1>6. ASSUME NEW c \in Conns,
               \/ Upgrade(c) \/ Receive(c) \/ Leave(c) \/ Select(c) \/ Remove(c)
               \/ AbortReceiver(c) \/ ReadClose(c) \/ ReadEnd(c)
        PROVE  UNCHANGED <<queue, sender, notify>>
    BY <1>6 DEF Upgrade, Receive, Leave, Select, Remove, AbortReceiver,
                ReadClose, ReadEnd, Stop, tasks
  <1>7. QED
    BY <1>1, <1>2, <1>3, <1>4, <1>5, <1>6 DEF Next, Handler, Sender, vars

\* The sender never sleeps on a queue that holds messages.
THEOREM SenderDoesNotOversleep == Spec => []SenderSleepsOnEmpty
  <1>1. Init => SenderSleepsOnEmpty
    BY DEF Init, SenderSleepsOnEmpty
  <1>2. QED
    BY <1>1, SenderSleepStep, TypeCorrect, PTL DEF Spec

----------------------------------------------------------------------------
(* The registry.                                                           *)

\* Entries belong to handlers that wait for their tasks or are about to remove them,
\* and a handler begins with its client.
RegistryInv ==
    /\ \A c \in registry : handler[c] \in {"select", "remove"}
    /\ \A c \in Conns : client[c] = "new" => handler[c] = "off"

LEMMA RegistryStep == TypeOK /\ RegistryInv /\ [Next]_vars => RegistryInv'
  <1> SUFFICES ASSUME TypeOK, RegistryInv, [Next]_vars PROVE RegistryInv'
    OBVIOUS
  <1> USE DEF TypeOK, RegistryInv
  <1>1. CASE UNCHANGED <<registry, handler, client>>
    BY <1>1
  <1>2. ASSUME NEW t \in Topics, Broadcast(t) PROVE RegistryInv'
    BY <1>2 DEF Broadcast, Unregister, io
  <1>3. ASSUME NEW c \in Conns, Upgrade(c) \/ Receive(c) \/ Leave(c) PROVE RegistryInv'
    BY ZenonT(30), <1>3 DEF Upgrade, Receive, Leave, tasks
  <1>4. ASSUME NEW c \in Conns, Register(c) \/ Select(c) PROVE RegistryInv'
    <2>1. CASE Register(c)
      BY <2>1 DEF Register, io
    <2>2. CASE Select(c)
      BY <2>2 DEF Select, io
    <2>3. QED
      BY <1>4, <2>1, <2>2
  <1>5. ASSUME NEW c \in Conns, Remove(c) PROVE RegistryInv'
    BY <1>5 DEF Remove, Unregister, io
  <1>6. ASSUME NEW c \in Conns, ReadClose(c) \/ ReadEnd(c) PROVE RegistryInv'
    BY <1>6 DEF ReadClose, ReadEnd, Stop, Unregister, io
  <1>7. ASSUME NEW c \in Conns,
               AbortSender(c) \/ AbortReceiver(c) \/ Sender(c) \/ SendFails(c)
        PROVE  UNCHANGED <<registry, handler, client>>
    BY <1>7 DEF AbortSender, AbortReceiver, Sender, Pop, FindEmpty, AwaitMessages,
                Send, SendFails, io
  <1>8. QED
    BY <1>1, <1>2, <1>3, <1>4, <1>5, <1>6, <1>7 DEF Next, Handler, vars

LEMMA InitRegistry == Init => RegistryInv
  BY DEF Init, RegistryInv

\* A handler that has ended, in whichever way, left no entry behind; and no queue
\* outgrows its capacity.
THEOREM EndedHandlersAreUnregistered == Spec => []SubscriptionInv
  <1>1. TypeOK /\ RegistryInv => SubscriptionInv
    BY DEF RegistryInv, EndedIsUnregistered, SubscriptionInv
  <1>2. QED
    BY <1>1, InitRegistry, RegistryStep, TypeCorrect, PTL DEF Spec

----------------------------------------------------------------------------
(* Increasing sequences of message numbers.                                *)

Increasing(s) == \A i, j \in DOMAIN s : i < j => s[i] < s[j]
Before(s, t)  == \A m \in Range(s), n \in Range(t) : m < n

LEMMA ConcatRange ==
    ASSUME NEW s \in Seq(Nat), NEW t \in Seq(Nat)
    PROVE  Range(s \o t) = Range(s) \cup Range(t)
  <1>1. /\ DOMAIN (s \o t) = 1 .. Len(s) + Len(t)
        /\ \A i \in 1 .. Len(s) + Len(t) :
              (s \o t)[i] = IF i <= Len(s) THEN s[i] ELSE t[i - Len(s)]
    BY ConcatProperties
  <1>2. ASSUME NEW n \in Range(s) PROVE n \in Range(s \o t)
    <2>1. PICK i \in 1 .. Len(s) : n = s[i]
      BY SMTT(30) DEF Range
    <2>2. i \in DOMAIN (s \o t) /\ (s \o t)[i] = n
      BY <1>1, <2>1
    <2>3. QED
      BY <2>2 DEF Range
  <1>3. ASSUME NEW n \in Range(t) PROVE n \in Range(s \o t)
    <2>1. PICK i \in 1 .. Len(t) : n = t[i]
      BY DEF Range
    <2>2. Len(s) + i \in DOMAIN (s \o t) /\ (s \o t)[Len(s) + i] = n
      BY <1>1, <2>1
    <2>3. QED
      BY <2>2 DEF Range
  <1>4. ASSUME NEW n \in Range(s \o t) PROVE n \in Range(s) \cup Range(t)
    <2>1. PICK i \in 1 .. Len(s) + Len(t) : n = (s \o t)[i]
      BY <1>1 DEF Range
    <2>2. CASE i <= Len(s)
      BY <1>1, <2>1, <2>2 DEF Range
    <2>3. CASE i > Len(s)
      <3>1. i - Len(s) \in DOMAIN t /\ n = t[i - Len(s)]
        BY <1>1, <2>1, <2>3
      <3>2. QED
        BY <3>1 DEF Range
    <2>4. QED
      BY <2>2, <2>3
  <1>5. QED
    BY <1>2, <1>3, <1>4

\* A concatenation increases if its parts do and the first comes before the second.
LEMMA ConcatIncreasing ==
    ASSUME NEW s \in Seq(Nat), NEW t \in Seq(Nat)
    PROVE  Increasing(s \o t) <=> Increasing(s) /\ Increasing(t) /\ Before(s, t)
  <1>1. /\ DOMAIN (s \o t) = 1 .. Len(s) + Len(t)
        /\ \A i \in 1 .. Len(s) + Len(t) :
              (s \o t)[i] = IF i <= Len(s) THEN s[i] ELSE t[i - Len(s)]
    BY ConcatProperties
  <1>2. ASSUME Increasing(s \o t) PROVE Increasing(s)
    <2>1. \A i \in DOMAIN s : i \in DOMAIN (s \o t) /\ (s \o t)[i] = s[i]
      BY <1>1
    <2>2. QED
      BY <1>2, <2>1 DEF Increasing
  <1>3. ASSUME Increasing(s \o t) PROVE Increasing(t)
    <2> SUFFICES ASSUME NEW i \in 1 .. Len(t), NEW j \in 1 .. Len(t), i < j
                 PROVE  t[i] < t[j]
      BY LenProperties DEF Increasing
    <2>1. /\ Len(s) + i \in DOMAIN (s \o t) /\ (s \o t)[Len(s) + i] = t[i]
          /\ Len(s) + j \in DOMAIN (s \o t) /\ (s \o t)[Len(s) + j] = t[j]
          /\ Len(s) + i < Len(s) + j
      BY <1>1
    <2>2. QED
      BY <1>3, <2>1 DEF Increasing
  <1>4. ASSUME Increasing(s \o t) PROVE Before(s, t)
    <2> SUFFICES ASSUME NEW i \in DOMAIN s, NEW j \in DOMAIN t
                 PROVE  s[i] < t[j]
      BY DEF Before, Range
    <2>1. /\ i \in DOMAIN (s \o t) /\ (s \o t)[i] = s[i]
          /\ Len(s) + j \in DOMAIN (s \o t) /\ (s \o t)[Len(s) + j] = t[j]
          /\ i < Len(s) + j
      BY SMTT(30), <1>1
    <2>2. QED
      BY <1>4, <2>1 DEF Increasing
  <1>5. ASSUME Increasing(s), Increasing(t), Before(s, t) PROVE Increasing(s \o t)
    <2> SUFFICES ASSUME NEW i \in 1 .. Len(s) + Len(t), NEW j \in 1 .. Len(s) + Len(t), i < j
                 PROVE  (s \o t)[i] < (s \o t)[j]
      BY <1>1 DEF Increasing
    <2>1. CASE j <= Len(s)
      BY <1>1, <1>5, <2>1 DEF Increasing
    <2>2. CASE i > Len(s)
      <3>1. /\ i - Len(s) \in DOMAIN t /\ j - Len(s) \in DOMAIN t
            /\ i - Len(s) < j - Len(s)
        BY <2>2
      <3>2. QED
        BY <1>1, <1>5, <2>2, <3>1 DEF Increasing
    <2>3. CASE i <= Len(s) /\ j > Len(s)
      <3>1. s[i] \in Range(s) /\ t[j - Len(s)] \in Range(t)
        <4>1. i \in DOMAIN s /\ j - Len(s) \in DOMAIN t
          BY <2>3
        <4>2. QED
          BY <4>1 DEF Range
      <3>2. QED
        BY <1>1, <1>5, <2>3, <3>1 DEF Before
    <2>4. QED
      BY SMTT(30), <2>1, <2>2, <2>3
  <1>6. QED
    BY <1>2, <1>3, <1>4, <1>5

\* Sequences with one message and with none.
LEMMA SmallSequences ==
    /\ <<>> \in Seq(Nat) /\ Range(<<>>) = {} /\ Increasing(<<>>)
    /\ \A n \in Nat : <<n>> \in Seq(Nat) /\ Range(<<n>>) = {n} /\ Increasing(<<n>>)
  BY DEF Range, Increasing

\* A message with a higher number joins the end of a queue.
LEMMA AppendIncreasing ==
    ASSUME NEW q \in Seq(Nat), NEW n \in Nat
    PROVE  /\ Range(Append(q, n)) = Range(q) \cup {n}
           /\ Increasing(q) /\ (\A m \in Range(q) : m < n) => Increasing(Append(q, n))
  <1>1. Append(q, n) = q \o <<n>>
    BY AppendIsConcat
  <1>2. Range(q \o <<n>>) = Range(q) \cup {n}
    BY ConcatRange, SmallSequences
  <1>3. ASSUME \A m \in Range(q) : m < n PROVE Before(q, <<n>>)
    BY <1>3, SmallSequences DEF Before
  <1>4. QED
    BY ZenonT(30), <1>1, <1>2, <1>3, ConcatIncreasing, SmallSequences

\* The head of a queue comes before the rest.
LEMMA HeadBeforeTail ==
    ASSUME NEW q \in Seq(Nat), q # <<>>
    PROVE  /\ Range(q) = {Head(q)} \cup Range(Tail(q))
           /\ Increasing(q) => Increasing(Tail(q)) /\ Before(<<Head(q)>>, Tail(q))
  <1>1. Head(q) \in Nat /\ Tail(q) \in Seq(Nat)
    BY HeadTailProperties
  <1>2. q = <<Head(q)>> \o Tail(q)
    <2>1. /\ Len(<<Head(q)>> \o Tail(q)) = Len(q)
          /\ \A i \in 1 .. Len(q) : (<<Head(q)>> \o Tail(q))[i] = q[i]
      BY <1>1, HeadTailProperties
    <2>2. <<Head(q)>> \o Tail(q) \in Seq(Nat)
      BY <1>1
    <2>3. QED
      BY <2>1, <2>2, SeqEqual
  <1>3. <<Head(q)>> \in Seq(Nat) /\ Range(<<Head(q)>>) = {Head(q)}
    BY <1>1, SmallSequences
  <1>4. Range(<<Head(q)>> \o Tail(q)) = {Head(q)} \cup Range(Tail(q))
    BY <1>1, <1>3, ConcatRange
  <1>5. Increasing(<<Head(q)>> \o Tail(q)) => Increasing(Tail(q)) /\ Before(<<Head(q)>>, Tail(q))
    BY <1>1, <1>3, ConcatIncreasing
  <1>6. QED
    BY <1>2, <1>4, <1>5

----------------------------------------------------------------------------
(* Delivery in order and without a gap, connection by connection.          *)

Fresh(c) ==
    handler[c] \in {"off", "upgraded"} =>
        sender[c] = "off" /\ sent[c] = <<>> /\ held[c] = <<>> /\ queue[c] = <<>>

\* What is on the way has been broadcast; the sender holds nothing before it sends.
Numbered(c) ==
    /\ since[c] <= Len(published) /\ until[c] <= Len(published)
    /\ Range(sent[c]) \cup Range(held[c]) \cup Range(queue[c]) \subseteq 1 .. Len(published)
    /\ sender[c] \notin {"send", "ended"} => held[c] = <<>>

Ordered(c) ==
    /\ Increasing(sent[c]) /\ Increasing(held[c]) /\ Increasing(queue[c])
    /\ Before(sent[c], held[c]) /\ Before(sent[c], queue[c]) /\ Before(held[c], queue[c])

OnTheWay(c) ==
    Range(sent[c]) \cup Range(held[c]) \cup {n \in Range(queue[c]) : published[n] \in Scopes[c]}

Complete(c) == OnTheWay(c) = Due(c)

DeliveryInv == \A c \in Conns : Fresh(c) /\ Numbered(c) /\ Ordered(c) /\ Complete(c)

\* The invariant gives both properties.
LEMMA DeliveryImplies ==
    ASSUME TypeOK, DeliveryInv
    PROVE  DeliveredInOrder /\ DeliveredWithoutGap
  <1>1. DeliveredWithoutGap
    BY DEF DeliveryInv, Complete, OnTheWay, DeliveredWithoutGap
  <1>2. ASSUME NEW c \in Conns PROVE Increasing(Line(c))
    <2>1. sent[c] \in Seq(Nat) /\ held[c] \in Seq(Nat) /\ queue[c] \in Seq(Nat)
      BY DEF TypeOK
    <2>2. Ordered(c)
      BY DEF DeliveryInv
    <2>3. sent[c] \o held[c] \in Seq(Nat) /\ Increasing(sent[c] \o held[c])
      BY <2>1, <2>2, ConcatProperties, ConcatIncreasing DEF Ordered
    <2>4. Range(sent[c] \o held[c]) = Range(sent[c]) \cup Range(held[c])
      BY <2>1, ConcatRange
    <2>5. Before(sent[c] \o held[c], queue[c])
      BY <2>2, <2>4 DEF Ordered, Before
    <2>6. Increasing((sent[c] \o held[c]) \o queue[c])
      BY <2>1, <2>2, <2>3, <2>5, ConcatIncreasing DEF Ordered
    <2>7. Line(c) = (sent[c] \o held[c]) \o queue[c]
      BY DEF Line
    <2>8. QED
      BY <2>6, <2>7
  <1>3. DeliveredInOrder
    BY <1>2 DEF DeliveredInOrder, Increasing
  <1>4. QED
    BY <1>1, <1>3

LEMMA InitDelivery == Init => DeliveryInv
  <1> SUFFICES ASSUME Init, NEW c \in Conns
               PROVE  Fresh(c) /\ Numbered(c) /\ Ordered(c) /\ Complete(c)
    BY DEF DeliveryInv
  <1>1. Fresh(c) /\ Numbered(c) /\ Ordered(c)
    BY SmallSequences DEF Init, Fresh, Numbered, Ordered, Before
  <1>2. OnTheWay(c) = {}
    BY SmallSequences DEF Init, OnTheWay
  <1>3. Due(c) = {}
    BY DEF Init, Due, End
  <1>4. QED
    BY <1>1, <1>2, <1>3 DEF Complete

\* Taking entries out of the registry fixes the end of a subscription where it is.
LEMMA UnregisterKeepsEnd ==
    ASSUME TypeOK, NEW S, Unregister(S), published' = published, NEW c \in Conns
    PROVE  End(c)' = End(c)
  BY DEF TypeOK, Unregister, End

\* A connection whose messages stay where they are keeps its part of the invariant.
LEMMA QuietConn ==
    ASSUME TypeOK, DeliveryInv, NEW c \in Conns,
           UNCHANGED <<published, queue[c], held[c], sent[c], since[c]>>,
           End(c)' = End(c), until'[c] <= Len(published),
           handler'[c] \in {"off", "upgraded"} =>
               handler[c] \in {"off", "upgraded"} /\ sender'[c] = sender[c],
           sender'[c] \in {"send", "ended"} \/ sender[c] \notin {"send", "ended"}
    PROVE  (Fresh(c) /\ Numbered(c) /\ Ordered(c) /\ Complete(c))'
  <1>1. Fresh(c) /\ Numbered(c) /\ Ordered(c) /\ Complete(c)
    BY DEF DeliveryInv
  <1>2. Fresh(c)' /\ Numbered(c)'
    BY <1>1 DEF Fresh, Numbered
  <1>3. Ordered(c)'
    BY <1>1 DEF Ordered, Before
  <1>4. Due(c)' = Due(c)
    BY DEF Due
  <1>5. OnTheWay(c)' = OnTheWay(c)
    BY DEF OnTheWay
  <1>6. QED
    BY <1>1, <1>2, <1>3, <1>4, <1>5 DEF Complete

\* A step that moves no message.
LEMMA QuietStep ==
    ASSUME TypeOK, DeliveryInv,
           UNCHANGED <<published, queue, held, sent, since>>,
           \/ UNCHANGED <<registry, until>>
           \/ \E S \in SUBSET Conns : Unregister(S),
           \A c \in Conns :
               /\ handler'[c] \in {"off", "upgraded"} =>
                      handler[c] \in {"off", "upgraded"} /\ sender'[c] = sender[c]
               /\ sender'[c] \in {"send", "ended"} \/ sender[c] \notin {"send", "ended"}
    PROVE  DeliveryInv'
  <1> SUFFICES ASSUME NEW c \in Conns
               PROVE  (Fresh(c) /\ Numbered(c) /\ Ordered(c) /\ Complete(c))'
    BY DEF DeliveryInv
  <1>1. End(c)' = End(c) /\ until'[c] <= Len(published)
    <2>1. until[c] <= Len(published)
      BY DEF DeliveryInv, Numbered
    <2>2. CASE UNCHANGED <<registry, until>>
      BY <2>1, <2>2 DEF End
    <2>3. CASE \E S \in SUBSET Conns : Unregister(S)
      <3>1. PICK S \in SUBSET Conns : Unregister(S)
        BY <2>3
      <3>2. End(c)' = End(c)
        BY <3>1, UnregisterKeepsEnd
      <3>3. until'[c] <= Len(published)
        BY <2>1, <3>1 DEF TypeOK, Unregister
      <3>4. QED
        BY <3>2, <3>3
    <2>4. QED
      BY <2>2, <2>3
  <1>2. QED
    BY <1>1, QuietConn

\* A new entry has nothing on the way, and nothing is due to it yet.
LEMMA DeliveryRegister ==
    ASSUME TypeOK, RegistryInv, DeliveryInv, NEW c \in Conns, Register(c)
    PROVE  DeliveryInv'
  <1> SUFFICES ASSUME NEW d \in Conns
               PROVE  (Fresh(d) /\ Numbered(d) /\ Ordered(d) /\ Complete(d))'
    BY DEF DeliveryInv
  <1> USE DEF TypeOK
  <1>1. CASE d # c
    <2>1. /\ UNCHANGED <<published, queue[d], held[d], sent[d], since[d], until>>
          /\ handler'[d] = handler[d] /\ sender'[d] = sender[d]
      BY <1>1 DEF Register, io
    <2>2. End(d)' = End(d) /\ until'[d] <= Len(published)
      BY <1>1, <2>1 DEF Register, End, DeliveryInv, Numbered
    <2>3. QED
      BY <2>1, <2>2, QuietConn
  <1>2. CASE d = c
    <2>1. /\ sent'[c] = <<>> /\ held'[c] = <<>> /\ queue'[c] = <<>>
          /\ handler'[c] = "select" /\ c \in registry'
          /\ since'[c] = Len(published) /\ UNCHANGED <<published, until>>
      BY DEF Register, io, DeliveryInv, Fresh
    <2>2. until'[c] <= Len(published)
      BY <2>1 DEF DeliveryInv, Numbered
    <2>3. (Fresh(c) /\ Numbered(c) /\ Ordered(c))'
      BY SMTT(30), <2>1, <2>2, SmallSequences DEF Fresh, Numbered, Ordered, Before
    <2>4. OnTheWay(c)' = {}
      BY <2>1, SmallSequences DEF OnTheWay
    <2>5. Due(c)' = {}
      BY <2>1 DEF Due, End
    <2>6. QED
      BY <1>2, <2>3, <2>4, <2>5 DEF Complete
  <1>3. QED
    BY <1>1, <1>2

\* The head of the queue moves to the sender, or is not for this subscriber.
LEMMA DeliveryPop ==
    ASSUME TypeOK, DeliveryInv, NEW c \in Conns, Pop(c)
    PROVE  DeliveryInv'
  <1> SUFFICES ASSUME NEW d \in Conns
               PROVE  (Fresh(d) /\ Numbered(d) /\ Ordered(d) /\ Complete(d))'
    BY DEF DeliveryInv
  <1> USE DEF TypeOK
  <1>1. CASE d # c
    <2>1. /\ UNCHANGED <<published, queue[d], held[d], sent[d], since[d], registry, until>>
          /\ handler'[d] = handler[d] /\ sender'[d] = sender[d]
      BY <1>1 DEF Pop, io
    <2>2. End(d)' = End(d) /\ until'[d] <= Len(published)
      BY <2>1 DEF End, DeliveryInv, Numbered
    <2>3. QED
      BY <2>1, <2>2, QuietConn
  <1>2. CASE d = c
    <2> DEFINE q == queue[c]
               h == Head(queue[c])
    <2>1. Fresh(c) /\ Numbered(c) /\ Ordered(c) /\ Complete(c)
      BY DEF DeliveryInv
    <2>2. /\ UNCHANGED <<published, sent, since, registry, until, handler>>
          /\ queue'[c] = Tail(q) /\ q # <<>> /\ sender[c] = "pop" /\ held[c] = <<>>
      BY <2>1 DEF Pop, io, Numbered
    <2>3. /\ q \in Seq(Nat) /\ h \in Nat
          /\ Range(q) = {h} \cup Range(Tail(q))
          /\ Increasing(Tail(q)) /\ Before(<<h>>, Tail(q))
      BY <2>1, <2>2, HeadTailProperties, HeadBeforeTail DEF Ordered
    <2>4. handler[c] \notin {"off", "upgraded"}
      BY <2>1, <2>2 DEF Fresh
    <2>5. Due(c)' = Due(c)
      BY <2>2 DEF Due, End
    <2>6. CASE published[h] \in Scopes[c]
      <3>1. held'[c] = <<h>> /\ sender'[c] = "send"
        BY <2>6 DEF Pop
      <3>2. Fresh(c)' /\ Numbered(c)'
        <4>1. Fresh(c)'
          BY <2>1, <2>2, <2>4 DEF Fresh
        <4>2. Numbered(c)'
          <5>1. /\ Range(queue[c]) = {h} \cup Range(queue'[c])
                /\ Range(held'[c]) = {h}
            BY <2>2, <2>3, <3>1, SmallSequences
          <5>2. QED
            BY <2>1, <2>2, <3>1, <5>1 DEF Numbered
        <4>3. QED
          BY <4>1, <4>2
      <3>3. Ordered(c)'
        BY <2>1, <2>2, <2>3, <3>1, SmallSequences DEF Ordered, Before
      <3>4. OnTheWay(c)' = OnTheWay(c)
        <4>1. Range(held[c]) = {} /\ Range(held'[c]) = {h}
          BY <2>2, <2>3, <3>1, SmallSequences
        <4>2. /\ published' = published /\ sent'[c] = sent[c]
              /\ Range(queue[c]) = {h} \cup Range(queue'[c])
          BY <2>2, <2>3
        <4>3. QED
          BY <2>6, <4>1, <4>2 DEF OnTheWay
      <3>5. QED
        BY <1>2, <2>1, <2>5, <3>2, <3>3, <3>4 DEF Complete
    <2>7. CASE published[h] \notin Scopes[c]
      <3>1. held'[c] = <<>> /\ sender'[c] = "pop"
        BY <2>2, <2>7 DEF Pop
      <3>2. Fresh(c)' /\ Numbered(c)'
        BY <2>1, <2>2, <2>3, <2>4, <3>1, SmallSequences DEF Fresh, Numbered
      <3>3. Ordered(c)'
        BY <2>1, <2>2, <2>3, <3>1, SmallSequences DEF Ordered, Before
      <3>4. OnTheWay(c)' = OnTheWay(c)
        BY <2>2, <2>3, <2>7, <3>1, SmallSequences DEF OnTheWay
      <3>5. QED
        BY <1>2, <2>1, <2>5, <3>2, <3>3, <3>4 DEF Complete
    <2>8. QED
      BY <2>6, <2>7
  <1>3. QED
    BY <1>1, <1>2

\* What the sender holds is written to the socket.
LEMMA DeliverySend ==
    ASSUME TypeOK, DeliveryInv, NEW c \in Conns, Send(c)
    PROVE  DeliveryInv'
  <1> SUFFICES ASSUME NEW d \in Conns
               PROVE  (Fresh(d) /\ Numbered(d) /\ Ordered(d) /\ Complete(d))'
    BY DEF DeliveryInv
  <1> USE DEF TypeOK
  <1>1. CASE d # c
    <2>1. /\ UNCHANGED <<published, queue[d], held[d], sent[d], since[d], registry, until>>
          /\ handler'[d] = handler[d] /\ sender'[d] = sender[d]
      BY <1>1 DEF Send
    <2>2. End(d)' = End(d) /\ until'[d] <= Len(published)
      BY <2>1 DEF End, DeliveryInv, Numbered
    <2>3. QED
      BY <2>1, <2>2, QuietConn
  <1>2. CASE d = c
    <2>1. Fresh(c) /\ Numbered(c) /\ Ordered(c) /\ Complete(c)
      BY DEF DeliveryInv
    <2>2. /\ UNCHANGED <<published, queue, since, registry, until, handler>>
          /\ sent'[c] = sent[c] \o held[c] /\ held'[c] = <<>>
          /\ sender[c] = "send" /\ sender'[c] = "pop"
      BY DEF Send
    <2>3. Range(sent[c] \o held[c]) = Range(sent[c]) \cup Range(held[c])
      BY ConcatRange
    <2>4. Increasing(sent[c] \o held[c])
      BY <2>1, ConcatIncreasing DEF Ordered
    <2>5. Fresh(c)' /\ Numbered(c)'
      BY <2>1, <2>2, <2>3, SmallSequences DEF Fresh, Numbered
    <2>6. Ordered(c)'
      BY <2>1, <2>2, <2>3, <2>4, SmallSequences DEF Ordered, Before
    <2>7. OnTheWay(c)' = OnTheWay(c)
      BY <2>2, <2>3, SmallSequences DEF OnTheWay
    <2>8. Due(c)' = Due(c)
      BY <2>2 DEF Due, End
    <2>9. QED
      BY <1>2, <2>1, <2>5, <2>6, <2>7, <2>8 DEF Complete
  <1>3. QED
    BY <1>1, <1>2

\* A broadcast adds a number above all others to the queues it serves; the
\* subscriptions it ends had nothing due after the messages before it.
LEMMA DeliveryBroadcast ==
    ASSUME TypeOK, RegistryInv, DeliveryInv, NEW t \in Topics, Broadcast(t)
    PROVE  DeliveryInv'
  <1> SUFFICES ASSUME NEW c \in Conns
               PROVE  (Fresh(c) /\ Numbered(c) /\ Ordered(c) /\ Complete(c))'
    BY DEF DeliveryInv
  <1> DEFINE n == Len(published) + 1
  <1> USE DEF TypeOK
  <1>1. Fresh(c) /\ Numbered(c) /\ Ordered(c) /\ Complete(c)
    BY DEF DeliveryInv
  <1>2. /\ n \in Nat /\ Len(published') = n /\ published'[n] = t
        /\ \A i \in 1 .. Len(published) : published'[i] = published[i]
        /\ UNCHANGED <<held, handler, sent, since>>
    BY DEF Broadcast, io
  <1>3. sender'[c] = sender[c] \/ (sender[c] = "waiting" /\ sender'[c] = "pop")
    BY DEF Broadcast, NotifySenders
  <1>4. /\ registry' = registry \ Overflown(t)
        /\ until'[c] = IF c \in registry \cap Overflown(t) THEN Len(published) ELSE until[c]
        /\ queue'[c] = IF c \in Served(t) THEN Append(queue[c], n) ELSE queue[c]
    BY DEF Broadcast, Unregister
  <1>5. CASE c \in Served(t)
    <2>1. c \in registry /\ c \notin Overflown(t) /\ t \in Pattern[c]
      BY <1>5 DEF Served, Overflown
    <2>2. /\ Range(queue'[c]) = Range(queue[c]) \cup {n}
          /\ Increasing(queue'[c])
      BY <1>1, <1>2, <1>4, <1>5, AppendIncreasing DEF Numbered, Ordered
    <2>3. Fresh(c)'
      BY <1>2, <2>1 DEF Fresh, RegistryInv
    <2>4. Numbered(c)'
      <3>1. until'[c] = until[c] /\ 1 .. Len(published) \subseteq 1 .. n /\ n \in 1 .. n
        BY <1>4, <2>1
      <3>2. since'[c] <= n /\ until'[c] <= n
        BY <1>1, <1>2, <3>1 DEF Numbered
      <3>3. Range(sent[c]) \cup Range(held[c]) \cup Range(queue'[c]) \subseteq 1 .. n
        BY <1>1, <2>2, <3>1 DEF Numbered
      <3>4. sender'[c] \notin {"send", "ended"} => held[c] = <<>>
        BY <1>1, <1>3 DEF Numbered
      <3>5. QED
        BY <1>2, <3>2, <3>3, <3>4 DEF Numbered
    <2>5. Ordered(c)'
      BY <1>1, <1>2, <2>2 DEF Ordered, Before, Numbered
    <2>6. OnTheWay(c)' = OnTheWay(c) \cup (IF t \in Scopes[c] THEN {n} ELSE {})
      BY <1>1, <1>2, <2>2 DEF OnTheWay, Numbered
    <2>7. Due(c)' = Due(c) \cup (IF t \in Scopes[c] THEN {n} ELSE {})
      <3>1. End(c) = Len(published) /\ End(c)' = n
        BY <1>2, <1>4, <2>1 DEF End
      <3>2. since[c] <= Len(published)
        BY <1>1 DEF Numbered
      <3>3. QED
        BY SMTT(30), <1>2, <2>1, <3>1, <3>2 DEF Due
    <2>8. QED
      BY <1>1, <2>3, <2>4, <2>5, <2>6, <2>7 DEF Complete
  <1>6. CASE c \notin Served(t)
    <2>1. queue'[c] = queue[c]
      BY <1>4, <1>6
    <2>2. Fresh(c)' /\ Numbered(c)'
      <3>1. Fresh(c)'
        BY <1>1, <1>2, <1>3, <2>1 DEF Fresh
      <3>2. since'[c] <= n /\ until'[c] <= n /\ 1 .. Len(published) \subseteq 1 .. n
        BY <1>1, <1>2, <1>4 DEF Numbered
      <3>3. Range(sent[c]) \cup Range(held[c]) \cup Range(queue[c]) \subseteq 1 .. n
        BY <1>1, <3>2 DEF Numbered
      <3>4. sender'[c] \notin {"send", "ended"} => held[c] = <<>>
        BY <1>1, <1>3 DEF Numbered
      <3>5. QED
        BY <1>2, <2>1, <3>1, <3>2, <3>3, <3>4 DEF Numbered
    <2>3. Ordered(c)'
      BY <1>1, <1>2, <2>1 DEF Ordered, Before
    <2>4. OnTheWay(c)' = OnTheWay(c)
      BY <1>1, <1>2, <2>1 DEF OnTheWay, Numbered
    <2>5. Due(c)' = Due(c)
      <3>1. CASE c \in registry /\ c \notin Overflown(t)
        <4>1. t \notin Pattern[c]
          BY <1>6, <3>1 DEF Served, Overflown
        <4>2. End(c) = Len(published) /\ End(c)' = n
          BY <1>2, <1>4, <3>1 DEF End
        <4>3. QED
          BY <1>2, <4>1, <4>2 DEF Due
      <3>2. CASE c \notin registry \/ c \in Overflown(t)
        <4>1. End(c)' = End(c) /\ End(c) <= Len(published) /\ End(c) \in Nat
          BY <1>1, <1>4, <3>2 DEF End, Numbered, Overflown
        <4>2. \A i \in since[c] + 1 .. End(c) : published'[i] = published[i]
          <5>1. since[c] \in Nat /\ Len(published) \in Nat
            OBVIOUS
          <5>2. since[c] + 1 .. End(c) \subseteq 1 .. Len(published)
            BY <4>1, <5>1
          <5>3. QED
            BY <1>2, <5>2
        <4>3. since'[c] = since[c]
          BY <1>2
        <4>4. QED
          BY <4>1, <4>2, <4>3 DEF Due
      <3>3. QED
        BY <3>1, <3>2
    <2>6. QED
      BY <1>1, <2>2, <2>3, <2>4, <2>5 DEF Complete
  <1>7. QED
    BY <1>5, <1>6

LEMMA DeliveryStep ==
    TypeOK /\ RegistryInv /\ DeliveryInv /\ [Next]_vars => DeliveryInv'
  <1> SUFFICES ASSUME TypeOK, RegistryInv, DeliveryInv, [Next]_vars PROVE DeliveryInv'
    OBVIOUS
  <1>1. CASE UNCHANGED vars
    BY <1>1, QuietStep DEF vars
  <1>2. ASSUME NEW t \in Topics, Broadcast(t) PROVE DeliveryInv'
    BY <1>2, DeliveryBroadcast
  <1>3. ASSUME NEW c \in Conns, Register(c) PROVE DeliveryInv'
    BY <1>3, DeliveryRegister
  <1>4. ASSUME NEW c \in Conns, Pop(c) PROVE DeliveryInv'
    BY <1>4, DeliveryPop
  <1>5. ASSUME NEW c \in Conns, Send(c) PROVE DeliveryInv'
    BY <1>5, DeliverySend
  <1>6. ASSUME NEW c \in Conns, Upgrade(c) PROVE DeliveryInv'
    BY <1>6, QuietStep DEF Upgrade, TypeOK, RegistryInv
  <1>7. ASSUME NEW c \in Conns, Receive(c) PROVE DeliveryInv'
    BY <1>7, QuietStep DEF Receive, tasks
  <1>8. ASSUME NEW c \in Conns, Leave(c) PROVE DeliveryInv'
    BY <1>8, QuietStep DEF Leave, tasks
  <1>9. ASSUME NEW c \in Conns, Select(c) PROVE DeliveryInv'
    BY <1>9, QuietStep DEF Select, io, TypeOK
  <1>10. ASSUME NEW c \in Conns, Remove(c) PROVE DeliveryInv'
    BY <1>10, QuietStep DEF Remove, io, TypeOK
  <1>11. ASSUME NEW c \in Conns, AbortSender(c) PROVE DeliveryInv'
    BY <1>11, QuietStep DEF AbortSender, Aborted, io, TypeOK
  <1>12. ASSUME NEW c \in Conns, AbortReceiver(c) PROVE DeliveryInv'
    BY <1>12, QuietStep DEF AbortReceiver, io
  <1>13. ASSUME NEW c \in Conns, FindEmpty(c) \/ AwaitMessages(c) \/ SendFails(c)
         PROVE  DeliveryInv'
    <2>1. handler[c] \notin {"off", "upgraded"}
      BY <1>13 DEF FindEmpty, AwaitMessages, SendFails, DeliveryInv, Fresh
    <2>2. CASE FindEmpty(c)
      BY <2>1, <2>2, QuietStep DEF FindEmpty, io, TypeOK
    <2>3. CASE AwaitMessages(c)
      BY <2>1, <2>3, QuietStep DEF AwaitMessages, io, TypeOK
    <2>4. CASE SendFails(c)
      BY <2>1, <2>4, QuietStep DEF SendFails, io, TypeOK
    <2>5. QED
      BY <1>13, <2>2, <2>3, <2>4
  <1>14. ASSUME NEW c \in Conns, ReadClose(c) \/ ReadEnd(c) PROVE DeliveryInv'
    <2>1. Stop(c)
      BY <1>14 DEF ReadClose, ReadEnd
    <2>2. QED
      BY <2>1, QuietStep DEF Stop, io
  <1>15. QED
    BY <1>1, <1>2, <1>3, <1>4, <1>5, <1>6, <1>7, <1>8, <1>9, <1>10, <1>11, <1>12,
       <1>13, <1>14 DEF Next, Handler, Sender

LEMMA DeliveryAlways == Spec => [](TypeOK /\ DeliveryInv)
  BY InitType, TypeStep, InitRegistry, RegistryStep, InitDelivery, DeliveryStep, PTL DEF Spec

\* Every client gets its messages in the order of the broadcasts, and none twice.
THEOREM MessagesArriveInOrder == Spec => []DeliveredInOrder
  <1>1. TypeOK /\ DeliveryInv => DeliveredInOrder
    BY DeliveryImplies
  <1>2. QED
    BY <1>1, DeliveryAlways, PTL

\* While it is registered, a subscriber misses nothing and gets nothing it may not read.
THEOREM MessagesArriveWithoutGap == Spec => []DeliveredWithoutGap
  <1>1. TypeOK /\ DeliveryInv => DeliveredWithoutGap
    BY DeliveryImplies
  <1>2. QED
    BY <1>1, DeliveryAlways, PTL

----------------------------------------------------------------------------
(***************************************************************************)
(* What a pattern selects (module TopicRoutes), for every pattern and      *)
(* topic, any segments and any folding of case.  The matcher is recursive; *)
(* provers do not see that it terminates, so that its function exists and  *)
(* is the only one of its kind is proved here, by an induction over the    *)
(* segments that are left.                                                 *)
(***************************************************************************)

\* Induction over the natural numbers, for a set in place of a predicate.
LEMMA NatSetInduction ==
    ASSUME NEW S, 0 \in S, \A n \in Nat : n \in S => n + 1 \in S
    PROVE  \A n \in Nat : n \in S
  <1> DEFINE Less == OpToRel(<, Nat)   T == Nat \ S
  <1>1. IsWellFoundedOn(Less, Nat)
    BY NatLessThanWellFounded
  <1>2. ASSUME NEW n \in T PROVE FALSE
    <2>1. T \subseteq Nat /\ T # {}
      BY <1>2
    <2>2. PICK x \in T : \A y \in T : ~(<<y, x>> \in Less)
      <3> HIDE DEF Less, T
      <3> QED BY <1>1, <2>1, WFMin
    <2>3. x # 0 /\ x - 1 \in Nat /\ x - 1 < x /\ (x - 1) + 1 = x
      OBVIOUS
    <2>4. <<x - 1, x>> \in Less
      BY <2>3 DEF OpToRel
    <2>5. x - 1 \in S
      BY <2>2, <2>3, <2>4
    <2> QED BY <2>3, <2>5
  <1> QED BY <1>2

\* The i-th segment of p fits the stretch of t from j up to k.
FitsAt(p, i, t, j, k, ignoreCase) ==
    \/ p[i] = "**"
    \/ p[i] = ">" /\ i = Len(p) /\ j < k
    \/ /\ p[i] \notin {"**", ">"} /\ k = j + 1
       /\ p[i] = "*" \/ SameSegment(p[i], t[j], ignoreCase)

LEMMA PieceFits ==
    ASSUME NEW S, NEW p, NEW i, NEW t \in Seq(S), NEW ignoreCase,
           NEW j \in 1..Len(t) + 1, NEW k \in j..Len(t) + 1
    PROVE  Fits(p, i, SubSeq(t, j, k - 1), ignoreCase) <=> FitsAt(p, i, t, j, k, ignoreCase)
  <1> DEFINE piece == SubSeq(t, j, k - 1)
  <1>1. piece \in Seq(S) /\ Len(piece) = k - j /\ (j < k => piece[1] = t[j])
    BY SubSeqProperties
  <1>2. Len(piece) = 1 <=> k = j + 1
    BY <1>1
  <1>3. k = j + 1 => piece[1] = t[j]
    <2>1. k = j + 1 => j < k
      OBVIOUS
    <2> QED BY <1>1, <2>1
  <1>4. Len(piece) = 0 <=> ~(j < k)
    BY <1>1
  <1> HIDE DEF piece
  <1>5. piece # <<>> <=> j < k
    BY <1>1, <1>4, EmptySeq
  <1>6. CASE p[i] = "**"
    BY <1>6 DEF Fits, FitsAt
  <1>7. CASE p[i] = ">"
    BY <1>5, <1>7 DEF Fits, FitsAt, piece
  <1>8. CASE p[i] \notin {"**", ">"}
    <2>1. Fits(p, i, piece, ignoreCase) <=>
            Len(piece) = 1 /\ (p[i] = "*" \/ SameSegment(p[i], piece[1], ignoreCase))
      BY <1>8 DEF Fits
    <2> QED BY <1>2, <1>3, <1>8, <2>1 DEF FitsAt, piece
  <1> QED BY <1>6, <1>7, <1>8

\* From its i-th segment on p covers what is left of t from one of these positions:
\* c says where each stretch begins.
IsCut(p, i, t, j, c, ignoreCase) ==
    /\ c[i] = j /\ c[Len(p) + 1] = Len(t) + 1
    /\ \A k \in i..Len(p) : c[k] <= c[k + 1] /\ FitsAt(p, k, t, c[k], c[k + 1], ignoreCase)
CoveredFrom(p, i, t, ignoreCase) ==
    {j \in 1..Len(t) + 1 :
       \E c \in [i..Len(p) + 1 -> 1..Len(t) + 1] : IsCut(p, i, t, j, c, ignoreCase)}

LEMMA NothingLeft ==
    ASSUME NEW S, NEW p \in Seq(S), NEW U, NEW t \in Seq(U), NEW ignoreCase
    PROVE  CoveredFrom(p, Len(p) + 1, t, ignoreCase) = {Len(t) + 1}
  <1> DEFINE c == [k \in Len(p) + 1..Len(p) + 1 |-> Len(t) + 1]
  <1>1. c \in [Len(p) + 1..Len(p) + 1 -> 1..Len(t) + 1]
    OBVIOUS
  <1>2. IsCut(p, Len(p) + 1, t, Len(t) + 1, c, ignoreCase)
    BY DEF IsCut
  <1> HIDE DEF c
  <1>3. Len(t) + 1 \in CoveredFrom(p, Len(p) + 1, t, ignoreCase)
    <2>1. Len(t) + 1 \in 1..Len(t) + 1
      OBVIOUS
    <2> QED BY <1>1, <1>2, <2>1 DEF CoveredFrom
  <1>4. ASSUME NEW j \in CoveredFrom(p, Len(p) + 1, t, ignoreCase) PROVE j = Len(t) + 1
    BY <1>4 DEF CoveredFrom, IsCut
  <1> QED BY <1>3, <1>4

\* What is covered from the i-th segment on is a stretch that this segment fits,
\* and behind it what is covered from the next one on.
LEMMA OneStretch ==
    ASSUME NEW S, NEW p \in Seq(S), NEW U, NEW t \in Seq(U), NEW ignoreCase,
           NEW i \in 1..Len(p), NEW j \in 1..Len(t) + 1
    PROVE  j \in CoveredFrom(p, i, t, ignoreCase) <=>
             \E k \in CoveredFrom(p, i + 1, t, ignoreCase) :
               j <= k /\ FitsAt(p, i, t, j, k, ignoreCase)
  <1>1. ASSUME j \in CoveredFrom(p, i, t, ignoreCase)
        PROVE  \E k \in CoveredFrom(p, i + 1, t, ignoreCase) :
                 j <= k /\ FitsAt(p, i, t, j, k, ignoreCase)
    <2>1. PICK c \in [i..Len(p) + 1 -> 1..Len(t) + 1] : IsCut(p, i, t, j, c, ignoreCase)
      BY <1>1 DEF CoveredFrom
    <2> DEFINE d == [k \in i + 1..Len(p) + 1 |-> c[k]]
    <2>2. /\ i + 1 \in i..Len(p) + 1 /\ i + 1 \in i + 1..Len(p) + 1
          /\ \A k \in i + 1..Len(p) : /\ k \in i..Len(p) /\ k \in i + 1..Len(p) + 1
                                      /\ k + 1 \in i + 1..Len(p) + 1
          /\ \A k \in i + 1..Len(p) + 1 : k \in i..Len(p) + 1
          /\ Len(p) + 1 \in i + 1..Len(p) + 1 /\ i \in i..Len(p)
      OBVIOUS
    <2>3. d \in [i + 1..Len(p) + 1 -> 1..Len(t) + 1]
      BY <2>2
    <2>4. IsCut(p, i + 1, t, c[i + 1], d, ignoreCase)
      BY <2>1, <2>2 DEF IsCut
    <2>5. c[i + 1] \in CoveredFrom(p, i + 1, t, ignoreCase)
      BY <2>2, <2>3, <2>4 DEF CoveredFrom
    <2>6. j <= c[i + 1] /\ FitsAt(p, i, t, j, c[i + 1], ignoreCase)
      BY <2>1, <2>2 DEF IsCut
    <2> QED BY <2>5, <2>6
  <1>2. ASSUME NEW k \in CoveredFrom(p, i + 1, t, ignoreCase),
               j <= k, FitsAt(p, i, t, j, k, ignoreCase)
        PROVE  j \in CoveredFrom(p, i, t, ignoreCase)
    <2>1. PICK c \in [i + 1..Len(p) + 1 -> 1..Len(t) + 1] : IsCut(p, i + 1, t, k, c, ignoreCase)
      BY <1>2 DEF CoveredFrom
    <2> DEFINE d == [m \in i..Len(p) + 1 |-> IF m = i THEN j ELSE c[m]]
    <2>2. d \in [i..Len(p) + 1 -> 1..Len(t) + 1]
      OBVIOUS
    <2>3. d[i] = j /\ d[Len(p) + 1] = Len(t) + 1 /\ d[i + 1] = k
      BY <2>1 DEF IsCut
    <2>4. ASSUME NEW m \in i..Len(p)
          PROVE  d[m] <= d[m + 1] /\ FitsAt(p, m, t, d[m], d[m + 1], ignoreCase)
      <3>1. CASE m = i
        BY <1>2, <2>3, <3>1
      <3>2. CASE m # i
        <4>1. m \in i + 1..Len(p) /\ m + 1 \in i..Len(p) + 1 /\ m \in i..Len(p) + 1 /\ m + 1 # i
          BY <3>2
        <4>2. d[m] = c[m] /\ d[m + 1] = c[m + 1]
          BY <3>2, <4>1
        <4>3. c[m] <= c[m + 1] /\ FitsAt(p, m, t, c[m], c[m + 1], ignoreCase)
          BY <2>1, <4>1 DEF IsCut
        <4> QED BY <4>2, <4>3
      <3> QED BY <3>1, <3>2
    <2>5. IsCut(p, i, t, j, d, ignoreCase)
      BY <2>3, <2>4 DEF IsCut
    <2> QED BY <2>2, <2>5 DEF CoveredFrom
  <1> QED BY <1>1, <1>2

LEMMA CoveredIsPlaces ==
    ASSUME NEW S, NEW p \in Seq(S), NEW U, NEW t \in Seq(U), NEW ignoreCase, NEW i \in 1..Len(p)
    PROVE  CoveredFrom(p, i, t, ignoreCase) =
             Places(p, i, t, CoveredFrom(p, i + 1, t, ignoreCase), ignoreCase)
  <1> DEFINE after == CoveredFrom(p, i + 1, t, ignoreCase)
  <1>1. after \subseteq 1..Len(t) + 1 /\ CoveredFrom(p, i, t, ignoreCase) \subseteq 1..Len(t) + 1
    BY DEF CoveredFrom
  <1>2. i = Len(p) => after = {Len(t) + 1}
    BY NothingLeft
  <1> HIDE DEF after
  <1>3. ASSUME NEW j \in 1..Len(t) + 1
        PROVE  (\E k \in after : j <= k /\ FitsAt(p, i, t, j, k, ignoreCase)) <=>
                 j \in Places(p, i, t, after, ignoreCase)
    <2>1. CASE p[i] = "**"
      BY <1>1, <2>1 DEF FitsAt, Places, Rests
    <2>2. CASE p[i] = ">"
      BY <1>1, <1>2, <2>2 DEF FitsAt, Places
    <2>3. CASE p[i] \notin {"**", ">"}
      BY <1>1, <2>3 DEF FitsAt, Places
    <2> QED BY <2>1, <2>2, <2>3
  <1>4. ASSUME NEW j \in 1..Len(t) + 1
        PROVE  j \in CoveredFrom(p, i, t, ignoreCase) <=> j \in Places(p, i, t, after, ignoreCase)
    BY <1>3, OneStretch DEF after
  <1>5. Places(p, i, t, after, ignoreCase) \subseteq 1..Len(t) + 1
    BY DEF Places
  <1>6. CoveredFrom(p, i, t, ignoreCase) = Places(p, i, t, after, ignoreCase)
    BY <1>1, <1>4, <1>5
  <1> QED BY <1>6 DEF after

\* The recursive matcher: what it computes for each place of the pattern.
LEMMA MatchedIsCovered ==
    ASSUME NEW S, NEW p \in Seq(S), NEW U, NEW t \in Seq(U), NEW ignoreCase
    PROVE  MatchedFrom(p, t, ignoreCase) =
             [i \in 1..Len(p) + 1 |-> CoveredFrom(p, i, t, ignoreCase)]
  <1> DEFINE From(f, i) == IF i > Len(p) THEN {Len(t) + 1}
                           ELSE Places(p, i, t, f[i + 1], ignoreCase)
             Solves(f) == f = [i \in 1..Len(p) + 1 |-> From(f, i)]
             covered == [i \in 1..Len(p) + 1 |-> CoveredFrom(p, i, t, ignoreCase)]
  <1>1. Solves(covered)
    <2>1. ASSUME NEW i \in 1..Len(p) + 1 PROVE covered[i] = From(covered, i)
      <3>1. CASE i > Len(p)
        <4>1. i = Len(p) + 1
          BY <3>1
        <4> QED BY <3>1, <4>1, NothingLeft
      <3>2. CASE i <= Len(p)
        <4>1. i \in 1..Len(p) /\ i + 1 \in 1..Len(p) + 1 /\ ~(i > Len(p))
          BY <3>2
        <4>2. covered[i + 1] = CoveredFrom(p, i + 1, t, ignoreCase)
          BY <4>1
        <4> QED BY <4>1, <4>2, CoveredIsPlaces
      <3> QED BY <3>1, <3>2
    <2> HIDE DEF From
    <2> QED BY <2>1
  <1>2. ASSUME NEW f, Solves(f) PROVE f = covered
    <2> DEFINE Left == {n \in Nat : n <= Len(p) => f[Len(p) + 1 - n] = covered[Len(p) + 1 - n]}
    <2>1. \A i \in 1..Len(p) + 1 : f[i] = From(f, i) /\ covered[i] = From(covered, i)
      <3> HIDE DEF From, covered
      <3> QED BY <1>1, <1>2
    <2>2. 0 \in Left
      <3>1. Len(p) + 1 \in 1..Len(p) + 1 /\ Len(p) + 1 > Len(p) /\ Len(p) + 1 - 0 = Len(p) + 1
        OBVIOUS
      <3>2. f[Len(p) + 1] = {Len(t) + 1} /\ covered[Len(p) + 1] = {Len(t) + 1}
        <4> HIDE DEF covered
        <4> QED BY <2>1, <3>1
      <3> HIDE DEF covered
      <3> QED BY <3>1, <3>2
    <2>3. ASSUME NEW n \in Nat, n \in Left PROVE n + 1 \in Left
      <3> DEFINE i == Len(p) + 1 - (n + 1)
      <3>1. SUFFICES ASSUME n + 1 <= Len(p) PROVE f[i] = covered[i]
        BY <2>3
      <3>2. i \in 1..Len(p) + 1 /\ ~(i > Len(p)) /\ i + 1 = Len(p) + 1 - n /\ n <= Len(p)
        BY <3>1
      <3> HIDE DEF covered, i
      <3>3. f[i + 1] = covered[i + 1]
        BY <2>3, <3>2
      <3> QED BY <2>1, <3>2, <3>3
    <2>4. Left = Nat
      <3> HIDE DEF Left
      <3>1. \A n \in Nat : n \in Left
        BY <2>2, <2>3, NatSetInduction
      <3> QED BY <3>1 DEF Left
    <2>5. ASSUME NEW i \in 1..Len(p) + 1 PROVE f[i] = covered[i]
      <3> DEFINE n == Len(p) + 1 - i
      <3>1. n \in Nat /\ n <= Len(p) /\ Len(p) + 1 - n = i
        OBVIOUS
      <3>2. n \in Left
        <4> HIDE DEF Left, n
        <4> QED BY <2>4, <3>1
      <3> HIDE DEF covered, n
      <3> QED BY <3>1, <3>2
    <2>6. f = [i \in 1..Len(p) + 1 |-> From(f, i)]
      BY <1>2
    <2> HIDE DEF From
    <2>7. f = [i \in 1..Len(p) + 1 |-> f[i]]
      BY <2>6
    <2>8. f = [i \in 1..Len(p) + 1 |-> covered[i]]
      BY <2>5, <2>7
    <2> QED BY <2>8
  <1>3. MatchedFrom(p, t, ignoreCase) = CHOOSE f : Solves(f)
    BY DEF MatchedFrom
  <1> HIDE DEF Solves, covered
  <1>4. MatchedFrom(p, t, ignoreCase) = covered
    BY <1>1, <1>2, <1>3
  <1> QED BY <1>4 DEF covered

LEMMA StrictlyInside ==
    ASSUME NEW n \in Nat, NEW i \in 0..n, i # 0, i # n
    PROVE  i \in 1..n - 1 /\ i + 1 \in 1..n + 1
  OBVIOUS

\* Cutting all of a topic along all of a pattern.
LEMMA CoversFromTheFirst ==
    ASSUME NEW S, NEW p \in Seq(S), p # <<>>, NEW U, NEW t \in Seq(U), NEW ignoreCase
    PROVE  Covers(p, t, ignoreCase) <=> 1 \in CoveredFrom(p, 1, t, ignoreCase)
  <1> DEFINE Cut(cuts, i) == CASE i = 0 -> 0 [] i = Len(p) -> Len(t) [] OTHER -> cuts[i]
             Good(cuts) == \A i \in DOMAIN p :
                  /\ Cut(cuts, i - 1) <= Cut(cuts, i)
                  /\ Fits(p, i, SubSeq(t, Cut(cuts, i - 1) + 1, Cut(cuts, i)), ignoreCase)
             Cuts == [1..Len(p) - 1 -> 0..Len(t)]
  <1>1. Covers(p, t, ignoreCase) <=> \E cuts \in Cuts : Good(cuts)
    BY DEF Covers
  <1>2. Len(p) \in Nat /\ Len(p) # 0 /\ DOMAIN p = 1..Len(p) /\ Len(t) \in Nat
    BY EmptySeq
  <1>3. ASSUME NEW cuts \in Cuts, NEW i \in 0..Len(p) PROVE Cut(cuts, i) \in 0..Len(t)
    <2>1. ASSUME i # 0, i # Len(p) PROVE i \in 1..Len(p) - 1
      <3> HIDE DEF Cut, Cuts, Good
      <3> QED BY <1>2, <2>1, StrictlyInside
    <2>2. CASE i = 0
      BY <1>2, <2>2
    <2>3. CASE i # 0 /\ i = Len(p)
      BY <1>2, <2>3
    <2>4. CASE i # 0 /\ i # Len(p)
      BY <2>1, <2>4
    <2> QED BY <2>2, <2>3, <2>4
  <1>4. ASSUME NEW cuts \in Cuts, NEW i \in 1..Len(p), Cut(cuts, i - 1) <= Cut(cuts, i)
        PROVE  Fits(p, i, SubSeq(t, Cut(cuts, i - 1) + 1, Cut(cuts, i)), ignoreCase) <=>
                 FitsAt(p, i, t, Cut(cuts, i - 1) + 1, Cut(cuts, i) + 1, ignoreCase)
    <2>1. i - 1 \in 0..Len(p) /\ i \in 0..Len(p)
      BY <1>2
    <2>2. Cut(cuts, i - 1) \in 0..Len(t) /\ Cut(cuts, i) \in 0..Len(t)
      BY <1>3, <2>1
    <2> HIDE DEF Cut
    <2>3. Cut(cuts, i - 1) + 1 \in 1..Len(t) + 1
          /\ Cut(cuts, i) + 1 \in Cut(cuts, i - 1) + 1..Len(t) + 1
          /\ Cut(cuts, i) + 1 - 1 = Cut(cuts, i)
      BY <1>2, <1>4, <2>2
    <2> DEFINE j == Cut(cuts, i - 1) + 1   k == Cut(cuts, i) + 1
    <2>4. Fits(p, i, SubSeq(t, j, k - 1), ignoreCase) <=> FitsAt(p, i, t, j, k, ignoreCase)
      <3>1. j \in 1..Len(t) + 1 /\ k \in j..Len(t) + 1
        BY <2>3
      <3> HIDE DEF j, k
      <3> QED BY <3>1, PieceFits
    <2>5. j = Cut(cuts, i - 1) + 1 /\ k = Cut(cuts, i) + 1
      OBVIOUS
    <2>6. k - 1 = Cut(cuts, i)
      BY <2>2
    <2> HIDE DEF j, k
    <2> QED BY <2>4, <2>5, <2>6
  <1>5. ASSUME NEW cuts \in Cuts, Good(cuts) PROVE 1 \in CoveredFrom(p, 1, t, ignoreCase)
    <2> DEFINE c == [k \in 1..Len(p) + 1 |-> Cut(cuts, k - 1) + 1]
    <2>1. ASSUME NEW k \in 1..Len(p) + 1 PROVE c[k] \in 1..Len(t) + 1
      <3>1. k - 1 \in 0..Len(p)
        BY <1>2
      <3>2. Cut(cuts, k - 1) \in 0..Len(t)
        BY <1>3, <3>1
      <3> HIDE DEF Cut
      <3> QED BY <1>2, <3>2
    <2>2. c \in [1..Len(p) + 1 -> 1..Len(t) + 1]
      BY <2>1
    <2>3. Cut(cuts, 0) = 0 /\ Cut(cuts, Len(p)) = Len(t)
      BY <1>2
    <2>4. c[1] = 1 /\ c[Len(p) + 1] = Len(t) + 1
      <3>1. 1 \in 1..Len(p) + 1 /\ Len(p) + 1 \in 1..Len(p) + 1 /\ 1 - 1 = 0 /\ Len(p) + 1 - 1 = Len(p)
        BY <1>2
      <3> HIDE DEF Cut
      <3> QED BY <2>3, <3>1
    <2>5. ASSUME NEW k \in 1..Len(p)
          PROVE  c[k] <= c[k + 1] /\ FitsAt(p, k, t, c[k], c[k + 1], ignoreCase)
      <3>1. k \in DOMAIN p /\ k - 1 \in 0..Len(p) /\ k \in 0..Len(p)
            /\ k \in 1..Len(p) + 1 /\ k + 1 \in 1..Len(p) + 1 /\ k + 1 - 1 = k
        BY <1>2
      <3>2. c[k] = Cut(cuts, k - 1) + 1 /\ c[k + 1] = Cut(cuts, k) + 1
        <4> HIDE DEF Cut
        <4> QED BY <3>1
      <3>3. Cut(cuts, k - 1) \in 0..Len(t) /\ Cut(cuts, k) \in 0..Len(t)
        BY <1>3, <3>1
      <3>4. Cut(cuts, k - 1) <= Cut(cuts, k)
            /\ Fits(p, k, SubSeq(t, Cut(cuts, k - 1) + 1, Cut(cuts, k)), ignoreCase)
        <4> HIDE DEF Cut
        <4> QED BY <1>5, <3>1
      <3>5. FitsAt(p, k, t, Cut(cuts, k - 1) + 1, Cut(cuts, k) + 1, ignoreCase)
        BY <1>4, <3>4
      <3> HIDE DEF Cut, c
      <3> QED BY <1>2, <3>2, <3>3, <3>4, <3>5
    <2>6. IsCut(p, 1, t, 1, c, ignoreCase)
      <3> HIDE DEF c
      <3> QED BY <2>4, <2>5 DEF IsCut
    <2>7. 1 \in 1..Len(t) + 1
      BY <1>2
    <2> HIDE DEF c
    <2> QED BY <2>2, <2>6, <2>7 DEF CoveredFrom
  <1>6. ASSUME 1 \in CoveredFrom(p, 1, t, ignoreCase) PROVE \E cuts \in Cuts : Good(cuts)
    <2>1. PICK c \in [1..Len(p) + 1 -> 1..Len(t) + 1] : IsCut(p, 1, t, 1, c, ignoreCase)
      BY <1>6 DEF CoveredFrom
    <2> DEFINE cuts == [k \in 1..Len(p) - 1 |-> c[k + 1] - 1]
    <2>2. cuts \in Cuts
      <3>1. ASSUME NEW k \in 1..Len(p) - 1 PROVE c[k + 1] - 1 \in 0..Len(t)
        <4>1. k + 1 \in 1..Len(p) + 1
          BY <1>2
        <4>2. c[k + 1] \in 1..Len(t) + 1
          BY <4>1
        <4> QED BY <1>2, <4>2
      <3> QED BY <3>1
    <2>3. ASSUME NEW k \in 0..Len(p) PROVE Cut(cuts, k) + 1 = c[k + 1]
      <3>1. c[1] = 1 /\ c[Len(p) + 1] = Len(t) + 1
        BY <2>1 DEF IsCut
      <3>2. CASE k = 0
        BY <3>1, <3>2
      <3>3. CASE k = Len(p)
        BY <1>2, <3>1, <3>3
      <3>4. CASE k # 0 /\ k # Len(p)
        <4>1. k \in 1..Len(p) - 1 /\ k + 1 \in 1..Len(p) + 1
          BY <1>2, <3>4, StrictlyInside
        <4>2. Cut(cuts, k) = c[k + 1] - 1
          BY <3>4, <4>1
        <4>3. c[k + 1] \in 1..Len(t) + 1
          BY <4>1
        <4> HIDE DEF Cut
        <4> QED BY <1>2, <4>2, <4>3
      <3> QED BY <3>2, <3>3, <3>4
    <2>4. ASSUME NEW k \in DOMAIN p
          PROVE /\ Cut(cuts, k - 1) <= Cut(cuts, k)
                /\ Fits(p, k, SubSeq(t, Cut(cuts, k - 1) + 1, Cut(cuts, k)), ignoreCase)
      <3>1. k \in 1..Len(p) /\ k - 1 \in 0..Len(p) /\ k \in 0..Len(p) /\ k - 1 + 1 = k
        BY <1>2
      <3>2. Cut(cuts, k - 1) + 1 = c[k] /\ Cut(cuts, k) + 1 = c[k + 1]
        <4> HIDE DEF Cut
        <4> QED BY <2>3, <3>1
      <3>3. c[k] <= c[k + 1] /\ FitsAt(p, k, t, c[k], c[k + 1], ignoreCase)
        BY <2>1, <3>1 DEF IsCut
      <3>4. Cut(cuts, k - 1) \in 0..Len(t) /\ Cut(cuts, k) \in 0..Len(t)
        <4> HIDE DEF cuts
        <4> QED BY <1>3, <2>2, <3>1
      <3>5. Cut(cuts, k - 1) <= Cut(cuts, k)
        <4> HIDE DEF Cut
        <4> QED BY <1>2, <3>2, <3>3, <3>4
      <3>6. FitsAt(p, k, t, Cut(cuts, k - 1) + 1, Cut(cuts, k) + 1, ignoreCase)
        <4> HIDE DEF Cut
        <4> QED BY <3>2, <3>3
      <3> QED BY <1>4, <2>2, <3>1, <3>5, <3>6
    <2> QED BY <2>2, <2>4
  <1> QED BY <1>1, <1>5, <1>6

LEMMA MatcherIsExact ==
    ASSUME NEW S, NEW p \in Seq(S), p # <<>>, NEW U, NEW t \in Seq(U), NEW ignoreCase
    PROVE  MatchSegments(p, t, ignoreCase) <=> Covers(p, t, ignoreCase)
  <1>1. 1 \in 1..Len(p) + 1
    OBVIOUS
  <1>2. MatchedFrom(p, t, ignoreCase)[1] = CoveredFrom(p, 1, t, ignoreCase)
    BY <1>1, MatchedIsCovered
  <1> QED BY <1>2, CoversFromTheFirst DEF MatchSegments

\* A topic matches a pattern if the pattern's segments can be laid along it.
LEMMA LaidAlong ==
    ASSUME NEW S, NEW p \in Seq(S), NEW U, NEW t \in Seq(U), NEW ignoreCase
    PROVE  MatchSegments(p, t, ignoreCase) <=>
             \E c \in [1..Len(p) + 1 -> 1..Len(t) + 1] : IsCut(p, 1, t, 1, c, ignoreCase)
  <1>1. 1 \in 1..Len(p) + 1 /\ 1 \in 1..Len(t) + 1
    OBVIOUS
  <1>2. MatchedFrom(p, t, ignoreCase)[1] = CoveredFrom(p, 1, t, ignoreCase)
    BY <1>1, MatchedIsCovered
  <1> QED BY <1>1, <1>2 DEF MatchSegments, CoveredFrom

LEMMA TopicIsCut ==
    ASSUME NEW S, NEW p \in Seq(S), NEW U, NEW t \in Seq(U)
    PROVE  MatchTopic(p, t) <=>
             \E c \in [1..Len(p) + 1 -> 1..Len(t) + 1] : IsCut(p, 1, t, 1, c, FALSE)
  BY LaidAlong, Zenon DEF MatchTopic

LEMMA Triple ==
    ASSUME NEW a, NEW b, NEW c
    PROVE  LET p == <<a, b, c>>
           IN  p \in Seq({a, b, c}) /\ Len(p) = 3 /\ p[1] = a /\ p[2] = b /\ p[3] = c
  OBVIOUS

\* The rules that stand before the one for inboxes, and that one.
LEMMA RulesBeforeInboxes ==
    /\ DOMAIN Rules = 1..12
    /\ Rules[1][1] = <<"_system", "presence", "**">>
    /\ Rules[2][1] = <<"_agent", "*", "heartbeat">>
    /\ Rules[3][1] = <<"_agent", "*", "status">>
    /\ Rules[4][1] = <<"_agent", "**", "inbox">>
    /\ Rules[4][2] = Policy("queryable", 30, "d")
  BY DEF Rules

LEMMA InboxIsKept ==
    ASSUME NEW U, NEW t \in Seq(U), Len(t) >= 3, t[1] = "_agent", t[Len(t)] = "inbox"
    PROVE  Resolve(t) = Policy("queryable", 30, "d")
  <1> DEFINE hits == {i \in DOMAIN Rules : MatchTopic(Rules[i][1], t)}
  <1>0. Len(t) \in Nat
    OBVIOUS
  <1>1. 1 \notin hits
    <2> DEFINE p == <<"_system", "presence", "**">>
    <2>1. p \in Seq({"_system", "presence", "**"}) /\ Len(p) = 3 /\ p[1] = "_system"
      BY Triple
    <2> HIDE DEF p
    <2>2. ASSUME NEW c, IsCut(p, 1, t, 1, c, FALSE) PROVE FALSE
      <3>1. c[1] = 1 /\ FitsAt(p, 1, t, c[1], c[1 + 1], FALSE)
        <4>1. 1 \in 1..Len(p)
          BY <2>1
        <4> QED BY <2>2, <4>1 DEF IsCut
      <3> QED BY <2>1, <3>1 DEF FitsAt, SameSegment
    <2>3. ~MatchTopic(p, t)
      BY <2>1, <2>2, TopicIsCut
    <2> QED BY <2>3, RulesBeforeInboxes DEF p
  <1>2. ASSUME NEW last, last # "inbox", last # "*", last # "**", last # ">"
        PROVE  ~MatchTopic(<<"_agent", "*", last>>, t)
    <2> DEFINE p == <<"_agent", "*", last>>
    <2>1. /\ p \in Seq({"_agent", "*", last}) /\ Len(p) = 3
          /\ p[1] = "_agent" /\ p[2] = "*" /\ p[3] = last
      BY Triple
    <2> HIDE DEF p
    <2>2. ASSUME NEW c, IsCut(p, 1, t, 1, c, FALSE) PROVE FALSE
      <3>1. /\ c[1] = 1 /\ c[4] = Len(t) + 1
            /\ FitsAt(p, 1, t, c[1], c[2], FALSE)
            /\ FitsAt(p, 2, t, c[2], c[3], FALSE)
            /\ FitsAt(p, 3, t, c[3], c[4], FALSE)
        <4>1. /\ 1 \in 1..Len(p) /\ 2 \in 1..Len(p) /\ 3 \in 1..Len(p)
              /\ 1 + 1 = 2 /\ 2 + 1 = 3 /\ 3 + 1 = 4 /\ Len(p) + 1 = 4
          BY <2>1
        <4> QED BY <2>2, <4>1 DEF IsCut
      <3>2. c[2] = 2
        BY <2>1, <3>1 DEF FitsAt
      <3>3. c[3] = 3
        BY <2>1, <3>1, <3>2 DEF FitsAt
      <3>4. c[4] = 4 /\ last = t[3]
        BY <1>2, <2>1, <3>1, <3>3 DEF FitsAt, SameSegment
      <3>5. Len(t) = 3
        <4>1. Len(t) + 1 = 4
          BY <3>1, <3>4, Zenon
        <4>2. ASSUME NEW n \in Nat, n + 1 = 4 PROVE n = 3
          BY <4>2
        <4> QED BY <1>0, <4>1, <4>2, Zenon
      <3> QED BY <1>2, <3>4, <3>5
    <2>3. ~MatchTopic(p, t)
      BY <2>1, <2>2, TopicIsCut
    <2> QED BY <2>3 DEF p
  <1>3. 2 \notin hits /\ 3 \notin hits
    <2>1. \A last \in {"heartbeat", "status"} :
            last # "inbox" /\ last # "*" /\ last # "**" /\ last # ">"
      OBVIOUS
    <2>2. \A last \in {"heartbeat", "status"} : ~MatchTopic(<<"_agent", "*", last>>, t)
      BY <1>2, <2>1, Zenon
    <2> QED BY <2>2, RulesBeforeInboxes, Zenon
  <1>4. 4 \in hits
    <2> DEFINE p == <<"_agent", "**", "inbox">>
               c == [k \in 1..4 |-> IF k = 1 THEN 1 ELSE IF k = 2 THEN 2
                                    ELSE IF k = 3 THEN Len(t) ELSE Len(t) + 1]
    <2>1. /\ p \in Seq({"_agent", "**", "inbox"}) /\ Len(p) = 3
          /\ p[1] = "_agent" /\ p[2] = "**" /\ p[3] = "inbox"
      BY Triple
    <2>2. c \in [1..Len(p) + 1 -> 1..Len(t) + 1]
      BY <1>0, <2>1
    <2>3. c[1] = 1 /\ c[2] = 2 /\ c[3] = Len(t) /\ c[4] = Len(t) + 1
      OBVIOUS
    <2> HIDE DEF p, c
    <2>4. FitsAt(p, 1, t, c[1], c[2], FALSE) /\ FitsAt(p, 2, t, c[2], c[3], FALSE)
          /\ FitsAt(p, 3, t, c[3], c[4], FALSE)
      BY <1>0, <2>1, <2>3 DEF FitsAt, SameSegment
    <2>5. c[1] <= c[2] /\ c[2] <= c[3] /\ c[3] <= c[4]
      BY <1>0, <2>3
    <2>6. ASSUME NEW k \in 1..Len(p)
          PROVE  c[k] <= c[k + 1] /\ FitsAt(p, k, t, c[k], c[k + 1], FALSE)
      <3>1. k \in {1, 2, 3} /\ 1 + 1 = 2 /\ 2 + 1 = 3 /\ 3 + 1 = 4
        BY <2>1
      <3>2. CASE k = 1
        BY <2>4, <2>5, <3>1, <3>2, Zenon
      <3>3. CASE k = 2
        BY <2>4, <2>5, <3>1, <3>3, Zenon
      <3>4. CASE k = 3
        BY <2>4, <2>5, <3>1, <3>4, Zenon
      <3> QED BY <3>1, <3>2, <3>3, <3>4
    <2>7. IsCut(p, 1, t, 1, c, FALSE)
      <3>1. Len(p) + 1 = 4
        BY <2>1
      <3> QED BY <2>3, <2>6, <3>1, Zenon DEF IsCut
    <2>8. MatchTopic(p, t)
      BY <2>1, <2>2, <2>7, TopicIsCut, Zenon
    <2>9. 4 \in 1..12
      OBVIOUS
    <2> QED BY <2>8, <2>9, RulesBeforeInboxes, Zenon DEF p
  <1>5. hits \subseteq 1..12
    BY RulesBeforeInboxes
  <1>6. Resolve(t) = IF hits = {} THEN DefaultPolicy
                       ELSE Rules[CHOOSE i \in hits : \A k \in hits : i <= k][2]
    BY DEF Resolve
  <1> HIDE DEF hits
  <1>7. \A k \in hits : 4 <= k
    BY <1>1, <1>3, <1>5
  <1>8. \A i \in hits : (\A k \in hits : i <= k) => i = 4
    BY <1>4, <1>5, <1>7
  <1>9. (CHOOSE i \in hits : \A k \in hits : i <= k) = 4
    BY <1>4, <1>7, <1>8
  <1> QED BY <1>4, <1>6, <1>9, RulesBeforeInboxes

(***************************************************************************)
(* TopicsDecideRightly, for every pattern and topic: the matcher of        *)
(* topic.rs answers what cutting the topic along the pattern answers, with *)
(* case regarded or not, and the persistence rules of main.rs keep every   *)
(* agent's inbox for thirty days, whatever the agent is called.            *)
(***************************************************************************)
THEOREM TopicsDecide == RoutesSpec => []TopicsDecideRightly
  <1> DEFINE Inv == pattern \in Seq(Segments \cup Wildcards) /\ topic \in Seq(Segments)
  <1>1. RoutesInit => Inv
    BY EmptySeq DEF RoutesInit
  <1>2. Inv /\ [RoutesNext]_routes => Inv'
    <2> SUFFICES ASSUME Inv, [RoutesNext]_routes PROVE Inv'
      OBVIOUS
    <2>1. CASE GrowPattern
      BY <2>1, AppendProperties DEF GrowPattern
    <2>2. CASE GrowTopic
      BY <2>2, AppendProperties DEF GrowTopic
    <2>3. CASE UNCHANGED routes
      BY <2>3 DEF routes
    <2> QED BY <2>1, <2>2, <2>3 DEF RoutesNext
  <1>3. Inv => TopicsDecideRightly
    <2> SUFFICES ASSUME Inv PROVE TopicsDecideRightly
      OBVIOUS
    <2>1. MatchIsExact
      BY MatcherIsExact DEF MatchIsExact
    <2>2. InboxesAreKept
      <3>1. Policy("queryable", 30, "d").mode = "queryable"
            /\ ParseRetention(Policy("queryable", 30, "d")) = 30 * Seconds.d
        BY DEF Policy, ParseRetention, Seconds
      <3> QED BY <3>1, InboxIsKept DEF InboxesAreKept
    <2> QED BY <2>1, <2>2 DEF TopicsDecideRightly
  <1> QED BY <1>1, <1>2, <1>3, PTL DEF RoutesSpec
============================================================================
