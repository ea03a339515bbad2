----------------------- MODULE MessagePipelineProofs -----------------------
(***************************************************************************)
(* Theorems about MessagePipeline for every number of publishers, every    *)
(* capacity and batch size, and every bound on faults; about Reads, what   *)
(* is asked of the messages it stores; and about Mentions, what publishing *)
(* finds in their text.                                                    *)
(***************************************************************************)
EXTENDS MessagePipeline, Reads, Mentions, SequenceTheorems, WellFoundedInduction, TLAPS

USE ConstantsAssumption

----------------------------------------------------------------------------
(* The queues.                                                             *)

\* A push keeps a queue within its capacity, whether there was room or not.
LEMMA PushedIsQueue ==
    ASSUME NEW q \in Seq(Messages), Len(q) <= Capacity, NEW m \in Messages
    PROVE  /\ Pushed(q, m) \in Seq(Messages)
           /\ Len(Pushed(q, m)) <= Capacity
           /\ Len(Pushed(q, m)) > 0
  <1>1. CASE Len(q) < Capacity
    BY <1>1 DEF Pushed
  <1>2. CASE Len(q) >= Capacity
    <2>1. q # <<>>
      BY <1>2
    <2>2. Tail(q) \in Seq(Messages) /\ Len(Tail(q)) = Len(q) - 1
      BY <2>1, HeadTailProperties
    <2>3. Pushed(q, m) = Append(Tail(q), m)
      BY <1>2 DEF Pushed
    <2>4. QED
      BY <2>2, <2>3
  <1>3. QED
    BY <1>1, <1>2

\* What a worker takes are messages, and what it leaves is a shorter queue.
LEMMA BatchTaken ==
    ASSUME NEW q \in Seq(Messages), Len(q) <= Capacity
    PROVE  /\ Taken(q, BatchSize) \in SUBSET Messages
           /\ Left(q, BatchSize) \in Seq(Messages)
           /\ Len(Left(q, BatchSize)) <= Capacity
  <1>1. Taken(q, BatchSize) \in SUBSET Messages
    BY DEF Taken
  <1>2. \A i \in BatchSize + 1 .. Len(q) : q[i] \in Messages
    OBVIOUS
  <1>3. /\ Left(q, BatchSize) \in Seq(Messages)
        /\ Len(Left(q, BatchSize)) =
              IF BatchSize + 1 <= Len(q) THEN Len(q) - (BatchSize + 1) + 1 ELSE 0
    BY <1>2, SubSeqProperties DEF Left
  <1>4. QED
    BY <1>1, <1>3

----------------------------------------------------------------------------
(* notify_one on either Notify.                                            *)

LEMMA NotifyPublisherType ==
    ASSUME TypeOK, NEW pcs \in [Messages -> HandlerStates], NotifyPublisher(pcs)
    PROVE  pc' \in [Messages -> HandlerStates] /\ notify_tx' \in BOOLEAN
  BY DEF NotifyPublisher, TypeOK, HandlerStates

LEMMA NotifyWriterType ==
    ASSUME TypeOK, NotifyWriter
    PROVE  /\ writer' \in WriterRecord
           /\ notify_rx' \in BOOLEAN
           /\ writer'.batch = writer.batch
  BY DEF NotifyWriter, TypeOK, WriterRecord

----------------------------------------------------------------------------
(* Type correctness.                                                       *)

\* The states in which workers, purge and queues start and to which they return.
LEMMA IdleTypes ==
    /\ IdleWriter \in WriterRecord
    /\ IdlePurge \in [pc : {"idle", "rows"}, cutoff : SUBSET Perishable]
    /\ <<>> \in Seq(Messages) /\ Len(<<>>) <= Capacity
  <1>1. 0 \in 0 .. Attempts - 1
    OBVIOUS
  <1>2. IdleWriter \in WriterRecord
    BY <1>1 DEF IdleWriter, WriterRecord
  <1>3. <<>> \in Seq(Messages) /\ Len(<<>>) <= Capacity
    BY EmptySeq
  <1>4. QED
    BY <1>2, <1>3 DEF IdlePurge

LEMMA TypeStep == TypeOK /\ [Next]_vars => TypeOK'
  <1> SUFFICES ASSUME TypeOK, [Next]_vars PROVE TypeOK'
    OBVIOUS
  <1> USE DEF TypeOK, queue, index, tables
  <1>1. CASE UNCHANGED vars
    BY <1>1 DEF vars
  <1>2. ASSUME NEW m \in Messages, Publish(m) PROVE TypeOK'
    BY <1>2 DEF Publish, HandlerStates
  <1>3. ASSUME NEW m \in Messages, Enqueue(m) PROVE TypeOK'
    BY <1>3, NotifyWriterType DEF Enqueue, AfterPush, HandlerStates
  <1>4. ASSUME NEW m \in Messages, EvictOldest(m) PROVE TypeOK'
    <2>1. Head(persist_queue) \in Messages
      <3>1. persist_queue # <<>>
        BY <1>4 DEF EvictOldest
      <3>2. QED
        BY <3>1, HeadTailProperties
    <2>2. persist_queue' \in Seq(Messages) /\ Len(persist_queue') <= Capacity
      BY <1>4, PushedIsQueue DEF EvictOldest
    <2>3. QED
      BY <1>4, <2>1, <2>2, NotifyWriterType DEF EvictOldest, AfterPush, HandlerStates
  <1>5. ASSUME NEW m \in Messages, FindFull(m) PROVE TypeOK'
    BY <1>5 DEF FindFull, HandlerStates
  <1>6. ASSUME NEW m \in Messages, AwaitRoom(m) PROVE TypeOK'
    BY <1>6 DEF AwaitRoom, HandlerStates
  <1>7. ASSUME NEW m \in Messages, HangUp(m) PROVE TypeOK'
    <2>1. [pc EXCEPT ![m] = "gone"] \in [Messages -> HandlerStates]
      BY DEF HandlerStates
    <2>2. pc' \in [Messages -> HandlerStates] /\ notify_tx' \in BOOLEAN
      BY <1>7, <2>1, NotifyPublisherType DEF HangUp
    <2>3. QED
      BY <1>7, <2>2 DEF HangUp
  <1>8. ASSUME NEW m \in Messages, QueueIndex(m) PROVE TypeOK'
    <2>1. index_queue' \in Seq(Messages) /\ Len(index_queue') <= Capacity
      BY <1>8, PushedIsQueue DEF QueueIndex
    <2>2. QED
      BY <1>8, <2>1 DEF QueueIndex, HandlerStates
  <1>9. ASSUME NEW m \in Messages, Expire(m) PROVE TypeOK'
    BY <1>9 DEF Expire
  <1>10. CASE PopBatch
    <2>1. pc' \in [Messages -> HandlerStates] /\ notify_tx' \in BOOLEAN
      BY <1>10, NotifyPublisherType DEF PopBatch
    <2>2. persist_queue' \in Seq(Messages) /\ Len(persist_queue') <= Capacity
      BY <1>10, BatchTaken DEF PopBatch
    <2>3. writer' \in WriterRecord
      BY <1>10, BatchTaken DEF PopBatch, WriterRecord
    <2>4. QED
      BY <1>10, <2>1, <2>2, <2>3 DEF PopBatch
  <1>11. CASE FindEmpty \/ AwaitMessages
    BY <1>11 DEF FindEmpty, AwaitMessages, WriterRecord
  <1>12. CASE WriteBatch
    <2>1. writer' \in WriterRecord /\ messages' \in SUBSET Messages
      BY <1>12, IdleTypes DEF WriteBatch, WriterRecord
    <2>2. QED
      BY <1>12, <2>1 DEF WriteBatch
  <1>13. CASE WriteFails
    <2>1. CASE writer.failed + 1 < Attempts
      <3>1. writer.failed + 1 \in 0 .. Attempts - 1
        BY <2>1 DEF WriterRecord
      <3>2. writer' = [writer EXCEPT !.failed = writer.failed + 1]
        BY <1>13, <2>1 DEF WriteFails
      <3>3. writer' \in WriterRecord
        BY <3>1, <3>2 DEF WriterRecord
      <3>4. QED
        BY <1>13, <3>3 DEF WriteFails
    <2>2. CASE ~(writer.failed + 1 < Attempts)
      <3>1. writer' \in WriterRecord
        BY <1>13, <2>2, IdleTypes DEF WriteFails
      <3>2. QED
        BY <1>13, <3>1 DEF WriteFails
    <2>3. QED
      BY <2>1, <2>2
  <1>14. CASE PopIndexBatch
    BY <1>14, BatchTaken DEF PopIndexBatch
  <1>15. CASE IndexBatch \/ IndexFails
    BY <1>15 DEF IndexBatch, IndexFails
  <1>16. CASE PurgeIndex \/ PurgeRows \/ PurgeFails
    BY <1>16 DEF PurgeIndex, PurgeRows, PurgeFails, IdlePurge
  <1>17. CASE DaemonStop
    <2>1. pc' \in [Messages -> HandlerStates]
      BY <1>17 DEF DaemonStop, HandlerStates
    <2>2. QED
      <3>1. writer' \in WriterRecord /\ purge' \in [pc : {"idle", "rows"}, cutoff : SUBSET Perishable]
        BY <1>17, IdleTypes DEF DaemonStop
      <3>2. /\ persist_queue' \in Seq(Messages) /\ Len(persist_queue') <= Capacity
            /\ index_queue' \in Seq(Messages) /\ Len(index_queue') <= Capacity
            /\ entered' \in Seq(Messages)
        BY <1>17, IdleTypes DEF DaemonStop
      <3>3. /\ notify_tx' \in BOOLEAN /\ notify_rx' \in BOOLEAN
            /\ indexing' \in SUBSET Messages
            /\ faults' \in Nat
        <4>1. notify_tx' = FALSE /\ notify_rx' = FALSE /\ indexing' = {} /\ faults' = faults + 1
          BY <1>17, Zenon DEF DaemonStop
        <4>2. notify_tx' \in BOOLEAN /\ notify_rx' \in BOOLEAN
          BY <4>1, Zenon
        <4>3. indexing' \in SUBSET Messages
          BY <4>1, Zenon
        <4>4. faults' \in Nat
          BY <4>1
        <4>5. QED
          BY <4>2, <4>3, <4>4
      <3>4. UNCHANGED <<messages, messages_fts, old, evicted, purged>>
        BY <1>17 DEF DaemonStop
      <3>5. QED
        BY <2>1, <3>1, <3>2, <3>3, <3>4
  <1>18. QED
    BY <1>1, <1>2, <1>3, <1>4, <1>5, <1>6, <1>7, <1>8, <1>9, <1>10, <1>11, <1>12, <1>13,
       <1>14, <1>15, <1>16, <1>17 DEF Next, Handler, Writer, Indexer

LEMMA InitType == Init => TypeOK
  <1> SUFFICES ASSUME Init PROVE TypeOK
    OBVIOUS
  <1>1. pc \in [Messages -> HandlerStates]
    BY DEF Init, HandlerStates
  <1>2. writer \in WriterRecord /\ purge \in [pc : {"idle", "rows"}, cutoff : SUBSET Perishable]
    BY IdleTypes DEF Init
  <1>3. persist_queue \in Seq(Messages) /\ Len(persist_queue) <= Capacity
    BY IdleTypes DEF Init
  <1>4. index_queue \in Seq(Messages) /\ Len(index_queue) <= Capacity /\ entered \in Seq(Messages)
    BY IdleTypes DEF Init
  <1>5. QED
    BY <1>1, <1>2, <1>3, <1>4 DEF Init, TypeOK

\* Queues, workers and tables always have their types, and no queue outgrows its capacity.
THEOREM TypeCorrect == Spec => []TypeOK
  <1>1. Init => TypeOK
    BY InitType
  <1>2. QED
    BY <1>1, TypeStep, PTL DEF Spec
----------------------------------------------------------------------------
(* No publisher is stranded.  The second conjunct says where a remembered  *)
(* notification can be: only where no publisher waits for one.             *)

WakeupInv ==
    /\ NoStrandedPublisher
    /\ notify_tx => \A m \in Messages : pc[m] # "waiting"

LEMMA WakeupStep == TypeOK /\ WakeupInv /\ [Next]_vars => WakeupInv'
  <1> SUFFICES ASSUME TypeOK, WakeupInv, [Next]_vars PROVE WakeupInv'
    OBVIOUS
  <1> USE DEF WakeupInv, NoStrandedPublisher, Pushing
  <1>1. ASSUME UNCHANGED <<pc, persist_queue, notify_tx>> PROVE WakeupInv'
    BY <1>1
  <1>2. ASSUME NEW m \in Messages, Publish(m) PROVE WakeupInv'
    BY <1>2 DEF Publish, queue, TypeOK
  <1>3. ASSUME NEW m \in Messages, Enqueue(m) PROVE WakeupInv'
    <2>1. persist_queue' # <<>>
      <3>1. persist_queue' = Append(persist_queue, m) /\ persist_queue \in Seq(Messages)
        BY <1>3 DEF Enqueue, TypeOK
      <3>2. Len(persist_queue') = Len(persist_queue) + 1
        BY <3>1
      <3>3. QED
        BY <3>1, <3>2
    <2>2. pc'[m] \notin {"full", "waiting"} /\ \A n \in Messages \ {m} : pc'[n] = pc[n]
      BY <1>3 DEF Enqueue, AfterPush, TypeOK
    <2>3. QED
      BY <1>3, <2>1, <2>2 DEF Enqueue
  <1>4. ASSUME NEW m \in Messages, EvictOldest(m) PROVE WakeupInv'
    <2>1. persist_queue' # <<>>
      BY <1>4, PushedIsQueue DEF EvictOldest, TypeOK
    <2>2. pc'[m] \notin {"full", "waiting"} /\ \A n \in Messages \ {m} : pc'[n] = pc[n]
      BY <1>4 DEF EvictOldest, AfterPush, TypeOK
    <2>3. QED
      BY <1>4, <2>1, <2>2 DEF EvictOldest
  <1>5. ASSUME NEW m \in Messages, FindFull(m) PROVE WakeupInv'
    <2>1. persist_queue' # <<>>
      BY <1>5 DEF FindFull, queue, TypeOK
    <2>2. notify_tx' = notify_tx /\ pc' = [pc EXCEPT ![m] = "full"]
      BY <1>5 DEF FindFull, queue
    <2>3. QED
      BY <2>1, <2>2 DEF TypeOK
  <1>6. ASSUME NEW m \in Messages, AwaitRoom(m) PROVE WakeupInv'
    <2>1. pc[m] = "full" /\ persist_queue' = persist_queue /\ notify_tx' = FALSE
      BY <1>6 DEF AwaitRoom
    <2>2. CASE notify_tx
      BY <1>6, <2>1, <2>2 DEF AwaitRoom, TypeOK
    <2>3. CASE ~notify_tx
      <3>1. persist_queue # <<>> \/ \E n \in Messages : Pushing(n)
        BY <2>1, <2>3
      <3>2. pc' = [pc EXCEPT ![m] = "waiting"]
        BY <1>6, <2>3 DEF AwaitRoom
      <3>3. QED
        BY <2>1, <3>1, <3>2 DEF TypeOK
    <2>4. QED
      BY <2>2, <2>3
  <1>7. ASSUME NEW pcs \in [Messages -> HandlerStates], NotifyPublisher(pcs),
               \A n \in Messages : pcs[n] = "waiting" => pc[n] = "waiting"
        PROVE  WakeupInv'
    <2>1. CASE \E n \in Messages : pcs[n] = "waiting"
      <3>1. ~notify_tx /\ notify_tx' = notify_tx
        BY <1>7, <2>1 DEF NotifyPublisher
      <3>2. \E n \in Messages : pc'[n] = "woken"
        BY <1>7, <2>1 DEF NotifyPublisher
      <3>3. QED
        BY <3>1, <3>2
    <2>2. CASE ~\E n \in Messages : pcs[n] = "waiting"
      <3>1. pc' = pcs /\ notify_tx' = TRUE
        BY <1>7, <2>2 DEF NotifyPublisher
      <3>2. QED
        BY <2>2, <3>1
    <2>3. QED
      BY <2>1, <2>2
  <1>8. ASSUME NEW m \in Messages, HangUp(m) PROVE WakeupInv'
    <2>1. CASE pc[m] = "waiting"
      BY <1>8, <2>1 DEF HangUp, TypeOK
    <2>2. CASE pc[m] = "woken"
      <3>1. [pc EXCEPT ![m] = "gone"] \in [Messages -> HandlerStates]
        BY DEF TypeOK, HandlerStates
      <3>2. NotifyPublisher([pc EXCEPT ![m] = "gone"])
        BY <1>8, <2>2 DEF HangUp
      <3>3. \A n \in Messages : [pc EXCEPT ![m] = "gone"][n] = "waiting" => pc[n] = "waiting"
        BY DEF TypeOK
      <3>4. QED
        BY <1>7, <3>1, <3>2, <3>3
    <2>3. QED
      BY <1>8, <2>1, <2>2 DEF HangUp
  <1>9. ASSUME NEW m \in Messages, QueueIndex(m) PROVE WakeupInv'
    BY <1>9 DEF QueueIndex, queue, TypeOK
  <1>10. ASSUME NEW m \in Messages, Expire(m) PROVE WakeupInv'
    BY <1>1, <1>10 DEF Expire, queue
  <1>11. CASE PopBatch
    BY <1>7, <1>11 DEF PopBatch, TypeOK
  <1>12. CASE FindEmpty \/ AwaitMessages \/ WriteBatch \/ WriteFails
    BY <1>1, <1>12 DEF FindEmpty, AwaitMessages, WriteBatch, WriteFails
  <1>13. CASE Indexer \/ IndexFails \/ PurgeIndex \/ PurgeRows \/ PurgeFails
    BY <1>1, <1>13 DEF Indexer, PopIndexBatch, IndexBatch, IndexFails,
                       PurgeIndex, PurgeRows, PurgeFails, queue
  <1>14. CASE DaemonStop
    BY <1>14 DEF DaemonStop
  <1>15. CASE UNCHANGED vars
    BY <1>1, <1>15 DEF vars
  <1>16. QED
    BY <1>2, <1>3, <1>4, <1>5, <1>6, <1>8, <1>9, <1>10, <1>11, <1>12, <1>13, <1>14, <1>15
       DEF Next, Handler, Writer

\* While a publisher is blocked, something is on its way that will let it go on:
\* one notification for each batch is enough, whatever the sizes.
THEOREM NoPublisherIsStranded == Spec => []NoStrandedPublisher
  <1>1. Init => TypeOK /\ WakeupInv
    BY InitType DEF Init, WakeupInv, NoStrandedPublisher
  <1>2. TypeOK /\ WakeupInv /\ [Next]_vars => TypeOK' /\ WakeupInv'
    BY TypeStep, WakeupStep
  <1>3. WakeupInv => NoStrandedPublisher
    BY DEF WakeupInv
  <1>4. QED
    BY <1>1, <1>2, <1>3, PTL DEF Spec

----------------------------------------------------------------------------
(* The worker does not sleep on a queue with messages.                     *)

LEMMA WriterSleepStep == TypeOK /\ WriterSleepsOnEmpty /\ [Next]_vars => WriterSleepsOnEmpty'
  <1> SUFFICES ASSUME TypeOK, WriterSleepsOnEmpty, [Next]_vars PROVE WriterSleepsOnEmpty'
    OBVIOUS
  <1> USE DEF WriterSleepsOnEmpty
  <1>1. ASSUME UNCHANGED <<persist_queue, notify_rx, writer>> PROVE WriterSleepsOnEmpty'
    BY <1>1
  <1>2. ASSUME NotifyWriter PROVE WriterSleepsOnEmpty'
    <2>1. writer \in WriterRecord
      BY DEF TypeOK
    <2>2. CASE writer.pc = "waiting"
      <3>1. writer' = [writer EXCEPT !.pc = "pop"]
        BY <1>2, <2>2 DEF NotifyWriter
      <3>2. writer'.pc = "pop"
        BY <2>1, <3>1 DEF WriterRecord
      <3>3. QED
        BY <3>2
    <2>3. CASE writer.pc # "waiting"
      BY <1>2, <2>3 DEF NotifyWriter
    <2>4. QED
      BY <2>2, <2>3
  <1>3. ASSUME NEW m \in Messages, Enqueue(m) \/ EvictOldest(m) PROVE WriterSleepsOnEmpty'
    BY <1>2, <1>3 DEF Enqueue, EvictOldest
  <1>4. ASSUME NEW m \in Messages,
               Publish(m) \/ FindFull(m) \/ AwaitRoom(m) \/ HangUp(m) \/ QueueIndex(m) \/ Expire(m)
        PROVE WriterSleepsOnEmpty'
    BY <1>1, <1>4 DEF Publish, FindFull, AwaitRoom, HangUp, QueueIndex, Expire, queue
  <1>5. CASE PopBatch
    BY <1>5 DEF PopBatch
  <1>6. CASE FindEmpty \/ AwaitMessages
    <2>1. writer \in WriterRecord
      BY DEF TypeOK
    <2>2. CASE FindEmpty
      BY <2>2 DEF FindEmpty
    <2>3. CASE AwaitMessages
      <3>1. /\ persist_queue # <<>> => notify_rx
            /\ writer' = [writer EXCEPT !.pc = IF notify_rx THEN "pop" ELSE "waiting"]
        BY <2>3 DEF AwaitMessages
      <3>2. notify_rx => writer'.pc = "pop"
        BY <2>1, <3>1 DEF WriterRecord
      <3>3. QED
        BY <2>3, <3>1, <3>2 DEF AwaitMessages
    <2>4. QED
      BY <1>6, <2>2, <2>3
  <1>7. CASE WriteBatch
    BY <1>7 DEF WriteBatch, IdleWriter
  <1>8. CASE WriteFails
    BY <1>8 DEF WriteFails, IdleWriter, TypeOK
  <1>9. CASE Indexer \/ IndexFails \/ PurgeIndex \/ PurgeRows \/ PurgeFails
    BY <1>1, <1>9 DEF Indexer, PopIndexBatch, IndexBatch, IndexFails,
                      PurgeIndex, PurgeRows, PurgeFails, queue
  <1>10. CASE DaemonStop
    BY <1>10 DEF DaemonStop
  <1>11. CASE UNCHANGED vars
    BY <1>1, <1>11 DEF vars
  <1>12. QED
    BY <1>3, <1>4, <1>5, <1>6, <1>7, <1>8, <1>9, <1>10, <1>11 DEF Next, Handler, Writer

\* Between the worker's look at an empty queue and its wait no message goes unnoticed.
THEOREM WriterDoesNotOversleep == Spec => []WriterSleepsOnEmpty
  <1>1. Init => TypeOK /\ WriterSleepsOnEmpty
    BY InitType DEF Init, WriterSleepsOnEmpty
  <1>2. TypeOK /\ WriterSleepsOnEmpty /\ [Next]_vars => TypeOK' /\ WriterSleepsOnEmpty'
    BY TypeStep, WriterSleepStep
  <1>3. QED
    BY <1>1, <1>2, PTL DEF Spec
----------------------------------------------------------------------------
(* Messages are written in the order in which they entered the queue.      *)
(* The invariant places each message that entered: what is written before  *)
(* the batch before the queue, and the queue in its own order.             *)

NotQueued(m) == m \notin Range(entered) \cup InFlight \cup messages

OrderInv ==
    /\ \A i, j \in DOMAIN entered : entered[i] = entered[j] => i = j
    /\ \A m \in Messages :
          pc[m] \in {"new", "push", "full", "waiting", "woken"} => NotQueued(m)
    /\ writer.pc # "write" => writer.batch = {}
    /\ \A i, j \in DOMAIN entered : \A a, b \in DOMAIN persist_queue :
          i < j /\ entered[i] = persist_queue[a] /\ entered[j] = persist_queue[b] => a < b
    /\ \A i, j \in DOMAIN entered :
          i < j /\ entered[j] \in writer.batch => entered[i] \notin Range(persist_queue)
    /\ PersistedInOrder

\* Every entry of a queue after a push is the new message or an entry of the old queue,
\* one place or none nearer to the front.
LEMMA PushedEntries ==
    ASSUME NEW q \in Seq(Messages), Len(q) <= Capacity, NEW m \in Messages
    PROVE  \E d \in {0, 1} :
              /\ Len(Pushed(q, m)) = Len(q) + 1 - d
              /\ d <= Len(q)
              /\ \A a \in 1 .. Len(q) - d : Pushed(q, m)[a] = q[a + d]
              /\ Pushed(q, m)[Len(q) + 1 - d] = m
  <1>1. CASE Len(q) < Capacity
    <2>1. Pushed(q, m) = Append(q, m)
      BY <1>1 DEF Pushed
    <2>2. /\ Len(Append(q, m)) = Len(q) + 1
          /\ \A a \in 1 .. Len(q) : Append(q, m)[a] = q[a]
          /\ Append(q, m)[Len(q) + 1] = m
      OBVIOUS
    <2>3. WITNESS 0 \in {0, 1}
    <2>4. QED
      BY <2>1, <2>2
  <1>2. CASE Len(q) >= Capacity
    <2>1. q # <<>>
      BY <1>2
    <2>2. /\ Tail(q) \in Seq(Messages)
          /\ Len(Tail(q)) = Len(q) - 1
          /\ \A a \in 1 .. Len(Tail(q)) : Tail(q)[a] = q[a + 1]
      BY <2>1, HeadTailProperties
    <2>3. Pushed(q, m) = Append(Tail(q), m)
      BY <1>2 DEF Pushed
    <2>4. /\ Len(Append(Tail(q), m)) = Len(q)
          /\ \A a \in 1 .. Len(q) - 1 : Append(Tail(q), m)[a] = q[a + 1]
          /\ Append(Tail(q), m)[Len(q)] = m
      BY <2>2
    <2>5. 1 <= Len(q)
      BY <1>2
    <2>6. WITNESS 1 \in {0, 1}
    <2>7. QED
      BY <2>3, <2>4, <2>5
  <1>3. QED
    BY <1>1, <1>2

\* What pop_batch leaves are the entries of the queue behind those it takes.
LEMMA LeftEntries ==
    ASSUME NEW q \in Seq(Messages)
    PROVE  \A a \in DOMAIN Left(q, BatchSize) :
              /\ a \in Nat \ {0}
              /\ a + BatchSize \in DOMAIN q
              /\ Left(q, BatchSize)[a] = q[a + BatchSize]
  <1>1. \A i \in BatchSize + 1 .. Len(q) : q[i] \in Messages
    OBVIOUS
  <1>2. /\ Left(q, BatchSize) \in Seq(Messages)
        /\ Len(Left(q, BatchSize)) =
              IF BatchSize + 1 <= Len(q) THEN Len(q) - (BatchSize + 1) + 1 ELSE 0
        /\ \A a \in 1 .. Len(q) - (BatchSize + 1) + 1 :
              Left(q, BatchSize)[a] = q[(BatchSize + 1) + a - 1]
    BY <1>1, SubSeqProperties DEF Left
  <1>3. QED
    BY SMTT(30), <1>2

\* The invariant does not look at anything but the queue, the worker and the table.
LEMMA OrderSame ==
    ASSUME OrderInv, UNCHANGED <<persist_queue, writer, entered>>,
           messages' \subseteq messages,
           \A m \in Messages : pc'[m] \in {"new", "push", "full", "waiting", "woken"} =>
                                  pc[m] \in {"new", "push", "full", "waiting", "woken"}
    PROVE  OrderInv'
  BY DEF OrderInv, PersistedInOrder, NotQueued, InFlight, Range

\* A message that is pushed comes last, in the queue as in the order of entry.
LEMMA OrderPush ==
    ASSUME TypeOK, OrderInv, NEW m \in Messages, Pushing(m),
           persist_queue' = Pushed(persist_queue, m),
           entered' = Append(entered, m),
           writer'.batch = writer.batch,
           writer'.pc = "write" <=> writer.pc = "write",
           messages' = messages,
           pc' = [pc EXCEPT ![m] = AfterPush(m)]
    PROVE  OrderInv'
  <1> DEFINE q == persist_queue
  <1>0. q \in Seq(Messages) /\ Len(q) <= Capacity /\ q' = Pushed(q, m)
    BY DEF TypeOK
  <1>1. PICK d \in {0, 1} :
              /\ Len(q') = Len(q) + 1 - d
              /\ d <= Len(q)
              /\ \A a \in 1 .. Len(q) - d : q'[a] = q[a + d]
              /\ q'[Len(q) + 1 - d] = m
    <2> HIDE DEF q
    <2>1. \E d \in {0, 1} :
              /\ Len(Pushed(q, m)) = Len(q) + 1 - d
              /\ d <= Len(q)
              /\ \A a \in 1 .. Len(q) - d : Pushed(q, m)[a] = q[a + d]
              /\ Pushed(q, m)[Len(q) + 1 - d] = m
      BY <1>0, PushedEntries
    <2>2. QED
      BY <1>0, <2>1
  <1>2. NotQueued(m)
    BY DEF OrderInv, Pushing
  <1>3. q \in Seq(Messages) /\ q' \in Seq(Messages) /\ entered \in Seq(Messages)
    BY PushedIsQueue DEF TypeOK
  <1>4. /\ DOMAIN entered' = 1 .. Len(entered) + 1
        /\ \A i \in DOMAIN entered : entered'[i] = entered[i]
        /\ entered'[Len(entered) + 1] = m
    BY <1>3
  <1>5. \A a \in DOMAIN q' : \/ a = Len(q) + 1 - d /\ q'[a] = m
                             \/ a <= Len(q) - d /\ a + d \in DOMAIN q /\ q'[a] = q[a + d]
    BY SMTT(30), <1>1, <1>3
  <1>6. Range(entered') = Range(entered) \cup {m} /\ Range(q') \subseteq Range(q) \cup {m}
    <2>1. Range(entered') \subseteq Range(entered) \cup {m}
      BY <1>3, <1>4 DEF Range
    <2>2. Range(entered) \cup {m} \subseteq Range(entered')
      <3>1. m \in Range(entered')
        <4>1. Len(entered) + 1 \in DOMAIN entered'
          BY <1>3, <1>4
        <4>2. QED
          BY <1>4, <4>1 DEF Range
      <3>2. ASSUME NEW i \in DOMAIN entered PROVE entered[i] \in Range(entered')
        <4>1. i \in DOMAIN entered'
          BY <1>3, <1>4
        <4>2. QED
          BY <1>4, <4>1 DEF Range
      <3>3. QED
        BY <3>1, <3>2 DEF Range
    <2>3. Range(q') \subseteq Range(q) \cup {m}
      BY <1>5 DEF Range
    <2>4. QED
      BY <2>1, <2>2, <2>3
  <1>7. \A n \in Messages :
           pc'[n] \in {"new", "push", "full", "waiting", "woken"} => n # m /\ NotQueued(n)
    BY DEF OrderInv, AfterPush, TypeOK
  <1>8. \A n \in Messages :
           pc'[n] \in {"new", "push", "full", "waiting", "woken"} => NotQueued(n)'
    BY <1>6, <1>7 DEF NotQueued, InFlight
  <1>9. \A i, j \in DOMAIN entered' : entered'[i] = entered'[j] => i = j
    BY <1>2, <1>3, <1>4 DEF OrderInv, NotQueued, Range
  <1>10. \A i, j \in DOMAIN entered' : \A a, b \in DOMAIN q' :
           i < j /\ entered'[i] = q'[a] /\ entered'[j] = q'[b] => a < b
    <2> SUFFICES ASSUME NEW i \in DOMAIN entered', NEW j \in DOMAIN entered',
                        NEW a \in DOMAIN q', NEW b \in DOMAIN q',
                        i < j, entered'[i] = q'[a], entered'[j] = q'[b]
                 PROVE  a < b
      OBVIOUS
    <2>1. i \in DOMAIN entered /\ entered'[i] = entered[i] /\ entered[i] # m
      BY <1>2, <1>3, <1>4 DEF NotQueued, Range
    <2>2. a <= Len(q) - d /\ a + d \in DOMAIN q /\ q'[a] = q[a + d]
      BY <1>5, <2>1
    <2>3. CASE b = Len(q) + 1 - d
      BY <1>3, <2>2, <2>3
    <2>4. CASE b <= Len(q) - d /\ b + d \in DOMAIN q /\ q'[b] = q[b + d]
      <3>1. entered'[j] # m
        BY <1>2, <2>4 DEF NotQueued, InFlight, Range
      <3>2. j \in DOMAIN entered /\ entered'[j] = entered[j]
        BY <1>3, <1>4, <3>1
      <3>3. a + d < b + d
        BY <2>1, <2>2, <2>4, <3>2 DEF OrderInv
      <3>4. QED
        BY <1>3, <3>3
    <2>5. QED
      BY <1>5, <2>3, <2>4
  <1>11. \A i, j \in DOMAIN entered' :
           i < j /\ entered'[j] \in writer.batch => entered'[i] \notin Range(q')
    <2> SUFFICES ASSUME NEW i \in DOMAIN entered', NEW j \in DOMAIN entered',
                        i < j, entered'[j] \in writer.batch
                 PROVE  entered'[i] \notin Range(q')
      OBVIOUS
    <2>1. j \in DOMAIN entered /\ entered'[j] = entered[j]
      BY <1>2, <1>3, <1>4 DEF NotQueued, InFlight
    <2>2. i \in DOMAIN entered /\ entered'[i] = entered[i] /\ entered[i] # m
      BY <1>2, <1>3, <1>4, <2>1 DEF NotQueued, Range
    <2>3. QED
      BY <1>6, <2>1, <2>2 DEF OrderInv
  <1>12. PersistedInOrder'
    <2> SUFFICES ASSUME NEW i \in DOMAIN entered', NEW j \in DOMAIN entered',
                        i < j, entered'[j] \in messages
                 PROVE  entered'[i] \notin writer.batch \cup Range(q')
      BY DEF PersistedInOrder, InFlight
    <2>1. j \in DOMAIN entered /\ entered'[j] = entered[j]
      BY <1>2, <1>3, <1>4 DEF NotQueued
    <2>2. i \in DOMAIN entered /\ entered'[i] = entered[i] /\ entered[i] # m
      BY <1>2, <1>3, <1>4, <2>1 DEF NotQueued, Range
    <2>3. QED
      BY <1>6, <2>1, <2>2 DEF OrderInv, PersistedInOrder, InFlight
  <1>13. QED
    BY <1>8, <1>9, <1>10, <1>11, <1>12 DEF OrderInv

\* The worker takes the front of the queue, and only when it holds nothing.
LEMMA OrderPop == TypeOK /\ OrderInv /\ PopBatch => OrderInv'
  <1> SUFFICES ASSUME TypeOK, OrderInv, PopBatch PROVE OrderInv'
    OBVIOUS
  <1> DEFINE q == persist_queue
  <1>1. /\ q \in Seq(Messages)
        /\ q' = Left(q, BatchSize)
        /\ writer'.batch = Taken(q, BatchSize)
        /\ writer'.pc = "write"
        /\ UNCHANGED <<entered, messages>>
    BY DEF PopBatch, TypeOK, tables
  <1>2. \A a \in DOMAIN q' : a \in Nat \ {0} /\ a + BatchSize \in DOMAIN q /\ q'[a] = q[a + BatchSize]
    BY <1>1, LeftEntries
  <1>3. \A m \in writer'.batch : \E b \in DOMAIN q : b <= BatchSize /\ q[b] = m
    BY <1>1 DEF Taken
  <1>4. InFlight' \subseteq InFlight
    BY <1>1, <1>2, <1>3 DEF InFlight, Range
  <1>5. \A m \in Messages : pc'[m] \in {"new", "push", "full", "waiting", "woken"} =>
                               pc[m] \in {"new", "push", "full", "waiting", "woken"}
    BY DEF PopBatch, NotifyPublisher, TypeOK
  <1>6. \A m \in Messages :
           pc'[m] \in {"new", "push", "full", "waiting", "woken"} => NotQueued(m)'
    BY <1>1, <1>4, <1>5 DEF OrderInv, NotQueued
  <1>7. \A i, j \in DOMAIN entered : \A a, b \in DOMAIN q' :
           i < j /\ entered[i] = q'[a] /\ entered[j] = q'[b] => a < b
    <2> SUFFICES ASSUME NEW i \in DOMAIN entered, NEW j \in DOMAIN entered,
                        NEW a \in DOMAIN q', NEW b \in DOMAIN q',
                        i < j, entered[i] = q'[a], entered[j] = q'[b]
                 PROVE  a < b
      OBVIOUS
    <2>1. a + BatchSize < b + BatchSize
      BY <1>2 DEF OrderInv
    <2>2. QED
      BY <1>2, <2>1
  <1>8. \A i, j \in DOMAIN entered :
           i < j /\ entered[j] \in writer'.batch => entered[i] \notin Range(q')
    <2> SUFFICES ASSUME NEW i \in DOMAIN entered, NEW j \in DOMAIN entered,
                        i < j, entered[j] \in writer'.batch,
                        NEW a \in DOMAIN q', entered[i] = q'[a]
                 PROVE  FALSE
      BY DEF Range
    <2>1. PICK b \in DOMAIN q : b <= BatchSize /\ q[b] = entered[j]
      BY <1>3
    <2>2. a + BatchSize < b
      BY <1>2, <2>1 DEF OrderInv
    <2>3. QED
      BY <1>1, <1>2, <2>1, <2>2
  <1>9. PersistedInOrder'
    BY <1>1, <1>4 DEF OrderInv, PersistedInOrder
  <1>10. QED
    BY <1>1, <1>6, <1>7, <1>8, <1>9 DEF OrderInv

\* The batch is written before anything behind it in the queue.
LEMMA OrderWrite == TypeOK /\ OrderInv /\ WriteBatch => OrderInv'
  <1> SUFFICES ASSUME TypeOK, OrderInv, WriteBatch PROVE OrderInv'
    OBVIOUS
  <1>1. /\ writer'.batch = {} /\ writer'.pc = "pop"
        /\ messages' = messages \cup writer.batch
        /\ UNCHANGED <<pc, persist_queue, entered>>
    BY DEF WriteBatch, IdleWriter
  <1>2. InFlight' = Range(persist_queue)
    BY <1>1 DEF InFlight, Range
  <1>3. \A m \in Messages : NotQueued(m) => NotQueued(m)'
    BY <1>1, <1>2 DEF NotQueued, InFlight
  <1>4. PersistedInOrder'
    BY <1>1, <1>2 DEF OrderInv, PersistedInOrder, InFlight
  <1>5. QED
    BY <1>1, <1>3, <1>4 DEF OrderInv

LEMMA OrderStep == TypeOK /\ OrderInv /\ [Next]_vars => OrderInv'
  <1> SUFFICES ASSUME TypeOK, OrderInv, [Next]_vars PROVE OrderInv'
    OBVIOUS
  <1>1. ASSUME NEW m \in Messages, Enqueue(m) PROVE OrderInv'
    <2>1. Pushed(persist_queue, m) = Append(persist_queue, m)
      BY <1>1 DEF Enqueue, Pushed
    <2>2. writer'.batch = writer.batch /\ (writer'.pc = "write" <=> writer.pc = "write")
      BY <1>1 DEF Enqueue, NotifyWriter, TypeOK, WriterRecord
    <2>3. QED
      BY <1>1, <2>1, <2>2, OrderPush DEF Enqueue, tables
  <1>2. ASSUME NEW m \in Messages, EvictOldest(m) PROVE OrderInv'
    <2>1. writer'.batch = writer.batch /\ (writer'.pc = "write" <=> writer.pc = "write")
      BY <1>2 DEF EvictOldest, NotifyWriter, TypeOK, WriterRecord
    <2>2. QED
      BY <1>2, <2>1, OrderPush DEF EvictOldest, tables
  <1>3. ASSUME NEW m \in Messages,
               Publish(m) \/ FindFull(m) \/ AwaitRoom(m) \/ QueueIndex(m) \/ Expire(m)
        PROVE  OrderInv'
    BY <1>3, OrderSame DEF Publish, FindFull, AwaitRoom, QueueIndex, Expire, Pushing,
                           queue, tables, TypeOK
  <1>4. ASSUME NEW m \in Messages, HangUp(m) PROVE OrderInv'
    <2>1. \A n \in Messages : pc'[n] \in {"new", "push", "full", "waiting", "woken"} =>
                                 pc[n] \in {"new", "push", "full", "waiting", "woken"}
      BY <1>4 DEF HangUp, NotifyPublisher, TypeOK
    <2>2. QED
      BY <1>4, <2>1, OrderSame DEF HangUp, tables
  <1>5. CASE FindEmpty \/ AwaitMessages
    <2>1. writer'.batch = writer.batch /\ writer.pc # "write" /\ writer'.pc # "write"
      BY <1>5 DEF FindEmpty, AwaitMessages, TypeOK, WriterRecord
    <2>2. UNCHANGED <<pc, persist_queue, entered, messages>>
      BY <1>5 DEF FindEmpty, AwaitMessages, tables
    <2>3. QED
      BY <2>1, <2>2 DEF OrderInv, PersistedInOrder, NotQueued, InFlight, Range
  <1>6. CASE WriteFails
    <2>1. UNCHANGED <<pc, persist_queue, entered, messages>>
      BY <1>6 DEF WriteFails, tables
    <2>2. CASE writer'.batch = writer.batch /\ writer'.pc = "write"
      BY <2>1, <2>2 DEF OrderInv, PersistedInOrder, NotQueued, InFlight, Range
    <2>3. CASE writer'.batch = {}
      BY <2>1, <2>3 DEF OrderInv, PersistedInOrder, NotQueued, InFlight, Range
    <2>4. (writer'.batch = writer.batch /\ writer'.pc = "write") \/ writer'.batch = {}
      BY <1>6 DEF WriteFails, IdleWriter, TypeOK, WriterRecord
    <2>5. QED
      BY <2>2, <2>3, <2>4
  <1>7. CASE Indexer \/ IndexFails \/ PurgeIndex \/ PurgeRows \/ PurgeFails \/ UNCHANGED vars
    BY <1>7, OrderSame DEF Indexer, PopIndexBatch, IndexBatch, IndexFails,
                           PurgeIndex, PurgeRows, PurgeFails, queue, tables, vars
  <1>8. CASE DaemonStop
    <2>1. /\ persist_queue' = <<>> /\ entered' = <<>> /\ writer'.batch = {}
          /\ UNCHANGED messages
          /\ \A m \in Messages : pc'[m] \in {"new", "gone"} /\ (pc'[m] = "new" => pc[m] = "new")
      BY <1>8 DEF DaemonStop, IdleWriter, tables
    <2>2. Range(entered') = {} /\ InFlight' = {} /\ DOMAIN entered' = {} /\ DOMAIN persist_queue' = {}
      BY <2>1 DEF Range, InFlight
    <2>3. QED
      BY <2>1, <2>2 DEF OrderInv, PersistedInOrder, NotQueued
  <1>9. QED
    BY <1>1, <1>2, <1>3, <1>4, <1>5, <1>6, <1>7, <1>8, OrderPop, OrderWrite
       DEF Next, Handler, Writer

\* Whatever the batches, evictions, retries and purges, no message is written before one
\* that entered the queue earlier and is still on its way.
THEOREM MessagesPersistInOrder == Spec => []PersistedInOrder
  <1>1. Init => TypeOK /\ OrderInv
    <2> SUFFICES ASSUME Init PROVE TypeOK /\ OrderInv
      OBVIOUS
    <2>1. Range(entered) = {} /\ InFlight = {} /\ DOMAIN entered = {} /\ messages = {}
      BY DEF Init, Range, InFlight, IdleWriter
    <2>2. QED
      BY <2>1, InitType DEF Init, OrderInv, PersistedInOrder, NotQueued, IdleWriter
  <1>2. TypeOK /\ OrderInv /\ [Next]_vars => TypeOK' /\ OrderInv'
    BY TypeStep, OrderStep
  <1>3. OrderInv => PersistedInOrder
    BY DEF OrderInv
  <1>4. QED
    BY <1>1, <1>2, <1>3, PTL DEF Spec

----------------------------------------------------------------------------
(* What was purged does not come back: a message is in one place, on its   *)
(* way or stored (now or before), and it was pushed once.                  *)

ToPush == {m \in Messages : pc[m] \in {"new", "push", "full", "waiting", "woken"}}
Landed == messages \cup purged

PlacesInv ==
    /\ purged \cap messages = {}
    /\ Landed \cap InFlight = {}
    /\ ToPush \cap (Landed \cup InFlight) = {}
    /\ writer.batch \cap Range(persist_queue) = {}
    /\ \A a, b \in DOMAIN persist_queue : persist_queue[a] = persist_queue[b] => a = b

\* Steps that push nothing, take nothing and write nothing.
LEMMA PlacesSame ==
    ASSUME PlacesInv, persist_queue' = persist_queue, writer'.batch \subseteq writer.batch,
           ToPush' \subseteq ToPush, Landed' \subseteq Landed, purged' \cap messages' = {}
    PROVE  PlacesInv'
  <1>1. InFlight' \subseteq InFlight /\ Range(persist_queue') = Range(persist_queue)
    BY DEF InFlight, Range
  <1>2. QED
    BY <1>1 DEF PlacesInv

LEMMA PlacesPush ==
    ASSUME TypeOK, PlacesInv, NEW m \in Messages, Pushing(m),
           persist_queue' = Pushed(persist_queue, m),
           writer'.batch = writer.batch, UNCHANGED <<messages, purged>>,
           pc' = [pc EXCEPT ![m] = AfterPush(m)]
    PROVE  PlacesInv'
  <1> DEFINE q == persist_queue
  <1>0. q \in Seq(Messages) /\ Len(q) <= Capacity /\ q' = Pushed(q, m)
    BY DEF TypeOK
  <1>1. PICK d \in {0, 1} :
              /\ Len(q') = Len(q) + 1 - d
              /\ d <= Len(q)
              /\ \A a \in 1 .. Len(q) - d : q'[a] = q[a + d]
              /\ q'[Len(q) + 1 - d] = m
    <2> HIDE DEF q
    <2>1. \E d \in {0, 1} :
              /\ Len(Pushed(q, m)) = Len(q) + 1 - d
              /\ d <= Len(q)
              /\ \A a \in 1 .. Len(q) - d : Pushed(q, m)[a] = q[a + d]
              /\ Pushed(q, m)[Len(q) + 1 - d] = m
      BY <1>0, PushedEntries
    <2>2. QED
      BY <1>0, <2>1
  <1>2. q' \in Seq(Messages)
    BY PushedIsQueue DEF TypeOK
  <1>3. \A a \in DOMAIN q' : \/ a = Len(q) + 1 - d /\ q'[a] = m
                             \/ a <= Len(q) - d /\ a + d \in DOMAIN q /\ q'[a] = q[a + d]
    BY SMTT(30), <1>0, <1>1, <1>2
  <1>4. Range(q') \subseteq Range(q) \cup {m}
    BY <1>3 DEF Range
  <1>5. m \in ToPush /\ ToPush' \subseteq ToPush \ {m}
    BY DEF ToPush, Pushing, AfterPush, TypeOK
  <1>6. m \notin Landed \cup InFlight
    BY <1>5 DEF PlacesInv
  <1>7. InFlight' \subseteq InFlight \cup {m} /\ Landed' = Landed
    BY <1>4 DEF InFlight, Landed
  <1>8. \A a, b \in DOMAIN q' : q'[a] = q'[b] => a = b
    <2> SUFFICES ASSUME NEW a \in DOMAIN q', NEW b \in DOMAIN q', q'[a] = q'[b] PROVE a = b
      OBVIOUS
    <2>1. \A c \in DOMAIN q : q[c] # m
      BY <1>6 DEF InFlight, Range
    <2>2. CASE a <= Len(q) - d /\ b <= Len(q) - d
      <3>1. a + d \in DOMAIN q /\ b + d \in DOMAIN q /\ q[a + d] = q[b + d]
        BY <1>0, <1>1, <1>3, <2>2
      <3>2. a + d = b + d
        BY <3>1 DEF PlacesInv
      <3>3. QED
        BY <1>2, <3>2
    <2>3. QED
      BY <1>0, <1>1, <1>3, <2>1, <2>2
  <1>9. purged' \cap messages' = {}
    BY DEF PlacesInv
  <1>10. writer'.batch \cap Range(q') = {}
    BY <1>4, <1>6 DEF PlacesInv, InFlight
  <1>11. QED
    BY <1>5, <1>6, <1>7, <1>8, <1>9, <1>10 DEF PlacesInv

LEMMA PlacesPop == TypeOK /\ PlacesInv /\ PopBatch => PlacesInv'
  <1> SUFFICES ASSUME TypeOK, PlacesInv, PopBatch PROVE PlacesInv'
    OBVIOUS
  <1> DEFINE q == persist_queue
  <1>1. /\ q \in Seq(Messages)
        /\ q' = Left(q, BatchSize)
        /\ writer'.batch = Taken(q, BatchSize)
        /\ UNCHANGED <<messages, purged>>
    BY DEF PopBatch, TypeOK, tables
  <1>2. \A a \in DOMAIN q' : a \in Nat \ {0} /\ a + BatchSize \in DOMAIN q /\ q'[a] = q[a + BatchSize]
    BY <1>1, LeftEntries
  <1>3. \A m \in writer'.batch : \E b \in DOMAIN q : b <= BatchSize /\ q[b] = m
    BY <1>1 DEF Taken
  <1>4. InFlight' \subseteq InFlight
    BY <1>1, <1>2, <1>3 DEF InFlight, Range
  <1>5. ToPush' \subseteq ToPush
    BY DEF ToPush, PopBatch, NotifyPublisher, TypeOK
  <1>6. \A a, b \in DOMAIN q' : q'[a] = q'[b] => a = b
    <2> SUFFICES ASSUME NEW a \in DOMAIN q', NEW b \in DOMAIN q', q'[a] = q'[b] PROVE a = b
      OBVIOUS
    <2>1. a + BatchSize = b + BatchSize
      BY <1>2 DEF PlacesInv
    <2>2. QED
      BY <1>2, <2>1, ConstantsAssumption
  <1>7. writer'.batch \cap Range(q') = {}
    <2> SUFFICES ASSUME NEW a \in DOMAIN q', q'[a] \in writer'.batch PROVE FALSE
      BY DEF Range
    <2>1. PICK b \in DOMAIN q : b <= BatchSize /\ q[b] = q'[a]
      BY <1>3
    <2>2. b = a + BatchSize
      BY <1>2, <2>1 DEF PlacesInv
    <2>3. QED
      BY <1>1, <1>2, <2>1, <2>2, ConstantsAssumption
  <1>8. QED
    BY <1>1, <1>4, <1>5, <1>6, <1>7 DEF PlacesInv, Landed

LEMMA PlacesWrite == TypeOK /\ PlacesInv /\ WriteBatch => PlacesInv'
  <1> SUFFICES ASSUME TypeOK, PlacesInv, WriteBatch PROVE PlacesInv'
    OBVIOUS
  <1>1. /\ writer'.batch = {} /\ messages' = messages \cup writer.batch
        /\ UNCHANGED <<pc, persist_queue, purged>>
    BY DEF WriteBatch, IdleWriter
  <1>2. InFlight' = Range(persist_queue) /\ Landed' = Landed \cup writer.batch /\ ToPush' = ToPush
    BY <1>1 DEF InFlight, Landed, ToPush, Range
  <1>3. QED
    BY <1>1, <1>2 DEF PlacesInv, InFlight, Landed

LEMMA PlacesStep == TypeOK /\ PlacesInv /\ [Next]_vars => PlacesInv'
  <1> SUFFICES ASSUME TypeOK, PlacesInv, [Next]_vars PROVE PlacesInv'
    OBVIOUS
  <1>1. ASSUME NEW m \in Messages, Enqueue(m) PROVE PlacesInv'
    <2>1. Pushed(persist_queue, m) = Append(persist_queue, m)
      BY <1>1 DEF Enqueue, Pushed
    <2>2. writer'.batch = writer.batch
      BY <1>1 DEF Enqueue, NotifyWriter, TypeOK, WriterRecord
    <2>3. QED
      BY <1>1, <2>1, <2>2, PlacesPush DEF Enqueue, tables
  <1>2. ASSUME NEW m \in Messages, EvictOldest(m) PROVE PlacesInv'
    <2>1. writer'.batch = writer.batch
      BY <1>2 DEF EvictOldest, NotifyWriter, TypeOK, WriterRecord
    <2>2. QED
      BY <1>2, <2>1, PlacesPush DEF EvictOldest, tables
  <1>3. ASSUME NEW m \in Messages,
               Publish(m) \/ FindFull(m) \/ AwaitRoom(m) \/ QueueIndex(m) \/ Expire(m) \/ HangUp(m)
        PROVE  PlacesInv'
    <2>1. ToPush' \subseteq ToPush
      BY <1>3 DEF Publish, FindFull, AwaitRoom, QueueIndex, Expire, HangUp, NotifyPublisher,
                  Pushing, ToPush, TypeOK
    <2>2. UNCHANGED <<persist_queue, writer, messages, purged>>
      BY <1>3 DEF Publish, FindFull, AwaitRoom, QueueIndex, Expire, HangUp, queue, tables
    <2>3. QED
      BY <2>1, <2>2, PlacesSame DEF Landed, PlacesInv
  <1>4. CASE FindEmpty \/ AwaitMessages \/ WriteFails
    <2>1. writer'.batch \subseteq writer.batch
      <3>1. CASE FindEmpty \/ AwaitMessages
        BY <3>1 DEF FindEmpty, AwaitMessages, TypeOK, WriterRecord
      <3>2. CASE WriteFails
        BY <3>2 DEF WriteFails, IdleWriter, TypeOK, WriterRecord
      <3>3. QED
        BY <1>4, <3>1, <3>2
    <2>2. UNCHANGED <<pc, persist_queue, messages, purged>>
      BY <1>4 DEF FindEmpty, AwaitMessages, WriteFails, tables
    <2>3. QED
      BY <2>1, <2>2, PlacesSame DEF Landed, ToPush, PlacesInv
  <1>5. CASE Indexer \/ IndexFails \/ PurgeIndex \/ PurgeFails \/ UNCHANGED vars
    <2>1. UNCHANGED <<pc, persist_queue, writer, messages, purged>>
      BY <1>5 DEF Indexer, PopIndexBatch, IndexBatch, IndexFails, PurgeIndex, PurgeFails,
                  queue, tables, vars
    <2>2. QED
      BY <2>1, PlacesSame DEF Landed, ToPush, PlacesInv
  <1>6. CASE PurgeRows
    <2>1. /\ UNCHANGED <<pc, persist_queue, writer>>
          /\ messages' = messages \ purge.cutoff
          /\ purged' = purged \cup (messages \cap purge.cutoff)
      BY <1>6 DEF PurgeRows, queue
    <2>2. purged' \cap messages' = {} /\ Landed' \subseteq Landed
      BY <2>1 DEF Landed, PlacesInv
    <2>3. QED
      BY <2>1, <2>2, PlacesSame DEF ToPush
  <1>7. CASE DaemonStop
    <2>1. /\ persist_queue' = <<>> /\ writer'.batch = {} /\ UNCHANGED <<messages, purged>>
          /\ ToPush' \subseteq ToPush
      BY <1>7 DEF DaemonStop, IdleWriter, tables, ToPush
    <2>2. Range(persist_queue') = {} /\ InFlight' = {} /\ DOMAIN persist_queue' = {}
      BY <2>1 DEF Range, InFlight
    <2>3. QED
      BY <2>1, <2>2 DEF PlacesInv, Landed
  <1>8. QED
    BY <1>1, <1>2, <1>3, <1>4, <1>5, <1>6, <1>7, PlacesPop, PlacesWrite
       DEF Next, Handler, Writer

\* However often a batch is tried and whenever the purge runs, no message it deleted is
\* written again; and the queues stay within their capacities.
THEOREM PurgedStayAway == Spec => []PipelineInv
  <1>1. Init => TypeOK /\ PlacesInv
    <2> SUFFICES ASSUME Init PROVE TypeOK /\ PlacesInv
      OBVIOUS
    <2>1. Range(persist_queue) = {} /\ InFlight = {} /\ DOMAIN persist_queue = {} /\ Landed = {}
      BY DEF Init, Range, InFlight, IdleWriter, Landed
    <2>2. QED
      BY <2>1, InitType DEF Init, PlacesInv, IdleWriter
  <1>2. TypeOK /\ PlacesInv /\ [Next]_vars => TypeOK' /\ PlacesInv'
    BY TypeStep, PlacesStep
  <1>3. TypeOK /\ PlacesInv => PipelineInv
    BY DEF PlacesInv, PurgedIsGone, PipelineInv
  <1>4. QED
    BY <1>1, <1>2, <1>3, PTL DEF Spec

----------------------------------------------------------------------------
\* Induction over the natural numbers, for a set in place of a predicate.
LEMMA NatSetInduction ==
    ASSUME NEW S, 0 \in S, \A n \in Nat : n \in S => n + 1 \in S
    PROVE  \A n \in Nat : n \in S
  <1> DEFINE Less == OpToRel(<, Nat)   T == Nat \ S
  <1>1. IsWellFoundedOn(Less, Nat)
    BY NatLessThanWellFounded
  <1>2. ASSUME NEW n \in T PROVE FALSE
    <2>1. T \subseteq Nat /\ T # {}
      BY <1>2
    <2>2. PICK x \in T : \A y \in T : ~(<<y, x>> \in Less)
      <3> HIDE DEF Less, T
      <3> QED BY <1>1, <2>1, WFMin
    <2>3. x # 0 /\ x - 1 \in Nat /\ x - 1 < x /\ (x - 1) + 1 = x
      OBVIOUS
    <2>4. <<x - 1, x>> \in Less
      BY <2>3 DEF OpToRel
    <2>5. x - 1 \in S
      BY <2>2, <2>3, <2>4
    <2> QED BY <2>3, <2>5
  <1> QED BY <1>2

----------------------------------------------------------------------------
(***************************************************************************)
(* What is left of a sequence (module Reads).  Only is recursive: that its *)
(* function exists is proved by an induction over the prefixes, and so is  *)
(* what it computes for each of them.                                      *)
(***************************************************************************)

\* t is what is left of the first n elements of s in S: g says where each stood.
IsLeft(t, s, n, S, g) ==
    /\ g \in [1..Len(t) -> 1..n]
    /\ \A k, l \in 1..Len(t) : k < l => g[k] < g[l]
    /\ \A k \in 1..Len(t) : t[k] = s[g[k]] /\ t[k] \in S
    /\ \A j \in 1..n : s[j] \in S => \E k \in 1..Len(t) : g[k] = j

Step(s, S, t, i) == IF i = 0 THEN <<>> ELSE IF s[i] \in S THEN Append(t, s[i]) ELSE t

LEMMA OneMore ==
    ASSUME NEW A, NEW s \in Seq(A), NEW S, NEW n \in Nat, n < Len(s),
           NEW t \in Seq(A), NEW g, IsLeft(t, s, n, S, g)
    PROVE  /\ Step(s, S, t, n + 1) \in Seq(A)
           /\ \E h : IsLeft(Step(s, S, t, n + 1), s, n + 1, S, h)
  <1>0. n + 1 \in 1..Len(s) /\ s[n + 1] \in A /\ n + 1 # 0
    OBVIOUS
  <1>1. CASE s[n + 1] \in S
    <2> DEFINE u == Append(t, s[n + 1])
               h == [k \in 1..Len(t) + 1 |-> IF k = Len(t) + 1 THEN n + 1 ELSE g[k]]
    <2>1. u \in Seq(A) /\ Len(u) = Len(t) + 1 /\ u[Len(t) + 1] = s[n + 1]
          /\ \A k \in 1..Len(t) : u[k] = t[k]
      BY <1>0, AppendProperties
    <2>2. h \in [1..Len(t) + 1 -> 1..n + 1]
      <3>1. g \in [1..Len(t) -> 1..n]
        BY DEF IsLeft
      <3>2. \A k \in 1..Len(t) + 1 : k # Len(t) + 1 => g[k] \in 1..n
        BY <3>1
      <3>3. \A k \in 1..Len(t) + 1 : h[k] \in 1..n + 1
        BY <3>2
      <3> QED BY <3>3
    <2>3. /\ h[Len(t) + 1] = n + 1
          /\ \A k \in 1..Len(t) : h[k] = g[k] /\ g[k] \in 1..n
          /\ \A k \in 1..Len(t) + 1 : k \in 1..Len(t) \/ k = Len(t) + 1
      <3>1. g \in [1..Len(t) -> 1..n]
        BY DEF IsLeft
      <3>2. /\ Len(t) + 1 \in 1..Len(t) + 1
            /\ \A k \in 1..Len(t) : k \in 1..Len(t) + 1 /\ k # Len(t) + 1
            /\ \A k \in 1..Len(t) + 1 : k \in 1..Len(t) \/ k = Len(t) + 1
        OBVIOUS
      <3> QED BY <3>1, <3>2
    <2> HIDE DEF u, h
    <2>4. \A k, l \in 1..Len(t) + 1 : k < l => h[k] < h[l]
      BY <2>3 DEF IsLeft
    <2>5. \A k \in 1..Len(t) + 1 : u[k] = s[h[k]] /\ u[k] \in S
      BY <1>1, <2>1, <2>3 DEF IsLeft
    <2>6. \A j \in 1..n + 1 : s[j] \in S => \E k \in 1..Len(t) + 1 : h[k] = j
      <3>1. ASSUME NEW j \in 1..n, s[j] \in S PROVE \E k \in 1..Len(t) + 1 : h[k] = j
        <4>1. PICK k \in 1..Len(t) : g[k] = j
          BY <3>1 DEF IsLeft
        <4>2. k \in 1..Len(t) + 1 /\ h[k] = j
          BY <2>3, <4>1
        <4> QED BY <4>2
      <3>2. Len(t) + 1 \in 1..Len(t) + 1 /\ h[Len(t) + 1] = n + 1
        BY <2>3
      <3>3. \A j \in 1..n + 1 : j \in 1..n \/ j = n + 1
        OBVIOUS
      <3> QED BY <3>1, <3>2, <3>3
    <2>7. IsLeft(u, s, n + 1, S, h)
      BY <2>1, <2>2, <2>4, <2>5, <2>6 DEF IsLeft
    <2>8. Step(s, S, t, n + 1) = u
      BY <1>0, <1>1 DEF Step, u
    <2> QED BY <2>1, <2>7, <2>8
  <1>2. CASE s[n + 1] \notin S
    <2>1. Step(s, S, t, n + 1) = t
      BY <1>0, <1>2 DEF Step
    <2>2. /\ \A j \in 1..n + 1 : j \in 1..n \/ j = n + 1
          /\ 1..n \subseteq 1..n + 1
      OBVIOUS
    <2>3. IsLeft(t, s, n + 1, S, g)
      BY <1>2, <2>2 DEF IsLeft
    <2> QED BY <2>1, <2>3
  <1> QED BY <1>1, <1>2

LEMMA OnlyIsLeft ==
    ASSUME NEW A, NEW s \in Seq(A), NEW S
    PROVE  /\ Only(s, S) \in Seq(A)
           /\ \E g : IsLeft(Only(s, S), s, Len(s), S, g)
  <1> DEFINE Solves(f, n) == f = [i \in 0..n |-> Step(s, S, f[i - 1], i)]
             Good(f, n) == f[n] \in Seq(A) /\ \E g : IsLeft(f[n], s, n, S, g)
             Done == {n \in Nat : n <= Len(s) => \E f : Solves(f, n) /\ Good(f, n)}
  <1>1. 0 \in Done
    <2> DEFINE f == [i \in 0..0 |-> <<>>]
    <2>1. f[0] = <<>> /\ \A i \in 0..0 : f[i] = Step(s, S, f[i - 1], i)
      BY DEF Step
    <2>2. Solves(f, 0)
      BY <2>1
    <2>3. IsLeft(<<>>, s, 0, S, [k \in 1..0 |-> 0])
      BY DEF IsLeft
    <2>4. Good(f, 0)
      <3> HIDE DEF f
      <3> QED BY <2>1, <2>3
    <2> HIDE DEF f, Solves, Good
    <2> QED BY <2>2, <2>4
  <1>2. ASSUME NEW n \in Nat, n \in Done PROVE n + 1 \in Done
    <2>1. SUFFICES ASSUME n + 1 <= Len(s) PROVE \E f : Solves(f, n + 1) /\ Good(f, n + 1)
      BY <1>2
    <2>2. n < Len(s) /\ n <= Len(s)
      BY <2>1
    <2>3. PICK f : Solves(f, n) /\ Good(f, n)
      BY <1>2, <2>2
    <2> DEFINE h == [i \in 0..n + 1 |-> IF i = n + 1 THEN Step(s, S, f[n], n + 1) ELSE f[i]]
    <2>4. h[n + 1] = Step(s, S, f[n], n + 1) /\ \A i \in 0..n : h[i] = f[i]
      OBVIOUS
    <2>5. ASSUME NEW i \in 0..n + 1 PROVE h[i] = Step(s, S, h[i - 1], i)
      <3>1. CASE i = n + 1
        <4>1. i - 1 = n /\ n \in 0..n
          BY <3>1
        <4> HIDE DEF h
        <4> QED BY <2>4, <3>1, <4>1
      <3>2. CASE i # n + 1 /\ i # 0
        <4>1. i \in 0..n /\ i - 1 \in 0..n
          BY <3>2
        <4>2. f[i] = Step(s, S, f[i - 1], i)
          BY <2>3, <4>1
        <4> HIDE DEF h
        <4> QED BY <2>4, <4>1, <4>2
      <3>3. CASE i = 0
        <4>1. i \in 0..n
          BY <3>3
        <4>2. f[i] = Step(s, S, f[i - 1], i)
          BY <2>3, <4>1
        <4>3. f[i] = <<>>
          BY <3>3, <4>2 DEF Step
        <4> HIDE DEF h
        <4>4. h[i] = <<>>
          BY <2>4, <4>1, <4>3
        <4> QED BY <3>3, <4>4 DEF Step
      <3> QED BY <3>1, <3>2, <3>3
    <2>6. Solves(h, n + 1)
      <3>1. h = [i \in 0..n + 1 |-> h[i]]
        OBVIOUS
      <3> HIDE DEF h
      <3> QED BY <2>5, <3>1
    <2>7. Good(h, n + 1)
      <3>1. PICK g : IsLeft(f[n], s, n, S, g)
        BY <2>3
      <3>2. f[n] \in Seq(A)
        BY <2>3
      <3> HIDE DEF h
      <3> QED BY <2>2, <2>4, <3>1, <3>2, OneMore
    <2> HIDE DEF h, Solves, Good
    <2> QED BY <2>6, <2>7
  <1>3. \A n \in Nat : n \in Done
    <2> HIDE DEF Done
    <2> QED BY <1>1, <1>2, NatSetInduction
  <1> DEFINE kept == CHOOSE f : Solves(f, Len(s))
  <1>5. PICK f : Solves(f, Len(s)) /\ Good(f, Len(s))
    <2>1. Len(s) \in Nat /\ Len(s) <= Len(s)
      OBVIOUS
    <2> HIDE DEF Solves, Good
    <2> QED BY <1>3, <2>1
  <1>4. Solves(kept, Len(s))
    <2> HIDE DEF Solves
    <2> QED BY <1>5
  <1>6. \A n \in Nat : n \in {m \in Nat : m <= Len(s) => kept[m] = f[m]}
    <2> DEFINE Same == {m \in Nat : m <= Len(s) => kept[m] = f[m]}
    <2> HIDE DEF kept
    <2>1. 0 \in Same
      <3>0. 0 \in 0..Len(s)
        OBVIOUS
      <3>1. kept[0] = Step(s, S, kept[0 - 1], 0) /\ f[0] = Step(s, S, f[0 - 1], 0)
        BY <1>4, <1>5, <3>0
      <3>2. kept[0] = <<>> /\ f[0] = <<>>
        BY <3>1 DEF Step
      <3> QED BY <3>2
    <2>2. ASSUME NEW m \in Nat, m \in Same PROVE m + 1 \in Same
      <3>1. SUFFICES ASSUME m + 1 <= Len(s) PROVE kept[m + 1] = f[m + 1]
        OBVIOUS
      <3>2. m + 1 \in 0..Len(s) /\ m + 1 - 1 = m /\ kept[m] = f[m]
        BY <2>2, <3>1
      <3>3. kept[m + 1] = Step(s, S, kept[m + 1 - 1], m + 1)
            /\ f[m + 1] = Step(s, S, f[m + 1 - 1], m + 1)
        BY <1>4, <1>5, <3>2
      <3> QED BY <3>2, <3>3
    <2> HIDE DEF Same
    <2>3. \A n \in Nat : n \in Same
      BY <2>1, <2>2, NatSetInduction
    <2> QED BY <2>3 DEF Same
  <1>7. Only(s, S) = kept[Len(s)]
    BY DEF Only, Step
  <1>8. kept[Len(s)] = f[Len(s)]
    <2> HIDE DEF kept
    <2>1. Len(s) \in Nat /\ Len(s) <= Len(s)
      OBVIOUS
    <2> QED BY <1>6, <2>1
  <1> QED
    <2> HIDE DEF kept, Solves
    <2> QED BY <1>5, <1>7, <1>8

LEMMA OnlyOfRange ==
    ASSUME NEW A, NEW s \in Seq(A), NEW S
    PROVE  /\ Only(s, S) \in Seq(A)
           /\ Range(Only(s, S)) = Range(s) \intersect S
  <1>1. Only(s, S) \in Seq(A)
    BY OnlyIsLeft
  <1>2. PICK g : IsLeft(Only(s, S), s, Len(s), S, g)
    BY OnlyIsLeft
  <1> DEFINE t == Only(s, S)
  <1>3. DOMAIN t = 1..Len(t) /\ DOMAIN s = 1..Len(s)
    BY <1>1
  <1> HIDE DEF t
  <1>4. IsLeft(t, s, Len(s), S, g)
    BY <1>2 DEF t
  <1>5. ASSUME NEW x \in Range(t) PROVE x \in Range(s) \intersect S
    <2>1. PICK k \in 1..Len(t) : x = t[k]
      BY <1>3 DEF Range
    <2>2. g[k] \in 1..Len(s) /\ x = s[g[k]] /\ x \in S
      BY <1>4, <2>1 DEF IsLeft
    <2> QED BY <1>3, <2>2 DEF Range
  <1>6. ASSUME NEW x \in Range(s) \intersect S PROVE x \in Range(t)
    <2>1. PICK j \in 1..Len(s) : x = s[j]
      BY <1>3 DEF Range
    <2>2. PICK k \in 1..Len(t) : g[k] = j
      BY <1>4, <2>1 DEF IsLeft
    <2>3. x = t[k]
      BY <1>4, <2>1, <2>2 DEF IsLeft
    <2> QED BY <1>3, <2>3 DEF Range
  <1>7. Range(t) = Range(s) \intersect S
    BY <1>5, <1>6
  <1> QED BY <1>1, <1>7 DEF t

\* Two elements that are left stood in the same order before.
LEMMA OnlyInOrder ==
    ASSUME NEW A, NEW s \in Seq(A), NEW S,
           NEW k \in DOMAIN Only(s, S), NEW l \in DOMAIN Only(s, S), k < l
    PROVE  \E i, j \in DOMAIN s : i < j /\ s[i] = Only(s, S)[k] /\ s[j] = Only(s, S)[l]
  <1> DEFINE t == Only(s, S)
  <1>1. t \in Seq(A)
    BY OnlyIsLeft
  <1>2. PICK g : IsLeft(t, s, Len(s), S, g)
    BY OnlyIsLeft
  <1>3. DOMAIN t = 1..Len(t) /\ DOMAIN s = 1..Len(s) /\ k \in DOMAIN t /\ l \in DOMAIN t
    BY <1>1
  <1> HIDE DEF t
  <1>4. g[k] \in 1..Len(s) /\ g[l] \in 1..Len(s) /\ g[k] < g[l] /\ s[g[k]] = t[k] /\ s[g[l]] = t[l]
    BY <1>2, <1>3 DEF IsLeft
  <1>5. \E i, j \in DOMAIN s : i < j /\ s[i] = t[k] /\ s[j] = t[l]
    BY <1>3, <1>4
  <1> QED BY <1>5 DEF t

LEMMA WithIsSeq ==
    ASSUME NEW A, NEW s \in Seq(A), NEW x \in A, NEW i \in 1..Len(s) + 1
    PROVE  /\ With(s, i, x) \in Seq(A)
           /\ Len(With(s, i, x)) = Len(s) + 1
           /\ \A k \in 1..Len(s) + 1 :
                With(s, i, x)[k] = IF k < i THEN s[k] ELSE IF k = i THEN x ELSE s[k - 1]
  <1> DEFINE Place(k) == IF k < i THEN s[k] ELSE IF k = i THEN x ELSE s[k - 1]
             t == [k \in 1..Len(s) + 1 |-> Place(k)]
  <1>1. ASSUME NEW k \in 1..Len(s) + 1 PROVE Place(k) \in A
    <2>1. k < i => k \in 1..Len(s)
      OBVIOUS
    <2>2. ~(k < i) /\ k # i => k - 1 \in 1..Len(s)
      OBVIOUS
    <2> QED BY <2>1, <2>2
  <1>2. t \in [1..Len(s) + 1 -> A]
    <2> HIDE DEF Place
    <2> QED BY <1>1
  <1>3. Len(s) + 1 \in Nat
    OBVIOUS
  <1>4. t \in Seq(A)
    <2> HIDE DEF t
    <2> QED BY <1>2, <1>3, SeqDef
  <1>5. DOMAIN t = 1..Len(s) + 1 /\ \A k \in 1..Len(s) + 1 : t[k] = Place(k)
    OBVIOUS
  <1>6. Len(t) = Len(s) + 1
    <2> HIDE DEF t
    <2> QED BY <1>3, <1>4, <1>5, LenProperties
  <1>7. With(s, i, x) = t
    BY DEF With
  <1> QED BY <1>4, <1>5, <1>6, <1>7

----------------------------------------------------------------------------
(***************************************************************************)
(* The tables and the walk.  The walk through the ancestors keeps account  *)
(* of itself: whoever has been found was looked for, the parent of whoever *)
(* has been shown or found was looked for too, or is the one to be looked  *)
(* for next, unless a chain has been cut.  As long as nobody writes, all   *)
(* that was looked for and is there has been found, and nothing that is    *)
(* not in every set of rows with the parents of its members.               *)
(***************************************************************************)
Reader == [at : {"idle", "walk", "answered"}, pattern : Patterns \union {<<>>}, limit : Nat,
           shown : Seq(Row), found : Seq(Row), next : Nat, parent : Ids \union {NoParent},
           depth : Nat, visited : SUBSET Ids, cut : BOOLEAN, races : Nat]

Schema == [pattern : Patterns, version : Versions, status : {"active", "paused"}, created : Nat]

ReadsTypeOK == /\ rows \in Seq(Row) /\ reader \in Reader
               /\ schemas \in Seq(Schema)
               /\ adding \subseteq [pattern : Patterns, version : Versions, created : Nat]
               /\ clock \in Nat

RowsInv == \A i, j \in DOMAIN rows : rows[i].id = rows[j].id => i = j

\* How far the chains have been followed.
Followed == {reader.shown[k] : k \in 1..reader.next} \union Range(reader.found)

FoundInv == /\ \A k \in DOMAIN reader.found : reader.found[k].id \in reader.visited
            /\ EachOnce(reader.found)
            /\ ParentsOnly(reader.shown, reader.found)

CutInv == /\ reader.depth <= Len(reader.found)
          /\ reader.cut => Len(reader.found) >= MaxDepth

NextInv == /\ reader.next <= Len(reader.shown)
           /\ reader.at = "answered" => reader.next = Len(reader.shown)
           /\ \/ reader.parent = NoParent
              \/ \E m \in Range(reader.shown) \union Range(reader.found) : m.parent = reader.parent
           /\ \/ reader.cut
              \/ \A m \in Followed :
                   \/ m.parent \in reader.visited \union {NoParent}
                   \/ m.parent = reader.parent /\ reader.at = "walk"

\* Nobody has written since the messages were selected.
AloneInv == reader.at # "idle" /\ reader.races = 0 =>
    /\ ShownAreNewest(reader.pattern, reader.limit, reader.shown)
    /\ Range(reader.found) \subseteq Range(rows)
    /\ \A r \in Range(rows) : r.id \in reader.visited => r \in Range(reader.found)
    /\ \A A \in SUBSET Range(rows) :
         Closed(A, Range(reader.shown)) => Range(reader.found) \subseteq A

SchemasInv == \A i, j \in DOMAIN schemas : i < j => schemas[i].created > schemas[j].created

ReadsInv == /\ ReadsTypeOK /\ RowsInv
            /\ FoundInv /\ CutInv /\ NextInv /\ AloneInv
            /\ SchemasInv

LEMMA AppendRange ==
    ASSUME NEW A, NEW s \in Seq(A), NEW x \in A
    PROVE  /\ Append(s, x) \in Seq(A)
           /\ Len(Append(s, x)) = Len(s) + 1
           /\ DOMAIN Append(s, x) = DOMAIN s \union {Len(s) + 1}
           /\ Append(s, x)[Len(s) + 1] = x
           /\ \A k \in DOMAIN s : Append(s, x)[k] = s[k]
           /\ Range(Append(s, x)) = Range(s) \union {x}
  <1> DEFINE t == Append(s, x)
  <1>1. /\ t \in Seq(A) /\ Len(t) = Len(s) + 1
        /\ t[Len(s) + 1] = x /\ \A k \in 1..Len(s) : t[k] = s[k]
    BY AppendProperties
  <1> HIDE DEF t
  <1>2. DOMAIN s = 1..Len(s) /\ DOMAIN t = 1..Len(s) + 1
    BY <1>1
  <1>3. DOMAIN t = DOMAIN s \union {Len(s) + 1}
    BY <1>2
  <1>4. Range(t) = Range(s) \union {x}
    BY <1>1, <1>2, <1>3 DEF Range
  <1> QED BY <1>1, <1>2, <1>3, <1>4 DEF t

LEMMA EmptyRange == Range(<<>>) = {}
  BY DEF Range

\* What a write leaves of a reader.
LEMMA RacedKeeps ==
    ASSUME reader \in Reader, FoundInv, CutInv, NextInv, Raced
    PROVE  reader' \in Reader /\ FoundInv' /\ CutInv' /\ NextInv' /\ AloneInv'
  <1>1. CASE reader.at = "walk"
    <2>1. reader' = [reader EXCEPT !.races = @ + 1]
      BY <1>1 DEF Raced
    <2>2. reader' \in Reader
      <3>1. reader.races + 1 \in Nat
        BY DEF Reader
      <3> QED BY <2>1, <3>1 DEF Reader
    <2>3. /\ reader'.at = reader.at /\ reader'.shown = reader.shown /\ reader'.found = reader.found
          /\ reader'.next = reader.next /\ reader'.parent = reader.parent
          /\ reader'.depth = reader.depth /\ reader'.visited = reader.visited
          /\ reader'.cut = reader.cut
      BY <2>1 DEF Reader
    <2>4. reader.races \in Nat /\ reader'.races = reader.races + 1
      BY <2>1 DEF Reader
    <2>5. reader'.races # 0
      BY <2>4
    <2>6. FoundInv' /\ CutInv'
      BY <2>3 DEF FoundInv, CutInv
    <2>7. NextInv'
      BY <2>3 DEF NextInv, Followed
    <2>8. AloneInv'
      BY <2>5 DEF AloneInv
    <2> QED BY <2>2, <2>6, <2>7, <2>8
  <1>2. CASE reader.at # "walk"
    <2>1. reader' = Idle
      BY <1>2 DEF Raced
    <2>2. /\ reader'.at = "idle" /\ reader'.shown = <<>> /\ reader'.found = <<>>
          /\ reader'.next = 0 /\ reader'.parent = NoParent
          /\ reader'.depth = 0 /\ reader'.visited = {}
          /\ reader'.cut = FALSE
      BY <2>1 DEF Idle
    <2>3. Idle \in Reader
      BY DEF Idle, Reader
    <2>4. FoundInv' /\ CutInv' /\ NextInv' /\ AloneInv'
      BY <2>2, EmptyRange DEF FoundInv, CutInv, NextInv, AloneInv, Followed, EachOnce, ParentsOnly
    <2> QED BY <2>1, <2>3, <2>4
  <1> QED BY <1>1, <1>2

\* Only a write changes the tables.
LEMMA TablesKept ==
    ASSUME ReadsTypeOK, RowsInv, SchemasInv, UNCHANGED <<rows, schemas, adding, clock>>, reader' \in Reader
    PROVE  ReadsTypeOK' /\ RowsInv' /\ SchemasInv'
  BY DEF ReadsTypeOK, RowsInv, SchemasInv

\* A read of a schema's table, or a write to it, has nothing to do with messages.
LEMMA MessagesKept ==
    ASSUME RowsInv, FoundInv, CutInv, NextInv, AloneInv, UNCHANGED <<rows, reader>>
    PROVE  RowsInv' /\ FoundInv' /\ CutInv' /\ NextInv' /\ AloneInv'
  <1>1. rows' = rows /\ reader' = reader
    OBVIOUS
  <1>2. RowsInv' /\ FoundInv' /\ CutInv'
    BY <1>1 DEF RowsInv, FoundInv, CutInv
  <1>3. NextInv'
    BY <1>1 DEF NextInv, Followed
  <1>4. AloneInv'
    BY <1>1 DEF AloneInv, ShownAreNewest, About, Older, Closed
  <1> QED BY <1>2, <1>3, <1>4

\* The ids of what is left of the rows are still distinct, with a new one put in too.
LEMMA OnlyOneEach ==
    ASSUME NEW s \in Seq(Row), \A i, j \in DOMAIN s : s[i].id = s[j].id => i = j, NEW S
    PROVE  /\ Only(s, S) \in Seq(Row)
           /\ \A k, l \in DOMAIN Only(s, S) : Only(s, S)[k].id = Only(s, S)[l].id => k = l
  <1> DEFINE t == Only(s, S)
  <1>1. t \in Seq(Row)
    BY OnlyIsLeft
  <1>2. DOMAIN t \subseteq Nat
    BY <1>1
  <1>3. ASSUME NEW k \in DOMAIN t, NEW l \in DOMAIN t, t[k].id = t[l].id, k < l PROVE FALSE
    <2>1. PICK i, j \in DOMAIN s : i < j /\ s[i] = t[k] /\ s[j] = t[l]
      BY <1>3, OnlyInOrder
    <2>2. i = j
      BY <1>3, <2>1
    <2>3. i \in Nat /\ j \in Nat
      OBVIOUS
    <2> HIDE DEF t
    <2> QED BY <2>1, <2>2, <2>3
  <1>4. ASSUME NEW k \in DOMAIN t, NEW l \in DOMAIN t, t[k].id = t[l].id PROVE k = l
    <2>1. k \in Nat /\ l \in Nat
      BY <1>2
    <2>2. ~(k < l) /\ ~(l < k)
      <3> HIDE DEF t
      <3> QED BY <1>3, <1>4
    <2> QED BY <2>1, <2>2
  <1> QED BY <1>1, <1>4

LEMMA WithOneEach ==
    ASSUME NEW s \in Seq(Row), \A i, j \in DOMAIN s : s[i].id = s[j].id => i = j,
           NEW m \in Row, \A k \in DOMAIN s : s[k].id # m.id, NEW n \in 1..Len(s) + 1
    PROVE  /\ With(s, n, m) \in Seq(Row)
           /\ \A i, j \in DOMAIN With(s, n, m) :
                With(s, n, m)[i].id = With(s, n, m)[j].id => i = j
  <1> DEFINE t == With(s, n, m)
             Was(k) == IF k < n THEN k ELSE k - 1
  <1>1. t \in Seq(Row) /\ Len(t) = Len(s) + 1
        /\ \A k \in 1..Len(s) + 1 :
             t[k] = IF k < n THEN s[k] ELSE IF k = n THEN m ELSE s[k - 1]
    <2> HIDE DEF Was
    <2>1. ASSUME NEW A, s \in Seq(A), m \in A
          PROVE  /\ t \in Seq(A) /\ Len(t) = Len(s) + 1
                 /\ \A k \in 1..Len(s) + 1 :
                      t[k] = IF k < n THEN s[k] ELSE IF k = n THEN m ELSE s[k - 1]
      BY <2>1, WithIsSeq
    <2> QED BY <2>1
  <1> HIDE DEF t
  <1>2. DOMAIN t = 1..Len(s) + 1 /\ DOMAIN s = 1..Len(s)
    BY <1>1
  <1>3. ASSUME NEW k \in DOMAIN t, k # n PROVE Was(k) \in DOMAIN s /\ t[k] = s[Was(k)]
    <2>1. k \in 1..Len(s) + 1
      BY <1>2
    <2>2. Was(k) \in 1..Len(s)
      BY <1>3, <2>1
    <2>3. t[k] = s[Was(k)]
      BY <1>1, <1>3, <2>1
    <2> QED BY <1>2, <2>2, <2>3
  <1>4. t[n] = m
    BY <1>1
  <1>5. ASSUME NEW i \in DOMAIN t, NEW j \in DOMAIN t, t[i].id = t[j].id PROVE i = j
    <2>1. CASE i # n /\ j # n
      <3>1. Was(i) = Was(j)
        <4>1. Was(i) \in DOMAIN s /\ Was(j) \in DOMAIN s /\ s[Was(i)].id = s[Was(j)].id
          BY <1>3, <1>5, <2>1
        <4> HIDE DEF Was
        <4> QED BY <4>1
      <3> QED BY <1>2, <2>1, <3>1
    <2>2. CASE i = n /\ j # n
      BY <1>3, <1>4, <1>5, <2>2
    <2>3. CASE i # n /\ j = n
      BY <1>3, <1>4, <1>5, <2>3
    <2> QED BY <2>1, <2>2, <2>3
  <1> QED BY <1>1, <1>5 DEF t

LEMMA StoreKeeps ==
    ASSUME ReadsInv, Store
    PROVE  ReadsInv'
  <1>1. PICK m \in Row :
          LET others == Only(rows, {r \in Range(rows) : r.id # m.id})
          IN  \E i \in 1..Len(others) + 1 : rows' = With(others, i, m)
    BY DEF Store
  <1> DEFINE others == Only(rows, {r \in Range(rows) : r.id # m.id})
  <1>2. PICK i \in 1..Len(others) + 1 : rows' = With(others, i, m)
    BY <1>1
  <1>3. /\ others \in Seq(Row)
        /\ \A k, l \in DOMAIN others : others[k].id = others[l].id => k = l
    BY OnlyOneEach DEF ReadsInv, ReadsTypeOK, RowsInv
  <1>4. \A k \in DOMAIN others : others[k].id # m.id
    <2>1. Range(others) \subseteq {r \in Range(rows) : r.id # m.id}
      BY OnlyOfRange DEF ReadsInv, ReadsTypeOK
    <2> HIDE DEF others
    <2> QED BY <2>1 DEF Range
  <1> HIDE DEF others
  <1>5. rows' \in Seq(Row) /\ RowsInv'
    BY <1>2, <1>3, <1>4, WithOneEach DEF RowsInv
  <1>6. reader' \in Reader /\ FoundInv' /\ CutInv' /\ NextInv' /\ AloneInv'
    BY RacedKeeps DEF Store, ReadsInv, ReadsTypeOK
  <1>7. ReadsTypeOK' /\ SchemasInv'
    BY <1>5, <1>6 DEF Store, ReadsInv, ReadsTypeOK, SchemasInv
  <1> QED BY <1>5, <1>6, <1>7 DEF ReadsInv

LEMMA DeleteBeforeKeeps ==
    ASSUME ReadsInv, DeleteBefore
    PROVE  ReadsInv'
  <1>1. PICK S : rows' = Only(rows, S)
    BY DEF DeleteBefore
  <1>2. rows' \in Seq(Row) /\ RowsInv'
    BY <1>1, OnlyOneEach DEF ReadsInv, ReadsTypeOK, RowsInv
  <1>3. reader' \in Reader /\ FoundInv' /\ CutInv' /\ NextInv' /\ AloneInv'
    BY RacedKeeps DEF DeleteBefore, ReadsInv, ReadsTypeOK
  <1>4. ReadsTypeOK' /\ SchemasInv'
    BY <1>2, <1>3 DEF DeleteBefore, ReadsInv, ReadsTypeOK, SchemasInv
  <1> QED BY <1>2, <1>3, <1>4 DEF ReadsInv

LEMMA SmallerOf ==
    ASSUME NEW m \in Nat, NEW n \in Nat, NEW k, k = IF m < n THEN m ELSE n
    PROVE  k \in 0..m /\ k <= n /\ (k = m \/ k = n)
  OBVIOUS

\* The selection is made of the newest rows about a topic, the newest first.
LEMMA NewestAreShown ==
    ASSUME rows \in Seq(Row), NEW p, NEW limit \in Nat
    PROVE  /\ NewestAbout(p, limit) \in Seq(Row)
           /\ ShownAreNewest(p, limit, NewestAbout(p, limit))
  <1> DEFINE n == Len(rows)
             newestFirst == [i \in 1..n |-> rows[n + 1 - i]]
             about == Only(newestFirst, About(p))
             last == IF Len(about) < AtMost(limit) THEN Len(about) ELSE AtMost(limit)
             shown == SubSeq(about, 1, last)
  <1>1. n \in Nat /\ DOMAIN rows = 1..n /\ AtMost(limit) \in Nat
    BY DEF AtMost
  <1>2. newestFirst \in Seq(Row) /\ Len(newestFirst) = n
    <2>1. \A i \in 1..n : n + 1 - i \in 1..n
      BY <1>1
    <2>2. newestFirst \in [1..n -> Row]
      BY <1>1, <2>1
    <2>3. DOMAIN newestFirst = 1..n
      OBVIOUS
    <2> HIDE DEF newestFirst, n
    <2>4. newestFirst \in Seq(Row)
      BY <1>1, <2>2, SeqDef
    <2> QED BY <1>1, <2>3, <2>4, LenProperties
  <1>3. about \in Seq(Row)
    <2> HIDE DEF newestFirst
    <2> QED BY <1>2, OnlyIsLeft
  <1>4. PICK g : IsLeft(about, newestFirst, n, About(p), g)
    <2> HIDE DEF newestFirst
    <2>1. \E g : IsLeft(about, newestFirst, Len(newestFirst), About(p), g)
      BY <1>2, OnlyIsLeft
    <2> QED BY <1>2, <2>1
  <1>5. \A k \in 1..Len(about) : /\ g[k] \in 1..n /\ n + 1 - g[k] \in 1..n
                                 /\ about[k] = rows[n + 1 - g[k]] /\ about[k] \in About(p)
    <2> HIDE DEF about
    <2>1. \A k \in 1..Len(about) : g[k] \in 1..n /\ about[k] = newestFirst[g[k]] /\ about[k] \in About(p)
      BY <1>4 DEF IsLeft
    <2>2. \A i \in 1..n : n + 1 - i \in 1..n /\ newestFirst[i] = rows[n + 1 - i]
      BY <1>1
    <2> HIDE DEF n, newestFirst
    <2> QED BY <2>1, <2>2
  <1>6. \A k, l \in 1..Len(about) : k < l => g[k] < g[l]
    <2> HIDE DEF about, newestFirst, n
    <2> QED BY <1>4 DEF IsLeft
  <1>7. ASSUME NEW k \in 1..Len(about), NEW l \in 1..Len(about), k < l
        PROVE  Older(about[l], about[k])
    <2>1. g[k] < g[l] /\ g[k] \in 1..n /\ g[l] \in 1..n
      BY <1>5, <1>6, <1>7
    <2>2. n + 1 - g[l] < n + 1 - g[k]
      BY <1>1, <2>1
    <2> HIDE DEF about, n
    <2> QED BY <1>1, <1>5, <2>2 DEF Older
  <1>8. last \in 0..Len(about) /\ last <= AtMost(limit) /\ (last = Len(about) \/ last = AtMost(limit))
    <2>1. Len(about) \in Nat /\ AtMost(limit) \in Nat
      BY <1>1, <1>3
    <2> HIDE DEF about, newestFirst, n
    <2> QED BY <2>1, SmallerOf
  <1> HIDE DEF about, last, newestFirst
  <1>9. shown \in Seq(Row) /\ Len(shown) = last /\ \A k \in 1..last : shown[k] = about[k]
    <2>1. \A i \in 1..last : about[i] \in Row
      BY <1>3, <1>8
    <2>2. /\ shown \in Seq(Row) /\ Len(shown) = IF 1 <= last THEN last - 1 + 1 ELSE 0
          /\ \A k \in 1..last - 1 + 1 : shown[k] = about[1 + k - 1]
      BY <1>8, <2>1, SubSeqProperties
    <2> HIDE DEF shown
    <2> QED BY <1>8, <2>2
  <1> HIDE DEF shown, n
  <1>10. DOMAIN shown = 1..last /\ \A k \in 1..last : k \in 1..Len(about)
    BY <1>8, <1>9
  <1>11. Range(shown) \subseteq About(p)
    BY <1>5, <1>9, <1>10 DEF Range
  <1>12. \A k, l \in DOMAIN shown : k < l => Older(shown[l], shown[k])
    BY <1>7, <1>9, <1>10
  <1>13. ASSUME NEW m \in About(p) \ Range(shown)
         PROVE  Len(shown) = AtMost(limit) /\ \A k \in DOMAIN shown : Older(m, shown[k])
    <2>1. PICK x \in 1..n : m = rows[x]
      BY <1>1 DEF About, Range
    <2>2. n + 1 - x \in 1..n /\ n + 1 - (n + 1 - x) = x
      BY <1>1
    <2>3. newestFirst[n + 1 - x] = m
      BY <2>1, <2>2 DEF newestFirst
    <2>4. PICK k \in 1..Len(about) : g[k] = n + 1 - x
      BY <1>4, <2>2, <2>3 DEF IsLeft
    <2>5. about[k] = m
      BY <1>5, <2>1, <2>2, <2>4
    <2>6. k \notin 1..last
      BY <1>9, <1>10, <2>5 DEF Range
    <2>7. last < k /\ last # Len(about)
      BY <1>3, <1>8, <2>6
    <2>8. ASSUME NEW l \in DOMAIN shown PROVE Older(m, shown[l])
      <3>1. l \in 1..Len(about) /\ l < k /\ shown[l] = about[l]
        BY <1>8, <1>9, <1>10, <2>7
      <3> QED BY <1>7, <2>5, <3>1
    <2> QED BY <1>8, <1>9, <2>7, <2>8
  <1>14. ShownAreNewest(p, limit, shown)
    BY <1>8, <1>9, <1>11, <1>12, <1>13 DEF ShownAreNewest
  <1>15. NewestAbout(p, limit) = shown
    BY DEF NewestAbout, shown, last, about, newestFirst, n
  <1> QED BY <1>9, <1>14, <1>15

LEMMA SelectKeeps ==
    ASSUME ReadsInv, Select
    PROVE  ReadsInv'
  <1>1. PICK p \in Patterns, limit \in Limits :
          reader' = [Idle EXCEPT !.at = "walk", !.pattern = p, !.limit = limit,
                                 !.shown = NewestAbout(p, limit)]
    BY DEF Select
  <1>2. limit \in Nat
    BY ReadsAssumption
  <1>3. PICK shown \in Seq(Row) : shown = NewestAbout(p, limit) /\ ShownAreNewest(p, limit, shown)
    BY <1>2, NewestAreShown DEF ReadsInv, ReadsTypeOK
  <1>4. /\ reader'.at = "walk" /\ reader'.pattern = p /\ reader'.limit = limit
        /\ reader'.shown = shown /\ reader'.found = <<>> /\ reader'.next = 0
        /\ reader'.parent = NoParent /\ reader'.depth = 0 /\ reader'.visited = {}
        /\ reader'.cut = FALSE
    BY <1>1, <1>3 DEF Idle
  <1>5. reader' \in Reader
    <2>1. reader' = [at |-> "walk", pattern |-> p, limit |-> limit, shown |-> shown,
                     found |-> <<>>, next |-> 0, parent |-> NoParent, depth |-> 0,
                     visited |-> {}, cut |-> FALSE, races |-> 0]
      BY <1>1, <1>3 DEF Idle
    <2>2. <<>> \in Seq(Row)
      OBVIOUS
    <2> QED BY <1>2, <2>1, <2>2 DEF Reader
  <1>6. UNCHANGED <<rows, schemas, adding, clock>>
    BY DEF Select
  <1>7. ReadsTypeOK' /\ RowsInv' /\ SchemasInv'
    BY <1>5, <1>6, TablesKept DEF ReadsInv
  <1>8. FoundInv' /\ CutInv'
    BY <1>4 DEF FoundInv, CutInv, EachOnce, ParentsOnly
  <1>9. NextInv'
    <2>1. Followed' = {}
      BY <1>4, EmptyRange DEF Followed
    <2>2. Len(shown) \in Nat
      BY <1>3
    <2> QED BY <1>4, <2>1, <2>2 DEF NextInv
  <1>10. AloneInv'
    <2>1. ShownAreNewest(p, limit, shown)'
      BY <1>3, <1>6 DEF ShownAreNewest, About, Older
    <2>2. Range(reader'.found) = {}
      BY <1>4, EmptyRange
    <2> QED BY <1>4, <2>1, <2>2 DEF AloneInv
  <1> QED BY <1>7, <1>8, <1>9, <1>10 DEF ReadsInv

\* The end of a chain: it is known whether it was cut, and what was to be
\* looked for next is behind.
LEMMA ChainEnds ==
    ASSUME ReadsInv, reader.at = "walk", Ended
    PROVE  /\ CutNow \in BOOLEAN
           /\ CutNow => Len(reader.found) >= MaxDepth
           /\ CutNow \/ \A m \in Followed : m.parent \in reader.visited \union {NoParent}
  <1>1. CutNow \in BOOLEAN
    BY DEF CutNow, ReadsInv, ReadsTypeOK, Reader
  <1>2. CutNow => Len(reader.found) >= MaxDepth
    <2>1. CASE reader.cut
      BY <2>1 DEF ReadsInv, CutInv
    <2>2. CASE reader.parent \notin reader.visited \union {NoParent}
      <3>1. reader.depth >= MaxDepth /\ reader.depth <= Len(reader.found)
        BY <2>2 DEF Ended, TooDeep, ReadsInv, CutInv
      <3>2. reader.depth \in Nat /\ Len(reader.found) \in Nat /\ MaxDepth \in Nat
        BY ReadsAssumption DEF ReadsInv, ReadsTypeOK, Reader
      <3> QED BY <3>1, <3>2
    <2> QED BY <2>1, <2>2 DEF CutNow
  <1>3. CutNow \/ \A m \in Followed : m.parent \in reader.visited \union {NoParent}
    BY DEF CutNow, ReadsInv, NextInv
  <1> QED BY <1>1, <1>2, <1>3

LEMMA NextChainKeeps ==
    ASSUME ReadsInv, NextChain
    PROVE  ReadsInv'
  <1> DEFINE first == reader.shown[reader.next + 1]
  <1>1. /\ reader.at = "walk" /\ Ended /\ reader.next < Len(reader.shown)
        /\ reader' = [reader EXCEPT !.next = @ + 1, !.depth = 0, !.cut = CutNow,
                                    !.parent = first.parent]
        /\ UNCHANGED <<rows, schemas, adding, clock>>
    BY DEF NextChain
  <1>2. reader \in Reader /\ reader.next \in Nat /\ reader.shown \in Seq(Row)
    BY DEF ReadsInv, ReadsTypeOK, Reader
  <1>3. reader.next + 1 \in 1..Len(reader.shown) /\ reader.next + 1 \in Nat
    BY <1>1, <1>2
  <1>4. first \in Row /\ first \in Range(reader.shown)
    BY <1>2, <1>3 DEF Range
  <1>5. first.parent \in Ids \union {NoParent}
    BY <1>4 DEF Row
  <1> HIDE DEF first
  <1>6. CutNow \in BOOLEAN /\ (CutNow => Len(reader.found) >= MaxDepth)
        /\ (CutNow \/ \A m \in Followed : m.parent \in reader.visited \union {NoParent})
    BY <1>1, ChainEnds
  <1>7. /\ reader'.at = "walk" /\ reader'.pattern = reader.pattern /\ reader'.limit = reader.limit
        /\ reader'.shown = reader.shown /\ reader'.found = reader.found
        /\ reader'.next = reader.next + 1 /\ reader'.parent = first.parent
        /\ reader'.depth = 0 /\ reader'.visited = reader.visited
        /\ reader'.cut = CutNow /\ reader'.races = reader.races
    BY <1>1, <1>2 DEF Reader
  <1>8. reader' \in Reader
    BY <1>1, <1>2, <1>3, <1>5, <1>6 DEF Reader
  <1>9. ReadsTypeOK' /\ RowsInv' /\ SchemasInv'
    BY <1>1, <1>8, TablesKept DEF ReadsInv
  <1>10. FoundInv'
    BY <1>7 DEF ReadsInv, FoundInv
  <1>11. CutInv'
    <2>1. Len(reader.found) \in Nat
      BY <1>2 DEF Reader
    <2> QED BY <1>6, <1>7, <2>1 DEF CutInv
  <1>12. NextInv'
    <2>1. \A m \in Followed' : m \in Followed \/ m = first
      <3>1. \A k \in 1..reader.next + 1 : k \in 1..reader.next \/ k = reader.next + 1
        BY <1>2
      <3> QED BY <1>7, <3>1 DEF Followed, first
    <2>2. \/ reader'.cut
          \/ \A m \in Followed' : \/ m.parent \in reader'.visited \union {NoParent}
                                  \/ m.parent = reader'.parent /\ reader'.at = "walk"
      BY <1>6, <1>7, <2>1
    <2>3. reader'.next <= Len(reader'.shown)
      BY <1>3, <1>7
    <2>4. \E m \in Range(reader'.shown) \union Range(reader'.found) : m.parent = reader'.parent
      BY <1>4, <1>7
    <2> QED BY <1>7, <2>2, <2>3, <2>4 DEF NextInv
  <1>13. AloneInv'
    BY <1>1, <1>7 DEF ReadsInv, AloneInv, ShownAreNewest, About, Older, Closed
  <1> QED BY <1>9, <1>10, <1>11, <1>12, <1>13 DEF ReadsInv

LEMMA AnswerKeeps ==
    ASSUME ReadsInv, Answer
    PROVE  ReadsInv'
  <1>1. /\ reader.at = "walk" /\ Ended /\ reader.next = Len(reader.shown)
        /\ reader' = [reader EXCEPT !.at = "answered", !.cut = CutNow]
        /\ UNCHANGED <<rows, schemas, adding, clock>>
    BY DEF Answer
  <1>2. reader \in Reader
    BY DEF ReadsInv, ReadsTypeOK
  <1>3. CutNow \in BOOLEAN /\ (CutNow => Len(reader.found) >= MaxDepth)
        /\ (CutNow \/ \A m \in Followed : m.parent \in reader.visited \union {NoParent})
    BY <1>1, ChainEnds
  <1>4. /\ reader'.at = "answered" /\ reader'.pattern = reader.pattern /\ reader'.limit = reader.limit
        /\ reader'.shown = reader.shown /\ reader'.found = reader.found
        /\ reader'.next = reader.next /\ reader'.parent = reader.parent
        /\ reader'.depth = reader.depth /\ reader'.visited = reader.visited
        /\ reader'.cut = CutNow /\ reader'.races = reader.races
    BY <1>1, <1>2 DEF Reader
  <1>5. reader' \in Reader
    BY <1>1, <1>2, <1>3 DEF Reader
  <1>6. ReadsTypeOK' /\ RowsInv' /\ SchemasInv'
    BY <1>1, <1>5, TablesKept DEF ReadsInv
  <1>7. FoundInv' /\ CutInv'
    BY <1>3, <1>4 DEF ReadsInv, FoundInv, CutInv
  <1>8. NextInv'
    <2>1. Followed' = Followed
      BY <1>4 DEF Followed
    <2> QED BY <1>1, <1>3, <1>4, <2>1 DEF ReadsInv, NextInv
  <1>9. AloneInv'
    BY <1>1, <1>4 DEF ReadsInv, AloneInv, ShownAreNewest, About, Older, Closed
  <1> QED BY <1>6, <1>7, <1>8, <1>9 DEF ReadsInv

LEMMA NobodyThereKeeps ==
    ASSUME ReadsInv, Follow, {m \in Range(rows) : m.id = reader.parent} = {}
    PROVE  ReadsInv'
  <1>1. /\ reader.at = "walk" /\ ~Ended
        /\ reader' = [[reader EXCEPT !.visited = @ \union {reader.parent}] EXCEPT !.parent = NoParent]
        /\ UNCHANGED <<rows, schemas, adding, clock>>
    BY DEF Follow
  <1>2. reader \in Reader /\ reader.parent \in Ids /\ reader.parent \notin reader.visited
    BY <1>1 DEF ReadsInv, ReadsTypeOK, Reader, Ended
  <1>3. /\ reader'.at = "walk" /\ reader'.pattern = reader.pattern /\ reader'.limit = reader.limit
        /\ reader'.shown = reader.shown /\ reader'.found = reader.found
        /\ reader'.next = reader.next /\ reader'.parent = NoParent
        /\ reader'.depth = reader.depth /\ reader'.visited = reader.visited \union {reader.parent}
        /\ reader'.cut = reader.cut /\ reader'.races = reader.races
    BY <1>1, <1>2 DEF Reader
  <1>4. reader' \in Reader
    <2>1. [reader EXCEPT !.visited = @ \union {reader.parent}] \in Reader
      BY <1>2 DEF Reader
    <2> QED BY <1>1, <2>1 DEF Reader
  <1>5. ReadsTypeOK' /\ RowsInv' /\ SchemasInv'
    BY <1>1, <1>4, TablesKept DEF ReadsInv
  <1>6. FoundInv' /\ CutInv'
    BY <1>3 DEF ReadsInv, FoundInv, CutInv
  <1>7. NextInv'
    <2>1. Followed' = Followed
      BY <1>3 DEF Followed
    <2> QED BY <1>1, <1>3, <2>1 DEF ReadsInv, NextInv
  <1>8. AloneInv'
    <2>1. SUFFICES ASSUME reader.races = 0 PROVE AloneInv'
      BY <1>3 DEF AloneInv
    <2>2. /\ ShownAreNewest(reader.pattern, reader.limit, reader.shown)
          /\ Range(reader.found) \subseteq Range(rows)
          /\ \A r \in Range(rows) : r.id \in reader.visited => r \in Range(reader.found)
          /\ \A A \in SUBSET Range(rows) :
               Closed(A, Range(reader.shown)) => Range(reader.found) \subseteq A
      BY <1>1, <2>1 DEF ReadsInv, AloneInv
    <2>3. \A r \in Range(rows) : r.id # reader.parent
      OBVIOUS
    <2> QED BY <1>1, <1>3, <2>2, <2>3 DEF AloneInv, ShownAreNewest, About, Older, Closed
  <1> QED BY <1>5, <1>6, <1>7, <1>8 DEF ReadsInv

\* An ancestor is found whose id nobody has been looked for under.
LEMMA FoundOnce ==
    ASSUME NEW shown \in Seq(Row), NEW found \in Seq(Row), NEW visited, NEW m \in Row,
           EachOnce(found), ParentsOnly(shown, found),
           \A k \in DOMAIN found : found[k].id \in visited,
           m.id \notin visited,
           \E p \in Range(shown) \union Range(found) : p.parent = m.id
    PROVE  /\ \A k \in DOMAIN Append(found, m) : Append(found, m)[k].id \in visited \union {m.id}
           /\ EachOnce(Append(found, m))
           /\ ParentsOnly(shown, Append(found, m))
  <1> DEFINE t == Append(found, m)   n == Len(found)
  <1>1. /\ DOMAIN t = DOMAIN found \union {n + 1}
        /\ t[n + 1] = m /\ \A k \in DOMAIN found : t[k] = found[k]
    BY AppendRange
  <1>2. DOMAIN found = 1..n /\ n \in Nat
    OBVIOUS
  <1> HIDE DEF t, n
  <1>3. \A k \in DOMAIN t : t[k].id \in visited \union {m.id}
    BY <1>1
  <1>4. EachOnce(t)
    <2>1. ASSUME NEW k \in DOMAIN t, NEW l \in DOMAIN t, t[k].id = t[l].id PROVE k = l
      BY <1>1, <2>1 DEF EachOnce
    <2> QED BY <2>1 DEF EachOnce
  <1>5. ASSUME NEW k \in DOMAIN t
        PROVE  \E p \in Range(shown) \union {t[j] : j \in 1..k - 1} : p.parent = t[k].id
    <2>1. CASE k \in DOMAIN found
      <3>1. PICK p \in Range(shown) \union {found[j] : j \in 1..k - 1} : p.parent = found[k].id
        BY <2>1 DEF ParentsOnly
      <3>2. \A j \in 1..k - 1 : j \in DOMAIN found
        BY <1>2, <2>1
      <3>3. p \in Range(shown) \union {t[j] : j \in 1..k - 1}
        BY <1>1, <3>1, <3>2
      <3> QED BY <1>1, <2>1, <3>1, <3>3
    <2>2. CASE k = n + 1
      <3>1. PICK p \in Range(shown) \union Range(found) : p.parent = m.id
        OBVIOUS
      <3>2. k - 1 = n
        BY <1>2, <2>2
      <3>3. Range(found) \subseteq {t[j] : j \in 1..k - 1}
        BY <1>1, <1>2, <3>2 DEF Range
      <3> QED BY <1>1, <2>2, <3>1, <3>3
    <2> QED BY <1>1, <2>1, <2>2
  <1>6. ParentsOnly(shown, t)
    BY <1>5 DEF ParentsOnly
  <1> QED BY <1>3, <1>4, <1>6 DEF t

LEMMA SomebodyThereKeeps ==
    ASSUME ReadsInv, Follow, {m \in Range(rows) : m.id = reader.parent} # {}
    PROVE  ReadsInv'
  <1>1. PICK m \in Range(rows) :
          /\ m.id = reader.parent /\ reader.at = "walk" /\ ~Ended
          /\ reader' = [[reader EXCEPT !.visited = @ \union {reader.parent}]
                          EXCEPT !.found = Append(@, m), !.parent = m.parent, !.depth = @ + 1]
          /\ UNCHANGED <<rows, schemas, adding, clock>>
    BY DEF Follow
  <1>2. m \in Row
    BY DEF ReadsInv, ReadsTypeOK, Range
  <1>3. /\ reader \in Reader /\ reader.parent \in Ids /\ reader.parent \notin reader.visited
        /\ reader.shown \in Seq(Row) /\ reader.found \in Seq(Row) /\ reader.depth \in Nat
        /\ m.parent \in Ids \union {NoParent}
    BY <1>1, <1>2 DEF ReadsInv, ReadsTypeOK, Reader, Ended, Row
  <1> DEFINE found == Append(reader.found, m)
             visited == reader.visited \union {reader.parent}
  <1>4. /\ found \in Seq(Row) /\ Len(found) = Len(reader.found) + 1
        /\ Range(found) = Range(reader.found) \union {m}
    BY <1>2, <1>3, AppendRange
  <1>5. /\ reader'.at = "walk" /\ reader'.pattern = reader.pattern /\ reader'.limit = reader.limit
        /\ reader'.shown = reader.shown /\ reader'.found = found
        /\ reader'.next = reader.next /\ reader'.parent = m.parent
        /\ reader'.depth = reader.depth + 1 /\ reader'.visited = visited
        /\ reader'.cut = reader.cut /\ reader'.races = reader.races
    <2>1. reader' = [at |-> "walk", pattern |-> reader.pattern, limit |-> reader.limit,
                     shown |-> reader.shown, found |-> found, next |-> reader.next,
                     parent |-> m.parent, depth |-> reader.depth + 1, visited |-> visited,
                     cut |-> reader.cut, races |-> reader.races]
      BY <1>1, <1>3 DEF Reader
    <2>2. reader.at = "walk"
      BY <1>1
    <2> HIDE DEF found, visited
    <2> QED BY <2>1, <2>2
  <1>6. reader' \in Reader
    <2>1. reader' = [at |-> "walk", pattern |-> reader.pattern, limit |-> reader.limit,
                     shown |-> reader.shown, found |-> found, next |-> reader.next,
                     parent |-> m.parent, depth |-> reader.depth + 1, visited |-> visited,
                     cut |-> reader.cut, races |-> reader.races]
      BY <1>1, <1>3 DEF Reader
    <2>2. visited \in SUBSET Ids /\ reader.depth + 1 \in Nat
      BY <1>3 DEF Reader
    <2> HIDE DEF found, visited
    <2> QED BY <1>3, <1>4, <2>1, <2>2 DEF Reader
  <1>7. ReadsTypeOK' /\ RowsInv' /\ SchemasInv'
    BY <1>1, <1>6, TablesKept DEF ReadsInv
  <1>8. \E p \in Range(reader.shown) \union Range(reader.found) : p.parent = reader.parent
    BY <1>1 DEF ReadsInv, NextInv, Ended
  <1>9. FoundInv'
    <2>1. /\ \A k \in DOMAIN found : found[k].id \in visited
          /\ EachOnce(found) /\ ParentsOnly(reader.shown, found)
      <3>1. /\ EachOnce(reader.found) /\ ParentsOnly(reader.shown, reader.found)
            /\ \A k \in DOMAIN reader.found : reader.found[k].id \in reader.visited
        BY DEF ReadsInv, FoundInv
      <3>2. m.id \notin reader.visited
            /\ \E p \in Range(reader.shown) \union Range(reader.found) : p.parent = m.id
        BY <1>1, <1>3, <1>8
      <3>3. /\ \A k \in DOMAIN Append(reader.found, m) :
                 Append(reader.found, m)[k].id \in reader.visited \union {m.id}
            /\ EachOnce(Append(reader.found, m)) /\ ParentsOnly(reader.shown, Append(reader.found, m))
        BY <1>2, <1>3, <3>1, <3>2, FoundOnce
      <3> QED BY <1>1, <3>3
    <2> HIDE DEF found, visited
    <2> QED BY <1>5, <2>1 DEF FoundInv
  <1> HIDE DEF found
  <1>10. CutInv'
    <2>1. reader.depth \in Nat /\ Len(reader.found) \in Nat /\ MaxDepth \in Nat
      BY <1>3, ReadsAssumption
    <2>2. reader.depth <= Len(reader.found) /\ (reader.cut => Len(reader.found) >= MaxDepth)
      BY DEF ReadsInv, CutInv
    <2>3. reader.depth + 1 <= Len(found) /\ (reader.cut => Len(found) >= MaxDepth)
      BY <1>4, <2>1, <2>2
    <2> QED BY <1>5, <2>3 DEF CutInv
  <1>11. NextInv'
    <2>1. Followed' = Followed \union {m}
      BY <1>4, <1>5 DEF Followed
    <2>2. m \in Range(reader'.found)
      BY <1>4, <1>5
    <2>3. reader.next <= Len(reader.shown)
          /\ (reader.cut \/ \A x \in Followed : \/ x.parent \in reader.visited \union {NoParent}
                                                \/ x.parent = reader.parent)
      BY DEF ReadsInv, NextInv
    <2>4. \/ reader'.cut
          \/ \A x \in Followed' : \/ x.parent \in reader'.visited \union {NoParent}
                                  \/ x.parent = reader'.parent /\ reader'.at = "walk"
      BY <1>5, <2>1, <2>3
    <2> QED BY <1>5, <2>2, <2>3, <2>4 DEF NextInv
  <1>12. AloneInv'
    <2>1. SUFFICES ASSUME reader.races = 0 PROVE AloneInv'
      BY <1>5 DEF AloneInv
    <2>2. /\ ShownAreNewest(reader.pattern, reader.limit, reader.shown)
          /\ Range(reader.found) \subseteq Range(rows)
          /\ \A r \in Range(rows) : r.id \in reader.visited => r \in Range(reader.found)
          /\ \A A \in SUBSET Range(rows) :
               Closed(A, Range(reader.shown)) => Range(reader.found) \subseteq A
      BY <1>1, <2>1 DEF ReadsInv, AloneInv
    <2>3. ShownAreNewest(reader.pattern, reader.limit, reader.shown)'
      BY <1>1, <1>5, <2>2 DEF ShownAreNewest, About, Older
    <2>4. \A r \in Range(rows) : r.id = reader.parent => r = m
      BY <1>1 DEF ReadsInv, RowsInv, Range
    <2>5. \A r \in Range(rows) : r.id \in visited => r \in Range(found)
      BY <1>4, <2>2, <2>4
    <2>6. ASSUME NEW A \in SUBSET Range(rows), Closed(A, Range(reader.shown))
          PROVE  Range(found) \subseteq A
      <3>1. Range(reader.found) \subseteq A
        BY <2>2, <2>6
      <3>2. PICK p \in Range(reader.shown) \union Range(reader.found) : p.parent = reader.parent
        BY <1>8
      <3>3. p \in Range(reader.shown) \union A
        BY <3>1, <3>2
      <3>4. m \in A
        BY <1>1, <2>6, <3>2, <3>3 DEF Closed
      <3> QED BY <1>4, <3>1, <3>4
    <2>7. Range(found) \subseteq Range(rows)
      BY <1>4, <2>2
    <2>8. \A A \in SUBSET Range(rows) :
            Closed(A, Range(reader.shown))' => Range(found) \subseteq A
      BY <1>1, <1>5, <2>6 DEF Closed
    <2> HIDE DEF visited
    <2> QED BY <1>1, <1>5, <2>3, <2>5, <2>7, <2>8 DEF AloneInv, Closed
  <1> QED BY <1>7, <1>9, <1>10, <1>11, <1>12 DEF ReadsInv

\* The schemas stay ordered when some are left out, or one is put in at its place.
LEMMA OnlyNewestFirst ==
    ASSUME ReadsTypeOK, SchemasInv, NEW S
    PROVE  /\ Only(schemas, S) \in Seq(Schema)
           /\ \A k, l \in DOMAIN Only(schemas, S) :
                k < l => Only(schemas, S)[k].created > Only(schemas, S)[l].created
  <1>1. schemas \in Seq(Schema)
    BY DEF ReadsTypeOK
  <1>2. Only(schemas, S) \in Seq(Schema)
    BY <1>1, OnlyIsLeft
  <1>3. ASSUME NEW k \in DOMAIN Only(schemas, S), NEW l \in DOMAIN Only(schemas, S), k < l
        PROVE  Only(schemas, S)[k].created > Only(schemas, S)[l].created
    <2>1. PICK i, j \in DOMAIN schemas :
            i < j /\ schemas[i] = Only(schemas, S)[k] /\ schemas[j] = Only(schemas, S)[l]
      BY <1>1, <1>3, OnlyInOrder
    <2> QED BY <2>1 DEF SchemasInv
  <1> QED BY <1>2, <1>3

LEMMA WithNewestFirst ==
    ASSUME NEW s \in Seq(Schema), \A k, l \in DOMAIN s : k < l => s[k].created > s[l].created,
           NEW x \in Schema, NEW i \in 1..Len(s) + 1,
           \A k \in 1..i - 1 : s[k].created > x.created,
           \A k \in i..Len(s) : s[k].created < x.created
    PROVE  /\ With(s, i, x) \in Seq(Schema)
           /\ \A k, l \in DOMAIN With(s, i, x) :
                k < l => With(s, i, x)[k].created > With(s, i, x)[l].created
  <1> DEFINE t == With(s, i, x)
  <1>1. /\ t \in Seq(Schema) /\ Len(t) = Len(s) + 1
        /\ \A k \in 1..Len(s) + 1 : t[k] = IF k < i THEN s[k] ELSE IF k = i THEN x ELSE s[k - 1]
    <2>1. ASSUME NEW A, s \in Seq(A), x \in A
          PROVE  /\ t \in Seq(A) /\ Len(t) = Len(s) + 1
                 /\ \A k \in 1..Len(s) + 1 :
                      t[k] = IF k < i THEN s[k] ELSE IF k = i THEN x ELSE s[k - 1]
      BY <2>1, WithIsSeq
    <2> QED BY <2>1
  <1> HIDE DEF t
  <1>2. DOMAIN t = 1..Len(s) + 1 /\ DOMAIN s = 1..Len(s) /\ Len(s) \in Nat
    BY <1>1
  <1>3. \A k \in DOMAIN s : s[k].created \in Nat
    <2>1. \A k \in DOMAIN s : s[k] \in Schema
      OBVIOUS
    <2> QED BY <2>1 DEF Schema
  <1>4. x.created \in Nat
    BY DEF Schema
  <1>5. ASSUME NEW k \in DOMAIN t, NEW l \in DOMAIN t, k < l PROVE t[k].created > t[l].created
    <2>0. k \in 1..Len(s) + 1 /\ l \in 1..Len(s) + 1
      BY <1>2
    <2>1. CASE l < i
      <3>1. t[k] = s[k] /\ t[l] = s[l] /\ k \in 1..Len(s) /\ l \in 1..Len(s)
        BY <1>1, <1>5, <2>0, <2>1
      <3> QED BY <1>2, <1>5, <3>1
    <2>2. CASE l = i
      <3>1. t[k] = s[k] /\ t[l] = x /\ k \in 1..i - 1
        BY <1>1, <1>5, <2>0, <2>2
      <3> QED BY <3>1
    <2>3. CASE l > i /\ k < i
      <3>1. t[k] = s[k] /\ t[l] = s[l - 1]
        BY <1>1, <2>0, <2>3
      <3>2. k \in 1..i - 1 /\ k \in DOMAIN s /\ l - 1 \in i..Len(s) /\ l - 1 \in DOMAIN s
        BY <1>2, <2>0, <2>3
      <3>3. s[k].created > x.created /\ s[l - 1].created < x.created
        BY <3>2
      <3>4. s[k].created > s[l - 1].created
        BY <1>3, <1>4, <3>2, <3>3
      <3> QED BY <3>1, <3>4
    <2>4. CASE l > i /\ k = i
      <3>1. t[k] = x /\ t[l] = s[l - 1] /\ l - 1 \in i..Len(s) /\ l - 1 \in DOMAIN s
        BY <1>1, <1>2, <2>0, <2>4
      <3>2. s[l - 1].created < x.created
        BY <3>1
      <3>3. x.created > s[l - 1].created
        BY <1>3, <1>4, <3>1, <3>2
      <3> QED BY <3>1, <3>3
    <2>5. CASE l > i /\ k > i
      <3>1. t[k] = s[k - 1] /\ t[l] = s[l - 1]
        BY <1>1, <2>0, <2>5
      <3>2. k - 1 \in DOMAIN s /\ l - 1 \in DOMAIN s /\ k - 1 < l - 1
        BY <1>2, <1>5, <2>0, <2>5
      <3> QED BY <3>1, <3>2
    <2> QED BY <2>0, <2>1, <2>2, <2>3, <2>4, <2>5
  <1> QED BY <1>1, <1>5 DEF t

LEMMA SchemaActionsKeep ==
    ASSUME ReadsInv, AddSchema \/ InsertSchema \/ SetSchemaStatus \/ RemoveSchema
    PROVE  ReadsInv'
  <1>1. UNCHANGED <<rows, reader>>
    BY DEF AddSchema, InsertSchema, SetSchemaStatus, RemoveSchema
  <1>2. RowsInv' /\ FoundInv' /\ CutInv' /\ NextInv' /\ AloneInv'
    BY <1>1, MessagesKept DEF ReadsInv
  <1>3. CASE AddSchema
    <2>1. clock \in Nat /\ clock' = clock + 1 /\ schemas' = schemas
      BY <1>3 DEF AddSchema, ReadsInv, ReadsTypeOK
    <2>2. PICK p \in Patterns, v \in Versions :
            adding' = adding \union {[pattern |-> p, version |-> v, created |-> clock]}
      BY <1>3 DEF AddSchema
    <2>3. ReadsTypeOK'
      BY <1>1, <2>1, <2>2 DEF ReadsInv, ReadsTypeOK
    <2>4. SchemasInv'
      BY <2>1 DEF ReadsInv, SchemasInv
    <2> QED BY <1>2, <2>3, <2>4 DEF ReadsInv
  <1>4. CASE InsertSchema
    <2>1. PICK a \in adding :
            LET others == Without(a.pattern, a.version)
                row == [pattern |-> a.pattern, version |-> a.version, status |-> "active",
                        created |-> a.created]
            IN  /\ \E i \in 1..Len(others) + 1 :
                     /\ \A k \in 1..i - 1 : others[k].created > a.created
                     /\ \A k \in i..Len(others) : others[k].created < a.created
                     /\ schemas' = With(others, i, row)
                /\ adding' = adding \ {a}
      BY <1>4 DEF InsertSchema
    <2> DEFINE others == Without(a.pattern, a.version)
               row == [pattern |-> a.pattern, version |-> a.version, status |-> "active",
                       created |-> a.created]
    <2>2. PICK i \in 1..Len(others) + 1 :
            /\ \A k \in 1..i - 1 : others[k].created > row.created
            /\ \A k \in i..Len(others) : others[k].created < row.created
            /\ schemas' = With(others, i, row)
      BY <2>1
    <2>3. row \in Schema
      BY DEF ReadsInv, ReadsTypeOK, Schema
    <2>4. /\ others \in Seq(Schema)
          /\ \A k, l \in DOMAIN others : k < l => others[k].created > others[l].created
      BY OnlyNewestFirst DEF ReadsInv, Without
    <2>5. adding' \subseteq adding
      BY <2>1
    <2> HIDE DEF others, row
    <2>6. schemas' \in Seq(Schema) /\ SchemasInv'
      BY <2>2, <2>3, <2>4, WithNewestFirst DEF SchemasInv
    <2>7. clock' = clock
      BY <1>4 DEF InsertSchema
    <2>8. ReadsTypeOK'
      BY <1>1, <2>5, <2>6, <2>7 DEF ReadsInv, ReadsTypeOK
    <2> QED BY <1>2, <2>6, <2>8 DEF ReadsInv
  <1>5. CASE SetSchemaStatus
    <2>1. PICK i \in DOMAIN schemas, status \in {"active", "paused"} :
            schemas' = [schemas EXCEPT ![i].status = status]
      BY <1>5 DEF SetSchemaStatus
    <2> DEFINE s == [schemas[i] EXCEPT !.status = status]
    <2>2. schemas \in Seq(Schema) /\ schemas[i] \in Schema /\ i \in 1..Len(schemas)
      BY DEF ReadsInv, ReadsTypeOK
    <2>3. s \in Schema /\ s.created = schemas[i].created
      BY <2>2 DEF Schema
    <2>4. schemas' = [schemas EXCEPT ![i] = s]
      BY <2>1
    <2> HIDE DEF s
    <2>5. schemas' \in Seq(Schema) /\ DOMAIN schemas' = DOMAIN schemas
      BY <2>2, <2>3, <2>4
    <2>6. \A k \in DOMAIN schemas : schemas'[k].created = schemas[k].created
      BY <2>2, <2>3, <2>4
    <2>7. SchemasInv'
      BY <2>5, <2>6 DEF ReadsInv, SchemasInv
    <2>8. UNCHANGED <<adding, clock>>
      BY <1>5 DEF SetSchemaStatus
    <2>9. ReadsTypeOK'
      BY <1>1, <2>5, <2>8 DEF ReadsInv, ReadsTypeOK
    <2> QED BY <1>2, <2>7, <2>9 DEF ReadsInv
  <1>6. CASE RemoveSchema
    <2>1. PICK S : schemas' = Only(schemas, S)
      BY <1>6 DEF RemoveSchema, Without
    <2>2. schemas' \in Seq(Schema) /\ SchemasInv'
      BY <2>1, OnlyNewestFirst DEF ReadsInv, SchemasInv
    <2>3. UNCHANGED <<adding, clock>>
      BY <1>6 DEF RemoveSchema
    <2>4. ReadsTypeOK'
      BY <1>1, <2>2, <2>3 DEF ReadsInv, ReadsTypeOK
    <2> QED BY <1>2, <2>2, <2>4 DEF ReadsInv
  <1> QED BY <1>3, <1>4, <1>5, <1>6

LEMMA ReadsInvKept == ReadsInv /\ [ReadsNext]_readVars => ReadsInv'
  <1> SUFFICES ASSUME ReadsInv, [ReadsNext]_readVars PROVE ReadsInv'
    OBVIOUS
  <1>1. CASE UNCHANGED readVars
    <2>1. UNCHANGED <<rows, reader>> /\ UNCHANGED <<schemas, adding, clock>>
      BY <1>1 DEF readVars
    <2>2. RowsInv' /\ FoundInv' /\ CutInv' /\ NextInv' /\ AloneInv'
      BY <2>1, MessagesKept DEF ReadsInv
    <2>3. ReadsTypeOK' /\ SchemasInv'
      BY <2>1 DEF ReadsInv, ReadsTypeOK, SchemasInv
    <2> QED BY <2>2, <2>3 DEF ReadsInv
  <1>2. CASE Store
    BY <1>2, StoreKeeps
  <1>3. CASE DeleteBefore
    BY <1>3, DeleteBeforeKeeps
  <1>4. CASE Select
    BY <1>4, SelectKeeps
  <1>5. CASE NextChain
    BY <1>5, NextChainKeeps
  <1>6. CASE Follow
    BY <1>6, NobodyThereKeeps, SomebodyThereKeeps
  <1>7. CASE Answer
    BY <1>7, AnswerKeeps
  <1>8. CASE AddSchema \/ InsertSchema \/ SetSchemaStatus \/ RemoveSchema
    BY <1>8, SchemaActionsKeep
  <1> QED BY <1>1, <1>2, <1>3, <1>4, <1>5, <1>6, <1>7, <1>8 DEF ReadsNext

LEMMA ReadsStart == ReadsInit => ReadsInv
  <1> SUFFICES ASSUME ReadsInit PROVE ReadsInv
    OBVIOUS
  <1>1. /\ rows = <<>> /\ schemas = <<>> /\ adding = {} /\ clock = 0 /\ reader = Idle
    BY DEF ReadsInit
  <1>2. Idle \in Reader
    BY DEF Idle, Reader
  <1>3. ReadsTypeOK /\ RowsInv /\ SchemasInv
    BY <1>1, <1>2 DEF ReadsTypeOK, RowsInv, SchemasInv
  <1>4. /\ reader.at = "idle" /\ reader.shown = <<>> /\ reader.found = <<>>
        /\ reader.next = 0 /\ reader.parent = NoParent
        /\ reader.depth = 0 /\ reader.visited = {} /\ reader.cut = FALSE
    BY <1>1 DEF Idle
  <1>5. FoundInv /\ CutInv /\ NextInv /\ AloneInv
    BY <1>4, EmptyRange DEF FoundInv, CutInv, NextInv, AloneInv, Followed, EachOnce, ParentsOnly
  <1> QED BY <1>3, <1>5 DEF ReadsInv

LEMMA ContextRight == ReadsInv => ContextIsExact
  <1> SUFFICES ASSUME ReadsInv, reader.at = "answered" PROVE ContextIsExact
    BY DEF ContextIsExact
  <1> DEFINE shown == reader.shown   found == reader.found
  <1>1. /\ EachOnce(found) /\ ParentsOnly(shown, found)
        /\ reader.cut => Len(found) >= MaxDepth
    BY DEF ReadsInv, FoundInv, CutInv
  <1>2. ASSUME reader.races = 0
        PROVE  /\ ShownAreNewest(reader.pattern, reader.limit, shown)
               /\ \A A \in SUBSET Range(rows) : Closed(A, Range(shown)) => Range(found) \subseteq A
               /\ Range(found) \subseteq Range(rows)
               /\ reader.cut \/ Closed(Range(found), Range(shown))
    <2>1. /\ ShownAreNewest(reader.pattern, reader.limit, shown)
          /\ Range(found) \subseteq Range(rows)
          /\ \A r \in Range(rows) : r.id \in reader.visited => r \in Range(found)
          /\ \A A \in SUBSET Range(rows) : Closed(A, Range(shown)) => Range(found) \subseteq A
      BY <1>2 DEF ReadsInv, AloneInv
    <2>2. ASSUME ~reader.cut, NEW m \in Range(shown) \union Range(found),
                 NEW r \in Range(rows), r.id = m.parent
          PROVE  r \in Range(found)
      <3>1. reader.next = Len(shown) /\ DOMAIN shown = 1..Len(shown)
        BY DEF ReadsInv, NextInv, ReadsTypeOK, Reader
      <3>2. m \in Followed
        BY <3>1 DEF Followed, Range
      <3>3. m.parent \in reader.visited \union {NoParent}
        BY <2>2, <3>2 DEF ReadsInv, NextInv
      <3>4. r \in Row
        BY DEF ReadsInv, ReadsTypeOK, Range
      <3>5. r.id # NoParent
        BY <3>4, ReadsAssumption DEF Row
      <3> QED BY <2>1, <2>2, <3>3, <3>5
    <2> QED BY <2>1, <2>2 DEF Closed
  <1> QED BY <1>1, <1>2 DEF ContextIsExact

LEMMA SchemasRight == ReadsInv => SchemasAreCurrent
  <1> SUFFICES ASSUME ReadsInv, NEW t \in Stored, NEW version \in Versions \union {AnyVersion}
               PROVE  LET active == ActiveFor(t)
                          meant == {s \in active : version \in {s.version, AnyVersion}}
                          chosen == SchemaFor(t, version)
                      IN CASE active = {} -> chosen = Unchecked
                           [] active # {} /\ meant = {} -> chosen = Refused
                           [] OTHER -> chosen \in meant /\ \A s \in meant : s.created <= chosen.created
    BY DEF SchemasAreCurrent
  <1> DEFINE active == ActiveFor(t)
             meant == {s \in active : version \in {s.version, AnyVersion}}
             matched == Only(schemas, active)
             named == Only(matched, {s \in Range(matched) : version \in {s.version, AnyVersion}})
             chosen == SchemaFor(t, version)
  <1>1. /\ matched \in Seq(Schema)
        /\ \A k, l \in DOMAIN matched : k < l => matched[k].created > matched[l].created
    BY OnlyNewestFirst DEF ReadsInv
  <1>2. Range(matched) = active
    <2>1. Range(matched) = Range(schemas) \intersect active
      BY OnlyOfRange DEF ReadsInv, ReadsTypeOK
    <2> QED BY <2>1 DEF ActiveFor
  <1> HIDE DEF active, matched
  <1>3. named \in Seq(Schema) /\ Range(named) = meant
    <2>1. /\ named \in Seq(Schema)
          /\ Range(named) = Range(matched) \intersect
                {s \in Range(matched) : version \in {s.version, AnyVersion}}
      BY <1>1, OnlyOfRange
    <2> HIDE DEF named
    <2> QED BY <1>2, <2>1
  <1>4. ASSUME NEW k \in DOMAIN named, NEW l \in DOMAIN named, k < l
        PROVE  named[k].created > named[l].created
    <2>1. PICK i, j \in DOMAIN matched : i < j /\ matched[i] = named[k] /\ matched[j] = named[l]
      <3> DEFINE S == {s \in Range(matched) : version \in {s.version, AnyVersion}}
      <3>1. ASSUME NEW x \in DOMAIN Only(matched, S), NEW y \in DOMAIN Only(matched, S), x < y
            PROVE  \E i, j \in DOMAIN matched : /\ i < j /\ matched[i] = Only(matched, S)[x]
                                                /\ matched[j] = Only(matched, S)[y]
        <4> HIDE DEF S, named
        <4> QED BY <1>1, <3>1, OnlyInOrder
      <3>2. named = Only(matched, S)
        OBVIOUS
      <3> HIDE DEF S, named
      <3> QED BY <1>4, <3>1, <3>2
    <2> HIDE DEF named
    <2> QED BY <1>1, <2>1
  <1>5. /\ matched = <<>> => chosen = Unchecked
        /\ matched # <<>> /\ named = <<>> => chosen = Refused
        /\ matched # <<>> /\ named # <<>> => chosen = Head(named)
    BY DEF SchemaFor, matched, active
  <1> HIDE DEF named, meant, chosen
  <1>6. (matched = <<>> <=> active = {}) /\ (named = <<>> <=> meant = {})
    <2>1. matched # <<>> => matched[1] \in active
      BY <1>1, <1>2 DEF Range
    <2>2. named # <<>> => named[1] \in meant
      BY <1>3 DEF Range
    <2> QED BY <1>2, <1>3, <2>1, <2>2, EmptyRange
  <1>7. ASSUME active # {}, meant # {}
        PROVE  chosen \in meant /\ \A s \in meant : s.created <= chosen.created
    <2>1. chosen = named[1] /\ 1 \in DOMAIN named
      BY <1>3, <1>5, <1>6, <1>7
    <2>2. chosen \in meant
      BY <1>3, <2>1 DEF Range
    <2>3. ASSUME NEW s \in meant PROVE s.created <= chosen.created
      <3>1. PICK k \in DOMAIN named : s = named[k]
        BY <1>3 DEF Range
      <3>2. k \in Nat /\ named[k] \in Schema /\ named[1] \in Schema /\ (k = 1 \/ 1 < k)
        BY <1>3, <2>1
      <3>3. named[k].created \in Nat /\ named[1].created \in Nat
        BY <3>2 DEF Schema
      <3>4. k # 1 => named[1].created > named[k].created
        BY <1>4, <2>1, <3>2
      <3>5. CASE k = 1
        BY <2>1, <3>1, <3>3, <3>5
      <3>6. CASE k # 1
        <4>1. named[k].created <= named[1].created
          BY <3>3, <3>4, <3>6
        <4> QED BY <2>1, <3>1, <4>1
      <3> QED BY <3>5, <3>6
    <2> QED BY <2>2, <2>3
  <1>8. /\ active = {} => chosen = Unchecked
        /\ active # {} /\ meant = {} => chosen = Refused
    BY <1>5, <1>6
  <1> QED BY <1>7, <1>8 DEF active, meant, chosen

(***************************************************************************)
(* A context has each ancestor once, is made of ancestors only, and of all *)
(* of them unless a chain got too long, when nobody wrote in between; a    *)
(* message is held against the schema that was created last: whatever was  *)
(* stored, purged, added, paused or removed, and in whatever order.        *)
(***************************************************************************)
THEOREM ReadBackRightly == ReadsSpec => []ReadsAreExact
  <1>1. ReadsInv => ReadsAreExact
    BY ContextRight, SchemasRight DEF ReadsAreExact
  <1> QED BY ReadsStart, ReadsInvKept, <1>1, PTL DEF ReadsSpec

----------------------------------------------------------------------------
(***************************************************************************)
(* Mentions (module Mentions), in every text, whatever agents, people and  *)
(* topics are called.  First: what trim leaves, what stands in brackets    *)
(* and what stands bare, without CHOOSE.                                   *)
(***************************************************************************)
IsFirst(i, S) == i \in S /\ \A j \in S : i <= j
IsLast(i, S) == i \in S /\ \A j \in S : j <= i

LEMMA FirstAndLast ==
    ASSUME NEW n \in Nat, NEW S \in SUBSET (0..n), S # {}
    PROVE  (\E i : IsFirst(i, S)) /\ (\E i : IsLast(i, S))
  <1> DEFINE Done == {m \in Nat : \A T \in SUBSET (0..m) :
                        T # {} => (\E i : IsFirst(i, T)) /\ (\E i : IsLast(i, T))}
  <1>1. 0 \in Done
    <2>1. ASSUME NEW T \in SUBSET (0..0), T # {} PROVE IsFirst(0, T) /\ IsLast(0, T)
      <3>1. T = {0}
        <4>1. 0..0 = {0}
          OBVIOUS
        <4> QED BY <2>1, <4>1
      <3> QED BY <3>1 DEF IsFirst, IsLast
    <2> QED BY <2>1
  <1>2. ASSUME NEW m \in Nat, m \in Done PROVE m + 1 \in Done
    <2>1. SUFFICES ASSUME NEW T \in SUBSET (0..m + 1), T # {}
                   PROVE  (\E i : IsFirst(i, T)) /\ (\E i : IsLast(i, T))
      OBVIOUS
    <2> DEFINE U == T \ {m + 1}
    <2>2. U \in SUBSET (0..m)
      OBVIOUS
    <2>3. CASE U = {}
      <3>1. T = {m + 1}
        BY <2>1, <2>3
      <3>2. IsFirst(m + 1, T) /\ IsLast(m + 1, T)
        BY <3>1 DEF IsFirst, IsLast
      <3> QED BY <3>2
    <2>4. CASE U # {}
      <3>1. PICK i, j : IsFirst(i, U) /\ IsLast(j, U)
        <4> HIDE DEF U
        <4> QED BY <1>2, <2>2, <2>4
      <3>2. IsFirst(i, T)
        BY <2>2, <3>1 DEF IsFirst
      <3>3. CASE m + 1 \in T
        <4>1. IsLast(m + 1, T)
          BY <3>3 DEF IsLast
        <4> QED BY <3>2, <4>1
      <3>4. CASE m + 1 \notin T
        <4>1. U = T
          BY <3>4
        <4> QED BY <3>1, <3>2, <4>1
      <3> QED BY <3>3, <3>4
    <2> QED BY <2>3, <2>4
  <1>3. \A m \in Nat : m \in Done
    <2> HIDE DEF Done
    <2> QED BY <1>1, <1>2, NatSetInduction
  <1>4. n \in Done
    BY <1>3
  <1> QED BY <1>4

\* The name stands at k in s, and there is nothing but blanks around it.
Alone(name, s, k) ==
    /\ k \in 1..Len(s) + 1 /\ k + Len(name) <= Len(s) + 1
    /\ SubSeq(s, k, k + Len(name) - 1) = name
    /\ Ink(s) \subseteq k..k + Len(name) - 1
NoBlankEnds(name) == name # <<>> => {1, Len(name)} \subseteq Ink(name)

LEMMA Stretch ==
    ASSUME NEW C, NEW s \in Seq(C), NEW a \in 1..Len(s), NEW b \in a..Len(s)
    PROVE  /\ SubSeq(s, a, b) \in Seq(C) /\ Len(SubSeq(s, a, b)) = b - a + 1
           /\ \A i \in 1..b - a + 1 : SubSeq(s, a, b)[i] = s[a + i - 1]
           /\ SubSeq(s, a, b)[1] = s[a] /\ SubSeq(s, a, b)[b - a + 1] = s[b]
  <1> DEFINE t == SubSeq(s, a, b)
  <1>1. /\ t \in Seq(C) /\ Len(t) = IF a <= b THEN b - a + 1 ELSE 0
        /\ \A i \in 1..b - a + 1 : t[i] = s[a + i - 1]
    <2>1. \A i \in a..b : s[i] \in C
      OBVIOUS
    <2> QED BY <2>1, SubSeqProperties
  <1> HIDE DEF t
  <1>2. 1 \in 1..b - a + 1 /\ a + 1 - 1 = a /\ b - a + 1 \in 1..b - a + 1 /\ a + (b - a + 1) - 1 = b
    OBVIOUS
  <1>3. t[1] = s[a] /\ t[b - a + 1] = s[b]
    BY <1>1, <1>2
  <1> QED BY <1>1, <1>3 DEF t

\* A stretch with ink at both its ends is all the ink there is.
LEMMA InkOfStretch ==
    ASSUME NEW C, NEW s \in Seq(C), NEW a \in 1..Len(s), NEW b \in a..Len(s)
    PROVE  NoBlankEnds(SubSeq(s, a, b)) <=> a \in Ink(s) /\ b \in Ink(s)
  <1> DEFINE t == SubSeq(s, a, b)
  <1>1. t \in Seq(C) /\ Len(t) = b - a + 1 /\ t[1] = s[a] /\ t[Len(t)] = s[b]
    BY Stretch
  <1> HIDE DEF t
  <1>2. t # <<>> /\ 1 \in DOMAIN t /\ Len(t) \in DOMAIN t /\ a \in DOMAIN s /\ b \in DOMAIN s
    BY <1>1
  <1>3. (1 \in Ink(t) <=> a \in Ink(s)) /\ (Len(t) \in Ink(t) <=> b \in Ink(s))
    BY <1>1, <1>2 DEF Ink
  <1>4. NoBlankEnds(t) <=> a \in Ink(s) /\ b \in Ink(s)
    BY <1>2, <1>3 DEF NoBlankEnds
  <1> QED BY <1>4 DEF t

LEMMA TrimIs ==
    ASSUME NEW C, NEW s \in Seq(C), NEW name \in Seq(C)
    PROVE  name = Trim(s) <=> NoBlankEnds(name) /\ \E k : Alone(name, s, k)
  <1> DEFINE n == Len(s)   l == Len(name)   ink == Ink(s)
  <1>1. n \in Nat /\ l \in Nat /\ ink \subseteq 1..n /\ (name = <<>> <=> l = 0)
    <2>1. n \in Nat /\ l \in Nat /\ DOMAIN s = 1..n
      OBVIOUS
    <2>2. ink \subseteq 1..n
      BY <2>1 DEF Ink
    <2>3. name = <<>> <=> l = 0
      BY EmptySeq
    <2> QED BY <2>1, <2>2, <2>3
  <1>2. CASE ink = {}
    <2>1. Trim(s) = <<>>
      BY <1>2 DEF Trim
    <2>2. ASSUME name = <<>> PROVE NoBlankEnds(name) /\ Alone(name, s, 1)
      <3>1. Len(name) = 0 /\ SubSeq(s, 1, 1 + 0 - 1) = <<>>
        BY <2>2
      <3>2. SubSeq(s, 1, 1 + Len(name) - 1) = <<>>
        BY <3>1
      <3> HIDE DEF ink
      <3>3. 1 \in 1..Len(s) + 1 /\ 1 + Len(name) <= Len(s) + 1 /\ Ink(s) = {}
        BY <1>2, <3>1 DEF ink
      <3> QED BY <2>2, <3>2, <3>3 DEF NoBlankEnds, Alone
    <2>3. ASSUME name # <<>>, NoBlankEnds(name), NEW k, Alone(name, s, k) PROVE FALSE
      <3>1. Len(name) > 0 /\ k \in 1..Len(s) + 1 /\ k + Len(name) <= Len(s) + 1
            /\ SubSeq(s, k, k + Len(name) - 1) = name
        BY <1>1, <2>3 DEF Alone
      <3>2. k \in 1..Len(s) /\ k + Len(name) - 1 \in k..Len(s)
        BY <3>1
      <3>3. k \in Ink(s)
        BY <2>3, <3>1, <3>2, InkOfStretch
      <3> QED BY <1>2, <3>3
    <2> QED BY <2>1, <2>2, <2>3
  <1>3. CASE ink # {}
    <2> DEFINE first == CHOOSE i \in ink : \A j \in ink : i <= j
               last == CHOOSE i \in ink : \A j \in ink : j <= i
               t == SubSeq(s, first, last)
    <2>1. Trim(s) = t
      BY <1>3 DEF Trim
    <2>2. IsFirst(first, ink) /\ IsLast(last, ink)
      <3>1. ink \in SUBSET (0..n)
        BY <1>1
      <3>2. (\E i : IsFirst(i, ink)) /\ (\E i : IsLast(i, ink))
        <4> HIDE DEF ink, n
        <4> QED BY <1>1, <1>3, <3>1, FirstAndLast
      <3> HIDE DEF ink
      <3> QED BY <3>2 DEF IsFirst, IsLast
    <2> HIDE DEF first, last
    <2>3. first \in ink /\ last \in ink /\ \A j \in ink : first <= j /\ j <= last
      <3> HIDE DEF ink
      <3> QED BY <2>2 DEF IsFirst, IsLast
    <2>4. first \in 1..Len(s) /\ last \in first..Len(s)
      <3> HIDE DEF ink
      <3> QED BY <1>1, <2>3
    <2>5. t \in Seq(C) /\ Len(t) = last - first + 1
      BY <2>4, Stretch
    <2>6. ASSUME name = t PROVE NoBlankEnds(name) /\ Alone(name, s, first)
      <3>1. NoBlankEnds(name)
        BY <2>3, <2>4, <2>6, InkOfStretch
      <3>2. Len(name) = last - first + 1
        BY <2>5, <2>6
      <3>3. first + Len(name) - 1 = last
        BY <2>4, <3>2
      <3>4. first \in 1..Len(s) + 1 /\ first + Len(name) <= Len(s) + 1
        BY <2>4, <3>2
      <3>5. ink \subseteq first..last
        <4> HIDE DEF ink
        <4> QED BY <1>1, <2>3, <2>4
      <3> QED BY <2>6, <3>1, <3>3, <3>4, <3>5 DEF Alone
    <2>7. ASSUME NoBlankEnds(name), NEW k, Alone(name, s, k) PROVE name = t
      <3> DEFINE e == k + Len(name) - 1
      <3>1. k \in 1..Len(s) + 1 /\ k + Len(name) <= Len(s) + 1 /\ SubSeq(s, k, e) = name
            /\ ink \subseteq k..e
        BY <2>7 DEF Alone
      <3>2. first \in k..e /\ last \in k..e
        BY <2>3, <3>1
      <3>3. k \in 1..Len(s) /\ e \in k..Len(s)
        BY <2>4, <3>1, <3>2
      <3> HIDE DEF e, ink
      <3>4. k \in Ink(s) /\ e \in Ink(s)
        BY <2>7, <3>1, <3>3, InkOfStretch
      <3>5. first <= k /\ e <= last
        BY <2>3, <3>4 DEF ink
      <3>6. first = k /\ last = e
        BY <2>4, <3>2, <3>3, <3>5
      <3> QED BY <3>1, <3>6
    <2> QED BY <2>1, <2>6, <2>7
  <1> QED BY <1>2, <1>3

LEMMA StretchOfStretch ==
    ASSUME NEW C, NEW s \in Seq(C), NEW a \in 1..Len(s) + 1, NEW b \in a - 1..Len(s),
           NEW k \in 1..b - a + 2, NEW l \in Nat, k + l <= b - a + 2
    PROVE  SubSeq(SubSeq(s, a, b), k, k + l - 1) = SubSeq(s, a + k - 1, a + k - 1 + l - 1)
  <1> DEFINE t == SubSeq(s, a, b)
             u == SubSeq(t, k, k + l - 1)
             v == SubSeq(s, a + k - 1, a + k - 1 + l - 1)
  <1>1. /\ t \in Seq(C) /\ \A i \in 1..b - a + 1 : t[i] = s[a + i - 1] /\ t[i] \in C
    <2>1. \A i \in a..b : s[i] \in C
      OBVIOUS
    <2>2. /\ t \in Seq(C) /\ \A i \in 1..b - a + 1 : t[i] = s[a + i - 1]
      BY <2>1, SubSeqProperties
    <2>3. \A i \in 1..b - a + 1 : a + i - 1 \in a..b
      OBVIOUS
    <2> HIDE DEF t
    <2> QED BY <2>1, <2>2, <2>3
  <1> HIDE DEF t
  <1>2. \A i \in k..k + l - 1 : i \in 1..b - a + 1 /\ a + i - 1 \in 1..Len(s)
    OBVIOUS
  <1>3. /\ u \in Seq(C) /\ Len(u) = IF k <= k + l - 1 THEN (k + l - 1) - k + 1 ELSE 0
        /\ \A i \in 1..(k + l - 1) - k + 1 : u[i] = t[k + i - 1]
    <2>1. \A i \in k..k + l - 1 : t[i] \in C
      BY <1>1, <1>2
    <2> QED BY <2>1, SubSeqProperties
  <1>4. /\ v \in Seq(C)
        /\ Len(v) = IF a + k - 1 <= a + k - 1 + l - 1 THEN (a + k - 1 + l - 1) - (a + k - 1) + 1 ELSE 0
        /\ \A i \in 1..(a + k - 1 + l - 1) - (a + k - 1) + 1 : v[i] = s[a + k - 1 + i - 1]
    <2>1. \A i \in a + k - 1..a + k - 1 + l - 1 : i \in 1..Len(s)
      OBVIOUS
    <2>2. \A i \in a + k - 1..a + k - 1 + l - 1 : s[i] \in C
      BY <2>1
    <2> QED BY <2>2, SubSeqProperties
  <1> HIDE DEF u, v
  <1>5. Len(u) = l /\ Len(v) = l
    BY <1>3, <1>4
  <1>6. ASSUME NEW i \in 1..l PROVE u[i] = v[i]
    <2>1. /\ i \in 1..(k + l - 1) - k + 1 /\ i \in 1..(a + k - 1 + l - 1) - (a + k - 1) + 1
          /\ k + i - 1 \in k..k + l - 1 /\ a + (k + i - 1) - 1 = a + k - 1 + i - 1
      OBVIOUS
    <2>2. u[i] = t[k + i - 1] /\ v[i] = s[a + k - 1 + i - 1]
      BY <1>3, <1>4, <2>1
    <2>3. k + i - 1 \in 1..b - a + 1
      BY <1>2, <2>1
    <2>4. t[k + i - 1] = s[a + (k + i - 1) - 1]
      BY <1>1, <2>3
    <2> QED BY <2>1, <2>2, <2>4
  <1>7. u = v
    BY <1>3, <1>4, <1>5, <1>6, SeqEqual
  <1> QED BY <1>7 DEF u, v, t

Ends(i) == {j \in i + 2..Len(body) : body[j] = "]"}

LEMMA InBracketsIs ==
    ASSUME body \in Seq(Characters), NEW i \in 1..Len(body), NEW name \in Seq(Characters),
           NEW next \in i + 1..Len(body) + 1
    PROVE  InBrackets(name, i, next) <=>
             /\ body[i + 1] = "[" /\ IsFirst(next - 1, Ends(i))
             /\ name = Trim(SubSeq(body, i + 2, next - 1 - 1))
  <1> DEFINE ends == Ends(i)   l == Len(name)   ink == Ink(body)
             Around(k) == /\ k + l <= next - 1 /\ SubSeq(body, k, k + l - 1) = name
                          /\ \A j \in ink : j \in i + 2..next - 2 => j \in k..k + l - 1
  <1>1. /\ Len(body) \in Nat /\ l \in Nat /\ ends \subseteq i + 2..Len(body)
        /\ \A j \in i + 2..Len(body) : j \in ends <=> body[j] = "]"
    BY DEF Ends
  <1>2. /\ ink \subseteq 1..Len(body)
        /\ \A j \in 1..Len(body) : j \in ink <=> body[j] # " "
    <2>1. DOMAIN body = 1..Len(body)
      OBVIOUS
    <2> QED BY <2>1 DEF Ink
  <1>3. (next > i + 2 /\ body[next - 1] = "]" /\ \A j \in i + 2..next - 2 : body[j] # "]")
           <=> IsFirst(next - 1, ends)
    <2>1. next > i + 2 => next - 1 \in i + 2..Len(body)
      OBVIOUS
    <2>2. \A j \in i + 2..next - 2 : j \in i + 2..Len(body)
      OBVIOUS
    <2>3. (next > i + 2 /\ body[next - 1] = "]" /\ \A j \in i + 2..next - 2 : body[j] # "]")
             <=> (next > i + 2 /\ next - 1 \in ends /\ \A j \in i + 2..next - 2 : j \notin ends)
      <3> HIDE DEF ends
      <3> QED BY <1>1, <2>1, <2>2
    <2>4. (next > i + 2 /\ next - 1 \in ends /\ \A j \in i + 2..next - 2 : j \notin ends)
             <=> (next - 1 \in ends /\ \A j \in ends : next - 1 <= j)
      <3>1. ends \subseteq i + 2..Len(body) /\ Len(body) \in Nat
        BY <1>1
      <3> HIDE DEF ends, Around, l, ink
      <3> QED BY <3>1
    <2> QED BY <2>3, <2>4 DEF IsFirst
  <1>4. NoBlankEnds(name) <=> (name # <<>> => name[1] # " " /\ name[Len(name)] # " ")
    <2>1. name # <<>> => 1 \in DOMAIN name /\ Len(name) \in DOMAIN name
      BY EmptySeq
    <2> QED BY <2>1 DEF NoBlankEnds, Ink
  <1>5. ASSUME NEW k \in i + 2..next - 1
        PROVE  Around(k) <=> /\ k + l <= next - 1 /\ SubSeq(body, k, k + l - 1) = name
                             /\ \A j \in i + 2..next - 2 : j \notin k..k + l - 1 => body[j] = " "
    <2>1. \A j \in i + 2..next - 2 : j \in 1..Len(body)
      OBVIOUS
    <2>2. \A j \in i + 2..next - 2 : j \in ink <=> body[j] # " "
      BY <1>2, <2>1
    <2> HIDE DEF ink, ends
    <2> QED BY <2>2
  <1>6. InBrackets(name, i, next) <=>
          /\ body[i + 1] = "[" /\ IsFirst(next - 1, ends) /\ NoBlankEnds(name)
          /\ \E k \in i + 2..next - 1 : Around(k)
    <2> HIDE DEF ends, Around
    <2> QED BY <1>3, <1>4, <1>5 DEF InBrackets
  <1>7. ASSUME IsFirst(next - 1, ends)
        PROVE  (\E k \in i + 2..next - 1 : Around(k)) <=>
                 \E k : Alone(name, SubSeq(body, i + 2, next - 1 - 1), k)
    <2> DEFINE s == SubSeq(body, i + 2, next - 1 - 1)
    <2>1. next - 1 \in i + 2..Len(body)
      <3> HIDE DEF ends
      <3> QED BY <1>1, <1>7 DEF IsFirst
    <2> HIDE DEF ends
    <2>2. /\ s \in Seq(Characters) /\ Len(s) = next - 1 - i - 2
          /\ \A j \in 1..next - 1 - i - 2 : s[j] = body[i + 1 + j]
      <3>1. \A j \in i + 2..next - 1 - 1 : body[j] \in Characters
        BY <2>1
      <3>2. /\ s \in Seq(Characters)
            /\ Len(s) = IF i + 2 <= next - 1 - 1 THEN next - 1 - 1 - (i + 2) + 1 ELSE 0
            /\ \A j \in 1..next - 1 - 1 - (i + 2) + 1 : s[j] = body[i + 2 + j - 1]
        BY <1>1, <2>1, <3>1, SubSeqProperties
      <3>3. next - 1 - 1 - (i + 2) + 1 = next - 1 - i - 2
            /\ \A j \in 1..next - 1 - i - 2 : i + 2 + j - 1 = i + 1 + j
        BY <2>1
      <3>4. Len(s) = next - 1 - i - 2
        <4> HIDE DEF s
        <4> QED BY <1>1, <2>1, <3>2
      <3> HIDE DEF s
      <3> QED BY <3>2, <3>3, <3>4
    <2>3. \A j \in 1..Len(s) : j \in Ink(s) <=> i + 1 + j \in ink
      <3>0. DOMAIN s = 1..Len(s)
        <4>1. s \in Seq(Characters)
          BY <2>2
        <4> HIDE DEF s
        <4> QED BY <4>1
      <3>1. \A j \in 1..Len(s) : i + 1 + j \in 1..Len(body) /\ j \in DOMAIN s
        <4> HIDE DEF s, ink
        <4> QED BY <2>1, <2>2, <3>0
      <3>2. \A j \in 1..Len(s) : s[j] = body[i + 1 + j]
        BY <2>2
      <3> HIDE DEF s, ink
      <3>3. \A j \in 1..Len(s) : j \in Ink(s) <=> s[j] # " "
        BY <3>1 DEF Ink
      <3> QED BY <1>2, <3>1, <3>2, <3>3
    <2>4. Ink(s) \subseteq 1..Len(s)
      <3>1. DOMAIN s = 1..Len(s)
        BY <2>2
      <3> QED BY <3>1 DEF Ink
    <2>5. ASSUME NEW k \in 1..Len(s) + 1, k + l <= Len(s) + 1
          PROVE  SubSeq(s, k, k + l - 1) = SubSeq(body, k + i + 1, k + i + 1 + l - 1)
      <3>1. /\ i + 2 \in 1..Len(body) + 1 /\ next - 1 - 1 \in i + 2 - 1..Len(body)
            /\ k \in 1..next - 1 - 1 - (i + 2) + 2 /\ k + l <= next - 1 - 1 - (i + 2) + 2
            /\ i + 2 + k - 1 = k + i + 1
        <4> HIDE DEF s
        <4> QED BY <1>1, <2>1, <2>2, <2>5
      <3>2. SubSeq(s, k, k + l - 1) = SubSeq(body, i + 2 + k - 1, i + 2 + k - 1 + l - 1)
        BY <1>1, <3>1, StretchOfStretch
      <3> QED BY <3>1, <3>2
    <2>6. \A k \in 1..Len(s) + 1 : k + i + 1 \in i + 2..next - 1
      <3>1. Len(s) = next - 1 - i - 2
        BY <2>2
      <3> HIDE DEF s
      <3> QED BY <2>1, <3>1
    <2> HIDE DEF s, ink
    <2>7. ASSUME NEW k \in 1..Len(s) + 1 PROVE Alone(name, s, k) <=> Around(k + i + 1)
      <3>1. k + l <= Len(s) + 1 <=> k + i + 1 + l <= next - 1
        BY <1>1, <2>1, <2>2
      <3>2. Ink(s) \subseteq k..k + l - 1 <=>
              \A j \in ink : j \in i + 2..next - 2 => j \in k + i + 1..k + i + 1 + l - 1
        <4>1. ASSUME Ink(s) \subseteq k..k + l - 1, NEW j \in ink, j \in i + 2..next - 2
              PROVE  j \in k + i + 1..k + i + 1 + l - 1
          <5>1. j - i - 1 \in 1..Len(s) /\ i + 1 + (j - i - 1) = j
            BY <2>1, <2>2, <4>1
          <5>2. j - i - 1 \in k..k + l - 1
            BY <2>3, <4>1, <5>1
          <5> QED BY <1>1, <4>1, <5>2
        <4>2. ASSUME \A j \in ink : j \in i + 2..next - 2 => j \in k + i + 1..k + i + 1 + l - 1,
                     NEW j \in Ink(s)
              PROVE  j \in k..k + l - 1
          <5>1. j \in 1..Len(s) /\ i + 1 + j \in ink
            BY <2>3, <2>4
          <5>2. i + 1 + j \in i + 2..next - 2
            BY <2>1, <2>2, <5>1
          <5>3. i + 1 + j \in k + i + 1..k + i + 1 + l - 1
            BY <4>2, <5>1, <5>2
          <5> QED BY <1>1, <5>1, <5>3
        <4> QED BY <4>1, <4>2
      <3> HIDE DEF l
      <3> QED BY <2>5, <3>1, <3>2 DEF Alone, l
    <2>8. \A k \in i + 2..next - 1 : k - i - 1 \in 1..Len(s) + 1 /\ k - i - 1 + i + 1 = k
      BY <2>1, <2>2
    <2>9. ASSUME NEW k, Alone(name, s, k) PROVE k \in 1..Len(s) + 1
      BY <2>9 DEF Alone
    <2> HIDE DEF Around
    <2>10. (\E k \in i + 2..next - 1 : Around(k)) <=> \E k : Alone(name, s, k)
      BY <2>6, <2>7, <2>8, <2>9
    <2> QED BY <2>10 DEF s
  <1>8. IsFirst(next - 1, ends) => SubSeq(body, i + 2, next - 1 - 1) \in Seq(Characters)
    <2>1. \A j \in i + 2..next - 1 - 1 : body[j] \in Characters
      OBVIOUS
    <2> QED BY <1>1, <2>1, SubSeqProperties
  <1> HIDE DEF Around, ends
  <1>9. IsFirst(next - 1, ends) =>
          (name = Trim(SubSeq(body, i + 2, next - 1 - 1)) <=>
             NoBlankEnds(name) /\ \E k \in i + 2..next - 1 : Around(k))
    BY <1>7, <1>8, TrimIs
  <1> QED BY <1>6, <1>9 DEF ends

\* Of the names that can be read in one way at i, m is one with a longest text, or nowhere.
ReadAs(n, bare, i, next) ==
    /\ next \in i + 1..Len(body) + 1
    /\ IF bare THEN Bare(n.name, i, next) ELSE InBrackets(n.name, i, next)
IsBest(m, names, bare, i) ==
    IF m = Nowhere
      THEN \A n \in names : \A next : ~ReadAs(n, bare, i, next)
      ELSE \E n \in names : \E next :
             /\ m = Found(n, next) /\ ReadAs(n, bare, i, next)
             /\ \A x \in names : \A y : ReadAs(x, bare, i, y) => Len(x.name) <= Len(n.name)

LEMMA Reach ==
    \A i, l, n \in Nat : /\ i + 1 + l \in Nat /\ i + 1 + l > i
                         /\ i + 1 + l - 1 <= n => l \in 0..n
                         /\ i + 1 + l \in i + 1..n + 1 <=> i + 1 + l - 1 <= n
  OBVIOUS

LEMMA FoundSomewhere ==
    ASSUME NEW n, NEW i \in Nat, NEW next \in Nat, next > i
    PROVE  Found(n, next) # Nowhere
  <1>1. Found(n, next).next = next /\ Nowhere.next = 0
    BY DEF Found, Nowhere
  <1> QED BY <1>1

LEMMA BracketedIsBest ==
    ASSUME body \in Seq(Characters), NEW i \in 1..Len(body), NEW names,
           \A n \in names : n.name \in Seq(Characters)
    PROVE  IsBest(Bracketed(names, i), names, FALSE, i)
  <1> DEFINE end == CHOOSE j \in Ends(i) : \A k \in Ends(i) : j <= k
             hits == {n \in names : n.name = Trim(SubSeq(body, i + 2, end - 1))}
             n == CHOOSE n \in hits : TRUE
             Open == body[i + 1] = "[" /\ Ends(i) # {} /\ hits # {}
  <1>1. Bracketed(names, i) = IF Open THEN Found(n, end + 1) ELSE Nowhere
    BY DEF Bracketed, Ends
  <1>2. Ends(i) \subseteq i + 2..Len(body) /\ Len(body) \in Nat
    BY DEF Ends
  <1>3. Ends(i) # {} => IsFirst(end, Ends(i))
    <2>1. Ends(i) \in SUBSET (0..Len(body))
      BY <1>2
    <2>2. Ends(i) # {} => \E j : IsFirst(j, Ends(i))
      BY <1>2, <2>1, FirstAndLast
    <2> QED BY <2>2 DEF IsFirst
  <1> HIDE DEF end
  <1>4. ASSUME NEW x \in names, NEW y, ReadAs(x, FALSE, i, y) PROVE Open /\ x \in hits
    <2>1. y \in i + 1..Len(body) + 1 /\ InBrackets(x.name, i, y)
      BY <1>4 DEF ReadAs
    <2>2. /\ body[i + 1] = "[" /\ IsFirst(y - 1, Ends(i))
          /\ x.name = Trim(SubSeq(body, i + 2, y - 1 - 1))
      BY <2>1, InBracketsIs
    <2>3. Ends(i) # {} /\ IsFirst(end, Ends(i))
      BY <1>3, <2>2 DEF IsFirst
    <2>4. y - 1 \in Ends(i) /\ end \in Ends(i) /\ y - 1 <= end /\ end <= y - 1
      BY <2>2, <2>3 DEF IsFirst
    <2>5. y - 1 = end
      BY <1>2, <2>4
    <2> QED BY <2>2, <2>3, <2>5
  <1>5. ASSUME Open PROVE n \in hits /\ n \in names /\ ReadAs(n, FALSE, i, end + 1)
    <2>1. n \in hits
      BY <1>5
    <2> HIDE DEF n
    <2>2. n \in names /\ n.name = Trim(SubSeq(body, i + 2, end - 1)) /\ n.name \in Seq(Characters)
      BY <2>1
    <2>3. IsFirst(end, Ends(i)) /\ end \in i + 2..Len(body)
      BY <1>2, <1>3, <1>5 DEF IsFirst
    <2>4. end + 1 \in i + 1..Len(body) + 1 /\ end + 1 - 1 = end
      BY <1>2, <2>3
    <2>5. InBrackets(n.name, i, end + 1)
      BY <1>5, <2>2, <2>3, <2>4, InBracketsIs
    <2> QED BY <2>1, <2>2, <2>4, <2>5 DEF ReadAs
  <1>6. CASE Open
    <2>1. Bracketed(names, i) = Found(n, end + 1)
      BY <1>1, <1>6
    <2>3. n \in hits /\ n \in names /\ ReadAs(n, FALSE, i, end + 1)
      <3> HIDE DEF n, hits, Open
      <3> QED BY <1>5, <1>6
    <2>2. \A x \in hits : x.name = n.name
      <3> HIDE DEF n
      <3> QED BY <2>3
    <2>10. Len(n.name) \in Nat
      <3> HIDE DEF n, hits
      <3> QED BY <2>3
    <2>4. i \in Nat /\ end + 1 \in Nat /\ end + 1 > i
      <3> HIDE DEF n, hits
      <3>1. end + 1 \in i + 1..Len(body) + 1
        BY <2>3 DEF ReadAs
      <3> QED BY <1>2, <3>1
    <2> HIDE DEF n, hits, Open
    <2>5. Found(n, end + 1) # Nowhere
      BY <2>4, FoundSomewhere
    <2>6. ASSUME NEW x \in names, NEW y, ReadAs(x, FALSE, i, y) PROVE Len(x.name) <= Len(n.name)
      <3>1. x.name = n.name
        BY <1>4, <2>2, <2>6
      <3> QED BY <2>10, <3>1
    <2> QED BY <2>1, <2>3, <2>5, <2>6 DEF IsBest
  <1>7. CASE ~Open
    <2>1. Bracketed(names, i) = Nowhere
      BY <1>1, <1>7
    <2> HIDE DEF Open
    <2> QED BY <1>4, <1>7, <2>1 DEF IsBest
  <1> QED BY <1>6, <1>7

LEMMA GreedyIsBest ==
    ASSUME body \in Seq(Characters), NEW i \in 1..Len(body), NEW names,
           \A n \in names : n.name \in Seq(Characters)
    PROVE  IsBest(Greedy(names, i), names, TRUE, i)
  <1> DEFINE hits == {n \in names : /\ StandsAt(n.name, i + 1)
                                    /\ Boundary(i + 1 + Len(n.name))}
             n == CHOOSE n \in hits : \A m \in hits : Len(m.name) <= Len(n.name)
  <1>1. Greedy(names, i) = IF hits # {} THEN Found(n, i + 1 + Len(n.name)) ELSE Nowhere
    BY DEF Greedy
  <1>2. \A x \in names : Len(x.name) \in Nat
    OBVIOUS
  <1>3. ASSUME NEW x \in names, NEW y
        PROVE  ReadAs(x, TRUE, i, y) <=> x \in hits /\ y = i + 1 + Len(x.name)
    <2>1. CASE y = i + 1 + Len(x.name)
      <3>1. y - 1 = i + 1 + Len(x.name) - 1
        BY <1>2, <2>1
      <3>2. y \in i + 1..Len(body) + 1 <=> i + 1 + Len(x.name) - 1 <= Len(body)
        <4>1. i \in Nat /\ Len(body) \in Nat /\ Len(x.name) \in Nat
          BY <1>2
        <4> QED BY <2>1, <4>1, Reach
      <3> QED BY <2>1, <3>1, <3>2 DEF ReadAs, Bare, StandsAt
    <2>2. CASE y # i + 1 + Len(x.name)
      BY <2>2 DEF ReadAs, Bare
    <2> QED BY <2>1, <2>2
  <1>4. CASE hits # {}
    <2> DEFINE lengths == {Len(x.name) : x \in hits}
    <2>1. \A x \in hits : x \in names
      OBVIOUS
    <2>2. lengths \in SUBSET (0..Len(body)) /\ lengths # {}
      <3>1. ASSUME NEW x \in hits PROVE Len(x.name) \in 0..Len(body)
        <4>1. i + 1 + Len(x.name) - 1 <= Len(body)
          BY DEF StandsAt
        <4>2. Len(x.name) \in Nat /\ i \in Nat /\ Len(body) \in Nat
          <5> HIDE DEF hits
          <5> QED BY <1>2, <2>1
        <4> QED BY <4>1, <4>2, Reach
      <3> HIDE DEF hits
      <3> QED BY <1>4, <3>1
    <2>3. PICK l : IsLast(l, lengths)
      <3>1. Len(body) \in Nat
        OBVIOUS
      <3> HIDE DEF lengths
      <3> QED BY <2>2, <3>1, FirstAndLast
    <2>4. \E x \in hits : \A m \in hits : Len(m.name) <= Len(x.name)
      <3> HIDE DEF hits
      <3> QED BY <2>3 DEF IsLast
    <2>5. n \in hits /\ \A m \in hits : Len(m.name) <= Len(n.name)
      <3> HIDE DEF hits
      <3> QED BY <2>4
    <2>6. Greedy(names, i) = Found(n, i + 1 + Len(n.name))
      BY <1>1, <1>4
    <2> HIDE DEF n, hits, lengths
    <2>7. n \in names /\ ReadAs(n, TRUE, i, i + 1 + Len(n.name))
      BY <1>3, <2>1, <2>5
    <2>8. Found(n, i + 1 + Len(n.name)) # Nowhere
      <3>0. i \in Nat /\ Len(n.name) \in Nat
        BY <1>2, <2>7
      <3>1. i + 1 + Len(n.name) \in Nat /\ i + 1 + Len(n.name) > i
        BY <3>0, Reach
      <3> QED BY <3>0, <3>1, FoundSomewhere
    <2> QED BY <1>3, <2>5, <2>6, <2>7, <2>8 DEF IsBest
  <1>5. CASE hits = {}
    <2>1. Greedy(names, i) = Nowhere
      BY <1>1, <1>5
    <2> HIDE DEF hits
    <2> QED BY <1>3, <1>5, <2>1 DEF IsBest
  <1> QED BY <1>4, <1>5

LEMMA ReadingsAre ==
    ASSUME NEW i \in 1..Len(body)
    PROVE  /\ \A r \in Readings(i) :
                /\ i < Len(body) /\ <<r.n, r.rank>> \in Known(body[i])
                /\ r.n \in Names /\ r.rank \in {1, 2} /\ r.bare \in BOOLEAN
                /\ ReadAs(r.n, r.bare, i, r.next)
           /\ \A n \in Names, rank \in {1, 2}, bare \in BOOLEAN : \A next :
                i < Len(body) /\ <<n, rank>> \in Known(body[i]) /\ ReadAs(n, bare, i, next)
                  => [n |-> n, rank |-> rank, bare |-> bare, next |-> next] \in Readings(i)
  BY DEF Readings, ReadAs

\* A best one of its kind, when no reading is of a kind that comes before, precedes all.
LEMMA BestIsFirst ==
    ASSUME body \in Seq(Characters), NEW i \in 1..Len(body), i < Len(body),
           NEW names \in SUBSET Names, NEW rank \in {1, 2}, NEW bare \in BOOLEAN,
           NEW m, m # Nowhere, IsBest(m, names, bare, i),
           \A n \in names : <<n, rank>> \in Known(body[i]),
           \A q \in Readings(i) : /\ q.rank = rank => q.n \in names
                                  /\ bare => q.bare
                                  /\ q.bare = bare => rank = 1 \/ q.rank = 2
    PROVE  \E r \in Readings(i) :
             m = Found(r.n, r.next) /\ \A q \in Readings(i) : ~Precedes(q, r)
  <1>1. PICK n \in names : \E next :
           /\ m = Found(n, next) /\ ReadAs(n, bare, i, next)
           /\ \A z \in names : \A y : ReadAs(z, bare, i, y) => Len(z.name) <= Len(n.name)
    BY DEF IsBest
  <1>2. PICK next : m = Found(n, next) /\ ReadAs(n, bare, i, next)
    BY <1>1
  <1> DEFINE r == [n |-> n, rank |-> rank, bare |-> bare, next |-> next]
  <1>3. r \in Readings(i)
    BY <1>2, ReadingsAre
  <1>4. r.n = n /\ r.rank = rank /\ r.bare = bare /\ r.next = next
    OBVIOUS
  <1> HIDE DEF r
  <1>5. ASSUME NEW q \in Readings(i) PROVE ~Precedes(q, r)
    <2>1. q.rank \in {1, 2} /\ q.bare \in BOOLEAN /\ ReadAs(q.n, q.bare, i, q.next)
      BY ReadingsAre
    <2>2. ~(~q.bare /\ r.bare)
      BY <1>4
    <2>3. ~(q.bare = r.bare /\ q.rank < r.rank)
      <3>1. q.bare = bare => rank = 1 \/ q.rank = 2
        OBVIOUS
      <3>2. rank = 1 \/ q.rank = 2 => ~(q.rank < rank)
        BY <2>1
      <3> QED BY <1>4, <3>1, <3>2
    <2>4. ASSUME q.bare = r.bare, q.rank = r.rank PROVE ~(Len(q.n.name) > Len(r.n.name))
      <3>1. q.n \in names /\ ReadAs(q.n, bare, i, q.next)
        BY <1>4, <2>1, <2>4
      <3>2. Len(q.n.name) <= Len(n.name)
        BY <1>1, <3>1
      <3>3. q.n.name \in Seq(Characters) /\ n.name \in Seq(Characters)
        BY <3>1, MentionsAssumption DEF Names
      <3>4. Len(q.n.name) \in Nat /\ Len(n.name) \in Nat
        BY <3>3
      <3>5. ~(Len(q.n.name) > Len(n.name))
        BY <3>2, <3>4
      <3> QED BY <1>4, <3>5
    <2> QED BY <2>2, <2>3, <2>4 DEF Precedes
  <1> QED BY <1>2, <1>3, <1>4, <1>5

\* What the parser takes at i: of all the readings there, none precedes it.
IsRight(m, i) ==
    /\ m = Nowhere <=> Readings(i) = {}
    /\ m # Nowhere => \E r \in Readings(i) : /\ m = Found(r.n, r.next)
                                             /\ \A q \in Readings(i) : ~Precedes(q, r)

LEMMA NamesAreTexts ==
    /\ \A n \in Names : n.name \in Seq(Characters) /\ n.uri # ""
    /\ Called \subseteq Names /\ Owners \subseteq Names /\ NamedTopics \subseteq Names
  BY MentionsAssumption DEF Names

LEMMA AtIsRight ==
    ASSUME body \in Seq(Characters), NEW i \in 1..Len(body), i < Len(body), body[i] = "@"
    PROVE  IsRight(MentionAt(i), i)
  <1> DEFINE m == MentionAt(i)
             a == Bracketed(Called, i)   b == Bracketed(Owners, i)
             c == Greedy(Called, i)      d == Greedy(Owners, i)
  <1>1. /\ IsBest(a, Called, FALSE, i) /\ IsBest(b, Owners, FALSE, i)
        /\ IsBest(c, Called, TRUE, i) /\ IsBest(d, Owners, TRUE, i)
    BY NamesAreTexts, BracketedIsBest, GreedyIsBest
  <1>2. m = IF a # Nowhere THEN a ELSE IF b # Nowhere THEN b
            ELSE IF c # Nowhere THEN c ELSE d
    BY DEF MentionAt, OrElse
  <1>3. Known(body[i]) = (Called \X {1}) \union (Owners \X {2})
    BY DEF Known
  <1> HIDE DEF a, b, c, d, m
  <1>4. /\ \A n \in Called : <<n, 1>> \in Known(body[i])
        /\ \A n \in Owners : <<n, 2>> \in Known(body[i])
    BY <1>3
  <1>5. \A r \in Readings(i) :
          /\ r.bare \in BOOLEAN /\ (r.rank = 1 \/ r.rank = 2)
          /\ r.rank = 1 => r.n \in Called
          /\ r.rank = 2 => r.n \in Owners
          /\ ReadAs(r.n, r.bare, i, r.next)
    <2>1. ASSUME NEW r \in Readings(i)
          PROVE  r.rank \in {1, 2} /\ (r.rank = 1 => r.n \in Called) /\ (r.rank = 2 => r.n \in Owners)
      <3>1. <<r.n, r.rank>> \in Known(body[i]) /\ r.rank \in {1, 2}
        BY ReadingsAre
      <3> QED BY <1>3, <3>1
    <2> QED BY <2>1, ReadingsAre
  <1>6. \A r \in Readings(i) :
          /\ a = Nowhere => ~(r.bare = FALSE /\ r.rank = 1)
          /\ b = Nowhere => ~(r.bare = FALSE /\ r.rank = 2)
          /\ c = Nowhere => ~(r.bare = TRUE /\ r.rank = 1)
          /\ d = Nowhere => ~(r.bare = TRUE /\ r.rank = 2)
    BY <1>1, <1>5 DEF IsBest
  <1> DEFINE First(x) == \E r \in Readings(i) :
                           x = Found(r.n, r.next) /\ \A q \in Readings(i) : ~Precedes(q, r)
  <1>7. a # Nowhere => First(a)
    BY <1>1, <1>4, <1>5, NamesAreTexts, BestIsFirst
  <1>8. a = Nowhere /\ b # Nowhere => First(b)
    <2>1. SUFFICES ASSUME a = Nowhere, b # Nowhere PROVE First(b)
      OBVIOUS
    <2>2. \A q \in Readings(i) : /\ q.rank = 2 => q.n \in Owners
                                 /\ FALSE => q.bare
                                 /\ q.bare = FALSE => 2 = 1 \/ q.rank = 2
      BY <1>5, <1>6, <2>1
    <2>3. 2 \in {1, 2} /\ FALSE \in BOOLEAN /\ Owners \in SUBSET Names
      BY NamesAreTexts
    <2> QED BY <1>1, <1>4, <2>1, <2>2, <2>3, BestIsFirst
  <1>9. a = Nowhere /\ b = Nowhere /\ c # Nowhere => First(c)
    <2>1. SUFFICES ASSUME a = Nowhere, b = Nowhere, c # Nowhere PROVE First(c)
      OBVIOUS
    <2>2. \A q \in Readings(i) : /\ q.rank = 1 => q.n \in Called
                                 /\ TRUE => q.bare
                                 /\ q.bare = TRUE => 1 = 1 \/ q.rank = 2
      BY <1>5, <1>6, <2>1
    <2>3. 1 \in {1, 2} /\ TRUE \in BOOLEAN /\ Called \in SUBSET Names
      BY NamesAreTexts
    <2> QED BY <1>1, <1>4, <2>1, <2>2, <2>3, BestIsFirst
  <1>10. a = Nowhere /\ b = Nowhere /\ c = Nowhere /\ d # Nowhere => First(d)
    <2>1. SUFFICES ASSUME a = Nowhere, b = Nowhere, c = Nowhere, d # Nowhere PROVE First(d)
      OBVIOUS
    <2>2. \A q \in Readings(i) : /\ q.rank = 2 => q.n \in Owners
                                 /\ TRUE => q.bare
                                 /\ q.bare = TRUE => 2 = 1 \/ q.rank = 2
      BY <1>5, <1>6, <2>1
    <2>3. 2 \in {1, 2} /\ TRUE \in BOOLEAN /\ Owners \in SUBSET Names
      BY NamesAreTexts
    <2> QED BY <1>1, <1>4, <2>1, <2>2, <2>3, BestIsFirst
  <1>11. m # Nowhere => First(m)
    <2> HIDE DEF First
    <2> QED BY <1>2, <1>7, <1>8, <1>9, <1>10
  <1>12. m = Nowhere => Readings(i) = {}
    <2>1. m = Nowhere => a = Nowhere /\ b = Nowhere /\ c = Nowhere /\ d = Nowhere
      BY <1>2
    <2> QED BY <1>5, <1>6, <2>1
  <1>13. m # Nowhere => Readings(i) # {}
    BY <1>11
  <1> QED BY <1>11, <1>12, <1>13 DEF IsRight, m

LEMMA HashIsRight ==
    ASSUME body \in Seq(Characters), NEW i \in 1..Len(body), i < Len(body), body[i] = "#"
    PROVE  IsRight(MentionAt(i), i)
  <1> DEFINE m == MentionAt(i)
             a == Bracketed(NamedTopics, i)   c == Greedy(NamedTopics, i)
  <1>1. IsBest(a, NamedTopics, FALSE, i) /\ IsBest(c, NamedTopics, TRUE, i)
    BY NamesAreTexts, BracketedIsBest, GreedyIsBest
  <1>2. m = IF a # Nowhere THEN a ELSE c
    BY DEF MentionAt, OrElse
  <1>3. Known(body[i]) = NamedTopics \X {1}
    BY DEF Known
  <1> HIDE DEF a, c, m
  <1>4. \A n \in NamedTopics : <<n, 1>> \in Known(body[i])
    BY <1>3
  <1>5. \A r \in Readings(i) :
          r.bare \in BOOLEAN /\ r.rank = 1 /\ r.n \in NamedTopics /\ ReadAs(r.n, r.bare, i, r.next)
    <2>1. \A r \in Readings(i) : <<r.n, r.rank>> \in Known(body[i])
      BY ReadingsAre
    <2>2. \A r \in Readings(i) : r.rank = 1 /\ r.n \in NamedTopics
      BY <1>3, <2>1
    <2> QED BY <2>2, ReadingsAre
  <1>6. \A r \in Readings(i) : (a = Nowhere => r.bare) /\ (c = Nowhere => ~r.bare)
    BY <1>1, <1>5 DEF IsBest
  <1> DEFINE First(x) == \E r \in Readings(i) :
                           x = Found(r.n, r.next) /\ \A q \in Readings(i) : ~Precedes(q, r)
  <1>7. 1 \in {1, 2} /\ TRUE \in BOOLEAN /\ FALSE \in BOOLEAN /\ NamedTopics \in SUBSET Names
    BY NamesAreTexts
  <1>8. a # Nowhere => First(a)
    BY <1>1, <1>4, <1>5, <1>7, BestIsFirst
  <1>9. a = Nowhere /\ c # Nowhere => First(c)
    <2>1. SUFFICES ASSUME a = Nowhere, c # Nowhere PROVE First(c)
      OBVIOUS
    <2>2. \A q \in Readings(i) : /\ q.rank = 1 => q.n \in NamedTopics
                                 /\ TRUE => q.bare
                                 /\ q.bare = TRUE => 1 = 1 \/ q.rank = 2
      BY <1>5, <1>6, <2>1
    <2> QED BY <1>1, <1>4, <1>7, <2>1, <2>2, BestIsFirst
  <1>10. m # Nowhere => First(m)
    <2> HIDE DEF First
    <2> QED BY <1>2, <1>8, <1>9
  <1>11. m = Nowhere => Readings(i) = {}
    BY <1>2, <1>5, <1>6
  <1>12. m # Nowhere => Readings(i) # {}
    BY <1>10
  <1> QED BY <1>10, <1>11, <1>12 DEF IsRight, m

LEMMA TakenIsFirst ==
    ASSUME body \in Seq(Characters), NEW i \in 1..Len(body)
    PROVE  IsRight(MentionAt(i), i)
  <1>1. CASE i < Len(body) /\ body[i] = "@"
    BY <1>1, AtIsRight
  <1>2. CASE i < Len(body) /\ body[i] = "#"
    BY <1>2, HashIsRight
  <1>3. CASE ~(i < Len(body) /\ body[i] = "@") /\ ~(i < Len(body) /\ body[i] = "#")
    <2>1. MentionAt(i) = Nowhere
      BY <1>3 DEF MentionAt
    <2>2. \A r \in Readings(i) : i < Len(body) /\ <<r.n, r.rank>> \in Known(body[i])
      BY ReadingsAre
    <2>3. i < Len(body) => Known(body[i]) = {}
      BY <1>3 DEF Known
    <2>4. Readings(i) = {}
      BY <2>2, <2>3
    <2> QED BY <2>1, <2>4 DEF IsRight
  <1> QED BY <1>1, <1>2, <1>3

(***************************************************************************)
(* The parser.  The invariant says where the parser stands, that what it   *)
(* has read lies end to end before that, each piece the reading that comes *)
(* first or a character that has none, and what is among the URIs found.   *)
(***************************************************************************)
Uris == {n.uri : n \in Names} \union {""}
Pieces == [uri : Uris, first : Nat, next : Nat]

MentionsTypeOK ==
    /\ body \in Seq(Characters) /\ position \in 1..Len(body) + 1
    /\ items \in Seq(Pieces) /\ mentioned \in Seq(Uris)

PieceRight(x) ==
    /\ Readings(x.first) = {} => x.uri = "" /\ x.next = x.first + 1
    /\ Readings(x.first) # {} =>
         \E r \in Readings(x.first) : /\ x.uri = r.n.uri /\ x.next = r.next
                                      /\ \A q \in Readings(x.first) : ~Precedes(q, r)
PiecesInv == \A k \in DOMAIN items : PieceRight(items[k])
EndToEndInv ==
    /\ \A k \in DOMAIN items : items[k].first = IF k = 1 THEN 1 ELSE items[k - 1].next
    /\ position = IF items = <<>> THEN 1 ELSE items[Len(items)].next
MentionedInv ==
    /\ IsInjective(mentioned)
    /\ Range(mentioned) = {items[k].uri : k \in DOMAIN items} \ {""}
MentionsInv == MentionsTypeOK /\ PiecesInv /\ EndToEndInv /\ MentionedInv

LEMMA MentionsInitially == MentionsInit => MentionsInv
  <1> SUFFICES ASSUME MentionsInit PROVE MentionsInv
    OBVIOUS
  <1>1. body = <<>> /\ position = 1 /\ items = <<>> /\ mentioned = <<>>
    BY DEF MentionsInit
  <1>2. MentionsTypeOK
    <2>1. <<>> \in Seq(Characters) /\ <<>> \in Seq(Pieces) /\ <<>> \in Seq(Uris)
          /\ Len(body) = 0 /\ 1 \in 1..0 + 1
      BY <1>1
    <2> QED BY <1>1, <2>1 DEF MentionsTypeOK
  <1>3. DOMAIN items = {} /\ DOMAIN mentioned = {}
    BY <1>1
  <1>4. PiecesInv /\ EndToEndInv
    BY <1>1, <1>3 DEF PiecesInv, EndToEndInv
  <1>5. MentionedInv
    BY <1>3 DEF MentionedInv, IsInjective, Range
  <1> QED BY <1>2, <1>4, <1>5 DEF MentionsInv

\* The text does not change once something of it is read.
LEMMA SameText ==
    ASSUME body' = body, NEW i
    PROVE  Readings(i)' = Readings(i)
  <1>1. /\ \A name, next : InBrackets(name, i, next)' <=> InBrackets(name, i, next)
        /\ \A name, next : Bare(name, i, next)' <=> Bare(name, i, next)
    BY DEF InBrackets, Bare, Boundary
  <1>2. Known(body[i])' = Known(body[i])
    BY DEF Known
  <1> QED BY <1>1, <1>2 DEF Readings

LEMMA MentionsGrow == MentionsInv /\ GrowBody => MentionsInv'
  <1> SUFFICES ASSUME MentionsInv, GrowBody PROVE MentionsInv'
    OBVIOUS
  <1>1. /\ items = <<>> /\ position' = position /\ items' = items /\ mentioned' = mentioned
        /\ MentionsTypeOK /\ EndToEndInv /\ MentionedInv
    BY DEF GrowBody, MentionsInv
  <1>2. PICK c \in Characters : body' = Append(body, c)
    BY DEF GrowBody
  <1>3. body' \in Seq(Characters) /\ Len(body') = Len(body) + 1 /\ Len(body) \in Nat
    BY <1>1, <1>2, AppendProperties DEF MentionsTypeOK
  <1>4. MentionsTypeOK'
    <2>1. position \in 1..Len(body) + 1
      BY <1>1 DEF MentionsTypeOK
    <2>2. position' \in 1..Len(body') + 1
      BY <1>1, <1>3, <2>1
    <2> QED BY <1>1, <1>3, <2>2 DEF MentionsTypeOK
  <1>5. PiecesInv'
    <2>1. DOMAIN items' = {}
      BY <1>1
    <2> QED BY <2>1 DEF PiecesInv
  <1>6. EndToEndInv' /\ MentionedInv'
    BY <1>1 DEF EndToEndInv, MentionedInv
  <1> QED BY <1>4, <1>5, <1>6 DEF MentionsInv

LEMMA MentionsParse == MentionsInv /\ ParseNext => MentionsInv'
  <1> SUFFICES ASSUME MentionsInv, ParseNext PROVE MentionsInv'
    OBVIOUS
  <1> DEFINE m == MentionAt(position)
             next == IF m = Nowhere THEN position + 1 ELSE m.next
             x == [uri |-> m.uri, first |-> position, next |-> next]
  <1>1. /\ body \in Seq(Characters) /\ Len(body) \in Nat /\ items \in Seq(Pieces)
        /\ mentioned \in Seq(Uris) /\ position \in 1..Len(body)
    <2>1. position <= Len(body) /\ position \in 1..Len(body) + 1 /\ Len(body) \in Nat
      BY DEF MentionsInv, MentionsTypeOK, ParseNext
    <2>2. position \in 1..Len(body)
      BY <2>1
    <2> QED BY <2>1, <2>2 DEF MentionsInv, MentionsTypeOK
  <1>2. /\ body' = body /\ position' = next /\ items' = Append(items, x)
        /\ mentioned' = IF m = Nowhere \/ m.uri \in Range(mentioned) THEN mentioned
                        ELSE Append(mentioned, m.uri)
    BY DEF ParseNext
  <1>3. IsRight(m, position)
    BY <1>1, TakenIsFirst
  <1> HIDE DEF m
  <1>14. position + 1 \in position + 1..Len(body) + 1 /\ position \in Nat
    BY <1>1
  <1> DEFINE Sound == /\ m.uri \in Uris /\ next \in position + 1..Len(body) + 1 /\ PieceRight(x)
                      /\ m = Nowhere <=> m.uri = ""
  <1>4. ASSUME m = Nowhere PROVE Sound
    <2>1. m.uri = "" /\ next = position + 1 /\ Readings(position) = {}
      BY <1>3, <1>4 DEF IsRight, Nowhere
    <2>2. next \in position + 1..Len(body) + 1
      BY <1>14, <2>1
    <2> HIDE DEF next
    <2>3. x.uri = "" /\ x.first = position /\ x.next = position + 1
      BY <2>1
    <2>4. PieceRight(x)
      <3> HIDE DEF x
      <3> QED BY <2>1, <2>3 DEF PieceRight
    <2> QED BY <1>4, <2>1, <2>2, <2>4 DEF Uris
  <1>5. ASSUME m # Nowhere PROVE Sound
    <2>1. PICK r \in Readings(position) :
             m = Found(r.n, r.next) /\ \A q \in Readings(position) : ~Precedes(q, r)
      BY <1>3, <1>5 DEF IsRight
    <2>2. r.n \in Names /\ r.next \in position + 1..Len(body) + 1
      BY DEF Readings
    <2>3. m.uri = r.n.uri /\ next = r.next
      BY <1>5, <2>1 DEF Found
    <2> HIDE DEF next
    <2>4. x.uri = r.n.uri /\ x.first = position /\ x.next = r.next
      BY <2>3
    <2>5. PieceRight(x)
      <3> HIDE DEF x
      <3> QED BY <2>1, <2>4 DEF PieceRight
    <2>6. r.n.uri # "" /\ r.n.uri \in Uris
      BY <2>2, NamesAreTexts DEF Uris
    <2> QED BY <1>5, <2>2, <2>3, <2>5, <2>6
  <1>6. Sound
    <2> HIDE DEF Sound
    <2> QED BY <1>4, <1>5
  <1> HIDE DEF next
  <1>7. x \in Pieces /\ x.uri = m.uri /\ x.first = position /\ x.next = next
    <2>1. position \in Nat /\ next \in Nat
      <3>1. next \in position + 1..Len(body) + 1 /\ Len(body) \in Nat
        BY <1>1, <1>6
      <3> HIDE DEF Sound
      <3> QED BY <1>14, <3>1
    <2> QED BY <1>6, <2>1 DEF Pieces
  <1> HIDE DEF x
  <1>8. /\ items' \in Seq(Pieces) /\ Len(items') = Len(items) + 1 /\ items'[Len(items) + 1] = x
        /\ \A k \in 1..Len(items) : items'[k] = items[k]
    BY <1>1, <1>2, <1>7, AppendProperties
  <1>9. /\ Len(items) \in Nat /\ DOMAIN items = 1..Len(items) /\ items' # <<>>
        /\ DOMAIN items' = 1..Len(items) + 1 /\ Len(items') = Len(items) + 1
    BY <1>1, <1>8
  <1>10. MentionsTypeOK'
    <2>1. position' \in 1..Len(body') + 1
      <3>1. next \in 1..Len(body) + 1
        <4>1. next \in position + 1..Len(body) + 1
          BY <1>6
        <4> QED BY <1>14, <4>1
      <3> QED BY <1>2, <3>1
    <2>2. mentioned' \in Seq(Uris)
      <3>1. m.uri \in Uris
        BY <1>6
      <3> HIDE DEF Sound, Uris
      <3> QED BY <1>1, <1>2, <3>1, AppendProperties
    <2> QED BY <1>1, <1>2, <1>8, <2>1, <2>2 DEF MentionsTypeOK
  <1>11. PiecesInv'
    <2>1. \A y : PieceRight(y) => PieceRight(y)'
      BY <1>2, SameText DEF PieceRight, Precedes
    <2>2. \A k \in DOMAIN items' : PieceRight(items'[k])
      <3>1. ASSUME NEW k \in 1..Len(items) + 1 PROVE PieceRight(items'[k])
        <4>1. CASE k = Len(items) + 1
          BY <1>6, <1>8, <4>1
        <4>2. CASE k # Len(items) + 1
          <5>1. k \in DOMAIN items /\ items'[k] = items[k]
            BY <1>8, <1>9, <4>2
          <5> QED BY <5>1 DEF MentionsInv, PiecesInv
        <4> QED BY <4>1, <4>2
      <3> QED BY <1>9, <3>1
    <2> QED BY <2>1, <2>2 DEF PiecesInv
  <1>12. EndToEndInv'
    <2>1. position = IF items = <<>> THEN 1 ELSE items[Len(items)].next
      BY DEF MentionsInv, EndToEndInv
    <2>2. position' = IF items' = <<>> THEN 1 ELSE items'[Len(items')].next
      BY <1>2, <1>7, <1>8, <1>9
    <2>3. ASSUME NEW k \in 1..Len(items) + 1
          PROVE  items'[k].first = IF k = 1 THEN 1 ELSE items'[k - 1].next
      <3>1. CASE k = Len(items) + 1
        <4>1. items'[k].first = position
          BY <1>7, <1>8, <3>1
        <4>2. CASE Len(items) = 0
          BY <1>1, <2>1, <3>1, <4>1, <4>2, EmptySeq
        <4>3. CASE Len(items) # 0
          <5>1. k # 1 /\ k - 1 = Len(items) /\ Len(items) \in 1..Len(items)
            BY <1>9, <3>1, <4>3
          <5>2. items # <<>> /\ items'[k - 1] = items[Len(items)]
            BY <1>8, <4>3, <5>1
          <5> QED BY <2>1, <4>1, <5>1, <5>2
        <4> QED BY <4>2, <4>3
      <3>2. CASE k # Len(items) + 1
        <4>1. k \in 1..Len(items) /\ (k # 1 => k - 1 \in 1..Len(items))
          BY <1>9, <3>2
        <4>2. items'[k] = items[k] /\ (k # 1 => items'[k - 1] = items[k - 1])
          BY <1>8, <4>1
        <4>3. items[k].first = IF k = 1 THEN 1 ELSE items[k - 1].next
          BY <1>9, <4>1 DEF MentionsInv, EndToEndInv
        <4> QED BY <4>2, <4>3
      <3> QED BY <3>1, <3>2
    <2> QED BY <1>9, <2>2, <2>3 DEF EndToEndInv
  <1>13. MentionedInv'
    <2> DEFINE read == {items[k].uri : k \in DOMAIN items}
    <2>1. {items'[k].uri : k \in DOMAIN items'} = read \union {m.uri}
      <3>1. \A k \in 1..Len(items) : items'[k].uri = items[k].uri
        BY <1>8
      <3>2. items'[Len(items) + 1].uri = m.uri
        BY <1>7, <1>8
      <3>3. 1..Len(items) + 1 = 1..Len(items) \union {Len(items) + 1}
        BY <1>9
      <3> QED BY <1>9, <3>1, <3>2, <3>3
    <2>2. IsInjective(mentioned) /\ Range(mentioned) = read \ {""}
      BY DEF MentionsInv, MentionedInv
    <2>3. CASE m = Nowhere \/ m.uri \in Range(mentioned)
      <3>1. mentioned' = mentioned
        BY <1>2, <2>3
      <3>2. (read \union {m.uri}) \ {""} = read \ {""}
        <4> HIDE DEF read
        <4> QED BY <1>6, <2>2, <2>3
      <3> HIDE DEF read
      <3> QED BY <2>1, <2>2, <3>1, <3>2 DEF MentionedInv
    <2>4. CASE m # Nowhere /\ m.uri \notin Range(mentioned)
      <3>1. mentioned' = Append(mentioned, m.uri)
        BY <1>2, <2>4
      <3>2. /\ Len(mentioned) \in Nat /\ DOMAIN mentioned = 1..Len(mentioned)
            /\ DOMAIN mentioned' = 1..Len(mentioned) + 1
            /\ \A k \in 1..Len(mentioned) : mentioned'[k] = mentioned[k]
            /\ mentioned'[Len(mentioned) + 1] = m.uri
        <4>1. /\ mentioned' \in Seq(Uris) /\ Len(mentioned') = Len(mentioned) + 1
              /\ \A k \in 1..Len(mentioned) : mentioned'[k] = mentioned[k]
              /\ mentioned'[Len(mentioned) + 1] = m.uri
          <5>1. m.uri \in Uris
            BY <1>6
          <5> HIDE DEF Uris, Sound
          <5> QED BY <1>1, <3>1, <5>1, AppendProperties
        <4> QED BY <1>1, <4>1
      <3>3. 1..Len(mentioned) + 1 = 1..Len(mentioned) \union {Len(mentioned) + 1}
        BY <3>2
      <3>4. Range(mentioned') = Range(mentioned) \union {m.uri}
        BY <3>2, <3>3 DEF Range
      <3>5. IsInjective(mentioned')
        <4>1. ASSUME NEW a \in 1..Len(mentioned) + 1, NEW b \in 1..Len(mentioned) + 1,
                     mentioned'[a] = mentioned'[b]
              PROVE  a = b
          <5>1. \A k \in 1..Len(mentioned) : mentioned'[k] # m.uri
            BY <2>4, <3>2 DEF Range
          <5>2. CASE a \in 1..Len(mentioned) /\ b \in 1..Len(mentioned)
            BY <2>2, <3>2, <4>1, <5>2 DEF IsInjective
          <5> QED BY <3>2, <3>3, <4>1, <5>1, <5>2
        <4> QED BY <3>2, <4>1 DEF IsInjective
      <3>6. (read \union {m.uri}) \ {""} = (read \ {""}) \union {m.uri}
        <4> HIDE DEF read
        <4> QED BY <1>6, <2>4
      <3> HIDE DEF read
      <3> QED BY <2>1, <2>2, <3>4, <3>5, <3>6 DEF MentionedInv
    <2> QED BY <2>3, <2>4
  <1> QED BY <1>10, <1>11, <1>12, <1>13 DEF MentionsInv

LEMMA MentionsStep == MentionsInv /\ [MentionsNext]_mentionVars => MentionsInv'
  <1> SUFFICES ASSUME MentionsInv, [MentionsNext]_mentionVars PROVE MentionsInv'
    OBVIOUS
  <1>1. CASE UNCHANGED mentionVars
    <2>1. body' = body /\ position' = position /\ items' = items /\ mentioned' = mentioned
      BY <1>1 DEF mentionVars
    <2>2. \A y : PieceRight(y) => PieceRight(y)'
      BY <2>1, SameText DEF PieceRight, Precedes
    <2>3. PiecesInv'
      BY <2>1, <2>2 DEF MentionsInv, PiecesInv
    <2>4. MentionsTypeOK'
      BY <2>1 DEF MentionsInv, MentionsTypeOK
    <2>5. EndToEndInv'
      BY <2>1 DEF MentionsInv, EndToEndInv
    <2>6. MentionedInv'
      BY <2>1 DEF MentionsInv, MentionedInv
    <2> QED BY <2>3, <2>4, <2>5, <2>6 DEF MentionsInv
  <1> QED BY <1>1, MentionsGrow, MentionsParse DEF MentionsNext

LEMMA MentionsImplied == MentionsInv => MentionsAreExact
  <1> SUFFICES ASSUME MentionsInv PROVE MentionsAreExact
    OBVIOUS
  <1>1. position <= Len(body) + 1
    <2>1. position \in 1..Len(body) + 1 /\ Len(body) \in Nat
      BY DEF MentionsInv, MentionsTypeOK
    <2> QED BY <2>1
  <1> QED BY <1>1 DEF MentionsInv, PiecesInv, PieceRight, EndToEndInv, MentionedInv, MentionsAreExact

\* In every text the parser finds what comes first at each place, and nothing else.
THEOREM MentionsRight == MentionsSpec => []MentionsAreExact
  <1>1. MentionsSpec => []MentionsInv
    BY MentionsInitially, MentionsStep, PTL DEF MentionsSpec
  <1> QED BY <1>1, MentionsImplied, PTL
=============================================================================
