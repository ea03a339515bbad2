-------------------------- MODULE MessagePipeline --------------------------
(***************************************************************************)
(* What happens to a published message after it has been validated and     *)
(* broadcast: the handler pushes it on the bounded persistence queue and,  *)
(* if its topic is queryable, on the index queue; two workers write the    *)
(* queues in batches to the tables messages and messages_fts; the hourly   *)
(* purge deletes from both.                                                *)
(*                                                                         *)
(* Every message has a handler of its own.  What a handler or a worker     *)
(* does while it holds the mutex of a queue is one step; the wait on a     *)
(* Notify begins in a later step, and the others may run in between.  A    *)
(* Notify remembers at most one notification that found nobody waiting.    *)
(***************************************************************************)
EXTENDS Integers, Sequences, FiniteSets, Functions

CONSTANTS
    Messages,    \* the messages published, each once, none on an ephemeral topic
    Decisions,   \* those on _decision. and _control.: their policy is BlockPublisher
    Queryable,   \* those on topics of mode Queryable, which are also indexed
    Perishable,  \* those on one topic whose retention is not forever
    Capacity,    \* the capacity of either queue
    BatchSize,   \* how many messages a worker takes at once
    Attempts,    \* how often the worker tries to write one batch
    MaxFaults    \* bound: failed SQL statements and daemon crashes

ASSUME ConstantsAssumption ==
    /\ Decisions \subseteq Messages
    /\ Queryable \subseteq Messages
    /\ Perishable \subseteq Messages
    /\ Capacity \in Nat \ {0}
    /\ BatchSize \in Nat \ {0}
    /\ Attempts \in Nat \ {0}
    /\ MaxFaults \in Nat

VARIABLES
    pc,             \* pc[m]: where the handler of m is
    persist_queue,  \* the queue of the persistence worker, a sequence
    notify_tx,      \* a notification for publishers that found none waiting
    notify_rx,      \* a notification for the worker that did not find it waiting
    writer,         \* the persistence worker: its pc, the batch it holds, failed attempts
    index_queue,    \* the queue of the index worker, a sequence
    indexing,       \* the batch that the index worker holds
    messages,       \* the table messages
    messages_fts,   \* the table messages_fts
    old,            \* perishable messages whose timestamps are past their retention
    purge,          \* the purge of the perishable topic: its pc and its cutoff
    entered,        \* history: what entered the queue since the daemon started, in order
    evicted,        \* history: what a full queue dropped to make room
    purged,         \* history: what the purge deleted
    faults

queue  == <<persist_queue, notify_tx, notify_rx, writer, entered, evicted>>
index  == <<index_queue, indexing>>
tables == <<messages, messages_fts>>
vars   == <<pc, persist_queue, notify_tx, notify_rx, writer, index_queue, indexing,
            messages, messages_fts, old, purge, entered, evicted, purged, faults>>

----------------------------------------------------------------------------
(* pop_batch takes the first n messages of a queue, or all there are.      *)

Taken(q, n) == {q[i] : i \in {j \in DOMAIN q : j <= n}}
Left(q, n)  == SubSeq(q, n + 1, Len(q))

\* push on a full queue under DropOldest; push on a queue with room.
Pushed(q, m) == Append(IF Len(q) < Capacity THEN q ELSE Tail(q), m)

IdleWriter == [pc |-> "pop", batch |-> {}, failed |-> 0]
IdlePurge  == [pc |-> "idle", cutoff |-> {}]

\* notify_tx.notify_one(): one publisher that waits is woken, or the next one to
\* wait will not.  Which one is left open (it is the one that waits longest).
NotifyPublisher(pcs) ==
    IF \E m \in Messages : pcs[m] = "waiting"
    THEN /\ \E m \in Messages : pcs[m] = "waiting" /\ pc' = [pcs EXCEPT ![m] = "woken"]
         /\ UNCHANGED notify_tx
    ELSE pc' = pcs /\ notify_tx' = TRUE

\* Mutant: notify_waiters() instead, which a worker that is not waiting yet misses.
NotifyWaitingWriter ==
    /\ writer' = IF writer.pc = "waiting" THEN [writer EXCEPT !.pc = "pop"] ELSE writer
    /\ UNCHANGED notify_rx

\* notify_rx.notify_one()
NotifyWriter ==
    IF writer.pc = "waiting"
    THEN writer' = [writer EXCEPT !.pc = "pop"] /\ UNCHANGED notify_rx
    ELSE notify_rx' = TRUE /\ UNCHANGED writer

Init ==
    /\ pc = [m \in Messages |-> "new"]
    /\ persist_queue = <<>>
    /\ notify_tx = FALSE
    /\ notify_rx = FALSE
    /\ writer = IdleWriter
    /\ index_queue = <<>>
    /\ indexing = {}
    /\ messages = {}
    /\ messages_fts = {}
    /\ old = {}
    /\ purge = IdlePurge
    /\ entered = <<>>
    /\ evicted = {}
    /\ purged = {}
    /\ faults = 0

----------------------------------------------------------------------------
(* The handler of a message.                                               *)

\* handle_publish reaches queue_message; it has broadcast the message already.
Publish(m) ==
    /\ pc[m] = "new"
    /\ pc' = [pc EXCEPT ![m] = "push"]
    /\ UNCHANGED <<queue, index, tables, old, purge, purged, faults>>

Pushing(m) == pc[m] \in {"push", "woken"}

AfterPush(m) == IF m \in Queryable THEN "index" ELSE "done"

Enqueue(m) ==
    /\ Pushing(m)
    /\ Len(persist_queue) < Capacity
    /\ persist_queue' = Append(persist_queue, m)
    /\ entered' = Append(entered, m)
    /\ NotifyWriter
    /\ pc' = [pc EXCEPT ![m] = AfterPush(m)]
    /\ UNCHANGED <<notify_tx, index, tables, old, purge, evicted, purged, faults>>

\* Mutant: DropOldest forgets to pop before it pushes.
EvictNothing(m) ==
    /\ Pushing(m)
    /\ Len(persist_queue) >= Capacity
    /\ m \notin Decisions
    /\ persist_queue' = Append(persist_queue, m)
    /\ entered' = Append(entered, m)
    /\ NotifyWriter
    /\ pc' = [pc EXCEPT ![m] = AfterPush(m)]
    /\ UNCHANGED <<notify_tx, index, tables, old, purge, evicted, purged, faults>>

EvictOldest(m) ==
    /\ Pushing(m)
    /\ Len(persist_queue) >= Capacity
    /\ m \notin Decisions
    /\ persist_queue' = Pushed(persist_queue, m)
    /\ evicted' = evicted \cup {Head(persist_queue)}
    /\ entered' = Append(entered, m)
    /\ NotifyWriter
    /\ pc' = [pc EXCEPT ![m] = AfterPush(m)]
    /\ UNCHANGED <<notify_tx, index, tables, old, purge, purged, faults>>

\* BlockPublisher: the mutex is released before the handler starts to wait.
FindFull(m) ==
    /\ Pushing(m)
    /\ Len(persist_queue) >= Capacity
    /\ m \in Decisions
    /\ pc' = [pc EXCEPT ![m] = "full"]
    /\ UNCHANGED <<queue, index, tables, old, purge, purged, faults>>

\* notify_tx.notified().await
AwaitRoom(m) ==
    /\ pc[m] = "full"
    /\ pc' = [pc EXCEPT ![m] = IF notify_tx THEN "push" ELSE "waiting"]
    /\ notify_tx' = FALSE
    /\ UNCHANGED <<persist_queue, notify_rx, writer, entered, evicted,
                   index, tables, old, purge, purged, faults>>

\* The client of a blocked publish hangs up, and the server drops the handler where
\* it waits.  A Notified that was already notified passes the notification on.
HangUp(m) ==
    /\ \/ /\ pc[m] = "waiting"
          /\ pc' = [pc EXCEPT ![m] = "gone"]
          /\ UNCHANGED notify_tx
       \/ /\ pc[m] = "woken"
          /\ NotifyPublisher([pc EXCEPT ![m] = "gone"])
    /\ UNCHANGED <<persist_queue, notify_rx, writer, entered, evicted,
                   index, tables, old, purge, purged, faults>>

\* queue_index never blocks.
QueueIndex(m) ==
    /\ pc[m] = "index"
    /\ index_queue' = Pushed(index_queue, m)
    /\ pc' = [pc EXCEPT ![m] = "done"]
    /\ UNCHANGED <<queue, indexing, tables, old, purge, purged, faults>>

----------------------------------------------------------------------------
(* The persistence worker.                                                 *)

\* Mutant: notify the publishers only if there was no room before.
PopBatchOfFullNotifies ==
    /\ writer.pc = "pop"
    /\ persist_queue # <<>>
    /\ writer' = [pc |-> "write", batch |-> Taken(persist_queue, BatchSize), failed |-> 0]
    /\ persist_queue' = Left(persist_queue, BatchSize)
    /\ IF Len(persist_queue) >= Capacity THEN NotifyPublisher(pc) ELSE UNCHANGED <<pc, notify_tx>>
    /\ UNCHANGED <<notify_rx, entered, evicted, index, tables, old, purge, purged, faults>>

\* One notification, however many messages it takes.
PopBatch ==
    /\ writer.pc = "pop"
    /\ persist_queue # <<>>
    /\ writer' = [pc |-> "write", batch |-> Taken(persist_queue, BatchSize), failed |-> 0]
    /\ persist_queue' = Left(persist_queue, BatchSize)
    /\ NotifyPublisher(pc)
    /\ UNCHANGED <<notify_rx, entered, evicted, index, tables, old, purge, purged, faults>>

FindEmpty ==
    /\ writer.pc = "pop"
    /\ persist_queue = <<>>
    /\ writer' = [writer EXCEPT !.pc = "empty"]
    /\ UNCHANGED <<pc, persist_queue, notify_tx, notify_rx, entered, evicted,
                   index, tables, old, purge, purged, faults>>

\* notify_rx.notified().await
AwaitMessages ==
    /\ writer.pc = "empty"
    /\ writer' = [writer EXCEPT !.pc = IF notify_rx THEN "pop" ELSE "waiting"]
    /\ notify_rx' = FALSE
    /\ UNCHANGED <<pc, persist_queue, notify_tx, entered, evicted,
                   index, tables, old, purge, purged, faults>>

\* persist_batch is one transaction.
WriteBatch ==
    /\ writer.pc = "write"
    /\ messages' = messages \cup writer.batch
    /\ writer' = IdleWriter
    /\ UNCHANGED <<pc, persist_queue, notify_tx, notify_rx, entered, evicted,
                   index, messages_fts, old, purge, purged, faults>>

\* Mutant: the worker ends when it gives a batch up.
WriteFailsForGood ==
    /\ writer.pc = "write"
    /\ faults < MaxFaults
    /\ faults' = faults + 1
    /\ writer' = IF writer.failed + 1 < Attempts
                 THEN [writer EXCEPT !.failed = @ + 1]
                 ELSE [writer EXCEPT !.pc = "ended"]
    /\ UNCHANGED <<pc, persist_queue, notify_tx, notify_rx, entered, evicted,
                   index, tables, old, purge, purged>>

\* Mutant: a batch that failed goes back to the end of the queue.
WriteFailsRequeued ==
    /\ writer.pc = "write"
    /\ faults < MaxFaults
    /\ faults' = faults + 1
    /\ writer' = IdleWriter
    /\ \E m \in writer.batch : persist_queue' = Append(persist_queue, m)
    /\ UNCHANGED <<pc, notify_tx, notify_rx, entered, evicted,
                   index, tables, old, purge, purged>>

\* Mutant: no transaction, so a batch that fails may have been written in part.
WriteFailsHalfway ==
    /\ writer.pc = "write"
    /\ faults < MaxFaults
    /\ faults' = faults + 1
    /\ writer' = IF writer.failed + 1 < Attempts
                 THEN [writer EXCEPT !.failed = @ + 1]
                 ELSE IdleWriter
    /\ \E part \in SUBSET writer.batch : messages' = messages \cup part
    /\ UNCHANGED <<pc, persist_queue, notify_tx, notify_rx, entered, evicted,
                   index, messages_fts, old, purge, purged>>

\* A failed batch is tried again after a pause, and given up in the end.
WriteFails ==
    /\ writer.pc = "write"
    /\ faults < MaxFaults
    /\ faults' = faults + 1
    /\ writer' = IF writer.failed + 1 < Attempts
                 THEN [writer EXCEPT !.failed = @ + 1]
                 ELSE IdleWriter
    /\ UNCHANGED <<pc, persist_queue, notify_tx, notify_rx, entered, evicted,
                   index, tables, old, purge, purged>>

----------------------------------------------------------------------------
(* The index worker: its queue is another BoundedQueue, whose wait for     *)
(* messages is reduced to a guard; a batch that fails is not tried again.  *)

PopIndexBatch ==
    /\ indexing = {}
    /\ index_queue # <<>>
    /\ indexing' = Taken(index_queue, BatchSize)
    /\ index_queue' = Left(index_queue, BatchSize)
    /\ UNCHANGED <<pc, queue, tables, old, purge, purged, faults>>

IndexBatch ==
    /\ indexing # {}
    /\ messages_fts' = messages_fts \cup indexing
    /\ indexing' = {}
    /\ UNCHANGED <<pc, queue, index_queue, messages, old, purge, purged, faults>>

IndexFails ==
    /\ indexing # {}
    /\ faults < MaxFaults
    /\ faults' = faults + 1
    /\ indexing' = {}
    /\ UNCHANGED <<pc, queue, index_queue, tables, old, purge, purged>>

----------------------------------------------------------------------------
(* Retention.  Timestamps come with the messages: one may be past its      *)
(* retention from the start.                                               *)

Expire(m) ==
    /\ m \in Perishable \ old
    /\ old' = old \cup {m}
    /\ UNCHANGED <<pc, queue, index, tables, purge, purged, faults>>

\* delete_messages_before, first statement: the index rows of the old messages.
PurgeIndex ==
    /\ purge.pc = "idle"
    /\ messages \cap Perishable # {}
    /\ purge' = [pc |-> "rows", cutoff |-> old]
    /\ messages_fts' = messages_fts \ (messages \cap old)
    /\ UNCHANGED <<pc, queue, index, messages, old, purged, faults>>

\* Second statement, under the same cutoff.
PurgeRows ==
    /\ purge.pc = "rows"
    /\ purge' = IdlePurge
    /\ messages' = messages \ purge.cutoff
    /\ purged' = purged \cup (messages \cap purge.cutoff)
    /\ UNCHANGED <<pc, queue, index, messages_fts, old, faults>>

PurgeFails ==
    /\ purge.pc = "rows"
    /\ faults < MaxFaults
    /\ faults' = faults + 1
    /\ purge' = IdlePurge
    /\ UNCHANGED <<pc, queue, index, tables, old, purged>>

----------------------------------------------------------------------------
\* The daemon stops, in whatever way: neither queue is written out, on a graceful
\* shutdown either.  Handlers and workers are gone; the tables stay.
DaemonStop ==
    /\ faults < MaxFaults
    /\ faults' = faults + 1
    /\ pc' = [m \in Messages |-> IF pc[m] = "new" THEN "new" ELSE "gone"]
    /\ persist_queue' = <<>>
    /\ notify_tx' = FALSE
    /\ notify_rx' = FALSE
    /\ writer' = IdleWriter
    /\ index_queue' = <<>>
    /\ indexing' = {}
    /\ purge' = IdlePurge
    /\ entered' = <<>>
    /\ UNCHANGED <<tables, old, evicted, purged>>

Handler(m) ==
    Enqueue(m) \/ EvictOldest(m) \/ FindFull(m) \/ AwaitRoom(m) \/ QueueIndex(m)

Writer == PopBatch \/ FindEmpty \/ AwaitMessages \/ WriteBatch

Indexer == PopIndexBatch \/ IndexBatch

Next ==
    \/ \E m \in Messages : Publish(m) \/ Handler(m) \/ HangUp(m) \/ Expire(m)
    \/ Writer
    \/ WriteFails
    \/ Indexer
    \/ IndexFails
    \/ PurgeIndex
    \/ PurgeRows
    \/ PurgeFails
    \/ DaemonStop

Spec == Init /\ [][Next]_vars

\* The runtime goes on with every handler and worker that can go on; nobody has to
\* publish anything, and the purge need not run.
Fairness ==
    /\ \A m \in Messages : WF_vars(Handler(m))
    /\ WF_vars(Writer)
    /\ WF_vars(Indexer)

FairSpec == Spec /\ Fairness

----------------------------------------------------------------------------
HandlerStates == {"new", "push", "full", "waiting", "woken", "index", "done", "gone"}
WriterRecord  == [pc : {"pop", "empty", "waiting", "write"},
                  batch : SUBSET Messages, failed : 0 .. Attempts - 1]

TypeOK ==
    /\ pc \in [Messages -> HandlerStates]
    /\ persist_queue \in Seq(Messages) /\ Len(persist_queue) <= Capacity
    /\ notify_tx \in BOOLEAN
    /\ notify_rx \in BOOLEAN
    /\ writer \in WriterRecord
    /\ index_queue \in Seq(Messages) /\ Len(index_queue) <= Capacity
    /\ indexing \in SUBSET Messages
    /\ messages \in SUBSET Messages
    /\ messages_fts \in SUBSET Messages
    /\ old \in SUBSET Perishable
    /\ purge \in [pc : {"idle", "rows"}, cutoff : SUBSET Perishable]
    /\ entered \in Seq(Messages)
    /\ evicted \in SUBSET Messages
    /\ purged \in SUBSET Messages
    /\ faults \in Nat

\* pop_batch takes many messages and notifies once.  That suffices: while a publisher
\* is blocked there is always someone who will let it go on - a message that the worker
\* has yet to take, a publisher on its way to push, or a notification that a publisher
\* about to wait will find.
NoStrandedPublisher ==
    (\E m \in Messages : pc[m] \in {"full", "waiting"}) =>
        \/ persist_queue # <<>>
        \/ \E m \in Messages : Pushing(m)
        \/ notify_tx /\ \E m \in Messages : pc[m] = "full"

\* The worker does not sleep on a queue with messages, although it looks at the queue
\* and goes to sleep in two steps.
WriterSleepsOnEmpty ==
    persist_queue # <<>> =>
        /\ writer.pc # "waiting"
        /\ writer.pc = "empty" => notify_rx

InFlight == writer.batch \cup Range(persist_queue)

\* Messages are written in the order in which they entered the queue, batches, retries
\* and evictions notwithstanding.  So when the daemon stops, what it loses is the end
\* of that order, never a message between two that are kept.
PersistedInOrder ==
    \A i, j \in DOMAIN entered :
        i < j /\ entered[j] \in messages => entered[i] \notin InFlight

\* What the purge deleted does not come back: a batch that failed has left nothing in
\* the table that could be purged before the batch is tried again and written whole.
\* (pipeline.rs:129-153, persistence_impl.rs:13-72, message_store.rs:153-164)
PurgedIsGone == purged \cap messages = {}

\* The types and capacities, and what was purged.
PipelineInv == TypeOK /\ PurgedIsGone

\* A publisher that is blocked by a full queue gets on, once no more is published: its
\* message is let in, or it hung up, or the daemon stopped.
BlockedPublishReturns ==
    \A m \in Messages : pc[m] \in {"full", "waiting", "woken"} ~> pc[m] \in {"index", "done", "gone"}

\* What entered the queue leaves it for the table, or is evicted, given up, or lost.
QueuedIsSettled ==
    \A m \in Messages : m \in InFlight ~> m \notin InFlight

\* Decision messages are kept forever: the daemon does not drop one it has accepted.
\* Not kept by the code: see README, "Statements that do not hold".
DecisionsAreKept == evicted \cap Decisions = {}

\* "Delete all messages on `topic` older than the RFC3339 `cutoff` timestamp,
\* including their full-text-search index entries." (message_store.rs:150-151)
\* Not kept by the code: see README, "Statements that do not hold".
PurgedLeavesNoEntry == purged \cap messages_fts = {}
============================================================================
