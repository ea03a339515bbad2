----------------------------- MODULE TaskLease -----------------------------
(***************************************************************************)
(* Tasks claimed under leases: the task table of the store, the HTTP       *)
(* handlers that claim and complete tasks, the heartbeat that a progress   *)
(* message carries, and the background sweep that returns expired claims   *)
(* to open and announces them.                                             *)
(*                                                                         *)
(* One SQL statement is one step: every store method takes a pooled        *)
(* connection of its own and none opens a transaction, so the statements   *)
(* of concurrent handlers and of the sweep interleave.  Timestamps that    *)
(* the code computes before a statement are captured in a step before it.  *)
(* Agents are clients that may crash at any point; the daemon may crash    *)
(* and restart, keeping only the table.                                    *)
(***************************************************************************)
EXTENDS Integers, FiniteSets

CONSTANTS
    Agents,        \* the agents that claim and report on tasks
    Tasks,         \* task ids that clients use
    Nobody,        \* SQL NULL in the column claimed_by
    Leases,        \* the values of lease_seconds that claims ask for
    DefaultLease,  \* DEFAULT_LEASE_SECONDS
    Postings,      \* the rows that clients post (most are open and unclaimed)
    MaxTime,       \* bound: the last instant of the modelled clock
    Horizon,       \* the last instant of the year 9999
    MaxFaults      \* bound: crashes of the daemon and failed statements of its sweep

NULL == -1         \* SQL NULL in the columns lease_seconds, claim_expires_at

Statuses == {"absent", "open", "claimed", "in_progress",
             "completed", "cancelled", "failed"}
Held     == {"claimed", "in_progress"}
Finished == {"completed", "cancelled", "failed"}

ASSUME ConstantsAssumption ==
    /\ Nobody \notin Agents
    /\ Leases \subseteq Nat
    /\ DefaultLease \in Nat
    /\ MaxTime \in Nat \ {0}
    /\ Horizon \in Nat
    /\ MaxFaults \in Nat
    /\ Postings \subseteq [status : Statuses \ {"absent"},
                           claimed_by : Agents \cup {Nobody},
                           lease_seconds : Nat \cup {NULL},
                           claim_expires_at : Nat \cup {NULL}]

VARIABLES
    \* the table tasks, one function per column that the lease logic reads
    status, claimed_by, lease_seconds, claim_expires_at,
    now,       \* the wall clock, in the table's resolution of one second
    req,       \* req[a]: the claim request of a that the daemon is running
    sweep,     \* the sweep that the background loop is running
    up,        \* up[a]: agent a is running
    told,      \* told[a][t]: the lease_expires_at in a's last granted claim on t, 0 if none
    owed,      \* history: tasks the last sweep reopened and has not announced
    refused,   \* history: tasks whose announcement in the last sweep was an error
    faults     \* daemon crashes and failed sweeps so far

table == <<status, claimed_by, lease_seconds, claim_expires_at>>
vars  == <<status, claimed_by, lease_seconds, claim_expires_at,
           now, req, sweep, up, told, owed, refused, faults>>

----------------------------------------------------------------------------
(* Conversions.  The table keeps timestamps as text and compares them as   *)
(* text.  chrono writes a year past 9999 with a leading plus sign, which   *)
(* sorts before every digit: such an expiry compares as 0, before all      *)
(* instants.  SQLite's strftime has no such years and yields NULL.         *)

ChronoText(at)   == IF at <= Horizon THEN at ELSE 0
StrftimeText(at) == IF at <= Horizon THEN at ELSE NULL
COALESCE(l)      == IF l = NULL THEN DefaultLease ELSE l

\* Bound on the inputs: leases that end within the modelled time, or past year 9999.
WithinBounds(l) == now + l < MaxTime \/ now + l > Horizon

\* The WHERE clauses, `at` being the timestamp bound to the statement.
\* Mutants: the last second of a lease counts as expired; NULL counts as long ago.
ExpiredAtOnce(t, at) ==
    status[t] = "claimed" /\ claim_expires_at[t] # NULL /\ claim_expires_at[t] <= at
ExpiredOrUnset(t, at) ==
    status[t] = "claimed" /\ claim_expires_at[t] < at

ExpiredClaim(t, at) ==
    /\ status[t] = "claimed"
    /\ claim_expires_at[t] # NULL
    /\ claim_expires_at[t] < at


\* Mutant: the UPDATE lacks its last clause, and the last claimant may claim again.
ClaimableByLastHolder(t, a, at) ==
    /\ status[t] # "absent"
    /\ status[t] = "open" \/ claimed_by[t] = a \/ ExpiredClaim(t, at)

Claimable(t, a, at) ==
    /\ status[t] \notin Finished \cup {"absent"}
    /\ \/ status[t] = "open"
       \/ claimed_by[t] = a
       \/ ExpiredClaim(t, at)

Renewable(t, a) ==
    /\ claimed_by[t] = a
    /\ status[t] \in Held

----------------------------------------------------------------------------
NoRequest == [pc |-> "idle"]
NoSweep   == [pc |-> "idle", at |-> 0, expired |-> {}, todo |-> {}]

Init ==
    /\ status = [t \in Tasks |-> "absent"]
    /\ claimed_by = [t \in Tasks |-> Nobody]
    /\ lease_seconds = [t \in Tasks |-> NULL]
    /\ claim_expires_at = [t \in Tasks |-> NULL]
    /\ now = 1
    /\ req = [a \in Agents |-> NoRequest]
    /\ sweep = NoSweep
    /\ up = [a \in Agents |-> TRUE]
    /\ told = [a \in Agents |-> [t \in Tasks |-> 0]]
    /\ owed = {}
    /\ refused = {}
    /\ faults = 0

\* POST /tasks: insert_task stores the row as the client wrote it; a second row
\* with the same id is a primary-key error and changes nothing.
CreateTask(t) ==
    /\ status[t] = "absent"
    /\ \E p \in Postings :
          /\ status' = [status EXCEPT ![t] = p.status]
          /\ claimed_by' = [claimed_by EXCEPT ![t] = p.claimed_by]
          /\ lease_seconds' = [lease_seconds EXCEPT ![t] = p.lease_seconds]
          /\ claim_expires_at' = [claim_expires_at EXCEPT ![t] = p.claim_expires_at]
    /\ UNCHANGED <<now, req, sweep, up, told, owed, refused, faults>>

----------------------------------------------------------------------------
(* claim_task: the timestamps, the UPDATE, and after an UPDATE that matched *)
(* nothing a second look at the row on another connection.                 *)

Pending == {"update", "reread"}

ClaimRequest(a, t, l) ==
    /\ up[a]
    /\ req[a] = NoRequest
    /\ WithinBounds(l)
    /\ req' = [req EXCEPT ![a] = [pc |-> "update", task |-> t, lease |-> l, at |-> now]]
    /\ UNCHANGED <<table, now, sweep, up, told, owed, refused, faults>>

\* The UPDATE matched: the agent, if it still runs, is told when its lease ends.
ClaimGranted(a) ==
    /\ req[a].pc = "update"
    /\ LET t == req[a].task
           expires_at == req[a].at + req[a].lease
       IN  /\ Claimable(t, a, req[a].at)
           /\ status' = [status EXCEPT ![t] = "claimed"]
           /\ claimed_by' = [claimed_by EXCEPT ![t] = a]
           /\ lease_seconds' = [lease_seconds EXCEPT ![t] = req[a].lease]
           /\ claim_expires_at' = [claim_expires_at EXCEPT ![t] = ChronoText(expires_at)]
           /\ told' = IF up[a] THEN [told EXCEPT ![a][t] = expires_at] ELSE told
    /\ req' = [req EXCEPT ![a] = NoRequest]
    /\ UNCHANGED <<now, sweep, up, owed, refused, faults>>

ClaimRefused(a) ==
    /\ req[a].pc = "update"
    /\ ~Claimable(req[a].task, a, req[a].at)
    /\ req' = [req EXCEPT ![a].pc = "reread"]
    /\ UNCHANGED <<table, now, sweep, up, told, owed, refused, faults>>

\* get_task chooses between 404, 409 and 400 from the row as it is by now.
Answer(t) ==
    CASE status[t] = "absent" -> "not_found"
      [] status[t] \in Held   -> "conflict"
      [] OTHER                -> "not_claimable"

ClaimAnswered(a) ==
    /\ req[a].pc = "reread"
    /\ req' = [req EXCEPT ![a] = NoRequest]
    /\ UNCHANGED <<table, now, sweep, up, told, owed, refused, faults>>

----------------------------------------------------------------------------
\* handle_publish of _task.<t>.progress: renew_claim for the publisher.
Progress(a, t) ==
    /\ up[a]
    /\ Renewable(t, a)
    /\ WithinBounds(COALESCE(lease_seconds[t]))
    /\ claim_expires_at' = [claim_expires_at EXCEPT ![t] =
                               StrftimeText(now + COALESCE(lease_seconds[t]))]
    /\ UNCHANGED <<status, claimed_by, lease_seconds, now, req, sweep, up, told, owed, refused, faults>>

\* Mutant: another spelling of the status, which no other statement knows.
CompleteTaskAsDone(t) ==
    /\ status[t] # "absent"
    /\ status' = [status EXCEPT ![t] = "done"]
    /\ claim_expires_at' = [claim_expires_at EXCEPT ![t] = NULL]
    /\ UNCHANGED <<claimed_by, lease_seconds, now, req, sweep, up, told, owed, refused, faults>>

\* POST /tasks/:id/complete: any caller, whatever the status of the row.
CompleteTask(t) ==
    /\ status[t] # "absent"
    /\ status' = [status EXCEPT ![t] = "completed"]
    /\ claim_expires_at' = [claim_expires_at EXCEPT ![t] = NULL]
    /\ UNCHANGED <<claimed_by, lease_seconds, now, req, sweep, up, told, owed, refused, faults>>

----------------------------------------------------------------------------
(* The background loop: release_expired_claims takes a timestamp, selects   *)
(* the expired rows, and reopens them one UPDATE at a time under the same  *)
(* condition; then release_expired_leases announces every SELECTED row.    *)

\* Mutant: the timestamp of the sweep is not taken anew.
SweepTickOldClock ==
    /\ sweep.pc = "idle"
    /\ sweep' = [sweep EXCEPT !.pc = "select"]
    /\ owed' = {}
    /\ refused' = {}
    /\ UNCHANGED <<table, now, req, up, told, faults>>

SweepTick ==
    /\ sweep.pc = "idle"
    /\ sweep' = [sweep EXCEPT !.pc = "select", !.at = now]
    /\ owed' = {}
    /\ refused' = {}
    /\ UNCHANGED <<table, now, req, up, told, faults>>

SweepSelect ==
    /\ sweep.pc = "select"
    /\ LET expired == {t \in Tasks : ExpiredClaim(t, sweep.at)}
       IN  sweep' = IF expired = {} THEN NoSweep
                    ELSE [sweep EXCEPT !.pc = "release", !.expired = expired, !.todo = expired]
    /\ UNCHANGED <<table, now, req, up, told, owed, refused, faults>>

\* The next phase once the loop over the rows has run through todo.
Advance(t) ==
    IF sweep.todo # {t} THEN [sweep EXCEPT !.todo = @ \ {t}]
    ELSE IF sweep.pc = "release" THEN [sweep EXCEPT !.pc = "announce", !.todo = sweep.expired]
    ELSE NoSweep

\* Mutant: the UPDATE trusts the SELECT and does not test the lease again.
SweepReleaseListed(t) ==
    /\ sweep.pc = "release"
    /\ t \in sweep.todo
    /\ sweep' = Advance(t)
    /\ status' = [status EXCEPT ![t] = "open"]
    /\ claimed_by' = [claimed_by EXCEPT ![t] = Nobody]
    /\ claim_expires_at' = [claim_expires_at EXCEPT ![t] = NULL]
    /\ owed' = owed \cup {t}
    /\ UNCHANGED <<lease_seconds, now, req, up, told, refused, faults>>

SweepRelease(t) ==
    /\ sweep.pc = "release"
    /\ t \in sweep.todo
    /\ sweep' = Advance(t)
    /\ IF ExpiredClaim(t, sweep.at)
       THEN /\ status' = [status EXCEPT ![t] = "open"]
            /\ claimed_by' = [claimed_by EXCEPT ![t] = Nobody]
            /\ claim_expires_at' = [claim_expires_at EXCEPT ![t] = NULL]
            /\ owed' = owed \cup {t}
       ELSE UNCHANGED <<status, claimed_by, claim_expires_at, owed>>
    /\ UNCHANGED <<lease_seconds, now, req, up, told, refused, faults>>

\* handle_publish of _task.<t>.reclaimed, which broadcasts it or returns an error: the
\* id makes no valid topic, a schema rejects the body, or its lookup fails.
Published(t)  == owed' = owed \ {t} /\ UNCHANGED refused
PublishErr(t) == refused' = refused \cup {t} /\ UNCHANGED owed

\* Mutant: the loop returns at the first publish that fails.
AnnounceUntilError(t) ==
    /\ sweep.pc = "announce"
    /\ t \in sweep.todo
    /\ \/ sweep' = Advance(t) /\ Published(t)
       \/ sweep' = NoSweep /\ PublishErr(t)
    /\ UNCHANGED <<table, now, req, up, told, faults>>

\* A failed publish is logged, and the loop goes on; nobody tries again.
AnnounceReclaimed(t) ==
    /\ sweep.pc = "announce"
    /\ t \in sweep.todo
    /\ sweep' = Advance(t)
    /\ Published(t) \/ PublishErr(t)
    /\ UNCHANGED <<table, now, req, up, told, faults>>

\* A statement of the sweep fails (the table stays locked past busy_timeout):
\* the whole call returns Err, and what it had reopened is not announced.
SweepError ==
    /\ faults < MaxFaults
    /\ sweep.pc \in {"select", "release"}
    /\ sweep' = NoSweep
    /\ faults' = faults + 1
    /\ UNCHANGED <<table, now, req, up, told, owed, refused>>

----------------------------------------------------------------------------
Tick ==
    /\ now < MaxTime
    /\ now' = now + 1
    /\ UNCHANGED <<table, req, sweep, up, told, owed, refused, faults>>

\* An agent dies and forgets what it held; a request the daemon is running goes on.
AgentCrash(a) ==
    /\ up[a]
    /\ up' = [up EXCEPT ![a] = FALSE]
    /\ told' = [told EXCEPT ![a] = [t \in Tasks |-> 0]]
    /\ UNCHANGED <<table, now, req, sweep, owed, refused, faults>>

\* Bound: it comes back, under the same name, once its last request has ended.
AgentRestart(a) ==
    /\ ~up[a]
    /\ req[a] = NoRequest
    /\ up' = [up EXCEPT ![a] = TRUE]
    /\ UNCHANGED <<table, now, req, sweep, told, owed, refused, faults>>

\* The daemon dies and restarts: requests and the sweep are gone, the table stays.
DaemonCrash ==
    /\ faults < MaxFaults
    /\ faults' = faults + 1
    /\ req' = [a \in Agents |-> NoRequest]
    /\ sweep' = NoSweep
    /\ UNCHANGED <<table, now, up, told, owed, refused>>

ClaimStep(a) == ClaimGranted(a) \/ ClaimRefused(a) \/ ClaimAnswered(a)

SweepStep ==
    \/ SweepTick
    \/ SweepSelect
    \/ \E t \in Tasks : SweepRelease(t) \/ AnnounceReclaimed(t)

Next ==
    \/ \E t \in Tasks : CreateTask(t) \/ CompleteTask(t)
    \/ \E a \in Agents, t \in Tasks : Progress(a, t)
    \/ \E a \in Agents, t \in Tasks, l \in Leases : ClaimRequest(a, t, l)
    \/ \E a \in Agents : ClaimStep(a)
    \/ SweepStep
    \/ SweepError
    \/ Tick
    \/ \E a \in Agents : AgentCrash(a) \/ AgentRestart(a)
    \/ DaemonCrash

Spec == Init /\ [][Next]_vars

\* The clock runs, the runtime finishes the handlers it started, and the
\* loop of the sweeper never ends; agents owe nothing.
Fairness ==
    /\ WF_vars(Tick)
    /\ \A a \in Agents : WF_vars(ClaimStep(a))
    /\ WF_vars(SweepStep)

FairSpec == Spec /\ Fairness

----------------------------------------------------------------------------
Request ==
    [pc : Pending, task : Tasks, lease : Leases, at : Nat]
        \cup {NoRequest}

TypeOK ==
    /\ status \in [Tasks -> Statuses]
    /\ claimed_by \in [Tasks -> Agents \cup {Nobody}]
    /\ lease_seconds \in [Tasks -> Nat \cup {NULL}]
    /\ claim_expires_at \in [Tasks -> Nat \cup {NULL}]
    /\ now \in Nat
    /\ req \in [Agents -> Request]
    /\ sweep \in [pc : {"idle", "select", "release", "announce"}, at : Nat,
                  expired : SUBSET Tasks, todo : SUBSET Tasks]
    /\ up \in [Agents -> BOOLEAN]
    /\ told \in [Agents -> [Tasks -> Nat]]
    /\ owed \in SUBSET Tasks
    /\ refused \in SUBSET Tasks
    /\ faults \in Nat

\* An agent that goes by the lease_expires_at of its last granted claim is alone:
\* until that instant no other agent was granted a claim on the task that also runs
\* on, whatever the delays between timestamps and statements, renewals, sweeps,
\* crashes and re-claims.
ToldLeasesExclusive ==
    \A t \in Tasks, a, b \in Agents :
        told[a][t] >= now /\ told[b][t] >= now => a = b

\* The types, and leases that exclude each other.
LeaseInv == TypeOK /\ ToldLeasesExclusive

Live(t) ==
    /\ status[t] \in Held
    /\ claim_expires_at[t] = NULL \/ claim_expires_at[t] >= now

\* As long as a lease has not expired, no claim of another agent and no sweep takes
\* the task from its holder: it leaves only by being finished.  A sweep works from a
\* list that is older than the heartbeat which renewed the lease.
LiveLeaseKept ==
    [][\A t \in Tasks : Live(t) =>
          \/ status'[t] \in Finished
          \/ status'[t] \in Held /\ claimed_by'[t] = claimed_by[t]]_vars

\* A task completed while a sweep or a claim of it is on its way stays completed.
FinishedStays ==
    [][\A t \in Tasks : status[t] \in Finished => status'[t] \in Finished]_vars

\* The 400 of a claim says that the task cannot be claimed any more: it is finished.
\* Not kept by the code: see README, "Statements that do not hold".
RefusalIsFinal ==
    [][\A a \in Agents : ClaimAnswered(a) /\ Answer(req[a].task) = "not_claimable"
            => status[req[a].task] \in Finished]_vars

\* A sweep that runs to its end has announced every task it reopened, but for those
\* whose own announcement was an error: whatever claims, heartbeats and completions
\* overtook it, and however the publishes before fared.  One that is cut, by a crash or
\* a failing statement, leaves what it reopened unannounced.
ReopenedIsAnnounced ==
    [][sweep.pc # "idle" /\ sweep'.pc = "idle" /\ faults' = faults
          => owed' \subseteq refused']_vars

\* The sweep announces only tasks it returned to open.
\* Not kept by the code: see README, "Statements that do not hold".
AnnouncesOnlyReleased ==
    sweep.pc = "announce" => sweep.todo \subseteq owed

\* A crashed agent does not strand a task it claimed under a lease: the claim ends.
CrashedClaimEnds ==
    \A t \in Tasks, a \in Agents :
        (status[t] = "claimed" /\ claimed_by[t] = a /\ claim_expires_at[t] # NULL /\ ~up[a])
            ~> ~(status[t] = "claimed" /\ claimed_by[t] = a)

----------------------------------------------------------------------------
\* The board that the table implements.
Phase(t) ==
    CASE status[t] \in Held     -> "held"
      [] status[t] \in Finished -> "finished"
      [] OTHER                  -> status[t]

BoardPhase  == [t \in Tasks |-> Phase(t)]
BoardHolder == [t \in Tasks |-> IF status[t] \in Held THEN claimed_by[t] ELSE Nobody]
BoardLive   == [t \in Tasks |-> Live(t)]

Board == INSTANCE TaskBoard
    WITH phase <- BoardPhase, holder <- BoardHolder, live <- BoardLive

\* The table, whatever happens between its statements, never does what the board forbids.
ImplementsBoard == Board!BoardSpec
============================================================================
