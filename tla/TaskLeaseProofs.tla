-------------------------- MODULE TaskLeaseProofs --------------------------
(***************************************************************************)
(* Theorems about the two kinds of work the daemon keeps for others: tasks *)
(* (TaskLease), for all sets of agents, tasks, leases and posted rows and  *)
(* for every bound on time and faults, and the decisions that people take  *)
(* (Decisions), for any decisions, options and size of a poll.             *)
(***************************************************************************)
EXTENDS TaskLease, Decisions, TLAPS

USE ConstantsAssumption DEF NULL

\* A request that is under way has its task, its lease and its timestamp.
LEMMA PendingRequest ==
    ASSUME TypeOK, NEW a \in Agents, req[a].pc \in Pending
    PROVE  /\ req[a].task \in Tasks
           /\ req[a].lease \in Nat
           /\ req[a].at \in Nat
           /\ req[a] # NoRequest
  <1>1. req[a] \in Request
    BY DEF TypeOK
  <1>2. req[a] # NoRequest
    BY DEF NoRequest, Pending
  <1>3. req[a] \in [pc : Pending, task : Tasks, lease : Leases, at : Nat]
    BY <1>1, <1>2 DEF Request
  <1>4. QED
    BY <1>2, <1>3

----------------------------------------------------------------------------
(* Type correctness.                                                       *)

\* Every step keeps the types, whatever rows clients post.
LEMMA TypeStep == TypeOK /\ [Next]_vars => TypeOK'
  <1> SUFFICES ASSUME TypeOK, [Next]_vars PROVE TypeOK'
    OBVIOUS
  <1> USE DEF TypeOK, table
  <1>1. CASE UNCHANGED vars
    BY <1>1 DEF vars
  <1>2. ASSUME NEW t \in Tasks, CreateTask(t) PROVE TypeOK'
    BY <1>2 DEF CreateTask
  <1>3. ASSUME NEW t \in Tasks, CompleteTask(t) PROVE TypeOK'
    BY <1>3 DEF CompleteTask, Statuses
  <1>4. ASSUME NEW a \in Agents, NEW t \in Tasks, Progress(a, t) PROVE TypeOK'
    BY <1>4 DEF Progress, StrftimeText, COALESCE
  <1>5. ASSUME NEW a \in Agents, NEW t \in Tasks, NEW l \in Leases, ClaimRequest(a, t, l)
        PROVE TypeOK'
    BY <1>5 DEF ClaimRequest, Request, Pending
  <1>6. ASSUME NEW a \in Agents, ClaimGranted(a) PROVE TypeOK'
    <2> DEFINE expires_at == req[a].at + req[a].lease
    <2>1. req[a].task \in Tasks /\ expires_at \in Nat /\ req[a].lease \in Nat
      BY <1>6, PendingRequest DEF ClaimGranted, Pending
    <2>2. ChronoText(expires_at) \in Nat
      BY <2>1 DEF ChronoText
    <2>3. told' \in [Agents -> [Tasks -> Nat]]
      BY <1>6, <2>1 DEF ClaimGranted
    <2>4. req' \in [Agents -> Request]
      BY <1>6 DEF ClaimGranted, Request
    <2>5. /\ status' \in [Tasks -> Statuses]
          /\ claimed_by' \in [Tasks -> Agents \cup {Nobody}]
          /\ lease_seconds' \in [Tasks -> Nat \cup {NULL}]
          /\ claim_expires_at' \in [Tasks -> Nat \cup {NULL}]
      BY <1>6, <2>1, <2>2 DEF ClaimGranted, Statuses
    <2>6. QED
      BY <1>6, <2>3, <2>4, <2>5 DEF ClaimGranted
  <1>7. ASSUME NEW a \in Agents, ClaimRefused(a) PROVE TypeOK'
    <2>1. req[a] \in [pc : Pending, task : Tasks, lease : Leases, at : Nat]
      BY <1>7 DEF ClaimRefused, Request, NoRequest
    <2>2. [req[a] EXCEPT !.pc = "reread"] \in Request
      BY <2>1 DEF Request, Pending
    <2>3. QED
      BY <1>7, <2>2 DEF ClaimRefused
  <1>8. ASSUME NEW a \in Agents, ClaimAnswered(a) PROVE TypeOK'
    BY <1>8 DEF ClaimAnswered, Request
  <1>9. CASE SweepTick
    BY <1>9 DEF SweepTick
  <1>10. CASE SweepSelect
    BY <1>10 DEF SweepSelect, NoSweep
  <1>11. ASSUME NEW t \in Tasks, SweepRelease(t) PROVE TypeOK'
    <2>1. sweep' \in [pc : {"idle", "select", "release", "announce"}, at : Nat,
                      expired : SUBSET Tasks, todo : SUBSET Tasks]
      BY <1>11 DEF SweepRelease, Advance, NoSweep
    <2>2. /\ status' \in [Tasks -> Statuses]
          /\ claimed_by' \in [Tasks -> Agents \cup {Nobody}]
          /\ claim_expires_at' \in [Tasks -> Nat \cup {NULL}]
          /\ owed' \in SUBSET Tasks
      <3>1. CASE ExpiredClaim(t, sweep.at)
        BY SMTT(30), <1>11, <3>1 DEF SweepRelease, Statuses
      <3>2. CASE ~ExpiredClaim(t, sweep.at)
        BY <1>11, <3>2 DEF SweepRelease
      <3>3. QED
        BY <3>1, <3>2
    <2>3. QED
      BY <1>11, <2>1, <2>2 DEF SweepRelease
  <1>12. ASSUME NEW t \in Tasks, AnnounceReclaimed(t) PROVE TypeOK'
    BY <1>12 DEF AnnounceReclaimed, Advance, NoSweep, Published, PublishErr
  <1>13. CASE SweepError
    BY <1>13 DEF SweepError, NoSweep
  <1>14. CASE Tick
    BY <1>14 DEF Tick
  <1>15. ASSUME NEW a \in Agents, AgentCrash(a) PROVE TypeOK'
    BY <1>15 DEF AgentCrash
  <1>16. ASSUME NEW a \in Agents, AgentRestart(a) PROVE TypeOK'
    BY <1>16 DEF AgentRestart
  <1>17. CASE DaemonCrash
    BY <1>17 DEF DaemonCrash, NoSweep, Request
  <1>18. QED
    BY <1>1, <1>2, <1>3, <1>4, <1>5, <1>6, <1>7, <1>8, <1>9, <1>10, <1>11, <1>12, <1>13,
       <1>14, <1>15, <1>16, <1>17 DEF Next, ClaimStep, SweepStep

\* The columns, requests, sweep and clock of TaskLease always have their types.
THEOREM TypeCorrect == Spec => []TypeOK
  <1>1. Init => TypeOK
    BY DEF Init, TypeOK, Request, NoSweep, Statuses
  <1>2. QED
    BY <1>1, TypeStep, PTL DEF Spec
----------------------------------------------------------------------------
(* Facts about single steps that several theorems use.                     *)

\* Timestamps that are captured for a later statement are never in the future.
StampsPast ==
    /\ \A a \in Agents : req[a].pc \in Pending => req[a].at <= now
    /\ sweep.at <= now

LEMMA StampsPastStep == TypeOK /\ StampsPast /\ [Next]_vars => StampsPast'
  <1> SUFFICES ASSUME TypeOK, StampsPast, [Next]_vars PROVE StampsPast'
    OBVIOUS
  <1> USE DEF StampsPast, TypeOK
  <1>0. \A a \in Agents : req[a].pc \in Pending => req[a].at \in Nat
    BY PendingRequest
  <1>1. CASE UNCHANGED <<now, req, sweep>>
    BY <1>1
  <1>2. ASSUME NEW a \in Agents, NEW t \in Tasks, NEW l \in Leases, ClaimRequest(a, t, l)
        PROVE StampsPast'
    BY <1>2 DEF ClaimRequest
  <1>3. ASSUME NEW a \in Agents, ClaimGranted(a) \/ ClaimAnswered(a) PROVE StampsPast'
    BY <1>3 DEF ClaimGranted, ClaimAnswered, NoRequest, Pending
  <1>4. ASSUME NEW a \in Agents, ClaimRefused(a) PROVE StampsPast'
    BY <1>4 DEF ClaimRefused, Pending
  <1>5. CASE SweepTick
    BY <1>5 DEF SweepTick
  <1>6. CASE SweepSelect
    BY <1>6 DEF SweepSelect, NoSweep
  <1>7. ASSUME NEW t \in Tasks, SweepRelease(t) \/ AnnounceReclaimed(t) PROVE StampsPast'
    <2>0. sweep' = Advance(t)
      BY <1>7 DEF SweepRelease, AnnounceReclaimed
    <2>1. sweep'.at \in {0, sweep.at}
      BY <2>0 DEF Advance, NoSweep
    <2>2. UNCHANGED <<now, req>>
      BY <1>7 DEF SweepRelease, AnnounceReclaimed
    <2>3. QED
      BY <2>1, <2>2
  <1>8. CASE SweepError
    BY <1>8 DEF SweepError, NoSweep
  <1>9. CASE Tick
    BY <1>9, <1>0 DEF Tick
  <1>10. CASE DaemonCrash
    BY <1>10 DEF DaemonCrash, NoSweep, NoRequest, Pending
  <1>11. CASE UNCHANGED vars
    BY <1>1, <1>11 DEF vars
  <1>12. ASSUME NEW t \in Tasks, CreateTask(t) \/ CompleteTask(t) PROVE StampsPast'
    BY <1>1, <1>12 DEF CreateTask, CompleteTask
  <1>13. ASSUME NEW a \in Agents, NEW t \in Tasks, Progress(a, t) PROVE StampsPast'
    BY <1>1, <1>13 DEF Progress
  <1>14. ASSUME NEW a \in Agents, AgentCrash(a) \/ AgentRestart(a) PROVE StampsPast'
    BY <1>1, <1>14 DEF AgentCrash, AgentRestart
  <1>15. QED
    BY <1>2, <1>3, <1>4, <1>5, <1>6, <1>7, <1>8, <1>9, <1>10, <1>11, <1>12, <1>13, <1>14
       DEF Next, ClaimStep, SweepStep
----------------------------------------------------------------------------
(* Whose lease is whose.                                                   *)

\* No claim asks for a lease that ends after the year 9999.
NoFarLeases == \A l \in Leases : MaxTime + l <= Horizon

\* The clock stays within its bound, and so do the timestamps taken from it.
ClockBound == now \in 1 .. MaxTime

\* What an agent was told is backed by the row: the row is the agent's own claim,
\* its lease ends no sooner, and renewing it now would not end it sooner either.
Backed(a, t) ==
    told[a][t] >= now =>
        \/ status[t] \in Finished
        \/ /\ status[t] = "claimed"
           /\ claimed_by[t] = a
           /\ claim_expires_at[t] = NULL \/ claim_expires_at[t] >= told[a][t]
           /\ lease_seconds[t] # NULL
           /\ told[a][t] <= now + lease_seconds[t]

ToldInv ==
    /\ \A a \in Agents, t \in Tasks : Backed(a, t)
    /\ \A a \in Agents, t \in Tasks : ~up[a] => told[a][t] = 0

LEMMA ClockBoundStep == ClockBound /\ [Next]_vars => ClockBound'
  BY DEF ClockBound, vars, Next, ClaimStep, SweepStep, CreateTask, CompleteTask, Progress,
         ClaimRequest, ClaimGranted, ClaimRefused, ClaimAnswered, SweepTick, SweepSelect,
         SweepRelease, AnnounceReclaimed, SweepError, Tick, AgentCrash, AgentRestart,
         DaemonCrash

\* An agent that is down has forgotten what it was told.
LEMMA DownStep ==
    ASSUME TypeOK, ToldInv, [Next]_vars, NEW a \in Agents, NEW t \in Tasks, ~up'[a]
    PROVE  told'[a][t] = 0
  <1>1. CASE UNCHANGED <<up, told>>
    BY <1>1 DEF ToldInv
  <1>2. ASSUME NEW b \in Agents, ClaimGranted(b) PROVE told'[a][t] = 0
    BY <1>2 DEF ClaimGranted, ToldInv, TypeOK
  <1>3. ASSUME NEW b \in Agents, AgentCrash(b) PROVE told'[a][t] = 0
    BY <1>3 DEF AgentCrash, ToldInv, TypeOK
  <1>4. ASSUME NEW b \in Agents, AgentRestart(b) PROVE told'[a][t] = 0
    BY <1>4 DEF AgentRestart, ToldInv, TypeOK
  <1>5. QED
    BY <1>1, <1>2, <1>3, <1>4
       DEF vars, Next, ClaimStep, SweepStep, CreateTask, CompleteTask, Progress,
           ClaimRequest, ClaimRefused, ClaimAnswered, SweepTick, SweepSelect, SweepRelease,
           AnnounceReclaimed, SweepError, Tick, DaemonCrash

\* A claim is granted only if no other agent still goes by a lease on the task.
LEMMA GrantedAlone ==
    ASSUME TypeOK, StampsPast, ToldInv, NEW a \in Agents, ClaimGranted(a),
           NEW b \in Agents, told[b][req[a].task] >= now
    PROVE  b = a
  <1> DEFINE t  == req[a].task
             at == req[a].at
  <1>1. t \in Tasks /\ at \in Nat /\ at <= now
    BY PendingRequest DEF ClaimGranted, Pending, StampsPast
  <1>2. Backed(b, t)
    BY <1>1 DEF ToldInv
  <1>3. status[t] \notin Finished /\ Claimable(t, a, at)
    BY DEF ClaimGranted, Claimable
  <1>4. status[t] = "claimed" /\ claimed_by[t] = b /\ ~ExpiredClaim(t, at)
    BY <1>1, <1>2, <1>3 DEF Backed, ExpiredClaim, TypeOK
  <1>5. QED
    BY <1>3, <1>4 DEF Claimable

LEMMA ToldInvStep ==
    ASSUME NoFarLeases, TypeOK, TypeOK', StampsPast, ClockBound, ToldInv, [Next]_vars
    PROVE  ToldInv'
  <1> SUFFICES ASSUME NEW b \in Agents, NEW u \in Tasks, told'[b][u] >= now'
               PROVE  Backed(b, u)'
    BY DownStep DEF ToldInv, Backed
  <1> USE DEF TypeOK
  <1>0. Backed(b, u)
    BY DEF ToldInv
  <1>1. CASE UNCHANGED <<table, now, told>>
    BY <1>0, <1>1 DEF Backed, table
  <1>2. ASSUME NEW t \in Tasks, CreateTask(t) PROVE Backed(b, u)'
    BY <1>0, <1>2 DEF Backed, CreateTask, Finished
  <1>3. ASSUME NEW t \in Tasks, CompleteTask(t) PROVE Backed(b, u)'
    BY <1>0, <1>3 DEF Backed, CompleteTask, Finished
  <1>4. ASSUME NEW a \in Agents, NEW t \in Tasks, Progress(a, t) PROVE Backed(b, u)'
    BY <1>0, <1>4 DEF Backed, Progress, StrftimeText, COALESCE, Finished
  <1>5. ASSUME NEW a \in Agents, ClaimGranted(a) PROVE Backed(b, u)'
    <2> DEFINE t == req[a].task
               at == req[a].at
               l  == req[a].lease
    <2>1. t \in Tasks /\ at \in Nat /\ l \in Nat /\ at <= now
      BY <1>5, PendingRequest DEF ClaimGranted, Pending, StampsPast
    <2>2. ChronoText(at + l) = at + l
      <3>1. l \in Leases
        BY <1>5 DEF ClaimGranted, Request, NoRequest
      <3>2. MaxTime + l <= Horizon
        BY <3>1 DEF NoFarLeases
      <3>3. QED
        BY <2>1, <3>2 DEF ChronoText, ClockBound
    <2>3. CASE u # t
      BY <1>0, <1>5, <2>1, <2>3 DEF Backed, ClaimGranted
    <2>4. CASE u = t /\ b # a
      <3>1. told[b][u] >= now
        BY <1>5, <2>4 DEF ClaimGranted
      <3>2. QED
        BY <1>5, <2>4, <3>1, GrantedAlone
    <2>5. CASE u = t /\ b = a
      <3>1. up[a] /\ told'[a][u] = at + l
        <4>1. now >= 1 /\ now' = now
          BY <1>5 DEF ClaimGranted, ClockBound
        <4>2. ~up[a] => told'[a][u] = 0
          BY <1>5, <2>5 DEF ClaimGranted, ToldInv
        <4>3. up[a]
          BY <2>5, <4>1, <4>2
        <4>4. QED
          BY <1>5, <2>5, <4>3 DEF ClaimGranted
      <3>2. QED
        BY <1>5, <2>1, <2>2, <2>5, <3>1 DEF ClaimGranted, Backed
    <2>6. QED
      BY <2>3, <2>4, <2>5
  <1>6. ASSUME NEW t \in Tasks, SweepRelease(t) PROVE Backed(b, u)'
    <2>1. CASE ExpiredClaim(t, sweep.at)
      <3>1. told[b][u] >= now /\ now' = now
        BY <1>6 DEF SweepRelease
      <3>2. t # u \/ status[u] \in Finished
        BY <1>0, <2>1, <3>1 DEF Backed, ExpiredClaim, StampsPast
      <3>3. t # u
        BY <3>2, <2>1 DEF ExpiredClaim, Finished
      <3>4. QED
        BY <1>0, <1>6, <2>1, <3>3 DEF Backed, SweepRelease
    <2>2. CASE ~ExpiredClaim(t, sweep.at)
      BY <1>1, <1>6, <2>2 DEF SweepRelease, table
    <2>3. QED
      BY <2>1, <2>2
  <1>7. CASE Tick
    BY <1>0, <1>7 DEF Backed, Tick, table
  <1>8. ASSUME NEW a \in Agents, AgentCrash(a) PROVE Backed(b, u)'
    BY <1>0, <1>8 DEF Backed, AgentCrash, table
  <1>9. CASE UNCHANGED vars
    BY <1>1, <1>9 DEF vars, table
  <1>10. ASSUME NEW a \in Agents, NEW t \in Tasks, NEW l \in Leases, ClaimRequest(a, t, l)
         PROVE Backed(b, u)'
    BY <1>1, <1>10 DEF ClaimRequest
  <1>11. ASSUME NEW a \in Agents, ClaimRefused(a) \/ ClaimAnswered(a) \/ AgentRestart(a)
         PROVE Backed(b, u)'
    BY <1>1, <1>11 DEF ClaimRefused, ClaimAnswered, AgentRestart
  <1>12. ASSUME NEW t \in Tasks, AnnounceReclaimed(t) PROVE Backed(b, u)'
    BY <1>1, <1>12 DEF AnnounceReclaimed
  <1>13. CASE SweepTick \/ SweepSelect \/ SweepError \/ DaemonCrash
    BY <1>1, <1>13 DEF SweepTick, SweepSelect, SweepError, DaemonCrash
  <1>14. QED
    BY <1>2, <1>3, <1>4, <1>5, <1>6, <1>7, <1>8, <1>9, <1>10, <1>11, <1>12, <1>13
       DEF Next, ClaimStep, SweepStep
LEMMA ExclusiveStep ==
    ASSUME TypeOK, TypeOK', StampsPast, ClockBound, ToldInv, ToldLeasesExclusive, [Next]_vars
    PROVE  ToldLeasesExclusive'
  <1> SUFFICES ASSUME NEW t \in Tasks, NEW a \in Agents, NEW b \in Agents,
                      told'[a][t] >= now', told'[b][t] >= now'
               PROVE  a = b
    BY DEF ToldLeasesExclusive
  <1> USE DEF TypeOK
  <1>1. CASE told' = told /\ now <= now'
    <2>1. told[a][t] \in Nat /\ told[b][t] \in Nat /\ now \in Nat /\ now' \in Nat
      OBVIOUS
    <2>2. told[a][t] >= now /\ told[b][t] >= now
      BY <1>1, <2>1
    <2>3. QED
      BY <2>2 DEF ToldLeasesExclusive
  <1>2. ASSUME NEW c \in Agents, ClaimGranted(c) PROVE a = b
    <2>1. \A d \in Agents : d # c \/ req[c].task # t => told'[d][t] = told[d][t]
      BY <1>2, PendingRequest DEF ClaimGranted, Pending
    <2>2. now' = now
      BY <1>2 DEF ClaimGranted
    <2>3. CASE req[c].task # t
      BY <2>1, <2>2, <2>3 DEF ToldLeasesExclusive
    <2>4. CASE req[c].task = t
      <3>1. \A d \in Agents : told'[d][t] >= now => d = c
        BY <1>2, <2>1, <2>4, GrantedAlone
      <3>2. QED
        BY <2>2, <3>1
    <2>5. QED
      BY <2>3, <2>4
  <1>3. ASSUME NEW c \in Agents, AgentCrash(c) PROVE a = b
    <2>1. told[a][t] >= now /\ told[b][t] >= now
      <3>1. \A d \in Agents : told'[d][t] = told[d][t] \/ told'[d][t] = 0
        BY <1>3 DEF AgentCrash, TypeOK
      <3>2. now' = now /\ now >= 1
        BY <1>3 DEF AgentCrash, ClockBound
      <3>3. told'[a][t] # 0 /\ told'[b][t] # 0
        BY <3>2
      <3>4. QED
        BY <3>1, <3>2, <3>3
    <2>2. QED
      BY <2>1 DEF ToldLeasesExclusive
  <1>4. CASE Tick
    BY <1>1, <1>4 DEF Tick
  <1>5. QED
    BY <1>1, <1>2, <1>3, <1>4
       DEF vars, Next, ClaimStep, SweepStep, CreateTask, CompleteTask, Progress,
           ClaimRequest, ClaimRefused, ClaimAnswered, SweepTick, SweepSelect, SweepRelease,
           AnnounceReclaimed, SweepError, AgentRestart, DaemonCrash

\* As long as leases end before the year 10000, two agents that go by the expiry they
\* were told never both hold a task: claims, renewals, stale timestamps, sweeps and
\* crashes in any order.
THEOREM LeaseExclusion == NoFarLeases => (Spec => []LeaseInv)
  <1> SUFFICES ASSUME NoFarLeases PROVE Spec => []LeaseInv
    OBVIOUS
  <1> DEFINE Inv == TypeOK /\ StampsPast /\ ClockBound /\ ToldInv /\ ToldLeasesExclusive
  <1>1. Init => Inv
    BY DEF Init, TypeOK, StampsPast, ClockBound, ToldInv, Backed, Request, NoRequest, NoSweep,
           Statuses, Pending, ToldLeasesExclusive
  <1>2. Inv /\ [Next]_vars => Inv'
    BY TypeStep, StampsPastStep, ClockBoundStep, ToldInvStep, ExclusiveStep
  <1>3. Inv => LeaseInv
    BY DEF LeaseInv
  <1>4. QED
    BY <1>1, <1>2, <1>3, PTL DEF Spec
----------------------------------------------------------------------------
(* What no step does to a live lease or to a finished task.                *)

LEMMA LiveLeaseStep ==
    ASSUME TypeOK, StampsPast, [Next]_vars, NEW u \in Tasks, Live(u)
    PROVE  \/ status'[u] \in Finished
           \/ status'[u] \in Held /\ claimed_by'[u] = claimed_by[u]
  <1> DEFINE Kept == \/ status'[u] \in Finished
                     \/ status'[u] \in Held /\ claimed_by'[u] = claimed_by[u]
  <1>0. status[u] \in Held /\ \A at \in Nat : at <= now => ~ExpiredClaim(u, at)
    BY DEF Live, ExpiredClaim, TypeOK
  <1>1. CASE UNCHANGED <<status, claimed_by>>
    BY <1>0, <1>1
  <1>2. ASSUME NEW t \in Tasks, CreateTask(t) PROVE Kept
    BY <1>0, <1>2 DEF CreateTask, TypeOK, Held
  <1>3. ASSUME NEW t \in Tasks, CompleteTask(t) PROVE Kept
    BY <1>0, <1>3 DEF CompleteTask, TypeOK, Finished
  <1>4. ASSUME NEW a \in Agents, ClaimGranted(a) PROVE Kept
    <2> DEFINE t == req[a].task
    <2>1. t \in Tasks /\ req[a].at \in Nat /\ req[a].at <= now
      BY <1>4, PendingRequest DEF ClaimGranted, Pending, StampsPast
    <2>2. CASE t # u
      BY <1>0, <1>4, <2>1, <2>2 DEF ClaimGranted, TypeOK
    <2>3. CASE t = u
      <3>1. claimed_by[u] = a
        BY <1>0, <1>4, <2>1, <2>3 DEF ClaimGranted, Claimable, Held
      <3>2. status'[u] = "claimed" /\ claimed_by'[u] = a
        BY <1>4, <2>1, <2>3 DEF ClaimGranted, TypeOK
      <3>3. QED
        BY <3>1, <3>2 DEF Held
    <2>4. QED
      BY <2>2, <2>3
  <1>5. ASSUME NEW t \in Tasks, SweepRelease(t) PROVE Kept
    <2>1. CASE ExpiredClaim(t, sweep.at)
      <3>1. t # u
        BY <1>0, <2>1 DEF StampsPast, TypeOK
      <3>2. QED
        BY <1>0, <1>5, <2>1, <3>1 DEF SweepRelease, TypeOK
    <2>2. CASE ~ExpiredClaim(t, sweep.at)
      BY <1>1, <1>5, <2>2 DEF SweepRelease
    <2>3. QED
      BY <2>1, <2>2
  <1>6. QED
    BY <1>1, <1>2, <1>3, <1>4, <1>5
       DEF vars, table, Next, ClaimStep, SweepStep, Progress, ClaimRequest, ClaimRefused,
           ClaimAnswered, SweepTick, SweepSelect, AnnounceReclaimed, SweepError, Tick,
           AgentCrash, AgentRestart, DaemonCrash

\* A task whose lease has not expired stays with its holder until it is finished, for
\* every interleaving of claims, heartbeats and sweeps.
THEOREM LiveLeaseIsKept == Spec => LiveLeaseKept
  <1> DEFINE Inv == TypeOK /\ StampsPast
  <1>1. Init => Inv
    BY DEF Init, TypeOK, StampsPast, Request, NoRequest, NoSweep, Statuses, Pending
  <1>2. Inv /\ [Next]_vars => Inv'
    BY TypeStep, StampsPastStep
  <1>3. Inv /\ [Next]_vars =>
            [\A t \in Tasks : Live(t) =>
                \/ status'[t] \in Finished
                \/ status'[t] \in Held /\ claimed_by'[t] = claimed_by[t]]_vars
    BY LiveLeaseStep
  <1>4. QED
    BY <1>1, <1>2, <1>3, PTL DEF Spec, LiveLeaseKept

\* No claim and no sweep, however stale what it read, revives a finished task.
THEOREM FinishedIsFinal == Spec => FinishedStays
  <1>1. ASSUME TypeOK, [Next]_vars, NEW u \in Tasks, status[u] \in Finished
        PROVE  status'[u] \in Finished
    <2>1. CASE status' = status
      BY <1>1, <2>1
    <2>2. ASSUME NEW t \in Tasks, CreateTask(t) \/ CompleteTask(t) PROVE status'[u] \in Finished
      BY <1>1, <2>2 DEF CreateTask, CompleteTask, TypeOK, Finished
    <2>3. ASSUME NEW a \in Agents, ClaimGranted(a) PROVE status'[u] \in Finished
      BY <1>1, <2>3 DEF ClaimGranted, Claimable, TypeOK
    <2>4. ASSUME NEW t \in Tasks, SweepRelease(t) PROVE status'[u] \in Finished
      BY <1>1, <2>4 DEF SweepRelease, ExpiredClaim, TypeOK, Finished
    <2>5. QED
      BY <1>1, <2>1, <2>2, <2>3, <2>4
         DEF vars, table, Next, ClaimStep, SweepStep, Progress, ClaimRequest, ClaimRefused,
             ClaimAnswered, SweepTick, SweepSelect, AnnounceReclaimed, SweepError, Tick,
             AgentCrash, AgentRestart, DaemonCrash
  <1>2. TypeOK /\ [Next]_vars =>
            [\A t \in Tasks : status[t] \in Finished => status'[t] \in Finished]_vars
    BY <1>1
  <1>3. QED
    BY <1>2, TypeCorrect, PTL DEF Spec, FinishedStays
----------------------------------------------------------------------------
(* The table implements the board.                                         *)

\* A step that changes at most the row of u moves the board as it moves that row.
LEMMA BoardRow ==
    ASSUME NEW u \in Tasks, now' = now,
           \A t \in Tasks \ {u} : /\ status'[t] = status[t]
                                  /\ claimed_by'[t] = claimed_by[t]
                                  /\ claim_expires_at'[t] = claim_expires_at[t]
    PROVE  /\ BoardPhase'  = [BoardPhase  EXCEPT ![u] = BoardPhase'[u]]
           /\ BoardHolder' = [BoardHolder EXCEPT ![u] = BoardHolder'[u]]
           /\ BoardLive'   = [BoardLive   EXCEPT ![u] = BoardLive'[u]]
  <1>1. \A t \in Tasks \ {u} : Phase(t)' = Phase(t) /\ Live(t)' = Live(t)
    BY DEF Phase, Live
  <1>2. QED
    BY <1>1 DEF BoardPhase, BoardHolder, BoardLive

LEMMA BoardSame ==
    ASSUME UNCHANGED <<table, now>>
    PROVE  UNCHANGED <<BoardPhase, BoardHolder, BoardLive>>
  BY DEF BoardPhase, BoardHolder, BoardLive, Phase, Live, table

\* The entries of the board, in this state and in the next.
LEMMA BoardEntries ==
    ASSUME NEW t \in Tasks
    PROVE  /\ BoardPhase[t] = Phase(t)   /\ BoardPhase'[t] = Phase(t)'
           /\ BoardLive[t] = Live(t)     /\ BoardLive'[t] = Live(t)'
           /\ status[t] \in Held  => BoardPhase[t] = "held"  /\ BoardHolder[t] = claimed_by[t]
           /\ status'[t] \in Held => BoardPhase'[t] = "held" /\ BoardHolder'[t] = claimed_by'[t]
           /\ Live(t) \in BOOLEAN /\ Live(t)' \in BOOLEAN
  <1>1. BoardLive[t] = Live(t) /\ BoardLive'[t] = Live(t)'
    BY Zenon DEF BoardLive
  <1>2. Live(t) \in BOOLEAN /\ Live(t)' \in BOOLEAN
    BY Zenon DEF Live
  <1>3. BoardPhase[t] = Phase(t) /\ BoardPhase'[t] = Phase(t)'
    BY DEF BoardPhase
  <1>4. (status[t] \in Held => Phase(t) = "held") /\ (status'[t] \in Held => Phase(t)' = "held")
    BY DEF Phase, Held, Finished
  <1>5. QED
    BY <1>1, <1>2, <1>3, <1>4 DEF BoardHolder

LEMMA BoardStep ==
    ASSUME TypeOK, TypeOK', StampsPast, [Next]_vars
    PROVE  [Board!BoardNext]_(Board!boardVars)
  <1> USE DEF TypeOK
  <1> DEFINE Goal == [Board!BoardNext]_(Board!boardVars)
  <1>1. CASE UNCHANGED <<table, now>>
    BY <1>1, BoardSame DEF Board!boardVars
  <1>2. ASSUME NEW t \in Tasks, CreateTask(t) PROVE Board!Appear(t)
    <2>1. BoardPhase[t] = "absent"
      BY <1>2 DEF CreateTask, BoardPhase, Phase, Held, Finished
    <2>2. /\ BoardPhase'  = [BoardPhase  EXCEPT ![t] = BoardPhase'[t]]
          /\ BoardHolder' = [BoardHolder EXCEPT ![t] = BoardHolder'[t]]
          /\ BoardLive'   = [BoardLive   EXCEPT ![t] = BoardLive'[t]]
      BY <1>2, BoardRow DEF CreateTask
    <2>3. /\ BoardPhase'[t] \in Board!Phases \ {"absent"}
          /\ BoardHolder'[t] \in Agents \cup {Nobody}
          /\ BoardLive'[t] \in BOOLEAN
      <3>1. status'[t] \in Statuses \ {"absent"}
        BY <1>2 DEF CreateTask
      <3>2. BoardPhase'[t] \in Board!Phases \ {"absent"}
        BY <3>1 DEF BoardPhase, Phase, Board!Phases, Statuses, Held, Finished
      <3>3. QED
        BY <3>2 DEF BoardHolder, BoardLive, Live
    <2>4. QED
      BY <2>1, <2>2, <2>3 DEF Board!Appear
  <1>3. ASSUME NEW t \in Tasks, CompleteTask(t) PROVE Board!Finish(t)
    <2>1. BoardPhase[t] # "absent"
      BY <1>3 DEF CompleteTask, BoardPhase, Phase
    <2>2. status'[t] = "completed"
      BY <1>3 DEF CompleteTask
    <2>3. BoardPhase'[t] = "finished" /\ BoardHolder'[t] = Nobody /\ BoardLive'[t] = FALSE
      BY <2>2 DEF BoardPhase, BoardHolder, BoardLive, Phase, Live, Held, Finished
    <2>4. QED
      BY <1>3, <2>1, <2>3, BoardRow DEF CompleteTask, Board!Finish
  <1>4. ASSUME NEW a \in Agents, NEW t \in Tasks, Progress(a, t) PROVE Board!Keep(t)
    <2>1. status[t] \in Held /\ status'[t] = status[t] /\ claimed_by' = claimed_by
      BY <1>4 DEF Progress, Renewable
    <2>2. claim_expires_at'[t] = NULL \/ claim_expires_at'[t] >= now
      BY <1>4 DEF Progress, StrftimeText, COALESCE
    <2>3. /\ BoardPhase[t] = "held"
          /\ BoardPhase'[t] = BoardPhase[t]
          /\ BoardHolder'[t] = BoardHolder[t]
          /\ BoardLive'[t] = TRUE
      <3>1. BoardPhase[t] = "held" /\ BoardPhase'[t] = "held" /\ BoardHolder'[t] = BoardHolder[t]
        BY <2>1, BoardEntries
      <3>2. now' = now
        BY <1>4 DEF Progress
      <3>3. Live(t)'
        BY <2>1, <2>2, <3>2 DEF Live
      <3>4. BoardLive'[t] = TRUE
        BY <3>3, BoardEntries, Zenon
      <3>5. QED
        BY <3>1, <3>4
    <2>4. /\ BoardPhase'  = [BoardPhase  EXCEPT ![t] = BoardPhase'[t]]
          /\ BoardHolder' = [BoardHolder EXCEPT ![t] = BoardHolder'[t]]
          /\ BoardLive'   = [BoardLive   EXCEPT ![t] = BoardLive'[t]]
      BY <1>4, BoardRow DEF Progress
    <2>5. UNCHANGED <<BoardPhase, BoardHolder>>
      <3>1. status' = status /\ claimed_by' = claimed_by
        BY <1>4 DEF Progress
      <3>2. QED
        BY <3>1 DEF BoardPhase, BoardHolder, Phase
    <2>6. QED
      <3>1. BoardLive' = [BoardLive EXCEPT ![t] = TRUE]
        BY <2>3, <2>4, Zenon
      <3>2. QED
        BY <2>3, <2>5, <3>1, Zenon DEF Board!Keep
  <1>5. ASSUME NEW a \in Agents, ClaimGranted(a) PROVE Board!Take(a, req[a].task)
    <2> DEFINE t == req[a].task
    <2>1. t \in Tasks /\ req[a].at \in Nat /\ req[a].at <= now
      BY <1>5, PendingRequest DEF ClaimGranted, Pending, StampsPast
    <2>2. \/ BoardPhase[t] = "open"
          \/ BoardPhase[t] = "held" /\ (BoardHolder[t] = a \/ ~BoardLive[t])
      <3>1. CASE status[t] = "open"
        BY <2>1, <3>1 DEF BoardPhase, Phase, Held, Finished
      <3>2. CASE status[t] # "open"
        <4>1. status[t] \in Held /\ (claimed_by[t] = a \/ ExpiredClaim(t, req[a].at))
          BY <1>5, <2>1, <3>2 DEF ClaimGranted, Claimable, Statuses, Held, Finished
        <4>2. ExpiredClaim(t, req[a].at) => ~Live(t)
          BY <2>1 DEF ExpiredClaim, Live
        <4>3. QED
          BY <2>1, <4>1, <4>2, BoardEntries
      <3>3. QED
        BY <3>1, <3>2
    <2>3. status'[t] = "claimed" /\ claimed_by'[t] = a
      BY <1>5, <2>1 DEF ClaimGranted
    <2>4. BoardPhase'[t] = "held" /\ BoardHolder'[t] = a /\ BoardLive'[t] \in BOOLEAN
      BY <2>1, <2>3, BoardEntries DEF Held
    <2>5. /\ BoardPhase'  = [BoardPhase  EXCEPT ![t] = BoardPhase'[t]]
          /\ BoardHolder' = [BoardHolder EXCEPT ![t] = BoardHolder'[t]]
          /\ BoardLive'   = [BoardLive   EXCEPT ![t] = BoardLive'[t]]
      BY <1>5, <2>1, BoardRow DEF ClaimGranted
    <2>6. QED
      BY <2>2, <2>4, <2>5 DEF Board!Take
  <1>6. ASSUME NEW t \in Tasks, SweepRelease(t) PROVE Goal
    <2>1. CASE ExpiredClaim(t, sweep.at)
      <3>1. status[t] = "claimed" /\ ~Live(t)
        BY <2>1 DEF ExpiredClaim, Live, StampsPast
      <3>2. BoardPhase[t] = "held" /\ ~BoardLive[t]
        BY <3>1, BoardEntries DEF Held
      <3>3. status'[t] = "open" /\ claimed_by'[t] = Nobody
        BY <1>6, <2>1 DEF SweepRelease
      <3>4. BoardPhase'[t] = "open" /\ BoardHolder'[t] = Nobody /\ BoardLive'[t] = BoardLive[t]
        BY <3>1, <3>3 DEF BoardPhase, BoardHolder, BoardLive, Phase, Live, Held, Finished
      <3>5. /\ BoardPhase'  = [BoardPhase  EXCEPT ![t] = BoardPhase'[t]]
            /\ BoardHolder' = [BoardHolder EXCEPT ![t] = BoardHolder'[t]]
            /\ BoardLive'   = [BoardLive   EXCEPT ![t] = BoardLive'[t]]
        BY <1>6, <2>1, BoardRow DEF SweepRelease
      <3>6. Board!Reopen(t)
        BY ZenonT(30), <3>2, <3>4, <3>5 DEF Board!Reopen, BoardLive
      <3>7. QED
        BY <3>6 DEF Board!BoardNext
    <2>2. CASE ~ExpiredClaim(t, sweep.at)
      BY <1>1, <1>6, <2>2 DEF SweepRelease, table
    <2>3. QED
      BY <2>1, <2>2
  <1>7. CASE Tick
    <2> DEFINE S == {t \in Tasks : Live(t) /\ ~Live(t)'}
    <2>1. UNCHANGED <<BoardPhase, BoardHolder>>
      BY <1>7 DEF Tick, table, BoardPhase, BoardHolder, Phase
    <2>2. ASSUME NEW t \in Tasks PROVE Live(t)' = (BoardLive[t] /\ t \notin S)
      <3>1. Live(t)' => Live(t)
        BY <1>7 DEF Tick, table, Live
      <3>2. Live(t)' <=> Live(t) /\ t \notin S
        BY <3>1, Zenon
      <3>3. QED
        BY <3>2, BoardEntries, Zenon
    <2>3. Board!Lapse(S)
      BY <2>1, <2>2, Zenon DEF Board!Lapse, BoardLive
    <2>4. QED
      BY <2>3 DEF Board!BoardNext
  <1>8. ASSUME NEW a \in Agents, ClaimStep(a) PROVE Goal
    <2>1. CASE ClaimGranted(a)
      <3>1. req[a].task \in Tasks
        BY <2>1, PendingRequest DEF ClaimGranted, Pending
      <3>2. QED
        BY <1>5, <2>1, <3>1 DEF Board!BoardNext
    <2>2. CASE ClaimRefused(a) \/ ClaimAnswered(a)
      BY <1>1, <2>2 DEF ClaimRefused, ClaimAnswered
    <2>3. QED
      BY <1>8, <2>1, <2>2 DEF ClaimStep
  <1>9. ASSUME NEW t \in Tasks, CreateTask(t) \/ CompleteTask(t) PROVE Goal
    BY <1>2, <1>3, <1>9 DEF Board!BoardNext
  <1>10. ASSUME NEW a \in Agents, NEW t \in Tasks, Progress(a, t) PROVE Goal
    BY <1>4, <1>10 DEF Board!BoardNext
  <1>11. CASE SweepStep \/ SweepError
    BY <1>1, <1>6, <1>11 DEF SweepStep, SweepTick, SweepSelect, AnnounceReclaimed, SweepError
  <1>12. CASE UNCHANGED vars
    BY <1>1, <1>12 DEF vars, table
  <1>13. ASSUME NEW a \in Agents, AgentCrash(a) \/ AgentRestart(a) PROVE Goal
    BY <1>1, <1>13 DEF AgentCrash, AgentRestart
  <1>14. ASSUME NEW a \in Agents, NEW t \in Tasks, NEW l \in Leases, ClaimRequest(a, t, l)
         PROVE Goal
    BY <1>1, <1>14 DEF ClaimRequest
  <1>15. CASE DaemonCrash
    BY <1>1, <1>15 DEF DaemonCrash
  <1>16. QED
    BY <1>7, <1>8, <1>9, <1>10, <1>11, <1>12, <1>13, <1>14, <1>15 DEF Next

\* Every behaviour of the table is a behaviour of the board.
THEOREM TableImplementsBoard == Spec => ImplementsBoard
  <1> DEFINE Inv == TypeOK /\ StampsPast
  <1>1. Init => Inv
    BY DEF Init, TypeOK, StampsPast, Request, NoRequest, NoSweep, Statuses, Pending
  <1>2. Inv /\ [Next]_vars => Inv'
    BY TypeStep, StampsPastStep
  <1>3. Init => Board!BoardInit
    BY DEF Init, Board!BoardInit, BoardPhase, BoardHolder, BoardLive, Phase, Live, Held, Finished
  <1>4. Inv /\ Inv' /\ [Next]_vars => [Board!BoardNext]_(Board!boardVars)
    BY BoardStep
  <1>5. QED
    BY <1>1, <1>2, <1>3, <1>4, PTL DEF Spec, ImplementsBoard, Board!BoardSpec
----------------------------------------------------------------------------
(* The sweep announces what it reopens.  The invariant follows `owed`      *)
(* through the two loops: nothing is owed before the first, only selected  *)
(* rows in it; in the second only rows still to be announced, and those    *)
(* whose announcement was an error.                                        *)

OwedInv ==
    /\ sweep.pc = "select"   => owed = {}
    /\ sweep.pc = "release"  => owed \subseteq sweep.expired /\ sweep.todo \subseteq sweep.expired
    /\ sweep.pc = "announce" => owed \subseteq sweep.todo \cup refused

\* A step that ends a sweep, other than a fault.
Ends == sweep.pc # "idle" /\ sweep'.pc = "idle" /\ faults' = faults

\* Every step keeps OwedInv, and one that ends the sweep leaves nothing else owed.
LEMMA OwedStep ==
    TypeOK /\ OwedInv /\ [Next]_vars => OwedInv' /\ (Ends => owed' \subseteq refused')
  <1> DEFINE Goal == OwedInv' /\ (Ends => owed' \subseteq refused')
  <1> SUFFICES ASSUME TypeOK, OwedInv, [Next]_vars PROVE Goal
    OBVIOUS
  <1> USE DEF OwedInv, TypeOK, Ends
  <1>1. CASE UNCHANGED <<sweep, owed, refused>>
    BY <1>1
  <1>2. CASE SweepTick
    BY <1>2 DEF SweepTick
  <1>3. CASE SweepSelect
    BY <1>3 DEF SweepSelect, NoSweep
  <1>4. ASSUME NEW t \in Tasks, SweepRelease(t) PROVE Goal
    <2>1. owed' \subseteq owed \cup {t} /\ sweep.pc = "release" /\ t \in sweep.todo
      BY <1>4 DEF SweepRelease
    <2>2. CASE sweep.todo # {t}
      <3>1. sweep' = [sweep EXCEPT !.todo = @ \ {t}]
        BY <1>4, <2>2 DEF SweepRelease, Advance
      <3>2. QED
        BY <2>1, <3>1
    <2>3. CASE sweep.todo = {t}
      <3>1. sweep' = [sweep EXCEPT !.pc = "announce", !.todo = sweep.expired]
        BY <1>4, <2>3 DEF SweepRelease, Advance
      <3>2. QED
        BY <2>1, <3>1
    <2>4. QED
      BY <2>2, <2>3
  <1>5. ASSUME NEW t \in Tasks, AnnounceReclaimed(t) PROVE Goal
    <2>1. sweep.pc = "announce" /\ t \in sweep.todo
      BY <1>5 DEF AnnounceReclaimed
    <2>2. \/ owed' = owed \ {t} /\ refused' = refused
          \/ owed' = owed /\ refused' = refused \cup {t}
      BY <1>5 DEF AnnounceReclaimed, Published, PublishErr
    <2>3. CASE sweep.todo # {t}
      <3>1. sweep' = [sweep EXCEPT !.todo = @ \ {t}]
        BY <1>5, <2>3 DEF AnnounceReclaimed, Advance
      <3>2. sweep'.pc = "announce" /\ sweep'.todo = sweep.todo \ {t}
        BY <2>1, <3>1
      <3>3. QED
        BY <2>1, <2>2, <3>2
    <2>4. CASE sweep.todo = {t}
      <3>1. sweep'.pc = "idle"
        BY <1>5, <2>1, <2>4 DEF AnnounceReclaimed, Advance, NoSweep
      <3>2. owed' \subseteq refused'
        BY <2>1, <2>2, <2>4
      <3>3. QED
        BY <3>1, <3>2
    <2>5. QED
      BY <2>3, <2>4
  <1>6. CASE SweepError \/ DaemonCrash
    BY <1>6 DEF SweepError, DaemonCrash, NoSweep
  <1>7. ASSUME NEW t \in Tasks, CreateTask(t) \/ CompleteTask(t) PROVE Goal
    BY <1>1, <1>7 DEF CreateTask, CompleteTask
  <1>8. ASSUME NEW a \in Agents, NEW t \in Tasks, Progress(a, t) PROVE Goal
    BY <1>1, <1>8 DEF Progress
  <1>9. ASSUME NEW a \in Agents, NEW t \in Tasks, NEW l \in Leases, ClaimRequest(a, t, l)
        PROVE Goal
    BY <1>1, <1>9 DEF ClaimRequest
  <1>10. ASSUME NEW a \in Agents, ClaimStep(a) \/ AgentCrash(a) \/ AgentRestart(a)
         PROVE Goal
    BY <1>1, <1>10 DEF ClaimStep, ClaimGranted, ClaimRefused, ClaimAnswered,
                       AgentCrash, AgentRestart
  <1>11. CASE Tick \/ UNCHANGED vars
    BY <1>1, <1>11 DEF Tick, vars
  <1>12. QED
    BY <1>2, <1>3, <1>4, <1>5, <1>6, <1>7, <1>8, <1>9, <1>10, <1>11 DEF Next, SweepStep

\* A sweep that runs to its end announced every task it reopened, but for those whose
\* own announcement was an error, however many claims, heartbeats and completions
\* overtook it and however many sweeps before it were cut.
THEOREM ReopenedTasksAreAnnounced == Spec => ReopenedIsAnnounced
  <1>1. Init => TypeOK /\ OwedInv
    BY DEF Init, TypeOK, OwedInv, Request, NoSweep, Statuses
  <1>2. TypeOK /\ OwedInv /\ [Next]_vars => TypeOK' /\ OwedInv'
    BY TypeStep, OwedStep
  <1>3. TypeOK /\ OwedInv /\ [Next]_vars
          => [sweep.pc # "idle" /\ sweep'.pc = "idle" /\ faults' = faults
                 => owed' \subseteq refused']_vars
    BY OwedStep DEF Ends
  <1>4. QED
    BY <1>1, <1>2, <1>3, PTL DEF Spec, ReopenedIsAnnounced

-----------------------------------------------------------------------------
(***************************************************************************)
(* Decisions and the connectors that carry them (module Decisions), for    *)
(* any decisions, options, size of a poll and bounds.                      *)
(***************************************************************************)
USE DecisionsAssumption

\* What chats hold only grows, and an answer in one names a decision and one of
\* its options; the bot does not write to itself in Telegram.
Answerable(s) ==
    \A i \in 1..Len(s) : s[i].kind = "answer" => s[i].id \in Ids /\ s[i].option \in Options
ChatsInv == /\ Answerable(channel) /\ Answerable(updates)
            /\ \A i \in 1..Len(updates) : updates[i].kind # "bot"

\* The Discord poller's batch begins right behind what it has taken, from whichever
\* end it is worked off; where Discord sorts newest first it is worked off upwards.
BatchTypes == /\ dc \in [last : Nat, next : Nat \ {0}, upto : Nat, down : BOOLEAN]
              /\ {dc.last, dc.upto} \subseteq 0..Len(channel) /\ dc.next <= Len(channel) + 1
              /\ order \in {"newest", "oldest"} /\ taken \subseteq 1..Len(channel)
ClosedUpTo(m) == \A n \in taken : n..m \subseteq taken
BatchInv == /\ BatchTypes
            /\ dc.down => order = "oldest"
            /\ dc.next <= dc.upto => ClosedUpTo(dc.next - 1)
            /\ dc.next > dc.upto => /\ ClosedUpTo(dc.last)
                                    /\ taken # {} => dc.last \in taken
                                    /\ dc.last = 0 => taken = {}
            /\ order = "newest" =>
                 \A n \in taken : n <= IF dc.next <= dc.upto THEN dc.next - 1 ELSE dc.last

\* A message from Discord stands for a post that is there and no bot's.
EchoInv == \A i \in 1..Len(forum) : forum[i].from = "discord" =>
             forum[i].src \in 1..Len(channel) /\ channel[forum[i].src].kind # "bot"

\* What the Telegram poller has taken is handled, but for the one in hand.
OffsetInv == /\ 1..(tg.next - 1) \subseteq handled \cup {tg.hand}
             /\ tg.hand < tg.next
             /\ tg.edit => tg.hand \in handled
             /\ ForgottenIsHandled

\* A card is a decision's, a tap a card's, and what is about to lose its buttons has
\* its answer.
CardInv == /\ \A d \in Ids : card[d] # "none" => decision[d] # NoDecision
           /\ \A i \in 1..Len(updates) : updates[i].kind = "answer" => card[updates[i].id] # "none"
           /\ tg.edit => /\ updates[tg.hand].kind = "answer"
                         /\ decision[updates[tg.hand].id].status = "approved"
           /\ EditedIsAnswered

DecisionsInv == DecisionsTypeOK /\ ChatsInv /\ BatchInv /\ EchoInv /\ OffsetInv /\ CardInv

LEMMA InitDecisions ==
    ASSUME DecisionsInit PROVE DecisionsInv
  <1>1. DecisionsTypeOK
    BY DEF DecisionsInit, DecisionsTypeOK, NoDecision, None, NoBatch, NoUpdates,
           Off
  <1>2. ChatsInv /\ EchoInv /\ OffsetInv
    BY DEF DecisionsInit, ChatsInv, Answerable, EchoInv, OffsetInv, ForgottenIsHandled,
           NoUpdates
  <1>3. BatchInv
    BY DEF DecisionsInit, BatchInv, BatchTypes, ClosedUpTo, NoBatch
  <1>4. CardInv
    BY DEF DecisionsInit, CardInv, EditedIsAnswered, NoUpdates
  <1> QED BY <1>1, <1>2, <1>3, <1>4 DEF DecisionsInv

LEMMA Appended ==
    ASSUME NEW S, NEW s \in Seq(S), NEW x \in S
    PROVE  /\ Append(s, x) \in Seq(S)
           /\ Len(Append(s, x)) = Len(s) + 1
           /\ \A i \in 1..Len(s) : Append(s, x)[i] = s[i]
           /\ Append(s, x)[Len(s) + 1] = x
  OBVIOUS

\* Posts are added at the end of a chat, and none is changed.
Grows(s, t) == Len(s) <= Len(t) /\ \A i \in 1..Len(s) : t[i] = s[i]

LEMMA ItemIsItem ==
    ASSUME NEW d \in Ids, NEW o \in Options
    PROVE  /\ Item("answer", d, o) \in Items /\ Item("say", None, None) \in Items
           /\ BotPost \in Items
  BY DEF Item, Items, BotPost, None

LEMMA ChatGrows ==
    ASSUME NEW s \in Seq(Items), Answerable(s), NEW i \in Items,
           i.kind = "answer" => i.id \in Ids /\ i.option \in Options
    PROVE  /\ Append(s, i) \in Seq(Items) /\ Answerable(Append(s, i))
           /\ Grows(s, Append(s, i))
  <1>1. /\ Append(s, i) \in Seq(Items) /\ Len(Append(s, i)) = Len(s) + 1
        /\ \A k \in 1..Len(s) : Append(s, i)[k] = s[k]
        /\ Append(s, i)[Len(s) + 1] = i
    BY Appended
  <1> QED BY <1>1 DEF Answerable, Grows

LEMMA BotPosts ==
    ASSUME DecisionsInv, DiscordPost \/ channel' = Append(channel, BotPost)
    PROVE  channel' \in Seq(Items) /\ Answerable(channel)' /\ Grows(channel, channel')
  <1>0. channel \in Seq(Items) /\ Answerable(channel)
    BY DEF DecisionsInv, DecisionsTypeOK, ChatsInv
  <1>1. CASE channel' = channel
    BY <1>0, <1>1 DEF Answerable, Grows
  <1>2. CASE channel' = Append(channel, BotPost)
    <2>1. BotPost \in Items /\ BotPost.kind # "answer"
      BY DEF BotPost, Item, Items, None
    <2>2. /\ Append(channel, BotPost) \in Seq(Items) /\ Answerable(Append(channel, BotPost))
          /\ Grows(channel, Append(channel, BotPost))
      BY <1>0, <2>1, ChatGrows
    <2> QED BY <1>2, <2>2 DEF Answerable
  <1> QED BY <1>1, <1>2 DEF DiscordPost

\* What the chats hold after a step.
ChatsStepped == /\ channel' \in Seq(Items) /\ updates' \in Seq(Items)
                /\ ChatsInv' /\ Grows(channel, channel') /\ Grows(updates, updates')

LEMMA ChatsStep ==
    ASSUME DecisionsInv, [DecisionsNext]_decisionsVars PROVE ChatsStepped
  <1> DEFINE NotOfBot(s) == \A k \in 1..Len(s) : s[k].kind # "bot"
             ChannelStepped == /\ channel' \in Seq(Items) /\ Answerable(channel')
                               /\ Grows(channel, channel')
             UpdatesStepped == /\ updates' \in Seq(Items) /\ Answerable(updates')
                               /\ NotOfBot(updates') /\ Grows(updates, updates')
  <1>a. channel \in Seq(Items) /\ updates \in Seq(Items)
    BY DEF DecisionsInv, DecisionsTypeOK
  <1>b. Answerable(channel) /\ Answerable(updates) /\ NotOfBot(updates)
    BY DEF DecisionsInv, ChatsInv
  <1>c. ChannelStepped /\ UpdatesStepped => ChatsStepped
    BY DEF ChatsStepped, ChatsInv, Answerable
  <1>d. channel' = channel => ChannelStepped
    BY <1>a, <1>b DEF Grows
  <1>e. updates' = updates => UpdatesStepped
    BY <1>a, <1>b DEF Grows
  <1> HIDE DEF ChannelStepped, UpdatesStepped
  <1>f. DiscordPost \/ channel' = Append(channel, BotPost) => ChannelStepped
    BY BotPosts DEF ChannelStepped, Answerable
  <1>1. CASE PersonPosts
    <2>1. PICK i \in {Item("say", None, None)} \cup
                     {Item("answer", d, o) : d \in Ids, o \in Typed} :
             channel' = Append(channel, i)
      BY <1>1 DEF PersonPosts, Item, None
    <2>2. i \in Items /\ (i.kind = "answer" => i.id \in Ids /\ i.option \in Options)
      BY <2>1 DEF Item, Items, None
    <2>3. /\ Append(channel, i) \in Seq(Items) /\ Answerable(Append(channel, i))
          /\ Grows(channel, Append(channel, i))
      BY <1>a, <1>b, <2>2, ChatGrows
    <2>4. updates' = updates
      BY <1>1 DEF PersonPosts
    <2> QED BY <1>c, <1>e, <2>1, <2>3, <2>4 DEF ChannelStepped
  <1>2. CASE PersonTapsOrWrites
    <2>1. PICK i \in {Item("say", None, None)} \cup
                     {Item("answer", d, o) : d \in Ids, o \in Tapped} :
             updates' = Append(updates, i)
      BY <1>2 DEF PersonTapsOrWrites
    <2>2. /\ i \in Items /\ (i.kind = "answer" => i.id \in Ids /\ i.option \in Options)
          /\ i.kind # "bot"
      BY <2>1 DEF Item, Items, None
    <2>3. /\ Append(updates, i) \in Seq(Items) /\ Answerable(Append(updates, i))
          /\ Grows(updates, Append(updates, i))
      BY <1>a, <1>b, <2>2, ChatGrows
    <2>4. /\ Len(Append(updates, i)) = Len(updates) + 1
          /\ \A k \in 1..Len(updates) : Append(updates, i)[k] = updates[k]
          /\ Append(updates, i)[Len(updates) + 1] = i
      BY <1>a, <2>2, Appended
    <2>5. NotOfBot(Append(updates, i))
      BY <1>a, <1>b, <2>2, <2>4
    <2>6. channel' = channel
      BY <1>2 DEF PersonTapsOrWrites
    <2> QED BY <1>c, <1>d, <2>1, <2>3, <2>5, <2>6 DEF UpdatesStepped
  <1>3. CASE CreateDecision \/ ProcessPost \/ Forward
    <2>1. DiscordPost \/ channel' = Append(channel, BotPost) \/ channel' = channel
      BY <1>3 DEF CreateDecision, AnnounceDecision, ProcessPost, Forward
    <2>2. updates' = updates
      BY <1>3 DEF CreateDecision, ProcessPost, Forward
    <2> QED BY <1>c, <1>d, <1>e, <1>f, <2>1, <2>2
  <1>4. CASE \/ RespondDecision \/ OthersPublish \/ PollDiscord \/ PollTelegram
             \/ TakeUpdate \/ HandleUpdate \/ EditCard \/ Subscribe \/ StreamEnds
             \/ Restart \/ UNCHANGED decisionsVars
    <2>1. channel' = channel /\ updates' = updates
      BY <1>4 DEF RespondDecision, OthersPublish, PollDiscord, PollTelegram,
         TakeUpdate, HandleUpdate, EditCard, Subscribe, StreamEnds, Restart, decisionsVars,
         outside
    <2> QED BY <1>c, <1>d, <1>e, <2>1
  <1> QED BY <1>1, <1>2, <1>3, <1>4 DEF DecisionsNext

-----------------------------------------------------------------------------
(* The table of decisions.                                                 *)

LEMMA PostInHand ==
    ASSUME DecisionsInv, ProcessPost
    PROVE  InHand \in 1..Len(channel) /\ InHand \in dc.next..dc.upto
  <1>1. /\ dc.next \in Nat \ {0} /\ dc.upto \in 0..Len(channel) /\ dc.next <= dc.upto
        /\ Len(channel) \in Nat
    BY DEF DecisionsInv, BatchInv, BatchTypes, ProcessPost, DecisionsTypeOK
  <1> QED BY <1>1 DEF InHand

Records == [status : {None, "requested", "approved"}, option : Options \cup {None},
            by : {None, "caller", "program", "discord", "telegram"}]

LEMMA Answers ==
    ASSUME NEW o \in Options, NEW by \in {"caller", "program", "discord", "telegram"}
    PROVE  AnsweredBy(o, by) \in Records /\ AnsweredBy(o, by).status = "approved"
  BY DEF AnsweredBy, Records

LEMMA Recorded ==
    ASSUME decision \in [Ids -> Records], NEW d \in Ids, NEW o \in Options,
           NEW by \in {"caller", "program", "discord", "telegram"}, RecordAnswer(d, o, by)
    PROVE  /\ decision' \in [Ids -> Records]
           /\ \A e \in Ids : decision'[e] # decision[e] =>
                decision[e] # NoDecision /\ decision'[e].status = "approved"
           /\ decision[d] # NoDecision => decision'[d].status = "approved"
  <1> DEFINE a == AnsweredBy(o, by)
  <1>1. a \in Records /\ a.status = "approved"
    BY Answers
  <1>2. decision' = decision \/ (decision[d] # NoDecision /\ decision' = [decision EXCEPT ![d] = a])
    BY DEF RecordAnswer
  <1>3. decision[d] # NoDecision => decision' = [decision EXCEPT ![d] = a]
    BY DEF RecordAnswer
  <1> HIDE DEF a
  <1> QED BY <1>1, <1>2, <1>3

\* A decision that is there stays, and stays answered.
Kept(d) == /\ decision[d] # NoDecision => decision'[d] # NoDecision
           /\ decision[d].status = "approved" => decision'[d].status = "approved"
TableStepped == decision' \in [Ids -> Records] /\ \A d \in Ids : Kept(d)

LEMMA RecordedKeeps ==
    ASSUME decision \in [Ids -> Records], NEW d \in Ids, NEW o \in Options,
           NEW by \in {"caller", "program", "discord", "telegram"}, RecordAnswer(d, o, by)
    PROVE  TableStepped
  <1>1. /\ decision' \in [Ids -> Records]
        /\ \A e \in Ids : decision'[e] # decision[e] => decision'[e].status = "approved"
    BY Recorded
  <1>2. ASSUME NEW e \in Ids PROVE Kept(e)
    <2>1. NoDecision.status # "approved"
      BY DEF NoDecision, None
    <2> QED BY <1>1, <2>1 DEF Kept
  <1> QED BY <1>1, <1>2 DEF TableStepped

LEMMA TableStep ==
    ASSUME DecisionsInv, [DecisionsNext]_decisionsVars
    PROVE  TableStepped
  <1>a. /\ decision \in [Ids -> Records] /\ channel \in Seq(Items) /\ updates \in Seq(Items)
        /\ tg \in [offset : Nat, next : Nat \ {0}, upto : Nat, hand : Nat, edit : BOOLEAN]
        /\ tg.hand \in 0..Len(updates)
    BY DEF DecisionsInv, DecisionsTypeOK, Records
  <1>b. Answerable(channel) /\ Answerable(updates)
    BY DEF DecisionsInv, ChatsInv
  <1>c. decision' = decision => TableStepped
    BY <1>a DEF TableStepped, Kept
  <1>1. CASE CreateDecision
    <2>1. PICK d \in Ids, o \in Options \cup {None}, kind \in Kinds :
            /\ decision[d] = NoDecision
            /\ decision' = [decision EXCEPT ![d] =
                 IF o = None THEN [NoDecision EXCEPT !.status = "requested"]
                 ELSE AnsweredBy(o, Caller(kind))]
      BY <1>1, Zenon DEF CreateDecision
    <2> DEFINE new == IF o = None THEN [NoDecision EXCEPT !.status = "requested"]
                      ELSE AnsweredBy(o, Caller(kind))
    <2>2. new \in Records
      <3>1. Caller(kind) \in {"caller", "program"}
        BY DEF Caller
      <3>2. [NoDecision EXCEPT !.status = "requested"] \in Records
        BY DEF Records, NoDecision
      <3> QED BY <3>1, <3>2, Answers
    <2>3. decision' = [decision EXCEPT ![d] = new]
      BY <2>1
    <2>4. NoDecision.status = None /\ None # "approved" /\ new.status # None
      BY <2>1, Answers DEF NoDecision, None, Caller, AnsweredBy
    <2> HIDE DEF new
    <2>5. decision' \in [Ids -> Records]
      BY <1>a, <2>2, <2>3
    <2>6. ASSUME NEW e \in Ids PROVE Kept(e)
      BY <1>a, <2>1, <2>3, <2>4 DEF Kept
    <2> QED BY <2>5, <2>6 DEF TableStepped
  <1>2. CASE RespondDecision
    <2>1. PICK d \in Ids, o \in Options, kind \in Kinds :
            MayAnswer(kind) /\ RecordAnswer(d, o, Caller(kind))
      BY <1>2, Zenon DEF RespondDecision
    <2>2. Caller(kind) \in {"caller", "program", "discord", "telegram"}
      BY DEF Caller
    <2> QED BY <1>a, <2>1, <2>2, RecordedKeeps
  <1>3. CASE ProcessPost
    <2> DEFINE post == channel[InHand]
    <2>1. InHand \in 1..Len(channel)
      BY <1>3, PostInHand
    <2>2. \/ post.kind = "answer" /\ RecordAnswer(post.id, post.option, "discord")
          \/ decision' = decision
      BY <1>3, Zenon DEF ProcessPost
    <2>3. CASE post.kind = "answer" /\ RecordAnswer(post.id, post.option, "discord")
      <3>1. post.id \in Ids /\ post.option \in Options
        BY <1>b, <2>1, <2>3 DEF Answerable
      <3> QED BY <1>a, <2>3, <3>1, RecordedKeeps
    <2> QED BY <1>c, <2>2, <2>3
  <1>4. CASE HandleUpdate
    <2> DEFINE u == updates[tg.hand]
    <2>1. tg.hand \in 1..Len(updates)
      BY <1>4, <1>a DEF HandleUpdate
    <2>2. \/ u.kind = "answer" /\ RecordAnswer(u.id, u.option, "telegram")
          \/ decision' = decision
      BY <1>4, Zenon DEF HandleUpdate
    <2>3. CASE u.kind = "answer" /\ RecordAnswer(u.id, u.option, "telegram")
      <3>1. u.id \in Ids /\ u.option \in Options
        BY <1>b, <2>1, <2>3 DEF Answerable
      <3> QED BY <1>a, <2>3, <3>1, RecordedKeeps
    <2> QED BY <1>c, <2>2, <2>3
  <1>5. CASE \/ PersonPosts \/ PersonTapsOrWrites \/ OthersPublish \/ PollDiscord
             \/ PollTelegram \/ TakeUpdate \/ EditCard \/ Subscribe \/ StreamEnds
             \/ Forward \/ Restart \/ UNCHANGED decisionsVars
    BY <1>5, <1>c DEF PersonPosts, PersonTapsOrWrites, OthersPublish, PollDiscord,
         PollTelegram, TakeUpdate, EditCard, Subscribe, StreamEnds, Forward,
         Restart, decisionsVars, store
  <1> QED BY <1>1, <1>2, <1>3, <1>4, <1>5 DEF DecisionsNext

\* The cards after a step: one appears with its decision, and none vanishes.
LEMMA CardsStep ==
    ASSUME DecisionsInv, [DecisionsNext]_decisionsVars
    PROVE  /\ card' \in [Ids -> {"none", "buttons", "edited"}]
           /\ \A d \in Ids : card[d] # "none" => card'[d] # "none"
           /\ \A d \in Ids : card'[d] # "none" /\ card[d] = "none" => decision'[d] # NoDecision
           /\ \A d \in Ids : card'[d] = "edited" /\ card[d] # "edited" =>
                tg.edit /\ d = updates[tg.hand].id
  <1> DEFINE Stepped == /\ card' \in [Ids -> {"none", "buttons", "edited"}]
                        /\ \A d \in Ids : card[d] # "none" => card'[d] # "none"
                        /\ \A d \in Ids : card'[d] # "none" /\ card[d] = "none" => decision'[d] # NoDecision
                        /\ \A d \in Ids : card'[d] = "edited" /\ card[d] # "edited" =>
                             tg.edit /\ d = updates[tg.hand].id
  <1>a. card \in [Ids -> {"none", "buttons", "edited"}] /\ decision \in [Ids -> Records]
    BY DEF DecisionsInv, DecisionsTypeOK, Records
  <1>b. card' = card => Stepped
    BY <1>a
  <1>1. CASE CreateDecision
    <2>1. PICK d \in Ids, o \in Options \cup {None}, kind \in Kinds :
            /\ decision' = [decision EXCEPT ![d] =
                 IF o = None THEN [NoDecision EXCEPT !.status = "requested"]
                 ELSE AnsweredBy(o, Caller(kind))]
            /\ TelegramAnnounces(d)
      BY <1>1, Zenon DEF CreateDecision, AnnounceDecision
    <2>2. decision'[d].status # None /\ NoDecision.status = None
      BY <1>a, <2>1 DEF NoDecision, None, AnsweredBy
    <2>3. card' = card \/ card' = [card EXCEPT ![d] = "buttons"]
      BY <2>1 DEF TelegramAnnounces
    <2> QED BY <1>a, <2>2, <2>3
  <1>2. CASE EditCard
    <2>1. tg.edit /\ (card' = card \/ card' = [card EXCEPT ![updates[tg.hand].id] = "edited"])
      BY <1>2 DEF EditCard
    <2>2. ASSUME card' = [card EXCEPT ![updates[tg.hand].id] = "edited"]
          PROVE Stepped
      <3>1. card[updates[tg.hand].id] = "none" => decision'[updates[tg.hand].id] # NoDecision
        <4>1. updates[tg.hand].kind = "answer" /\ tg.hand \in 1..Len(updates)
          BY <2>1 DEF DecisionsInv, DecisionsTypeOK, CardInv, OffsetInv
        <4>2. card[updates[tg.hand].id] # "none"
          BY <4>1 DEF DecisionsInv, CardInv
        <4> QED BY <4>2
      <3> QED BY <1>a, <2>1, <2>2, <3>1
    <2> QED BY <1>b, <2>1, <2>2
  <1>3. CASE \/ RespondDecision \/ PersonPosts \/ PersonTapsOrWrites \/ OthersPublish
             \/ PollDiscord \/ ProcessPost \/ PollTelegram \/ TakeUpdate \/ HandleUpdate
             \/ Subscribe \/ StreamEnds \/ Forward \/ Restart \/ UNCHANGED decisionsVars
    <2>1. card' = card
      BY <1>3 DEF RespondDecision, PersonPosts, PersonTapsOrWrites, OthersPublish,
         PollDiscord, ProcessPost, PollTelegram, TakeUpdate, HandleUpdate, Subscribe,
         StreamEnds, Forward, Restart, decisionsVars, store
    <2> QED BY <1>b, <2>1
  <1> QED BY <1>1, <1>2, <1>3 DEF DecisionsNext

LEMMA CardInvStep ==
    ASSUME DecisionsInv, [DecisionsNext]_decisionsVars, ChatsStepped PROVE CardInv'
  <1>a. /\ card' \in [Ids -> {"none", "buttons", "edited"}]
        /\ \A d \in Ids : card[d] # "none" => card'[d] # "none"
        /\ \A d \in Ids : card'[d] # "none" /\ card[d] = "none" => decision'[d] # NoDecision
        /\ \A d \in Ids : card'[d] = "edited" /\ card[d] # "edited" =>
             tg.edit /\ d = updates[tg.hand].id
    BY CardsStep
  <1>b. decision' \in [Ids -> Records] /\ \A d \in Ids : Kept(d)
    BY TableStep DEF TableStepped
  <1>c. CardInv /\ decision \in [Ids -> Records] /\ card \in [Ids -> {"none", "buttons", "edited"}]
    BY DEF DecisionsInv, DecisionsTypeOK, Records
  <1>d. /\ updates \in Seq(Items) /\ updates' \in Seq(Items) /\ Grows(updates, updates')
        /\ Answerable(updates) /\ Answerable(updates')
    BY DEF DecisionsInv, DecisionsTypeOK, ChatsInv, ChatsStepped
  <1>e. /\ tg \in [offset : Nat, next : Nat \ {0}, upto : Nat, hand : Nat, edit : BOOLEAN]
        /\ tg.hand \in 0..Len(updates) /\ (tg.edit => tg.hand \in 1..Len(updates))
    BY DEF DecisionsInv, DecisionsTypeOK, OffsetInv
  <1>1. \A d \in Ids : card'[d] # "none" => decision'[d] # NoDecision
    BY <1>a, <1>b, <1>c DEF CardInv, Kept
  <1>2. \A i \in 1..Len(updates') : updates'[i].kind = "answer" => card'[updates'[i].id] # "none"
    <2>1. CASE PersonTapsOrWrites
      <3>1. PICK i \in {Item("say", None, None)} \cup
                       {Item("answer", d, o) : d \in Ids, o \in Tapped} :
               /\ i.kind = "answer" => card[i.id] = "buttons"
               /\ updates' = Append(updates, i)
        BY <2>1 DEF PersonTapsOrWrites
      <3>2. i \in Items /\ (i.kind = "answer" => i.id \in Ids)
        BY <3>1 DEF Item, Items, None
      <3>3. /\ Len(updates') = Len(updates) + 1
            /\ \A k \in 1..Len(updates) : updates'[k] = updates[k]
            /\ updates'[Len(updates) + 1] = i
        BY <1>d, <3>1, <3>2, Appended
      <3>4. card' = card
        BY <2>1 DEF PersonTapsOrWrites, store
      <3>5. ASSUME NEW k \in 1..Len(updates'), updates'[k].kind = "answer"
            PROVE  card[updates'[k].id] # "none"
        <4>1. k \in 1..Len(updates) \/ k = Len(updates) + 1
          BY <1>d, <3>3
        <4> QED BY <1>c, <3>1, <3>3, <3>5, <4>1 DEF CardInv
      <3> QED BY <3>4, <3>5
    <2>2. CASE ~PersonTapsOrWrites
      <3>1. updates' = updates
        BY <2>2 DEF DecisionsNext, CreateDecision, RespondDecision, PersonPosts,
           OthersPublish, PollDiscord, ProcessPost, PollTelegram, TakeUpdate, HandleUpdate,
           EditCard, Subscribe, StreamEnds, Forward, Restart, decisionsVars, outside
      <3> QED BY <1>a, <1>c, <1>d, <3>1 DEF CardInv, Answerable
    <2> QED BY <2>1, <2>2
  <1>3. tg'.edit => /\ updates'[tg'.hand].kind = "answer"
                    /\ decision'[updates'[tg'.hand].id].status = "approved"
    <2>1. CASE HandleUpdate
      <3> SUFFICES ASSUME tg'.edit
                   PROVE  /\ updates'[tg'.hand].kind = "answer"
                          /\ decision'[updates'[tg'.hand].id].status = "approved"
        OBVIOUS
      <3> DEFINE u == updates[tg.hand]
      <3>1. updates' = updates /\ tg.hand # 0 /\ ~tg.edit
        BY <2>1 DEF HandleUpdate, outside
      <3>2. /\ u.kind = "answer" /\ RecordAnswer(u.id, u.option, "telegram")
            /\ tg' = [tg EXCEPT !.edit = TRUE]
        BY <1>e, <2>1, <3>1 DEF HandleUpdate
      <3>3. tg'.hand = tg.hand /\ tg.hand \in 1..Len(updates)
        BY <1>e, <3>1, <3>2
      <3>4. u.id \in Ids /\ u.option \in Options /\ decision[u.id] # NoDecision
        BY <1>c, <1>d, <3>2, <3>3 DEF Answerable, CardInv
      <3>5. decision'[u.id].status = "approved"
        BY <1>c, <3>2, <3>4, Recorded
      <3> QED BY <3>1, <3>2, <3>3, <3>5
    <2>2. CASE TakeUpdate \/ PollTelegram \/ EditCard \/ Restart
      <3>1. ~tg'.edit
        <4>1. CASE TakeUpdate
          BY <1>e, <4>1 DEF TakeUpdate
        <4>2. CASE PollTelegram
          <5> DEFINE done == IF tg.offset > confirmed THEN tg.offset - 1 ELSE confirmed
                     upto == Least(done + Limit, Len(updates))
          <5>1. ~tg.edit /\ tg' = [tg EXCEPT !.next = done + 1, !.upto = upto]
            BY <4>2 DEF PollTelegram
          <5> HIDE DEF done, upto
          <5> QED BY <1>e, <5>1
        <4>3. CASE EditCard \/ Restart
          <5>0. tg \in [offset : Nat, next : Nat \ {0}, upto : Nat, hand : Nat, edit : BOOLEAN]
            BY <1>e
          <5>1. CASE EditCard
            <6>1. tg' = [tg EXCEPT !.hand = 0, !.edit = FALSE]
              BY <5>1 DEF EditCard
            <6>2. tg' = [offset |-> tg.offset, next |-> tg.next, upto |-> tg.upto, hand |-> 0,
                         edit |-> FALSE]
              BY <5>0, <6>1
            <6> QED BY <6>2
          <5>2. CASE Restart
            BY <5>2 DEF Restart, NoUpdates
          <5> QED BY <4>3, <5>1, <5>2
        <4> QED BY <2>2, <4>1, <4>2, <4>3
      <3> QED BY <3>1
    <2>3. CASE \/ CreateDecision \/ RespondDecision \/ PersonPosts \/ PersonTapsOrWrites
               \/ OthersPublish \/ PollDiscord \/ ProcessPost \/ Subscribe \/ StreamEnds
               \/ Forward \/ UNCHANGED decisionsVars
      <3>1. tg' = tg
        BY <2>3 DEF CreateDecision, RespondDecision, PersonPosts, PersonTapsOrWrites,
           OthersPublish, PollDiscord, ProcessPost, Subscribe, StreamEnds, Forward,
           decisionsVars, pollers
      <3>2. ASSUME tg.edit PROVE /\ updates'[tg.hand] = updates[tg.hand]
                                 /\ updates[tg.hand].kind = "answer"
                                 /\ updates[tg.hand].id \in Ids
        BY <1>c, <1>d, <1>e, <3>2 DEF Grows, CardInv, Answerable
      <3> QED BY <1>b, <1>c, <3>1, <3>2 DEF CardInv, Kept
    <2> QED BY <2>1, <2>2, <2>3 DEF DecisionsNext
  <1>4. EditedIsAnswered'
    <2> SUFFICES ASSUME NEW d \in Ids, card'[d] = "edited"
                 PROVE  decision'[d].status = "approved"
      BY DEF EditedIsAnswered
    <2>1. decision[d].status = "approved"
      BY <1>a, <1>c DEF CardInv, EditedIsAnswered
    <2> QED BY <1>b, <2>1 DEF Kept
  <1> QED BY <1>1, <1>2, <1>3, <1>4 DEF CardInv

-----------------------------------------------------------------------------
(* The Discord poller, and what goes to the forum and back.                *)

\* The poller is brought to a post, a batch and a direction.
LEMMA BatchTypesKept ==
    ASSUME BatchTypes, Len(channel) \in Nat, Len(channel') \in Nat,
           Len(channel) <= Len(channel'), order' = order,
           NEW last \in Nat, NEW next \in Nat \ {0}, NEW upto \in Nat, NEW down \in BOOLEAN,
           dc' = [last |-> last, next |-> next, upto |-> upto, down |-> down],
           last <= Len(channel), upto <= Len(channel), next <= Len(channel) + 1,
           taken' \subseteq 1..Len(channel)
    PROVE  BatchTypes'
  <1>1. dc' \in [last : Nat, next : Nat \ {0}, upto : Nat, down : BOOLEAN]
    OBVIOUS
  <1>2. dc'.last = last /\ dc'.next = next /\ dc'.upto = upto
    OBVIOUS
  <1> QED BY <1>1, <1>2 DEF BatchTypes

LEMMA BatchStep ==
    ASSUME DecisionsInv, [DecisionsNext]_decisionsVars, ChatsStepped
    PROVE  BatchInv'
  <1>a. Len(channel) \in Nat /\ Len(channel') \in Nat /\ Len(channel) <= Len(channel')
    <2>1. channel \in Seq(Items)
      BY DEF DecisionsInv, DecisionsTypeOK
    <2>2. channel' \in Seq(Items) /\ Len(channel) <= Len(channel')
      BY DEF ChatsStepped, Grows
    <2> QED BY <2>1, <2>2
  <1>b. BatchInv /\ dc \in [last : Nat, next : Nat \ {0}, upto : Nat, down : BOOLEAN]
    BY DEF DecisionsInv, BatchInv, BatchTypes
  <1>c. Limit \in Nat \ {0}
    OBVIOUS
  <1>o. order' = order
    BY DEF DecisionsNext, CreateDecision, RespondDecision, PersonPosts,
       PersonTapsOrWrites, OthersPublish, PollDiscord, ProcessPost, PollTelegram, TakeUpdate,
       HandleUpdate, EditCard, Subscribe, StreamEnds, Forward, Restart, decisionsVars, outside
  <1>1. CASE PollDiscord
    <2> DEFINE from == Fetch(dc.last)[1]   to == Fetch(dc.last)[2]
               down == dc.last # 0 /\ order = "oldest"
    <2>1. /\ dc.next > dc.upto /\ from <= to /\ taken' = taken
          /\ dc' = [dc EXCEPT !.next = from, !.upto = to, !.down = down]
      BY <1>1 DEF PollDiscord
    <2>2. /\ from \in Nat \ {0} /\ to \in 0..Len(channel)
          /\ dc.last # 0 => from = dc.last + 1
      <3>1. {dc.last, dc.upto} \subseteq 0..Len(channel)
        BY <1>b DEF BatchInv, BatchTypes
      <3> QED BY <1>a, <1>b, <1>c, <3>1 DEF Fetch, FetchNewest, Least
    <2> HIDE DEF from, to
    <2>3. dc' = [last |-> dc.last, next |-> from, upto |-> to, down |-> down]
      BY <1>b, <2>1
    <2>4. BatchTypes'
      <3>1. /\ BatchTypes /\ dc.last \in Nat /\ down \in BOOLEAN /\ to \in Nat
            /\ dc.last <= Len(channel) /\ to <= Len(channel) /\ from <= Len(channel) + 1
            /\ taken' \subseteq 1..Len(channel)
        BY <1>a, <1>b, <2>1, <2>2 DEF BatchInv, BatchTypes
      <3> HIDE DEF down
      <3> QED BY <1>a, <1>o, <2>2, <2>3, <3>1, BatchTypesKept
    <2>5. ClosedUpTo(dc.last) /\ (dc.last = 0 => taken = {})
      BY <2>1 DEF DecisionsInv, BatchInv
    <2>6. \A n \in taken' : n..(from - 1) \subseteq taken'
      <3>1. CASE dc.last = 0
        BY <2>1, <2>5, <3>1
      <3>2. CASE dc.last # 0
        <4>1. from - 1 = dc.last
          BY <1>b, <2>2, <3>2
        <4> QED BY <2>1, <2>5, <4>1 DEF ClosedUpTo
      <3> QED BY <3>1, <3>2
    <2>7. order = "newest" => \A n \in taken : n <= from - 1
      <3>1. order = "newest" => \A n \in taken : n <= dc.last
        BY <1>b, <2>1 DEF BatchInv
      <3>2. CASE dc.last = 0
        BY <2>5, <3>2
      <3>3. CASE dc.last # 0
        <4>1. from - 1 = dc.last
          BY <1>b, <2>2, <3>3
        <4> SUFFICES ASSUME order = "newest", NEW n \in taken PROVE n <= from - 1
          OBVIOUS
        <4>2. n <= dc.last
          BY <3>1
        <4> QED BY <4>1, <4>2
      <3> QED BY <3>2, <3>3
    <2>8. /\ dc'.next = from /\ dc'.upto = to /\ from <= to /\ taken' = taken
          /\ dc'.down => order = "oldest"
      BY <2>1, <2>3
    <2>9. ~(from > to)
      BY <1>a, <2>2, <2>8
    <2> HIDE DEF down
    <2> QED BY <1>o, <2>4, <2>6, <2>7, <2>8, <2>9 DEF BatchInv, ClosedUpTo
  <1>2. CASE ProcessPost
    <2> DEFINE n == InHand
    <2>1. /\ n \in 1..Len(channel) /\ n \in dc.next..dc.upto /\ dc.next <= dc.upto
          /\ taken' = taken \cup {n}
      BY <1>2, PostInHand DEF ProcessPost
    <2>2. /\ ClosedUpTo(dc.next - 1) /\ (dc.down => order = "oldest")
          /\ order = "newest" => \A m \in taken : m <= dc.next - 1
          /\ BatchTypes
      BY <1>b, <2>1 DEF BatchInv
    <2>5. taken' \subseteq Int
      <3>1. taken \subseteq 1..Len(channel)
        BY <2>2 DEF BatchTypes
      <3>2. taken' = taken \cup {n} /\ n \in 1..Len(channel)
        BY <2>1
      <3> HIDE DEF n
      <3> QED BY <1>a, <3>1, <3>2
    <2>3. CASE dc.down
      <3>1. n = dc.upto /\ dc' = [last |-> n, next |-> dc.next, upto |-> n - 1, down |-> TRUE]
        BY <1>2, <1>b, <2>3 DEF ProcessPost, InHand, AdvancedPast
      <3>2. BatchTypes'
        <4>1. /\ n \in Nat /\ n <= Len(channel) /\ dc.next \in Nat \ {0} /\ dc.upto \in Nat
              /\ dc.next <= n /\ n <= dc.upto /\ dc.upto <= Len(channel)
              /\ taken' \subseteq 1..Len(channel)
          <5>1. /\ dc.next \in Nat \ {0} /\ dc.upto \in Nat /\ dc.upto <= Len(channel)
                /\ taken \subseteq 1..Len(channel)
            BY <1>a, <1>b, <2>2 DEF BatchTypes
          <5>2. n \in 1..Len(channel) /\ n \in dc.next..dc.upto /\ taken' = taken \cup {n}
            BY <2>1
          <5> HIDE DEF n
          <5> QED BY <1>a, <5>1, <5>2
        <4>2. /\ n - 1 \in Nat /\ n - 1 <= Len(channel) /\ n + 1 \in Nat \ {0}
              /\ n + 1 <= Len(channel) + 1 /\ dc.next <= Len(channel) + 1
              /\ TRUE \in BOOLEAN /\ FALSE \in BOOLEAN
          BY <1>a, <4>1
        <4> HIDE DEF n
        <4> QED BY <1>a, <1>o, <2>2, <3>1, <4>1, <4>2, BatchTypesKept
      <3>3. ClosedUpTo(dc.next - 1)'
        <4>1. \A m \in taken : m..(dc.next - 1) \subseteq taken
          BY <2>2 DEF ClosedUpTo
        <4>2. n..(dc.next - 1) \subseteq {n}
          BY <1>a, <1>b, <2>1
        <4>3. dc'.next = dc.next
          BY <3>1
        <4>4. \A m \in taken' : m..(dc.next - 1) \subseteq taken'
          BY <2>1, <4>1, <4>2
        <4> QED BY <4>3, <4>4 DEF ClosedUpTo
      <3>4. n = dc.next => ClosedUpTo(dc.last)'
        <4> SUFFICES ASSUME n = dc.next PROVE \A m \in taken' : m..n \subseteq taken'
          BY <3>1 DEF ClosedUpTo
        <4>1. \A m \in taken : m..(n - 1) \subseteq taken
          BY <2>2 DEF ClosedUpTo
        <4>2. \A m \in Int : m..n \subseteq (m..(n - 1)) \cup {n}
          BY <1>a, <2>1
        <4>4. n..(n - 1) = {}
          BY <1>a, <2>1
        <4> QED BY <2>1, <2>5, <4>1, <4>2, <4>4
      <3>7. dc'.next > dc'.upto => n = dc.next
        BY <1>a, <1>b, <2>1, <3>1
      <3>8. order # "newest"
        BY <2>2, <2>3
      <3>9. /\ dc'.next = dc.next /\ dc'.last = n /\ dc'.last \in taken'
            /\ dc'.last # 0 /\ dc'.down
        BY <1>a, <2>1, <3>1
      <3> QED BY <1>o, <2>2, <2>3, <3>2, <3>3, <3>4, <3>7, <3>8, <3>9 DEF BatchInv, ClosedUpTo
    <2>4. CASE ~dc.down
      <3>1. n = dc.next /\ dc' = [last |-> n, next |-> n + 1, upto |-> dc.upto, down |-> FALSE]
        BY <1>2, <1>b, <2>4 DEF ProcessPost, InHand, AdvancedPast
      <3>2. BatchTypes'
        <4>1. /\ n \in Nat /\ n <= Len(channel) /\ dc.next \in Nat \ {0} /\ dc.upto \in Nat
              /\ dc.next <= n /\ n <= dc.upto /\ dc.upto <= Len(channel)
              /\ taken' \subseteq 1..Len(channel)
          <5>1. /\ dc.next \in Nat \ {0} /\ dc.upto \in Nat /\ dc.upto <= Len(channel)
                /\ taken \subseteq 1..Len(channel)
            BY <1>a, <1>b, <2>2 DEF BatchTypes
          <5>2. n \in 1..Len(channel) /\ n \in dc.next..dc.upto /\ taken' = taken \cup {n}
            BY <2>1
          <5> HIDE DEF n
          <5> QED BY <1>a, <5>1, <5>2
        <4>2. /\ n - 1 \in Nat /\ n - 1 <= Len(channel) /\ n + 1 \in Nat \ {0}
              /\ n + 1 <= Len(channel) + 1 /\ dc.next <= Len(channel) + 1
              /\ TRUE \in BOOLEAN /\ FALSE \in BOOLEAN
          BY <1>a, <4>1
        <4> HIDE DEF n
        <4> QED BY <1>a, <1>o, <2>2, <3>1, <4>1, <4>2, BatchTypesKept
      <3>3. \A m \in taken' : m..n \subseteq taken'
        <4>1. \A m \in taken : m..(n - 1) \subseteq taken
          BY <2>2, <3>1 DEF ClosedUpTo
        <4>2. \A m \in Int : m..n \subseteq (m..(n - 1)) \cup {n}
          BY <1>a, <2>1
        <4>4. n..(n - 1) = {}
          BY <1>a, <2>1
        <4> QED BY <2>1, <2>5, <4>1, <4>2, <4>4
      <3>4. order = "newest" => \A m \in taken' : m <= n
        <4>1. taken \subseteq Int
          BY <1>a, <2>2 DEF BatchTypes
        <4> QED BY <1>a, <2>1, <2>2, <3>1, <4>1
      <3>5. /\ dc'.last = n /\ dc'.next - 1 = n /\ dc'.last \in taken' /\ dc'.last # 0
            /\ ~dc'.down
        BY <1>a, <2>1, <3>1
      <3> QED BY <1>o, <3>2, <3>3, <3>4, <3>5 DEF BatchInv, ClosedUpTo
    <2> QED BY <1>b, <2>3, <2>4
  <1>3. CASE Restart
    <2>1. dc' = [last |-> 0, next |-> 1, upto |-> 0, down |-> FALSE] /\ taken' = {}
      BY <1>3 DEF Restart, NoBatch
    <2>2. order \in {"newest", "oldest"}
      BY <1>b DEF BatchInv, BatchTypes
    <2> QED BY <1>a, <1>o, <2>1, <2>2 DEF BatchInv, BatchTypes, ClosedUpTo
  <1>4. CASE \/ CreateDecision \/ RespondDecision \/ PersonPosts \/ PersonTapsOrWrites
             \/ OthersPublish \/ PollTelegram \/ TakeUpdate \/ HandleUpdate \/ EditCard
             \/ Subscribe \/ StreamEnds \/ Forward \/ UNCHANGED decisionsVars
    <2>1. dc' = dc /\ taken' = taken
      BY <1>4 DEF CreateDecision, RespondDecision, PersonPosts, PersonTapsOrWrites,
         OthersPublish, PollTelegram, TakeUpdate, HandleUpdate, EditCard, Subscribe,
         StreamEnds, Forward, decisionsVars, pollers
    <2>2. BatchTypes'
      BY <1>a, <1>b, <1>o, <2>1 DEF BatchInv, BatchTypes
    <2> QED BY <1>b, <1>o, <2>1, <2>2 DEF BatchInv, ClosedUpTo
  <1> QED BY <1>1, <1>2, <1>3, <1>4 DEF DecisionsNext

Messages == [from : {"discord", "elsewhere"}, src : Nat]

LEMMA EchoKept ==
    ASSUME DecisionsInv, ChatsStepped, forum' = forum
    PROVE  forum' \in Seq(Messages) /\ Len(forum) <= Len(forum') /\ EchoInv'
  <1>1. forum \in Seq(Messages) /\ channel \in Seq(Items) /\ EchoInv
    BY DEF DecisionsInv, DecisionsTypeOK, Messages
  <1>2. Grows(channel, channel') /\ channel' \in Seq(Items)
    BY DEF ChatsStepped
  <1> QED BY <1>1, <1>2 DEF EchoInv, Grows

LEMMA EchoStep ==
    ASSUME DecisionsInv, [DecisionsNext]_decisionsVars, ChatsStepped
    PROVE  forum' \in Seq(Messages) /\ Len(forum) <= Len(forum') /\ EchoInv'
  <1> DEFINE Stepped == forum' \in Seq(Messages) /\ Len(forum) <= Len(forum') /\ EchoInv'
  <1>a. forum \in Seq(Messages) /\ channel \in Seq(Items) /\ EchoInv
    BY DEF DecisionsInv, DecisionsTypeOK, Messages
  <1>b. Grows(channel, channel') /\ channel' \in Seq(Items)
    BY DEF ChatsStepped
  <1>c. ASSUME NEW m \in Messages, forum' = Append(forum, m),
               m.from = "discord" => m.src \in 1..Len(channel) /\ channel[m.src].kind # "bot"
        PROVE  Stepped
    <2>1. /\ forum' \in Seq(Messages) /\ Len(forum') = Len(forum) + 1
          /\ \A i \in 1..Len(forum) : forum'[i] = forum[i]
          /\ forum'[Len(forum) + 1] = m
      BY <1>a, <1>c, Appended
    <2>2. ASSUME NEW i \in 1..Len(forum'), forum'[i].from = "discord"
          PROVE  forum'[i].src \in 1..Len(channel) /\ channel[forum'[i].src].kind # "bot"
      <3>1. i \in 1..Len(forum) \/ i = Len(forum) + 1
        BY <1>a, <2>1
      <3> QED BY <1>a, <1>c, <2>1, <2>2, <3>1 DEF EchoInv
    <2>3. EchoInv'
      <3> SUFFICES ASSUME NEW i \in 1..Len(forum'), forum'[i].from = "discord"
                   PROVE  /\ forum'[i].src \in 1..Len(channel')
                          /\ channel'[forum'[i].src].kind # "bot"
        BY DEF EchoInv
      <3> QED BY <1>a, <1>b, <2>2 DEF Grows
    <2> QED BY <1>a, <2>1, <2>3
  <1>1. CASE ProcessPost
    <2> DEFINE post == channel[InHand]   m == [from |-> "discord", src |-> InHand]
    <2>1. \/ forum' = forum
          \/ ~SkipsBots(post) /\ forum' = Append(forum, m)
      BY <1>1 DEF ProcessPost, Publish
    <2>2. InHand \in 1..Len(channel)
      BY <1>1, PostInHand
    <2>3. m \in Messages
      BY <2>2 DEF Messages
    <2> QED BY <1>c, <2>1, <2>2, <2>3, EchoKept DEF SkipsBots
  <1>2. CASE OthersPublish \/ HandleUpdate
    <2> DEFINE m == [from |-> "elsewhere", src |-> 0]
    <2>1. forum' = forum \/ forum' = Append(forum, m)
      BY <1>2 DEF OthersPublish, HandleUpdate, Publish
    <2>2. m \in Messages
      BY DEF Messages
    <2> QED BY <1>c, <2>1, <2>2, EchoKept
  <1>3. CASE \/ CreateDecision \/ RespondDecision \/ PersonPosts \/ PersonTapsOrWrites
             \/ PollDiscord \/ PollTelegram \/ TakeUpdate \/ EditCard \/ Subscribe
             \/ StreamEnds \/ Forward \/ Restart \/ UNCHANGED decisionsVars
    <2>1. forum' = forum
      BY <1>3 DEF CreateDecision, RespondDecision, PersonPosts, PersonTapsOrWrites,
         PollDiscord, PollTelegram, TakeUpdate, EditCard, Subscribe, StreamEnds,
         Forward, Restart, decisionsVars
    <2> QED BY <2>1, EchoKept
  <1> QED BY <1>1, <1>2, <1>3 DEF DecisionsNext

LEMMA ForwarderStep ==
    ASSUME DecisionsInv, [DecisionsNext]_decisionsVars, forum' \in Seq(Messages), Len(forum) <= Len(forum')
    PROVE  fwd' \in [state : {"off", "on", "ended"}, at : 0..(Len(forum') + 1)]
  <1>a. /\ fwd \in [state : {"off", "on", "ended"}, at : 0..(Len(forum) + 1)]
        /\ Len(forum) \in Nat /\ Len(forum') \in Nat
    <2>1. /\ fwd \in [state : {"off", "on", "ended"}, at : 0..(Len(forum) + 1)]
          /\ forum \in Seq(Messages)
      BY DEF DecisionsInv, DecisionsTypeOK, Messages
    <2> QED BY <2>1
  <1>1. CASE Subscribe \/ StreamEnds
    BY <1>1, <1>a DEF Subscribe, StreamEnds
  <1>2. CASE Forward
    BY <1>2, <1>a DEF Forward
  <1>3. CASE Restart
    BY <1>3, <1>a DEF Restart, Off
  <1>4. CASE \/ CreateDecision \/ RespondDecision \/ PersonPosts \/ PersonTapsOrWrites
             \/ OthersPublish \/ PollDiscord \/ ProcessPost \/ PollTelegram
             \/ TakeUpdate \/ HandleUpdate \/ EditCard \/ UNCHANGED decisionsVars
    <2>1. fwd' = fwd
      BY <1>4 DEF CreateDecision, RespondDecision, PersonPosts, PersonTapsOrWrites,
         OthersPublish, PollDiscord, ProcessPost, PollTelegram, TakeUpdate,
         HandleUpdate, EditCard, decisionsVars
    <2> QED BY <1>a, <2>1
  <1> QED BY <1>1, <1>2, <1>3, <1>4 DEF DecisionsNext

-----------------------------------------------------------------------------
(* The Telegram poller.                                                    *)

OffsetTypes ==
    /\ tg \in [offset : Nat, next : Nat \ {0}, upto : Nat, hand : Nat, edit : BOOLEAN]
    /\ {tg.upto, tg.hand} \subseteq 0..Len(updates) /\ tg.next \in tg.offset..(Len(updates) + 1)
    /\ confirmed \in 0..Len(updates) /\ handled \subseteq 1..Len(updates)

\* The poller is brought to an offset, a place in the batch and an update in hand.
LEMMA BroughtTo ==
    ASSUME NEW offset \in Nat, NEW next \in Nat \ {0}, NEW upto \in Nat, NEW hand \in Nat,
           NEW edit \in BOOLEAN, Len(updates') \in Nat,
           tg' = [offset |-> offset, next |-> next, upto |-> upto, hand |-> hand, edit |-> edit],
           offset <= next, next <= Len(updates') + 1, upto <= Len(updates'), hand < next,
           confirmed' \in 0..Len(updates'), handled' \subseteq 1..Len(updates'),
           1..(next - 1) \subseteq handled' \cup {hand}, edit => hand \in handled',
           1..confirmed' \subseteq handled'
    PROVE  OffsetTypes' /\ OffsetInv'
  <1>1. OffsetTypes'
    BY DEF OffsetTypes
  <1>2. OffsetInv'
    BY DEF OffsetInv, ForgottenIsHandled
  <1> QED BY <1>1, <1>2

LEMMA OffsetStep ==
    ASSUME DecisionsInv, [DecisionsNext]_decisionsVars, ChatsStepped
    PROVE  OffsetTypes' /\ OffsetInv'
  <1>a. Len(updates) \in Nat /\ Len(updates') \in Nat /\ Len(updates) <= Len(updates')
    <2>1. updates \in Seq(Items)
      BY DEF DecisionsInv, DecisionsTypeOK
    <2>2. updates' \in Seq(Items) /\ Len(updates) <= Len(updates')
      BY DEF ChatsStepped, Grows
    <2> QED BY <2>1, <2>2
  <1>r. tg \in [offset : Nat, next : Nat \ {0}, upto : Nat, hand : Nat, edit : BOOLEAN]
    BY DEF DecisionsInv, DecisionsTypeOK
  <1>b. OffsetTypes
    BY DEF DecisionsInv, DecisionsTypeOK, OffsetTypes
  <1>c. /\ tg.upto <= Len(updates) /\ tg.hand <= Len(updates)
        /\ tg.offset <= tg.next /\ tg.next <= Len(updates) + 1
        /\ confirmed \in 0..Len(updates) /\ handled \subseteq 1..Len(updates)
    BY <1>a, <1>b DEF OffsetTypes
  <1>d. /\ 1..(tg.next - 1) \subseteq handled \cup {tg.hand} /\ tg.hand < tg.next
        /\ tg.edit => tg.hand \in handled
        /\ 1..confirmed \subseteq handled
    BY DEF DecisionsInv, OffsetInv, ForgottenIsHandled
  <1>e. confirmed \in 0..Len(updates') /\ handled \subseteq 1..Len(updates')
    BY <1>a, <1>c
  <1>1. CASE PollTelegram
    <2> DEFINE done == IF tg.offset > confirmed THEN tg.offset - 1 ELSE confirmed
               upto == Least(done + Limit, Len(updates))
    <2>1. /\ tg.hand = 0 /\ ~tg.edit
          /\ confirmed' = done /\ tg' = [tg EXCEPT !.next = done + 1, !.upto = upto]
          /\ updates' = updates /\ handled' = handled
      BY <1>1 DEF PollTelegram, outside
    <2>2. done \in Nat /\ done <= Len(updates) /\ tg.offset <= done + 1
      BY <1>a, <1>r, <1>c
    <2>3. 1..done \subseteq handled
      <3>1. 1..(tg.next - 1) \subseteq handled /\ 1..confirmed \subseteq handled
        BY <1>c, <1>d, <2>1
      <3>2. CASE tg.offset > confirmed
        <4>1. done = tg.offset - 1
          BY <3>2
        <4>2. tg.offset - 1 <= tg.next - 1 /\ tg.offset \in Nat /\ tg.next \in Nat
          BY <1>r, <1>c
        <4> QED BY <3>1, <4>1, <4>2
      <3>3. CASE ~(tg.offset > confirmed)
        BY <3>1, <3>3
      <3> QED BY <3>2, <3>3
    <2>4. upto \in Nat /\ upto <= Len(updates)
      BY <1>a, <2>2 DEF Least
    <2> HIDE DEF done, upto
    <2> DEFINE next == done + 1
    <2>5. tg' = [offset |-> tg.offset, next |-> next, upto |-> upto, hand |-> 0, edit |-> FALSE]
      BY <1>r, <2>1
    <2>6. /\ next \in Nat \ {0} /\ 0 < next /\ next <= Len(updates') + 1 /\ tg.offset <= next
          /\ upto <= Len(updates')
      BY <1>a, <2>1, <2>2, <2>4
    <2>7. 1..(next - 1) \subseteq handled' \cup {0} /\ 1..confirmed' \subseteq handled'
      BY <2>1, <2>2, <2>3
    <2>8. tg.offset \in Nat /\ 0 \in Nat
      BY <1>r
    <2>9. confirmed' \in 0..Len(updates') /\ handled' \subseteq 1..Len(updates')
      BY <1>a, <1>e, <2>1, <2>2
    <2> HIDE DEF next
    <2> QED BY <1>a, <2>4, <2>5, <2>6, <2>7, <2>8, <2>9, BroughtTo
  <1>2. CASE TakeUpdate
    <2>1. /\ tg.next <= tg.upto /\ tg.hand = 0 /\ ~tg.edit
          /\ tg' = [tg EXCEPT !.offset = tg.next + 1, !.hand = tg.next, !.next = tg.next + 1]
          /\ updates' = updates /\ handled' = handled /\ confirmed' = confirmed
      BY <1>2 DEF TakeUpdate, outside
    <2> DEFINE next == tg.next + 1
    <2>2. tg' = [offset |-> next, next |-> next, upto |-> tg.upto, hand |-> tg.next,
                 edit |-> FALSE]
      BY <1>r, <2>1
    <2>3. 1..(next - 1) \subseteq handled' \cup {tg.next} /\ 1..confirmed' \subseteq handled'
      BY <1>r, <1>d, <2>1
    <2>4. /\ next \in Nat \ {0} /\ tg.upto \in Nat /\ tg.next \in Nat /\ next \in Nat
          /\ next <= Len(updates') + 1 /\ tg.upto <= Len(updates')
          /\ next <= next /\ tg.next < next
      BY <1>a, <1>r, <1>c, <2>1
    <2>5. confirmed' \in 0..Len(updates') /\ handled' \subseteq 1..Len(updates')
      BY <1>e, <2>1
    <2> HIDE DEF next
    <2> QED BY <1>a, <2>2, <2>3, <2>4, <2>5, BroughtTo
  <1>3. CASE HandleUpdate
    <2>1. /\ tg.hand # 0 /\ ~tg.edit /\ handled' = handled \cup {tg.hand}
          /\ tg' = [tg EXCEPT !.edit = TRUE] \/ tg' = [tg EXCEPT !.hand = 0]
          /\ updates' = updates /\ confirmed' = confirmed
      BY <1>3 DEF HandleUpdate, outside
    <2>2. 1..(tg.next - 1) \subseteq handled' /\ 1..confirmed' \subseteq handled'
      BY <1>d, <2>1
    <2>3. handled' \subseteq 1..Len(updates')
      BY <1>a, <1>r, <1>c, <2>1
    <2>4. /\ tg.offset \in Nat /\ tg.next \in Nat \ {0} /\ tg.upto \in Nat /\ tg.hand \in Nat
          /\ tg.offset <= tg.next /\ tg.next <= Len(updates') + 1 /\ tg.upto <= Len(updates')
          /\ tg.hand < tg.next /\ 0 < tg.next /\ 0 \in Nat
      BY <1>a, <1>r, <1>c, <1>d, <2>1
    <2>5. CASE tg' = [tg EXCEPT !.edit = TRUE]
      <3>1. tg' = [offset |-> tg.offset, next |-> tg.next, upto |-> tg.upto, hand |-> tg.hand,
                   edit |-> TRUE]
        BY <1>r, <2>5
      <3> QED BY <1>a, <1>e, <2>1, <2>2, <2>3, <2>4, <3>1, BroughtTo
    <2>6. CASE tg' = [tg EXCEPT !.hand = 0]
      <3>1. tg' = [offset |-> tg.offset, next |-> tg.next, upto |-> tg.upto, hand |-> 0,
                   edit |-> FALSE]
        BY <1>r, <2>1, <2>6
      <3> QED BY <1>a, <1>e, <2>1, <2>2, <2>3, <2>4, <3>1, BroughtTo
    <2> QED BY <2>1, <2>5, <2>6
  <1>4. CASE EditCard
    <2>1. /\ tg.edit /\ tg' = [tg EXCEPT !.hand = 0, !.edit = FALSE]
          /\ updates' = updates /\ confirmed' = confirmed /\ handled' = handled
      BY <1>4 DEF EditCard, outside
    <2>2. tg' = [offset |-> tg.offset, next |-> tg.next, upto |-> tg.upto, hand |-> 0,
                 edit |-> FALSE]
      BY <1>r, <2>1
    <2>3. 1..(tg.next - 1) \subseteq handled'
      BY <1>d, <2>1
    <2>4. /\ tg.offset \in Nat /\ tg.next \in Nat \ {0} /\ tg.upto \in Nat /\ 0 \in Nat
          /\ tg.offset <= tg.next /\ tg.next <= Len(updates') + 1 /\ tg.upto <= Len(updates')
          /\ 0 < tg.next
      BY <1>a, <1>r, <1>c, <2>1
    <2> QED BY <1>a, <1>d, <1>e, <2>1, <2>2, <2>3, <2>4, BroughtTo
  <1>5. CASE Restart
    <2>1. /\ tg' = [offset |-> 0, next |-> 1, upto |-> 0, hand |-> 0, edit |-> FALSE]
          /\ updates' = updates /\ confirmed' = confirmed /\ handled' = handled
      BY <1>5 DEF Restart, NoUpdates, outside
    <2>2. /\ 1 \in Nat \ {0} /\ 0 \in Nat /\ 0 <= 1 /\ 0 < 1
          /\ 1 <= Len(updates') + 1 /\ 0 <= Len(updates')
          /\ 1..(1 - 1) \subseteq handled' \cup {0}
      BY <1>a
    <2> QED BY <1>a, <1>d, <1>e, <2>1, <2>2, BroughtTo
  <1>6. CASE \/ CreateDecision \/ RespondDecision \/ PersonPosts \/ PersonTapsOrWrites
             \/ OthersPublish \/ PollDiscord \/ ProcessPost \/ Subscribe \/ StreamEnds
             \/ Forward \/ UNCHANGED decisionsVars
    <2>1. tg' = tg /\ confirmed' = confirmed /\ handled' = handled
      BY <1>6 DEF CreateDecision, RespondDecision, PersonPosts, PersonTapsOrWrites,
         OthersPublish, PollDiscord, ProcessPost, Subscribe, StreamEnds, Forward,
         decisionsVars, pollers, outside
    <2>2. OffsetTypes'
      BY <1>a, <1>r, <1>c, <1>e, <2>1 DEF OffsetTypes
    <2>3. OffsetInv'
      BY <1>d, <2>1 DEF OffsetInv, ForgottenIsHandled
    <2> QED BY <2>2, <2>3
  <1> QED BY <1>1, <1>2, <1>3, <1>4, <1>5, <1>6 DEF DecisionsNext

-----------------------------------------------------------------------------
LEMMA DecisionsStep ==
    ASSUME DecisionsInv, [DecisionsNext]_decisionsVars PROVE DecisionsInv'
  <1>1. ChatsStepped
    BY ChatsStep
  <1>2. restarts' \in 0..MaxRestarts
    <2>1. restarts \in 0..MaxRestarts /\ MaxRestarts \in Nat
      BY DEF DecisionsInv, DecisionsTypeOK
    <2>2. CASE Restart
      BY <2>1, <2>2 DEF Restart
    <2>3. CASE ~Restart
      <3>1. restarts' = restarts
        BY <2>3 DEF DecisionsNext, decisionsVars, CreateDecision, RespondDecision, PersonPosts,
           PersonTapsOrWrites, OthersPublish, PollDiscord, ProcessPost, PollTelegram,
           TakeUpdate, HandleUpdate, EditCard, Subscribe, StreamEnds, Forward
      <3> QED BY <2>1, <3>1
    <2> QED BY <2>2, <2>3
  <1>3. /\ decision' \in [Ids -> Records] /\ card' \in [Ids -> {"none", "buttons", "edited"}]
    BY TableStep, CardsStep DEF TableStepped
  <1>4. BatchInv' /\ BatchTypes'
    BY <1>1, BatchStep DEF BatchInv
  <1>5. /\ forum' \in Seq(Messages) /\ EchoInv'
        /\ fwd' \in [state : {"off", "on", "ended"}, at : 0..(Len(forum') + 1)]
    BY <1>1, EchoStep, ForwarderStep
  <1>6. OffsetTypes' /\ OffsetInv'
    BY <1>1, OffsetStep
  <1>7. DecisionsTypeOK'
    BY <1>1, <1>2, <1>3, <1>4, <1>5, <1>6 DEF DecisionsTypeOK, ChatsStepped, Records, Messages,
       OffsetTypes, BatchTypes
  <1>8. CardInv'
    BY <1>1, CardInvStep
  <1> QED BY <1>1, <1>4, <1>5, <1>6, <1>7, <1>8 DEF DecisionsInv, ChatsStepped

LEMMA DecisionsInvariant == DecisionsSpec => []DecisionsInv
  <1>1. DecisionsInit => DecisionsInv
    BY InitDecisions
  <1>2. DecisionsInv /\ [DecisionsNext]_decisionsVars => DecisionsInv'
    BY DecisionsStep
  <1> QED BY <1>1, <1>2, PTL DEF DecisionsSpec

\* The state of the connectors and of the decisions they carry is of its types;
\* what the bot put into the Discord channel never comes back as a message;
\* Telegram forgets no update that was not handled, and no card loses its buttons
\* before its decision has an answer, whatever restarts come between.
\* (connectors/lib.rs:137-582)
THEOREM RelayedAsSaid == DecisionsSpec => []RelayedInv
  <1>1. DecisionsInv => RelayedInv
    BY DEF DecisionsInv, EchoInv, OffsetInv, CardInv, RelayedInv, NoLoop
  <1> QED BY <1>1, DecisionsInvariant, PTL

\* For any size of a poll and either order of Discord's answers: from the first post
\* the poller took to the one it will ask after, none is left out.
\* (connectors/lib.rs:195-294)
THEOREM PollerLeavesNoGap == DecisionsSpec => []NonePassedOver
  <1>1. DecisionsInv => NonePassedOver
    BY DEF DecisionsInv, BatchInv, ClosedUpTo, NonePassedOver
  <1> QED BY <1>1, DecisionsInvariant, PTL

\* If Discord answers newest first throughout, the poller takes the posts in their
\* order and each at most once between two restarts. (connectors/lib.rs:213-294)
THEOREM PollerKeepsOrder == DecisionsSpec => DiscordInOrder
  <1> DEFINE Upwards == ProcessPost /\ order = "newest" => \A n \in taken : n < InHand
  <1>1. DecisionsInv => Upwards
    <2> SUFFICES ASSUME DecisionsInv, ProcessPost, order = "newest", NEW n \in taken
                 PROVE  n < InHand
      OBVIOUS
    <2>1. /\ dc \in [last : Nat, next : Nat \ {0}, upto : Nat, down : BOOLEAN]
          /\ dc.next <= dc.upto /\ ~dc.down /\ taken \subseteq 1..Len(channel)
          /\ \A m \in taken : m <= IF dc.next <= dc.upto THEN dc.next - 1 ELSE dc.last
      BY DEF DecisionsInv, BatchInv, BatchTypes, ProcessPost
    <2>2. n <= dc.next - 1 /\ InHand = dc.next
      BY <2>1 DEF InHand
    <2>3. n \in Nat /\ dc.next \in Nat
      <3>1. channel \in Seq(Items)
        BY DEF DecisionsInv, DecisionsTypeOK
      <3> QED BY <2>1, <3>1
    <2> QED BY <2>2, <2>3
  <1> HIDE DEF Upwards
  <1>2. DecisionsSpec => [][Upwards]_decisionsVars
    BY <1>1, DecisionsInvariant, PTL DEF DecisionsSpec
  <1> QED BY <1>2 DEF Upwards, DiscordInOrder
============================================================================
