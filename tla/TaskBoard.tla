----------------------------- MODULE TaskBoard -----------------------------
(***************************************************************************)
(* What the task table promises, without clocks, timestamps, requests or   *)
(* sweeps: a task is on the board, open or held by somebody; a hold is     *)
(* live until it lapses; only a lapsed hold can pass to another agent or   *)
(* go back to open; a finished task stays finished.  TaskLease implements  *)
(* this specification.                                                     *)
(***************************************************************************)

CONSTANTS Agents,   \* agents that hold tasks
          Tasks,    \* task ids
          Nobody    \* the holder of a task that nobody holds

VARIABLES phase,    \* phase[t]  : absent, open, held or finished
          holder,   \* holder[t] : who holds t while it is held
          live      \* live[t]   : the hold on t has not lapsed

boardVars == <<phase, holder, live>>

Phases == {"absent", "open", "held", "finished"}

BoardInit ==
    /\ phase  = [t \in Tasks |-> "absent"]
    /\ holder = [t \in Tasks |-> Nobody]
    /\ live   = [t \in Tasks |-> FALSE]

\* A task appears, in whatever phase its author gives it.
Appear(t) ==
    /\ phase[t] = "absent"
    /\ \E p \in Phases \ {"absent"}, h \in Agents \cup {Nobody}, l \in BOOLEAN :
          /\ phase'  = [phase  EXCEPT ![t] = p]
          /\ holder' = [holder EXCEPT ![t] = h]
          /\ live'   = [live   EXCEPT ![t] = l]

\* An agent takes an open task or one whose hold lapsed, or takes its own again.
Take(a, t) ==
    /\ \/ phase[t] = "open"
       \/ phase[t] = "held" /\ (holder[t] = a \/ ~live[t])
    /\ phase'  = [phase  EXCEPT ![t] = "held"]
    /\ holder' = [holder EXCEPT ![t] = a]
    /\ \E l \in BOOLEAN : live' = [live EXCEPT ![t] = l]

\* A heartbeat of the holder makes its hold live, even one that had lapsed.
Keep(t) ==
    /\ phase[t] = "held"
    /\ live' = [live EXCEPT ![t] = TRUE]
    /\ UNCHANGED <<phase, holder>>

\* Time passes and any number of holds lapse.
Lapse(S) ==
    /\ live' = [t \in Tasks |-> live[t] /\ t \notin S]
    /\ UNCHANGED <<phase, holder>>

\* A lapsed hold is given up and the task is open again.
Reopen(t) ==
    /\ phase[t] = "held"
    /\ ~live[t]
    /\ phase'  = [phase  EXCEPT ![t] = "open"]
    /\ holder' = [holder EXCEPT ![t] = Nobody]
    /\ UNCHANGED live

\* A task is finished, by whoever says so.
Finish(t) ==
    /\ phase[t] # "absent"
    /\ phase'  = [phase  EXCEPT ![t] = "finished"]
    /\ holder' = [holder EXCEPT ![t] = Nobody]
    /\ live'   = [live   EXCEPT ![t] = FALSE]

BoardNext ==
    \/ \E t \in Tasks : Appear(t) \/ Keep(t) \/ Reopen(t) \/ Finish(t)
    \/ \E t \in Tasks, a \in Agents : Take(a, t)
    \/ \E S \in SUBSET Tasks : Lapse(S)

BoardSpec == BoardInit /\ [][BoardNext]_boardVars
============================================================================
