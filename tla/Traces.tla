------------------------------- MODULE Traces -------------------------------
(***************************************************************************)
(* Trace sessions: what opens the topics under _trace. for a while.  A     *)
(* session has a level and an end, is a row of the store, and is limited   *)
(* to so many messages a second by a counter kept in memory.  A publisher  *)
(* of a trace message walks over the sessions the store listed when its    *)
(* check began (trace_mgr.rs, check_trace_allowed), while other publishers *)
(* check, sessions are enabled and disabled, and time passes.              *)
(*                                                                         *)
(* Every session holds the pattern _trace.** (handlers/trace.rs:85), so    *)
(* each one matches every trace topic; a topic is its level only.          *)
(***************************************************************************)
EXTENDS Integers

CONSTANTS Sessions,      \* the ids of the sessions
          Publishers,    \* the tasks that publish trace messages
          MaxLevel,      \* the levels are 0..MaxLevel, Off being 0
          Second,        \* the ticks of the clock in a second
          Rate,          \* max_messages_per_second of every session
          Durations,     \* the lengths a session may be enabled for
          MaxTime        \* bound: the clock stops here

ASSUME TracesAssumption ==
  /\ {MaxLevel, Second, Rate} \subseteq Nat \ {0}
  /\ MaxTime \in Nat
  /\ Durations \subseteq Nat

VARIABLES session,  \* the rows of trace_sessions
          limit,    \* the limits map of the manager: at most one record each
          check,    \* what each publisher is doing
          now,      \* the clock
          spent     \* history: the messages charged to a session before each tick

vars == <<session, limit, check, now, spent>>

Levels == 0 .. MaxLevel
Times == 0 .. MaxTime
Ends == 0 .. MaxTime + 1

NoSession == [status |-> "none", expires |-> 0, level |-> 0]

\* left: the active rows still to be looked at.  open (history): the sessions
\* that were active and not over when the check began.
Idle == [pc |-> "idle", level |-> 0, began |-> 0, left |-> {}, open |-> {}]

Nothing == [s \in Sessions |-> {}]
NothingSpent == [s \in Sessions |-> [t \in Ends |-> 0]]

Init == /\ session = [s \in Sessions |-> NoSession]
        /\ limit = Nothing
        /\ check = [p \in Publishers |-> Idle]
        /\ now = 0
        /\ spent = NothingSpent

(***************************************************************************)
(* Enabling and disabling.  Ids are new; the upsert of the store changes   *)
(* status, expiry and level only.                                          *)
(***************************************************************************)
Active(s) == session[s].status = "active"

Enable(s, l, d) ==
  /\ session[s].status = "none"
  /\ session' = [session EXCEPT ![s] =
                   [status |-> "active", expires |-> now + d, level |-> l]]
  /\ UNCHANGED <<limit, check, now, spent>>

\* A row that was disabled before is disabled again (which also lowers the
\* metric trace_sessions_active once more; metrics are not modelled).
SwitchOff(s) == session' = [session EXCEPT ![s].status = "disabled"]

Disable(s) == /\ session[s].status # "none"
              /\ SwitchOff(s)
              /\ UNCHANGED <<limit, check, now, spent>>

(***************************************************************************)
(* The check of one message: the list is read once, the time is read once, *)
(* and the counters are shared with the other publishers.                  *)
(***************************************************************************)
Begin(p, l) ==
  /\ check[p].pc = "idle"
  /\ check' = [check EXCEPT ![p] =
       [pc |-> "checking", level |-> l, began |-> now,
        left |-> {s \in Sessions : Active(s)},
        open |-> {s \in Sessions : Active(s) /\ session[s].expires > now}]]
  /\ UNCHANGED <<session, limit, now, spent>>

NeverOver(p, s) == FALSE    \* for mutation: the end is not looked at
Over(p, s) == session[s].expires <= check[p].began

\* An expired session is disabled by whoever meets it; two publishers that
\* listed it while it was active both do so.
Expire(p, s) ==
  /\ s \in check[p].left
  /\ Over(p, s)
  /\ SwitchOff(s)
  /\ check' = [check EXCEPT ![p].left = @ \ {s}]
  /\ UNCHANGED <<limit, now, spent>>

\* The record of the limits map as the check finds it under the mutex: a new
\* one starts now, one that is a second old starts anew.
Fresh == [tick |-> now, count |-> 0]
\* For mutation: a record starts anew a tick too early.
StartsAnewEarly(s) ==
  IF \E r \in limit[s] : now - r.tick < Second - 1
    THEN CHOOSE r \in limit[s] : TRUE
    ELSE Fresh

CountOf(s) ==
  IF \E r \in limit[s] : now - r.tick < Second
    THEN CHOOSE r \in limit[s] : TRUE
    ELSE Fresh

Full(s) == CountOf(s).count >= Rate

RateLimit(p, s) ==
  /\ s \in check[p].left
  /\ ~Over(p, s)
  /\ Full(s)
  /\ limit' = [limit EXCEPT ![s] = {CountOf(s)}]
  /\ check' = [check EXCEPT ![p].left = @ \ {s}]
  /\ UNCHANGED <<session, now, spent>>

\* The message is counted before its level is looked at: one above the
\* session's level uses up the second as well.
Charge(p, s) ==
  LET passes == check[p].level <= session[s].level
  IN /\ s \in check[p].left
     /\ ~Over(p, s)
     /\ ~Full(s)
     /\ limit' = [limit EXCEPT ![s] =
                    {[CountOf(s) EXCEPT !.count = @ + 1]}]
     /\ spent' = [spent EXCEPT ![s] = [t \in Ends |-> IF t > now THEN @[t] + 1 ELSE @[t]]]
     /\ check' = [check EXCEPT
                    ![p].left = IF passes THEN {} ELSE @ \ {s},
                    ![p].pc = IF passes THEN "allowed" ELSE @]
     /\ UNCHANGED <<session, now>>

\* No session was left: the message is dropped, and its sender told nothing.
Drop(p) == /\ check[p].pc = "checking"
           /\ check[p].left = {}
           /\ check' = [check EXCEPT ![p] = Idle]
           /\ UNCHANGED <<session, limit, now, spent>>

\* message.rs, publish_message_internal: the message goes on to the broadcast.
Send(p) == /\ check[p].pc = "allowed"
           /\ check' = [check EXCEPT ![p] = Idle]
           /\ UNCHANGED <<session, limit, now, spent>>

Tick == /\ now < MaxTime
        /\ now' = now + 1
        /\ UNCHANGED <<session, limit, check, spent>>

\* A new daemon finds the rows, and not the counters; what
\* was charged is counted per life of the daemon.
Restart == /\ limit' = Nothing
           /\ check' = [p \in Publishers |-> Idle]
           /\ spent' = NothingSpent
           /\ UNCHANGED <<session, now>>

Next == \/ \E s \in Sessions : \/ \E l \in Levels, d \in Durations : Enable(s, l, d)
                               \/ Disable(s)
        \/ \E p \in Publishers : \/ \E l \in Levels : Begin(p, l)
                                 \/ \E s \in Sessions : \/ Expire(p, s)
                                                        \/ RateLimit(p, s)
                                                        \/ Charge(p, s)
                                 \/ Drop(p)
                                 \/ Send(p)
        \/ Tick
        \/ Restart

Spec == Init /\ [][Next]_vars

-----------------------------------------------------------------------------
Row == [status : {"none", "active", "disabled"}, expires : Nat, level : Levels]
Limit == [tick : Times, count : 0 .. Rate]
Check == [pc : {"idle", "checking", "allowed"}, level : Levels, began : Times,
          left : SUBSET Sessions, open : SUBSET Sessions]

(***************************************************************************)
(* Every variable has its type; in particular no counter of the limits map *)
(* ever passes the rate, however the publishers interleave.                *)
(***************************************************************************)
TypeOK ==
  /\ session \in [Sessions -> Row]
  /\ limit \in [Sessions -> SUBSET Limit]
  /\ \A s \in Sessions : \A q, r \in limit[s] : q = r
  /\ check \in [Publishers -> Check]
  /\ now \in Times
  /\ spent \in [Sessions -> [Ends -> Nat]]

(***************************************************************************)
(* A trace message is let through only on the strength of a session that   *)
(* was active, not over and of a sufficient level when the check of that   *)
(* message began (trace_mgr.rs:51-171), whatever was enabled, disabled or  *)
(* expired by others since.                                                *)
(***************************************************************************)
TracesNeedOpenSession ==
  \A p \in Publishers : check[p].pc = "allowed" =>
    \E s \in check[p].open : check[p].level <= session[s].level

\* The types and counters, and the grounds for letting a message through.
TraceInv == TypeOK /\ TracesNeedOpenSession

(***************************************************************************)
(* The limit of a session (trace_mgr.rs:97-121) counts per second of its   *)
(* own clock, which starts with the first message: within one life of the  *)
(* daemon a second of the wall clock sees up to twice the rate but one,    *)
(* and never the rate twice over.                                          *)
(***************************************************************************)
RateIsBounded ==
  \A s \in Sessions : \A t, u \in Ends :
    t <= u /\ u <= t + Second => spent[s][u] - spent[s][t] <= 2 * Rate - 1
=============================================================================
