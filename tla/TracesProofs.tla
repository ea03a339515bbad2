---------------------------- MODULE TracesProofs ----------------------------
(***************************************************************************)
(* Theorems about Traces for any sessions, publishers, levels, rates and   *)
(* lengths of the second.                                                  *)
(***************************************************************************)
EXTENDS Traces, TLAPS

USE TracesAssumption

-----------------------------------------------------------------------------
(* The record a check counts on.                                           *)

\* Whatever the map holds, the record is one whose count is within the rate.
LEMMA CountOfType ==
    ASSUME TypeOK, NEW s \in Sessions
    PROVE  CountOf(s) \in Limit
  <1>1. limit[s] \subseteq Limit
    BY DEF TypeOK
  <1>2. Fresh \in Limit
    BY DEF Fresh, Limit, TypeOK, Times
  <1>3. CASE limit[s] = {}
    BY <1>2, <1>3 DEF CountOf
  <1>4. CASE limit[s] # {}
    <2>1. (CHOOSE r \in limit[s] : TRUE) \in limit[s]
      BY <1>4
    <2>2. QED
      BY <1>1, <1>2, <2>1 DEF CountOf
  <1>5. QED
    BY <1>3, <1>4

\* A record that is not full has room for one more message.
LEMMA RoomForOne ==
    ASSUME TypeOK, NEW s \in Sessions, ~Full(s)
    PROVE  [CountOf(s) EXCEPT !.count = @ + 1] \in Limit
  <1>1. CountOf(s) \in Limit
    BY CountOfType
  <1>2. CountOf(s).count + 1 \in 0 .. Rate
    BY <1>1 DEF Full, Limit
  <1>3. QED
    BY <1>1, <1>2 DEF Limit

-----------------------------------------------------------------------------
(* Type correctness.                                                       *)

LEMMA InitType == Init => TypeOK
  BY DEF Init, TypeOK, NoSession, Row, Levels, Nothing, Limit, Idle, Check, Times, NothingSpent

LEMMA IdleType == Idle \in Check
  BY DEF Idle, Check, Levels, Times, TypeOK

\* A check that has fewer sessions left, and may have come to its end.
LEMMA CheckGoesOn ==
    ASSUME NEW c \in Check, NEW rest \in SUBSET Sessions, NEW pc \in {"idle", "checking", "allowed"}
    PROVE  /\ [c EXCEPT !.left = rest] \in Check
           /\ [c EXCEPT !.left = rest, !.pc = pc] \in Check
  BY DEF Check

LEMMA TypeStep == TypeOK /\ [Next]_vars => TypeOK'
  <1> SUFFICES ASSUME TypeOK, [Next]_vars PROVE TypeOK'
    OBVIOUS
  <1>1. CASE UNCHANGED vars
    BY <1>1 DEF vars, TypeOK
  <1>2. ASSUME NEW s \in Sessions, NEW l \in Levels, NEW d \in Durations, Enable(s, l, d)
        PROVE TypeOK'
    <2>1. [status |-> "active", expires |-> now + d, level |-> l] \in Row
      BY DEF Row, TypeOK, Times
    <2>2. QED
      BY <1>2, <2>1 DEF Enable, TypeOK
  <1>3. ASSUME NEW s \in Sessions, SwitchOff(s)
        PROVE session' \in [Sessions -> Row]
    BY <1>3 DEF SwitchOff, TypeOK, Row
  <1>4. ASSUME NEW s \in Sessions, Disable(s) PROVE TypeOK'
    BY <1>3, <1>4 DEF Disable, TypeOK
  <1>5. ASSUME NEW p \in Publishers, NEW l \in Levels, Begin(p, l) PROVE TypeOK'
    <2>1. [pc |-> "checking", level |-> l, began |-> now, left |-> {s \in Sessions : Active(s)},
           open |-> {s \in Sessions : Active(s) /\ session[s].expires > now}] \in Check
      BY DEF Check, TypeOK
    <2>2. QED
      BY <1>5, <2>1 DEF Begin, TypeOK
  <1>6. ASSUME NEW p \in Publishers, NEW s \in Sessions
        PROVE  /\ check[p] \in Check /\ check[p].left \ {s} \in SUBSET Sessions
               /\ [check[p] EXCEPT !.left = check[p].left \ {s}] \in Check
    <2>1. check[p] \in Check
      BY DEF TypeOK
    <2>2. check[p].left \ {s} \in SUBSET Sessions
      BY <2>1 DEF Check
    <2>3. QED
      BY <2>1, <2>2, CheckGoesOn
  <1>7. ASSUME NEW p \in Publishers, NEW s \in Sessions, Expire(p, s) PROVE TypeOK'
    <2>1. check' \in [Publishers -> Check]
      BY <1>6, <1>7 DEF Expire, TypeOK
    <2>2. QED
      BY <1>3, <1>7, <2>1 DEF Expire, TypeOK
  <1>8. ASSUME NEW p \in Publishers, NEW s \in Sessions, RateLimit(p, s) PROVE TypeOK'
    <2>1. check' \in [Publishers -> Check]
      BY <1>6, <1>8 DEF RateLimit, TypeOK
    <2>2. CountOf(s) \in Limit
      BY CountOfType
    <2>3. limit' \in [Sessions -> SUBSET Limit] /\ \A r \in Sessions : \A q, t \in limit'[r] : q = t
      BY <1>8, <2>2 DEF RateLimit, TypeOK
    <2>4. QED
      BY <1>8, <2>1, <2>3 DEF RateLimit, TypeOK
  <1>9. ASSUME NEW p \in Publishers, NEW s \in Sessions, Charge(p, s) PROVE TypeOK'
    <2>1. limit' \in [Sessions -> SUBSET Limit] /\ \A r \in Sessions : \A q, t \in limit'[r] : q = t
      <3> DEFINE more == [CountOf(s) EXCEPT !.count = @ + 1]
      <3>1. more \in Limit
        BY <1>9, RoomForOne DEF Charge
      <3>2. limit' = [limit EXCEPT ![s] = {more}]
        BY <1>9 DEF Charge
      <3> HIDE DEF more
      <3>3. QED
        BY <3>1, <3>2 DEF TypeOK
    <2>2. spent' \in [Sessions -> [Ends -> Nat]]
      <3>1. [t \in Ends |-> IF t > now THEN spent[s][t] + 1 ELSE spent[s][t]] \in [Ends -> Nat]
        BY DEF TypeOK
      <3>2. QED
        BY <1>9, <3>1 DEF Charge, TypeOK
    <2>3. check' \in [Publishers -> Check]
      <3> DEFINE passes == check[p].level <= session[s].level
                 rest == IF passes THEN {} ELSE check[p].left \ {s}
                 pc == IF passes THEN "allowed" ELSE check[p].pc
                 c == [check[p] EXCEPT !.left = rest, !.pc = pc]
      <3>1. check' = [check EXCEPT ![p] = c]
        BY <1>9 DEF Charge, TypeOK
      <3>2. check[p] \in Check /\ rest \in SUBSET Sessions
        BY <1>6
      <3>3. pc \in {"idle", "checking", "allowed"}
        BY <3>2 DEF Check
      <3> HIDE DEF rest, pc
      <3>4. c \in Check
        BY <3>2, <3>3, CheckGoesOn
      <3> HIDE DEF c
      <3>5. QED
        BY <3>1, <3>4 DEF TypeOK
    <2>4. QED
      BY <1>9, <2>1, <2>2, <2>3 DEF Charge, TypeOK
  <1>10. ASSUME NEW p \in Publishers, Drop(p) \/ Send(p) PROVE TypeOK'
    BY <1>10, IdleType DEF Drop, Send, TypeOK
  <1>11. CASE Tick
    BY <1>11 DEF Tick, TypeOK, Times
  <1>12. CASE Restart
    BY <1>12, IdleType DEF Restart, TypeOK, Nothing, NothingSpent
  <1>13. QED
    BY <1>1, <1>2, <1>4, <1>5, <1>7, <1>8, <1>9, <1>10, <1>11, <1>12 DEF Next

-----------------------------------------------------------------------------
(* What a check knows of the sessions it has not looked at yet.            *)

\* A session that was listed exists; those among them that are not over for the
\* check were open when it began.  Ends and levels of a session do not change.
CheckInv ==
  \A p \in Publishers :
    /\ check[p].pc = "idle" => check[p].left = {}
    /\ \A s \in check[p].open \cup check[p].left : session[s].status # "none"
    /\ \A s \in check[p].left : session[s].expires > check[p].began => s \in check[p].open

TracesInv == TypeOK /\ CheckInv /\ TracesNeedOpenSession

\* A step that keeps the checks and the rows that exist keeps the invariant.
LEMMA RowsKept ==
    ASSUME TracesInv, TypeOK', UNCHANGED check,
           \A s \in Sessions : session[s].status # "none" =>
             /\ session'[s].status # "none"
             /\ session'[s].expires = session[s].expires
             /\ session'[s].level = session[s].level
    PROVE  CheckInv' /\ TracesNeedOpenSession'
  <1> USE DEF TracesInv, TypeOK, Check, CheckInv
  <1>1. ASSUME NEW p \in Publishers
        PROVE  check[p].left \subseteq Sessions /\ check[p].open \subseteq Sessions
    OBVIOUS
  <1>2. CheckInv'
    BY <1>1
  <1>3. TracesNeedOpenSession'
    BY <1>1 DEF TracesNeedOpenSession
  <1>4. QED
    BY <1>2, <1>3

LEMMA CheckStep == TracesInv /\ [Next]_vars => CheckInv' /\ TracesNeedOpenSession'
  <1> SUFFICES ASSUME TracesInv, [Next]_vars PROVE CheckInv' /\ TracesNeedOpenSession'
    OBVIOUS
  <1>0. TypeOK'
    BY TypeStep DEF TracesInv
  <1>1. CASE UNCHANGED vars
    BY <1>0, <1>1, RowsKept DEF vars
  <1>2. ASSUME NEW s \in Sessions, NEW l \in Levels, NEW d \in Durations, Enable(s, l, d)
        PROVE CheckInv' /\ TracesNeedOpenSession'
    BY <1>0, <1>2, RowsKept DEF Enable, TracesInv, TypeOK
  <1>3. ASSUME NEW s \in Sessions, Disable(s)
        PROVE CheckInv' /\ TracesNeedOpenSession'
    BY <1>0, <1>3, RowsKept DEF Disable, SwitchOff, TracesInv, TypeOK, Row
  <1>4. ASSUME NEW p \in Publishers, NEW l \in Levels, Begin(p, l)
        PROVE CheckInv' /\ TracesNeedOpenSession'
    <2> USE DEF TracesInv, TypeOK, Check, Begin
    <2>1. CheckInv'
      BY <1>4 DEF CheckInv, Active
    <2>2. TracesNeedOpenSession'
      BY <1>4 DEF TracesNeedOpenSession
    <2>3. QED
      BY <2>1, <2>2
  <1>5. ASSUME NEW p \in Publishers, NEW s \in Sessions, Expire(p, s)
        PROVE CheckInv' /\ TracesNeedOpenSession'
    <2> USE <1>5 DEF TracesInv, TypeOK, Check, Expire
    <2>1. \A r \in Sessions : /\ session[r].status # "none" => session'[r].status # "none"
                              /\ session'[r].expires = session[r].expires
                              /\ session'[r].level = session[r].level
      BY DEF SwitchOff, Row
    <2>2. \A q \in Publishers : /\ check'[q].open = check[q].open
                                /\ check'[q].left \subseteq check[q].left
                                /\ check'[q].pc = check[q].pc
                                /\ check'[q].began = check[q].began
                                /\ check'[q].level = check[q].level
      OBVIOUS
    <2>3. \A q \in Publishers : check[q].left \subseteq Sessions /\ check[q].open \subseteq Sessions
      OBVIOUS
    <2>4. CheckInv'
      BY <2>1, <2>2, <2>3 DEF CheckInv
    <2>5. TracesNeedOpenSession'
      BY <2>1, <2>2, <2>3 DEF TracesNeedOpenSession
    <2>6. QED
      BY <2>4, <2>5
  <1>6. ASSUME NEW p \in Publishers, NEW s \in Sessions, RateLimit(p, s)
        PROVE CheckInv' /\ TracesNeedOpenSession'
    <2> USE <1>6 DEF TracesInv, TypeOK, Check, RateLimit
    <2>1. CheckInv'
      BY DEF CheckInv
    <2>2. TracesNeedOpenSession'
      BY DEF TracesNeedOpenSession
    <2>3. QED
      BY <2>1, <2>2
  <1>7. ASSUME NEW p \in Publishers, NEW s \in Sessions, Charge(p, s)
        PROVE CheckInv' /\ TracesNeedOpenSession'
    <2> USE <1>7 DEF TracesInv, TypeOK, Check, Charge
    <2>1. s \in check[p].open
      <3>1. session[s].expires > check[p].began
        BY DEF Over, Row, Times
      <3>2. QED
        BY <3>1 DEF CheckInv
    <2>2. \A q \in Publishers : /\ check'[q].open = check[q].open
                                /\ check'[q].left \subseteq check[q].left
                                /\ check'[q].began = check[q].began
                                /\ check'[q].level = check[q].level
      OBVIOUS
    <2>3. check[p].pc # "idle"
      BY DEF CheckInv
    <2>4. \A q \in Publishers : check'[q].pc = "idle" => check[q].pc = "idle"
      BY <2>3
    <2>5. CheckInv'
      BY SMTT(30), <2>2, <2>4 DEF CheckInv
    <2>6. ASSUME NEW q \in Publishers, check'[q].pc = "allowed"
          PROVE  \E r \in check'[q].open : check'[q].level <= session'[r].level
      <3>1. CASE check[q].pc = "allowed"
        BY <2>2, <3>1 DEF TracesNeedOpenSession
      <3>2. CASE check[q].pc # "allowed"
        <4>1. q = p /\ check[p].level <= session[s].level
          BY <2>6, <3>2
        <4>2. QED
          BY <2>1, <2>2, <4>1
      <3>3. QED
        BY <3>1, <3>2
    <2>7. QED
      BY <2>5, <2>6 DEF TracesNeedOpenSession
  <1>8. ASSUME NEW p \in Publishers, Drop(p) \/ Send(p)
        PROVE CheckInv' /\ TracesNeedOpenSession'
    <2> USE <1>8 DEF TracesInv, TypeOK, Check, Drop, Send, Idle
    <2>1. CheckInv'
      BY DEF CheckInv
    <2>2. TracesNeedOpenSession'
      BY DEF TracesNeedOpenSession
    <2>3. QED
      BY <2>1, <2>2
  <1>9. CASE Tick
    BY <1>0, <1>9, RowsKept DEF Tick
  <1>10. CASE Restart
    BY <1>10 DEF Restart, CheckInv, TracesNeedOpenSession, Idle
  <1>11. QED
    BY <1>1, <1>2, <1>3, <1>4, <1>5, <1>6, <1>7, <1>8, <1>9, <1>10 DEF Next

LEMMA TracesInvariant == Spec => []TracesInv
  <1>1. Init => TracesInv
    BY InitType DEF Init, TracesInv, CheckInv, TracesNeedOpenSession, Idle
  <1>2. TracesInv /\ [Next]_vars => TracesInv'
    BY TypeStep, CheckStep DEF TracesInv
  <1>3. QED
    BY <1>1, <1>2, PTL DEF Spec

\* No trace message is let through without a session that was active, not over
\* and of a sufficient level when its check began, however many publishers
\* check, disable and enable at once; and no counter passes the rate.
\* (trace_mgr.rs:51-171)
THEOREM TracesAreLetThroughRightly == Spec => []TraceInv
  <1>1. TracesInv => TraceInv
    BY DEF TracesInv, TraceInv
  <1>2. QED
    BY <1>1, TracesInvariant, PTL

-----------------------------------------------------------------------------
(* The rate.  A counter that starts anew does so a second after the last   *)
(* start at the earliest, so a second of the clock meets two at the most,  *)
(* and not the first message of the older one.                             *)

\* What was charged to a session so far.
Total(s) == spent[s][MaxTime + 1]

\* What a session's record says of what was spent: its count is what was charged
\* since it started, it charges for a second, and in less than a second before
\* it started less was charged than the rate.
RecordInv(s, r) ==
  /\ r.tick <= now /\ Total(s) = spent[s][r.tick] + r.count
  /\ \A u \in Ends : u >= r.tick + Second => spent[s][u] = Total(s)
  /\ \A t \in Ends : t <= r.tick /\ r.tick < t + Second => spent[s][r.tick] - spent[s][t] <= Rate - 1

\* A record starts with a message.
Started(s, r) == spent[s][r.tick] < spent[s][r.tick + 1]

RateInv ==
  \A s \in Sessions :
    /\ \A t, u \in Ends : t <= u => spent[s][t] <= spent[s][u]
    /\ \A u \in Ends : u > now => spent[s][u] = Total(s)
    /\ limit[s] = {} => Total(s) = 0
    /\ \A r \in limit[s] : RecordInv(s, r) /\ Started(s, r)

\* The record a check counts on, found or started now, says as much, and its
\* second has not passed.
LEMMA RecordFound ==
    ASSUME TypeOK, RateInv, NEW s \in Sessions
    PROVE  CountOf(s) \in Limit /\ RecordInv(s, CountOf(s)) /\ now < CountOf(s).tick + Second
  <1>1. /\ limit[s] \subseteq Limit /\ \A q, r \in limit[s] : q = r
        /\ now \in Times /\ spent[s] \in [Ends -> Nat]
    BY DEF TypeOK
  <1>2. \A t \in Ends : spent[s][t] \in Nat
    BY <1>1
  <1>3. Second \in Nat \ {0} /\ MaxTime \in Nat /\ Rate \in Nat \ {0}
    OBVIOUS
  <1>4. CASE \E r \in limit[s] : now - r.tick < Second
    <2>1. CountOf(s) \in limit[s] /\ now - CountOf(s).tick < Second
      BY <1>1, <1>4 DEF CountOf
    <2>2. CountOf(s) \in Limit /\ RecordInv(s, CountOf(s))
      BY <1>1, <2>1 DEF RateInv
    <2>3. QED
      BY <1>1, <1>3, <2>1, <2>2 DEF Limit, Times
  <1>5. CASE ~\E r \in limit[s] : now - r.tick < Second
    <2>1. CountOf(s) = Fresh /\ Fresh.tick = now /\ Fresh.count = 0 /\ Fresh \in Limit
      BY <1>1, <1>3, <1>5 DEF CountOf, Fresh, Limit
    <2>2. now \in Ends /\ MaxTime + 1 \in Ends /\ now < MaxTime + 1
      BY <1>1, <1>3 DEF Times, Ends
    <2>3. /\ \A t, u \in Ends : t <= u => spent[s][t] <= spent[s][u]
          /\ \A u \in Ends : u > now => spent[s][u] = Total(s)
      BY DEF RateInv
    <2>4. spent[s][now] = Total(s)
          /\ \A t \in Ends : t <= now /\ now < t + Second => spent[s][now] - spent[s][t] <= Rate - 1
      <3>1. CASE limit[s] = {}
        <4>1. Total(s) = 0
          BY <3>1 DEF RateInv
        <4>2. spent[s][now] = 0
          <5>1. spent[s][now] <= spent[s][MaxTime + 1]
            BY <1>1, <1>3, <2>2, <2>3 DEF Times
          <5>2. QED
            BY <1>2, <2>2, <4>1, <5>1 DEF Total
        <4>3. QED
          BY <1>2, <1>3, <4>1, <4>2
      <3>2. CASE limit[s] # {}
        <4>1. PICK r \in limit[s] : TRUE
          BY <3>2
        <4>2. r.tick \in Times /\ r.count \in 0 .. Rate /\ r.tick \in Ends
          BY <1>1, <1>3 DEF Limit, Times, Ends
        <4>3. now >= r.tick + Second
          BY <1>1, <1>3, <1>5, <4>2 DEF Times
        <4>4. RecordInv(s, r)
          BY DEF RateInv
        <4>5. spent[s][now] = Total(s) /\ Total(s) = spent[s][r.tick] + r.count
          BY <2>2, <4>3, <4>4 DEF RecordInv
        <4>6. ASSUME NEW t \in Ends, t <= now, now < t + Second
              PROVE  spent[s][now] - spent[s][t] <= Rate - 1
          <5>1. t \in Nat /\ now \in Nat /\ r.tick \in Nat
            BY <1>1, <1>3, <4>2 DEF Ends, Times
          <5>2. r.tick + 1 <= t /\ r.tick + 1 \in Ends
            BY <1>3, <4>3, <4>6, <5>1 DEF Ends
          <5>3. spent[s][r.tick] < spent[s][r.tick + 1] /\ spent[s][r.tick + 1] <= spent[s][t]
            BY <2>3, <5>2 DEF RateInv, Started
          <5>4. QED
            BY <1>2, <1>3, <2>2, <4>2, <4>5, <5>2, <5>3
        <4>7. QED
          BY <4>5, <4>6
      <3>3. QED
        BY <3>1, <3>2
    <2>5. \A u \in Ends : u >= now + Second => spent[s][u] = Total(s)
      BY <1>1, <1>3, <2>3 DEF Ends, Times
    <2>6. RecordInv(s, Fresh)
      <3>1. now <= now /\ Total(s) = spent[s][now] + 0
        BY <1>1, <1>2, <2>2, <2>4 DEF Times
      <3>2. QED
        BY <2>1, <2>4, <2>5, <3>1 DEF RecordInv
    <2>7. QED
      BY <1>1, <1>3, <2>1, <2>6 DEF Times
  <1>6. QED
    BY <1>4, <1>5

\* What a step leaves alone.
LEMMA RateKept ==
    ASSUME TypeOK, RateInv, RateIsBounded, UNCHANGED spent, now' \in Times, now' >= now,
           limit' = limit
    PROVE  RateInv' /\ RateIsBounded'
  <1>1. now \in Nat /\ now' \in Nat /\ Ends \subseteq Nat
    BY DEF TypeOK, Times, Ends
  <1>2. ASSUME NEW s \in Sessions, NEW r, RecordInv(s, r), r \in Limit
        PROVE  RecordInv(s, r)'
    BY <1>1, <1>2 DEF RecordInv, Total, Limit, Times
  <1>3. ASSUME NEW s \in Sessions, NEW r \in limit'[s]
        PROVE  RecordInv(s, r)' /\ Started(s, r)'
    <2>1. r \in limit[s] /\ r \in Limit /\ RecordInv(s, r) /\ Started(s, r)
      BY <1>3 DEF TypeOK, RateInv
    <2>2. QED
      BY <1>2, <2>1 DEF Started
  <1>4. RateInv'
    <2>1. ASSUME NEW s \in Sessions
          PROVE  /\ \A t, u \in Ends : t <= u => spent'[s][t] <= spent'[s][u]
                 /\ \A u \in Ends : u > now' => spent'[s][u] = Total(s)'
                 /\ limit'[s] = {} => Total(s)' = 0
      BY <1>1 DEF RateInv, Total
    <2>2. QED
      BY <1>3, <2>1 DEF RateInv
  <1>5. QED
    BY <1>4 DEF RateIsBounded

\* One message more is charged.
LEMMA ChargeStep ==
    ASSUME TypeOK, RateInv, RateIsBounded, NEW p \in Publishers, NEW s \in Sessions, Charge(p, s)
    PROVE  RateInv' /\ RateIsBounded'
  <1>1. /\ now \in Nat /\ now <= MaxTime /\ Ends \subseteq Nat /\ MaxTime + 1 \in Ends
        /\ Second \in Nat \ {0} /\ MaxTime \in Nat /\ Rate \in Nat \ {0} /\ now' = now
    BY DEF TypeOK, Times, Ends, Charge
  <1>2. \A q \in Sessions, t \in Ends : spent[q][t] \in Nat
    BY DEF TypeOK
  <1>3. /\ \A t \in Ends : spent'[s][t] = IF t > now THEN spent[s][t] + 1 ELSE spent[s][t]
        /\ \A q \in Sessions \ {s} : spent'[q] = spent[q]
    BY DEF Charge, TypeOK
  <1>4. PICK c : c = CountOf(s)
    OBVIOUS
  <1>5. c \in Limit /\ RecordInv(s, c) /\ now < c.tick + Second /\ c.count < Rate
    <2>1. c \in Limit /\ RecordInv(s, c) /\ now < c.tick + Second
      BY <1>4, RecordFound
    <2>2. QED
      BY <1>4, <2>1 DEF Charge, Full, Limit
  <1>6. c.tick \in Nat /\ c.tick \in Ends /\ c.count \in Nat /\ c.tick <= now
    BY <1>1, <1>5 DEF Limit, Times, Ends, RecordInv
  <1>7. /\ limit'[s] = {[c EXCEPT !.count = @ + 1]}
        /\ \A q \in Sessions \ {s} : limit'[q] = limit[q]
    BY <1>4 DEF Charge, TypeOK
  <1>8. Total(s)' = Total(s) + 1 /\ Total(s) \in Nat /\ \A q \in Sessions \ {s} : Total(q)' = Total(q)
    BY <1>1, <1>2, <1>3 DEF Total
  <1>9. /\ \A t, u \in Ends : t <= u => spent[s][t] <= spent[s][u]
        /\ \A u \in Ends : u > now => spent[s][u] = Total(s)
    BY DEF RateInv
  <1>10. RateInv'
    <2>1. ASSUME NEW q \in Sessions \ {s}
          PROVE  /\ \A t, u \in Ends : t <= u => spent'[q][t] <= spent'[q][u]
                 /\ \A u \in Ends : u > now' => spent'[q][u] = Total(q)'
                 /\ limit'[q] = {} => Total(q)' = 0
                 /\ \A r \in limit'[q] : RecordInv(q, r)' /\ Started(q, r)'
      <3>1. \A r \in limit[q] : RecordInv(q, r) /\ Started(q, r)
        BY DEF RateInv
      <3>2. \A r \in limit'[q] : RecordInv(q, r)' /\ Started(q, r)'
        BY <1>1, <1>3, <1>7, <1>8, <3>1 DEF RecordInv, Started
      <3>3. QED
        BY <1>1, <1>3, <1>7, <1>8, <3>2 DEF RateInv
    <2>2. \A t, u \in Ends : t <= u => spent'[s][t] <= spent'[s][u]
      <3>1. TAKE t, u \in Ends
      <3>2. HAVE t <= u
      <3>3. t \in Nat /\ u \in Nat /\ spent[s][t] \in Nat /\ spent[s][u] \in Nat
        BY <1>1, <1>2
      <3>4. spent[s][t] <= spent[s][u]
        BY <1>9, <3>2
      <3>5. QED
        BY <1>1, <1>3, <3>2, <3>3, <3>4
    <2>3. \A u \in Ends : u > now' => spent'[s][u] = Total(s)'
      BY <1>1, <1>3, <1>8, <1>9
    <2>4. \A r \in limit'[s] : RecordInv(s, r)' /\ Started(s, r)'
      <3>1. PICK r : r = [c EXCEPT !.count = @ + 1]
        OBVIOUS
      <3>2. r.tick = c.tick /\ r.count = c.count + 1
        BY <1>5, <3>1 DEF Limit
      <3>3. Total(s) = spent[s][c.tick] + c.count
        BY <1>5 DEF RecordInv
      <3>4. r.tick <= now' /\ Total(s)' = spent'[s][r.tick] + r.count
        BY <1>1, <1>2, <1>3, <1>6, <1>8, <3>2, <3>3
      <3>5. \A u \in Ends : u >= r.tick + Second => spent'[s][u] = Total(s)'
        BY <1>1, <1>5, <1>6, <1>8, <2>3, <3>2
      <3>6. \A t \in Ends : t <= r.tick /\ r.tick < t + Second
                              => spent'[s][r.tick] - spent'[s][t] <= Rate - 1
        BY <1>1, <1>3, <1>5, <1>6, <3>2 DEF RecordInv
      <3>7. RecordInv(s, r)'
        BY <3>4, <3>5, <3>6 DEF RecordInv
      <3>8. Started(s, r)'
        <4>1. c.tick + 1 \in Ends /\ spent[s][c.tick] \in Nat /\ spent[s][c.tick + 1] \in Nat
          BY <1>1, <1>2, <1>6 DEF Ends
        <4>2. spent[s][c.tick] <= spent[s][c.tick + 1]
          BY <1>6, <1>9, <4>1
        <4>3. c.tick # now => spent[s][c.tick] < spent[s][c.tick + 1]
          <5>1. c.tick # now => c \in limit[s]
            BY <1>4 DEF CountOf, Fresh
          <5>2. QED
            BY <5>1 DEF RateInv, Started
        <4>4. spent'[s][c.tick] = spent[s][c.tick]
          BY <1>1, <1>3, <1>6
        <4>5. spent'[s][c.tick + 1] = IF c.tick = now THEN spent[s][c.tick + 1] + 1
                                      ELSE spent[s][c.tick + 1]
          BY <1>1, <1>3, <1>6, <4>1
        <4>6. QED
          BY <3>2, <4>1, <4>2, <4>3, <4>4, <4>5 DEF Started
      <3>9. QED
        BY <1>7, <3>1, <3>7, <3>8
    <2>5. limit'[s] # {}
      BY <1>7
    <2>6. QED
      BY <2>1, <2>2, <2>3, <2>4, <2>5 DEF RateInv
  <1>11. ASSUME NEW t \in Ends, NEW u \in Ends, t <= u, u <= t + Second
         PROVE  spent'[s][u] - spent'[s][t] <= 2 * Rate - 1
    <2>1. t \in Nat /\ u \in Nat /\ spent[s][t] \in Nat /\ spent[s][u] \in Nat
      BY <1>1, <1>2
    <2>2. spent[s][u] - spent[s][t] <= 2 * Rate - 1
      BY <1>11 DEF RateIsBounded
    <2>3. CASE u <= now \/ t > now
      BY <1>1, <1>3, <1>11, <2>1, <2>2, <2>3
    <2>4. CASE t <= now /\ now < u
      <3>1. spent'[s][t] = spent[s][t] /\ spent'[s][u] = Total(s) + 1
        BY <1>1, <1>3, <1>9, <2>1, <2>4
      <3>2. Total(s) = spent[s][c.tick] + c.count /\ spent[s][c.tick] \in Nat
        BY <1>2, <1>5, <1>6 DEF RecordInv
      <3>3. CASE c.tick <= t
        <4>1. spent[s][c.tick] <= spent[s][t]
          BY <1>6, <1>9, <3>3
        <4>2. QED
          BY <1>1, <1>5, <1>6, <2>1, <3>1, <3>2, <4>1
      <3>4. CASE t < c.tick
        <4>1. t <= c.tick /\ c.tick < t + Second
          BY <1>1, <1>6, <1>11, <2>1, <2>4, <3>4
        <4>2. spent[s][c.tick] - spent[s][t] <= Rate - 1
          BY <1>5, <4>1 DEF RecordInv
        <4>3. QED
          BY <1>1, <1>5, <1>6, <2>1, <3>1, <3>2, <4>2
      <3>5. QED
        BY <1>6, <2>1, <3>3, <3>4
    <2>5. QED
      BY <1>1, <2>1, <2>3, <2>4
  <1>12. RateIsBounded'
    BY <1>3, <1>11 DEF RateIsBounded
  <1>13. QED
    BY <1>10, <1>12

LEMMA RateStep == TypeOK /\ RateInv /\ RateIsBounded /\ [Next]_vars => RateInv' /\ RateIsBounded'
  <1> SUFFICES ASSUME TypeOK, RateInv, RateIsBounded, [Next]_vars
               PROVE  RateInv' /\ RateIsBounded'
    OBVIOUS
  <1>0. now \in Times /\ now >= now
    BY DEF TypeOK, Times
  <1>1. ASSUME UNCHANGED <<limit, now, spent>> PROVE RateInv' /\ RateIsBounded'
    BY <1>0, <1>1, RateKept
  <1>2. CASE UNCHANGED vars
    BY <1>1, <1>2 DEF vars
  <1>3. ASSUME NEW s \in Sessions,
               \/ \E l \in Levels, d \in Durations : Enable(s, l, d)
               \/ Disable(s)
        PROVE  RateInv' /\ RateIsBounded'
    BY <1>1, <1>3 DEF Enable, Disable
  <1>4. ASSUME NEW p \in Publishers,
               \/ \E l \in Levels : Begin(p, l)
               \/ \E s \in Sessions : Expire(p, s)
               \/ Drop(p) \/ Send(p)
        PROVE  RateInv' /\ RateIsBounded'
    BY <1>1, <1>4 DEF Begin, Expire, Drop, Send
  <1>5. ASSUME NEW p \in Publishers, NEW s \in Sessions, RateLimit(p, s)
        PROVE  RateInv' /\ RateIsBounded'
    <2>1. UNCHANGED <<now, spent>> /\ limit' = [limit EXCEPT ![s] = {CountOf(s)}]
      BY <1>5 DEF RateLimit
    <2>2. CountOf(s) \in limit[s]
      BY <1>5 DEF RateLimit, Full, CountOf, Fresh
    <2>3. limit' = limit
      BY <2>1, <2>2 DEF TypeOK
    <2>4. QED
      BY <1>0, <2>1, <2>3, RateKept
  <1>6. ASSUME NEW p \in Publishers, NEW s \in Sessions, Charge(p, s)
        PROVE  RateInv' /\ RateIsBounded'
    BY <1>6, ChargeStep
  <1>7. CASE Tick
    BY <1>0, <1>7, RateKept DEF Tick, Times
  <1>8. CASE Restart
    <2>1. \A s \in Sessions : limit'[s] = {} /\ \A t \in Ends : spent'[s][t] = 0
      BY <1>8 DEF Restart, Nothing, NothingSpent
    <2>2. MaxTime + 1 \in Ends
      BY DEF Ends
    <2>3. \A s \in Sessions : Total(s)' = 0
      BY <2>1, <2>2 DEF Total
    <2>4. RateInv'
      BY <2>1, <2>3 DEF RateInv
    <2>5. QED
      BY <2>1, <2>4 DEF RateIsBounded
  <1>9. QED
    BY <1>2, <1>3, <1>4, <1>5, <1>6, <1>7, <1>8 DEF Next

\* No second of the clock, wherever it begins, costs a session twice its rate:
\* there is always one message less, for any rate, length of the second and number of publishers.
\* (trace_mgr.rs:97-121)
THEOREM SecondsAreBounded == Spec => []RateIsBounded
  <1>1. Init => RateInv /\ RateIsBounded
    <2> SUFFICES ASSUME Init PROVE RateInv /\ RateIsBounded
      OBVIOUS
    <2>1. \A s \in Sessions : limit[s] = {} /\ \A t \in Ends : spent[s][t] = 0
      BY DEF Init, Nothing, NothingSpent
    <2>2. \A s \in Sessions : Total(s) = 0
      <3>1. MaxTime + 1 \in Ends
        BY DEF Ends
      <3>2. QED
        BY <2>1, <3>1 DEF Total
    <2>3. ASSUME NEW s \in Sessions
          PROVE  /\ \A t, u \in Ends : t <= u => spent[s][t] <= spent[s][u]
                 /\ \A u \in Ends : u > now => spent[s][u] = Total(s)
                 /\ \A r \in limit[s] : RecordInv(s, r) /\ Started(s, r)
      BY <2>1, <2>2
    <2>4. RateInv
      BY <2>2, <2>3 DEF RateInv
    <2>5. RateIsBounded
      BY <2>1 DEF RateIsBounded
    <2>6. QED
      BY <2>4, <2>5
  <1>2. QED
    BY <1>1, InitType, TypeStep, RateStep, PTL DEF Spec
=============================================================================
