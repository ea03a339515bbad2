--------------------------- MODULE TopicMatching ---------------------------
(***************************************************************************)
(* The pure functions that decide where a message goes by its topic: topic *)
(* patterns (topic.rs), token scopes (auth.rs) and persistence policies    *)
(* (persistence.rs with the rules of main.rs).  A topic is the sequence of *)
(* its segments, and so is a pattern.                                      *)
(***************************************************************************)
EXTENDS Integers, Sequences

CONSTANT Lower(_)   \* char::to_lowercase of every character of a segment

(***************************************************************************)
(* Topic patterns.  Lower is applied only where the subscriber asked for   *)
(* case to be ignored.                                                     *)
(***************************************************************************)
Wildcards == {"*", "**", ">"}

\* Topic::new: a concrete topic is not empty and holds no wildcard.
IsTopic(t) == t # <<>> /\ \A i \in DOMAIN t : t[i] \notin Wildcards

SameSegment(p, s, ignoreCase) ==
  IF ignoreCase THEN Lower(p) = Lower(s) ELSE p = s

\* For mutation: ** takes one segment at least.
RestsAfterOne(t, j) == j + 1 .. Len(t) + 1

\* Where the rest of the pattern may go on after ** at j: it takes any number.
Rests(t, j) == j .. Len(t) + 1

\* The positions of t from which the i-th segment of p and what follows it match,
\* when what follows matches from the positions in after.
Places(p, i, t, after, ignoreCase) ==
  {j \in 1 .. Len(t) + 1 :
     \/ p[i] = "**" /\ Rests(t, j) \intersect after # {}
     \/ p[i] = ">" /\ i = Len(p) /\ j <= Len(t)
     \/ /\ p[i] \notin {"**", ">"} /\ j <= Len(t)
        /\ p[i] = "*" \/ SameSegment(p[i], t[j], ignoreCase)
        /\ j + 1 \in after}

\* match_segments, which recurs on the rest of the pattern: for each i, the
\* positions of t from which the pattern from i on matches all that is left.
MatchedFrom(p, t, ignoreCase) ==
  LET from[i \in 1 .. Len(p) + 1] ==
        IF i > Len(p) THEN {Len(t) + 1}
        ELSE Places(p, i, t, from[i + 1], ignoreCase)
  IN  from

MatchSegments(p, t, ignoreCase) == 1 \in MatchedFrom(p, t, ignoreCase)[1]

MatchTopic(p, t) == MatchSegments(p, t, FALSE)

ScopesAllow(scopes, t) == \E p \in scopes : MatchTopic(p, t)

(***************************************************************************)
(* Persistence policies: the rules of the daemon, and the first that       *)
(* matches wins.  parse_retention gives a number of seconds, or NoExpiry.  *)
(***************************************************************************)
Policy(mode, n, unit) == [mode |-> mode, n |-> n, unit |-> unit]

Rules == <<
  <<<<"_system", "presence", "**">>,          Policy("ephemeral", 5, "m")>>,
  <<<<"_agent", "*", "heartbeat">>,           Policy("ephemeral", 1, "m")>>,
  <<<<"_agent", "*", "status">>,              Policy("metadata", 24, "h")>>,
  <<<<"_agent", "**", "inbox">>,              Policy("queryable", 30, "d")>>,
  <<<<"_agent", "*", "stream", "**">>,        Policy("ephemeral", 30, "s")>>,
  <<<<"_agent", "*", "scratch", "**">>,       Policy("ephemeral", 10, "m")>>,
  <<<<"_task", "**">>,                        Policy("event_log", 90, "d")>>,
  <<<<"_flow", "**">>,                        Policy("event_log", 180, "d")>>,
  <<<<"_decision", "**">>,                    Policy("queryable", 0, "forever")>>,
  <<<<"_artifact", "**">>,                    Policy("metadata", 0, "policy")>>,
  <<<<"_project", "*", "architecture", "**">>, Policy("queryable", 365, "d")>>,
  <<<<"_forum", "**">>,                       Policy("queryable", 180, "d")>> >>

DefaultPolicy == Policy("metadata", 7, "d")

Resolve(t) ==
  LET hits == {i \in DOMAIN Rules : MatchTopic(Rules[i][1], t)}
  IN  IF hits = {} THEN DefaultPolicy
      ELSE Rules[CHOOSE i \in hits : \A k \in hits : i <= k][2]

NoExpiry == -1
Seconds == [s |-> 1, m |-> 60, h |-> 3600, d |-> 86400]
ParseRetention(policy) ==
  IF policy.unit \in DOMAIN Seconds THEN policy.n * Seconds[policy.unit] ELSE NoExpiry
=============================================================================
