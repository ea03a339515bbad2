---------------------------- MODULE TopicRoutes ----------------------------
(***************************************************************************)
(* Every pattern and every topic: both grow segment by segment, and the    *)
(* functions of TopicMatching are held against what they are meant to      *)
(* decide.                                                                 *)
(***************************************************************************)
EXTENDS TopicMatching

CONSTANTS Segments,    \* the segments of topics and patterns
          MaxPattern,  \* bound: the length of the pattern
          MaxTopic     \* bound: the length of the topic

ASSUME RoutesAssumption == Segments \intersect Wildcards = {}

VARIABLES pattern, topic

routes == <<pattern, topic>>

RoutesInit == pattern = <<>> /\ topic = <<>>

GrowPattern == /\ Len(pattern) < MaxPattern
               /\ \E s \in Segments \union Wildcards : pattern' = Append(pattern, s)
               /\ UNCHANGED topic

GrowTopic == /\ Len(topic) < MaxTopic
             /\ \E s \in Segments : topic' = Append(topic, s)
             /\ UNCHANGED pattern

RoutesNext == GrowPattern \/ GrowTopic

RoutesSpec == RoutesInit /\ [][RoutesNext]_routes

-----------------------------------------------------------------------------
(***************************************************************************)
(* A pattern covers a topic if and only if the topic can be cut into one   *)
(* stretch per segment of the pattern: of length one for a name or *, of   *)
(* any length for **, and not empty for a > that ends the pattern.         *)
(***************************************************************************)
Fits(p, i, piece, ignoreCase) ==
  CASE p[i] = "**" -> TRUE
    [] p[i] = ">"  -> i = Len(p) /\ piece # <<>>
    [] OTHER       -> /\ Len(piece) = 1
                      /\ p[i] = "*" \/ SameSegment(p[i], piece[1], ignoreCase)

Covers(p, t, ignoreCase) ==
  \E cuts \in [1 .. Len(p) - 1 -> 0 .. Len(t)] :
    LET cut(i) == CASE i = 0 -> 0 [] i = Len(p) -> Len(t) [] OTHER -> cuts[i]
    IN  \A i \in DOMAIN p : /\ cut(i - 1) <= cut(i)
                            /\ Fits(p, i, SubSeq(t, cut(i - 1) + 1, cut(i)), ignoreCase)

(***************************************************************************)
(* The recursive matcher of topic.rs:60-101 (and its copy for split        *)
(* patterns, which differs in the type of its argument) decides just that, *)
(* for every pattern and topic.                                            *)
(***************************************************************************)
MatchIsExact ==
  pattern # <<>> /\ topic # <<>> =>
    \A ignoreCase \in BOOLEAN :
      MatchSegments(pattern, topic, ignoreCase) <=> Covers(pattern, topic, ignoreCase)

(***************************************************************************)
(* The copy of a mention that is routed to an agent's inbox                *)
(* (message.rs:103-128) is stored and searchable for thirty days whatever  *)
(* the agent is called: the rule for inboxes stands before the ephemeral   *)
(* ones that match it too (main.rs:98-207).                                *)
(***************************************************************************)
InboxesAreKept ==
  Len(topic) >= 3 /\ topic[1] = "_agent" /\ topic[Len(topic)] = "inbox" =>
    LET policy == Resolve(topic)
    IN  policy.mode = "queryable" /\ ParseRetention(policy) = 30 * Seconds.d

\* Patterns and policies decide rightly about every topic.
TopicsDecideRightly == MatchIsExact /\ InboxesAreKept
=============================================================================
