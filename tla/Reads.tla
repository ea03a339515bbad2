------------------------------- MODULE Reads -------------------------------
(***************************************************************************)
(* What is read back from the database.  Messages are stored, replaced and *)
(* purged while agents read the context of a topic with its lineage, which *)
(* takes one statement per ancestor; schemas are added, paused and         *)
(* removed, and what is published is checked against one.                  *)
(***************************************************************************)
EXTENDS TopicMatching, Functions

CONSTANTS Ids,         \* the ids of stored messages
          Stored,      \* the topics they are stored under
          MaxDepth,    \* the depth to which a lineage is followed
          Limits,      \* how many messages a context is asked for
          MaxRaces,    \* bound: writes while one context is read
          Patterns,    \* patterns of schemas and queries
          Versions,    \* versions of schemas
          MaxSchemas   \* bound: how often a schema is added

NoParent == "none"
AnyVersion == "any"

ASSUME ReadsAssumption == /\ MaxDepth \in Nat /\ Limits \subseteq Nat
                          /\ NoParent \notin Ids /\ AnyVersion \notin Versions

VARIABLES rows,     \* the table messages, in the order of the timestamps
          reader,   \* a get_context: where it stands, and what it has found
          schemas,  \* the table topic_schemas, the newest created_at first
          adding,   \* additions of a schema that have their created_at
          clock

readVars == <<rows, reader, schemas, adding, clock>>

Row == [id : Ids, topic : Stored, parent : Ids \union {NoParent}]

\* cut, races (history): a chain was cut off; how many writes came in between.
Idle == [at |-> "idle", pattern |-> <<>>, limit |-> 0, shown |-> <<>>, found |-> <<>>,
         next |-> 0, parent |-> NoParent, depth |-> 0, visited |-> {},
         cut |-> FALSE, races |-> 0]

ReadsInit == /\ rows = <<>> /\ reader = Idle
             /\ schemas = <<>> /\ adding = {} /\ clock = 0

\* What is left of s in S, in its order, and s with an element put in at i.
Only(s, S) ==
  LET kept[i \in 0 .. Len(s)] ==
        IF i = 0 THEN <<>>
        ELSE IF s[i] \in S THEN Append(kept[i - 1], s[i]) ELSE kept[i - 1]
  IN  kept[Len(s)]

With(s, i, x) ==
  [k \in 1 .. Len(s) + 1 |-> IF k < i THEN s[k] ELSE IF k = i THEN x ELSE s[k - 1]]

-----------------------------------------------------------------------------
(***************************************************************************)
(* The table of messages.  A message is stored under its own timestamp,    *)
(* which need not be the newest; one whose id is there replaces it; its    *)
(* parent is whatever its sender wrote.                                    *)
(***************************************************************************)
Raced == /\ reader.at = "walk" => reader.races < MaxRaces
         /\ reader' = IF reader.at = "walk" THEN [reader EXCEPT !.races = @ + 1] ELSE Idle

Store == /\ \E m \in Row :
              LET others == Only(rows, {r \in Range(rows) : r.id # m.id})
              IN  \E i \in 1 .. Len(others) + 1 : rows' = With(others, i, m)
         /\ Raced /\ UNCHANGED <<schemas, adding, clock>>

\* delete_messages_before: the oldest ones of one topic.
DeleteBefore ==
  /\ \E i \in DOMAIN rows :
       rows' = Only(rows, Range(rows) \ {rows[k] : k \in {j \in 1 .. i : rows[j].topic = rows[i].topic}})
  /\ Raced /\ UNCHANGED <<schemas, adding, clock>>

About(p) == {m \in Range(rows) : MatchTopic(p, m.topic)}

(***************************************************************************)
(* get_context.  One statement selects the newest messages about a topic   *)
(* (a limit of 0 lets one through); then each chain of parents is followed *)
(* row by row, until a message has no parent, its parent was looked for    *)
(* before, in this chain or another, is not there, or is too far up.       *)
(***************************************************************************)
AtMost(limit) == IF limit = 0 THEN 1 ELSE limit

NewestAbout(p, limit) ==
  LET newestFirst == [i \in 1 .. Len(rows) |-> rows[Len(rows) + 1 - i]]
      about == Only(newestFirst, About(p))
  IN  SubSeq(about, 1, IF Len(about) < AtMost(limit) THEN Len(about) ELSE AtMost(limit))

Select == /\ reader.at # "walk"
          /\ \E p \in Patterns, limit \in Limits :
               reader' = [Idle EXCEPT !.at = "walk", !.pattern = p, !.limit = limit,
                                      !.shown = NewestAbout(p, limit)]
          /\ UNCHANGED <<rows, schemas, adding, clock>>

TooDeep == reader.depth >= MaxDepth
Ended == reader.parent \in reader.visited \union {NoParent} \/ TooDeep
CutNow == reader.cut \/ reader.parent \notin reader.visited \union {NoParent}

\* For mutation: nothing is remembered from chain to chain.
NextChainForgets ==
  /\ reader.at = "walk" /\ Ended /\ reader.next < Len(reader.shown)
  /\ reader' = [reader EXCEPT !.next = @ + 1, !.depth = 0, !.cut = CutNow, !.visited = {},
                              !.parent = reader.shown[reader.next + 1].parent]
  /\ UNCHANGED <<rows, schemas, adding, clock>>

NextChain ==
  /\ reader.at = "walk" /\ Ended /\ reader.next < Len(reader.shown)
  /\ reader' = [reader EXCEPT !.next = @ + 1, !.depth = 0, !.cut = CutNow,
                              !.parent = reader.shown[reader.next + 1].parent]
  /\ UNCHANGED <<rows, schemas, adding, clock>>

Follow ==
  /\ reader.at = "walk" /\ ~Ended
  /\ LET hits == {m \in Range(rows) : m.id = reader.parent}
         seen == [reader EXCEPT !.visited = @ \union {reader.parent}]
     IN  IF hits = {} THEN reader' = [seen EXCEPT !.parent = NoParent]
         ELSE \E m \in hits : reader' = [seen EXCEPT !.found = Append(@, m), !.parent = m.parent,
                                                     !.depth = @ + 1]
  /\ UNCHANGED <<rows, schemas, adding, clock>>

Answer ==
  /\ reader.at = "walk" /\ Ended /\ reader.next = Len(reader.shown)
  /\ reader' = [reader EXCEPT !.at = "answered", !.cut = CutNow]
  /\ UNCHANGED <<rows, schemas, adding, clock>>

(***************************************************************************)
(* Schemas: one row per pattern and version, which an addition replaces.   *)
(* A request takes its created_at before it gets to the table.             *)
(***************************************************************************)
AddSchema == /\ clock < MaxSchemas /\ clock' = clock + 1
             /\ \E p \in Patterns, v \in Versions :
                  adding' = adding \union {[pattern |-> p, version |-> v, created |-> clock]}
             /\ UNCHANGED <<rows, reader, schemas>>

Without(p, v) == Only(schemas, {s \in Range(schemas) : s.pattern # p \/ s.version # v})

InsertSchema ==
  /\ \E a \in adding :
       LET others == Without(a.pattern, a.version)
           row == [pattern |-> a.pattern, version |-> a.version, status |-> "active",
                   created |-> a.created]
       IN  /\ \E i \in 1 .. Len(others) + 1 :
                /\ \A k \in 1 .. i - 1 : others[k].created > a.created
                /\ \A k \in i .. Len(others) : others[k].created < a.created
                /\ schemas' = With(others, i, row)
           /\ adding' = adding \ {a}
  /\ UNCHANGED <<rows, reader, clock>>

SetSchemaStatus == /\ \E i \in DOMAIN schemas, status \in {"active", "paused"} :
                        schemas' = [schemas EXCEPT ![i].status = status]
                   /\ UNCHANGED <<rows, reader, adding, clock>>

RemoveSchema == /\ \E s \in Range(schemas) : schemas' = Without(s.pattern, s.version)
                /\ UNCHANGED <<rows, reader, adding, clock>>

ActiveFor(t) == {s \in Range(schemas) : s.status = "active" /\ MatchTopic(s.pattern, t)}

Unchecked == "unchecked"
Refused == "refused"

\* What handle_publish validates a message on t with, given the version its
\* header names: nothing at all when no active schema matches.
SchemaFor(t, version) ==
  LET matched == Only(schemas, ActiveFor(t))
      named == Only(matched, {s \in Range(matched) : version \in {s.version, AnyVersion}})
  IN  CASE matched = <<>> -> Unchecked
        [] matched # <<>> /\ named = <<>> -> Refused
        [] OTHER -> Head(named)

ReadsNext == \/ Store \/ DeleteBefore
             \/ Select \/ NextChain \/ Follow \/ Answer
             \/ AddSchema \/ InsertSchema \/ SetSchemaStatus \/ RemoveSchema

ReadsSpec == ReadsInit /\ [][ReadsNext]_readVars

-----------------------------------------------------------------------------
(***************************************************************************)
(* get_context (persistence_impl.rs:245-363).  Each message of a lineage   *)
(* is there once, and it is the parent of one that was shown or came       *)
(* before.  If nobody wrote in between, the messages shown are the newest  *)
(* about the topic, the lineage is made of their ancestors, and of all of  *)
(* them unless a chain was cut for its length, in spite of cycles, of      *)
(* parents that are not there and of chains that meet.                     *)
(***************************************************************************)
Older(m, r) == \E i, j \in DOMAIN rows : i < j /\ rows[i] = m /\ rows[j] = r

ShownAreNewest(p, limit, shown) ==
  /\ Len(shown) <= AtMost(limit)
  /\ Range(shown) \subseteq About(p)
  /\ \A k, l \in DOMAIN shown : k < l => Older(shown[l], shown[k])
  /\ \A m \in About(p) \ Range(shown) :
       Len(shown) = AtMost(limit) /\ \A k \in DOMAIN shown : Older(m, shown[k])

\* With every message of S or A, its parent is in A.
Closed(A, S) == \A m \in S \union A, r \in Range(rows) : r.id = m.parent => r \in A

EachOnce(found) == \A k, l \in DOMAIN found : found[k].id = found[l].id => k = l

ParentsOnly(shown, found) ==
  \A k \in DOMAIN found :
    \E m \in Range(shown) \union {found[j] : j \in 1 .. k - 1} : m.parent = found[k].id

ContextIsExact ==
  reader.at = "answered" =>
    LET shown == reader.shown   found == reader.found
    IN  /\ EachOnce(found) /\ ParentsOnly(shown, found)
        /\ reader.cut => Len(found) >= MaxDepth
        /\ reader.races = 0 =>
             /\ ShownAreNewest(reader.pattern, reader.limit, shown)
             /\ \A A \in SUBSET Range(rows) :
                  Closed(A, Range(shown)) => Range(found) \subseteq A
             /\ Range(found) \subseteq Range(rows)
             /\ reader.cut \/ Closed(Range(found), Range(shown))

(***************************************************************************)
(* While a schema for the topic is active no message on it goes unchecked  *)
(* (message.rs:161-241): it is held against the version it names, or the   *)
(* one created last, whatever was paused, resumed, replaced or removed     *)
(* since, and in whatever order additions got to the table                 *)
(* (sqlite.rs:276-395).                                                    *)
(***************************************************************************)
SchemasAreCurrent ==
  \A t \in Stored, version \in Versions \union {AnyVersion} :
    LET active == ActiveFor(t)
        meant == {s \in active : version \in {s.version, AnyVersion}}
        chosen == SchemaFor(t, version)
    IN CASE active = {} -> chosen = Unchecked
         [] active # {} /\ meant = {} -> chosen = Refused
         [] OTHER -> chosen \in meant /\ \A s \in meant : s.created <= chosen.created

ReadsAreExact == ContextIsExact /\ SchemasAreCurrent
=============================================================================
