------------------------------ MODULE Mentions ------------------------------
(***************************************************************************)
(* parse_mentions (mentions.rs): the text of a message, a sequence of      *)
(* characters, is read from left to right, and what stands at an @ or a #  *)
(* becomes a link.                                                         *)
(***************************************************************************)
EXTENDS Integers, Sequences, Functions

CONSTANTS Agents,        \* the registered agents: [name, id, owner]
          NamedTopics,   \* the registered topics: [name, uri]
          Characters,    \* the characters of texts and names
          Letters,       \* those that a word is made of
          MaxBody        \* bound: the length of the text

Owners == {[name |-> a.owner.name, uri |-> a.owner.uri] : a \in Agents}
Called == {[name |-> a.name, uri |-> a.id] : a \in Agents}

ASSUME MentionsAssumption ==
  \A n \in Called \union Owners \union NamedTopics : n.name \in Seq(Characters) /\ n.uri # ""

VARIABLES body,       \* the text
          position,   \* where the parser stands
          items,      \* what it has read: links, and characters that it left
          mentioned   \* the URIs it has found

mentionVars == <<body, position, items, mentioned>>

MentionsInit == body = <<>> /\ position = 1 /\ items = <<>> /\ mentioned = <<>>

(***************************************************************************)
(* A name that stands at a position, and where the text goes on behind it. *)
(* [Name], perhaps padded, comes before a bare name, which a boundary has  *)
(* to end, agents come before their owners, and long names before short.   *)
(***************************************************************************)
Boundary(i) == i > Len(body) \/ body[i] \notin Letters

Ink(s) == {i \in DOMAIN s : s[i] # " "}

\* str::trim
Trim(s) ==
  LET first == CHOOSE i \in Ink(s) : \A j \in Ink(s) : i <= j
      last == CHOOSE i \in Ink(s) : \A j \in Ink(s) : j <= i
  IN  IF Ink(s) = {} THEN <<>> ELSE SubSeq(s, first, last)

Nowhere == [uri |-> "", next |-> 0]
Found(n, next) == [uri |-> n.uri, next |-> next]
OrElse(m, n) == IF m # Nowhere THEN m ELSE n

Bracketed(names, i) ==
  LET ends == {j \in i + 2 .. Len(body) : body[j] = "]"}
      end == CHOOSE j \in ends : \A k \in ends : j <= k
      hits == {n \in names : n.name = Trim(SubSeq(body, i + 2, end - 1))}
  IN  IF body[i + 1] = "[" /\ ends # {} /\ hits # {}
        THEN Found(CHOOSE n \in hits : TRUE, end + 1)
        ELSE Nowhere

StandsAt(name, i) == /\ i + Len(name) - 1 <= Len(body)
                     /\ SubSeq(body, i, i + Len(name) - 1) = name

\* For mutation: no word boundary is asked for.
GreedyPrefix(names, i) ==
  LET hits == {n \in names : StandsAt(n.name, i + 1)}
      longest == CHOOSE n \in hits : \A m \in hits : Len(m.name) <= Len(n.name)
  IN  IF hits # {} THEN Found(longest, i + 1 + Len(longest.name)) ELSE Nowhere

Greedy(names, i) ==
  LET hits == {n \in names : StandsAt(n.name, i + 1) /\ Boundary(i + 1 + Len(n.name))}
      longest == CHOOSE n \in hits : \A m \in hits : Len(m.name) <= Len(n.name)
  IN  IF hits # {} THEN Found(longest, i + 1 + Len(longest.name)) ELSE Nowhere

MentionAt(i) ==
  CASE i < Len(body) /\ body[i] = "@" ->
         OrElse(Bracketed(Called, i), OrElse(Bracketed(Owners, i),
           OrElse(Greedy(Called, i), Greedy(Owners, i))))
    [] i < Len(body) /\ body[i] = "#" ->
         OrElse(Bracketed(NamedTopics, i), Greedy(NamedTopics, i))
    [] OTHER -> Nowhere

GrowBody == /\ items = <<>> /\ Len(body) < MaxBody
            /\ \E c \in Characters : body' = Append(body, c)
            /\ UNCHANGED <<position, items, mentioned>>

ParseNext ==
  /\ position <= Len(body)
  /\ LET m == MentionAt(position)
         next == IF m = Nowhere THEN position + 1 ELSE m.next
     IN  /\ items' = Append(items, [uri |-> m.uri, first |-> position, next |-> next])
         /\ position' = next
         /\ mentioned' = IF m = Nowhere \/ m.uri \in Range(mentioned) THEN mentioned
                         ELSE Append(mentioned, m.uri)
  /\ UNCHANGED body

MentionsNext == GrowBody \/ ParseNext

MentionsSpec == MentionsInit /\ [][MentionsNext]_mentionVars

-----------------------------------------------------------------------------
(***************************************************************************)
(* A reading of the text at i that ends before next: a name in brackets    *)
(* with nothing but blanks around it, or a bare one; and which comes first. *)
(***************************************************************************)
Names == Called \union Owners \union NamedTopics

Known(c) == CASE c = "@" -> (Called \X {1}) \union (Owners \X {2})
              [] c = "#" -> NamedTopics \X {1}
              [] OTHER -> {}

InBrackets(name, i, next) ==
  /\ next > i + 2 /\ body[i + 1] = "[" /\ body[next - 1] = "]"
  /\ \A j \in i + 2 .. next - 2 : body[j] # "]"
  /\ name # <<>> => name[1] # " " /\ name[Len(name)] # " "
  /\ \E k \in i + 2 .. next - 1 :
       /\ k + Len(name) <= next - 1
       /\ SubSeq(body, k, k + Len(name) - 1) = name
       /\ \A j \in i + 2 .. next - 2 : j \notin k .. k + Len(name) - 1 => body[j] = " "

Bare(name, i, next) ==
  next = i + 1 + Len(name) /\ SubSeq(body, i + 1, next - 1) = name /\ Boundary(next)

Readings(i) ==
  {r \in [n : Names, rank : {1, 2}, bare : BOOLEAN, next : i + 1 .. Len(body) + 1] :
     /\ i < Len(body) /\ <<r.n, r.rank>> \in Known(body[i])
     /\ IF r.bare THEN Bare(r.n.name, i, r.next) ELSE InBrackets(r.n.name, i, r.next)}

Precedes(r, q) == \/ ~r.bare /\ q.bare
                  \/ r.bare = q.bare /\ r.rank < q.rank
                  \/ /\ r.bare = q.bare /\ r.rank = q.rank
                     /\ Len(r.n.name) > Len(q.n.name)

(***************************************************************************)
(* parse_mentions (mentions.rs:10-235) reads the text from left to right   *)
(* without a gap or an overlap, takes the reading that comes first at each *)
(* @ or #, leaves alone what has none, and returns each URI once.          *)
(***************************************************************************)
MentionsAreExact ==
  /\ \A k \in DOMAIN items :
       LET x == items[k]   readings == Readings(x.first)
       IN  /\ x.first = (IF k = 1 THEN 1 ELSE items[k - 1].next)
           /\ readings = {} => x.uri = "" /\ x.next = x.first + 1
           /\ readings # {} =>
                \E r \in readings : /\ x.uri = r.n.uri /\ x.next = r.next
                                    /\ \A q \in readings : ~Precedes(q, r)
  /\ position = (IF items = <<>> THEN 1 ELSE items[Len(items)].next)
  /\ position <= Len(body) + 1
  /\ IsInjective(mentioned)
  /\ Range(mentioned) = {items[k].uri : k \in DOMAIN items} \ {""}
=============================================================================
