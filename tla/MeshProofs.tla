----------------------------- MODULE MeshProofs -----------------------------
(***************************************************************************)
(* Theorems about Mesh for any daemons, any links between them and any     *)
(* patterns, any number of messages and of connections that end.           *)
(***************************************************************************)
EXTENDS Mesh, TLAPS

USE MeshAssumption

-----------------------------------------------------------------------------
(* The inductive invariant.                                                *)

In(m, q) == \E i \in 1 .. Len(q) : q[i] = m
OnItsWay(m) == (\E t \in tasks : t[3] = m) \/ \E l \in Links : In(m, queue[l])

Known(m) == <<m.kind, m.id>>
Id(k) == [n |-> k, via |-> <<>>]

\* The daemon has broadcast the message, or the forum message it is a copy of;
\* or a call that will do so is under way.
Published(n, s) == s \in seen[n] \/ HadOriginal(n, s)
Handles(n, s) == Published(n, s) \/ \E t \in tasks : t[1] = n /\ Known(t[3]) = s

\* forwarded_by is simple, and is no promise: who is named there, but for the
\* daemon where the message is, has published it.
Accounted(m, here) ==
    /\ IsInjective(m.path) /\ m.id.n <= published
    /\ m.kind # "copy" => m.id.via = <<>>
    /\ \A n \in Range(m.path) \ here : Published(n, Known(m))

PathInv ==
    /\ \A t \in tasks : Accounted(t[3], {t[1]})
    /\ \A l \in Links : \A m \in Messages : In(m, queue[l]) => Accounted(m, {})

\* What a daemon broadcast is in the queues to its listeners, or handled there.
Has(l, s) == Handles(l[1], s) \/ \E m \in Messages : In(m, queue[l]) /\ Known(m) = s
ListenersInv ==
    \A l \in Links : \A s \in seen[l[2]] \ missed : s[1] \in Carries[l] => Has(l, s)

\* While every write began at rest, one change of a name is under way, and who
\* has taken it in still has it. The number 0 stands for no change yet.
Target(m) == IF m.value # None THEN m.name ELSE Trim[m.name]
Applied(n, k) ==
    \/ <<"registry", Id(k)>> \in seen[n]
    \/ \E t \in tasks : t[1] = n /\ Known(t[3]) = <<"registry", Id(k)>> /\ t[4] = "broadcast"

IsLast(m, x, k, value) == Target(m) = x /\ m.id = Id(k) /\ m.value = value
Agreed(x, k, value) ==
    /\ \A m \in Messages : OnItsWay(m) /\ m.kind = "registry" =>
         (Target(m) = x \/ m.id = Id(k) => IsLast(m, x, k, value))
    /\ k = 0 => \A n \in Nodes : registry[n][x] = value
    /\ k # 0 => \E n \in Nodes : Handles(n, <<"registry", Id(k)>>)
    /\ \A n \in Nodes : Applied(n, k) => registry[n][x] = value

RegistryInv ==
    calm /\ NoChangeMissed =>
      \A x \in Names : Trim[x] = x =>
        \E k \in 0 .. published, value \in Topics \cup {None} : Agreed(x, k, value)

SeenInv == \A n \in Nodes : \A s \in seen[n] : s[2].n <= published

MeshInv == TypeOK /\ SeenInv /\ PathInv /\ ListenersInv /\ RegistryInv

-----------------------------------------------------------------------------
(* Queues and paths.                                                       *)

LEMMA InAppended ==
    ASSUME NEW S, NEW q \in Seq(S), NEW f \in S
    PROVE  /\ Append(q, f) \in Seq(S) /\ Len(Append(q, f)) = Len(q) + 1
           /\ \A g : In(g, Append(q, f)) <=> g = f \/ In(g, q)
  <1>1. Append(q, f) \in Seq(S) /\ Len(Append(q, f)) = Len(q) + 1 /\ Len(q) \in Nat
    OBVIOUS
  <1>2. \A i \in 1 .. Len(q) + 1 : Append(q, f)[i] = IF i = Len(q) + 1 THEN f ELSE q[i]
    OBVIOUS
  <1>3. ASSUME NEW g, NEW i \in 1 .. Len(q) + 1, Append(q, f)[i] = g, g # f PROVE In(g, q)
    <2>1. i \in 1 .. Len(q) /\ q[i] = g
      BY <1>1, <1>2, <1>3
    <2>2. QED
      BY <2>1 DEF In
  <1>4. ASSUME NEW g, g = f \/ In(g, q) PROVE In(g, Append(q, f))
    <2>1. CASE g = f
      <3>1. Len(q) + 1 \in 1 .. Len(Append(q, f)) /\ Append(q, f)[Len(q) + 1] = g
        BY <1>1, <1>2, <2>1
      <3>2. QED
        BY <3>1 DEF In
    <2>2. CASE In(g, q)
      <3>1. PICK i \in 1 .. Len(q) : q[i] = g
        BY <2>2 DEF In
      <3>2. i \in 1 .. Len(Append(q, f)) /\ Append(q, f)[i] = g
        BY <1>1, <1>2, <3>1
      <3>3. QED
        BY <3>2 DEF In
    <2>3. QED
      BY <1>4, <2>1, <2>2
  <1>5. QED
    BY <1>1, <1>3, <1>4 DEF In

LEMMA InTail ==
    ASSUME NEW S, NEW q \in Seq(S), q # <<>>
    PROVE  /\ Head(q) \in S /\ Tail(q) \in Seq(S) /\ Len(Tail(q)) = Len(q) - 1
           /\ \A g : In(g, q) <=> g = Head(q) \/ In(g, Tail(q))
  <1>1. Head(q) \in S /\ Tail(q) \in Seq(S) /\ Len(q) \in Nat \ {0} /\ Head(q) = q[1]
    OBVIOUS
  <1>2. Len(Tail(q)) = Len(q) - 1 /\ \A i \in 1 .. Len(q) - 1 : Tail(q)[i] = q[i + 1]
    BY <1>1
  <1>3. ASSUME NEW g, In(g, q) PROVE g = Head(q) \/ In(g, Tail(q))
    <2>1. PICK i \in 1 .. Len(q) : q[i] = g
      BY <1>3 DEF In
    <2>2. CASE i = 1
      BY <1>1, <2>1, <2>2
    <2>3. CASE i # 1
      <3>1. i - 1 \in 1 .. Len(Tail(q)) /\ Tail(q)[i - 1] = g
        BY <1>1, <1>2, <2>1, <2>3
      <3>2. QED
        BY <3>1 DEF In
    <2>4. QED
      BY <2>2, <2>3
  <1>4. ASSUME NEW g, g = Head(q) \/ In(g, Tail(q)) PROVE In(g, q)
    <2>1. CASE g = Head(q)
      BY <1>1, <2>1 DEF In
    <2>2. CASE In(g, Tail(q))
      <3>1. PICK i \in 1 .. Len(q) - 1 : Tail(q)[i] = g
        BY <1>2, <2>2 DEF In
      <3>2. i + 1 \in 1 .. Len(q) /\ q[i + 1] = g
        BY <1>1, <1>2, <3>1
      <3>3. QED
        BY <3>2 DEF In
    <2>3. QED
      BY <1>4, <2>1, <2>2
  <1>5. QED
    BY <1>1, <1>2, <1>3, <1>4

LEMMA InEmpty == ASSUME NEW g PROVE ~In(g, <<>>)
  BY DEF In

\* A daemon that is stamped into a path is there, once.
LEMMA StampedPath ==
    ASSUME NEW path \in Seq(Nodes), NEW n \in Nodes
    PROVE  /\ Stamped(path, n) \in Seq(Nodes)
           /\ Range(Stamped(path, n)) = Range(path) \cup {n}
           /\ IsInjective(path) => IsInjective(Stamped(path, n))
  <1>1. CASE n \in Range(path)
    BY <1>1 DEF Stamped
  <1>2. CASE n \notin Range(path)
    <2>1. Stamped(path, n) = Append(path, n)
      BY <1>2 DEF Stamped
    <2>2. Append(path, n) \in Seq(Nodes) /\ Len(Append(path, n)) = Len(path) + 1 /\ Len(path) \in Nat
      OBVIOUS
    <2>3. DOMAIN path = 1 .. Len(path) /\ DOMAIN Append(path, n) = 1 .. Len(path) + 1
      BY <2>2
    <2>4. \A i \in 1 .. Len(path) + 1 : Append(path, n)[i] = IF i = Len(path) + 1 THEN n ELSE path[i]
      OBVIOUS
    <2>5. Range(Append(path, n)) \subseteq Range(path) \cup {n}
      BY <2>2, <2>3, <2>4 DEF Range
    <2>6. Range(path) \cup {n} \subseteq Range(Append(path, n))
      <3>1. n \in Range(Append(path, n))
        <4>1. Len(path) + 1 \in DOMAIN Append(path, n) /\ Append(path, n)[Len(path) + 1] = n
          BY <2>2, <2>3, <2>4
        <4>2. QED
          BY <4>1 DEF Range
      <3>2. ASSUME NEW i \in DOMAIN path PROVE path[i] \in Range(Append(path, n))
        <4>1. i \in DOMAIN Append(path, n) /\ Append(path, n)[i] = path[i]
          BY <2>2, <2>3, <2>4
        <4>2. QED
          BY <4>1 DEF Range
      <3>3. QED
        BY <3>1, <3>2 DEF Range
    <2>7. ASSUME IsInjective(path) PROVE IsInjective(Append(path, n))
      <3> SUFFICES ASSUME NEW i \in 1 .. Len(path) + 1, NEW j \in 1 .. Len(path) + 1,
                          Append(path, n)[i] = Append(path, n)[j]
                   PROVE  i = j
        BY <2>3 DEF IsInjective
      <3>1. \A k \in 1 .. Len(path) : path[k] # n
        BY <1>2, <2>3 DEF Range
      <3>2. \A k, h \in 1 .. Len(path) : path[k] = path[h] => k = h
        BY <2>3, <2>7 DEF IsInjective
      <3>3. QED
        BY <2>2, <2>4, <3>1, <3>2
    <2>8. QED
      BY <2>1, <2>2, <2>5, <2>6, <2>7
  <1>3. QED
    BY <1>1, <1>2

\* A message with another path, and the copy of one, say the same.
LEMMA Restamped ==
    ASSUME NEW m \in Messages, NEW n \in Nodes
    PROVE  LET stamped == [m EXCEPT !.path = Stamped(@, n)]
           IN  /\ stamped \in Messages
               /\ stamped.kind = m.kind /\ stamped.id = m.id
               /\ stamped.name = m.name /\ stamped.value = m.value
               /\ stamped.path = Stamped(m.path, n)
  <1>1. m.path \in Seq(Nodes)
    BY DEF Messages
  <1>2. Stamped(m.path, n) \in Seq(Nodes)
    BY <1>1, StampedPath
  <1>3. QED
    BY <1>2 DEF Messages

LEMMA Copied ==
    ASSUME NEW m \in Messages
    PROVE  /\ CopyOf(m) \in Messages /\ CopyOf(m).kind = "copy"
           /\ CopyOf(m).id = [n |-> m.id.n, via |-> m.path] /\ CopyOf(m).path = m.path
  BY DEF CopyOf, Messages, Kinds, Ids

\* A client's message.
LEMMA Fresh ==
    ASSUME NEW kind \in Kinds, NEW k \in 1 .. MaxMessages,
           NEW name \in Names \cup {None}, NEW value \in Topics \cup {None}
    PROVE  LET new == Message(kind, k, name, value)
           IN  /\ new \in Messages
               /\ new.kind = kind /\ new.id = Id(k) /\ new.name = name /\ new.value = value
               /\ new.path = <<>>
  <1>1. <<>> \in Seq(Nodes)
    OBVIOUS
  <1>2. Id(k) \in Ids
    BY <1>1 DEF Id, Ids
  <1>3. QED
    BY <1>1, <1>2 DEF Message, Messages, Id

LEMMA KnownIs ==
    ASSUME NEW m \in Messages
    PROVE  /\ Known(m) \in Kinds \X Ids /\ Known(m)[1] = m.kind /\ Known(m)[2] = m.id
           /\ m.id.n \in Nat /\ m.path \in Seq(Nodes)
  BY DEF Known, Messages, Ids

-----------------------------------------------------------------------------
(* The initial state and the types.                                        *)

LEMMA InitMesh == Init => MeshInv
  <1> SUFFICES ASSUME Init PROVE MeshInv
    OBVIOUS
  <1>1. TypeOK
    <2>1. queue \in [Links -> Seq(Messages)] /\ \A l \in Links : Len(queue[l]) <= Capacity
      BY DEF Init
    <2>2. /\ registry \in [Nodes -> [Names -> Topics \cup {None}]]
          /\ seen \in [Nodes -> SUBSET (Kinds \X Ids)]
      BY DEF Init
    <2>3. published \in 0 .. MaxMessages /\ tasks = {} /\ up = Links
      BY DEF Init
    <2>4. missed = {} /\ calm \in BOOLEAN
      BY DEF Init
    <2>5. QED
      BY <2>1, <2>2, <2>3, <2>4 DEF TypeOK
  <1>2. \A m : ~OnItsWay(m)
    BY InEmpty DEF Init, OnItsWay
  <1>3. SeenInv /\ PathInv /\ ListenersInv
    BY InEmpty DEF Init, SeenInv, PathInv, ListenersInv
  <1>4. RegistryInv
    <2>1. ASSUME NEW x \in Names PROVE Agreed(x, 0, None)
      BY <1>2 DEF Init, Agreed, Applied
    <2>2. 0 \in 0 .. published /\ None \in Topics \cup {None}
      BY DEF Init
    <2>3. QED
      BY <2>1, <2>2 DEF RegistryInv
  <1>5. QED
    BY <1>1, <1>3, <1>4 DEF MeshInv

\* The steps, with what they are about.
LEMMA Actions ==
    ASSUME TypeOK, Next
    PROVE  \/ \E n \in Nodes, by \in Callers, m \in Messages :
                Intercept(n, by, m) \/ Broadcast(n, by, m) \/ Refuse(n, by, m)
           \/ \E l \in Links : Receive(l) \/ Connect(l) \/ Disconnect(l)
           \/ \E n \in Nodes : Write(n) \/ Mention(n)
  <1>1. \A t \in tasks : t[1] \in Nodes /\ t[2] \in Callers /\ t[3] \in Messages
    BY DEF TypeOK
  <1>2. QED
    BY <1>1 DEF Next, Work

LEMMA Ends == \A l \in Links : l[1] \in Nodes /\ l[2] \in Nodes /\ l \in Callers
  BY DEF Callers

Calls == Nodes \X Callers \X Messages \X {"intercept", "broadcast"}

\* What a client does, whichever of the two it is.
LEMMA Client ==
    ASSUME TypeOK, NEW n \in Nodes, Write(n) \/ Mention(n)
    PROVE  \E kind \in Kinds, name \in Names \cup {None}, value \in Topics \cup {None} :
             /\ tasks' = tasks \cup {<<n, <<"api">>, Message(kind, published', name, value), "intercept">>}
             /\ kind = "registry" => Write(n) /\ name \in Names
                                     /\ registry' = [registry EXCEPT ![n][name] = value]
             /\ kind # "registry" => UNCHANGED registry
             /\ kind # "copy"
             /\ published' = published + 1 /\ published' \in 1 .. MaxMessages
             /\ UNCHANGED <<queue, up, seen, missed>>
  <1>1. published' = published + 1 /\ published' \in 1 .. MaxMessages /\ UNCHANGED <<queue, up, seen, missed>>
    BY DEF Write, Mention, TypeOK
  <1>2. CASE Write(n)
    <2>1. PICK x \in Names, t \in Topics \cup {None} :
            /\ registry' = [registry EXCEPT ![n][x] = t]
            /\ tasks' = tasks \cup {<<n, <<"api">>, Message("registry", published', x, t), "intercept">>}
      BY <1>2 DEF Write
    <2>2. "registry" \in Kinds /\ "registry" # "copy"
      BY DEF Kinds
    <2>3. QED
      BY <1>1, <1>2, <2>1, <2>2
  <1>3. CASE Mention(n)
    <2>1. "forum" \in Kinds /\ "forum" # "copy" /\ "forum" # "registry"
      BY DEF Kinds
    <2>2. QED
      BY <1>1, <1>3, <2>1 DEF Mention
  <1>4. QED
    BY <1>2, <1>3

LEMMA AppliedRow ==
    ASSUME NEW row \in [Names -> Topics \cup {None}], NEW m \in Messages
    PROVE  /\ Apply(row, m) \in [Names -> Topics \cup {None}]
           /\ \A x \in Names : Apply(row, m)[x] = IF x = Target(m) THEN m.value ELSE row[x]
  BY DEF Apply, Target, Messages

LEMMA TypeStep == TypeOK /\ [Next]_vars => TypeOK'
  <1> SUFFICES ASSUME TypeOK, [Next]_vars PROVE TypeOK'
    OBVIOUS
  <1>1. ASSUME NEW n \in Nodes, NEW by \in Callers, NEW m \in Messages, Intercept(n, by, m)
        PROVE  TypeOK'
    <2> DEFINE stamped == [m EXCEPT !.path = Stamped(@, n)]
    <2>1. stamped \in Messages /\ CopyOf(m) \in Messages /\ <<"spawned">> \in Callers
      BY Restamped, Copied DEF Callers
    <2>2. PICK copies \in SUBSET {CopyOf(m)} :
            tasks' = (tasks \ {<<n, by, m, "intercept">>}) \cup {<<n, by, stamped, "broadcast">>}
                       \cup {<<n, <<"spawned">>, copy, "intercept">> : copy \in copies}
      BY <1>1 DEF Intercept
    <2>3. tasks' \subseteq Calls
      <3>1. <<n, by, stamped, "broadcast">> \in Calls
        BY <2>1 DEF Calls
      <3>2. \A copy \in copies : <<n, <<"spawned">>, copy, "intercept">> \in Calls
        BY <2>1 DEF Calls
      <3>3. tasks \subseteq Calls
        BY DEF TypeOK, Calls
      <3>4. QED
        BY <2>2, <3>1, <3>2, <3>3
    <2>4. registry' \in [Nodes -> [Names -> Topics \cup {None}]]
      <3>1. registry[n] \in [Names -> Topics \cup {None}]
        BY DEF TypeOK
      <3>2. Apply(registry[n], m) \in [Names -> Topics \cup {None}]
        BY <3>1, AppliedRow
      <3>3. QED
        BY <1>1, <3>2 DEF Intercept, TakeIn, TypeOK
    <2>5. missed' \subseteq Kinds \X Ids
      BY <1>1, KnownIs DEF Intercept, TakeIn, Misses, Known, TypeOK
    <2>6. QED
      BY <1>1, <2>3, <2>4, <2>5 DEF Intercept, Calls, TypeOK
  <1>2. ASSUME NEW n \in Nodes, NEW by \in Callers, NEW m \in Messages, Broadcast(n, by, m)
        PROVE  TypeOK'
    <2>1. \A l \in Links : Enqueue(queue[l], m) \in Seq(Messages) /\ Len(Enqueue(queue[l], m)) <= Capacity
      <3> SUFFICES ASSUME NEW l \in Links
                   PROVE  Enqueue(queue[l], m) \in Seq(Messages) /\ Len(Enqueue(queue[l], m)) <= Capacity
        OBVIOUS
      <3>1. queue[l] \in Seq(Messages) /\ Len(queue[l]) <= Capacity /\ Len(queue[l]) \in Nat
        BY DEF TypeOK
      <3>2. Append(queue[l], m) \in Seq(Messages) /\ Len(Append(queue[l], m)) = Len(queue[l]) + 1
        BY <3>1, InAppended
      <3>3. QED
        BY <3>1, <3>2 DEF Enqueue
    <2>2. queue' \in [Links -> Seq(Messages)] /\ \A l \in Links : Len(queue'[l]) <= Capacity
      BY <1>2, <2>1 DEF Broadcast, TypeOK
    <2>3. <<m.kind, m.id>> \in Kinds \X Ids
      BY KnownIs DEF Known
    <2>4. seen' \in [Nodes -> SUBSET (Kinds \X Ids)]
      BY <1>2, <2>3 DEF Broadcast, TypeOK
    <2>5. missed' \subseteq Kinds \X Ids /\ tasks' \subseteq tasks
      BY <1>2, <2>3 DEF Broadcast, Misses, TypeOK
    <2>6. QED
      BY <1>2, <2>2, <2>4, <2>5 DEF Broadcast, bounds, TypeOK
  <1>3. ASSUME NEW n \in Nodes, NEW by \in Callers, NEW m \in Messages, Refuse(n, by, m)
        PROVE  TypeOK'
    <2>1. missed' \subseteq Kinds \X Ids /\ tasks' \subseteq tasks
      BY <1>3, KnownIs DEF Refuse, Misses, Known, TypeOK
    <2>2. QED
      BY <1>3, <2>1 DEF Refuse, TypeOK
  <1>4. ASSUME NEW l \in Links, Receive(l) PROVE TypeOK'
    <2> DEFINE m == Head(queue[l])
               stamped == [m EXCEPT !.path = Stamped(@, l[1])]
    <2>1. m \in Messages /\ Tail(queue[l]) \in Seq(Messages) /\ Len(Tail(queue[l])) <= Capacity
      BY <1>4, InTail DEF Receive, TypeOK
    <2>2. stamped \in Messages
      BY <2>1, Restamped, Ends
    <2>3. tasks' \subseteq tasks \cup {<<l[1], l, stamped, "intercept">>}
      BY <1>4 DEF Receive
    <2>4. tasks' \subseteq Calls
      <3>1. <<l[1], l, stamped, "intercept">> \in Calls
        BY <2>2, Ends DEF Calls
      <3>2. tasks \subseteq Calls
        BY DEF TypeOK, Calls
      <3>3. QED
        BY <2>3, <3>1, <3>2
    <2>5. QED
      BY <1>4, <2>1, <2>4 DEF Receive, bounds, Calls, TypeOK
  <1>5. ASSUME NEW l \in Links, Connect(l) \/ Disconnect(l) PROVE TypeOK'
    <2>1. up' \subseteq Links
      BY <1>5 DEF Connect, Disconnect, TypeOK
    <2>2. missed' \subseteq Kinds \X Ids
      <3>1. queue[l] \in Seq(Messages)
        BY DEF TypeOK
      <3>2. \A m \in Range(queue[l]) : m \in Messages
        BY <3>1 DEF Range
      <3>3. {<<m.kind, m.id>> : m \in Range(queue[l])} \subseteq Kinds \X Ids
        BY <3>2, KnownIs DEF Known
      <3>4. QED
        BY <1>5, <3>3 DEF Connect, Disconnect, TypeOK
    <2>3. queue' = queue \/ queue' = [queue EXCEPT ![l] = <<>>]
      BY <1>5 DEF Connect, Disconnect
    <2>4. queue' \in [Links -> Seq(Messages)] /\ \A k \in Links : Len(queue'[k]) <= Capacity
      <3>1. queue \in [Links -> Seq(Messages)] /\ \A k \in Links : Len(queue[k]) <= Capacity
        BY DEF TypeOK
      <3>2. <<>> \in Seq(Messages) /\ Len(<<>>) <= Capacity
        OBVIOUS
      <3>3. CASE queue' = queue
        BY <3>1, <3>3
      <3>4. CASE queue' = [queue EXCEPT ![l] = <<>>]
        BY <3>1, <3>2, <3>4
      <3>5. QED
        BY <2>3, <3>3, <3>4
    <2>5. UNCHANGED <<registry, tasks, published, seen, calm>>
      BY <1>5 DEF Connect, Disconnect, bounds
    <2>6. QED
      BY <2>1, <2>2, <2>4, <2>5 DEF TypeOK
  <1>6. ASSUME NEW n \in Nodes, Write(n) \/ Mention(n) PROVE TypeOK'
    <2>1. PICK kind \in Kinds, name \in Names \cup {None}, value \in Topics \cup {None} :
            /\ tasks' = tasks \cup {<<n, <<"api">>, Message(kind, published', name, value), "intercept">>}
            /\ kind = "registry" => name \in Names /\ registry' = [registry EXCEPT ![n][name] = value]
            /\ kind # "registry" => UNCHANGED registry
            /\ published' = published + 1 /\ published' \in 1 .. MaxMessages
            /\ UNCHANGED <<queue, up, seen, missed>>
      BY <1>6, Client
    <2>2. tasks' \subseteq Calls
      <3>1. <<n, <<"api">>, Message(kind, published', name, value), "intercept">> \in Calls
        BY <2>1, Fresh DEF Callers, Calls
      <3>2. tasks \subseteq Calls
        BY DEF TypeOK, Calls
      <3>3. QED
        BY <2>1, <3>1, <3>2
    <2>3. registry' \in [Nodes -> [Names -> Topics \cup {None}]]
      <3>1. CASE kind = "registry"
        <4>1. registry[n] \in [Names -> Topics \cup {None}]
          BY DEF TypeOK
        <4>2. [registry[n] EXCEPT ![name] = value] \in [Names -> Topics \cup {None}]
          BY <4>1
        <4>3. registry' = [registry EXCEPT ![n] = [registry[n] EXCEPT ![name] = value]]
          BY <2>1, <3>1
        <4>4. QED
          BY <4>2, <4>3 DEF TypeOK
      <3>2. CASE kind # "registry"
        BY <2>1, <3>2 DEF TypeOK
      <3>3. QED
        BY <3>1, <3>2
    <2>4. calm' \in BOOLEAN
      BY <1>6 DEF Write, Mention, TypeOK
    <2>5. published' \in 0 .. MaxMessages
      BY <2>1
    <2>6. QED
      BY <2>1, <2>2, <2>3, <2>4, <2>5 DEF Calls, TypeOK
  <1>7. CASE UNCHANGED vars
    BY <1>7 DEF vars, work, bounds, TypeOK
  <1>8. QED
    BY <1>1, <1>2, <1>3, <1>4, <1>5, <1>6, <1>7, Actions

-----------------------------------------------------------------------------
(* Who handles a message, and the paths.                                   *)

LEMMA InterceptSets ==
    ASSUME NEW n \in Nodes, NEW by \in Callers, NEW m \in Messages, Intercept(n, by, m)
    PROVE  LET sent == <<n, by, [m EXCEPT !.path = Stamped(@, n)], "broadcast">>
               spawned == <<n, <<"spawned">>, CopyOf(m), "intercept">>
           IN  /\ <<n, by, m, "intercept">> \in tasks
               /\ tasks \ {<<n, by, m, "intercept">>} \subseteq tasks'
               /\ sent \in tasks'
               /\ \A t \in tasks' : t \in tasks \/ t = sent \/ (m.kind = "forum" /\ t = spawned)
               /\ UNCHANGED <<queue, published, seen, calm>>
  BY DEF Intercept

\* What was seen stays seen, and what was missed stays missed.
LEMMA Histories ==
    ASSUME TypeOK, [Next]_vars
    PROVE  /\ \A n \in Nodes : seen[n] \subseteq seen'[n]
           /\ missed \subseteq missed' /\ published <= published' /\ (calm' => calm)
  <1>1. published \in Nat
    BY DEF TypeOK
  <1>2. ASSUME NEW n \in Nodes, NEW by \in Callers, NEW m \in Messages, Broadcast(n, by, m)
        PROVE  \A k \in Nodes : seen[k] \subseteq seen'[k]
    BY <1>2 DEF Broadcast, TypeOK
  <1>3. \A n \in Nodes : seen[n] \subseteq seen'[n]
    BY <1>2, Actions DEF Intercept, Refuse, Receive, Connect, Disconnect, Write, Mention, vars
  <1>4. missed \subseteq missed'
    <2>1. ASSUME NEW n \in Nodes, NEW by \in Callers, NEW m \in Messages,
                 Intercept(n, by, m) \/ Broadcast(n, by, m) \/ Refuse(n, by, m)
          PROVE  missed \subseteq missed'
      BY <2>1 DEF Intercept, TakeIn, Broadcast, Refuse, Misses
    <2>2. ASSUME NEW l \in Links, Disconnect(l) PROVE missed \subseteq missed'
      BY <2>2 DEF Disconnect
    <2>3. QED
      BY <2>1, <2>2, Actions DEF Receive, Connect, Write, Mention, vars
  <1>5. published' = published \/ published' = published + 1
    BY Actions DEF Intercept, Broadcast, Refuse, Receive, Connect, Disconnect, Write, Mention,
                   bounds, vars
  <1>6. calm' => calm
    BY Actions DEF Intercept, Broadcast, Refuse, Receive, Connect, Disconnect, Write, Mention, vars
  <1>7. QED
    BY <1>1, <1>3, <1>4, <1>5, <1>6

LEMMA PublishedStep ==
    ASSUME TypeOK, [Next]_vars, NEW n \in Nodes, NEW s, Published(n, s)
    PROVE  Published(n, s)'
  BY Histories DEF Published, HadOriginal

\* Once a daemon handles a message it goes on to, until it has broadcast or
\* refused it.
LEMMA HandlesStep ==
    ASSUME TypeOK, [Next]_vars, NEW n \in Nodes, NEW s, Handles(n, s), s \notin missed'
    PROVE  Handles(n, s)'
  <1> DEFINE Is(t) == t[1] = n /\ Known(t[3]) = s
  <1>1. ASSUME \A t \in tasks : Is(t) => t \in tasks' \/ Handles(n, s)'
        PROVE  Handles(n, s)'
    <2>1. CASE Published(n, s)
      BY <2>1, PublishedStep DEF Handles
    <2>2. CASE \E t \in tasks : Is(t)
      BY <1>1, <2>2 DEF Handles
    <2>3. QED
      BY <2>1, <2>2 DEF Handles
  <1>2. ASSUME NEW x \in Nodes, NEW by \in Callers, NEW m \in Messages, Intercept(x, by, m)
        PROVE  Handles(n, s)'
    <2> DEFINE stamped == [m EXCEPT !.path = Stamped(@, x)]
               old == <<x, by, m, "intercept">>
               sent == <<x, by, stamped, "broadcast">>
    <2>1. tasks \ {old} \subseteq tasks' /\ sent \in tasks'
      BY <1>2, InterceptSets
    <2>2. Known(stamped) = Known(m)
      BY Restamped DEF Known
    <2>3. ASSUME Is(old) PROVE Handles(n, s)'
      <3>1. Is(sent)
        BY <2>2, <2>3
      <3>2. QED
        BY <2>1, <3>1 DEF Handles
    <2>4. QED
      BY <1>1, <2>1, <2>3
  <1>3. ASSUME NEW x \in Nodes, NEW by \in Callers, NEW m \in Messages, Broadcast(x, by, m)
        PROVE  Handles(n, s)'
    <2> DEFINE old == <<x, by, m, "broadcast">>
    <2>1. tasks' = tasks \ {old} /\ seen' = [seen EXCEPT ![x] = @ \cup {Known(m)}]
      BY <1>3 DEF Broadcast, Known
    <2>2. Known(m) \in seen'[x]
      BY <2>1 DEF TypeOK
    <2>3. ASSUME Is(old) PROVE Handles(n, s)'
      BY <2>2, <2>3 DEF Handles, Published
    <2>4. QED
      BY <1>1, <2>1, <2>3
  <1>4. ASSUME NEW x \in Nodes, NEW by \in Callers, NEW m \in Messages, Refuse(x, by, m)
        PROVE  Handles(n, s)'
    <2> DEFINE old == <<x, by, m, "broadcast">>
    <2>1. tasks' = tasks \ {old} /\ Known(m) \in missed'
      BY <1>4 DEF Refuse, Misses, Known
    <2>2. ~Is(old)
      BY <2>1
    <2>3. QED
      BY <1>1, <2>1, <2>2
  <1>5. CASE tasks \subseteq tasks'
    BY <1>1, <1>5
  <1>6. QED
    BY <1>2, <1>3, <1>4, <1>5, Actions DEF Receive, Connect, Disconnect, Write, Mention, vars, work

LEMMA SeenStep == MeshInv /\ [Next]_vars => SeenInv'
  <1> SUFFICES ASSUME MeshInv, [Next]_vars PROVE SeenInv'
    OBVIOUS
  <1> TypeOK /\ TypeOK' /\ SeenInv /\ PathInv
    BY TypeStep DEF MeshInv
  <1>1. published \in Nat /\ published' \in Nat /\ \A n \in Nodes : \A s \in seen[n] : s[2].n \in Nat
    BY DEF TypeOK, Ids
  <1>2. ASSUME NEW n \in Nodes, NEW by \in Callers, NEW m \in Messages, Broadcast(n, by, m)
        PROVE  SeenInv'
    <2>1. m.id.n <= published
      <3> DEFINE t == <<n, by, m, "broadcast">>
      <3>1. t \in tasks /\ t[3] = m
        BY <1>2 DEF Broadcast
      <3> HIDE DEF t
      <3>2. QED
        BY <3>1 DEF PathInv, Accounted
    <2>2. published' = published /\ seen' = [seen EXCEPT ![n] = @ \cup {<<m.kind, m.id>>}]
      BY <1>2 DEF Broadcast, bounds
    <2>3. \A k \in Nodes : \A s \in seen'[k] : s \in seen[k] \/ s[2] = m.id
      BY <2>2 DEF TypeOK
    <2>4. QED
      BY <1>1, <2>1, <2>2, <2>3 DEF SeenInv
  <1>3. CASE UNCHANGED seen
    BY <1>1, <1>3, Histories DEF SeenInv
  <1>4. QED
    BY <1>2, <1>3, Actions DEF Intercept, Refuse, Receive, Connect, Disconnect, Write, Mention, vars

LEMMA PathStep == MeshInv /\ [Next]_vars => PathInv'
  <1> SUFFICES ASSUME MeshInv, [Next]_vars PROVE PathInv'
    OBVIOUS
  <1> TypeOK /\ TypeOK' /\ PathInv
    BY TypeStep DEF MeshInv
  <1>1. published \in Nat /\ published' \in Nat /\ published <= published'
    BY Histories DEF TypeOK
  \* A message that was accounted for still is.
  <1>2. ASSUME NEW m \in Messages, NEW here, Accounted(m, here) PROVE Accounted(m, here)'
    <2>1. m.path \in Seq(Nodes) /\ m.id.n \in Nat
      BY KnownIs
    <2>2. \A n \in Range(m.path) : n \in Nodes
      BY <2>1 DEF Range
    <2>3. m.id.n <= published'
      BY <1>1, <1>2, <2>1 DEF Accounted
    <2>4. QED
      BY <1>2, <2>2, <2>3, PublishedStep DEF Accounted
  <1>3. ASSUME NEW t \in tasks PROVE t[3] \in Messages /\ Accounted(t[3], {t[1]})'
    <2>1. t[3] \in Messages /\ Accounted(t[3], {t[1]})
      BY DEF TypeOK, PathInv
    <2>2. QED
      BY <1>2, <2>1
  <1>4. ASSUME NEW l \in Links, NEW m \in Messages, In(m, queue[l]) PROVE Accounted(m, {})'
    BY <1>2, <1>4 DEF PathInv
  \* And so is it where it has come to, with a stamp of there.
  <1>5. ASSUME NEW m \in Messages, NEW n \in Nodes, NEW here \in {{}, {n}}, Accounted(m, here)'
        PROVE  Accounted([m EXCEPT !.path = Stamped(@, n)], {n})'
    <2> DEFINE stamped == [m EXCEPT !.path = Stamped(@, n)]
    <2>1. m.path \in Seq(Nodes)
      BY KnownIs
    <2>2. /\ Range(stamped.path) = Range(m.path) \cup {n}
          /\ IsInjective(m.path) => IsInjective(stamped.path)
          /\ stamped.kind = m.kind /\ stamped.id = m.id
      BY <2>1, StampedPath, Restamped
    <2>3. Known(stamped) = Known(m)
      BY <2>2 DEF Known
    <2>4. Range(stamped.path) \ {n} \subseteq Range(m.path) \ here
      BY <2>2
    <2>5. QED
      BY <1>5, <2>2, <2>3, <2>4 DEF Accounted
  <1>6. ASSUME NEW n \in Nodes, NEW by \in Callers, NEW m \in Messages, Intercept(n, by, m) PROVE PathInv'
    <2> DEFINE old == <<n, by, m, "intercept">>
               stamped == [m EXCEPT !.path = Stamped(@, n)]
               sent == <<n, by, stamped, "broadcast">>
               spawned == <<n, <<"spawned">>, CopyOf(m), "intercept">>
    <2>1. /\ old \in tasks /\ UNCHANGED queue
          /\ \A t \in tasks' : t \in tasks \/ t = sent \/ (m.kind = "forum" /\ t = spawned)
      BY <1>6, InterceptSets
    <2>2. old[1] = n /\ old[3] = m
      OBVIOUS
    <2> HIDE DEF old
    <2>3. Accounted(m, {n})'
      BY <1>3, <2>1, <2>2
    <2>4. Accounted(stamped, {n})'
      BY <1>5, <2>3
    <2>5. ASSUME m.kind = "forum" PROVE Accounted(CopyOf(m), {n})'
      <3>1. /\ CopyOf(m).kind = "copy" /\ CopyOf(m).path = m.path
            /\ CopyOf(m).id = [n |-> m.id.n, via |-> m.path] /\ CopyOf(m).id.n = m.id.n
        BY Copied
      <3>2. m.id = [n |-> m.id.n, via |-> <<>>]
        <4>1. m.id.via = <<>> /\ m.id \in Ids
          BY <2>3, <2>5 DEF Accounted, Messages
        <4>2. QED
          BY <4>1 DEF Ids
      <3>3. ASSUME NEW k, Published(k, Known(m))' PROVE Published(k, Known(CopyOf(m)))'
        <4>1. Known(m) \in seen'[k]
          BY <2>5, <3>3 DEF Published, HadOriginal, Known
        <4>2. Known(m) = <<"forum", [n |-> m.id.n, via |-> <<>>]>>
          BY <2>5, <3>2 DEF Known
        <4>3. Known(CopyOf(m))[1] = "copy" /\ Known(CopyOf(m))[2].n = m.id.n
          BY <3>1 DEF Known
        <4>4. QED
          BY <4>1, <4>2, <4>3 DEF Published, HadOriginal
      <3>4. QED
        BY <2>3, <3>1, <3>3 DEF Accounted
    <2>6. ASSUME NEW t \in tasks' PROVE Accounted(t[3], {t[1]})'
      <3>1. sent[1] = n /\ sent[3] = stamped /\ spawned[1] = n /\ spawned[3] = CopyOf(m)
        OBVIOUS
      <3> HIDE DEF sent, spawned
      <3>2. CASE t \in tasks
        BY <1>3, <3>2
      <3>3. CASE t = sent
        BY <2>4, <3>1, <3>3
      <3>4. CASE m.kind = "forum" /\ t = spawned
        BY <2>5, <3>1, <3>4
      <3>5. QED
        BY <2>1, <3>2, <3>3, <3>4 DEF sent, spawned
    <2>7. QED
      BY <1>4, <2>1, <2>6 DEF PathInv
  <1>7. ASSUME NEW n \in Nodes, NEW by \in Callers, NEW m \in Messages, Broadcast(n, by, m) PROVE PathInv'
    <2> DEFINE old == <<n, by, m, "broadcast">>
    <2>1. old \in tasks /\ tasks' \subseteq tasks /\ seen' = [seen EXCEPT ![n] = @ \cup {Known(m)}]
      BY <1>7 DEF Broadcast, Known
    <2>2. Accounted(m, {})'
      <3>1. old[1] = n /\ old[3] = m
        OBVIOUS
      <3> HIDE DEF old
      <3>2. Accounted(m, {n})'
        BY <1>3, <2>1, <3>1
      <3>3. Published(n, Known(m))'
        BY <2>1 DEF Published, TypeOK
      <3>4. QED
        BY <3>2, <3>3 DEF Accounted
    <2>3. ASSUME NEW l \in Links, NEW x \in Messages, In(x, queue'[l]) PROVE Accounted(x, {})'
      <3>1. queue'[l] = queue[l] \/ queue'[l] = Append(queue[l], m)
        BY <1>7 DEF Broadcast, Enqueue
      <3>2. In(x, queue[l]) \/ x = m
        <4>1. queue[l] \in Seq(Messages)
          BY DEF TypeOK
        <4>2. In(x, Append(queue[l], m)) => x = m \/ In(x, queue[l])
          BY <4>1, InAppended
        <4>3. QED
          BY <2>3, <3>1, <4>2
      <3>3. QED
        BY <1>4, <2>2, <3>2
    <2>4. QED
      BY <1>3, <2>1, <2>3 DEF PathInv
  <1>8. ASSUME NEW l \in Links, Receive(l) PROVE PathInv'
    <2>0. PICK m : m = Head(queue[l])
      OBVIOUS
    <2> DEFINE stamped == [m EXCEPT !.path = Stamped(@, l[1])]
               new == <<l[1], l, stamped, "intercept">>
    <2>1. /\ queue[l] # <<>> /\ queue' = [queue EXCEPT ![l] = Tail(@)]
          /\ tasks' \subseteq tasks \cup {new}
      BY <1>8, <2>0 DEF Receive
    <2>2. m \in Messages /\ \A x : In(x, queue[l]) <=> x = m \/ In(x, queue'[l])
      BY <2>0, <2>1, InTail DEF TypeOK
    <2>3. Accounted(stamped, {l[1]})'
      BY <1>4, <1>5, <2>2, Ends
    <2>4. new[1] = l[1] /\ new[3] = stamped
      OBVIOUS
    <2>5. \A k \in Links : \A x : In(x, queue'[k]) => In(x, queue[k])
      BY <2>1, <2>2 DEF TypeOK
    <2> HIDE DEF new, stamped
    <2>6. \A t \in tasks' : Accounted(t[3], {t[1]})'
      BY <1>3, <2>1, <2>3, <2>4
    <2>7. QED
      BY <1>4, <2>5, <2>6 DEF PathInv
  <1>9. ASSUME NEW n \in Nodes, Write(n) \/ Mention(n) PROVE PathInv'
    <2>0. PICK k : k = published'
      OBVIOUS
    <2>1. PICK kind \in Kinds, name \in Names \cup {None}, value \in Topics \cup {None} :
            /\ tasks' = tasks \cup {<<n, <<"api">>, Message(kind, k, name, value), "intercept">>}
            /\ k \in 1 .. MaxMessages /\ UNCHANGED queue /\ kind # "copy"
      BY <1>9, <2>0, Client
    <2> DEFINE m == Message(kind, k, name, value)
               new == <<n, <<"api">>, m, "intercept">>
    <2>2. m.id = Id(k) /\ m.path = <<>>
      BY <2>1, Fresh
    <2>3. m.id.via = <<>> /\ m.id.n = published'
      BY <2>0, <2>2 DEF Id
    <2>4. IsInjective(<<>>) /\ Range(<<>>) = {}
      BY DEF IsInjective, Range
    <2>5. Accounted(m, {n})'
      BY <1>1, <2>2, <2>3, <2>4 DEF Accounted
    <2>6. new[1] = n /\ new[3] = m
      OBVIOUS
    <2>7. tasks' = tasks \cup {new}
      BY <2>1
    <2> HIDE DEF new, m
    <2>8. \A t \in tasks' : Accounted(t[3], {t[1]})'
      BY <1>3, <2>5, <2>6, <2>7
    <2>9. QED
      BY <1>4, <2>1, <2>8 DEF PathInv
  <1>10. CASE tasks' \subseteq tasks /\ \A l \in Links : queue'[l] = queue[l] \/ queue'[l] = <<>>
    BY <1>3, <1>4, <1>10, InEmpty DEF PathInv
  <1>11. QED
    <2>1. ASSUME NEW l \in Links, Disconnect(l)
          PROVE  \A k \in Links : queue'[k] = queue[k] \/ queue'[k] = <<>>
      BY <2>1 DEF Disconnect, TypeOK
    <2>2. QED
      BY <1>6, <1>7, <1>8, <1>9, <1>10, <2>1, Actions DEF Refuse, Connect, Disconnect, vars, work

-----------------------------------------------------------------------------
(* What the listeners have.                                                *)

\* A message read from a link is handled by the listener from then on.
LEMMA ReceivedIsHandled ==
    ASSUME TypeOK, PathInv, [Next]_vars, NEW l \in Links, NEW m, Receive(l), m = Head(queue[l])
    PROVE  /\ m \in Messages /\ In(m, queue[l]) /\ Handles(l[1], Known(m))'
           /\ \A k \in Links : \A x : In(x, queue[k]) => In(x, queue'[k]) \/ (k = l /\ x = m)
  <1> DEFINE stamped == [m EXCEPT !.path = Stamped(@, l[1])]
             new == <<l[1], l, stamped, "intercept">>
  <1>1. /\ queue[l] # <<>> /\ queue' = [queue EXCEPT ![l] = Tail(@)]
        /\ IF Looped(m.path, l[1]) THEN tasks' = tasks ELSE tasks' = tasks \cup {new}
    BY DEF Receive
  <1>2. m \in Messages /\ \A x : In(x, queue[l]) <=> x = m \/ In(x, queue'[l])
    BY <1>1, InTail DEF TypeOK
  <1>3. \A k \in Links : k # l => queue'[k] = queue[k]
    BY <1>1 DEF TypeOK
  <1>4. CASE Looped(m.path, l[1])
    <2>1. Published(l[1], Known(m))
      BY <1>2, <1>4 DEF PathInv, Accounted, Looped
    <2>2. Published(l[1], Known(m))'
      <3>1. PICK s : s = Known(m)
        OBVIOUS
      <3>2. Published(l[1], s)'
        BY <2>1, <3>1, PublishedStep, Ends
      <3>3. QED
        BY <3>1, <3>2
    <2>3. QED
      BY <1>2, <1>3, <2>2 DEF Handles
  <1>5. CASE tasks' = tasks \cup {new}
    <2>1. new \in tasks' /\ new[1] = l[1] /\ new[3] = stamped
      BY <1>5
    <2>2. Known(stamped) = Known(m)
      BY <1>2, Restamped, Ends DEF Known
    <2> HIDE DEF new, stamped
    <2>3. Handles(l[1], Known(m))'
      BY <2>1, <2>2 DEF Handles
    <2>4. QED
      BY <1>2, <1>3, <2>3
  <1>6. QED
    BY <1>1, <1>4, <1>5

LEMMA ListenersStep == MeshInv /\ [Next]_vars => ListenersInv'
  <1> SUFFICES ASSUME MeshInv, [Next]_vars PROVE ListenersInv'
    OBVIOUS
  <1> TypeOK /\ TypeOK' /\ PathInv /\ ListenersInv
    BY TypeStep DEF MeshInv
  \* What a listener had it keeps, if no queue loses a message that is neither
  \* handled nor missed.
  <1>1. ASSUME NEW l \in Links, NEW s \in seen[l[2]], s[1] \in Carries[l], s \notin missed',
               \A m \in Messages : In(m, queue[l]) =>
                 In(m, queue'[l]) \/ Handles(l[1], Known(m))' \/ Known(m) \in missed'
        PROVE  Has(l, s)'
    <2>1. Has(l, s)
      BY <1>1, Histories DEF ListenersInv
    <2>2. CASE Handles(l[1], s)
      BY <1>1, <2>2, HandlesStep, Ends DEF Has
    <2>3. CASE \E m \in Messages : In(m, queue[l]) /\ Known(m) = s
      BY <1>1, <2>3 DEF Has
    <2>4. QED
      BY <2>1, <2>2, <2>3 DEF Has
  <1>2. ASSUME UNCHANGED seen,
               \A l \in Links : \A m \in Messages : In(m, queue[l]) =>
                 In(m, queue'[l]) \/ Handles(l[1], Known(m))' \/ Known(m) \in missed'
        PROVE  ListenersInv'
    BY <1>1, <1>2 DEF ListenersInv
  <1>3. ASSUME NEW n \in Nodes, NEW by \in Callers, NEW m \in Messages, Broadcast(n, by, m)
        PROVE  ListenersInv'
    <2>1. ASSUME NEW l \in Links, NEW x, In(x, queue[l]) PROVE In(x, queue'[l])
      <3>1. queue'[l] = queue[l] \/ queue'[l] = Append(queue[l], m)
        BY <1>3 DEF Broadcast, Enqueue
      <3>2. queue[l] \in Seq(Messages)
        BY DEF TypeOK
      <3>3. In(x, queue[l]) => In(x, Append(queue[l], m))
        BY <3>2, InAppended
      <3>4. QED
        BY <2>1, <3>1, <3>3
    <2>2. seen' = [seen EXCEPT ![n] = @ \cup {Known(m)}]
      BY <1>3 DEF Broadcast, Known
    <2> SUFFICES ASSUME NEW l \in Links, NEW s \in seen'[l[2]] \ missed', s[1] \in Carries[l]
                 PROVE  Has(l, s)'
      BY DEF ListenersInv
    <2>3. CASE s \in seen[l[2]]
      BY <1>1, <2>1, <2>3
    <2>4. CASE s \notin seen[l[2]]
      <3>1. l[2] = n /\ s = Known(m)
        BY <2>2, <2>4, Ends DEF TypeOK
      <3>2. m.kind \in Carries[l]
        BY <3>1 DEF Known
      <3>3. l \in up /\ Len(queue[l]) < Capacity
        <4>1. s = <<m.kind, m.id>> /\ s \notin missed'
          BY <3>1 DEF Known
        <4>2. QED
          BY <1>3, <3>1, <3>2, <4>1 DEF Broadcast, Misses
      <3>4. queue'[l] = Append(queue[l], m)
        BY <1>3, <3>1, <3>2, <3>3 DEF Broadcast, Enqueue
      <3>5. In(m, queue'[l])
        BY <3>4, InAppended DEF TypeOK
      <3>6. QED
        BY <3>1, <3>5 DEF Has
    <2>5. QED
      BY <2>3, <2>4
  <1>4. ASSUME NEW l \in Links, Receive(l) PROVE ListenersInv'
    <2>1. PICK m : m = Head(queue[l])
      OBVIOUS
    <2>2. UNCHANGED seen
      BY <1>4 DEF Receive
    <2>3. QED
      BY <1>2, <1>4, <2>1, <2>2, ReceivedIsHandled
  <1>5. ASSUME NEW l \in Links, Disconnect(l) PROVE ListenersInv'
    <2>1. /\ UNCHANGED seen /\ \A k \in Links : k # l => queue'[k] = queue[k]
          /\ missed' = missed \cup {Known(m) : m \in Range(queue[l])}
      BY <1>5 DEF Disconnect, TypeOK, Known
    <2>2. ASSUME NEW m, In(m, queue[l]) PROVE Known(m) \in missed'
      <3>1. queue[l] \in Seq(Messages)
        BY DEF TypeOK
      <3>2. m \in Range(queue[l])
        BY <2>2, <3>1 DEF In, Range
      <3>3. QED
        BY <2>1, <3>2
    <2>3. QED
      BY <1>2, <2>1, <2>2
  <1>6. CASE UNCHANGED <<queue, seen>>
    BY <1>2, <1>6
  <1>7. QED
    BY <1>3, <1>4, <1>5, <1>6, Actions DEF Intercept, Refuse, Connect, Write, Mention, vars, work

-----------------------------------------------------------------------------
(* The registries.                                                         *)

\* What is on its way after a step was before, or is one of these.
LEMMA InterceptMoves ==
    ASSUME TypeOK, NEW n \in Nodes, NEW by \in Callers, NEW m \in Messages, Intercept(n, by, m)
    PROVE  /\ OnItsWay(m)
           /\ \A x : OnItsWay(x)' => \/ OnItsWay(x) \/ x = [m EXCEPT !.path = Stamped(@, n)]
                                     \/ x = CopyOf(m)
  <1> DEFINE stamped == [m EXCEPT !.path = Stamped(@, n)]
             sent == <<n, by, stamped, "broadcast">>
             spawned == <<n, <<"spawned">>, CopyOf(m), "intercept">>
  <1>1. /\ <<n, by, m, "intercept">> \in tasks /\ UNCHANGED queue
        /\ \A t \in tasks' : t \in tasks \/ t = sent \/ (m.kind = "forum" /\ t = spawned)
    BY InterceptSets
  <1>2. <<n, by, m, "intercept">>[3] = m /\ sent[3] = stamped /\ spawned[3] = CopyOf(m)
    OBVIOUS
  <1>3. OnItsWay(m)
    BY <1>1, <1>2 DEF OnItsWay
  <1> HIDE DEF sent, spawned
  <1>4. ASSUME NEW x, OnItsWay(x)' PROVE OnItsWay(x) \/ x = stamped \/ x = CopyOf(m)
    BY <1>1, <1>2, <1>4 DEF OnItsWay
  <1>5. QED
    BY <1>3, <1>4

LEMMA BroadcastMoves ==
    ASSUME TypeOK, NEW n \in Nodes, NEW by \in Callers, NEW m \in Messages, Broadcast(n, by, m)
    PROVE  OnItsWay(m) /\ \A x : OnItsWay(x)' => OnItsWay(x)
  <1>1. <<n, by, m, "broadcast">> \in tasks /\ tasks' \subseteq tasks
    BY DEF Broadcast
  <1>2. OnItsWay(m)
    <2>1. <<n, by, m, "broadcast">>[3] = m
      OBVIOUS
    <2>2. QED
      BY <1>1, <2>1 DEF OnItsWay
  <1>3. ASSUME NEW x, NEW l \in Links, In(x, queue'[l]) PROVE In(x, queue[l]) \/ x = m
    <2>1. queue'[l] = queue[l] \/ queue'[l] = Append(queue[l], m)
      BY DEF Broadcast, Enqueue
    <2>2. queue[l] \in Seq(Messages)
      BY DEF TypeOK
    <2>3. QED
      BY <1>3, <2>1, <2>2, InAppended
  <1>4. QED
    BY <1>1, <1>2, <1>3 DEF OnItsWay

LEMMA ReceiveMoves ==
    ASSUME TypeOK, NEW l \in Links, NEW m, Receive(l), m = Head(queue[l])
    PROVE  /\ m \in Messages /\ OnItsWay(m)
           /\ \A x : OnItsWay(x)' => OnItsWay(x) \/ x = [m EXCEPT !.path = Stamped(@, l[1])]
  <1> DEFINE stamped == [m EXCEPT !.path = Stamped(@, l[1])]
             new == <<l[1], l, stamped, "intercept">>
  <1>1. /\ queue[l] # <<>> /\ queue' = [queue EXCEPT ![l] = Tail(@)]
        /\ tasks' \subseteq tasks \cup {new}
    BY DEF Receive
  <1>2. m \in Messages /\ \A x : In(x, queue[l]) <=> x = m \/ In(x, queue'[l])
    BY <1>1, InTail DEF TypeOK
  <1>3. \A k \in Links : \A x : In(x, queue'[k]) => In(x, queue[k])
    BY <1>1, <1>2 DEF TypeOK
  <1>4. new[3] = stamped
    OBVIOUS
  <1> HIDE DEF new, stamped
  <1>5. ASSUME NEW x, OnItsWay(x)' PROVE OnItsWay(x) \/ x = stamped
    BY <1>1, <1>3, <1>4, <1>5 DEF OnItsWay
  <1>6. QED
    BY <1>2, <1>5 DEF OnItsWay, stamped

LEMMA LinkMoves ==
    ASSUME TypeOK, NEW l \in Links, Connect(l) \/ Disconnect(l)
    PROVE  \A x : OnItsWay(x)' => OnItsWay(x)
  <1>1. UNCHANGED tasks /\ \A k \in Links : queue'[k] = queue[k] \/ queue'[k] = <<>>
    BY DEF Connect, Disconnect, TypeOK
  <1>2. QED
    BY <1>1, InEmpty DEF OnItsWay

\* While no change is missed, a daemon that takes an event in has it.
LEMMA TakenIn ==
    ASSUME TypeOK, NEW n \in Nodes, NEW m \in Messages, TakeIn(n, m), NoChangeMissed'
    PROVE  /\ \A k \in Nodes : k # n \/ m.kind # "registry" => registry'[k] = registry[k]
           /\ m.kind = "registry" =>
                \A x \in Names : registry'[n][x] = IF x = Target(m) THEN m.value ELSE registry[n][x]
  <1>1. registry[n] \in [Names -> Topics \cup {None}]
    BY DEF TypeOK
  <1>2. CASE m.kind = "registry"
    <2>1. registry' = [registry EXCEPT ![n] = Apply(@, m)]
      <3>1. ~ Misses(m)
        <4>1. SUFFICES ASSUME Misses(m) PROVE FALSE
          OBVIOUS
        <4>2. Known(m) \in missed' /\ Known(m)[1] = "registry"
          BY <1>2, <4>1, KnownIs DEF Misses, Known
        <4>3. QED
          BY <4>2 DEF NoChangeMissed
      <3>2. QED
        BY <1>2, <3>1 DEF TakeIn
    <2>2. registry'[n] = Apply(registry[n], m) /\ \A k \in Nodes : k # n => registry'[k] = registry[k]
      BY <2>1 DEF TypeOK
    <2>3. QED
      BY <1>1, <1>2, <2>2, AppliedRow
  <1>3. CASE m.kind # "registry"
    BY <1>3 DEF TakeIn
  <1>4. QED
    BY <1>2, <1>3

LEMMA RegistryStep == MeshInv /\ [Next]_vars => RegistryInv'
  <1> SUFFICES ASSUME MeshInv, [Next]_vars, calm', NoChangeMissed', NEW x \in Names, Trim[x] = x
               PROVE  \E k \in 0 .. published', value \in Topics \cup {None} : Agreed(x, k, value)'
    BY DEF RegistryInv
  <1> TypeOK /\ TypeOK' /\ SeenInv /\ PathInv /\ RegistryInv
    BY TypeStep DEF MeshInv
  <1>1. calm /\ NoChangeMissed
    BY Histories DEF NoChangeMissed
  <1>2. PICK k \in 0 .. published, value \in Topics \cup {None} : Agreed(x, k, value)
    BY <1>1 DEF RegistryInv
  <1>3. published \in Nat /\ published' \in Nat /\ k \in 0 .. published'
    BY Histories DEF TypeOK
  \* A step that moves what is under way on, and takes it in where it says so.
  <1>4. ASSUME \A m \in Messages : OnItsWay(m)' /\ m.kind = "registry" =>
                 (Target(m) = x \/ m.id = Id(k) => IsLast(m, x, k, value)),
               \A n \in Nodes : registry'[n][x] \in {registry[n][x], value},
               \A n \in Nodes : Applied(n, k)' => Applied(n, k) \/ registry'[n][x] = value
        PROVE  \E i \in 0 .. published', v \in Topics \cup {None} : Agreed(x, i, v)'
    <2>1. k = 0 => \A n \in Nodes : registry'[n][x] = value
      BY <1>2, <1>4 DEF Agreed
    <2>2. k # 0 => \E n \in Nodes : Handles(n, <<"registry", Id(k)>>)'
      <3> DEFINE s == <<"registry", Id(k)>>
      <3>1. s[1] = "registry"
        OBVIOUS
      <3> HIDE DEF s
      <3>2. s \notin missed'
        BY <3>1 DEF NoChangeMissed
      <3>3. ASSUME NEW n \in Nodes, Handles(n, s) PROVE Handles(n, s)'
        BY <3>2, <3>3, HandlesStep
      <3>4. QED
        BY <1>2, <3>3 DEF Agreed, s
    <2>3. \A n \in Nodes : Applied(n, k)' => registry'[n][x] = value
      BY <1>2, <1>4 DEF Agreed
    <2>4. Agreed(x, k, value)'
      BY <1>4, <2>1, <2>2, <2>3 DEF Agreed
    <2>5. QED
      BY <1>3, <2>4
  <1>5. ASSUME NEW n \in Nodes, NEW by \in Callers, NEW m \in Messages, Intercept(n, by, m)
        PROVE  \E i \in 0 .. published', v \in Topics \cup {None} : Agreed(x, i, v)'
    <2> DEFINE stamped == [m EXCEPT !.path = Stamped(@, n)]
               sent == <<n, by, stamped, "broadcast">>
               spawned == <<n, <<"spawned">>, CopyOf(m), "intercept">>
    <2>1. m.kind = "registry" /\ (Target(m) = x \/ m.id = Id(k)) => IsLast(m, x, k, value)
      BY <1>2, <1>5, InterceptMoves DEF Agreed
    <2>2. /\ stamped.kind = m.kind /\ stamped.id = m.id /\ stamped.value = m.value
          /\ Target(stamped) = Target(m) /\ CopyOf(m).kind # "registry"
      <3>1. /\ stamped.kind = m.kind /\ stamped.id = m.id /\ stamped.value = m.value
            /\ stamped.name = m.name
        BY Restamped
      <3>2. Target(stamped) = Target(m)
        BY <3>1 DEF Target
      <3>3. CopyOf(m).kind # "registry"
        BY Copied
      <3>4. QED
        BY <3>1, <3>2, <3>3
    <2>3. \A y \in Messages : OnItsWay(y)' /\ y.kind = "registry" =>
            (Target(y) = x \/ y.id = Id(k) => IsLast(y, x, k, value))
      <3> SUFFICES ASSUME NEW y \in Messages, OnItsWay(y)', y.kind = "registry",
                          Target(y) = x \/ y.id = Id(k)
                   PROVE  IsLast(y, x, k, value)
        OBVIOUS
      <3>1. OnItsWay(y) \/ y = stamped
        BY <1>5, <2>2, InterceptMoves
      <3>2. CASE OnItsWay(y)
        BY <1>2, <3>2 DEF Agreed
      <3>3. CASE y = stamped
        BY <2>1, <2>2, <3>3 DEF IsLast
      <3>4. QED
        BY <3>1, <3>2, <3>3
    <2>4. TakeIn(n, m)
      BY <1>5 DEF Intercept
    <2>5. \A p \in Nodes : registry'[p][x] \in {registry[p][x], value}
      BY <2>1, <2>4, TakenIn DEF IsLast
    <2>6. ASSUME m.kind = "registry", m.id = Id(k) PROVE registry'[n][x] = value
      BY <2>1, <2>4, <2>6, TakenIn DEF IsLast
    <2>7. ASSUME NEW p \in Nodes, Applied(p, k)' PROVE Applied(p, k) \/ registry'[p][x] = value
      <3>1. UNCHANGED seen /\ \A t \in tasks' : t \in tasks \/ t = sent \/ t = spawned
        BY <1>5, InterceptSets
      <3>2. CASE <<"registry", Id(k)>> \in seen'[p]
        BY <3>1, <3>2 DEF Applied
      <3>3. CASE \E t \in tasks' : t[1] = p /\ Known(t[3]) = <<"registry", Id(k)>> /\ t[4] = "broadcast"
        <4>1. PICK t \in tasks' : t[1] = p /\ Known(t[3]) = <<"registry", Id(k)>> /\ t[4] = "broadcast"
          BY <3>3
        <4>2. spawned[4] = "intercept" /\ sent[1] = n /\ sent[3] = stamped
          OBVIOUS
        <4> HIDE DEF spawned, sent
        <4>3. CASE t \in tasks
          BY <4>1, <4>3 DEF Applied
        <4>4. CASE t = sent
          <5>1. stamped.kind = "registry" /\ stamped.id = Id(k) /\ p = n
            BY <4>1, <4>2, <4>4 DEF Known
          <5>2. QED
            BY <2>2, <2>6, <5>1
        <4>5. QED
          BY <3>1, <4>1, <4>2, <4>3, <4>4
      <3>4. QED
        BY <2>7, <3>2, <3>3 DEF Applied
    <2>8. QED
      BY <1>4, <2>3, <2>5, <2>7
  <1>6. ASSUME NEW n \in Nodes, NEW by \in Callers, NEW m \in Messages, Broadcast(n, by, m)
        PROVE  \E i \in 0 .. published', v \in Topics \cup {None} : Agreed(x, i, v)'
    <2>1. /\ <<n, by, m, "broadcast">> \in tasks /\ tasks' \subseteq tasks /\ UNCHANGED registry
          /\ seen' = [seen EXCEPT ![n] = @ \cup {Known(m)}]
      BY <1>6 DEF Broadcast, Known
    <2>2. ASSUME NEW p \in Nodes, Applied(p, k)' PROVE Applied(p, k)
      <3>1. CASE \E t \in tasks' : t[1] = p /\ Known(t[3]) = <<"registry", Id(k)>> /\ t[4] = "broadcast"
        BY <2>1, <3>1 DEF Applied
      <3>2. CASE <<"registry", Id(k)>> \in seen[p]
        BY <3>2 DEF Applied
      <3>3. CASE <<"registry", Id(k)>> \in seen'[p] /\ <<"registry", Id(k)>> \notin seen[p]
        <4> DEFINE t == <<n, by, m, "broadcast">>
        <4>1. p = n /\ Known(m) = <<"registry", Id(k)>>
          BY <2>1, <3>3 DEF TypeOK
        <4>2. t \in tasks /\ t[1] = n /\ t[3] = m /\ t[4] = "broadcast"
          BY <2>1
        <4> HIDE DEF t
        <4>3. QED
          BY <4>1, <4>2 DEF Applied
      <3>4. QED
        BY <2>2, <3>1, <3>2, <3>3 DEF Applied
    <2>3. \A y \in Messages : OnItsWay(y)' /\ y.kind = "registry" =>
            (Target(y) = x \/ y.id = Id(k) => IsLast(y, x, k, value))
      BY <1>2, <1>6, BroadcastMoves DEF Agreed
    <2>4. QED
      BY <1>4, <2>1, <2>2, <2>3
  <1>7. ASSUME UNCHANGED <<registry, seen>>,
               \A t \in tasks' : t \in tasks \/ t[4] = "intercept",
               \A y \in Messages : OnItsWay(y)' /\ y.kind = "registry" =>
                 \E z \in Messages : /\ OnItsWay(z) /\ z.kind = "registry"
                                    /\ y.id = z.id /\ y.value = z.value /\ Target(y) = Target(z)
        PROVE  \E i \in 0 .. published', v \in Topics \cup {None} : Agreed(x, i, v)'
    <2>1. \A n \in Nodes : Applied(n, k)' => Applied(n, k)
      BY <1>7 DEF Applied
    <2>2. \A y \in Messages : OnItsWay(y)' /\ y.kind = "registry" =>
            (Target(y) = x \/ y.id = Id(k) => IsLast(y, x, k, value))
      BY <1>2, <1>7 DEF Agreed, IsLast
    <2>3. QED
      BY <1>4, <1>7, <2>1, <2>2
  <1>8. ASSUME NEW l \in Links, Receive(l)
        PROVE  \E i \in 0 .. published', v \in Topics \cup {None} : Agreed(x, i, v)'
    <2>1. PICK m : m = Head(queue[l])
      OBVIOUS
    <2> DEFINE stamped == [m EXCEPT !.path = Stamped(@, l[1])]
    <2>2. m \in Messages /\ OnItsWay(m)
      BY <1>8, <2>1, ReceiveMoves
    <2>3. /\ stamped.kind = m.kind /\ stamped.id = m.id /\ stamped.value = m.value
          /\ Target(stamped) = Target(m)
      BY <2>2, Restamped, Ends DEF Target
    <2>4. \A y : OnItsWay(y)' => OnItsWay(y) \/ y = stamped
      BY <1>8, <2>1, ReceiveMoves
    <2> HIDE DEF stamped
    <2>5. \A y \in Messages : OnItsWay(y)' /\ y.kind = "registry" =>
            \E z \in Messages : /\ OnItsWay(z) /\ z.kind = "registry"
                               /\ y.id = z.id /\ y.value = z.value /\ Target(y) = Target(z)
      BY <2>2, <2>3, <2>4
    <2>6. UNCHANGED <<registry, seen>> /\ \A t \in tasks' : t \in tasks \/ t[4] = "intercept"
      BY <1>8 DEF Receive
    <2>7. QED
      BY <1>7, <2>5, <2>6
  \* A write at rest starts anew: nobody has its number.
  <1>9. ASSUME NEW n \in Nodes, Write(n)
        PROVE  \E i \in 0 .. published', v \in Topics \cup {None} : Agreed(x, i, v)'
    <2>1. PICK i : i = published'
      OBVIOUS
    <2>2. i = published + 1 /\ i \in 1 .. MaxMessages /\ UNCHANGED <<queue, seen>>
      BY <1>9, <2>1 DEF Write, TypeOK
    <2>3. PICK name \in Names, v \in Topics \cup {None} :
            /\ registry' = [registry EXCEPT ![n][name] = v]
            /\ tasks' = tasks \cup {<<n, <<"api">>, Message("registry", i, name, v), "intercept">>}
      BY <1>9, <2>1 DEF Write
    <2>4. Quiet
      BY <1>9 DEF Write
    <2> DEFINE new == Message("registry", i, name, v)
               task == <<n, <<"api">>, new, "intercept">>
    <2>5. tasks' = {task} /\ \A l \in Links : queue'[l] = <<>>
      BY <2>2, <2>3, <2>4 DEF Quiet
    <2>6. new.kind = "registry" /\ new.id = Id(i) /\ new.name = name /\ new.value = v
      BY <2>2, Fresh DEF Kinds
    <2>7. task[1] = n /\ task[3] = new /\ task[4] = "intercept"
      OBVIOUS
    <2> HIDE DEF task, new
    <2>8. \A y : OnItsWay(y)' => y = new
      BY <2>5, <2>7, InEmpty DEF OnItsWay
    <2>9. i # k /\ Id(i) # Id(k) /\ i # 0 /\ i \in 0 .. published'
      <3>1. Id(i).n = i /\ Id(k).n = k
        BY DEF Id
      <3>2. i # k /\ i # 0 /\ i \in 0 .. published'
        BY <1>3, <2>1, <2>2
      <3>3. QED
        BY <3>1, <3>2
    <2>10. CASE Target(new) = x
      <3>1. Handles(n, <<"registry", Id(i)>>)'
        <4>1. Known(new) = <<"registry", Id(i)>>
          BY <2>6 DEF Known
        <4>2. QED
          BY <2>5, <2>7, <4>1 DEF Handles
      <3>2. ASSUME NEW p \in Nodes PROVE ~Applied(p, i)'
        <4> DEFINE s == <<"registry", Id(i)>>
        <4>1. s[2].n = i
          BY DEF Id
        <4> HIDE DEF s
        <4>2. s \notin seen'[p]
          BY <1>3, <2>2, <4>1 DEF SeenInv
        <4>3. QED
          BY <2>5, <2>7, <4>2 DEF Applied, s
      <3>3. IsLast(new, x, i, v)
        BY <2>6, <2>10 DEF IsLast
      <3>4. Agreed(x, i, v)'
        BY <2>8, <2>9, <3>1, <3>2, <3>3 DEF Agreed
      <3>5. QED
        BY <2>9, <3>4
    <2>11. CASE Target(new) # x
      <3>1. name # x
        BY <2>6, <2>11 DEF Target
      <3>2. \A p \in Nodes : registry'[p][x] = registry[p][x]
        BY <2>3, <3>1 DEF TypeOK
      <3>3. \A p \in Nodes : Applied(p, k)' => Applied(p, k)
        BY <2>2, <2>5, <2>7 DEF Applied
      <3>4. \A y \in Messages : OnItsWay(y)' /\ y.kind = "registry" =>
              (Target(y) = x \/ y.id = Id(k) => IsLast(y, x, k, value))
        BY <2>6, <2>8, <2>9, <2>11
      <3>5. QED
        BY <1>4, <3>2, <3>3, <3>4
    <2>12. QED
      BY <2>10, <2>11
  <1>10. ASSUME NEW n \in Nodes, Mention(n)
         PROVE  \E i \in 0 .. published', v \in Topics \cup {None} : Agreed(x, i, v)'
    <2>1. PICK i : i = published'
      OBVIOUS
    <2> DEFINE new == Message("forum", i, None, None)
               task == <<n, <<"api">>, new, "intercept">>
    <2>2. i \in 1 .. MaxMessages /\ UNCHANGED <<registry, queue, seen>> /\ tasks' = tasks \cup {task}
      BY <1>10, <2>1 DEF Mention, TypeOK
    <2>3. new.kind = "forum" /\ task[3] = new /\ task[4] = "intercept"
      BY <2>2, Fresh DEF Kinds
    <2> HIDE DEF new, task
    <2>4. \A y : OnItsWay(y)' => OnItsWay(y) \/ y = new
      BY <2>2, <2>3 DEF OnItsWay
    <2>5. QED
      BY <1>7, <2>2, <2>3, <2>4
  <1>11. ASSUME NEW l \in Links, Connect(l) \/ Disconnect(l)
         PROVE  \E i \in 0 .. published', v \in Topics \cup {None} : Agreed(x, i, v)'
    <2>1. UNCHANGED <<registry, tasks, seen>>
      BY <1>11 DEF Connect, Disconnect
    <2>2. QED
      BY <1>7, <1>11, <2>1, LinkMoves
  <1>12. CASE UNCHANGED <<registry, queue, seen>> /\ tasks' \subseteq tasks
    <2>1. \A y : OnItsWay(y)' => OnItsWay(y)
      BY <1>12 DEF OnItsWay
    <2>2. QED
      BY <1>7, <1>12, <2>1
  <1>13. QED
    BY <1>5, <1>6, <1>8, <1>9, <1>10, <1>11, <1>12, Actions DEF Refuse, vars, work

LEMMA MeshInvariant == Spec => []MeshInv
  <1>1. MeshInv /\ [Next]_vars => MeshInv'
    BY TypeStep, SeenStep, PathStep, ListenersStep, RegistryStep DEF MeshInv
  <1>2. QED
    BY InitMesh, <1>1, PTL DEF Spec

-----------------------------------------------------------------------------
(* The theorems.                                                           *)

LEMMA Rest ==
    ASSUME Quiet, NEW n, NEW s, Handles(n, s)
    PROVE  Published(n, s)
  BY DEF Quiet, Handles

\* In every mesh of daemons, whatever its links and their patterns, the faults and
\* the agents each daemon knows: forwarded_by names no daemon twice, and the loop
\* check stops a message only where it, or what it is a copy of, has been, so that
\* once the mesh is at rest nothing is missing but what was lost or refused.
\* (peer.rs:88-117, message.rs:109-127, 243)
THEOREM ForwardingIsComplete == Spec => []ForwardingInv
  <1>1. ASSUME TypeOK, PathInv PROVE PathsAreSimple
    <2>1. ASSUME NEW t \in tasks PROVE IsInjective(t[3].path)
      BY <1>1 DEF PathInv, Accounted
    <2>2. ASSUME NEW l \in Links, NEW i \in 1 .. Capacity, i <= Len(queue[l])
          PROVE  IsInjective(queue[l][i].path)
      <3>1. queue[l] \in Seq(Messages) /\ Len(queue[l]) \in Nat
        BY <1>1 DEF TypeOK
      <3>2. i \in 1 .. Len(queue[l])
        BY <2>2, <3>1
      <3>3. queue[l][i] \in Messages /\ In(queue[l][i], queue[l])
        BY <3>1, <3>2 DEF In
      <3>4. QED
        BY <1>1, <3>3 DEF PathInv, Accounted
    <2>3. QED
      BY <2>1, <2>2 DEF PathsAreSimple
  <1>2. ASSUME TypeOK, ListenersInv PROVE NothingIsStopped
    <2> SUFFICES ASSUME Quiet, NEW l \in Links, NEW s \in seen[l[2]] \ missed, s[1] \in Carries[l]
                 PROVE  Published(l[1], s)
      BY DEF NothingIsStopped, Published
    <2>1. \A m : ~In(m, queue[l])
      BY InEmpty DEF Quiet
    <2>2. Handles(l[1], s)
      BY <1>2, <2>1 DEF ListenersInv, Has
    <2>3. QED
      BY <2>2, Rest
  <1>3. MeshInv => ForwardingInv
    BY <1>1, <1>2 DEF MeshInv, ForwardingInv
  <1>4. QED
    BY <1>3, MeshInvariant, PTL

\* If the registry's events get from every daemon to every other along the links,
\* all daemons have the same mapping of each name without blanks around it whenever
\* the mesh is at rest, as long as each change was made at rest and none was lost,
\* refused or not taken in. (docs/cli.md:175)
THEOREM MappingsSync == Connected => (Spec => []RegistriesAgree)
  <1> SUFFICES ASSUME Connected PROVE Spec => []RegistriesAgree
    OBVIOUS
  <1>1. MeshInv => RegistriesAgree
    <2> SUFFICES ASSUME MeshInv, Quiet, calm, NoChangeMissed,
                        NEW m \in Nodes, NEW n \in Nodes, NEW x \in Names, Trim[x] = x
                 PROVE  registry[m][x] = registry[n][x]
      BY DEF RegistriesAgree
    <2> TypeOK /\ ListenersInv
      BY DEF MeshInv
    <2>1. PICK k \in 0 .. published, value \in Topics \cup {None} : Agreed(x, k, value)
      BY DEF MeshInv, RegistryInv
    <2>2. CASE k = 0
      BY <2>1, <2>2 DEF Agreed
    <2>3. CASE k # 0
      <3> DEFINE s == <<"registry", Id(k)>>
                 S == {p \in Nodes : s \in seen[p]}
      <3>1. s[1] = "registry" /\ s \notin missed
        <4>1. s[1] = "registry"
          OBVIOUS
        <4> HIDE DEF s
        <4>2. QED
          BY <4>1 DEF NoChangeMissed
      <3>2. ASSUME NEW p \in Nodes, Handles(p, s) PROVE p \in S
        BY <3>1, <3>2, Rest DEF Published, HadOriginal
      <3>3. S # {}
        BY <2>1, <2>3, <3>2 DEF Agreed
      <3>4. ASSUME NEW l \in Links, l[2] \in S, "registry" \in Carries[l] PROVE l[1] \in S
        <4>1. \A y : ~In(y, queue[l])
          BY InEmpty DEF Quiet
        <4>2. s \in seen[l[2]] \ missed /\ s[1] \in Carries[l]
          BY <3>1, <3>4
        <4> HIDE DEF s
        <4>3. Handles(l[1], s)
          BY <4>1, <4>2 DEF ListenersInv, Has
        <4>4. QED
          BY <3>2, <4>3, Ends
      <3>5. S = Nodes
        BY <3>3, <3>4 DEF Connected
      <3>6. Applied(m, k) /\ Applied(n, k)
        BY <3>5 DEF Applied
      <3>7. QED
        BY <2>1, <3>6 DEF Agreed
    <2>4. QED
      BY <2>2, <2>3
  <1>2. QED
    BY <1>1, MeshInvariant, PTL
=============================================================================
