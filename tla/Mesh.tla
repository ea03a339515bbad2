---- MODULE Mesh ----
(* Daemons that listen to each other (peer.rs) and keep their registry of     *)
(* named topics together by publishing its changes (handlers/named_topic.rs,  *)
(* handle_publish). A daemon publishes again what it hears, so a message goes *)
(* on from daemon to daemon; forwarded_by carries the daemons it went through *)
(* and stops it. A message in the forum that mentions an agent also makes a   *)
(* copy for the agent's inbox, at every daemon that publishes it.             *)
(* The agent registry is kept the same way, with "register" only.             *)
EXTENDS Naturals, Sequences, FiniteSets, Functions

CONSTANTS Nodes,
          Links,      \* <<listener, source>>, as --peer configures them
          Carries,    \* what the pattern of a link lets through
          Names,      \* names of topics, those with blanks around them too
          Trim,       \* a name without them; None where nothing is left
          Topics,     \* topics a name can stand for
          Capacity,   \* a subscription's queue
          MaxMessages, MaxFaults   \* bounds on what clients do and what fails

Kinds == {"registry", "forum", "copy"}
None == "none"

ASSUME MeshAssumption ==
  /\ Links \subseteq Nodes \X Nodes /\ Carries \in [Links -> SUBSET Kinds]
  /\ Trim \in [Names -> Names \cup {None}] /\ None \notin Names \cup Topics
  /\ Capacity \in Nat /\ MaxMessages \in Nat

VARIABLES
  registry,  \* table named_topics of each daemon: name -> topic
  tasks,     \* handle_publish calls under way: <<node, by, message, step>>
  queue,     \* link -> what the source sent and the listener has not read
  up,        \* links that are connected
  published, faults,
  seen,      \* history: node -> the messages it broadcast, <<kind, id>>
  missed,    \* history: the messages that a link lost, a daemon refused or a
             \* store did not take in
  calm       \* history: every write began when nothing was under way

work == <<tasks, queue, up>>
bounds == <<published, faults>>
vars == <<registry, work, bounds, seen, missed, calm>>

\* A message: its kind, its id, what it says (name and value of a change, the
\* value None to remove the name), and its forwarded_by. A client's message is
\* known by its number; a copy has an id of its own, wherever one is made: that
\* of the forum message, and the way this had come.
Message(kind, id, name, value) ==
  [kind |-> kind, id |-> [n |-> id, via |-> <<>>], name |-> name, value |-> value, path |-> <<>>]
CopyOf(m) == [m EXCEPT !.kind = "copy", !.id = [n |-> m.id.n, via |-> m.path]]
Ids == [n : 1..MaxMessages, via : Seq(Nodes)]
Messages == [kind : Kinds, id : Ids, name : Names \cup {None}, value : Topics \cup {None},
             path : Seq(Nodes)]
Callers == Links \cup {<<"api">>, <<"spawned">>}

\* The daemons have started and their links are connected.
Init ==
  /\ registry = [n \in Nodes |-> [x \in Names |-> None]]
  /\ tasks = {} /\ queue = [l \in Links |-> <<>>] /\ up = Links
  /\ published = 0 /\ faults = 0
  /\ seen = [n \in Nodes |-> {}] /\ missed = {} /\ calm = TRUE

Quiet == tasks = {} /\ \A l \in Links : queue[l] = <<>>

----
(* handle_publish.                                                            *)

Unstamped(path, n) == path
Stamped(path, n) == IF n \in Range(path) THEN path ELSE Append(path, n)

\* x-registry-action: "register" writes the row of the name, "remove" deletes
\* the row of the name without blanks.
ApplyRegister(row, m) == IF m.value = None THEN row ELSE [row EXCEPT ![m.name] = m.value]
Apply(row, m) ==
  IF m.value # None THEN [row EXCEPT ![m.name] = m.value]
  ELSE [x \in Names |-> IF x = Trim[m.name] THEN None ELSE row[x]]

Fault == faults < MaxFaults /\ faults' = faults + 1
Misses(m) == missed' = missed \cup {<<m.kind, m.id>>}

\* The registry's events are taken in; a store that fails is not asked twice,
\* and the event goes on.
TakeIn(n, m) ==
  \/ /\ registry' = IF m.kind = "registry" THEN [registry EXCEPT ![n] = Apply(@, m)] ELSE registry
     /\ UNCHANGED <<missed, faults>>
  \/ m.kind = "registry" /\ Fault /\ Misses(m) /\ UNCHANGED registry

\* A forum message that mentions an agent the daemon knows starts the publishing
\* of a copy, made before the message is stamped, marked and not looked at again.
Intercept(n, by, m) ==
  /\ <<n, by, m, "intercept">> \in tasks
  /\ TakeIn(n, m)
  /\ \E copies \in SUBSET {CopyOf(m)} :
       /\ copies # {} => m.kind = "forum"
       /\ tasks' = (tasks \ {<<n, by, m, "intercept">>})
                     \cup {<<n, by, [m EXCEPT !.path = Stamped(@, n)], "broadcast">>}
                     \cup {<<n, <<"spawned">>, copy, "intercept">> : copy \in copies}
  /\ UNCHANGED <<queue, up, published, seen, calm>>

\* A schema the message does not keep or that cannot be read, a topic that is
\* none, a trace nobody asked for: the message ends here, though the registry
\* took it in.
Refuse(n, by, m) ==
  /\ <<n, by, m, "broadcast">> \in tasks
  /\ Fault /\ Misses(m)
  /\ tasks' = tasks \ {<<n, by, m, "broadcast">>}
  /\ UNCHANGED <<registry, queue, up, published, seen, calm>>

Enqueue(q, m) == IF Len(q) < Capacity THEN Append(q, m) ELSE q

\* A full queue loses a message; which one is Subscriptions' concern.
Broadcast(n, by, m) ==
  /\ <<n, by, m, "broadcast">> \in tasks
  /\ LET out == {l \in Links : l[2] = n /\ m.kind \in Carries[l]} IN
       /\ queue' = [l \in Links |-> IF l \in out \cap up THEN Enqueue(queue[l], m) ELSE queue[l]]
       /\ IF out \subseteq up /\ \A l \in out : Len(queue[l]) < Capacity
          THEN UNCHANGED missed ELSE Misses(m)
  /\ seen' = [seen EXCEPT ![n] = @ \cup {<<m.kind, m.id>>}]
  /\ tasks' = tasks \ {<<n, by, m, "broadcast">>}
  /\ UNCHANGED <<registry, up, bounds, calm>>

----
(* The daemons' own clients.                                                  *)

\* register_named_topic, remove_named_topic: the table, then the event. The
\* table's row is that of the name as it was given.
Write(n) ==
  /\ published < MaxMessages /\ published' = published + 1
  /\ \E x \in Names, t \in Topics \cup {None} :
       /\ registry' = [registry EXCEPT ![n][x] = t]
       /\ tasks' = tasks \cup {<<n, <<"api">>, Message("registry", published', x, t), "intercept">>}
  /\ calm' = (calm /\ Quiet)
  /\ UNCHANGED <<queue, up, faults, seen, missed>>

Mention(n) ==
  /\ published < MaxMessages /\ published' = published + 1
  /\ tasks' = tasks \cup {<<n, <<"api">>, Message("forum", published', None, None), "intercept">>}
  /\ UNCHANGED <<registry, queue, up, faults, seen, missed, calm>>

----
(* run_peer_link: one message after another, each published before the next   *)
(* is read.                                                                   *)

ComesFromAfar(path, n) == Len(path) > 1
Looped(path, n) == n \in Range(path)

Connect(l) ==
  /\ l \notin up /\ up' = up \cup {l}
  /\ UNCHANGED <<registry, tasks, queue, bounds, seen, missed, calm>>

Receive(l) ==
  /\ queue[l] # <<>> /\ \A t \in tasks : t[2] # l
  /\ queue' = [queue EXCEPT ![l] = Tail(@)]
  /\ LET m == Head(queue[l]) IN
       tasks' = IF Looped(m.path, l[1]) THEN tasks
                ELSE tasks \cup {<<l[1], l, [m EXCEPT !.path = Stamped(@, l[1])], "intercept">>}
  /\ UNCHANGED <<registry, up, bounds, seen, missed, calm>>

\* The connection ends: what was sent and not read is gone; the message being
\* published is published.
Disconnect(l) ==
  /\ l \in up /\ Fault
  /\ up' = up \ {l} /\ queue' = [queue EXCEPT ![l] = <<>>]
  /\ missed' = missed \cup {<<m.kind, m.id>> : m \in Range(queue[l])}
  /\ UNCHANGED <<registry, tasks, published, seen, calm>>

Work == \/ \E t \in tasks : Intercept(t[1], t[2], t[3]) \/ Broadcast(t[1], t[2], t[3])
        \/ \E l \in Links : Receive(l)

Next == \/ Work
        \/ \E t \in tasks : Refuse(t[1], t[2], t[3])
        \/ \E n \in Nodes : Write(n) \/ Mention(n)
        \/ \E l \in Links : Connect(l) \/ Disconnect(l)

Spec == Init /\ [][Next]_vars

\* The runtime goes on with every call and every link that has something to read.
FairSpec == Spec /\ WF_vars(Work)

----
\* The state is of its types, no queue longer than its capacity.
\* (peer.rs:63, handlers/message.rs:36)
TypeOK ==
  /\ registry \in [Nodes -> [Names -> Topics \cup {None}]]
  /\ tasks \subseteq Nodes \X Callers \X Messages \X {"intercept", "broadcast"}
  /\ queue \in [Links -> Seq(Messages)] /\ \A l \in Links : Len(queue[l]) <= Capacity
  /\ up \subseteq Links /\ published \in 0..MaxMessages
  /\ seen \in [Nodes -> SUBSET (Kinds \X Ids)]
  /\ missed \subseteq Kinds \X Ids /\ calm \in BOOLEAN

\* No daemon publishes a message that went through it before: forwarded_by names
\* each daemon once, though two places write it. (peer.rs:88-117, message.rs:243)
PathsAreSimple ==
  /\ \A t \in tasks : IsInjective(t[3].path)
  /\ \A l \in Links, i \in 1..Capacity : i <= Len(queue[l]) => IsInjective(queue[l][i].path)

\* Once nothing is under way, a daemon has published whatever a daemon it
\* listens to has, unless the message was lost, refused or not taken in
\* somewhere: the loop check stops a message only where it has been. Of the
\* copies it stops those too that were made of what came this way: the daemon
\* had the forum message, and made its own copy if it knew the agent.
\* (peer.rs:88-104, message.rs:109-127)
HadOriginal(n, s) == s[1] = "copy" /\ <<"forum", [n |-> s[2].n, via |-> <<>>]>> \in seen[n]
NothingIsStopped ==
  Quiet => \A l \in Links : \A s \in seen[l[2]] \ missed :
             s[1] \in Carries[l] => s \in seen[l[1]] \/ HadOriginal(l[1], s)

\* The types, the paths, and nothing held back.
ForwardingInv == TypeOK /\ PathsAreSimple /\ NothingIsStopped

\* The registry's events get from every daemon to every other.
Connected ==
  \A S \in SUBSET Nodes :
    /\ S # {}
    /\ \A l \in Links : l[2] \in S /\ "registry" \in Carries[l] => l[1] \in S
    => S = Nodes

\* No change of a name was lost on a link, refused or not taken in.
NoChangeMissed == \A s \in missed : s[1] # "registry"

\* "mappings sync across peered daemons", as long as one is changed after the
\* other: when nothing is under way any more, all daemons have the same mapping
\* of every name without blanks around it.
\* (docs/cli.md:175, message.rs:47-84)
RegistriesAgree ==
  Quiet /\ calm /\ NoChangeMissed =>
    \A m, n \in Nodes, x \in Names : Trim[x] = x => registry[m][x] = registry[n][x]

\* The same of all names: the daemon at which one with a blank is removed removes
\* that one, the others the one without. (named_topic.rs:73, message.rs:63)
\* Not kept by the code: see README, "Statements that do not hold".
EveryNameAgrees ==
  Quiet /\ calm /\ NoChangeMissed =>
    \A m, n \in Nodes : registry[m] = registry[n]

\* And of changes made at the same time: two of them may reach two daemons in
\* different orders, and nothing mends it. (docs/cli.md:175)
\* Not kept by the code: see README, "Statements that do not hold".
RegistriesAlwaysAgree ==
  Quiet /\ NoChangeMissed =>
    \A m, n \in Nodes, x \in Names : Trim[x] = x => registry[m][x] = registry[n][x]

\* What is published is forwarded a finite number of times: the mesh comes to
\* rest. (peer.rs:88-104)
ForwardingEnds == <>[]Quiet
====
