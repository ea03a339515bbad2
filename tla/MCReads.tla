------------------------------ MODULE MCReads ------------------------------
(***************************************************************************)
(* The routes, the messages, the schemas and the texts, one at a time.  In *)
(* the texts there are two agents of one owner, one named topic, and names *)
(* that begin alike.                                                       *)
(***************************************************************************)
EXTENDS Reads, TopicRoutes, Mentions

VARIABLE subject

Folded(s) == IF s = "A" THEN "a" ELSE s

TwoTopics == {<<"_forum", "x">>, <<"_agent", "x", "scratch", "y">>}
TwoPatterns == {<<"_forum", "**">>, <<"**">>}

Owner == [name |-> <<"a", "a">>, uri |-> "human://aa"]
TwoAgents == {[name |-> <<"a">>, id |-> "agent://a", owner |-> Owner],
              [name |-> <<"a", " ", "a">>, id |-> "agent://aia", owner |-> Owner]}
OneTopic == {[name |-> <<"a">>, uri |-> "topic://a"]}

Init == /\ RoutesInit /\ ReadsInit /\ MentionsInit
        /\ subject \in {"routes", "messages", "races", "schemas", "texts"}

\* What may follow an answer may as well come instead of the read.
Messages == /\ reader.at # "answered" /\ ReadsNext
            /\ UNCHANGED <<routes, mentionVars, schemas, adding, clock>>

Next ==
  /\ UNCHANGED subject
  /\ \/ subject = "routes" /\ RoutesNext /\ UNCHANGED <<readVars, mentionVars>>
     \/ subject = "messages" /\ Messages /\ reader'.races = 0
     \/ subject = "races" /\ Messages /\ Len(rows') < 3 /\ (reader'.at # "idle" => reader'.limit # 0)
     \/ subject = "schemas" /\ ReadsNext /\ UNCHANGED <<routes, mentionVars, rows, reader>>
     \/ subject = "texts" /\ MentionsNext /\ body'[1] \in {"@", "#"} /\ UNCHANGED <<routes, readVars>>

Spec == Init /\ [][Next]_<<routes, readVars, mentionVars, subject>>
=============================================================================
