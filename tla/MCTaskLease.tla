---------------------------- MODULE MCTaskLease ----------------------------
(* Rows that clients post: the open task every client writes, and a row   *)
(* that arrives with a holder and no lease, as an import would write it.  *)
EXTENDS TaskLease, TLC

OpenTask == [status |-> "open", claimed_by |-> Nobody,
             lease_seconds |-> NULL, claim_expires_at |-> NULL]
Import(a, s) == [status |-> s, claimed_by |-> a,
                 lease_seconds |-> NULL, claim_expires_at |-> NULL]

OpenTasks == {OpenTask}
OpenAndImported == {OpenTask} \cup {Import(a, s) : a \in Agents, s \in Held}

AgentSymmetry == Permutations(Agents)
TaskSymmetry  == Permutations(Tasks)
============================================================================
