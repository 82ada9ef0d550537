------------------------------ MODULE MCCrdtStore ------------------------------
EXTENDS CrdtStore

MCFields == {"hypothesis", "strategy_source", "reflection_notes"}

Own    == [p \in Procs |-> p]
Shared == [p \in Procs |-> 1]

Visits  == 0 .. 2 * Iterations
MCNodes == 0 .. 2 * Cardinality(Visits)

(* Node ids that are set, for each process or for all, and those that every*)
(* visit draws                                                             *)
Configured(id) == [p \in Procs |-> [v \in Visits |-> id[p]]]
Fresh          == [p \in Procs |-> [v \in Visits |-> (p - 1) * Cardinality(Visits) + v + 1]]

Once   == [p \in Procs |-> 1]
Twice  == [p \in Procs |-> 2]
Uneven == [p \in Procs |-> IF p = 1 THEN 2 ELSE 1]

First  == [p \in Procs |-> IF p = 1 THEN 2 ELSE 0]

(* Tasks of their own under one node id, without and with a second id and  *)
(* sync; one task, without sync, with sync of both and of one; and both    *)
(* under the node ids of visits                                            *)
MCDeployments ==
    {[task |-> Own,    node |-> Configured(Shared), sync |-> {},     rounds |-> Twice],
     [task |-> Own,    node |-> Configured(Own),    sync |-> {1, 2}, rounds |-> Uneven],
     [task |-> Own,    node |-> Configured(Own),    sync |-> {2},    rounds |-> Uneven],
     [task |-> Shared, node |-> Configured(Own),    sync |-> {},     rounds |-> First],
     [task |-> Shared, node |-> Configured(Own),    sync |-> {},     rounds |-> Once],
     [task |-> Shared, node |-> Configured(Shared), sync |-> {},     rounds |-> Once],
     [task |-> Shared, node |-> Configured(Own),    sync |-> {1, 2}, rounds |-> Once],
     [task |-> Shared, node |-> Configured(Own),    sync |-> {1},    rounds |-> Once],
     [task |-> Own,    node |-> Fresh,              sync |-> {1, 2}, rounds |-> Uneven],
     [task |-> Own,    node |-> Fresh,              sync |-> {2},    rounds |-> Twice],
     [task |-> Shared, node |-> Fresh,              sync |-> {},     rounds |-> Once],
     [task |-> Shared, node |-> Fresh,              sync |-> {1, 2}, rounds |-> Once]}

Cluster == {[task |-> Own, node |-> Configured(Own), sync |-> {1, 2}, rounds |-> Once]}
================================================================================
