---------------------------- MODULE MCScreening ----------------------------
\* Screening for model checking: the loads the .cfg files choose from.
EXTENDS Screening, TLC

\* Requests are interchangeable: nothing orders or names them.
ClientSymmetry == Permutations(Clients)

\* One request at a time beside every mutation a staleness check is meant to see;
\* all requests at once beside fewer.
MCLoads ==
  {[clients |-> {p}, ops |-> {"type", "alias", "tag", "seed", "tender", "turnover"}, edits |-> 4] : p \in Clients}
    \cup {[clients |-> Clients, ops |-> {"type", "project_delete", "tender"}, edits |-> 3]}

\* Every request, and one kind of mutation.
Only(o, n) == {[clients |-> Clients, ops |-> {o}, edits |-> n]}
OnlyTypes == Only("type", 1)
OnlyAliases == Only("alias", 3)
OnlyTurnover == Only("turnover", 1)
OnlyIdle == UNION {Only(o, 1) : o \in Idle}
OnlyScope == Only("scope", 1)
OnlyProjects == Only("project", 1)
=============================================================================
