---------------------------- MODULE MCWorkspace ----------------------------
(* A small instance of Workspace: see README, "Workspace".                 *)
EXTENDS Workspace, MigrationRunnerChecks, TLC

MCRole == [ann |-> "ORG_ADMIN", ed |-> "EDITOR", vi |-> "VIEWER"]

Request(op, actor, name, on) == [op |-> op, actor |-> actor, name |-> name, on |-> on]

MCRequests ==
  {Request("register", e, s, None) : e \in {"x", "y"}, s \in {"s"}}
    \cup {Request("project", "ann", k, None) : k \in {"QUICK", "P"}}
    \cup {Request(op, "ann", None, "QUICK") : op \in {"archive", "restore"}}
    \cup {Request("meeting", "ed", None, "P"), Request("quick", "ed", None, None),
          Request("quick", "vi", None, None), Request("recording", "ed", "key", 1),
          Request("ai", "ed", "key", 1)}

Meeting(project, begin, consent) ==
  [project |-> project, status |-> "REVIEW", start |-> begin, consent |-> consent,
   quick |-> project = "QUICK"]

\* A new organization; one with two meetings that started at the same time.
MCEarlier == {<<>>, <<Meeting("QUICK", 0, FALSE), Meeting("P", 0, TRUE)>>}

Symmetry == Permutations(Callers)
=============================================================================
