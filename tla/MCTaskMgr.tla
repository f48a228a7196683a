------------------------------ MODULE MCTaskMgr ------------------------------
(* Small instances of TaskMgr. *)
EXTENDS TaskMgr

CONSTANTS p1, p2, e1, e2

MCPids == {p1, p2}
MCOnePid == {p1}
MCEvs == {e1, e2}

Once == {[interval |-> 0, maxTimes |-> 1, scriptType |-> "BASH"]}
Periodic == {[interval |-> 1, maxTimes |-> 2, scriptType |-> "PYTHON"]}

Symmetry == Permutations(MCPids) \cup Permutations(MCEvs)
=============================================================================
