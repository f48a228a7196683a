------------------------------ MODULE MCCmdMgr ------------------------------
(* Small instances of CmdMgr. *)
EXTENDS CmdMgr, TLC

CONSTANTS p1, p2, e1, e2, e3, e4

MCPids == {p1, p2}
MCEvs == {e1, e2, e3}
MCEvs4 == {e1, e2, e3, e4}

Periodic == [interval |-> 1, maxTimes |-> 2, scriptType |-> "PYTHON"]
Once == [interval |-> 0, maxTimes |-> 1, scriptType |-> "BASH"]
Unknown == [interval |-> 1, maxTimes |-> 2, scriptType |-> "OTHER"]

OnePeriodic == {Periodic}
TwoKinds == {Periodic, Once}
AllKinds == {Periodic, Once, Unknown}

GoodOrBad == {0, 1}

Symmetry == Permutations(MCPids) \cup Permutations(MCEvs)
=============================================================================
