----------------------------- MODULE MCLifecycle -----------------------------
(* Small instances of Lifecycle. *)
EXTENDS Lifecycle

CONSTANTS p1, p2, e1, e2, e3

MCPids == {p1, p2}
MCEvs == {e1, e2, e3}

OnePeriodic == {[interval |-> 1, maxTimes |-> 2, scriptType |-> "PYTHON"]}

GoodOrBad == {0, 1}
=============================================================================
