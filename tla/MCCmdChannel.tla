---------------------------- MODULE MCCmdChannel ----------------------------
(* Small instances of CmdChannel. *)
EXTENDS CmdChannel

CONSTANTS c1, c2

MCClients == {c1, c2}
=============================================================================
