---------------------------- MODULE MCHostAgent ----------------------------
(* Instances of HostAgent for TLC.                                         *)
EXTENDS HostAgent

MCPids   == {7, 8}
MCWrapper == {9}
MCChecks == {"health"}
=============================================================================
