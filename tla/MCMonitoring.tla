---------------------------- MODULE MCMonitoring ----------------------------
(* Instances of Monitoring for TLC.                                        *)
EXTENDS Monitoring

MCPids   == {1}
MCNoWrapper == {}
MCChecks == {"health"}
=============================================================================
