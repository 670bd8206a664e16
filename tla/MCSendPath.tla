---------------------------- MODULE MCSendPath ----------------------------
(* Instances of SendPath for TLC.                                          *)
EXTENDS SendPath

MCCallers == 0..1
=============================================================================
