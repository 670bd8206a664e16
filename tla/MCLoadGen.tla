----------------------------- MODULE MCLoadGen -----------------------------
(***************************************************************************)
(* LoadGen for TLC.  The codes stand for an ack, a rejection and any other *)
(* failure; the two workers are interchangeable.                           *)
(***************************************************************************)
EXTENDS LoadGen, TLC

MCCodes == {"OK", "RESOURCE_EXHAUSTED", "UNAVAILABLE"}
MCRefuseCodes == {0, 2, 4, 5, 6}

WorkerSymmetry == Permutations(Workers)
=============================================================================
