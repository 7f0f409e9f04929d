---------------------------------- MODULE MCReady ----------------------------------
(***************************************************************************)
(* A small cluster for TLC: --attempts below, at and above zero.           *)
(***************************************************************************)
EXTENDS Ready

MCAttemptCounts == {-1, 0, 1, 3}

================================================================================
