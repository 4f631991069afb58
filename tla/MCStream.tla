------------------------------ MODULE MCStream ------------------------------
(***************************************************************************)
(* Stream for TLC: nothing tells the workers, the sessions or the calls    *)
(* apart.                                                                  *)
(***************************************************************************)
EXTENDS Stream, TLC

Alike == Permutations(Workers) \cup Permutations(Sessions) \cup Permutations(Visits)
=============================================================================
