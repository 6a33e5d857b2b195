--------------------------- MODULE MCReplayServer ---------------------------
(***************************************************************************)
(* The instances of ReplayServer that TLC checks.                          *)
(***************************************************************************)
EXTENDS ReplayServer, TLC

KeySymmetry == Permutations(Key)
Symmetry == Permutations(Key) \cup Permutations(Thread)
=============================================================================
