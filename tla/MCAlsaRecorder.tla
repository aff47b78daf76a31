--------------------------- MODULE MCAlsaRecorder ---------------------------
(***************************************************************************)
(* AlsaRecorder for TLC: its users are interchangeable.  Handles, blocks   *)
(* and capture threads are not declared so, because OneOf chooses them.    *)
(***************************************************************************)
EXTENDS AlsaRecorder, TLC

AlsaSymmetry == Permutations(Users)

=============================================================================
