-------------------------- MODULE MCConfigService --------------------------
(***************************************************************************)
(* The handlers of a kind are interchangeable.                             *)
(***************************************************************************)
EXTENDS ConfigService, TLC

Symmetry == Permutations(Publishers) \cup Permutations(Getters)
=============================================================================
