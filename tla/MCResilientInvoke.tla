-------------------------- MODULE MCResilientInvoke --------------------------
(***************************************************************************)
(* Two concurrent requests are interchangeable.                            *)
(***************************************************************************)
EXTENDS ResilientInvoke, TLC

Symmetry == Permutations(Requests)
=============================================================================
