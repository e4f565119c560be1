---------------------------- MODULE MCEtcdState ----------------------------
(***************************************************************************)
(* The clients are interchangeable, and so are the addresses of objects.   *)
(***************************************************************************)
EXTENDS EtcdState, TLC

Symmetry == Permutations(Clients) \cup Permutations(Objects)
=============================================================================
