------------------------------ MODULE MCDriver ------------------------------
(* Small instances of Driver: one buffer address that is on a boundary of   *)
(* 16 bytes and one that is not.                                            *)
EXTENDS Driver, TLC

Symmetry == Permutations(Clients)
=============================================================================
