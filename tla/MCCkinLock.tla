---------------------------- MODULE MCCkinLock ----------------------------
(* Small instances of CkinLock.                                             *)
EXTENDS CkinLock, TLC

CONSTANTS c1, c2, c3, p1

Symmetry == Permutations(Client) \cup Permutations(Parent)
=============================================================================
