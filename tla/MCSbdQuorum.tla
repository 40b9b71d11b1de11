---------------------------- MODULE MCSbdQuorum ----------------------------
(* Model of SbdQuorum for TLC: four nodes, so that every node count 1..4  *)
(* and both parities are reachable; one absolute and one relative path.   *)
EXTENDS SbdQuorum, TLC

CONSTANTS n1, n2, n3, n4, devA, devRel

MCNode == {n1, n2, n3, n4}
MCPath == {devA, devRel}
MCAbsPath == {devA}

NodeSymmetry == Permutations(MCNode)
=============================================================================
