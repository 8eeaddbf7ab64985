---------------------------- MODULE MCPosIngest ----------------------------
(* Small instances of PosIngest: constants only.                           *)
EXTENDS PosIngest, TLC

CONSTANTS t1, t2, k1, k2, x1, x2, d1, d2, p1, j1, m1

Symmetry == Permutations(Receipts) \cup Permutations(Skus) \cup Permutations(Products)
=============================================================================
