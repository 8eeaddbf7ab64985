---------------------------- MODULE MCSyncQueue ----------------------------
(* Small instances of SyncQueue: constants only.                           *)
EXTENDS SyncQueue

CONSTANTS w1, w2, c1, c2, r1, r2
=============================================================================
