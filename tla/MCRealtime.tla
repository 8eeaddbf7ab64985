----------------------------- MODULE MCRealtime -----------------------------
(* Small instances of Realtime: constants only.                            *)
EXTENDS Realtime, TLC

CONSTANTS h1, h2, c1, c2, s1, s2, s3, ta, tb, a1, a2, b1

MCTenantOf == a1 :> ta @@ a2 :> ta @@ b1 :> tb
=============================================================================
