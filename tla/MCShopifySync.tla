--------------------------- MODULE MCShopifySync ---------------------------
(* Small instances of ShopifySync: constants only.                         *)
EXTENDS ShopifySync

CONSTANTS a, b, x1, x2, o1, o2, k1, k2

\* The second product may be another store's.
MCOneStore == [x \in Products |-> a]
MCTwoStores == [x \in Products |-> IF x = x1 THEN a ELSE b]
MCProductOf == [o \in Orders |-> x1]
=============================================================================
