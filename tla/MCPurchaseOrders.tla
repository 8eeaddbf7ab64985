------------------------- MODULE MCPurchaseOrders -------------------------
(* Small instances of PurchaseOrders: constants only.                      *)
EXTENDS PurchaseOrders, TLC

CONSTANTS r1, r2, r3, x1, x2, s1, p1, p2, o1, o2, shelf, shop

MCSupplierOf == [x \in Products |-> s1]

\* One queue row per product, or one row and a free id.
MCFullQueue ==
    [o \in OrderIds |-> IF o = o1 THEN x1
                        ELSE IF x2 \in Products THEN x2 ELSE x1]
MCOneRow == [o \in OrderIds |-> IF o = o1 THEN x1 ELSE Null]

\* Requests, and purchase-order ids, are interchangeable.
RequestSymmetry == Permutations(Requests)
PoSymmetry == Permutations(Requests) \cup Permutations(PoIds)
=============================================================================
