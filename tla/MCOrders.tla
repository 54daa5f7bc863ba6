------------------------------ MODULE MCOrders ------------------------------
(* Four placements and two cancellations over scarce stock.  p1 and p2      *)
(* order the same two SKUs in opposite order, p3 mixes two currencies and    *)
(* p4 wants, after x, what is not sold.                                      *)
EXTENDS Orders

CONSTANTS p1, p2, p3, p4, c1, c2, b1, b2, x, y, z, u

\* c1 and c2 belong to the buyer of p1; the other orders are another buyer's.
Buyers ==
    [call \in {p1, p2, p3, p4, c1, c2} |-> IF call \in {p2, p3, p4} THEN b2 ELSE b1]

Of(sku, quantity) == [sku |-> sku, quantity |-> quantity]

Baskets ==
    [p \in Placement |-> CASE p = p1 -> <<Of(x, 2), Of(y, 1)>>
                           [] p = p2 -> <<Of(y, 1), Of(x, 1)>>
                           [] p = p3 -> <<Of(x, 1), Of(z, 1)>>
                           [] p = p4 -> <<Of(x, 1), Of(u, 1)>>]

Prices == [s \in Sku |-> IF s = z THEN "EUR" ELSE "USD"]

Stock == [s \in Sku |-> IF s = x THEN 3 ELSE 2]

=============================================================================
