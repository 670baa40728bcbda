----------------------------- MODULE MCCheckout -----------------------------
(* The cart's keys, the items they resolve to and the items' own limits. *)
EXTENDS Checkout, TLC

CONSTANTS i1, i2, k1, k2

\* Two stray spellings of one item.
MCOneItem == [k \in Keys |-> CHOOSE i \in Items : TRUE]
\* An item each.
MCOwnItem == k1 :> i1 @@ k2 :> i2

\* No item has a limit of its own, or the second may be bought once.
MCPerOrder == [i \in Items |-> MaxQty]
MCSecondOnce == [i \in Items |-> IF i = i2 THEN 1 ELSE MaxQty]

MCSymmetry == Permutations(Orders)
=============================================================================
