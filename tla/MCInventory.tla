----------------------------- MODULE MCInventory -----------------------------
(***************************************************************************)
(* Instances of Inventory for TLC: two carts with one line each, of the    *)
(* same variant, so that they compete for the same balance rows.           *)
(***************************************************************************)
EXTENDS Inventory, TLC

CONSTANTS c1, c2, l1, l2, v1, w1, w2, p1, p2

MCCartOf == [l \in Line |-> IF l = l1 THEN c1 ELSE c2]
MCVariantOf == [l \in Line |-> v1]

Sym == Permutations({p1, p2})
=============================================================================
