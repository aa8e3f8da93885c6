-------------------------- MODULE MCCartLifecycle --------------------------
(***************************************************************************)
(* Instances of CartLifecycle: tables and their guests; a customer's cart  *)
(* and its managers.                                                       *)
(***************************************************************************)
EXTENDS CartLifecycle, TLC

CONSTANTS c1, c2, t1, i1, i2, m1, a1, r1, r2

\* Two requests are alike; carts, items and managers are told apart.
RequestSymmetry == Permutations({r1, r2})
=============================================================================
