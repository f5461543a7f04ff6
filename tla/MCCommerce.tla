----------------------------- MODULE MCCommerce -----------------------------
(***************************************************************************)
(* Instances of Commerce for TLC: one priced type, one seat per order,    *)
(* scanned from instant 1 on.                                              *)
(***************************************************************************)
EXTENDS Commerce, TLC

CONSTANT ga

MCCarts == {{[line |-> 1, type |-> ga, n |-> 1]}}
MCPrice == ga :> 1
MCPlenty == ga :> 9
MCOneSeat == ga :> 1
MCZero == ga :> 0

CommerceSymmetry == Permutations(Orders) \cup Permutations(Staff)

=============================================================================
