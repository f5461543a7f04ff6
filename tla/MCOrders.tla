------------------------------ MODULE MCOrders ------------------------------
(***************************************************************************)
(* Instances of Orders for TLC: one scarce type at a price, one free type, *)
(* and the carts the cfg names.  Times: sales close at 1, the event ends   *)
(* at 2, the clock runs to 3.                                              *)
(***************************************************************************)
EXTENDS Orders, TLC

CONSTANTS ga, free

SlotOf(l, t, n) == [line |-> l, type |-> t, n |-> n]
Ask(l, t, q) == {SlotOf(l, t, n) : n \in 1..q}

MCPrice == ga :> 2 @@ free :> 0
MCQuantity == [t \in Types |-> 2]
MCMaxPerOrder == [t \in Types |-> 2]
MCMaxPerUser == [t \in Types |-> 2]
MCOneFree == ga :> 2 @@ free :> 1
MCSalesStart == [t \in Types |-> IF t = free THEN 1 ELSE 0]
MCSalesEnd == [t \in Types |-> 1]
MCValidFrom == [t \in Types |-> 1]
MCNever == [t \in Types |-> Horizon + 1]
MCValidTo == [t \in Types |-> 2]

\* one seat, two seats, one seat on each of two lines, both types, free
MCCarts == {Ask(1, ga, 1), Ask(1, ga, 2), Ask(1, ga, 2) \cup Ask(2, ga, 1),
            Ask(1, ga, 1) \cup Ask(2, free, 1), Ask(1, free, 1)}
MCFreeCarts == {Ask(1, ga, 1), Ask(1, free, 2)}

OrderSymmetry == Permutations(Orders)

=============================================================================
