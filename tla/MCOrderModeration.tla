------------------------- MODULE MCOrderModeration -------------------------
(***************************************************************************)
(* Instances of OrderModeration for TLC: one priced type of two seats.     *)
(* Scanning is possible from instant 1 on, after the sales have closed.    *)
(***************************************************************************)
EXTENDS OrderModeration, TLC

CONSTANT ga

Ask(l, q) == {[line |-> l, type |-> ga, n |-> n] : n \in 1..q}

MCPrice == ga :> 1
MCQuantity == ga :> 2
MCOneSeat == ga :> 1
MCUnlimited == ga :> 9
MCZero == ga :> 0
MCOne == ga :> 1
MCCarts == {Ask(1, 1), Ask(1, 2)}
MCTwoSeatCart == {Ask(1, 2)}
MCOneSeatCart == {Ask(1, 1)}

DeskSymmetry == Permutations(Orders) \cup Permutations(Staff)

============================================================================
