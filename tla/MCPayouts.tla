----------------------------- MODULE MCPayouts -----------------------------
(***************************************************************************)
(* Instances of Payouts for TLC: a payout of 1, below the limit for        *)
(* automatic approval, and one of 2, above it.                             *)
(***************************************************************************)
EXTENDS Payouts, TLC

CONSTANTS p1, p2, s1, s2, sweep

MCPayoutsSet == {p1, p2}
MCOnePayout == {p1}
MCAmount == p1 :> 1 @@ p2 :> 2
MCOneAmount == p1 :> 1
MCStaff == {s1, s2}
MCOneStaff == {s1}
Sessions == Permutations(MCStaff)

=============================================================================
