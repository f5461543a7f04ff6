----------------------------- MODULE MCCommunity -----------------------------
(* The instance of Community: requests, people and what there are three of. *)
EXTENDS Community, TLC

CONSTANTS d1, d2, p1, p2, x1, x2, x3

Slots == {d1, d2}
Two == {p1, p2}
Three == {x1, x2, x3}
Alike == Permutations(Slots) \cup Permutations(Two) \cup Permutations(Three)
=============================================================================
