----------------------------- MODULE MCAccounts -----------------------------
(* Instances of Accounts for TLC: one account from before, one yet to come. *)
EXTENDS Accounts, TLC

CONSTANTS d1, d2, u1, u2, e1, e2

Slots == {d1, d2}
MCUsers == {u1, u2}
MCRegistered == u1 :> e1
Alike == Permutations(Slots)
=============================================================================
