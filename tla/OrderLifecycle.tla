--------------------------- MODULE OrderLifecycle ---------------------------
(***************************************************************************)
(* What an order promises, whatever the interleaving: it is placed, then   *)
(* either cancelled or paid, and only a paid order is refunded; its seats  *)
(* are issued in the step that pays it; and the organiser's ledger holds   *)
(* the order's worth exactly while it is paid, nothing before and nothing  *)
(* once it is refunded.                                                    *)
(***************************************************************************)
EXTENDS Integers

CONSTANT Orders

VARIABLES phase,   \* [Orders -> {"none", "pending", "paid", "cancelled", "refunded"}]
          seated,  \* orders whose seats have been issued
          net      \* [Orders -> Int]: sales minus refunds booked for the order

lifecycleVars == <<phase, seated, net>>

Init == /\ phase = [o \in Orders |-> "none"]
        /\ seated = {}
        /\ net = [o \in Orders |-> 0]

Place(o) == /\ phase[o] = "none"
            /\ phase' = [phase EXCEPT ![o] = "pending"]
            /\ UNCHANGED <<seated, net>>

Pay(o) == /\ phase[o] = "pending"
          /\ phase' = [phase EXCEPT ![o] = "paid"]
          /\ seated' = seated \cup {o}
          /\ net' = [net EXCEPT ![o] = 1]

Drop(o) == /\ phase[o] = "pending"
           /\ phase' = [phase EXCEPT ![o] = "cancelled"]
           /\ UNCHANGED <<seated, net>>

Refund(o) == /\ phase[o] = "paid"
             /\ phase' = [phase EXCEPT ![o] = "refunded"]
             /\ net' = [net EXCEPT ![o] = 0]
             /\ UNCHANGED seated

Next == \E o \in Orders : Place(o) \/ Pay(o) \/ Drop(o) \/ Refund(o)

Spec == Init /\ [][Next]_lifecycleVars

============================================================================
