----------------------------- MODULE MCSettling -----------------------------
(***************************************************************************)
(* What has to end: a pending order and a payment under way.  The two are  *)
(* not interleaved here (Commerce does that): focus says which one a       *)
(* behaviour is about, and the other stays as it began.  Fairness is that  *)
(* of the module in focus.                                                 *)
(***************************************************************************)
EXTENDS MCOrders, Payments

VARIABLE focus

settlingVars == <<vars, allPaymentVars, focus>>

SettlingInit == OrdersInit /\ PaymentsInit /\ focus \in {"orders", "payments"}

SettlingNext ==
  /\ UNCHANGED focus
  /\ \/ focus = "orders" /\ Next /\ UNCHANGED allPaymentVars
     \/ focus = "payments" /\ PaymentsNext /\ UNCHANGED vars

SettlingSpec ==
  /\ SettlingInit /\ [][SettlingNext]_settlingVars
  /\ focus = "orders" => Fairness
  /\ focus = "payments" => PaymentsFairness
=============================================================================
