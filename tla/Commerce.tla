------------------------------ MODULE Commerce ------------------------------
(***************************************************************************)
(* Orders, their moderation and payments together: each order's checkout   *)
(* creates the payment that carries its id as purposable, the settled      *)
(* payment's event fulfils the order, and the desk's refund and mark-paid  *)
(* write the payment row.  A payment is named by its order.                *)
(***************************************************************************)
EXTENDS OrderModeration

CONSTANT LateCharge  \* see Payments

VARIABLES payment, charge, sent, seen, accepted, answers, marking, emitting,
          emitted, marked  \* see Payments

P == INSTANCE Payments
       WITH Payments <- Orders, MaxStops <- MaxCrashes, stops <- crashes

VARIABLES comped,   \* history: orders the desk marked paid
          unbooked  \* history: orders whose money the provider returned unheard

paymentVars == <<payment, charge, sent, seen, accepted, answers, marking,
                 emitting, emitted, marked>>
commerceVars == <<allVars, paymentVars, comped, unbooked>>

CommerceTypeOK == /\ DeskTypeOK
                  /\ P!PaymentsTypeOK
                  /\ comped \subseteq Orders /\ unbooked \subseteq Orders

CommerceInit == DeskInit /\ P!PaymentsInit /\ comped = {} /\ unbooked = {}

----------------------------------------------------------------------------
(* Checkout and payment *)

\* payments.start: the pending row, then the provider's checkout page, then
\* the order's payment_id and the answer to the buyer.
CreatePayment(o) == /\ StartPayment(o)
                    /\ P!Create(o)
                    /\ UNCHANGED <<deskVars, comped, unbooked>>

InitializePayment(o) == /\ stage[o] = "paying"
                        /\ P!Initialize(o)
                        /\ UNCHANGED <<vars, deskVars, comped, unbooked>>

AnswerCheckout(o) == /\ LinkPayment(o)
                     /\ charge[o] # "none"
                     /\ UNCHANGED <<deskVars, paymentVars, comped, unbooked>>

\* The buyer can pay once he was sent to the checkout page.
BuyerPays(o) == /\ payRow[o] = "linked"
                /\ \E c \in P!Charge : P!Pay(o, c)
                /\ UNCHANGED <<vars, deskVars, comped, unbooked>>

\* verifyWithProvider needs the order's payment_id; an admin's resync does not.
VerifyPayment(o) == /\ P!Verify(o)
                    /\ UNCHANGED <<vars, deskVars, comped, unbooked>>

\* Mutants of DeliverSucceeded: the order is found by its payment_id; the order
\* is only flipped to paid.
DeliverToLinked(o) ==
  /\ P!Emit(o)
  /\ \/ payRow[o] = "linked" /\ PaymentSucceeded(o)
     \/ (status[o] # "pending" \/ payRow[o] # "linked") /\ UNCHANGED vars
  /\ UNCHANGED <<deskVars, comped, unbooked>>
DeliverFlippingOnly(o) ==
  /\ P!Emit(o)
  /\ status' = [status EXCEPT ![o] = "paid"]
  /\ UNCHANGED <<now, cart, ticketVars, buyer, hold, payRow, revenue, ledger,
                 firstSale, late, requestVars, deskVars, comped, unbooked>>

\* The listener fulfils the order, or finds it settled or cancelled.
DeliverSucceeded(o) ==
  /\ P!Emit(o)
  /\ \/ PaymentSucceeded(o)
     \/ status[o] # "pending" /\ UNCHANGED vars
  /\ UNCHANGED <<deskVars, comped, unbooked>>

\* The payment row is locked while a refund's transaction is open.
PaymentRowLocked(o) ==
  \E w \in Staff : AtDesk(w, "revoking") /\ desk[w].order = o /\ desk[w].locksPayment

\* The webhook and admin handlers that touch payment rows only.
PaymentsOnly ==
  /\ \/ \E r \in sent : P!AcceptWebhook(r)
     \/ \E r \in accepted : ~PaymentRowLocked(r.payment) /\ P!Dispatch(r)
     \/ \E r \in answers : ~PaymentRowLocked(r.payment) /\ P!ApplyAnswer(r)
     \/ \E o \in Orders : P!StartMark(o)
     \/ \E o \in Orders : ~PaymentRowLocked(o) /\ P!MarkSucceeded(o)
  /\ UNCHANGED <<vars, deskVars, comped, unbooked>>

----------------------------------------------------------------------------
(* The desk and payment *)

DeskRefund(w, o) ==
  /\ \E asks \in BOOLEAN : /\ StartRefund(w, o, asks)
                           /\ asks = (payRow[o] = "linked" /\ payment[o] = "successful")
  /\ UNCHANGED <<paymentVars, comped, unbooked>>

\* The provider gives back what it took, and refuses when there is nothing.
DeskProviderRefunds(w) ==
  /\ ProviderRefunds(w)
  /\ P!Reverse(desk[w].order)
  /\ UNCHANGED <<comped, unbooked>>

\* It gives the money back, but its answer is lost: the client gives up waiting,
\* and the refund ends as if it had been refused.
DeskAnswerLost(w) ==
  /\ ProviderRefuses(w)
  /\ P!Reverse(desk[w].order)
  /\ unbooked' = unbooked \cup {desk[w].order}
  /\ UNCHANGED comped

\* The refund's transaction settles the payment row it found, whatever its
\* status has become.
DeskCommitRefund(w) ==
  /\ CommitRefund(w)
  /\ LET o == desk[w].order IN
       payment' = IF desk[w].locksPayment THEN [payment EXCEPT ![o] = "refunded"]
                  ELSE payment
  /\ UNCHANGED <<charge, sent, seen, accepted, answers, marking, emitting,
                 emitted, marked, comped, unbooked>>

DeskMarkPaid(w) ==
  /\ MarkPaid(w)
  /\ comped' = comped \cup {desk[w].order}
  /\ UNCHANGED <<paymentVars, unbooked>>

\* markPaid's second write: the payment becomes successful, unchecked.
DeskSettlePayment(w) ==
  /\ ~PaymentRowLocked(desk[w].order)
  /\ SettlePayment(w)
  /\ payment' = [payment EXCEPT ![desk[w].order] = "successful"]
  /\ UNCHANGED <<charge, sent, seen, accepted, answers, marking, emitting,
                 emitted, marked, comped, unbooked>>

\* Everything of the orders and the desk that no payment takes part in.
OrdersOnly ==
  /\ \/ /\ UNCHANGED deskVars
        /\ \/ \E o \in Orders :
                \/ \E u \in Users : Admit(o, u)
                \/ \E c \in Carts : Reserve(o, c)
                \/ StartFails(o) \/ FulfillFree(o) \/ Cancel(o) \/ CancelStale(o)
           \/ \E s \in Seats : Scan(s)
           \/ ExpireHolds \/ ReadStale \/ Tick
     \/ \E w \in Staff :
          \/ \E o \in Orders : StartMarkPaid(w, o)
          \/ \E s \in Seats : OrganizerRevoke(w, s) \/ StartRevoke(w, s) \/ AdminReissue(w, s)
          \/ ProviderRefuses(w) \/ OpenRefund(w) \/ AdminRevoke(w)
  /\ UNCHANGED <<paymentVars, comped, unbooked>>

\* A refund of order o has its answer from the provider, if it asked.
Booking(o) == \E w \in Staff : desk[w].pc \in {"refund", "revoking"} /\ desk[w].order = o

CrashAll == /\ Crash
            /\ P!LoseRequests
            /\ unbooked' = unbooked \cup {o \in Orders : charge[o] = "reversed" /\ Booking(o)}
            /\ UNCHANGED comped

CommerceNext ==
  \/ OrdersOnly \/ PaymentsOnly \/ CrashAll
  \/ \E o \in Orders :
       \/ CreatePayment(o) \/ InitializePayment(o) \/ AnswerCheckout(o)
       \/ BuyerPays(o) \/ VerifyPayment(o) \/ DeliverSucceeded(o)
  \/ \E w \in Staff :
       \/ \E o \in Orders : DeskRefund(w, o)
       \/ DeskProviderRefunds(w) \/ DeskAnswerLost(w) \/ DeskCommitRefund(w)
       \/ DeskMarkPaid(w) \/ DeskSettlePayment(w)

CommerceSpec == CommerceInit /\ [][CommerceNext]_commerceVars

----------------------------------------------------------------------------
(* Properties *)

Priced(o) == Subtotal(cart[o]) # 0

\* Nobody gets seats for nothing: an order with a price is paid only while its
\* payment is successful on a charge that covered it, or because the desk said
\* so (marked the order paid, or the payment successful).
SeatsArePaidFor ==
  \A o \in Orders :
    (status[o] = "paid" /\ Priced(o) /\ o \notin comped) =>
      /\ payment[o] = "successful"
      /\ charge[o] \in {"success", "reversed"} \/ o \in marked

\* As long as the process has not crashed, a successful payment whose event is
\* delivered has found its order: the order is fulfilled, or was cancelled or
\* fulfilled before.  (A crash between the commit and the event loses it.)
SuccessReachesOrder ==
  crashes = 0 =>
    \A o \in Orders :
      (payment[o] = "successful" /\ emitting[o] = 0) => status[o] # "pending"

\* Money that went back is booked: the order is refunded, or about to be, unless
\* the provider's answer was lost or the process crashed before the transaction.
\* (OrderModerationService.refund calls the provider first.)
ReturnedIsBooked ==
  \A o \in Orders \ unbooked : charge[o] = "reversed" => status[o] = "refunded" \/ Booking(o)

\* The composition adds nothing to what the orders and the desk may do on
\* their own, so whatever holds of module OrderModeration holds here.
ImplementsDesk == DeskSpec

\* admin-commerce.e2e-spec.ts: "the money is actually refunded through the
\* provider, not just booked".
RefundReturnsMoney ==
  \A o \in Orders : status[o] = "refunded" => charge[o] # "success"

============================================================================
