------------------------------ MODULE Payments ------------------------------
(***************************************************************************)
(* Payments: PaymentsService, the webhook controller with its replay       *)
(* guard, the admin's payment moderation, and the payment provider as the  *)
(* code uses it.                                                           *)
(*                                                                         *)
(* The provider tells of a charge twice over: by webhooks, delivered any   *)
(* number of times and in any order, and by the answer to a verify call,   *)
(* applied some time after it was true.  A webhook is recorded before it   *)
(* is acted on, a payment is settled before payment.succeeded is emitted:  *)
(* what lies between two such steps is volatile.                           *)
(***************************************************************************)
EXTENDS Naturals, FiniteSets

CONSTANTS Payments,    \* payment rows a run may create
          MaxStops,  \* bound on process stops
          LateCharge   \* TRUE: a charge reported failed or abandoned may still succeed

ASSUME PaymentsAssumption == MaxStops \in Nat /\ LateCharge \in BOOLEAN

VARIABLES payment,   \* [Payments -> PaymentStatus \cup {"none"}]: payments.status
          charge,    \* [Payments -> Charge]: the transaction at the provider
          sent,      \* webhooks the provider has sent
          seen,      \* webhook_events rows
          accepted,  \* webhooks recorded and not yet dispatched (volatile)
          answers,   \* answers of verify not yet applied (volatile)
          marking,   \* payments an admin loaded to mark successful (volatile)
          emitting,  \* [Payments -> Nat]: events committed to and not emitted yet (volatile)
          emitted,   \* history: payment.succeeded events emitted, per payment
          marked,    \* history: payments an admin forced to successful
          stops    \* stops so far

paymentVars == <<payment, charge, sent, seen, accepted, answers, marking,
                 emitting, emitted, marked>>
allPaymentVars == <<paymentVars, stops>>

Terminal == {"successful", "failed", "abandoned", "refunded"}
PaymentStatus == Terminal \cup {"pending"}

\* "short": money was taken, but too little or in another currency.
Charge == {"none", "open", "success", "short", "failed", "abandoned", "reversed"}
Report == [payment : Payments, status : PaymentStatus, covers : BOOLEAN]

PaymentsTypeOK ==
  /\ payment \in [Payments -> PaymentStatus \cup {"none"}]
  /\ charge \in [Payments -> Charge]
  /\ sent \subseteq Report /\ seen \subseteq Report /\ accepted \subseteq Report
  /\ answers \subseteq Report
  /\ marking \subseteq Payments
  /\ emitting \in [Payments -> Nat]
  /\ emitted \in [Payments -> Nat]
  /\ marked \subseteq Payments
  /\ stops \in 0..MaxStops

PaymentsInit ==
  /\ payment = [p \in Payments |-> "none"]
  /\ charge = [p \in Payments |-> "none"]
  /\ sent = {} /\ seen = {} /\ accepted = {} /\ answers = {}
  /\ marking = {} /\ marked = {}
  /\ emitting = [p \in Payments |-> 0]
  /\ emitted = [p \in Payments |-> 0]
  /\ stops = 0

----------------------------------------------------------------------------
(* Starting a payment *)

Create(p) ==
  /\ payment[p] = "none"
  /\ payment' = [payment EXCEPT ![p] = "pending"]
  /\ UNCHANGED <<charge, sent, seen, accepted, answers, marking, emitting,
                 emitted, marked, stops>>

\* provider.initialize succeeds: the customer can be sent to the checkout page.
Initialize(p) ==
  /\ payment[p] # "none" /\ charge[p] = "none"
  /\ charge' = [charge EXCEPT ![p] = "open"]
  /\ UNCHANGED <<payment, sent, seen, accepted, answers, marking, emitting,
                 emitted, marked, stops>>

----------------------------------------------------------------------------
(* The provider *)

ReportOf(p, c) ==
  [payment |-> p,
   status |-> CASE c \in {"success", "short"} -> "successful"
                [] c = "reversed" -> "refunded"
                [] c \in {"failed", "abandoned"} -> c
                [] OTHER -> "pending",
   covers |-> c = "success"]

\* The customer pays, in full or short, or the attempt ends; success and
\* reversal are told by webhook, the other outcomes only to who asks.
Pay(p, c) ==
  /\ \/ charge[p] = "open"
     \/ LateCharge /\ charge[p] \in {"failed", "abandoned"}
  /\ c \in {"success", "short", "failed", "abandoned"}
  /\ charge' = [charge EXCEPT ![p] = c]
  /\ sent' = IF c \in {"success", "short"} THEN sent \cup {ReportOf(p, c)} ELSE sent
  /\ UNCHANGED <<payment, seen, accepted, answers, marking, emitting, emitted,
                 marked, stops>>

\* A refund, asked for by refundWithProvider or on the provider's dashboard.
Reverse(p) ==
  /\ charge[p] \in {"success", "short"}
  /\ charge' = [charge EXCEPT ![p] = "reversed"]
  /\ sent' = sent \cup {ReportOf(p, "reversed")}
  /\ UNCHANGED <<payment, seen, accepted, answers, marking, emitting, emitted,
                 marked, stops>>

----------------------------------------------------------------------------
(* Settling *)

\* Mutants of Finalize: the amount is not compared; a settled payment is
\* settled again; the event is forgotten.
FinalizeShort(r) ==
  LET p == r.payment
      applies == payment[p] = "pending"
  IN /\ payment' = IF applies THEN [payment EXCEPT ![p] = r.status] ELSE payment
     /\ emitting' = IF applies /\ r.status = "successful"
                    THEN [emitting EXCEPT ![p] = @ + 1] ELSE emitting
FinalizeAgain(r) ==
  LET p == r.payment
      applies == r.status = "successful" => r.covers
  IN /\ payment' = IF applies THEN [payment EXCEPT ![p] = r.status] ELSE payment
     /\ emitting' = IF applies /\ r.status = "successful"
                    THEN [emitting EXCEPT ![p] = @ + 1] ELSE emitting
FinalizeSilently(r) ==
  LET p == r.payment
      applies == payment[p] = "pending" /\ (r.status = "successful" => r.covers)
  IN /\ payment' = IF applies THEN [payment EXCEPT ![p] = r.status] ELSE payment
     /\ UNCHANGED emitting

\* finalize, under the payment's row lock: a terminal payment is left alone
\* and a charge that falls short is held for reconciliation.
Finalize(r) ==
  LET p == r.payment
      applies == /\ payment[p] = "pending"
                 /\ (r.status = "successful" => r.covers)
  IN /\ payment' = IF applies THEN [payment EXCEPT ![p] = r.status] ELSE payment
     /\ emitting' = IF applies /\ r.status = "successful"
                    THEN [emitting EXCEPT ![p] = @ + 1] ELSE emitting

\* Mutant of AcceptWebhook: charge.success is not among the events acted on.
AcceptRefundsOnly(r) ==
  /\ r \in sent \ seen
  /\ seen' = seen \cup {r}
  /\ accepted' = IF r.status = "refunded" THEN accepted \cup {r} ELSE accepted
  /\ UNCHANGED <<payment, charge, sent, answers, marking, emitting, emitted,
                 marked, stops>>

\* recordIfNew: the unique key lets one delivery of each event through.
AcceptWebhook(r) ==
  /\ r \in sent \ seen
  /\ seen' = seen \cup {r}
  /\ accepted' = accepted \cup {r}
  /\ UNCHANGED <<payment, charge, sent, answers, marking, emitting, emitted,
                 marked, stops>>

Dispatch(r) ==
  /\ r \in accepted
  /\ accepted' = accepted \ {r}
  /\ Finalize(r)
  /\ UNCHANGED <<charge, sent, seen, answers, marking, emitted, marked, stops>>

\* reconcile asks the provider ...
Verify(p) ==
  /\ charge[p] # "none"
  /\ answers' = answers \cup {ReportOf(p, charge[p])}
  /\ UNCHANGED <<payment, charge, sent, seen, accepted, marking, emitting,
                 emitted, marked, stops>>

\* ... and applies the answer, by then perhaps no longer true.
ApplyAnswer(r) ==
  /\ r \in answers
  /\ answers' = answers \ {r}
  /\ Finalize(r)
  /\ UNCHANGED <<charge, sent, seen, accepted, marking, emitted, marked, stops>>

\* After the commit, payment.succeeded goes to the in-process listeners.
Emit(p) ==
  /\ emitting[p] > 0
  /\ emitting' = [emitting EXCEPT ![p] = @ - 1]
  /\ emitted' = [emitted EXCEPT ![p] = @ + 1]
  /\ UNCHANGED <<payment, charge, sent, seen, accepted, answers, marking,
                 marked, stops>>

----------------------------------------------------------------------------
(* The admin *)

StartMark(p) ==
  /\ payment[p] = "pending" /\ p \notin marking
  /\ marking' = marking \cup {p}
  /\ UNCHANGED <<payment, charge, sent, seen, accepted, answers, emitting,
                 emitted, marked, stops>>

\* markSucceeded overwrites whatever the status has become.
MarkSucceeded(p) ==
  /\ p \in marking
  /\ marking' = marking \ {p}
  /\ payment' = [payment EXCEPT ![p] = "successful"]
  /\ emitting' = [emitting EXCEPT ![p] = @ + 1]
  /\ marked' = marked \cup {p}
  /\ UNCHANGED <<charge, sent, seen, accepted, answers, emitted, stops>>

----------------------------------------------------------------------------

LoseRequests ==
  /\ stops < MaxStops
  /\ stops' = stops + 1
  /\ accepted' = {} /\ answers' = {} /\ marking' = {}
  /\ emitting' = [p \in Payments |-> 0]
  /\ UNCHANGED <<payment, charge, sent, seen, emitted, marked>>

PaymentsStep ==
  \/ \E p \in Payments :
       \/ Create(p) \/ Initialize(p) \/ \E c \in Charge : Pay(p, c)
       \/ Reverse(p) \/ Verify(p) \/ Emit(p)
       \/ StartMark(p) \/ MarkSucceeded(p)
  \/ \E r \in sent : AcceptWebhook(r)
  \/ \E r \in accepted : Dispatch(r)
  \/ \E r \in answers : ApplyAnswer(r)

PaymentsNext == PaymentsStep \/ LoseRequests

\* The provider repeats a webhook until it is acknowledged; what the process
\* has begun it goes on with unless it stops.
PaymentsFairness ==
  \A r \in Report : /\ WF_allPaymentVars(AcceptWebhook(r))
                    /\ WF_allPaymentVars(Dispatch(r))
                    /\ WF_allPaymentVars(Emit(r.payment))

PaymentsSpec == PaymentsInit /\ [][PaymentsNext]_allPaymentVars /\ PaymentsFairness

----------------------------------------------------------------------------
(* Properties *)

\* A payment counts as successful only on the provider's word that the full
\* amount was taken, or on an admin's: no interleaving of partial charges,
\* stale verify answers and replays gets one through.
SuccessIsCovered ==
  \A p \in Payments :
    payment[p] = "successful" => charge[p] \in {"success", "reversed"} \/ p \in marked

\* payment.succeeded goes out at most once per payment, however many webhooks
\* and verify calls report the charge; an admin's override adds at most one.
EmittedOnce ==
  \A p \in Payments :
    emitted[p] + emitting[p] <= 1 + Cardinality({p} \cap marked)

\* Once settled a payment stays as it is; only the admin's override, which
\* checked an earlier status, may still write over it.
TerminalIsFinal ==
  [][\A p \in Payments :
       (payment[p] \in Terminal /\ payment'[p] # payment[p]) => p \in marking]_allPaymentVars

\* Without a crash, a full charge is settled in the end, whatever else the
\* provider and the verify calls report meanwhile.
ChargeSettles ==
  \A p \in Payments :
    (charge[p] = "success") ~> (payment[p] \in Terminal \/ stops > 0)

\* Without a crash, a payment that became successful is announced to the
\* listeners that fulfil what was bought.
SuccessAnnounced ==
  \A p \in Payments :
    (payment[p] = "successful") ~> (emitted[p] > 0 \/ stops > 0)

============================================================================
