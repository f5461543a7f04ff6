------------------------------ MODULE Payouts ------------------------------
(***************************************************************************)
(* Payouts of one organisation: PayoutsService, PayoutProcessingService,   *)
(* the balance they are checked against, the stuck-payout sweep and the    *)
(* provider's transfers as the code uses them.                             *)
(*                                                                         *)
(* A request sums the balance first and inserts later; an admin's request  *)
(* acts on a payout loaded before; a transfer is known to the provider by  *)
(* the reference that was stored before it was sent.  Nothing but finalize *)
(* locks a payout row.  The retry backoff and the account's cooling-off    *)
(* are taken as elapsed, feature switches as on; one sweep ends before the *)
(* next begins.                                                            *)
(***************************************************************************)
EXTENDS Integers, FiniteSets, FiniteSetsExt

CONSTANTS Payouts,      \* payout rows a run may create
          Amount,       \* [Payouts -> Nat \ {0}]: amount_minor of each
          Staff,        \* sessions of organisers and admins
          Cron,         \* the ten-minute sweep, one run at a time
          AutoMax,      \* payouts.auto_approve_max_minor
          ReviewFirst,  \* payouts.review_first_payout
          MaxRefs,      \* references a payout may get: one per member of Staff is enough
          MaxCredits,   \* bound on matured earnings
          MaxUpsets     \* bound on debits, admins' calls and crashes together

ASSUME PayoutsAssumption ==
  /\ IsFiniteSet(Payouts)
  /\ Amount \in [Payouts -> Nat \ {0}]
  /\ Cron \notin Staff
  /\ ReviewFirst \in BOOLEAN /\ AutoMax \in Nat
  /\ MaxRefs \in Nat \ {0} /\ MaxCredits \in Nat /\ MaxUpsets \in Nat

VARIABLES status,    \* [Payouts -> PayoutStatus \cup {"none"}]
          ref,       \* [Payouts -> 0..MaxRefs]: provider_reference, 0 when null
          earned,    \* matured earnings, by the ledger
          job,       \* [Workers -> Job]: the request each session is running (volatile)
          transfer,  \* [Payouts -> [Refs -> TransferState]]: at the provider, by reference
          inbox,     \* transfer webhooks on their way
          upsets,    \* debits, admins' calls and crashes so far
          credits,   \* history: everything that ever matured
          succeeded, \* history: payouts of which a transfer once succeeded
          manual,    \* history: payouts settled off the platform
          reviewed,  \* history: payouts created for review
          approvals, \* history: approvals written, per payout
          doubtful,  \* history: payouts retried, rejected or parked over a transfer
          unchecked  \* history: payouts that the balance was not compared with

provider == <<transfer, inbox, succeeded>>
history == <<credits, manual, reviewed, approvals, doubtful>>
payoutVars == <<status, ref, earned, job, provider, upsets, history, unchecked>>

Workers == Staff \cup {Cron}
Refs == 1..MaxRefs

InFlight == {"requested", "pending_review", "approved", "processing"}
Terminal == {"paid", "rejected", "failed"}
PayoutStatus == InFlight \cup Terminal
TransferState == {"none", "pending", "success", "failed", "reversed"}
Outcome == {"paid", "failed", "reversed"}

Free == [pc |-> "free"]
Job ==
  {Free}
    \cup [pc : {"summary"}, payout : Payouts, paidOut : Nat, review : BOOLEAN]
    \cup [pc : {"checkInFlight", "insert"}, payout : Payouts, review : BOOLEAN]
    \cup [pc : {"approve", "reject", "settle", "park"}, payout : Payouts]
    \cup [pc : {"initiate"}, payout : Payouts, safe : BOOLEAN]
    \cup [pc : {"persist", "send", "sent"}, payout : Payouts, safe : BOOLEAN, ref : Refs]
    \cup [pc : {"verify"}, payout : Payouts, ref : Refs]
    \cup [pc : {"apply"}, payout : Payouts, ref : Refs, outcome : Outcome]

PayoutsTypeOK ==
  /\ status \in [Payouts -> PayoutStatus \cup {"none"}]
  /\ ref \in [Payouts -> 0..MaxRefs]
  /\ earned \in Int
  /\ job \in [Workers -> Job]
  /\ transfer \in [Payouts -> [Refs -> TransferState]]
  /\ inbox \subseteq [payout : Payouts, ref : Refs, outcome : Outcome]
  /\ upsets \in 0..MaxUpsets
  /\ credits \in Nat
  /\ succeeded \subseteq Payouts /\ manual \subseteq Payouts /\ reviewed \subseteq Payouts
  /\ approvals \in [Payouts -> Nat]
  /\ unchecked \subseteq Payouts /\ doubtful \subseteq Payouts

PayoutsInit ==
  /\ status = [p \in Payouts |-> "none"]
  /\ ref = [p \in Payouts |-> 0]
  /\ earned = 0
  /\ job = [w \in Workers |-> Free]
  /\ transfer = [p \in Payouts |-> [k \in Refs |-> "none"]]
  /\ inbox = {} /\ upsets = 0 /\ credits = 0
  /\ succeeded = {} /\ manual = {} /\ reviewed = {} /\ unchecked = {} /\ doubtful = {}
  /\ approvals = [p \in Payouts |-> 0]

At(w, pc) == job[w].pc = pc
Become(w, j) == job' = [job EXCEPT ![w] = j]
Another == upsets < MaxUpsets /\ upsets' = upsets + 1
Leave(w) == Become(w, Free)
Untouched(p) == p \notin {job[w].payout : w \in {v \in Workers : job[v].pc # "free"}}

----------------------------------------------------------------------------
(* The balance *)

Total(S) == MapThenSumSet(LAMBDA p : Amount[p], S)

InStatus(S) == {p \in Payouts : status[p] \in S}
Committed == InFlight \cup {"paid"}

\* What the summary leaves, negative when debits took more than was there.
\* Mutant of Available: what was paid out already may be drawn again.
AvailableForgettingPaid(paidOut) == earned - Total(InStatus(InFlight))
Available(paidOut) == earned - Total(InStatus(InFlight)) - paidOut

\* Writes a status.  For the account of the balance it is recorded when money
\* becomes committed again, or moves where a request that is summing or about
\* to insert does not look any more.
SetStatus(p, s) ==
  /\ status' = [status EXCEPT ![p] = s]
  /\ LET revived == status[p] \in {"failed", "rejected"} /\ s \in Committed
         beside  == /\ status[p] = "none"
                    /\ \E w \in Workers : job'[w].pc \in {"summary", "checkInFlight", "insert"}
         torn    == /\ status[p] \in InFlight /\ s = "paid"
                    /\ \E w \in Workers : job'[w].pc = "summary"
     IN unchecked' = IF revived \/ beside \/ torn THEN unchecked \cup {p} ELSE unchecked

\* A sale matures; a refund or an admin's debit takes it back.
Credit == /\ credits < MaxCredits
          /\ credits' = credits + 1
          /\ earned' = earned + 1
          /\ UNCHANGED <<status, ref, job, provider, upsets, manual, reviewed, approvals,
                         doubtful, unchecked>>

Debit == /\ Another
         /\ earned' = earned - 1
         /\ UNCHANGED <<status, ref, job, provider, history, unchecked>>

----------------------------------------------------------------------------
(* A request *)

\* The rules and the balance are queried side by side: what was paid out ...
\* (The queries have no order of their own.  In this one a payout that is paid
\* in between is in neither sum, in the other one it is in both.)
StartRequest(w, p) ==
  /\ At(w, "free") /\ status[p] = "none"
  /\ Untouched(p)
  /\ Become(w, [pc |-> "summary", payout |-> p, paidOut |-> Total(InStatus({"paid"})),
                review |-> Amount[p] > AutoMax
                             \/ (ReviewFirst /\ InStatus({"paid"}) = {})])
  /\ UNCHANGED <<status, ref, earned, provider, upsets, history, unchecked>>

\* ... and the earnings with what is in flight.  The sum is not taken again, so
\* what the transaction will conclude from it is concluded here.
FinishSummary(w) ==
  /\ At(w, "summary")
  /\ LET j == job[w] IN
       Become(w, IF Amount[j.payout] <= Available(j.paidOut)
                 THEN [pc |-> "checkInFlight", payout |-> j.payout, review |-> j.review]
                 ELSE Free)
  /\ UNCHANGED <<status, ref, earned, provider, upsets, history, unchecked>>

\* The transaction looks for payouts in flight; locking none locks nothing.
CheckInFlight(w) ==
  /\ At(w, "checkInFlight")
  /\ Become(w, IF InStatus(InFlight) = {} THEN [job[w] EXCEPT !.pc = "insert"] ELSE Free)
  /\ UNCHANGED <<status, ref, earned, provider, upsets, history, unchecked>>

Insert(w) ==
  /\ At(w, "insert")
  /\ LET p == job[w].payout
         review == job[w].review
     IN /\ Become(w, IF review THEN Free ELSE [pc |-> "initiate", payout |-> p, safe |-> TRUE])
        /\ SetStatus(p, IF review THEN "pending_review" ELSE "requested")
        /\ reviewed' = IF review THEN reviewed \cup {p} ELSE reviewed
  /\ UNCHANGED <<ref, earned, provider, upsets, credits, manual, approvals, doubtful>>

----------------------------------------------------------------------------
(* The admin: each request checks a payout its controller loaded *)

Load(w, p, s, j) ==
  /\ At(w, "free") /\ Another
  /\ status[p] = s
  /\ Become(w, j)
  /\ UNCHANGED <<status, ref, earned, provider, credits, manual, reviewed, approvals,
                 unchecked>>

StartApprove(w, p) == Load(w, p, "pending_review", [pc |-> "approve", payout |-> p])
                        /\ UNCHANGED doubtful
StartReject(w, p)  == Load(w, p, "pending_review", [pc |-> "reject", payout |-> p])
                        /\ UNCHANGED doubtful
StartSettle(w, p)  == Load(w, p, "failed", [pc |-> "settle", payout |-> p])
                        /\ UNCHANGED doubtful
StartRetry(w, p)   == Load(w, p, "failed", [pc |-> "initiate", payout |-> p, safe |-> FALSE])
                        /\ doubtful' = doubtful \cup {p}

Approve(w) ==
  /\ At(w, "approve")
  /\ LET p == job[w].payout IN
       /\ Become(w, [pc |-> "initiate", payout |-> p, safe |-> TRUE])
       /\ SetStatus(p, "approved")
       /\ approvals' = [approvals EXCEPT ![p] = @ + 1]
  /\ UNCHANGED <<ref, earned, provider, upsets, credits, manual, reviewed, doubtful>>

Reject(w) ==
  /\ At(w, "reject")
  /\ Leave(w)
  /\ SetStatus(job[w].payout, "rejected")
  /\ doubtful' = IF status[job[w].payout] = "pending_review" THEN doubtful
                 ELSE doubtful \cup {job[w].payout}
  /\ UNCHANGED <<ref, earned, provider, upsets, credits, manual, reviewed, approvals>>

SettleOffPlatform(w) ==
  /\ At(w, "settle")
  /\ Leave(w)
  /\ SetStatus(job[w].payout, "paid")
  /\ manual' = manual \cup {job[w].payout}
  /\ UNCHANGED <<ref, earned, provider, upsets, credits, reviewed, approvals, doubtful>>

----------------------------------------------------------------------------
(* Sending a transfer *)

Fresh(p) ==
  LET used == {k \in Refs : \/ transfer[p][k] # "none" \/ ref[p] = k
                            \/ \E w \in Workers : /\ job[w].pc \in {"persist", "send", "sent"}
                                                 /\ job[w].payout = p /\ job[w].ref = k}
  IN {k \in Refs \ used : 1..(k - 1) \subseteq used}

\* Mutant of Reference: every attempt draws a reference of its own.
ReferenceAfresh(p) == Fresh(p)

\* A reference is kept from the first attempt on.
Reference(p) == IF ref[p] = 0 THEN Fresh(p) ELSE {ref[p]}

\* The row is read; what is read decides whether the reference gets written.
Initiate(w) ==
  /\ At(w, "initiate")
  /\ LET p == job[w].payout IN
       \E k \in Reference(p) :
         Become(w, [pc |-> IF ref[p] = 0 THEN "persist" ELSE "send", payout |-> p,
                    safe |-> job[w].safe, ref |-> k])
  /\ UNCHANGED <<status, ref, earned, provider, upsets, history, unchecked>>

\* Mutant of PersistReference: the reference is not saved before the provider is called.
PersistLater(w) ==
  /\ At(w, "persist")
  /\ Become(w, [job[w] EXCEPT !.pc = "send"])
  /\ UNCHANGED <<status, ref, earned, provider, upsets, history, unchecked>>

PersistReference(w) ==
  /\ At(w, "persist")
  /\ ref' = [ref EXCEPT ![job[w].payout] = job[w].ref]
  /\ Become(w, [job[w] EXCEPT !.pc = "send"])
  /\ UNCHANGED <<status, earned, provider, upsets, history, unchecked>>

\* An error of the provider parks the payout, unless an admin is retrying it.
SendFailed(j) == IF j.safe THEN [pc |-> "park", payout |-> j.payout] ELSE Free

\* The provider takes the transfer and says so, or its answer is lost; ...
SendTaken(w) ==
  /\ At(w, "send")
  /\ LET j == job[w] IN
       /\ transfer[j.payout][j.ref] \in {"none", "failed", "reversed"}
       /\ transfer' = [transfer EXCEPT ![j.payout][j.ref] = "pending"]
       /\ \/ /\ Become(w, [j EXCEPT !.pc = "sent"])
             /\ UNCHANGED doubtful
          \/ /\ Become(w, SendFailed(j))
             /\ doubtful' = doubtful \cup {j.payout}
  /\ UNCHANGED <<status, ref, earned, inbox, succeeded, upsets, credits, manual, reviewed,
                 approvals, unchecked>>

\* ... it refuses, or it knows the reference and says one or the other.
SendNotTaken(w) ==
  /\ At(w, "send")
  /\ LET j == job[w]
         known == transfer[j.payout][j.ref] \in {"pending", "success"}
     IN \/ Become(w, SendFailed(j))
        \/ known /\ Become(w, [j EXCEPT !.pc = "sent"])
  /\ UNCHANGED <<status, ref, earned, provider, upsets, history, unchecked>>

\* Mutant of Taken: what the provider accepts counts as paid.
TakenIsPaid == "paid"

\* A transfer the provider took is under way, not paid.
Taken == "processing"

\* The answer is written over whatever the row says by now.
MarkProcessing(w) ==
  /\ At(w, "sent")
  /\ Leave(w)
  /\ SetStatus(job[w].payout, Taken)
  /\ ref' = [ref EXCEPT ![job[w].payout] = job[w].ref]
  /\ UNCHANGED <<earned, provider, upsets, history>>

Park(w) ==
  /\ At(w, "park")
  /\ Leave(w)
  /\ SetStatus(job[w].payout, "failed")
  /\ UNCHANGED <<ref, earned, provider, upsets, history>>

----------------------------------------------------------------------------
(* What became of a transfer: by webhook or by asking *)

Finalize(p, k, outcome) ==
  LET blocked == IF outcome = "reversed" THEN {"failed", "rejected"} ELSE Terminal
  IN IF ref[p] # k \/ status[p] \in blocked
     THEN UNCHANGED <<status, unchecked>>
     ELSE SetStatus(p, IF outcome = "reversed" THEN "failed" ELSE outcome)

DeliverWebhook(m) ==
  /\ m \in inbox
  /\ inbox' = inbox \ {m}
  /\ UNCHANGED job
  /\ Finalize(m.payout, m.ref, m.outcome)
  /\ UNCHANGED <<ref, earned, transfer, succeeded, upsets, history>>

\* A transfer ends, or is reversed; the webhook may never come.
ProviderSettles(p, k, s, outcome) ==
  /\ transfer' = [transfer EXCEPT ![p][k] = s]
  /\ \/ inbox' = inbox \cup {[payout |-> p, ref |-> k, outcome |-> outcome]}
     \/ UNCHANGED inbox
  /\ succeeded' = IF s = "success" THEN succeeded \cup {p} ELSE succeeded
  /\ UNCHANGED <<status, ref, earned, job, upsets, history, unchecked>>

ProviderEnds(p, k) ==
  /\ transfer[p][k] = "pending"
  /\ \/ ProviderSettles(p, k, "success", "paid")
     \/ ProviderSettles(p, k, "failed", "failed")

ProviderReverses(p, k) ==
  /\ transfer[p][k] = "success"
  /\ ProviderSettles(p, k, "reversed", "reversed")

----------------------------------------------------------------------------
(* The sweep: a row is stale when no request has been at it for a quarter  *)
(* of an hour                                                              *)

\* Mutant of Unsent: the sweep fails whatever in flight has no reference.
UnsentInFlight(p) == status[p] \in InFlight /\ ref[p] = 0
Unsent(p) == status[p] = "requested" /\ ref[p] = 0

SweepInitiate(p) ==
  /\ At(Cron, "free") /\ Untouched(p)
  /\ Unsent(p)
  /\ Become(Cron, [pc |-> "initiate", payout |-> p, safe |-> TRUE])
  /\ UNCHANGED <<status, ref, earned, provider, upsets, history, unchecked>>

SweepReconcile(p) ==
  /\ At(Cron, "free") /\ Untouched(p)
  /\ status[p] \in {"requested", "processing"} /\ ref[p] # 0
  /\ Become(Cron, [pc |-> "verify", payout |-> p, ref |-> ref[p]])
  /\ UNCHANGED <<status, ref, earned, provider, upsets, history, unchecked>>

\* mapStatus: what is neither of the three is no event.
MapStatus(s) == CASE s = "success" -> "paid" [] s = "failed" -> "failed"
                  [] s = "reversed" -> "reversed" [] OTHER -> "none"

\* A transfer still under way, or one the provider never saw, is left alone.
VerifyTransfer(w) ==
  /\ At(w, "verify")
  /\ LET j == job[w]
         outcome == MapStatus(transfer[j.payout][j.ref])
     IN Become(w, IF outcome = "none" THEN Free
                  ELSE [pc |-> "apply", payout |-> j.payout, ref |-> j.ref,
                        outcome |-> outcome])
  /\ UNCHANGED <<status, ref, earned, provider, upsets, history, unchecked>>

ApplyVerified(w) ==
  /\ At(w, "apply")
  /\ Leave(w)
  /\ LET j == job[w] IN Finalize(j.payout, j.ref, j.outcome)
  /\ UNCHANGED <<ref, earned, provider, upsets, history>>

Crash ==
  /\ Another
  /\ job' = [w \in Workers |-> Free]
  /\ UNCHANGED <<status, ref, earned, provider, history, unchecked>>

----------------------------------------------------------------------------

Continue(w) ==
  \/ FinishSummary(w) \/ CheckInFlight(w) \/ Insert(w)
  \/ Approve(w) \/ Reject(w) \/ SettleOffPlatform(w)
  \/ Initiate(w) \/ PersistReference(w) \/ SendTaken(w) \/ SendNotTaken(w)
  \/ MarkProcessing(w) \/ Park(w) \/ VerifyTransfer(w) \/ ApplyVerified(w)

PayoutsNext ==
  \/ Credit \/ Debit \/ Crash
  \/ \E w \in Staff, p \in Payouts :
       \/ StartRequest(w, p) \/ StartApprove(w, p) \/ StartReject(w, p)
       \/ StartRetry(w, p) \/ StartSettle(w, p)
  \/ \E w \in Workers : Continue(w)
  \/ \E m \in inbox : DeliverWebhook(m)
  \/ \E p \in Payouts, k \in Refs : ProviderEnds(p, k) \/ ProviderReverses(p, k)
  \/ \E p \in Payouts : SweepInitiate(p) \/ SweepReconcile(p)

\* Requests run on, the provider ends what it took, and every sweep goes
\* through the whole list: no stale row is passed over for ever.
PayoutsFairness ==
  /\ \A w \in Workers : WF_payoutVars(Continue(w))
  /\ \A p \in Payouts : /\ WF_payoutVars(\E k \in Refs : ProviderEnds(p, k))
                        /\ SF_payoutVars(SweepInitiate(p) \/ SweepReconcile(p))

PayoutsSpec == PayoutsInit /\ [][PayoutsNext]_payoutVars
FairPayoutsSpec == PayoutsSpec /\ PayoutsFairness

----------------------------------------------------------------------------
(* Properties *)

\* What is in flight or paid exceeds everything ever earned only by payouts
\* that no request compared with the balance: retried or settled after their
\* money had been released, created while another request was checking, or
\* paid between its two sums.  (PayoutsService.request, lockInFlightPayouts)
CommittedExplained == Total(InStatus(Committed)) <= credits + Total(unchecked)

\* A payout is marked paid only when a transfer of it succeeded at some time
\* or an admin settled it.  (finalize, settleOffPlatform)
PaidIsBacked == InStatus({"paid"}) \subseteq manual \cup succeeded

\* "a null reference proves un-sent": whatever crashed, and in whichever
\* order two initiations ran.  (initiate)
NullRefUnsent == \A p \in Payouts, k \in Refs : ref[p] = 0 => transfer[p][k] = "none"

\* Unless two admins approved it, a payout is sent under one reference only,
\* however often it is retried, swept or restarted.  (initiate)
OneReference ==
  \A p \in Payouts : approvals[p] <= 1
    => Cardinality({k \in Refs : transfer[p][k] # "none"}) <= 1

\* Money that went out stays counted as committed, for payouts that were
\* approved at most once, never retried, and neither parked nor rejected over
\* a transfer: in any order of answer, webhook, sweep and crash.  (finalize)
SuccessIsCommitted ==
  \A p \in Payouts, k \in Refs :
    transfer[p][k] = "success" /\ approvals[p] <= 1 /\ p \notin doubtful
      => status[p] \in Committed

\* The balance's promise, with its two ways around: what is committed was
\* checked against the earnings, and money that went out stays committed.
BalanceExplained == CommittedExplained /\ SuccessIsCommitted

\* A payout created for review is sent only after an approval, and one that
\* was rejected while in review never.  (request, approve, reject, sweepStuck)
ReviewDecides ==
  \A p \in Payouts, k \in Refs : transfer[p][k] # "none" =>
    /\ p \in reviewed => approvals[p] > 0
    /\ status[p] = "rejected" => p \in doubtful

\* "Recovers stranded payouts: un-sent rows are initiated, the rest
\* pull-verified."  (comment on sweepStuck)
RecoversStranded ==
  \A p \in Payouts : status[p] \in {"requested", "approved", "processing"}
                       ~> status[p] \in Terminal

=============================================================================
