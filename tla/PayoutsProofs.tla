--------------------------- MODULE PayoutsProofs ---------------------------
(***************************************************************************)
(* What holds of the payouts for any number of payouts, sessions,          *)
(* references, debits, admin calls and crashes.                            *)
(*                                                                         *)
(* PayoutInv adds to the types what a job may rely on although it looks at *)
(* the row only once: a row that is being created belongs to its request   *)
(* alone, a job that is about to send has stored a reference, and a row    *)
(* under review has no job that could send it.  FullInv adds what the      *)
(* references, the outcome of a transfer and the balance need of the jobs  *)
(* that are still on their way: who holds which reference, who may yet     *)
(* send, and what a request that is still checking has compared.           *)
(***************************************************************************)
EXTENDS Payouts, SumLemmas, TLAPS

Requesting == {"summary", "checkInFlight", "insert"}
Deciding == {"approve", "reject"}
Acting == {"settle", "park", "initiate", "persist", "send", "sent", "verify", "apply"}

\* A job on a row that is being created is the only one on it; every other job
\* is about a row that exists.
JobsOK ==
  \A w \in Workers :
    /\ job[w].pc \in Requesting =>
         /\ status[job[w].payout] = "none"
         /\ \A v \in Workers \ {w} : job[v].pc # "free" => job[v].payout # job[w].payout
    /\ job[w].pc \in Deciding \cup Acting => status[job[w].payout] # "none"

SendingOK == \A w \in Workers : job[w].pc \in {"send", "sent"} => ref[job[w].payout] # 0

NewOK == \A p \in Payouts : status[p] = "none" => ref[p] = 0 /\ approvals[p] = 0

\* Until somebody approves it, a row under review is neither sent nor about to be.
UnapprovedOK ==
  \A p \in Payouts : p \in reviewed /\ approvals[p] = 0 =>
    /\ status[p] \in {"pending_review", "rejected"}
    /\ ref[p] = 0
    /\ \A w \in Workers : job[w].pc \in Acting => job[w].payout # p

UnderReviewOK ==
  \A p \in Payouts :
    status[p] = "pending_review" \/ (status[p] = "rejected" /\ p \notin doubtful)
      => p \in reviewed /\ approvals[p] = 0

\* Whoever is told that a transfer succeeded is told the truth.
ReportsOK ==
  /\ \A p \in Payouts, k \in Refs : transfer[p][k] = "success" => p \in succeeded
  /\ \A m \in inbox : m.outcome = "paid" => m.payout \in succeeded
  /\ \A w \in Workers : job[w].pc = "apply" /\ job[w].outcome = "paid"
                          => job[w].payout \in succeeded

RowInv == JobsOK /\ SendingOK /\ NewOK /\ NullRefUnsent /\ UnapprovedOK /\ UnderReviewOK
MoneyInv == ReportsOK /\ PaidIsBacked
PayoutInv == PayoutsTypeOK /\ RowInv /\ MoneyInv

----------------------------------------------------------------------------
(* Types *)

\* Amounts add up to a number.
LEMMA TotalNat ==
  ASSUME NEW S \in SUBSET Payouts
  PROVE  IsFiniteSet(S) /\ Total(S) \in Nat /\ Total(S) = SumOver(Amount, S)
<1>1. IsFiniteSet(S) /\ \A p \in S : Amount[p] \in Nat
  BY PayoutsAssumption, FS_Subset
<1>2. Total(S) = SumOver(Amount, S)
  BY DEF Total, SumOver
<1> QED BY <1>1, <1>2, SumNat

\* What a job carries, by where it stands.
LEMMA JobFields ==
  ASSUME NEW j \in Job
  PROVE  /\ j.pc \in {"free"} \cup Requesting \cup Deciding \cup Acting
         /\ j.pc = "free" => j = Free
         /\ j.pc # "free" => j.payout \in Payouts
         /\ j.pc \in Requesting => j.review \in BOOLEAN
         /\ j.pc \in {"initiate", "persist", "send", "sent"} => j.safe \in BOOLEAN
         /\ j.pc \in {"persist", "send", "sent", "verify", "apply"} => j.ref \in Refs
         /\ j.pc = "apply" => j.outcome \in Outcome
  BY DEF Job, Free, Requesting, Deciding, Acting

\* The jobs that handlers go on to.
LEMMA NextJobs ==
  ASSUME NEW p \in Payouts
  PROVE  /\ Free \in Job
         /\ \A n \in Nat, b \in BOOLEAN :
              [pc |-> "summary", payout |-> p, paidOut |-> n, review |-> b] \in Job
         /\ \A b \in BOOLEAN : /\ [pc |-> "checkInFlight", payout |-> p, review |-> b] \in Job
                               /\ [pc |-> "initiate", payout |-> p, safe |-> b] \in Job
         /\ \A c \in {"approve", "reject", "settle", "park"} : [pc |-> c, payout |-> p] \in Job
         /\ \A b \in BOOLEAN, k \in Refs, c \in {"persist", "send", "sent"} :
              [pc |-> c, payout |-> p, safe |-> b, ref |-> k] \in Job
         /\ \A k \in Refs : [pc |-> "verify", payout |-> p, ref |-> k] \in Job
         /\ \A k \in Refs, o \in Outcome :
              [pc |-> "apply", payout |-> p, ref |-> k, outcome |-> o] \in Job
  BY DEF Job, Free

\* A step of a request, or of a sending, keeps what the job carries.
LEMMA JobGoesOn ==
  ASSUME NEW j \in Job
  PROVE  /\ j.pc = "checkInFlight" =>
              /\ [j EXCEPT !.pc = "insert"] \in Job
              /\ [j EXCEPT !.pc = "insert"].pc = "insert"
              /\ [j EXCEPT !.pc = "insert"].payout = j.payout
         /\ \A c \in {"send", "sent"} : j.pc \in {"persist", "send"} =>
              /\ [j EXCEPT !.pc = c] \in Job
              /\ [j EXCEPT !.pc = c].pc = c
              /\ [j EXCEPT !.pc = c].payout = j.payout
              /\ [j EXCEPT !.pc = c].ref = j.ref
  BY DEF Job, Free

\* One worker changes its job.
LEMMA BecomeJob ==
  ASSUME PayoutsTypeOK, NEW w \in Workers, NEW j \in Job, Become(w, j)
  PROVE  /\ job' \in [Workers -> Job]
         /\ job'[w] = j
         /\ \A v \in Workers \ {w} : job'[v] = job[v]
  BY DEF PayoutsTypeOK, Become

\* One row changes its status.
LEMMA SetStatusRow ==
  ASSUME PayoutsTypeOK, NEW p \in Payouts, NEW s \in PayoutStatus, SetStatus(p, s)
  PROVE  /\ status' \in [Payouts -> PayoutStatus \cup {"none"}]
         /\ status'[p] = s
         /\ \A q \in Payouts \ {p} : status'[q] = status[q]
         /\ unchecked' \subseteq Payouts
<1>1. status' = [status EXCEPT ![p] = s]
  BY DEF SetStatus
<1>2. unchecked' = unchecked \/ unchecked' = unchecked \cup {p}
  BY DEF SetStatus
<1> QED
  BY <1>1, <1>2 DEF PayoutsTypeOK

\* finalize leaves the row alone or writes what it was told, a reversal as a
\* failure.
LEMMA FinalizeRow ==
  ASSUME PayoutsTypeOK, NEW p \in Payouts, NEW k \in Refs, NEW outcome \in Outcome,
         Finalize(p, k, outcome)
  PROVE  /\ status' \in [Payouts -> PayoutStatus \cup {"none"}]
         /\ unchecked' \subseteq Payouts
         /\ \A q \in Payouts \ {p} : status'[q] = status[q]
         /\ \/ status'[p] = status[p]
            \/ /\ ref[p] = k
               /\ status[p] \notin {"failed", "rejected"}
               /\ status'[p] = IF outcome = "paid" THEN "paid" ELSE "failed"
<1> DEFINE s == IF outcome = "reversed" THEN "failed" ELSE outcome
<1>1. s \in PayoutStatus /\ s = IF outcome = "paid" THEN "paid" ELSE "failed"
  BY DEF Outcome, PayoutStatus, InFlight, Terminal
<1>2. CASE UNCHANGED <<status, unchecked>>
  BY <1>2 DEF PayoutsTypeOK
<1>3. CASE ~UNCHANGED <<status, unchecked>>
  <2>1. ref[p] = k /\ status[p] \notin {"failed", "rejected"} /\ SetStatus(p, s)
    BY <1>3 DEF Finalize, Terminal
  <2> QED
    BY <1>1, <2>1, SetStatusRow
<1> QED
  BY <1>2, <1>3

\* The initial rows and jobs have their types.
LEMMA PayoutsTypeInit == PayoutsInit => PayoutsTypeOK
  BY PayoutsAssumption
     DEF PayoutsInit, PayoutsTypeOK, Refs, Job, Free, TransferState, PayoutStatus

\* No step of a request, an admin, the sweep or the provider leaves the types.
LEMMA PayoutsTypeStep == PayoutsTypeOK /\ [PayoutsNext]_payoutVars => PayoutsTypeOK'
<1> SUFFICES ASSUME PayoutsTypeOK, [PayoutsNext]_payoutVars PROVE PayoutsTypeOK'
  OBVIOUS
<1> USE PayoutsAssumption
<1> DEFINE Rest == <<ref, earned, upsets, transfer, inbox, succeeded, credits, manual,
                     reviewed, approvals, doubtful>>
           Rows == <<status, unchecked>>
<1>0. /\ job \in [Workers -> Job]
      /\ \A S \in SUBSET PayoutStatus : Total(InStatus(S)) \in Nat
  BY TotalNat DEF PayoutsTypeOK, InStatus
\* every step of one worker becomes a job of the right form
<1>a. ASSUME NEW w \in Workers, NEW j \in Job, Become(w, j), UNCHANGED <<Rest, Rows>>
      PROVE  PayoutsTypeOK'
  <2>1. job' \in [Workers -> Job]
    BY <1>a, BecomeJob
  <2> QED
    BY <1>a, <2>1 DEF PayoutsTypeOK
<1>b. ASSUME NEW w \in Workers, NEW j \in Job, Become(w, j), NEW p \in Payouts,
             NEW s \in PayoutStatus, SetStatus(p, s)
      PROVE  /\ job' \in [Workers -> Job]
             /\ status' \in [Payouts -> PayoutStatus \cup {"none"}]
             /\ unchecked' \subseteq Payouts
  BY <1>b, BecomeJob, SetStatusRow
<1>c. {"paid", "requested", "pending_review", "approved", "processing", "rejected", "failed"}
        = PayoutStatus
  BY DEF PayoutStatus, InFlight, Terminal
<1>1. CASE Credit
  BY <1>1 DEF Credit, PayoutsTypeOK, provider, history
<1>2. CASE Debit
  BY <1>2 DEF Debit, Another, PayoutsTypeOK, provider, history
<1>3. CASE Crash
  <2>1. job' \in [Workers -> Job]
    BY <1>3 DEF Crash, Job
  <2> QED
    BY <1>3, <2>1 DEF Crash, Another, PayoutsTypeOK, provider, history
<1>4. ASSUME NEW w \in Workers, NEW p \in Payouts, StartRequest(w, p)
      PROVE  PayoutsTypeOK'
  <2> DEFINE review == Amount[p] > AutoMax \/ (ReviewFirst /\ InStatus({"paid"}) = {})
  <2>1. Total(InStatus({"paid"})) \in Nat
    BY <1>0, <1>c
  <2>2. review \in BOOLEAN
    OBVIOUS
  <2> HIDE DEF review
  <2>3. [pc |-> "summary", payout |-> p, paidOut |-> Total(InStatus({"paid"})),
         review |-> review] \in Job
    BY <2>1, <2>2, NextJobs
  <2> QED
    BY <1>4, <1>a, <2>3 DEF StartRequest, provider, history, review
<1>5. ASSUME NEW w \in Workers, NEW p \in Payouts,
             \/ StartApprove(w, p) \/ StartReject(w, p)
             \/ StartRetry(w, p) \/ StartSettle(w, p)
      PROVE  PayoutsTypeOK'
  <2>1. PICK j \in Job : Become(w, j)
    BY <1>5, NextJobs DEF StartApprove, StartReject, StartRetry, StartSettle, Load
  <2>2. job' \in [Workers -> Job]
    BY <2>1, BecomeJob
  <2> QED
    BY <1>5, <2>2
       DEF StartApprove, StartReject, StartRetry, StartSettle, Load, Another, PayoutsTypeOK,
           provider
<1>6. ASSUME NEW w \in Workers, FinishSummary(w) \/ CheckInFlight(w)
      PROVE  PayoutsTypeOK'
  <2>1. job[w].payout \in Payouts /\ job[w].review \in BOOLEAN
    BY <1>0, <1>6, JobFields DEF FinishSummary, CheckInFlight, At, Requesting
  <2>2. PICK j \in Job : Become(w, j)
    BY <1>0, <1>6, <2>1, NextJobs, JobGoesOn DEF FinishSummary, CheckInFlight, At
  <2> QED
    BY <1>6, <1>a, <2>2 DEF FinishSummary, CheckInFlight, provider, history
<1>7. ASSUME NEW w \in Workers, Insert(w)
      PROVE  PayoutsTypeOK'
  <2> DEFINE p == job[w].payout
             j == IF job[w].review THEN Free
                  ELSE [pc |-> "initiate", payout |-> p, safe |-> TRUE]
             s == IF job[w].review THEN "pending_review" ELSE "requested"
  <2>1. p \in Payouts
    BY <1>0, <1>7, JobFields DEF Insert, At, Requesting
  <2>2. j \in Job /\ s \in PayoutStatus
    BY <1>c, <2>1, NextJobs
  <2>3. Become(w, j) /\ SetStatus(p, s)
    BY <1>7 DEF Insert
  <2> HIDE DEF j, s
  <2>4. job' \in [Workers -> Job] /\ status' \in [Payouts -> PayoutStatus \cup {"none"}]
        /\ unchecked' \subseteq Payouts
    BY <1>b, <2>1, <2>2, <2>3
  <2> QED
    BY <1>7, <2>1, <2>4 DEF Insert, PayoutsTypeOK, provider
<1>8. ASSUME NEW w \in Workers,
             Approve(w) \/ Reject(w) \/ SettleOffPlatform(w) \/ MarkProcessing(w) \/ Park(w)
      PROVE  PayoutsTypeOK'
  <2> DEFINE p == job[w].payout
  <2>1. p \in Payouts /\ (MarkProcessing(w) => job[w].ref \in Refs)
    BY <1>0, <1>8, JobFields
       DEF Approve, Reject, SettleOffPlatform, MarkProcessing, Park, At, Deciding, Acting, Free
  <2>2. \E j \in Job, s \in PayoutStatus : Become(w, j) /\ SetStatus(p, s)
    BY <1>8, <1>c, <2>1, NextJobs
       DEF Approve, Reject, SettleOffPlatform, MarkProcessing, Park, Leave, Taken
  <2>3. job' \in [Workers -> Job] /\ status' \in [Payouts -> PayoutStatus \cup {"none"}]
        /\ unchecked' \subseteq Payouts
    BY <1>b, <2>1, <2>2
  <2>4. ref' \in [Payouts -> 0..MaxRefs]
    <3>1. CASE MarkProcessing(w)
      BY <2>1, <3>1 DEF MarkProcessing, PayoutsTypeOK, Refs
    <3>2. CASE ~MarkProcessing(w)
      BY <1>8, <3>2 DEF Approve, Reject, SettleOffPlatform, Park, PayoutsTypeOK
    <3> QED
      BY <3>1, <3>2
  <2>5. approvals' \in [Payouts -> Nat]
    BY <1>8, <2>1
       DEF Approve, Reject, SettleOffPlatform, MarkProcessing, Park, PayoutsTypeOK, history
  <2>6. manual' \subseteq Payouts /\ doubtful' \subseteq Payouts
    BY <1>8, <2>1
       DEF Approve, Reject, SettleOffPlatform, MarkProcessing, Park, PayoutsTypeOK, history
  <2>7. UNCHANGED <<earned, upsets, transfer, inbox, succeeded, credits, reviewed>>
    BY <1>8 DEF Approve, Reject, SettleOffPlatform, MarkProcessing, Park, provider, history
  <2> QED
    BY <2>3, <2>4, <2>5, <2>6, <2>7 DEF PayoutsTypeOK
<1>9. ASSUME NEW w \in Workers, Initiate(w)
      PROVE  PayoutsTypeOK'
  <2> DEFINE p == job[w].payout
  <2>1. p \in Payouts /\ job[w].safe \in BOOLEAN
    BY <1>0, <1>9, JobFields DEF Initiate, At, Acting, Free
  <2>2. Reference(p) \subseteq Refs
    BY <2>1 DEF Reference, Fresh, Refs, PayoutsTypeOK
  <2>3. PICK j \in Job : Become(w, j)
    BY <1>9, <2>1, <2>2, NextJobs DEF Initiate
  <2> QED
    BY <1>9, <1>a, <2>3 DEF Initiate, provider, history
<1>10. ASSUME NEW w \in Workers, PersistReference(w)
       PROVE  PayoutsTypeOK'
  <2>1. job[w].payout \in Payouts /\ job[w].ref \in Refs /\ job[w].pc = "persist"
    BY <1>0, <1>10, JobFields DEF PersistReference, At, Acting, Free
  <2>2. job' \in [Workers -> Job]
    BY <1>0, <1>10, <2>1, BecomeJob, JobGoesOn DEF PersistReference
  <2>3. ref' \in [Payouts -> 0..MaxRefs]
    BY <1>10, <2>1 DEF PersistReference, PayoutsTypeOK, Refs
  <2>4. UNCHANGED <<status, earned, upsets, transfer, inbox, succeeded, credits, manual, reviewed,
                    approvals, doubtful, unchecked>>
    BY <1>10 DEF PersistReference, provider, history
  <2> QED
    BY <2>2, <2>3, <2>4 DEF PayoutsTypeOK
<1>11. ASSUME NEW w \in Workers, SendTaken(w) \/ SendNotTaken(w)
       PROVE  PayoutsTypeOK'
  <2>1. job[w].payout \in Payouts /\ job[w].ref \in Refs /\ job[w].pc = "send"
    BY <1>0, <1>11, JobFields DEF SendTaken, SendNotTaken, At, Acting, Free
  <2>2. SendFailed(job[w]) \in Job
    BY <2>1, NextJobs DEF SendFailed
  <2>3. [job[w] EXCEPT !.pc = "sent"] \in Job
    BY <1>0, <2>1, JobGoesOn
  <2>4. job' \in [Workers -> Job]
    BY <1>11, <2>2, <2>3, BecomeJob DEF SendTaken, SendNotTaken
  <2>5. transfer' \in [Payouts -> [Refs -> TransferState]]
    <3>1. PICK q \in Payouts, k \in Refs :
               transfer' = transfer \/ transfer' = [transfer EXCEPT ![q][k] = "pending"]
      BY <1>11, <2>1 DEF SendTaken, SendNotTaken, provider
    <3> QED
      <4>1. CASE transfer' = transfer
        BY <4>1 DEF PayoutsTypeOK
      <4>2. CASE transfer' = [transfer EXCEPT ![q][k] = "pending"]
        <5>1. transfer[q] \in [Refs -> TransferState] /\ "pending" \in TransferState
          BY DEF PayoutsTypeOK, TransferState
        <5>2. [transfer[q] EXCEPT ![k] = "pending"] \in [Refs -> TransferState]
          BY <5>1
        <5> QED
          BY <4>2, <5>2 DEF PayoutsTypeOK
      <4> QED
        BY <3>1, <4>1, <4>2
  <2> QED
    BY <1>11, <2>1, <2>4, <2>5 DEF SendTaken, SendNotTaken, PayoutsTypeOK, provider, history
<1>12. ASSUME NEW w \in Workers, VerifyTransfer(w)
       PROVE  PayoutsTypeOK'
  <2> DEFINE outcome == MapStatus(transfer[job[w].payout][job[w].ref])
  <2>1. job[w].payout \in Payouts /\ job[w].ref \in Refs
    BY <1>0, <1>12, JobFields DEF VerifyTransfer, At, Acting, Free
  <2>2. outcome \in Outcome \cup {"none"}
    BY DEF MapStatus, Outcome
  <2> HIDE DEF outcome
  <2>3. PICK j \in Job : Become(w, j)
    BY <1>12, <2>1, <2>2, NextJobs DEF VerifyTransfer, outcome
  <2> QED
    BY <1>12, <1>a, <2>3 DEF VerifyTransfer, provider, history
<1>13. ASSUME NEW w \in Workers, ApplyVerified(w)
       PROVE  PayoutsTypeOK'
  <2>1. job[w].payout \in Payouts /\ job[w].ref \in Refs /\ job[w].outcome \in Outcome
    BY <1>0, <1>13, JobFields DEF ApplyVerified, At, Acting, Free
  <2>2. job' \in [Workers -> Job]
    BY <1>13, <2>1, NextJobs, BecomeJob DEF ApplyVerified, Leave
  <2>3. status' \in [Payouts -> PayoutStatus \cup {"none"}] /\ unchecked' \subseteq Payouts
    BY <1>13, <2>1, FinalizeRow DEF ApplyVerified
  <2> QED
    BY <1>13, <2>2, <2>3 DEF ApplyVerified, PayoutsTypeOK, provider, history
<1>14. ASSUME NEW m \in inbox, DeliverWebhook(m)
       PROVE  PayoutsTypeOK'
  <2>1. m.payout \in Payouts /\ m.ref \in Refs /\ m.outcome \in Outcome
    BY DEF PayoutsTypeOK
  <2>2. status' \in [Payouts -> PayoutStatus \cup {"none"}] /\ unchecked' \subseteq Payouts
    BY <1>14, <2>1, FinalizeRow DEF DeliverWebhook
  <2> QED
    BY <1>14, <2>2 DEF DeliverWebhook, PayoutsTypeOK, history
<1>15. ASSUME NEW p \in Payouts, NEW k \in Refs, ProviderEnds(p, k) \/ ProviderReverses(p, k)
       PROVE  PayoutsTypeOK'
  <2>1. \E s \in TransferState, o \in Outcome : ProviderSettles(p, k, s, o)
    BY <1>15 DEF ProviderEnds, ProviderReverses, TransferState, Outcome
  <2> QED
    BY <2>1 DEF ProviderSettles, PayoutsTypeOK, history
<1>16. ASSUME NEW p \in Payouts, SweepInitiate(p) \/ SweepReconcile(p)
       PROVE  PayoutsTypeOK'
  <2>1. Cron \in Workers /\ (SweepReconcile(p) => ref[p] \in Refs)
    BY DEF Workers, SweepReconcile, PayoutsTypeOK, Refs
  <2>2. PICK j \in Job : Become(Cron, j)
    BY <1>16, <2>1, NextJobs DEF SweepInitiate, SweepReconcile
  <2> QED
    BY <1>16, <1>a, <2>1, <2>2 DEF SweepInitiate, SweepReconcile, provider, history
<1>17. CASE UNCHANGED payoutVars
  BY <1>17 DEF payoutVars, PayoutsTypeOK, provider, history
<1> QED
  BY <1>1, <1>2, <1>3, <1>4, <1>5, <1>6, <1>7, <1>8, <1>9, <1>10, <1>11, <1>12, <1>13,
     <1>14, <1>15, <1>16, <1>17 DEF PayoutsNext, Continue, Workers

\* Every value stays of its type: PayoutsTypeOK for all constants.
THEOREM PayoutsTypeCorrect == PayoutsSpec => []PayoutsTypeOK
  BY PayoutsTypeInit, PayoutsTypeStep, PTL DEF PayoutsSpec

----------------------------------------------------------------------------
(* Rows and the jobs on them *)

\* A worker takes up a job, or goes on with one, without writing the row.
LEMMA RowsKept ==
  ASSUME PayoutsTypeOK, RowInv, NEW w \in Workers, NEW j \in Job, Become(w, j),
         UNCHANGED <<status, ref, approvals, reviewed, transfer>>, doubtful \subseteq doubtful',
         j.pc \in Requesting =>
           /\ status[j.payout] = "none"
           /\ \A v \in Workers \ {w} : job[v].pc # "free" => job[v].payout # j.payout,
         j.pc \in Deciding \cup Acting => status[j.payout] # "none",
         j.pc \in {"send", "sent"} => ref[j.payout] # 0,
         j.pc \in Acting => ~(j.payout \in reviewed /\ approvals[j.payout] = 0)
  PROVE  RowInv'
<1>1. job'[w] = j /\ \A v \in Workers \ {w} : job'[v] = job[v]
  BY BecomeJob
<1>2. \A v \in Workers : job[v].pc \in {"free"} \cup Requesting \cup Deciding \cup Acting
  BY JobFields DEF PayoutsTypeOK
<1>3. j.pc \in {"free"} \cup Requesting \cup Deciding \cup Acting
  BY JobFields
<1>4. JobsOK'
  BY <1>1, <1>2, <1>3 DEF RowInv, JobsOK, Requesting, Deciding, Acting
<1>5. SendingOK'
  BY <1>1 DEF RowInv, SendingOK
<1>6. UnapprovedOK'
  BY <1>1 DEF RowInv, UnapprovedOK
<1>7. NewOK' /\ NullRefUnsent' /\ UnderReviewOK'
  BY DEF RowInv, NewOK, NullRefUnsent, UnderReviewOK
<1> QED
  BY <1>4, <1>5, <1>6, <1>7 DEF RowInv

\* A row that exists is written; a worker who does so leaves or goes on with it.
LEMMA RowWritten ==
  ASSUME PayoutsTypeOK, RowInv, NEW p \in Payouts,
         \A v \in Workers : \/ job'[v] = job[v]
                            \/ job'[v].pc = "free"
                            \/ job'[v].pc \in Acting /\ job'[v].payout = p,
         \A q \in Payouts \ {p} : /\ status'[q] = status[q] /\ ref'[q] = ref[q]
                                  /\ approvals'[q] = approvals[q] /\ transfer'[q] = transfer[q],
         reviewed' = reviewed, doubtful \subseteq doubtful',
         status[p] # "none", status'[p] # "none",
         ref[p] # 0 => ref'[p] # 0,
         \A v \in Workers : job'[v] # job[v] /\ job'[v].pc \in {"send", "sent"} => ref'[p] # 0,
         ref'[p] = 0 => \A k \in Refs : transfer'[p][k] = "none",
         p \in reviewed /\ approvals'[p] = 0 =>
           /\ status'[p] \in {"pending_review", "rejected"} /\ ref'[p] = 0
           /\ \A v \in Workers : job'[v].pc \in Acting => job'[v].payout # p,
         status'[p] = "pending_review" \/ (status'[p] = "rejected" /\ p \notin doubtful')
           => p \in reviewed /\ approvals'[p] = 0
  PROVE  RowInv'
<1>1. \A v \in Workers : /\ job[v].pc \in {"free"} \cup Requesting \cup Deciding \cup Acting
                         /\ job[v].pc # "free" => job[v].payout \in Payouts
  BY JobFields DEF PayoutsTypeOK
<1>2. JobsOK'
  BY <1>1 DEF RowInv, JobsOK, Requesting, Deciding, Acting
<1>3. SendingOK'
  BY <1>1 DEF RowInv, SendingOK, Requesting, Deciding, Acting
<1>4. UnapprovedOK'
  BY DEF RowInv, UnapprovedOK, Acting
<1>5. NewOK' /\ NullRefUnsent' /\ UnderReviewOK'
  BY DEF RowInv, NewOK, NullRefUnsent, UnderReviewOK
<1> QED
  BY <1>2, <1>3, <1>4, <1>5 DEF RowInv

\* The request's own insertion: the row was its alone.
LEMMA InsertRow ==
  ASSUME PayoutsTypeOK, RowInv, NEW w \in Workers, Insert(w)
  PROVE  RowInv'
<1> DEFINE p == job[w].payout
           review == job[w].review
           j == IF review THEN Free ELSE [pc |-> "initiate", payout |-> p, safe |-> TRUE]
           s == IF review THEN "pending_review" ELSE "requested"
<1>1. /\ p \in Payouts /\ j \in Job /\ s \in PayoutStatus
      /\ \A v \in Workers : /\ job[v].pc \in {"free"} \cup Requesting \cup Deciding \cup Acting
                            /\ job[v].pc # "free" => job[v].payout \in Payouts
  BY JobFields, NextJobs
     DEF Insert, At, PayoutsTypeOK, Requesting, PayoutStatus, InFlight
<1>2. /\ Become(w, j) /\ SetStatus(p, s)
      /\ reviewed' = IF review THEN reviewed \cup {p} ELSE reviewed
      /\ UNCHANGED <<ref, transfer, approvals, doubtful>>
  BY DEF Insert, provider
<1>3. /\ job'[w] = j /\ \A v \in Workers \ {w} : job'[v] = job[v]
      /\ status'[p] = s /\ \A q \in Payouts \ {p} : status'[q] = status[q]
  BY <1>1, <1>2, BecomeJob, SetStatusRow
<1>4. /\ status[p] = "none" /\ ref[p] = 0 /\ approvals[p] = 0
      /\ \A v \in Workers \ {w} : job[v].pc # "free" => job[v].payout # p
  BY <1>1 DEF Insert, At, RowInv, JobsOK, NewOK, Requesting
<1>5. p \notin reviewed
  BY <1>1, <1>4 DEF RowInv, UnapprovedOK
<1>6. /\ j.pc \in {"free", "initiate"} /\ (j.pc = "free" <=> review)
      /\ j.pc # "free" => j.payout = p
      /\ s # "none" /\ (s = "pending_review" <=> review) /\ s # "rejected"
  BY DEF Free
<1> HIDE DEF p, j, s, review
<1>7. JobsOK'
  BY <1>1, <1>3, <1>4, <1>6 DEF RowInv, JobsOK, Requesting, Deciding, Acting
<1>8. SendingOK' /\ NewOK' /\ NullRefUnsent'
  BY <1>1, <1>2, <1>3, <1>4, <1>6 DEF RowInv, SendingOK, NewOK, NullRefUnsent
<1>9. UnapprovedOK'
  BY <1>1, <1>2, <1>3, <1>4, <1>5, <1>6 DEF RowInv, UnapprovedOK, Acting
<1>10. UnderReviewOK'
  BY <1>1, <1>2, <1>3, <1>4, <1>6 DEF RowInv, UnderReviewOK
<1> QED
  BY <1>7, <1>8, <1>9, <1>10 DEF RowInv

\* Steps that read a row, or start a job.
LEMMA ReadersKeepRows ==
  ASSUME PayoutsTypeOK, RowInv, NEW w \in Workers,
         \/ \E p \in Payouts : \/ StartRequest(w, p) \/ StartApprove(w, p) \/ StartReject(w, p)
                               \/ StartRetry(w, p) \/ StartSettle(w, p)
                               \/ w = Cron /\ (SweepInitiate(p) \/ SweepReconcile(p))
         \/ FinishSummary(w) \/ CheckInFlight(w) \/ Initiate(w) \/ SendNotTaken(w)
         \/ VerifyTransfer(w),
         PayoutsTypeOK'
  PROVE  RowInv'
<1>1. UNCHANGED <<status, ref, approvals, reviewed, transfer>> /\ doubtful \subseteq doubtful'
  BY DEF StartRequest, StartApprove, StartReject, StartRetry, StartSettle, Load, SweepInitiate,
         SweepReconcile, FinishSummary, CheckInFlight, Initiate, SendNotTaken, VerifyTransfer,
         provider, history
<1> DEFINE Kept(j) ==
      /\ j.pc \in Requesting =>
           /\ status[j.payout] = "none"
           /\ \A v \in Workers \ {w} : job[v].pc # "free" => job[v].payout # j.payout
      /\ j.pc \in Deciding \cup Acting => status[j.payout] # "none"
      /\ j.pc \in {"send", "sent"} => ref[j.payout] # 0
      /\ j.pc \in Acting => ~(j.payout \in reviewed /\ approvals[j.payout] = 0)
<1>2. job' \in [Workers -> Job] /\ job'[w] \in Job /\ job[w] \in Job
  BY DEF PayoutsTypeOK
<1>3. ASSUME Become(w, job'[w]), Kept(job'[w])
      PROVE  RowInv'
  BY <1>1, <1>2, <1>3, RowsKept
<1>4. ASSUME NEW j, Become(w, j)
      PROVE  job'[w] = j /\ Become(w, job'[w])
  BY <1>4 DEF Become, PayoutsTypeOK
<1>5. Kept(Free)
  BY DEF Free, Requesting, Deciding, Acting
<1> HIDE DEF Kept
<1>6. /\ \A p \in Payouts : p \in reviewed /\ approvals[p] = 0
                              => status[p] \in {"pending_review", "rejected"} /\ ref[p] = 0
      /\ job[w].pc \in Acting => /\ status[job[w].payout] # "none"
                                 /\ ~(/\ job[w].payout \in reviewed
                                      /\ approvals[job[w].payout] = 0)
  <2>1. job[w].pc \in Acting => job[w].payout \in Payouts
    BY <1>2, JobFields DEF Acting
  <2> QED
    BY <2>1 DEF RowInv, UnapprovedOK, JobsOK
<1>7. ASSUME NEW p \in Payouts, StartRequest(w, p)
      PROVE  RowInv'
  <2>1. job'[w].pc = "summary" /\ job'[w].payout = p /\ Become(w, job'[w])
    BY <1>4, <1>7 DEF StartRequest
  <2>2. Kept(job'[w])
    BY <1>7, <2>1 DEF StartRequest, Untouched, Kept, Requesting, Deciding, Acting
  <2> QED
    BY <1>3, <2>1, <2>2
<1>8. ASSUME NEW p \in Payouts, StartApprove(w, p) \/ StartReject(w, p)
      PROVE  RowInv'
  <2>1. /\ job'[w].pc \in {"approve", "reject"} /\ job'[w].payout = p /\ Become(w, job'[w])
        /\ status[p] = "pending_review"
    BY <1>4, <1>8 DEF StartApprove, StartReject, Load
  <2>2. Kept(job'[w])
    BY <2>1 DEF Kept, Requesting, Deciding, Acting
  <2> QED
    BY <1>3, <2>1, <2>2
<1>9. ASSUME NEW p \in Payouts,
             \/ StartRetry(w, p) \/ StartSettle(w, p)
             \/ w = Cron /\ (SweepInitiate(p) \/ SweepReconcile(p))
      PROVE  RowInv'
  <2>1. /\ job'[w].pc \in {"settle", "initiate", "verify"} /\ job'[w].payout = p
        /\ Become(w, job'[w]) /\ status[p] \in {"failed", "requested", "processing"}
    BY <1>4, <1>9 DEF StartRetry, StartSettle, Load, SweepInitiate, SweepReconcile, Unsent
  <2>2. Kept(job'[w])
    BY <1>6, <2>1 DEF Kept, Requesting, Deciding, Acting
  <2> QED
    BY <1>3, <2>1, <2>2
<1>10. CASE FinishSummary(w) \/ CheckInFlight(w)
  <2> DEFINE next == [pc |-> "checkInFlight", payout |-> job[w].payout, review |-> job[w].review]
             last == [job[w] EXCEPT !.pc = "insert"]
  <2>a. /\ job[w].pc \in {"summary", "checkInFlight"}
        /\ \/ Become(w, Free) \/ Become(w, next)
           \/ job[w].pc = "checkInFlight" /\ Become(w, last)
    BY <1>10 DEF FinishSummary, CheckInFlight, At
  <2>b. job[w].pc = "checkInFlight" => last.pc = "insert" /\ last.payout = job[w].payout
    BY <1>2, JobGoesOn
  <2>1. /\ Become(w, job'[w]) /\ job[w].pc \in {"summary", "checkInFlight"}
        /\ \/ job'[w] = Free
           \/ job'[w].pc \in {"checkInFlight", "insert"} /\ job'[w].payout = job[w].payout
    <3> HIDE DEF last
    <3> QED
      BY <1>4, <2>a, <2>b
  <2>2. Kept(job'[w])
    BY <1>5, <2>1 DEF Kept, RowInv, JobsOK, Requesting, Deciding, Acting
  <2> QED
    BY <1>3, <2>1, <2>2
<1>11. CASE Initiate(w)
  <2>1. /\ Become(w, job'[w]) /\ job[w].pc = "initiate" /\ job'[w].payout = job[w].payout
        /\ job'[w].pc = IF ref[job[w].payout] = 0 THEN "persist" ELSE "send"
    BY <1>4, <1>11 DEF Initiate, At
  <2>2. Kept(job'[w])
    BY <1>6, <2>1 DEF Kept, Requesting, Deciding, Acting
  <2> QED
    BY <1>3, <2>1, <2>2
<1>12. CASE SendNotTaken(w)
  <2>1. /\ Become(w, job'[w]) /\ job[w].pc = "send"
        /\ \/ job'[w] = Free
           \/ job'[w].pc \in {"park", "sent"} /\ job'[w].payout = job[w].payout
    <3> DEFINE last == [job[w] EXCEPT !.pc = "sent"]
    <3>1. job[w].pc = "send"
      BY <1>12 DEF SendNotTaken, At
    <3>2. Become(w, Free) \/ Become(w, [pc |-> "park", payout |-> job[w].payout])
            \/ Become(w, last)
      BY <1>12 DEF SendNotTaken, SendFailed
    <3>3. last.pc = "sent" /\ last.payout = job[w].payout
      BY <1>2, <3>1, JobGoesOn
    <3> HIDE DEF last
    <3> QED
      BY <1>4, <3>1, <3>2, <3>3
  <2>2. Kept(job'[w])
    BY <1>5, <1>6, <2>1 DEF Kept, RowInv, SendingOK, Requesting, Deciding, Acting
  <2> QED
    BY <1>3, <2>1, <2>2
<1>13. CASE VerifyTransfer(w)
  <2>1. /\ Become(w, job'[w]) /\ job[w].pc = "verify"
        /\ \/ job'[w] = Free
           \/ job'[w].pc = "apply" /\ job'[w].payout = job[w].payout
    BY <1>4, <1>13 DEF VerifyTransfer, At
  <2>2. Kept(job'[w])
    BY <1>5, <1>6, <2>1 DEF Kept, Requesting, Deciding, Acting
  <2> QED
    BY <1>3, <2>1, <2>2
<1> QED
  BY <1>7, <1>8, <1>9, <1>10, <1>11, <1>12, <1>13

\* Steps that write a row.
LEMMA WritersKeepRows ==
  ASSUME PayoutsTypeOK, PayoutsTypeOK', RowInv, NEW w \in Workers,
         \/ Approve(w) \/ Reject(w) \/ SettleOffPlatform(w) \/ PersistReference(w)
         \/ SendTaken(w) \/ MarkProcessing(w) \/ Park(w) \/ ApplyVerified(w)
  PROVE  RowInv'
<1> DEFINE p == job[w].payout
<1>1. /\ job \in [Workers -> Job] /\ job[w] \in Job /\ p \in Payouts
      /\ job[w].pc \in Deciding \cup Acting
      /\ job[w].pc \in {"persist", "send", "sent", "apply"} => job[w].ref \in Refs
      /\ job[w].pc = "apply" => job[w].outcome \in Outcome
  BY JobFields
     DEF PayoutsTypeOK, Approve, Reject, SettleOffPlatform, PersistReference, SendTaken,
         MarkProcessing, Park, ApplyVerified, At, Deciding, Acting, Free
<1>2. /\ status[p] # "none"
      /\ p \in reviewed /\ approvals[p] = 0 => ref[p] = 0 /\ job[w].pc \notin Acting
  BY <1>1 DEF RowInv, JobsOK, UnapprovedOK
<1>3. ref[p] \in 0..MaxRefs /\ MaxRefs \in Nat \ {0}
  BY <1>1, PayoutsAssumption DEF PayoutsTypeOK
\* what a step does to the job
<1>4. ASSUME NEW j, Become(w, j)
      PROVE  job'[w] = j /\ \A v \in Workers \ {w} : job'[v] = job[v]
  BY <1>1, <1>4 DEF Become
<1>5. ASSUME NEW s \in PayoutStatus, SetStatus(p, s)
      PROVE  status'[p] = s /\ \A q \in Payouts \ {p} : status'[q] = status[q]
  BY <1>1, <1>5, SetStatusRow
<1>c. {"paid", "approved", "processing", "rejected", "failed"} \subseteq PayoutStatus
  BY DEF PayoutStatus, InFlight, Terminal
<1>6. ref[p] = 0 => \A k \in Refs : transfer[p][k] = "none"
  BY <1>1 DEF RowInv, NullRefUnsent
<1> HIDE DEF p
<1>7. CASE Approve(w)
  <2>1. /\ Become(w, [pc |-> "initiate", payout |-> p, safe |-> TRUE])
        /\ SetStatus(p, "approved")
        /\ approvals' = [approvals EXCEPT ![p] = @ + 1]
        /\ UNCHANGED <<ref, transfer, reviewed, doubtful>>
    BY <1>7 DEF Approve, provider, p
  <2>2. /\ job'[w].pc = "initiate" /\ job'[w].payout = p
        /\ \A v \in Workers \ {w} : job'[v] = job[v]
    BY <1>4, <2>1
  <2>3. status'[p] = "approved" /\ \A q \in Payouts \ {p} : status'[q] = status[q]
    BY <1>5, <1>c, <2>1
  <2>4. approvals'[p] # 0 /\ \A q \in Payouts \ {p} : approvals'[q] = approvals[q]
    BY <1>1, <2>1 DEF PayoutsTypeOK
  <2> QED
    BY <1>1, <1>2, <1>6, <2>1, <2>2, <2>3, <2>4, RowWritten DEF Acting
<1>8. CASE Reject(w)
  <2>1. /\ Become(w, Free) /\ SetStatus(p, "rejected")
        /\ UNCHANGED <<ref, transfer, reviewed, approvals>>
        /\ doubtful \subseteq doubtful'
        /\ status[p] = "pending_review" \/ p \in doubtful'
    BY <1>8 DEF Reject, Leave, provider, p
  <2>2. job'[w].pc = "free" /\ \A v \in Workers \ {w} : job'[v] = job[v]
    BY <1>4, <2>1 DEF Free
  <2>3. status'[p] = "rejected" /\ \A q \in Payouts \ {p} : status'[q] = status[q]
    BY <1>5, <1>c, <2>1
  <2>4. status[p] = "pending_review" => p \in reviewed /\ approvals[p] = 0
    BY <1>1 DEF RowInv, UnderReviewOK
  <2>5. p \in reviewed /\ approvals[p] = 0
          => \A v \in Workers : job'[v].pc \in Acting => job'[v].payout # p
    BY <1>1, <2>2 DEF RowInv, UnapprovedOK, Acting
  <2> QED
    BY <1>1, <1>2, <1>6, <2>1, <2>2, <2>3, <2>4, <2>5, RowWritten
<1>9. CASE SettleOffPlatform(w) \/ MarkProcessing(w) \/ Park(w)
  <2>1. /\ job[w].pc \in Acting /\ Become(w, Free)
        /\ \E s \in {"paid", "processing", "failed"} : SetStatus(p, s)
        /\ UNCHANGED <<transfer, reviewed, approvals, doubtful>>
        /\ UNCHANGED ref \/ (ref' = [ref EXCEPT ![p] = job[w].ref] /\ job[w].ref \in Refs)
    BY <1>1, <1>9
       DEF SettleOffPlatform, MarkProcessing, Park, Leave, Taken, At, Acting, provider, history, p
  <2>2. job'[w].pc = "free" /\ \A v \in Workers \ {w} : job'[v] = job[v]
    BY <1>4, <2>1 DEF Free
  <2>3. /\ status'[p] \in {"paid", "processing", "failed"}
        /\ \A q \in Payouts \ {p} : status'[q] = status[q]
    BY <1>5, <1>c, <2>1
  <2>4. /\ ref'[p] = 0 => ref[p] = 0
        /\ \A q \in Payouts \ {p} : ref'[q] = ref[q]
    BY <1>1, <1>3, <2>1 DEF PayoutsTypeOK, Refs
  <2> QED
    BY <1>1, <1>2, <1>6, <2>1, <2>2, <2>3, <2>4, RowWritten
<1>10. CASE PersistReference(w)
  <2> DEFINE next == [job[w] EXCEPT !.pc = "send"]
  <2>1. /\ job[w].pc = "persist" /\ Become(w, next)
        /\ ref' = [ref EXCEPT ![p] = job[w].ref] /\ job[w].ref \in Refs
        /\ UNCHANGED <<status, transfer, reviewed, approvals, doubtful>>
    BY <1>1, <1>10 DEF PersistReference, At, provider, history, p
  <2>2. next.pc = "send" /\ next.payout = p
    BY <1>1, <2>1, JobGoesOn DEF p
  <2> HIDE DEF next
  <2>3. job'[w].pc = "send" /\ job'[w].payout = p /\ \A v \in Workers \ {w} : job'[v] = job[v]
    BY <1>4, <2>1, <2>2
  <2>4. ref'[p] # 0 /\ \A q \in Payouts \ {p} : ref'[q] = ref[q]
    BY <1>1, <1>3, <2>1 DEF PayoutsTypeOK, Refs
  <2>5. job[w].pc \in Acting
    BY <2>1 DEF Acting
  <2>6. status[p] = "pending_review" \/ (status[p] = "rejected" /\ p \notin doubtful)
          => p \in reviewed /\ approvals[p] = 0
    BY <1>1 DEF RowInv, UnderReviewOK
  <2> QED
    BY <1>1, <1>2, <2>1, <2>3, <2>4, <2>5, <2>6, RowWritten DEF Acting
<1>11. CASE SendTaken(w)
  <2> DEFINE next == [job[w] EXCEPT !.pc = "sent"]
  <2>1. /\ job[w].pc = "send"
        /\ Become(w, Free) \/ Become(w, [pc |-> "park", payout |-> p]) \/ Become(w, next)
        /\ transfer' = [transfer EXCEPT ![p][job[w].ref] = "pending"]
        /\ UNCHANGED <<status, ref, reviewed, approvals>> /\ doubtful \subseteq doubtful'
    BY <1>11 DEF SendTaken, SendFailed, At, p
  <2>2. next.pc = "sent" /\ next.payout = p
    BY <1>1, <2>1, JobGoesOn DEF p
  <2> HIDE DEF next
  <2>3. /\ \/ job'[w].pc = "free"
           \/ job'[w].pc \in {"park", "sent"} /\ job'[w].payout = p
        /\ \A v \in Workers \ {w} : job'[v] = job[v]
    BY <1>4, <2>1, <2>2 DEF Free
  <2>4. ref'[p] # 0
    BY <1>1, <2>1 DEF RowInv, SendingOK, p
  <2>5. job[w].pc \in Acting /\ \A q \in Payouts \ {p} : transfer'[q] = transfer[q]
    BY <1>1, <2>1 DEF Acting, PayoutsTypeOK
  <2>6. status[p] = "pending_review" \/ (status[p] = "rejected" /\ p \notin doubtful)
          => p \in reviewed /\ approvals[p] = 0
    BY <1>1 DEF RowInv, UnderReviewOK
  <2> QED
    BY <1>1, <1>2, <2>1, <2>3, <2>4, <2>5, <2>6, RowWritten DEF Acting
<1>12. CASE ApplyVerified(w)
  <2>1. /\ job[w].pc = "apply" /\ Become(w, Free)
        /\ Finalize(p, job[w].ref, job[w].outcome)
        /\ UNCHANGED <<ref, transfer, reviewed, approvals, doubtful>>
    BY <1>12 DEF ApplyVerified, At, Leave, provider, history, p
  <2>2. job'[w].pc = "free" /\ \A v \in Workers \ {w} : job'[v] = job[v]
    BY <1>4, <2>1 DEF Free
  <2>3. /\ \A q \in Payouts \ {p} : status'[q] = status[q]
        /\ status'[p] = status[p] \/ status'[p] \in {"paid", "failed"}
    BY <1>1, <2>1, FinalizeRow
  <2>4. job[w].pc \in Acting
    BY <2>1 DEF Acting
  <2>5. status[p] = "pending_review" \/ (status[p] = "rejected" /\ p \notin doubtful)
          => p \in reviewed /\ approvals[p] = 0
    BY <1>1 DEF RowInv, UnderReviewOK
  <2> QED
    BY <1>1, <1>2, <1>6, <2>1, <2>2, <2>3, <2>4, <2>5, RowWritten
<1> QED
  BY <1>7, <1>8, <1>9, <1>10, <1>11, <1>12

\* A webhook writes only a row whose reference it knows, and that one exists.
LEMMA WebhookKeepsRows ==
  ASSUME PayoutsTypeOK, PayoutsTypeOK', RowInv, NEW m \in inbox, DeliverWebhook(m)
  PROVE  RowInv'
<1> DEFINE p == m.payout
<1>1. p \in Payouts /\ m.ref \in Refs /\ m.outcome \in Outcome
  BY DEF PayoutsTypeOK
<1>2. Finalize(p, m.ref, m.outcome)
      /\ UNCHANGED <<job, ref, transfer, reviewed, approvals, doubtful>>
  BY DEF DeliverWebhook, history
<1> HIDE DEF p
<1>3. /\ \A q \in Payouts \ {p} : status'[q] = status[q]
      /\ \/ status'[p] = status[p]
         \/ ref[p] = m.ref /\ status'[p] \in {"paid", "failed"}
  BY <1>1, <1>2, FinalizeRow
<1>4. CASE status'[p] = status[p]
  <2>1. status' = status
    BY <1>3, <1>4 DEF PayoutsTypeOK
  <2> QED
    BY <1>2, <2>1
       DEF RowInv, JobsOK, SendingOK, NewOK, NullRefUnsent, UnapprovedOK, UnderReviewOK
<1>5. CASE ref[p] = m.ref /\ status'[p] \in {"paid", "failed"}
  <2>1. ref[p] # 0
    BY <1>1, <1>5 DEF Refs
  <2>2. status[p] # "none" /\ ~(p \in reviewed /\ approvals[p] = 0)
    BY <1>1, <2>1 DEF RowInv, NewOK, UnapprovedOK
  <2> QED
    BY <1>1, <1>2, <1>3, <1>5, <2>1, <2>2, RowWritten
<1> QED
  BY <1>3, <1>4, <1>5

\* The provider ends what was sent, and what was sent has a reference.
LEMMA ProviderKeepsRows ==
  ASSUME PayoutsTypeOK, RowInv, NEW p \in Payouts, NEW k \in Refs,
         ProviderEnds(p, k) \/ ProviderReverses(p, k)
  PROVE  RowInv'
<1>1. /\ transfer[p][k] # "none"
      /\ \E s : transfer' = [transfer EXCEPT ![p][k] = s]
      /\ UNCHANGED <<status, job, ref, reviewed, approvals, doubtful>>
  BY DEF ProviderEnds, ProviderReverses, ProviderSettles, history
<1>2. ref[p] # 0
  BY <1>1 DEF RowInv, NullRefUnsent
<1>3. \A q \in Payouts \ {p} : transfer'[q] = transfer[q]
  BY <1>1 DEF PayoutsTypeOK
<1>4. NullRefUnsent'
  BY <1>1, <1>2, <1>3 DEF RowInv, NullRefUnsent
<1> QED
  BY <1>1, <1>4 DEF RowInv, JobsOK, SendingOK, NewOK, UnapprovedOK, UnderReviewOK

\* RowInv is inductive, relative to the types.
LEMMA RowStep ==
  PayoutsTypeOK /\ PayoutsTypeOK' /\ RowInv /\ [PayoutsNext]_payoutVars => RowInv'
<1> SUFFICES ASSUME PayoutsTypeOK, PayoutsTypeOK', RowInv, [PayoutsNext]_payoutVars
             PROVE  RowInv'
  OBVIOUS
<1>1. CASE Credit \/ Debit \/ UNCHANGED payoutVars
  <2>1. UNCHANGED <<status, ref, job, transfer, reviewed, approvals, doubtful>>
    BY <1>1 DEF Credit, Debit, payoutVars, provider, history
  <2> QED
    BY <2>1 DEF RowInv, JobsOK, SendingOK, NewOK, NullRefUnsent, UnapprovedOK, UnderReviewOK
<1>2. CASE Crash
  <2>1. /\ \A w \in Workers : job'[w].pc = "free"
        /\ UNCHANGED <<status, ref, transfer, reviewed, approvals, doubtful>>
    BY <1>2 DEF Crash, Free, provider, history
  <2> QED
    BY <2>1
       DEF RowInv, JobsOK, SendingOK, NewOK, NullRefUnsent, UnapprovedOK, UnderReviewOK,
           Requesting, Deciding, Acting
<1>3. ASSUME NEW w \in Staff, NEW p \in Payouts,
             \/ StartRequest(w, p) \/ StartApprove(w, p) \/ StartReject(w, p)
             \/ StartRetry(w, p) \/ StartSettle(w, p)
      PROVE  RowInv'
  BY <1>3, ReadersKeepRows DEF Workers
<1>4. ASSUME NEW w \in Workers, Continue(w)
      PROVE  RowInv'
  BY <1>4, ReadersKeepRows, WritersKeepRows, InsertRow DEF Continue
<1>5. ASSUME NEW p \in Payouts, SweepInitiate(p) \/ SweepReconcile(p)
      PROVE  RowInv'
  BY <1>5, ReadersKeepRows DEF Workers
<1> QED
  BY <1>1, <1>2, <1>3, <1>4, <1>5, WebhookKeepsRows, ProviderKeepsRows DEF PayoutsNext

\* Nothing is there when the system starts.
LEMMA RowInit == PayoutsInit => RowInv
  BY DEF PayoutsInit, RowInv, JobsOK, SendingOK, NewOK, NullRefUnsent, UnapprovedOK,
         UnderReviewOK, Free, Requesting, Deciding, Acting

----------------------------------------------------------------------------
(* Where the word that a transfer succeeded comes from *)

\* No success is made up, and what becomes paid is backed.
LEMMA MoneyKept ==
  ASSUME MoneyInv,
         \A p \in Payouts, k \in Refs :
           transfer'[p][k] = "success" => transfer[p][k] = "success" \/ p \in succeeded',
         \A m \in inbox' : m.outcome = "paid" => m \in inbox \/ m.payout \in succeeded',
         succeeded \subseteq succeeded', manual \subseteq manual',
         \A w \in Workers : job'[w].pc = "apply" =>
           job'[w] = job[w] \/ (job'[w].outcome = "paid" => job'[w].payout \in succeeded),
         \A p \in Payouts : status'[p] = "paid" =>
           status[p] = "paid" \/ p \in manual' \cup succeeded'
  PROVE  MoneyInv'
<1>1. ReportsOK'
  BY DEF MoneyInv, ReportsOK
<1>2. PaidIsBacked'
  BY DEF MoneyInv, PaidIsBacked, InStatus
<1> QED
  BY <1>1, <1>2 DEF MoneyInv

\* Steps of one worker: the answer of the provider is passed on, an admin who
\* settles is recorded, and everybody else writes another status.
LEMMA WorkersKeepMoney ==
  ASSUME PayoutsTypeOK, MoneyInv, NEW w \in Workers, Continue(w)
  PROVE  MoneyInv'
<1> DEFINE p == job[w].payout
<1>1. /\ job \in [Workers -> Job] /\ job[w] \in Job /\ p \in Payouts
      /\ job[w].pc \in {"persist", "send", "sent", "verify", "apply"} => job[w].ref \in Refs
      /\ job[w].pc = "apply" => job[w].outcome \in Outcome
  <2>1. job[w].pc # "free"
    BY DEF Continue, FinishSummary, CheckInFlight, Insert, Approve, Reject, SettleOffPlatform,
           Initiate, PersistReference, SendTaken, SendNotTaken, MarkProcessing, Park,
           VerifyTransfer, ApplyVerified, At
  <2> QED
    BY <2>1, JobFields DEF PayoutsTypeOK
<1>2. ASSUME NEW j, Become(w, j)
      PROVE  job'[w] = j /\ \A v \in Workers \ {w} : job'[v] = job[v]
  BY <1>1, <1>2 DEF Become
<1>3. ASSUME NEW s \in PayoutStatus, SetStatus(p, s)
      PROVE  status'[p] = s /\ \A q \in Payouts \ {p} : status'[q] = status[q]
  BY <1>1, <1>3, SetStatusRow
<1>c. {"paid", "requested", "pending_review", "approved", "processing", "rejected", "failed"}
        = PayoutStatus
  BY DEF PayoutStatus, InFlight, Terminal
<1> HIDE DEF p
<1>4. CASE FinishSummary(w) \/ CheckInFlight(w) \/ Initiate(w) \/ PersistReference(w)
             \/ SendNotTaken(w)
  <2>1. /\ UNCHANGED <<status, transfer, inbox, succeeded, manual>>
        /\ job[w].pc \in {"summary", "checkInFlight", "initiate", "persist", "send"}
    BY <1>4 DEF FinishSummary, CheckInFlight, Initiate, PersistReference, SendNotTaken, At,
                provider, history
  <2>2. job'[w].pc # "apply" /\ \A v \in Workers \ {w} : job'[v] = job[v]
    <3> DEFINE last == [job[w] EXCEPT !.pc = "insert"]
               answered == [job[w] EXCEPT !.pc = "sent"]
    <3>1. /\ job[w].pc = "checkInFlight" => last.pc = "insert"
          /\ job[w].pc = "send" => answered.pc = "sent"
          /\ job[w].pc = "persist" => [job[w] EXCEPT !.pc = "send"].pc = "send"
      BY <1>1, JobGoesOn
    <3>2. \E j : Become(w, j) /\ j.pc # "apply"
      <4>1. CASE FinishSummary(w)
        BY <4>1 DEF FinishSummary, Free
      <4>2. CASE CheckInFlight(w)
        <5>1. job[w].pc = "checkInFlight" /\ (Become(w, Free) \/ Become(w, last))
          BY <4>2 DEF CheckInFlight, At
        <5> HIDE DEF last
        <5> QED
          BY <3>1, <5>1 DEF Free
      <4>3. CASE Initiate(w)
        BY <4>3 DEF Initiate
      <4>4. CASE PersistReference(w)
        BY <4>4, <3>1 DEF PersistReference, At
      <4>5. CASE SendNotTaken(w)
        <5>1. /\ job[w].pc = "send"
              /\ \/ Become(w, Free) \/ Become(w, [pc |-> "park", payout |-> job[w].payout])
                 \/ Become(w, answered)
          BY <4>5 DEF SendNotTaken, SendFailed, At
        <5> HIDE DEF answered
        <5> QED
          BY <3>1, <5>1 DEF Free
      <4> QED
        BY <1>4, <4>1, <4>2, <4>3, <4>4, <4>5
    <3> QED
      BY <1>2, <3>2
  <2> QED
    BY <2>1, <2>2, MoneyKept
<1>5. CASE Insert(w) \/ Approve(w) \/ Reject(w) \/ SettleOffPlatform(w) \/ MarkProcessing(w)
             \/ Park(w)
  <2>1. /\ UNCHANGED <<transfer, inbox, succeeded>> /\ manual \subseteq manual'
        /\ \E j : Become(w, j) /\ j.pc # "apply"
        /\ \E s \in PayoutStatus : SetStatus(p, s) /\ (s = "paid" => p \in manual')
    <3>1. CASE Insert(w)
      BY <1>c, <3>1 DEF Insert, Free, provider, p
    <3>2. CASE Approve(w)
      BY <1>c, <3>2 DEF Approve, provider, p
    <3>3. CASE Reject(w)
      BY <1>c, <3>3 DEF Reject, Leave, Free, provider, p
    <3>4. CASE SettleOffPlatform(w)
      BY <1>c, <3>4 DEF SettleOffPlatform, Leave, Free, provider, p
    <3>5. CASE MarkProcessing(w) \/ Park(w)
      BY <1>c, <3>5 DEF MarkProcessing, Park, Taken, Leave, Free, provider, history, p
    <3> QED
      BY <1>5, <3>1, <3>2, <3>3, <3>4, <3>5
  <2>2. job'[w].pc # "apply" /\ \A v \in Workers \ {w} : job'[v] = job[v]
    BY <1>2, <2>1
  <2>3. /\ status'[p] = "paid" => p \in manual'
        /\ \A q \in Payouts \ {p} : status'[q] = status[q]
    BY <1>3, <2>1
  <2> QED
    BY <1>1, <2>1, <2>2, <2>3, MoneyKept
<1>6. CASE SendTaken(w)
  <2>1. /\ UNCHANGED <<status, inbox, succeeded, manual>>
        /\ job[w].pc = "send" /\ transfer' = [transfer EXCEPT ![p][job[w].ref] = "pending"]
        /\ Become(w, [job[w] EXCEPT !.pc = "sent"]) \/ Become(w, SendFailed(job[w]))
    BY <1>6 DEF SendTaken, At, p
  <2>2. job'[w].pc # "apply" /\ \A v \in Workers \ {w} : job'[v] = job[v]
    <3>1. [job[w] EXCEPT !.pc = "sent"].pc = "sent" /\ SendFailed(job[w]).pc # "apply"
      BY <1>1, <2>1, JobGoesOn DEF SendFailed, Free
    <3> QED
      BY <1>2, <2>1, <3>1
  <2>3. \A q \in Payouts, k \in Refs : transfer'[q][k] = "success" => transfer[q][k] = "success"
    BY <1>1, <2>1 DEF PayoutsTypeOK
  <2> QED
    BY <2>1, <2>2, <2>3, MoneyKept
<1>7. CASE VerifyTransfer(w)
  <2>1. UNCHANGED <<status, transfer, inbox, succeeded, manual>> /\ job[w].pc = "verify"
    BY <1>7 DEF VerifyTransfer, At, provider, history
  <2>2. job'[w].pc = "apply" =>
          /\ job'[w].payout = p
          /\ job'[w].outcome = "paid" => transfer[p][job[w].ref] = "success"
    <3> DEFINE outcome == MapStatus(transfer[p][job[w].ref])
               next == [pc |-> "apply", payout |-> p, ref |-> job[w].ref, outcome |-> outcome]
    <3>1. outcome = "paid" => transfer[p][job[w].ref] = "success"
      BY DEF MapStatus
    <3>2. Become(w, Free) \/ Become(w, next)
      BY <1>7 DEF VerifyTransfer, p
    <3>3. next.payout = p /\ next.outcome = outcome
      OBVIOUS
    <3> HIDE DEF next, outcome
    <3> QED
      BY <1>2, <3>1, <3>2, <3>3 DEF Free
  <2>3. job'[w].pc = "apply" => (job'[w].outcome = "paid" => job'[w].payout \in succeeded)
    BY <1>1, <2>1, <2>2 DEF MoneyInv, ReportsOK
  <2>4. \A v \in Workers \ {w} : job'[v] = job[v]
    BY <1>2, <1>7 DEF VerifyTransfer
  <2> QED
    BY <2>1, <2>3, <2>4, MoneyKept
<1>8. CASE ApplyVerified(w)
  <2>1. /\ UNCHANGED <<transfer, inbox, succeeded, manual>>
        /\ job[w].pc = "apply" /\ Become(w, Free) /\ Finalize(p, job[w].ref, job[w].outcome)
    BY <1>8 DEF ApplyVerified, At, Leave, provider, history, p
  <2>2. job'[w].pc # "apply" /\ \A v \in Workers \ {w} : job'[v] = job[v]
    BY <1>2, <2>1 DEF Free
  <2>3. /\ \A q \in Payouts \ {p} : status'[q] = status[q]
        /\ status'[p] = "paid" => status[p] = "paid" \/ job[w].outcome = "paid"
    BY <1>1, <2>1, FinalizeRow
  <2>4. job[w].outcome = "paid" => p \in succeeded
    BY <2>1 DEF MoneyInv, ReportsOK, p
  <2> QED
    BY <1>1, <2>1, <2>2, <2>3, <2>4, MoneyKept
<1> QED
  BY <1>4, <1>5, <1>6, <1>7, <1>8 DEF Continue

\* MoneyInv is inductive, relative to the types.
LEMMA MoneyStep == PayoutsTypeOK /\ MoneyInv /\ [PayoutsNext]_payoutVars => MoneyInv'
<1> SUFFICES ASSUME PayoutsTypeOK, MoneyInv, [PayoutsNext]_payoutVars PROVE MoneyInv'
  OBVIOUS
<1>1. CASE Credit \/ Debit \/ Crash \/ UNCHANGED payoutVars
  <2>1. /\ UNCHANGED <<status, transfer, inbox, succeeded, manual>>
        /\ \A w \in Workers : job'[w] = job[w] \/ job'[w].pc = "free"
    BY <1>1 DEF Credit, Debit, Crash, Free, payoutVars, provider, history
  <2> QED
    BY <2>1, MoneyKept
<1>2. ASSUME NEW w \in Workers, NEW p \in Payouts,
             \/ StartRequest(w, p) \/ StartApprove(w, p) \/ StartReject(w, p)
             \/ StartRetry(w, p) \/ StartSettle(w, p)
             \/ w = Cron /\ (SweepInitiate(p) \/ SweepReconcile(p))
      PROVE  MoneyInv'
  <2>1. UNCHANGED <<status, transfer, inbox, succeeded, manual>>
    BY <1>2 DEF StartRequest, StartApprove, StartReject, StartRetry, StartSettle, Load,
                SweepInitiate, SweepReconcile, provider, history
  <2>2. PICK j : Become(w, j) /\ j.pc # "apply"
    BY <1>2 DEF StartRequest, StartApprove, StartReject, StartRetry, StartSettle, Load,
                SweepInitiate, SweepReconcile
  <2>3. job'[w].pc # "apply" /\ \A v \in Workers \ {w} : job'[v] = job[v]
    BY <2>2 DEF Become, PayoutsTypeOK
  <2> QED
    BY <2>1, <2>3, MoneyKept
<1>3. ASSUME NEW m \in inbox, DeliverWebhook(m)
      PROVE  MoneyInv'
  <2>1. m.payout \in Payouts /\ m.ref \in Refs /\ m.outcome \in Outcome
    BY DEF PayoutsTypeOK
  <2>2. /\ UNCHANGED <<job, transfer, succeeded, manual>> /\ inbox' \subseteq inbox
        /\ Finalize(m.payout, m.ref, m.outcome)
    BY <1>3 DEF DeliverWebhook, history
  <2>3. \A q \in Payouts : status'[q] = "paid" =>
          status[q] = "paid" \/ (q = m.payout /\ m.outcome = "paid")
    BY <2>1, <2>2, FinalizeRow
  <2>4. m.outcome = "paid" => m.payout \in succeeded
    BY DEF MoneyInv, ReportsOK
  <2> QED
    BY <2>2, <2>3, <2>4, MoneyKept
<1>4. ASSUME NEW p \in Payouts, NEW k \in Refs, ProviderEnds(p, k) \/ ProviderReverses(p, k)
      PROVE  MoneyInv'
  <2>1. PICK s, o : ProviderSettles(p, k, s, o) /\ (o = "paid" <=> s = "success")
    BY <1>4 DEF ProviderEnds, ProviderReverses
  <2>2. /\ UNCHANGED <<status, job, manual>> /\ succeeded \subseteq succeeded'
        /\ s = "success" => p \in succeeded'
        /\ transfer' = [transfer EXCEPT ![p][k] = s]
    BY <2>1 DEF ProviderSettles, history
  <2>3. \A q \in Payouts, i \in Refs :
          transfer'[q][i] = "success" => transfer[q][i] = "success" \/ q \in succeeded'
    BY <2>2 DEF PayoutsTypeOK
  <2>4. \A m \in inbox' : m.outcome = "paid" => m \in inbox \/ m.payout \in succeeded'
    BY <2>1, <2>2 DEF ProviderSettles
  <2> QED
    BY <2>2, <2>3, <2>4, MoneyKept
<1> QED
  BY <1>1, <1>2, <1>3, <1>4, WorkersKeepMoney DEF PayoutsNext, Workers

\* Nothing is paid when the system starts.
LEMMA MoneyInit == PayoutsInit => MoneyInv
  BY DEF PayoutsInit, MoneyInv, ReportsOK, PaidIsBacked, InStatus, Free

\* PayoutInv is inductive.
LEMMA PayoutInvariant == PayoutsSpec => []PayoutInv
<1>1. PayoutsInit => PayoutInv
  BY PayoutsTypeInit, RowInit, MoneyInit DEF PayoutInv
<1>2. PayoutInv /\ [PayoutsNext]_payoutVars => PayoutInv'
  BY PayoutsTypeStep, RowStep, MoneyStep DEF PayoutInv
<1> QED
  BY <1>1, <1>2, PTL DEF PayoutsSpec

\* A payout without a reference was never sent, whatever crashed and however
\* many initiations ran on it side by side.  (initiate)
THEOREM NullRefIsUnsent == PayoutsSpec => []NullRefUnsent
<1>1. PayoutInv => NullRefUnsent
  BY DEF PayoutInv, RowInv
<1> QED
  BY <1>1, PayoutInvariant, PTL

\* Review binds: nothing is sent for a payout under review before somebody
\* approves it, nor ever for one rejected there.  (request, approve, reject)
THEOREM ReviewIsDecided == PayoutsSpec => []ReviewDecides
<1>1. ASSUME PayoutInv PROVE ReviewDecides
  <2> SUFFICES ASSUME NEW p \in Payouts, NEW k \in Refs, transfer[p][k] # "none"
               PROVE  /\ p \in reviewed => approvals[p] > 0
                      /\ status[p] = "rejected" => p \in doubtful
    BY DEF ReviewDecides
  <2>1. ref[p] # 0
    BY <1>1 DEF PayoutInv, RowInv, NullRefUnsent
  <2>2. ~(p \in reviewed /\ approvals[p] = 0) /\ approvals[p] \in Nat
    BY <1>1, <2>1 DEF PayoutInv, PayoutsTypeOK, RowInv, UnapprovedOK
  <2>3. status[p] = "rejected" => p \in doubtful
    BY <1>1, <2>2 DEF PayoutInv, RowInv, UnderReviewOK
  <2> QED
    BY <2>2, <2>3
<1> QED
  BY <1>1, PayoutInvariant, PTL

\* A payout is paid only over a transfer that succeeded or an admin's word, in
\* any order of webhooks, verifications, retries and crashes.  (finalize)
THEOREM PaidIsAlwaysBacked == PayoutsSpec => []PaidIsBacked
<1>1. PayoutInv => PaidIsBacked
  BY DEF PayoutInv, MoneyInv
<1> QED
  BY <1>1, PayoutInvariant, PTL

----------------------------------------------------------------------------
(* What a step does, row by row and job by job *)

On(w, p) == job[w].pc # "free" /\ job[w].payout = p

RowKept(q) ==
  /\ status'[q] = status[q] /\ ref'[q] = ref[q] /\ approvals'[q] = approvals[q]
  /\ transfer'[q] = transfer[q]
  /\ q \in reviewed' <=> q \in reviewed
  /\ q \in doubtful' <=> q \in doubtful

OnlyRow(p) == \A q \in Payouts \ {p} : RowKept(q)
OnlyJob(w) == \A v \in Workers \ {w} : job'[v] = job[v]

\* The requests that write no row: a sum, a check, an initiation that looks for
\* its reference, a verification.
LEMMA QuietMoves ==
  ASSUME PayoutsTypeOK, NEW w \in Workers,
         \/ FinishSummary(w) \/ CheckInFlight(w) \/ Initiate(w) \/ VerifyTransfer(w)
  PROVE  LET p == job[w].payout IN
         /\ p \in Payouts /\ \A q \in Payouts : RowKept(q)
         /\ OnlyJob(w) /\ inbox' = inbox
         /\ job[w].pc \in {"summary", "checkInFlight", "initiate", "verify"}
         /\ job'[w].pc # "free" => job'[w].payout = p
         /\ job[w].pc \in {"summary", "checkInFlight"}
              => job'[w].pc \in {"free", "checkInFlight", "insert"}
         /\ job[w].pc = "initiate" =>
              \/ job'[w].pc = "persist" /\ ref[p] = 0
              \/ job'[w].pc = "send" /\ ref[p] # 0 /\ job'[w].ref = ref[p]
         /\ job[w].pc = "verify" => job'[w].pc \in {"free", "apply"}
         /\ job'[w].pc = "apply" =>
              /\ job'[w].ref \in Refs
              /\ job'[w].outcome \in {"failed", "reversed"}
                   => transfer[p][job'[w].ref] = job'[w].outcome
<1> DEFINE p == job[w].payout
<1>1. /\ job \in [Workers -> Job] /\ job[w] \in Job /\ p \in Payouts
      /\ job[w].pc = "verify" => job[w].ref \in Refs
  BY JobFields DEF PayoutsTypeOK, FinishSummary, CheckInFlight, Initiate, VerifyTransfer, At,
                   Requesting, Acting, Free
<1>2. \A q \in Payouts : RowKept(q)
  BY DEF FinishSummary, CheckInFlight, Initiate, VerifyTransfer, provider, history, RowKept
<1>3. ASSUME NEW j, Become(w, j)
      PROVE  job'[w] = j /\ OnlyJob(w)
  BY <1>1, <1>3 DEF Become, OnlyJob
<1>4. inbox' = inbox
  BY DEF FinishSummary, CheckInFlight, Initiate, VerifyTransfer, provider
<1> HIDE DEF p
<1>5. CASE FinishSummary(w)
  BY <1>1, <1>2, <1>3, <1>4, <1>5 DEF FinishSummary, At, p, Free
<1>6. CASE CheckInFlight(w)
  <2> DEFINE last == [job[w] EXCEPT !.pc = "insert"]
  <2>1. job[w].pc = "checkInFlight" /\ (Become(w, Free) \/ Become(w, last))
    BY <1>6 DEF CheckInFlight, At
  <2>2. last.pc = "insert" /\ last.payout = p
    BY <1>1, <2>1, JobGoesOn DEF p
  <2> HIDE DEF last
  <2>3. OnlyJob(w) /\ (job'[w] = Free \/ job'[w] = last)
    BY <1>3, <2>1
  <2> QED
    BY <1>1, <1>2, <1>4, <2>1, <2>2, <2>3 DEF p, Free
<1>7. CASE Initiate(w)
  <2>1. /\ job[w].pc = "initiate"
        /\ \E k \in Reference(p) :
             Become(w, [pc |-> IF ref[p] = 0 THEN "persist" ELSE "send", payout |-> p,
                        safe |-> job[w].safe, ref |-> k])
    BY <1>7 DEF Initiate, At, p
  <2>2. PICK k \in Reference(p) :
             Become(w, [pc |-> IF ref[p] = 0 THEN "persist" ELSE "send", payout |-> p,
                        safe |-> job[w].safe, ref |-> k])
    BY <2>1
  <2>3. ref[p] # 0 => k = ref[p]
    BY <2>2 DEF Reference
  <2>4. /\ job'[w].pc = IF ref[p] = 0 THEN "persist" ELSE "send"
        /\ job'[w].payout = p /\ job'[w].ref = k /\ OnlyJob(w)
    BY <1>3, <2>2
  <2> QED
    BY <1>1, <1>2, <1>4, <2>1, <2>3, <2>4 DEF p
<1>8. CASE VerifyTransfer(w)
  <2> DEFINE outcome == MapStatus(transfer[p][job[w].ref])
             next == [pc |-> "apply", payout |-> p, ref |-> job[w].ref, outcome |-> outcome]
  <2>1. outcome \in {"failed", "reversed"} => transfer[p][job[w].ref] = outcome
    BY DEF MapStatus
  <2>2. job[w].pc = "verify" /\ (Become(w, Free) \/ Become(w, next))
    BY <1>8 DEF VerifyTransfer, At, p
  <2>3. /\ next.pc = "apply" /\ next.payout = p /\ next.ref = job[w].ref
        /\ next.outcome = outcome
    OBVIOUS
  <2> HIDE DEF next, outcome
  <2>4. OnlyJob(w) /\ (job'[w] = Free \/ job'[w] = next)
    BY <1>3, <2>2
  <2> QED
    BY <1>1, <1>2, <1>4, <2>1, <2>2, <2>3, <2>4 DEF p, Free
<1> QED
  BY <1>5, <1>6, <1>7, <1>8

\* The requests that write their row.
LEMMA WritingMoves ==
  ASSUME PayoutsTypeOK, NEW w \in Workers,
         \/ Insert(w) \/ Approve(w) \/ Reject(w) \/ SettleOffPlatform(w)
         \/ MarkProcessing(w) \/ Park(w) \/ ApplyVerified(w)
  PROVE  LET p == job[w].payout IN
         /\ p \in Payouts /\ OnlyRow(p) /\ OnlyJob(w) /\ inbox' = inbox
         /\ transfer' = transfer
         /\ job[w].pc \in {"insert", "approve", "reject", "settle", "sent", "park", "apply"}
         /\ job'[w].pc # "free" => /\ job'[w].pc = "initiate" /\ job'[w].payout = p
                                   /\ job[w].pc \in {"insert", "approve"}
         /\ job[w].pc # "approve" => approvals'[p] = approvals[p]
         /\ job[w].pc # "sent" => ref'[p] = ref[p]
         /\ job[w].pc # "reject" => (p \in doubtful' <=> p \in doubtful)
         /\ job[w].pc # "insert" => (p \in reviewed' <=> p \in reviewed)
         /\ job[w].pc = "insert" => status'[p] \in {"pending_review", "requested"}
         /\ job[w].pc = "approve" => status'[p] = "approved" /\ approvals'[p] = approvals[p] + 1
         /\ job[w].pc = "reject" =>
              /\ status'[p] = "rejected"
              /\ p \in doubtful' <=> p \in doubtful \/ status[p] # "pending_review"
         /\ job[w].pc = "settle" => status'[p] = "paid"
         /\ job[w].pc = "sent" => status'[p] = "processing" /\ ref'[p] = job[w].ref
         /\ job[w].pc = "park" => status'[p] = "failed"
         /\ job[w].pc = "apply" =>
              \/ status'[p] = status[p]
              \/ /\ ref[p] = job[w].ref /\ job[w].ref \in Refs
                 /\ \/ status'[p] = "paid"
                    \/ status'[p] = "failed" /\ job[w].outcome \in {"failed", "reversed"}
<1> DEFINE p == job[w].payout
<1>1. /\ job \in [Workers -> Job] /\ job[w] \in Job /\ p \in Payouts
      /\ job[w].pc \in {"sent", "apply"} => job[w].ref \in Refs
      /\ job[w].pc = "apply" => job[w].outcome \in Outcome
  BY JobFields
     DEF PayoutsTypeOK, Insert, Approve, Reject, SettleOffPlatform, MarkProcessing, Park,
         ApplyVerified, At, Requesting, Deciding, Acting, Free
<1>2. /\ transfer' = transfer /\ inbox' = inbox
  BY DEF Insert, Approve, Reject, SettleOffPlatform, MarkProcessing, Park, ApplyVerified, provider
<1>3. ASSUME NEW j, Become(w, j)
      PROVE  job'[w] = j /\ OnlyJob(w)
  BY <1>1, <1>3 DEF Become, OnlyJob
<1>4. ASSUME NEW s \in PayoutStatus, SetStatus(p, s)
      PROVE  status'[p] = s /\ \A q \in Payouts \ {p} : status'[q] = status[q]
  BY <1>1, <1>4, SetStatusRow
<1>c. {"pending_review", "requested", "paid", "approved", "processing", "rejected", "failed"}
        \subseteq PayoutStatus
  BY DEF PayoutStatus, InFlight, Terminal
<1> HIDE DEF p
<1>5. CASE Insert(w)
  <2> DEFINE j == IF job[w].review THEN Free ELSE [pc |-> "initiate", payout |-> p, safe |-> TRUE]
             s == IF job[w].review THEN "pending_review" ELSE "requested"
  <2>1. /\ job[w].pc = "insert" /\ Become(w, j) /\ SetStatus(p, s)
        /\ reviewed' = IF job[w].review THEN reviewed \cup {p} ELSE reviewed
        /\ UNCHANGED <<ref, approvals, doubtful>>
    BY <1>5 DEF Insert, At, p
  <2>2. /\ s \in {"pending_review", "requested"}
        /\ j.pc = "free" \/ (j.pc = "initiate" /\ j.payout = p)
    BY DEF Free
  <2> HIDE DEF j, s
  <2>3. /\ job'[w] = j /\ OnlyJob(w) /\ status'[p] = s
        /\ \A q \in Payouts \ {p} : status'[q] = status[q]
    BY <1>3, <1>4, <1>c, <2>1, <2>2
  <2>4. OnlyRow(p)
    BY <1>1, <1>2, <2>1, <2>3 DEF OnlyRow, RowKept
  <2> QED
    BY <1>1, <1>2, <2>1, <2>2, <2>3, <2>4 DEF p
<1>6. CASE Approve(w)
  <2> DEFINE j == [pc |-> "initiate", payout |-> p, safe |-> TRUE]
  <2>1. /\ job[w].pc = "approve" /\ Become(w, j) /\ SetStatus(p, "approved")
        /\ approvals' = [approvals EXCEPT ![p] = @ + 1]
        /\ UNCHANGED <<ref, reviewed, doubtful>>
    BY <1>6 DEF Approve, At, p
  <2>2. j.pc = "initiate" /\ j.payout = p
    OBVIOUS
  <2> HIDE DEF j
  <2>3. /\ job'[w] = j /\ OnlyJob(w) /\ status'[p] = "approved"
        /\ \A q \in Payouts \ {p} : status'[q] = status[q]
    BY <1>3, <1>4, <1>c, <2>1
  <2>4. /\ approvals'[p] = approvals[p] + 1
        /\ \A q \in Payouts \ {p} : approvals'[q] = approvals[q]
    BY <1>1, <2>1 DEF PayoutsTypeOK
  <2>5. OnlyRow(p)
    BY <1>1, <1>2, <2>1, <2>3, <2>4 DEF OnlyRow, RowKept
  <2> QED
    BY <1>1, <1>2, <2>1, <2>2, <2>3, <2>4, <2>5 DEF p
<1>7. CASE Reject(w)
  <2>1. /\ job[w].pc = "reject" /\ Become(w, Free) /\ SetStatus(p, "rejected")
        /\ doubtful' = IF status[p] = "pending_review" THEN doubtful ELSE doubtful \cup {p}
        /\ UNCHANGED <<ref, reviewed, approvals>>
    BY <1>7 DEF Reject, Leave, At, p
  <2>2. /\ job'[w].pc = "free" /\ OnlyJob(w) /\ status'[p] = "rejected"
        /\ \A q \in Payouts \ {p} : status'[q] = status[q]
    BY <1>3, <1>4, <1>c, <2>1 DEF Free
  <2>3. OnlyRow(p)
    BY <1>1, <1>2, <2>1, <2>2 DEF OnlyRow, RowKept
  <2> QED
    BY <1>1, <1>2, <2>1, <2>2, <2>3 DEF p
<1>8. CASE SettleOffPlatform(w) \/ Park(w)
  <2>1. /\ \/ job[w].pc = "settle" /\ SetStatus(p, "paid")
           \/ job[w].pc = "park" /\ SetStatus(p, "failed")
        /\ Become(w, Free)
        /\ UNCHANGED <<ref, reviewed, approvals, doubtful>>
    BY <1>8 DEF SettleOffPlatform, Park, Leave, At, history, p
  <2>2. /\ job'[w].pc = "free" /\ OnlyJob(w)
        /\ \/ job[w].pc = "settle" /\ status'[p] = "paid"
           \/ job[w].pc = "park" /\ status'[p] = "failed"
        /\ \A q \in Payouts \ {p} : status'[q] = status[q]
    BY <1>3, <1>4, <1>c, <2>1 DEF Free
  <2>3. OnlyRow(p)
    BY <1>1, <1>2, <2>1, <2>2 DEF OnlyRow, RowKept
  <2> QED
    BY <1>1, <1>2, <2>1, <2>2, <2>3 DEF p
<1>9. CASE MarkProcessing(w)
  <2>1. /\ job[w].pc = "sent" /\ SetStatus(p, "processing") /\ Become(w, Free)
        /\ ref' = [ref EXCEPT ![p] = job[w].ref]
        /\ UNCHANGED <<reviewed, approvals, doubtful>>
    BY <1>9 DEF MarkProcessing, Taken, Leave, At, history, p
  <2>2. /\ job'[w].pc = "free" /\ OnlyJob(w) /\ status'[p] = "processing"
        /\ \A q \in Payouts \ {p} : status'[q] = status[q]
    BY <1>3, <1>4, <1>c, <2>1 DEF Free
  <2>3. ref'[p] = job[w].ref /\ \A q \in Payouts \ {p} : ref'[q] = ref[q]
    BY <1>1, <2>1 DEF PayoutsTypeOK
  <2>4. OnlyRow(p)
    BY <1>1, <1>2, <2>1, <2>2, <2>3 DEF OnlyRow, RowKept
  <2> QED
    BY <1>1, <1>2, <2>1, <2>2, <2>3, <2>4 DEF p
<1>10. CASE ApplyVerified(w)
  <2>1. /\ job[w].pc = "apply" /\ Become(w, Free)
        /\ Finalize(p, job[w].ref, job[w].outcome)
        /\ UNCHANGED <<ref, reviewed, approvals, doubtful>>
    BY <1>10 DEF ApplyVerified, At, Leave, history, p
  <2>2. job'[w].pc = "free" /\ OnlyJob(w)
    BY <1>3, <2>1 DEF Free
  <2>3. /\ \A q \in Payouts \ {p} : status'[q] = status[q]
        /\ \/ status'[p] = status[p]
           \/ /\ ref[p] = job[w].ref
              /\ status'[p] = IF job[w].outcome = "paid" THEN "paid" ELSE "failed"
    BY <1>1, <2>1, FinalizeRow
  <2>4. OnlyRow(p)
    BY <1>1, <1>2, <2>1, <2>3 DEF OnlyRow, RowKept
  <2> QED
    BY <1>1, <1>2, <2>1, <2>2, <2>3, <2>4 DEF p, Outcome
<1> QED
  BY <1>5, <1>6, <1>7, <1>8, <1>9, <1>10

\* A reference is stored, a transfer is sent.
LEMMA SendingMoves ==
  ASSUME PayoutsTypeOK, NEW w \in Workers,
         PersistReference(w) \/ SendTaken(w) \/ SendNotTaken(w)
  PROVE  LET p == job[w].payout k == job[w].ref IN
         /\ p \in Payouts /\ k \in Refs /\ OnlyRow(p) /\ OnlyJob(w) /\ inbox' = inbox
         /\ status'[p] = status[p] /\ approvals'[p] = approvals[p]
         /\ p \in reviewed' <=> p \in reviewed
         /\ job[w].pc \in {"persist", "send"}
         /\ job'[w].pc # "free" => job'[w].payout = p
         /\ job'[w].pc \in {"send", "sent"} => job'[w].ref = k
         /\ job[w].pc = "persist" => /\ job'[w].pc = "send" /\ ref'[p] = k
                                     /\ transfer' = transfer
                                     /\ p \in doubtful' <=> p \in doubtful
         /\ job[w].pc = "send" =>
              /\ ref'[p] = ref[p]
              /\ job'[w].pc \in {"free", "park", "sent"}
              /\ \/ /\ transfer' = transfer /\ (p \in doubtful' <=> p \in doubtful)
                    /\ job'[w].pc = "sent" => transfer[p][k] \in {"pending", "success"}
                 \/ /\ transfer'[p][k] = "pending"
                    /\ \A i \in Refs \ {k} : transfer'[p][i] = transfer[p][i]
                    /\ p \in doubtful => p \in doubtful'
                    /\ job'[w].pc # "sent" => p \in doubtful'
<1> DEFINE p == job[w].payout
           k == job[w].ref
<1>1. /\ job \in [Workers -> Job] /\ job[w] \in Job /\ p \in Payouts /\ k \in Refs
      /\ job[w].pc \in {"persist", "send"}
  BY JobFields DEF PayoutsTypeOK, PersistReference, SendTaken, SendNotTaken, At, Acting, Free
<1>3. ASSUME NEW j, Become(w, j)
      PROVE  job'[w] = j /\ OnlyJob(w)
  BY <1>1, <1>3 DEF Become, OnlyJob
<1> DEFINE toSend == [job[w] EXCEPT !.pc = "send"]
           answered == [job[w] EXCEPT !.pc = "sent"]
<1>4. /\ toSend.pc = "send" /\ toSend.payout = p /\ toSend.ref = k
      /\ answered.pc = "sent" /\ answered.payout = p /\ answered.ref = k
  BY <1>1, JobGoesOn
<1>5. /\ SendFailed(job[w]).pc \in {"free", "park"}
      /\ SendFailed(job[w]).pc = "park" => SendFailed(job[w]).payout = p
  BY DEF SendFailed, Free
<1> HIDE DEF p, k, toSend, answered
<1>6. CASE PersistReference(w)
  <2>1. /\ job[w].pc = "persist" /\ Become(w, toSend) /\ ref' = [ref EXCEPT ![p] = k]
        /\ UNCHANGED <<status, transfer, inbox, reviewed, approvals, doubtful>>
    BY <1>6 DEF PersistReference, At, provider, history, p, k, toSend
  <2>2. ref'[p] = k /\ \A q \in Payouts \ {p} : ref'[q] = ref[q]
    BY <1>1, <2>1 DEF PayoutsTypeOK
  <2>3. OnlyRow(p)
    BY <1>1, <2>1, <2>2 DEF OnlyRow, RowKept
  <2>4. job'[w] = toSend /\ OnlyJob(w)
    BY <1>3, <2>1
  <2> QED
    BY <1>1, <1>4, <2>1, <2>2, <2>3, <2>4 DEF p, k
<1>7. CASE SendTaken(w)
  <2>1. /\ job[w].pc = "send"
        /\ transfer' = [transfer EXCEPT ![p][k] = "pending"]
        /\ UNCHANGED <<status, ref, inbox, approvals, reviewed>>
        /\ \/ Become(w, answered) /\ UNCHANGED doubtful
           \/ Become(w, SendFailed(job[w])) /\ doubtful' = doubtful \cup {p}
    BY <1>7 DEF SendTaken, At, p, k, answered
  <2>2. /\ transfer'[p][k] = "pending"
        /\ \A i \in Refs \ {k} : transfer'[p][i] = transfer[p][i]
        /\ \A q \in Payouts \ {p} : transfer'[q] = transfer[q]
    BY <1>1, <2>1 DEF PayoutsTypeOK
  <2>3. OnlyRow(p)
    BY <1>1, <2>1, <2>2 DEF OnlyRow, RowKept
  <2>4. /\ OnlyJob(w)
        /\ \/ job'[w] = answered /\ UNCHANGED doubtful
           \/ job'[w] = SendFailed(job[w]) /\ p \in doubtful' /\ doubtful \subseteq doubtful'
    BY <1>3, <2>1
  <2> QED
    BY <1>1, <1>4, <1>5, <2>1, <2>2, <2>3, <2>4 DEF p, k
<1>8. CASE SendNotTaken(w)
  <2>1. /\ job[w].pc = "send"
        /\ UNCHANGED <<status, ref, transfer, inbox, approvals, reviewed, doubtful>>
        /\ \/ Become(w, SendFailed(job[w]))
           \/ Become(w, answered) /\ transfer[p][k] \in {"pending", "success"}
    BY <1>8 DEF SendNotTaken, At, provider, history, p, k, answered
  <2>3. OnlyRow(p)
    BY <1>1, <2>1 DEF OnlyRow, RowKept
  <2>4. /\ OnlyJob(w)
        /\ \/ job'[w] = answered /\ transfer[p][k] \in {"pending", "success"}
           \/ job'[w] = SendFailed(job[w])
    BY <1>3, <2>1
  <2> QED
    BY <1>1, <1>4, <1>5, <2>1, <2>3, <2>4 DEF p, k
<1> QED
  BY <1>6, <1>7, <1>8

\* A request or a run of the sweep begins, on a row that it only reads.
LEMMA StartMoves ==
  ASSUME PayoutsTypeOK, NEW w \in Workers, NEW p \in Payouts,
         \/ StartRequest(w, p) \/ StartApprove(w, p) \/ StartReject(w, p)
         \/ StartRetry(w, p) \/ StartSettle(w, p)
         \/ w = Cron /\ (SweepInitiate(p) \/ SweepReconcile(p))
  PROVE  /\ OnlyRow(p) /\ OnlyJob(w) /\ inbox' = inbox /\ transfer' = transfer
         /\ status'[p] = status[p] /\ ref'[p] = ref[p] /\ approvals'[p] = approvals[p]
         /\ p \in reviewed' <=> p \in reviewed
         /\ p \in doubtful => p \in doubtful'
         /\ job[w].pc = "free" /\ job'[w].payout = p
         /\ \/ job'[w].pc = "summary"
            \/ job'[w].pc \in {"approve", "reject"} /\ status[p] = "pending_review"
            \/ job'[w].pc = "settle" /\ status[p] = "failed"
            \/ job'[w].pc = "initiate" /\ status[p] = "failed" /\ p \in doubtful'
            \/ /\ job'[w].pc = "initiate" /\ status[p] = "requested" /\ ref[p] = 0
               /\ \A v \in Workers : ~On(v, p)
            \/ job'[w].pc = "verify"
<1>3. ASSUME NEW j, Become(w, j)
      PROVE  job'[w] = j /\ OnlyJob(w)
  BY <1>3 DEF Become, OnlyJob, PayoutsTypeOK
<1>1. CASE StartRequest(w, p)
  <2>1. OnlyRow(p)
    BY <1>1 DEF StartRequest, OnlyRow, RowKept, provider, history
  <2> QED
    BY <1>1, <1>3, <2>1 DEF StartRequest, At, provider, history
<1>2. CASE StartApprove(w, p) \/ StartReject(w, p) \/ StartSettle(w, p)
  <2>1. OnlyRow(p)
    BY <1>2 DEF StartApprove, StartReject, StartSettle, Load, OnlyRow, RowKept, provider
  <2> QED
    BY <1>2, <1>3, <2>1 DEF StartApprove, StartReject, StartSettle, Load, At, provider
<1>4. CASE StartRetry(w, p)
  <2>1. OnlyRow(p)
    BY <1>4 DEF StartRetry, Load, OnlyRow, RowKept, provider
  <2> QED
    BY <1>3, <1>4, <2>1 DEF StartRetry, Load, At, provider
<1>5. CASE w = Cron /\ SweepInitiate(p)
  <2>1. OnlyRow(p)
    BY <1>5 DEF SweepInitiate, OnlyRow, RowKept, provider, history
  <2>2. \A v \in Workers : ~On(v, p)
    BY <1>5 DEF SweepInitiate, Untouched, On
  <2> QED
    BY <1>3, <1>5, <2>1, <2>2 DEF SweepInitiate, Unsent, At, provider, history
<1>6. CASE w = Cron /\ SweepReconcile(p)
  <2>1. OnlyRow(p)
    BY <1>6 DEF SweepReconcile, OnlyRow, RowKept, provider, history
  <2> QED
    BY <1>3, <1>6, <2>1 DEF SweepReconcile, At, provider, history
<1> QED
  BY <1>1, <1>2, <1>4, <1>5, <1>6

\* A webhook arrives.
LEMMA WebhookMoves ==
  ASSUME PayoutsTypeOK, NEW m \in inbox, DeliverWebhook(m)
  PROVE  LET p == m.payout IN
         /\ p \in Payouts /\ m.ref \in Refs /\ OnlyRow(p) /\ job' = job /\ transfer' = transfer
         /\ inbox' \subseteq inbox
         /\ ref'[p] = ref[p] /\ approvals'[p] = approvals[p]
         /\ p \in reviewed' <=> p \in reviewed
         /\ p \in doubtful' <=> p \in doubtful
         /\ \/ status'[p] = status[p]
            \/ /\ ref[p] = m.ref
               /\ \/ status'[p] = "paid"
                  \/ status'[p] = "failed" /\ m.outcome \in {"failed", "reversed"}
<1> DEFINE p == m.payout
<1>1. p \in Payouts /\ m.ref \in Refs /\ m.outcome \in Outcome
  BY DEF PayoutsTypeOK
<1>2. /\ Finalize(p, m.ref, m.outcome) /\ inbox' \subseteq inbox
      /\ UNCHANGED <<job, ref, transfer, reviewed, approvals, doubtful>>
  BY DEF DeliverWebhook, history
<1> HIDE DEF p
<1>3. /\ \A q \in Payouts \ {p} : status'[q] = status[q]
      /\ \/ status'[p] = status[p]
         \/ /\ ref[p] = m.ref
            /\ status'[p] = IF m.outcome = "paid" THEN "paid" ELSE "failed"
  BY <1>1, <1>2, FinalizeRow
<1>4. OnlyRow(p)
  BY <1>1, <1>2, <1>3 DEF OnlyRow, RowKept
<1> QED
  BY <1>1, <1>2, <1>3, <1>4 DEF p, Outcome

\* The provider ends or reverses a transfer.
LEMMA ProviderMoves ==
  ASSUME PayoutsTypeOK, NEW p \in Payouts, NEW k \in Refs,
         ProviderEnds(p, k) \/ ProviderReverses(p, k)
  PROVE  /\ OnlyRow(p) /\ job' = job
         /\ status'[p] = status[p] /\ ref'[p] = ref[p] /\ approvals'[p] = approvals[p]
         /\ p \in reviewed' <=> p \in reviewed
         /\ p \in doubtful' <=> p \in doubtful
         /\ \A i \in Refs \ {k} : transfer'[p][i] = transfer[p][i]
         /\ \/ transfer[p][k] = "pending" /\ transfer'[p][k] \in {"success", "failed"}
            \/ transfer[p][k] = "success" /\ transfer'[p][k] = "reversed"
         /\ \A m \in inbox' : \/ m \in inbox
                              \/ /\ m.payout = p /\ m.ref = k
                                 /\ m.outcome = "paid" \/ m.outcome = transfer'[p][k]
<1>1. PICK s, o : /\ ProviderSettles(p, k, s, o)
                  /\ \/ transfer[p][k] = "pending" /\ s \in {"success", "failed"}
                     \/ transfer[p][k] = "success" /\ s = "reversed"
                  /\ o = "paid" \/ o = s
  BY DEF ProviderEnds, ProviderReverses
<1>2. /\ transfer' = [transfer EXCEPT ![p][k] = s]
      /\ inbox' \subseteq inbox \cup {[payout |-> p, ref |-> k, outcome |-> o]}
      /\ UNCHANGED <<status, ref, job, reviewed, approvals, doubtful>>
  BY <1>1 DEF ProviderSettles, history
<1>3. /\ transfer'[p][k] = s /\ \A i \in Refs \ {k} : transfer'[p][i] = transfer[p][i]
      /\ \A q \in Payouts \ {p} : transfer'[q] = transfer[q]
  BY <1>2 DEF PayoutsTypeOK
<1>4. OnlyRow(p)
  BY <1>2, <1>3 DEF OnlyRow, RowKept
<1>5. \A m \in inbox' : \/ m \in inbox
                        \/ m.payout = p /\ m.ref = k /\ m.outcome = o
  BY <1>2
<1> QED
  BY <1>1, <1>2, <1>3, <1>4, <1>5

----------------------------------------------------------------------------
(* One reference *)

Preparing == {"initiate", "persist"}
Once(p) == approvals[p] <= 1

\* A row that has no reference was not taken up by the provider, parked or
\* settled, and only a row created for review is being approved.
\* Unless two admins approved it: who is about to send holds the reference of
\* the row, who is about to store one found none there, nobody else is, and
\* the provider knows no other.
RefOK(p) ==
  /\ ref[p] = 0 => /\ status[p] \notin {"failed", "processing", "paid"}
                   /\ \A w \in Workers : On(w, p) => job[w].pc \notin {"settle", "park"}
  /\ \A w \in Workers : On(w, p) /\ job[w].pc = "approve" => p \in reviewed
  /\ Once(p) =>
       /\ \A w \in Workers : On(w, p) =>
            /\ job[w].pc \in {"send", "sent"} => job[w].ref = ref[p]
            /\ job[w].pc = "persist" => ref[p] = 0
       /\ \A k \in Refs : transfer[p][k] # "none" => ref[p] = k
       /\ ref[p] = 0 => \A v, w \in Workers :
            (On(v, p) /\ On(w, p) /\ job[v].pc \in Preparing /\ job[w].pc \in Preparing)
              => v = w

ReferencesOK == \A p \in Payouts : RefOK(p)

\* A step elsewhere.
LEMMA RefElsewhere ==
  ASSUME NEW q \in Payouts, RowKept(q), RefOK(q),
         \A v \in Workers : On(v, q)' => job'[v] = job[v]
  PROVE  RefOK(q)'
  BY DEF RefOK, RowKept, On, Once

\* What RowInv says of one row.
LEMMA RowFacts ==
  ASSUME PayoutsTypeOK, RowInv, NEW p \in Payouts
  PROVE  /\ ref[p] \in 0..MaxRefs /\ approvals[p] \in Nat
         /\ ref[p] = 0 => \A k \in Refs : transfer[p][k] = "none"
         /\ status[p] = "none" => ref[p] = 0 /\ approvals[p] = 0
         /\ status[p] = "pending_review" => p \in reviewed /\ approvals[p] = 0
         /\ status[p] = "rejected" /\ p \notin doubtful => p \in reviewed /\ approvals[p] = 0
         /\ p \in reviewed /\ approvals[p] = 0 =>
              /\ status[p] \in {"pending_review", "rejected"} /\ ref[p] = 0
              /\ \A w \in Workers : On(w, p) => job[w].pc \notin Acting
         /\ \A w \in Workers : On(w, p) =>
              /\ job[w].pc \in {"send", "sent"} => ref[p] # 0
              /\ job[w].pc \in Requesting => /\ status[p] = "none"
                                             /\ \A v \in Workers \ {w} : ~On(v, p)
  BY DEF RowInv, NullRefUnsent, NewOK, UnderReviewOK, UnapprovedOK, SendingOK, JobsOK,
         PayoutsTypeOK, On


\* Steps that read their row.
LEMMA RefQuiet ==
  ASSUME PayoutsTypeOK, RowInv, ReferencesOK, NEW w \in Workers,
         \/ FinishSummary(w) \/ CheckInFlight(w) \/ Initiate(w) \/ VerifyTransfer(w)
  PROVE  ReferencesOK'
<1>1. PICK p \in Payouts :
      /\ On(w, p) /\ OnlyJob(w)
      /\ job'[w].pc # "free" => job'[w].payout = p
      /\ \/ job'[w].pc \notin {"persist", "send", "sent", "initiate", "approve", "settle", "park"}
         \/ job[w].pc = "initiate" /\ job'[w].pc = "persist" /\ ref[p] = 0
         \/ job[w].pc = "initiate" /\ job'[w].pc = "send" /\ ref[p] # 0 /\ job'[w].ref = ref[p]
  BY QuietMoves DEF On
<1>2. \A q \in Payouts : RowKept(q)
  BY QuietMoves
<1>3. RefOK(p)'
  BY <1>1, <1>2 DEF ReferencesOK, RefOK, RowKept, OnlyJob, On, Once, Preparing
<1>4. \A q \in Payouts \ {p} : RefOK(q)'
  BY <1>1, <1>2, RefElsewhere DEF ReferencesOK, On, OnlyJob
<1> QED
  BY <1>3, <1>4 DEF ReferencesOK

\* Steps that write their row.
LEMMA RefWriting ==
  ASSUME PayoutsTypeOK, RowInv, ReferencesOK, NEW w \in Workers,
         \/ Insert(w) \/ Approve(w) \/ Reject(w) \/ SettleOffPlatform(w)
         \/ MarkProcessing(w) \/ Park(w) \/ ApplyVerified(w)
  PROVE  ReferencesOK'
<1>1. PICK p \in Payouts :
      /\ On(w, p) /\ OnlyRow(p) /\ OnlyJob(w) /\ transfer' = transfer
      /\ job[w].pc \in {"insert", "approve", "reject", "settle", "sent", "park", "apply"}
      /\ job'[w].pc # "free" => /\ job'[w].pc = "initiate" /\ job'[w].payout = p
                                /\ job[w].pc \in {"insert", "approve"}
      /\ job[w].pc # "approve" => approvals'[p] = approvals[p]
      /\ job[w].pc = "approve" => approvals'[p] = approvals[p] + 1
      /\ job[w].pc # "sent" => ref'[p] = ref[p]
      /\ job[w].pc = "sent" => ref'[p] = job[w].ref
      /\ job[w].pc # "insert" => (p \in reviewed' <=> p \in reviewed)
      /\ status'[p] \in {"failed", "processing", "paid"} =>
           \/ status[p] = status'[p]
           \/ job[w].pc \in {"settle", "sent", "park"}
           \/ job[w].pc = "apply" /\ ref[p] \in Refs
      /\ job[w].pc = "insert" => status'[p] \in {"pending_review", "requested"}
  <2> DEFINE p == job[w].payout
  <2>1. p \in Payouts /\ On(w, p)
    BY WritingMoves DEF On
  <2> QED
    BY <2>1, WritingMoves
<1>2. RefOK(p) /\ MaxRefs \in Nat \ {0} /\ ref[p] \in 0..MaxRefs
  BY <1>1, PayoutsAssumption, RowFacts DEF ReferencesOK
<1>3. RefOK(p)'
  <2>1. CASE job[w].pc = "insert"
    <3>1. /\ status[p] = "none" /\ ref[p] = 0 /\ approvals[p] = 0
          /\ \A v \in Workers \ {w} : ~On(v, p)
          /\ \A k \in Refs : transfer[p][k] = "none"
      BY <1>1, <2>1, RowFacts DEF Requesting
    <3>2. \A v \in Workers : On(v, p)' => v = w /\ job'[w].pc = "initiate"
      BY <1>1, <3>1 DEF On, OnlyJob
    <3> QED
      BY <1>1, <2>1, <3>1, <3>2 DEF RefOK, Once
  <2>2. CASE job[w].pc = "approve"
    <3>1. p \in reviewed /\ approvals[p] \in Nat
      BY <1>1, <1>2, <2>2, RowFacts DEF RefOK
    <3>2. Once(p)' =>
            /\ Once(p) /\ ref[p] = 0
            /\ \A v \in Workers : On(v, p) => job[v].pc \notin Acting
            /\ \A k \in Refs : transfer[p][k] = "none"
      BY <1>1, <2>2, <3>1, RowFacts DEF Once
    <3>3. status'[p] \in {"failed", "processing", "paid"} => status'[p] = status[p]
      BY <1>1, <2>2
    <3>4. \A v \in Workers : On(v, p)' => \/ v = w /\ job'[w].pc = "initiate"
                                          \/ job'[v] = job[v] /\ On(v, p)
      BY <1>1 DEF On, OnlyJob
    <3>5. \A v \in Workers \ {w} : Once(p)' /\ On(v, p)' =>
            job'[v].pc \notin {"initiate", "persist", "send", "sent"}
      BY <3>2, <3>4 DEF Acting
    <3> QED
      BY <1>1, <1>2, <2>2, <3>1, <3>2, <3>3, <3>4, <3>5 DEF RefOK, Preparing
  <2>3. CASE job[w].pc = "sent"
    <3>1. ref[p] # 0 /\ (Once(p) => ref'[p] = ref[p])
      BY <1>1, <1>2, <2>3, RowFacts DEF RefOK
    <3>2. ref'[p] # 0
      <4>1. job[w].ref \in Refs
        BY <2>3, JobFields DEF PayoutsTypeOK
      <4> QED
        BY <1>1, <1>2, <2>3, <4>1 DEF Refs
    <3>3. \A v \in Workers : On(v, p)' => job'[v] = job[v] /\ On(v, p)
      BY <1>1, <2>3 DEF On, OnlyJob
    <3>4. Once(p)' <=> Once(p)
      BY <1>1, <2>3 DEF Once
    <3> QED
      BY <1>1, <1>2, <2>3, <3>1, <3>2, <3>3, <3>4 DEF RefOK
  <2>4. CASE job[w].pc \in {"reject", "settle", "park", "apply"}
    <3>1. \A v \in Workers : On(v, p)' => job'[v] = job[v] /\ On(v, p)
      BY <1>1, <2>4 DEF On, OnlyJob
    <3>2. Once(p)' <=> Once(p)
      BY <1>1, <2>4 DEF Once
    <3>3. ref[p] = 0 => status'[p] \notin {"failed", "processing", "paid"}
      BY <1>1, <1>2, <2>4 DEF RefOK, Refs
    <3> QED
      BY <1>1, <1>2, <2>4, <3>1, <3>2, <3>3 DEF RefOK
  <2> QED
    BY <1>1, <2>1, <2>2, <2>3, <2>4
<1>4. \A q \in Payouts \ {p} : RefOK(q)'
  BY <1>1, RefElsewhere DEF ReferencesOK, On, OnlyJob, OnlyRow
<1> QED
  BY <1>3, <1>4 DEF ReferencesOK

\* The sending itself.
LEMMA RefSending ==
  ASSUME PayoutsTypeOK, RowInv, ReferencesOK, NEW w \in Workers,
         PersistReference(w) \/ SendTaken(w) \/ SendNotTaken(w)
  PROVE  ReferencesOK'
<1>1. PICK p \in Payouts, k \in Refs :
         /\ On(w, p) /\ k = job[w].ref /\ OnlyRow(p) /\ OnlyJob(w)
         /\ status'[p] = status[p] /\ approvals'[p] = approvals[p]
         /\ p \in reviewed' <=> p \in reviewed
         /\ job[w].pc \in {"persist", "send"}
         /\ job'[w].pc # "free" => job'[w].payout = p
         /\ job'[w].pc \in {"send", "sent"} => job'[w].ref = k
         /\ job[w].pc = "persist" => /\ job'[w].pc = "send" /\ ref'[p] = k
                                     /\ transfer' = transfer
         /\ job[w].pc = "send" =>
              /\ ref'[p] = ref[p] /\ job'[w].pc \in {"free", "park", "sent"}
              /\ \A i \in Refs \ {k} : transfer'[p][i] = transfer[p][i]
  <2> DEFINE p == job[w].payout
             k == job[w].ref
  <2>1. p \in Payouts /\ k \in Refs /\ On(w, p)
    BY SendingMoves DEF On
  <2> QED
    BY <2>1, SendingMoves
<1>2. RefOK(p) /\ MaxRefs \in Nat \ {0} /\ ref[p] \in 0..MaxRefs /\ k # 0
  BY <1>1, PayoutsAssumption, RowFacts DEF ReferencesOK, Refs
<1>3. \A v \in Workers \ {w} : On(v, p)' => job'[v] = job[v] /\ On(v, p)
  BY <1>1 DEF On, OnlyJob
<1>4. Once(p)' <=> Once(p)
  BY <1>1 DEF Once
<1>5. RefOK(p)'
  <2>1. CASE job[w].pc = "persist"
    <3>1. Once(p) => /\ ref[p] = 0
                     /\ \A i \in Refs : transfer'[p][i] = "none"
                     /\ \A v \in Workers \ {w} : On(v, p)
                          => job[v].pc \notin {"send", "sent", "initiate", "persist"}
      BY <1>1, <1>2, <2>1, RowFacts DEF RefOK, Preparing
    <3> QED
      BY <1>1, <1>2, <1>3, <1>4, <2>1, <3>1 DEF RefOK
  <2>2. CASE job[w].pc = "send"
    <3>1. ref[p] # 0 /\ (Once(p) => ref[p] = k)
      BY <1>1, <1>2, <2>2, RowFacts DEF RefOK
    <3> QED
      BY <1>1, <1>2, <1>3, <1>4, <2>2, <3>1 DEF RefOK
  <2> QED
    BY <1>1, <2>1, <2>2
<1>6. \A q \in Payouts \ {p} : RefOK(q)'
  BY <1>1, RefElsewhere DEF ReferencesOK, On, OnlyJob, OnlyRow
<1> QED
  BY <1>5, <1>6 DEF ReferencesOK

\* A request, or a run of the sweep, begins.
LEMMA RefStart ==
  ASSUME PayoutsTypeOK, RowInv, ReferencesOK, NEW w \in Workers, NEW p \in Payouts,
         \/ StartRequest(w, p) \/ StartApprove(w, p) \/ StartReject(w, p)
         \/ StartRetry(w, p) \/ StartSettle(w, p)
         \/ w = Cron /\ (SweepInitiate(p) \/ SweepReconcile(p))
  PROVE  ReferencesOK'
<1>1. /\ OnlyRow(p) /\ OnlyJob(w) /\ transfer' = transfer
      /\ status'[p] = status[p] /\ ref'[p] = ref[p] /\ approvals'[p] = approvals[p]
      /\ p \in reviewed' <=> p \in reviewed
      /\ job'[w].payout = p
      /\ \/ job'[w].pc \in {"summary", "reject", "verify"}
         \/ job'[w].pc = "approve" /\ p \in reviewed
         \/ job'[w].pc \in {"settle", "initiate"} /\ status[p] = "failed"
         \/ job'[w].pc = "initiate" /\ \A v \in Workers : ~On(v, p)
  BY StartMoves, RowFacts
<1>2. \A v \in Workers \ {w} : On(v, p)' => job'[v] = job[v] /\ On(v, p)
  BY <1>1 DEF On, OnlyJob
<1>3. RefOK(p)'
  <2>1. RefOK(p) /\ (Once(p)' <=> Once(p))
    BY <1>1 DEF ReferencesOK, Once
  <2> QED
    BY <1>1, <1>2, <2>1 DEF RefOK, Preparing
<1>4. \A q \in Payouts \ {p} : RefOK(q)'
  BY <1>1, RefElsewhere DEF ReferencesOK, On, OnlyJob, OnlyRow
<1> QED
  BY <1>3, <1>4 DEF ReferencesOK

\* Word from the provider, and what it does by itself.
LEMMA RefProvider ==
  ASSUME PayoutsTypeOK, RowInv, ReferencesOK,
         \/ \E m \in inbox : DeliverWebhook(m)
         \/ \E p \in Payouts, k \in Refs : ProviderEnds(p, k) \/ ProviderReverses(p, k)
  PROVE  ReferencesOK'
<1>1. PICK p \in Payouts :
         /\ OnlyRow(p) /\ job' = job /\ ref'[p] = ref[p] /\ approvals'[p] = approvals[p]
         /\ p \in reviewed' <=> p \in reviewed
         /\ status'[p] = status[p] \/ ref[p] \in Refs
         /\ \A k \in Refs : transfer'[p][k] # "none" => transfer[p][k] # "none"
  <2>1. ASSUME NEW m \in inbox, DeliverWebhook(m)
        PROVE  \E p \in Payouts :
                 /\ OnlyRow(p) /\ job' = job /\ ref'[p] = ref[p] /\ approvals'[p] = approvals[p]
                 /\ p \in reviewed' <=> p \in reviewed
                 /\ status'[p] = status[p] \/ ref[p] \in Refs
                 /\ \A k \in Refs : transfer'[p][k] # "none" => transfer[p][k] # "none"
    BY <2>1, WebhookMoves
  <2>2. ASSUME NEW p \in Payouts, NEW k \in Refs, ProviderEnds(p, k) \/ ProviderReverses(p, k)
        PROVE  /\ OnlyRow(p) /\ job' = job /\ ref'[p] = ref[p] /\ approvals'[p] = approvals[p]
               /\ p \in reviewed' <=> p \in reviewed
               /\ status'[p] = status[p]
               /\ \A i \in Refs : transfer'[p][i] # "none" => transfer[p][i] # "none"
    BY <2>2, ProviderMoves
  <2> QED
    BY <2>1, <2>2
<1>2. RefOK(p)'
  <2>1. RefOK(p) /\ (Once(p)' <=> Once(p)) /\ \A v \in Workers : On(v, p)' <=> On(v, p)
    BY <1>1 DEF ReferencesOK, Once, On
  <2>2. ref[p] = 0 => ref[p] \notin Refs
    BY DEF Refs
  <2> QED
    BY <1>1, <2>1, <2>2 DEF RefOK, Preparing
<1>3. \A q \in Payouts \ {p} : RefOK(q)'
  BY <1>1, RefElsewhere DEF ReferencesOK, On, OnlyRow
<1> QED
  BY <1>2, <1>3 DEF ReferencesOK

\* ReferencesOK is inductive, relative to the types and the rows.
LEMMA ReferencesStep ==
  PayoutsTypeOK /\ RowInv /\ ReferencesOK /\ [PayoutsNext]_payoutVars => ReferencesOK'
<1> SUFFICES ASSUME PayoutsTypeOK, RowInv, ReferencesOK, [PayoutsNext]_payoutVars
             PROVE  ReferencesOK'
  OBVIOUS
<1>1. CASE Credit \/ Debit \/ Crash \/ UNCHANGED payoutVars
  <2>1. /\ \A q \in Payouts : RowKept(q)
        /\ \A w \in Workers : job'[w] = job[w] \/ job'[w].pc = "free"
    BY <1>1 DEF Credit, Debit, Crash, Free, payoutVars, provider, history, RowKept
  <2> QED
    BY <2>1, RefElsewhere DEF ReferencesOK, On
<1>2. ASSUME NEW w \in Workers, Continue(w)
      PROVE  ReferencesOK'
  BY <1>2, RefQuiet, RefWriting, RefSending DEF Continue
<1> QED
  BY <1>1, <1>2, RefStart, RefProvider DEF PayoutsNext, Workers

LEMMA ReferencesInit == PayoutsInit => ReferencesOK
  BY DEF PayoutsInit, ReferencesOK, RefOK, On, Free, Once

----------------------------------------------------------------------------
(* What was sent stays committed *)

Sending == {"initiate", "persist", "send", "sent", "park"}
Unwelcome == {"failed", "reversed"}
Clean(p) == Once(p) /\ p \notin doubtful

\* For a payout that was approved at most once and is in no doubt: one job at
\* most is sending it; until that one has an answer the provider has nothing
\* of it; bad news is true news; and once the row says failed or rejected
\* neither money nor a job is on its way.
CleanOK(p) == Clean(p) =>
  /\ \A v, w \in Workers :
       (On(v, p) /\ On(w, p) /\ job[v].pc \in Sending /\ job[w].pc \in Sending) => v = w
  /\ \A w \in Workers : On(w, p) /\ job[w].pc \in Sending \ {"sent"}
       => \A k \in Refs : transfer[p][k] = "none"
  /\ \A m \in inbox : m.payout = p /\ m.outcome \in Unwelcome
       => transfer[p][m.ref] = m.outcome
  /\ \A w \in Workers : On(w, p) /\ job[w].pc = "apply" /\ job[w].outcome \in Unwelcome
       => transfer[p][job[w].ref] = job[w].outcome
  /\ status[p] \in {"failed", "rejected"} =>
       /\ \A k \in Refs : transfer[p][k] \notin {"pending", "success"}
       /\ \A w \in Workers : On(w, p) => job[w].pc \notin {"initiate", "persist", "send"}

SuccessOK == \A p \in Payouts : CleanOK(p)

\* A step elsewhere.
LEMMA CleanElsewhere ==
  ASSUME NEW q \in Payouts, RowKept(q), CleanOK(q),
         \A v \in Workers : On(v, q)' => job'[v] = job[v],
         \A m \in inbox' : m.payout = q => m \in inbox
  PROVE  CleanOK(q)'
  BY DEF CleanOK, RowKept, On, Once, Clean

\* A step on the row itself that changes no transfer of it and no job but w's.
LEMMA CleanHere ==
  ASSUME PayoutsTypeOK, NEW w \in Workers, NEW p \in Payouts, CleanOK(p), OnlyJob(w),
         transfer'[p] = transfer[p], inbox' = inbox,
         job'[w].pc # "free" => job'[w].payout = p,
         Clean(p)' =>
           /\ Clean(p)
           /\ job'[w].pc \in Sending =>
                \/ On(w, p) /\ job[w].pc \in Sending
                \/ \A v \in Workers \ {w} : On(v, p) => job[v].pc \notin Sending
           /\ job'[w].pc \in Sending \ {"sent"} => \A k \in Refs : transfer[p][k] = "none"
           /\ job'[w].pc = "apply" /\ job'[w].outcome \in Unwelcome
                => transfer[p][job'[w].ref] = job'[w].outcome
           /\ status'[p] \in {"failed", "rejected"} =>
                /\ job'[w].pc \notin {"initiate", "persist", "send"}
                /\ \/ status[p] \in {"failed", "rejected"}
                   \/ /\ \A k \in Refs : transfer[p][k] \notin {"pending", "success"}
                      /\ \A v \in Workers \ {w} : On(v, p)
                           => job[v].pc \notin {"initiate", "persist", "send"}
  PROVE  CleanOK(p)'
<1>1. \A v \in Workers \ {w} : job'[v] = job[v] /\ (On(v, p)' <=> On(v, p))
  BY DEF OnlyJob, On
<1> SUFFICES ASSUME Clean(p)'
             PROVE  CleanOK(p)'
  BY DEF CleanOK
<1>2. \A v \in Workers \ {w} : On(w, p)' /\ job'[w].pc \in Sending /\ On(v, p)
                                 => job[v].pc \notin Sending
  BY DEF CleanOK
<1> QED
  BY <1>1, <1>2 DEF CleanOK

\* Steps that read their row.
LEMMA CleanQuiet ==
  ASSUME PayoutsTypeOK, RowInv, SuccessOK, NEW w \in Workers,
         \/ FinishSummary(w) \/ CheckInFlight(w) \/ Initiate(w) \/ VerifyTransfer(w)
  PROVE  SuccessOK'
<1>1. PICK p \in Payouts :
      /\ On(w, p) /\ OnlyJob(w) /\ inbox' = inbox
      /\ job'[w].pc # "free" => job'[w].payout = p
      /\ job'[w].pc \in Sending => job[w].pc = "initiate" /\ job'[w].pc \in {"persist", "send"}
      /\ job'[w].pc = "initiate" => job[w].pc = "initiate"
      /\ job'[w].pc = "apply" /\ job'[w].outcome \in Unwelcome
           => transfer[p][job'[w].ref] = job'[w].outcome
  BY QuietMoves DEF On, Sending, Unwelcome
<1>2. \A q \in Payouts : RowKept(q)
  BY QuietMoves
<1>3. CleanOK(p)'
  <2>1. CleanOK(p) /\ (Clean(p)' => Clean(p)) /\ RowKept(p)
    BY <1>1, <1>2 DEF SuccessOK, Clean, Once, RowKept
  <2>2. Clean(p) /\ job[w].pc = "initiate" =>
          /\ \A k \in Refs : transfer[p][k] = "none"
          /\ status[p] \notin {"failed", "rejected"}
    BY <1>1, <2>1 DEF CleanOK, Sending
  <2>3. status[p] \in {"failed", "rejected"} <=> status'[p] \in {"failed", "rejected"}
    BY <2>1 DEF RowKept
  <2>4. transfer'[p] = transfer[p]
    BY <2>1 DEF RowKept
  <2>5. job'[w].pc \in {"initiate", "persist", "send"} => job'[w].pc \in Sending
    BY DEF Sending
  <2>6. job[w].pc = "initiate" => job[w].pc \in Sending
    BY DEF Sending
  <2> QED
    BY <1>1, <2>1, <2>2, <2>3, <2>4, <2>5, <2>6, CleanHere
<1>4. \A q \in Payouts \ {p} : CleanOK(q)'
  BY <1>1, <1>2, CleanElsewhere DEF SuccessOK, On, OnlyJob
<1> QED
  BY <1>3, <1>4 DEF SuccessOK

\* A failure or a reversal that the provider reported of the row's reference:
\* no other transfer of the row exists, and no job is about to send one.
LEMMA BadNews ==
  ASSUME PayoutsTypeOK, NEW p \in Payouts, RefOK(p), CleanOK(p), Clean(p), NEW k \in Refs,
         ref[p] = k, transfer[p][k] \in Unwelcome
  PROVE  /\ \A i \in Refs : transfer[p][i] \notin {"pending", "success"}
         /\ \A v \in Workers : On(v, p) => job[v].pc \notin {"initiate", "persist", "send"}
<1>1. \A i \in Refs : transfer[p][i] # "none" => i = k
  BY DEF RefOK, Clean
<1>2. \A i \in Refs : transfer[p][i] \notin {"pending", "success"}
  BY <1>1 DEF Unwelcome
<1>3. transfer[p][k] # "none"
  BY DEF Unwelcome
<1> QED
  BY <1>2, <1>3 DEF CleanOK, Sending

\* Steps that write their row.
LEMMA CleanWriting ==
  ASSUME PayoutsTypeOK, RowInv, ReferencesOK, SuccessOK, NEW w \in Workers,
         \/ Insert(w) \/ Approve(w) \/ Reject(w) \/ SettleOffPlatform(w)
         \/ MarkProcessing(w) \/ Park(w) \/ ApplyVerified(w)
  PROVE  SuccessOK'
<1>1. PICK p \in Payouts :
      /\ On(w, p) /\ OnlyRow(p) /\ OnlyJob(w) /\ transfer' = transfer /\ inbox' = inbox
      /\ job[w].pc \in {"insert", "approve", "reject", "settle", "sent", "park", "apply"}
      /\ job'[w].pc # "free" => /\ job'[w].pc = "initiate" /\ job'[w].payout = p
                                /\ job[w].pc \in {"insert", "approve"}
      /\ job[w].pc # "approve" => approvals'[p] = approvals[p]
      /\ job[w].pc = "approve" => approvals'[p] = approvals[p] + 1 /\ status'[p] = "approved"
      /\ p \in doubtful => p \in doubtful'
      /\ job[w].pc = "reject" => status[p] = "pending_review" \/ p \in doubtful'
      /\ job[w].pc = "insert" => status'[p] \in {"pending_review", "requested"}
      /\ status'[p] \in {"failed", "rejected"} =>
           \/ status[p] \in {"failed", "rejected"}
           \/ job[w].pc \in {"reject", "park"}
           \/ /\ job[w].pc = "apply" /\ job[w].outcome \in Unwelcome
              /\ ref[p] = job[w].ref /\ job[w].ref \in Refs
  <2> DEFINE p == job[w].payout
  <2>1. p \in Payouts /\ On(w, p)
    BY WritingMoves DEF On
  <2> QED
    BY <2>1, WritingMoves DEF Unwelcome
<1>2. CleanOK(p) /\ RefOK(p) /\ approvals[p] \in Nat
  BY <1>1, RowFacts DEF ReferencesOK, SuccessOK
<1>3. CleanOK(p)'
  <2>1. Clean(p)' => Clean(p)
    BY <1>1, <1>2 DEF Clean, Once
  <2>2. CASE job[w].pc = "insert"
    <3>1. /\ \A v \in Workers \ {w} : ~On(v, p)
          /\ \A k \in Refs : transfer[p][k] = "none"
      BY <1>1, <2>2, RowFacts DEF Requesting
    <3>2. job'[w].pc = "free" \/ job'[w].pc = "initiate"
      BY <1>1
    <3>3. status'[p] \notin {"failed", "rejected"}
      BY <1>1, <2>2
    <3> QED
      BY <1>1, <1>2, <2>1, <3>1, <3>2, <3>3, CleanHere
  <2>3. CASE job[w].pc \in {"approve", "reject"}
    <3>1. Clean(p)' => p \in reviewed /\ approvals[p] = 0
      <4>1. CASE job[w].pc = "approve"
        BY <1>1, <1>2, <4>1 DEF Clean, Once, RefOK
      <4>2. CASE job[w].pc = "reject"
        BY <1>1, <4>2, RowFacts DEF Clean
      <4> QED
        BY <2>3, <4>1, <4>2
    <3>2. Clean(p)' => /\ \A k \in Refs : transfer[p][k] = "none"
                       /\ \A v \in Workers : On(v, p) => job[v].pc \notin Acting
      BY <3>1, RowFacts
    <3>3. Sending \subseteq Acting /\ {"initiate", "persist", "send"} \subseteq Sending
      BY DEF Sending, Acting
    <3>4. job'[w].pc = "free" \/ job'[w].pc = "initiate"
      BY <1>1
    <3>5. status'[p] \in {"failed", "rejected"} => job'[w].pc = "free" \/ status[p] \in {"failed", "rejected"}
      BY <1>1, <2>3
    <3>6. Clean(p)' /\ status'[p] \in {"failed", "rejected"} => job'[w].pc = "free"
      BY <1>1, <2>3
    <3>7. Clean(p)' => /\ \A k \in Refs : transfer[p][k] \notin {"pending", "success"}
                       /\ \A v \in Workers \ {w} : On(v, p)
                            => job[v].pc \notin Sending /\ job[v].pc \notin {"initiate", "persist", "send"}
      BY <3>2, <3>3
    <3> QED
      BY <1>1, <1>2, <2>1, <3>2, <3>4, <3>6, <3>7, CleanHere
  <2>4. CASE job[w].pc \in {"settle", "sent", "park", "apply"}
    <3>1. job'[w].pc = "free"
      BY <1>1, <2>4
    <3>2. ASSUME Clean(p)', status'[p] \in {"failed", "rejected"},
                 status[p] \notin {"failed", "rejected"}
          PROVE  /\ \A k \in Refs : transfer[p][k] \notin {"pending", "success"}
                 /\ \A v \in Workers \ {w} : On(v, p)
                      => job[v].pc \notin {"initiate", "persist", "send"}
      <4>1. CASE job[w].pc = "park"
        BY <1>1, <1>2, <2>1, <3>2, <4>1 DEF CleanOK, Sending
      <4>2. CASE job[w].pc = "apply" /\ job[w].outcome \in Unwelcome
                   /\ ref[p] = job[w].ref /\ job[w].ref \in Refs
        <5>1. transfer[p][job[w].ref] \in Unwelcome
          BY <1>1, <1>2, <2>1, <3>2, <4>2 DEF CleanOK
        <5> QED
          BY <1>2, <2>1, <3>2, <4>2, <5>1, BadNews
      <4> QED
        BY <1>1, <2>4, <3>2, <4>1, <4>2
    <3>3. job'[w].pc \notin Sending /\ job'[w].pc # "apply"
      BY <3>1 DEF Sending
    <3> QED
      BY <1>1, <1>2, <2>1, <3>1, <3>2, <3>3, CleanHere
  <2> QED
    BY <1>1, <2>2, <2>3, <2>4
<1>4. \A q \in Payouts \ {p} : CleanOK(q)'
  BY <1>1, CleanElsewhere DEF SuccessOK, On, OnlyJob, OnlyRow
<1> QED
  BY <1>3, <1>4 DEF SuccessOK

\* The sending itself.
LEMMA CleanSending ==
  ASSUME PayoutsTypeOK, RowInv, SuccessOK, NEW w \in Workers,
         PersistReference(w) \/ SendTaken(w) \/ SendNotTaken(w)
  PROVE  SuccessOK'
<1>1. PICK p \in Payouts, k \in Refs :
         /\ On(w, p) /\ k = job[w].ref /\ OnlyRow(p) /\ OnlyJob(w) /\ inbox' = inbox
         /\ status'[p] = status[p] /\ approvals'[p] = approvals[p]
         /\ p \in doubtful => p \in doubtful'
         /\ job[w].pc \in {"persist", "send"}
         /\ job'[w].pc # "free" => job'[w].payout = p
         /\ job[w].pc = "persist" => job'[w].pc = "send" /\ transfer' = transfer
         /\ job[w].pc = "send" =>
              /\ job'[w].pc \in {"free", "park", "sent"}
              /\ \/ /\ transfer' = transfer
                    /\ job'[w].pc = "sent" => transfer[p][k] \in {"pending", "success"}
                 \/ /\ transfer'[p][k] = "pending"
                    /\ \A i \in Refs \ {k} : transfer'[p][i] = transfer[p][i]
                    /\ job'[w].pc # "sent" => p \in doubtful'
  <2> DEFINE p == job[w].payout
             k == job[w].ref
  <2>1. p \in Payouts /\ k \in Refs /\ On(w, p)
    BY SendingMoves DEF On
  <2> QED
    BY <2>1, SendingMoves
<1>2. CleanOK(p) /\ (Clean(p)' => Clean(p))
  BY <1>1 DEF SuccessOK, Clean, Once
<1>3. Clean(p) => /\ \A i \in Refs : transfer[p][i] = "none"
                  /\ \A v \in Workers \ {w} : On(v, p) => job[v].pc \notin Sending
                  /\ status[p] \notin {"failed", "rejected"}
  BY <1>1, <1>2 DEF CleanOK, Sending
<1>4. CleanOK(p)'
  <2>1. CASE transfer' = transfer
    <3>1. Clean(p) => job'[w].pc # "sent"
      BY <1>1, <1>3, <2>1
    <3>2. job'[w].pc # "apply"
      BY <1>1
    <3> QED
      BY <1>1, <1>2, <1>3, <2>1, <3>1, <3>2, CleanHere
  <2>2. CASE job[w].pc = "send" /\ transfer' # transfer
    <3> SUFFICES ASSUME Clean(p)' PROVE CleanOK(p)'
      BY DEF CleanOK
    <3>1. job'[w].pc = "sent"
      BY <1>1, <2>2 DEF Clean
    <3>2. \A v \in Workers \ {w} : On(v, p)' => job'[v] = job[v] /\ On(v, p)
      BY <1>1 DEF On, OnlyJob
    <3>3. \A m \in inbox : ~(m.payout = p /\ m.outcome \in Unwelcome)
      <4>1. \A m \in inbox : m.ref \in Refs
        BY DEF PayoutsTypeOK
      <4> QED
        BY <1>2, <1>3, <4>1 DEF CleanOK, Unwelcome
    <3>4. \A v \in Workers : ~(On(v, p) /\ job[v].pc = "apply" /\ job[v].outcome \in Unwelcome)
      <4>1. \A v \in Workers : job[v].pc = "apply" => job[v].ref \in Refs
        BY JobFields DEF PayoutsTypeOK
      <4> QED
        BY <1>2, <1>3, <4>1 DEF CleanOK, Unwelcome
    <3>5. \A v \in Workers \ {w} : On(v, p)' => job'[v].pc \notin Sending
      BY <1>2, <1>3, <3>2
    <3>6. status'[p] \notin {"failed", "rejected"}
      BY <1>1, <1>2, <1>3
    <3> QED
      BY <1>1, <3>1, <3>2, <3>3, <3>4, <3>5, <3>6 DEF CleanOK
  <2> QED
    BY <1>1, <2>1, <2>2
<1>5. \A q \in Payouts \ {p} : CleanOK(q)'
  BY <1>1, CleanElsewhere DEF SuccessOK, On, OnlyJob, OnlyRow
<1> QED
  BY <1>4, <1>5 DEF SuccessOK

\* A request, or a run of the sweep, begins.
LEMMA CleanStart ==
  ASSUME PayoutsTypeOK, RowInv, SuccessOK, NEW w \in Workers, NEW p \in Payouts,
         \/ StartRequest(w, p) \/ StartApprove(w, p) \/ StartReject(w, p)
         \/ StartRetry(w, p) \/ StartSettle(w, p)
         \/ w = Cron /\ (SweepInitiate(p) \/ SweepReconcile(p))
  PROVE  SuccessOK'
<1>1. /\ OnlyRow(p) /\ OnlyJob(w) /\ transfer' = transfer /\ inbox' = inbox
      /\ status'[p] = status[p] /\ approvals'[p] = approvals[p]
      /\ p \in doubtful => p \in doubtful'
      /\ job'[w].payout = p
      /\ \/ job'[w].pc \in {"summary", "approve", "reject", "settle", "verify"}
         \/ job'[w].pc = "initiate" /\ p \in doubtful'
         \/ /\ job'[w].pc = "initiate" /\ status[p] = "requested" /\ ref[p] = 0
            /\ \A v \in Workers : ~On(v, p)
  BY StartMoves
<1>2. CleanOK(p) /\ (Clean(p)' => Clean(p))
  BY <1>1 DEF SuccessOK, Clean, Once
<1>3. CleanOK(p)'
  <2>1. CASE job'[w].pc \in {"summary", "approve", "reject", "settle", "verify"}
    <3>1. job'[w].pc \notin Sending /\ job'[w].pc # "apply"
          /\ job'[w].pc \notin {"initiate", "persist", "send"}
      BY <2>1 DEF Sending
    <3> QED
      BY <1>1, <1>2, <3>1, CleanHere
  <2>2. CASE job'[w].pc = "initiate" /\ p \in doubtful'
    BY <2>2 DEF CleanOK, Clean
  <2>3. CASE /\ job'[w].pc = "initiate" /\ status[p] = "requested" /\ ref[p] = 0
             /\ \A v \in Workers : ~On(v, p)
    <3>1. \A k \in Refs : transfer[p][k] = "none"
      BY <2>3, RowFacts
    <3> QED
      BY <1>1, <1>2, <2>3, <3>1, CleanHere
  <2> QED
    BY <1>1, <2>1, <2>2, <2>3
<1>4. \A q \in Payouts \ {p} : CleanOK(q)'
  BY <1>1, CleanElsewhere DEF SuccessOK, On, OnlyJob, OnlyRow
<1> QED
  BY <1>3, <1>4 DEF SuccessOK

\* A webhook arrives.
LEMMA CleanWebhook ==
  ASSUME PayoutsTypeOK, ReferencesOK, SuccessOK, NEW m \in inbox, DeliverWebhook(m)
  PROVE  SuccessOK'
<1>1. PICK p \in Payouts :
         /\ p = m.payout /\ m.ref \in Refs /\ OnlyRow(p) /\ job' = job /\ transfer' = transfer
         /\ inbox' \subseteq inbox /\ approvals'[p] = approvals[p]
         /\ p \in doubtful' <=> p \in doubtful
         /\ status'[p] \in {"failed", "rejected"} =>
              \/ status[p] \in {"failed", "rejected"}
              \/ m.outcome \in Unwelcome /\ ref[p] = m.ref
  BY WebhookMoves DEF Unwelcome
<1>2. CleanOK(p) /\ RefOK(p) /\ (Clean(p)' <=> Clean(p))
      /\ \A v \in Workers : On(v, p)' <=> On(v, p)
  BY <1>1 DEF SuccessOK, ReferencesOK, Clean, Once, On
<1>3. ASSUME Clean(p), status'[p] \in {"failed", "rejected"},
             status[p] \notin {"failed", "rejected"}
      PROVE  /\ \A i \in Refs : transfer[p][i] \notin {"pending", "success"}
             /\ \A v \in Workers : On(v, p) => job[v].pc \notin {"initiate", "persist", "send"}
  <2>1. transfer[p][m.ref] \in Unwelcome
    BY <1>1, <1>2, <1>3 DEF CleanOK
  <2> QED
    BY <1>1, <1>2, <1>3, <2>1, BadNews
<1>4. CleanOK(p)'
  BY <1>1, <1>2, <1>3 DEF CleanOK
<1>5. \A q \in Payouts \ {p} : CleanOK(q)'
  BY <1>1, CleanElsewhere DEF SuccessOK, On, OnlyRow
<1> QED
  BY <1>4, <1>5 DEF SuccessOK

\* The provider ends or reverses a transfer.
LEMMA CleanProvider ==
  ASSUME PayoutsTypeOK, SuccessOK, NEW p \in Payouts, NEW k \in Refs,
         ProviderEnds(p, k) \/ ProviderReverses(p, k)
  PROVE  SuccessOK'
<1>1. /\ OnlyRow(p) /\ job' = job /\ status'[p] = status[p] /\ approvals'[p] = approvals[p]
      /\ p \in doubtful' <=> p \in doubtful
      /\ \A i \in Refs \ {k} : transfer'[p][i] = transfer[p][i]
      /\ transfer[p][k] \in {"pending", "success"}
      /\ \A m \in inbox' : \/ m \in inbox
                           \/ /\ m.payout = p /\ m.ref = k
                              /\ m.outcome = "paid" \/ m.outcome = transfer'[p][k]
  BY ProviderMoves
<1>2. CleanOK(p) /\ (Clean(p)' <=> Clean(p)) /\ \A v \in Workers : On(v, p)' <=> On(v, p)
  BY <1>1 DEF SuccessOK, Clean, Once, On
<1>3. CleanOK(p)'
  <2> SUFFICES ASSUME Clean(p) PROVE CleanOK(p)'
    BY <1>2 DEF CleanOK
  <2>1. /\ \A w \in Workers : On(w, p) => job[w].pc \notin Sending \ {"sent"}
        /\ status[p] \notin {"failed", "rejected"}
    BY <1>1, <1>2 DEF CleanOK
  <2>2. \A m \in inbox' : m.payout = p /\ m.outcome \in Unwelcome
          => transfer'[p][m.ref] = m.outcome
    <3>1. \A m \in inbox : m.ref \in Refs
      BY DEF PayoutsTypeOK
    <3>2. \A m \in inbox : m.payout = p /\ m.outcome \in Unwelcome
            => m.ref # k /\ transfer[p][m.ref] = m.outcome
      BY <1>1, <1>2 DEF CleanOK, Unwelcome
    <3> QED
      BY <1>1, <3>1, <3>2 DEF Unwelcome
  <2>3. \A w \in Workers : On(w, p) /\ job[w].pc = "apply" /\ job[w].outcome \in Unwelcome
          => transfer'[p][job[w].ref] = job[w].outcome
    <3>1. \A w \in Workers : job[w].pc = "apply" => job[w].ref \in Refs
      BY JobFields DEF PayoutsTypeOK
    <3>2. \A w \in Workers : On(w, p) /\ job[w].pc = "apply" /\ job[w].outcome \in Unwelcome
            => job[w].ref # k /\ transfer[p][job[w].ref] = job[w].outcome
      BY <1>1, <1>2 DEF CleanOK, Unwelcome
    <3> QED
      BY <1>1, <3>1, <3>2
  <2> QED
    BY <1>1, <1>2, <2>1, <2>2, <2>3 DEF CleanOK
<1>4. \A q \in Payouts \ {p} : CleanOK(q)'
  BY <1>1, CleanElsewhere DEF SuccessOK, On, OnlyRow
<1> QED
  BY <1>3, <1>4 DEF SuccessOK

\* SuccessOK is inductive, relative to the types, the rows and the references.
LEMMA SuccessStep ==
  PayoutsTypeOK /\ RowInv /\ ReferencesOK /\ SuccessOK /\ [PayoutsNext]_payoutVars => SuccessOK'
<1> SUFFICES ASSUME PayoutsTypeOK, RowInv, ReferencesOK, SuccessOK, [PayoutsNext]_payoutVars
             PROVE  SuccessOK'
  OBVIOUS
<1>1. CASE Credit \/ Debit \/ Crash \/ UNCHANGED payoutVars
  <2>1. /\ \A q \in Payouts : RowKept(q)
        /\ \A w \in Workers : job'[w] = job[w] \/ job'[w].pc = "free"
        /\ inbox' = inbox
    BY <1>1 DEF Credit, Debit, Crash, Free, payoutVars, provider, history, RowKept
  <2> QED
    BY <2>1, CleanElsewhere DEF SuccessOK, On
<1>2. ASSUME NEW w \in Workers, Continue(w)
      PROVE  SuccessOK'
  BY <1>2, CleanQuiet, CleanWriting, CleanSending DEF Continue
<1> QED
  BY <1>1, <1>2, CleanStart, CleanWebhook, CleanProvider DEF PayoutsNext, Workers

LEMMA SuccessInit == PayoutsInit => SuccessOK
  BY DEF PayoutsInit, SuccessOK, CleanOK, On, Free

----------------------------------------------------------------------------
(* The balance *)

\* The payouts of these states that were compared with the balance.
Counted(S) == InStatus(S) \ unchecked

Checking == {"checkInFlight", "insert"}

\* Earnings only shrink on their way; what is counted is covered; a request
\* that is summing knows at least of the counted payouts that are paid; and
\* one that has compared its amount may still add it.
BalanceOK ==
  /\ earned <= credits
  /\ Total(Counted(Committed)) <= credits
  /\ \A w \in Workers : job[w].pc = "summary" => Total(Counted({"paid"})) <= job[w].paidOut
  /\ \A w \in Workers : job[w].pc \in Checking =>
       Amount[job[w].payout] + Total(Counted(Committed)) <= credits

\* Fewer payouts come to no more.
LEMMA TotalSubset ==
  ASSUME NEW S \in SUBSET Payouts, NEW T \in SUBSET S
  PROVE  Total(T) <= Total(S) /\ Total(S) \in Nat /\ Total(T) \in Nat
<1>1. T \in SUBSET Payouts
  OBVIOUS
<1>2. /\ IsFiniteSet(S) /\ Total(S) \in Nat /\ Total(S) = SumOver(Amount, S)
      /\ Total(T) \in Nat /\ Total(T) = SumOver(Amount, T)
  BY <1>1, TotalNat
<1>3. \A x \in S : Amount[x] \in Nat
  BY PayoutsAssumption
<1>4. SumOver(Amount, T) <= SumOver(Amount, S)
  BY <1>2, <1>3, SumSubset
<1> QED
  BY <1>2, <1>4

\* Two sets together come to no more than both.
LEMMA TotalUnion ==
  ASSUME NEW S \in SUBSET Payouts, NEW T \in SUBSET Payouts
  PROVE  /\ Total(S \cup T) <= Total(S) + Total(T)
         /\ Total(S) \in Nat /\ Total(T) \in Nat /\ Total(S \cup T) \in Nat
<1> DEFINE R == T \ S
<1>1. /\ R \in SUBSET T /\ R \in SUBSET Payouts /\ S \cap R = {} /\ S \cup R = S \cup T
      /\ S \cup R \in SUBSET Payouts
  OBVIOUS
<1>2. \A x \in S \cup R : Amount[x] \in Int
  BY PayoutsAssumption
<1> HIDE DEF R
<1>3. /\ IsFiniteSet(S) /\ Total(S) \in Nat /\ Total(S) = SumOver(Amount, S)
      /\ IsFiniteSet(R) /\ Total(R) \in Nat /\ Total(R) = SumOver(Amount, R)
      /\ Total(S \cup R) = SumOver(Amount, S \cup R) /\ Total(S \cup R) \in Nat
  BY <1>1, TotalNat
<1>4. SumOver(Amount, S \cup R) = SumOver(Amount, S) + SumOver(Amount, R)
  BY <1>1, <1>2, <1>3, SumUnion
<1>5. Total(R) <= Total(T) /\ Total(T) \in Nat
  BY <1>1, TotalSubset
<1>6. Total(S \cup R) = Total(S \cup T)
  BY <1>1, Zenon
<1>7. Total(S \cup T) \in Nat
  BY <1>3, <1>6
<1> QED
  BY <1>3, <1>4, <1>5, <1>6, <1>7

\* One payout comes to its amount.
LEMMA TotalOne ==
  ASSUME NEW p \in Payouts
  PROVE  Total({p}) = Amount[p] /\ Amount[p] \in Nat
<1>1. /\ IsFiniteSet({}) /\ p \notin {} /\ \A x \in {} \cup {p} : Amount[x] \in Int
      /\ {} \cup {p} = {p}
  BY PayoutsAssumption, FS_EmptySet
<1>2. SumOver(Amount, {} \cup {p}) = SumOver(Amount, {}) + Amount[p]
  <2>1. \A S, y : IsFiniteSet(S) /\ y \notin S /\ (\A x \in S \cup {y} : Amount[x] \in Int)
          => SumOver(Amount, S \cup {y}) = SumOver(Amount, S) + Amount[y]
    BY SumAdd
  <2> QED
    BY <1>1, <2>1
<1>3. SumOver(Amount, {} \cup {p}) = SumOver(Amount, {p})
  BY <1>1, Zenon
<1>4. Total({p}) = SumOver(Amount, {p}) /\ SumOver(Amount, {}) = 0 /\ Amount[p] \in Nat
  BY TotalNat, SumEmpty, PayoutsAssumption
<1> QED
  BY <1>2, <1>3, <1>4

\* The counted payouts are payouts.
LEMMA CountedRows == \A S : Counted(S) \in SUBSET Payouts /\ Counted(S) \subseteq InStatus(S)
                            /\ InStatus(S) \in SUBSET Payouts
  BY DEF Counted, InStatus

\* A step that counts no more payouts, and after which whoever sums or checks
\* did so before.
LEMMA BalanceKept ==
  ASSUME PayoutsTypeOK, BalanceOK, earned' <= credits', credits <= credits', credits' \in Nat,
         Counted(Committed)' \subseteq Counted(Committed),
         \A w \in Workers : job'[w].pc = "summary" =>
           job[w] = job'[w] /\ Counted({"paid"})' \subseteq Counted({"paid"}),
         \A w \in Workers : job'[w].pc \in Checking =>
           job[w].pc \in Checking /\ job[w].payout = job'[w].payout
  PROVE  BalanceOK'
<1>1. /\ Total(Counted(Committed)') <= Total(Counted(Committed))
      /\ Total(Counted(Committed)') \in Nat /\ Total(Counted(Committed)) \in Nat
  BY CountedRows, TotalSubset
<1>2. credits \in Nat /\ \A w \in Workers : job[w] \in Job
  BY DEF PayoutsTypeOK
<1>3. ASSUME NEW w \in Workers, job'[w].pc = "summary"
      PROVE  Total(Counted({"paid"})') <= job'[w].paidOut
  <2>1. /\ Total(Counted({"paid"})') <= Total(Counted({"paid"}))
        /\ Total(Counted({"paid"})') \in Nat /\ Total(Counted({"paid"})) \in Nat
    BY <1>3, CountedRows, TotalSubset
  <2>2. job[w].paidOut \in Nat
    BY <1>2, <1>3 DEF Job, Free
  <2> QED
    BY <1>3, <2>1, <2>2 DEF BalanceOK
<1>4. ASSUME NEW w \in Workers, job'[w].pc \in Checking
      PROVE  Amount[job'[w].payout] + Total(Counted(Committed)') <= credits'
  <2>1. job[w].pc \in Checking /\ job[w].payout \in Payouts /\ job[w].payout = job'[w].payout
    BY <1>2, <1>4, JobFields DEF Checking
  <2>2. Amount[job[w].payout] \in Nat
    BY <2>1, PayoutsAssumption
  <2> QED
    BY <1>1, <1>2, <2>1, <2>2 DEF BalanceOK
<1> QED
  BY <1>1, <1>2, <1>3, <1>4 DEF BalanceOK

\* A status is written: what becomes committed is counted only where the
\* payout is created and no other request is under way, and what becomes paid
\* is not counted while one is summing.
LEMMA SetStatusCounts ==
  ASSUME PayoutsTypeOK, NEW p \in Payouts, NEW s \in PayoutStatus, SetStatus(p, s)
  PROVE  /\ status[p] # "none" => Counted(Committed)' \subseteq Counted(Committed)
         /\ (\E w \in Workers : job'[w].pc \in Requesting)
              => Counted(Committed)' \subseteq Counted(Committed)
         /\ Counted(Committed)' \subseteq Counted(Committed) \cup {p}
         /\ (\E w \in Workers : job'[w].pc = "summary") /\ (status[p] # "none" \/ s # "paid")
              => Counted({"paid"})' \subseteq Counted({"paid"})
<1>1. /\ status' = [status EXCEPT ![p] = s]
      /\ unchecked' = unchecked \/ unchecked' = unchecked \cup {p}
  BY DEF SetStatus
<1>2. status'[p] = s /\ \A q \in Payouts \ {p} : status'[q] = status[q]
  BY SetStatusRow
<1>3. /\ \A q \in Payouts \ {p} : q \in Counted(Committed)' => q \in Counted(Committed)
      /\ \A q \in Payouts \ {p} : q \in Counted({"paid"})' => q \in Counted({"paid"})
      /\ Counted(Committed)' \subseteq Payouts /\ Counted({"paid"})' \subseteq Payouts
  BY <1>1, <1>2 DEF Counted, InStatus
<1>4. status[p] \in PayoutStatus \cup {"none"}
  BY DEF PayoutsTypeOK
<1>5. p \in Counted(Committed)' => s \in Committed /\ p \notin unchecked'
  BY <1>2 DEF Counted, InStatus
<1>6. p \in Counted({"paid"})' => s = "paid" /\ p \notin unchecked'
  BY <1>2 DEF Counted, InStatus
<1>7. p \notin unchecked' =>
        /\ p \notin unchecked
        /\ ~(status[p] \in {"failed", "rejected"} /\ s \in Committed)
        /\ ~(/\ status[p] = "none"
             /\ \E w \in Workers : job'[w].pc \in {"summary", "checkInFlight", "insert"})
        /\ ~(/\ status[p] \in InFlight /\ s = "paid"
             /\ \E w \in Workers : job'[w].pc = "summary")
  BY DEF SetStatus
<1>8. status[p] \in Committed /\ p \notin unchecked => p \in Counted(Committed)
  BY DEF Counted, InStatus
<1>9. status[p] = "paid" /\ p \notin unchecked => p \in Counted({"paid"})
  BY DEF Counted, InStatus
<1>10. PayoutStatus = InFlight \cup {"paid", "failed", "rejected"} /\ Committed = InFlight \cup {"paid"}
  BY DEF PayoutStatus, Terminal, Committed
<1>11. status[p] # "none" => (p \in Counted(Committed)' => p \in Counted(Committed))
  BY <1>4, <1>5, <1>7, <1>8, <1>10
<1>12. (\E w \in Workers : job'[w].pc \in Requesting)
         => (p \in Counted(Committed)' => p \in Counted(Committed))
  BY <1>4, <1>5, <1>7, <1>8, <1>10 DEF Requesting
<1>13. (\E w \in Workers : job'[w].pc = "summary") /\ (status[p] # "none" \/ s # "paid")
         => (p \in Counted({"paid"})' => p \in Counted({"paid"}))
  BY <1>4, <1>6, <1>7, <1>9, <1>10
<1> QED
  BY <1>3, <1>11, <1>12, <1>13

\* Steps of a worker that write no status, other than the end of a sum.
LEMMA BalanceQuiet ==
  ASSUME PayoutsTypeOK, BalanceOK, NEW w \in Workers,
         UNCHANGED <<status, unchecked, earned, credits>>, OnlyJob(w),
         job'[w].pc # "summary",
         job'[w].pc \in Checking => job[w].pc \in Checking /\ job'[w].payout = job[w].payout
  PROVE  BalanceOK'
<1>1. \A S : Counted(S)' = Counted(S)
  BY DEF Counted, InStatus
<1>2. /\ Counted(Committed)' \subseteq Counted(Committed)
      /\ Counted({"paid"})' \subseteq Counted({"paid"})
  BY <1>1
<1> QED
  BY <1>2, BalanceKept DEF OnlyJob, BalanceOK, PayoutsTypeOK

\* Steps of a worker that write a status, other than the insertion.
LEMMA BalanceWriting ==
  ASSUME PayoutsTypeOK, BalanceOK, NEW w \in Workers, NEW p \in Payouts,
         UNCHANGED <<earned, credits>>, OnlyJob(w), job'[w].pc \notin Requesting,
         status[p] # "none",
         \/ UNCHANGED <<status, unchecked>>
         \/ \E s \in PayoutStatus : SetStatus(p, s)
  PROVE  BalanceOK'
<1>1. CASE UNCHANGED <<status, unchecked>>
  BY <1>1, BalanceQuiet DEF Checking, Requesting
<1>2. ASSUME NEW s \in PayoutStatus, SetStatus(p, s)
      PROVE  BalanceOK'
  <2>1. /\ Counted(Committed)' \subseteq Counted(Committed)
        /\ \A v \in Workers : job'[v].pc = "summary"
             => Counted({"paid"})' \subseteq Counted({"paid"})
    BY <1>2, SetStatusCounts
  <2> QED
    BY <2>1, BalanceKept DEF OnlyJob, BalanceOK, PayoutsTypeOK, Checking, Requesting
<1> QED
  BY <1>1, <1>2

\* A request notes what was paid out.
LEMMA BalanceRequest ==
  ASSUME PayoutsTypeOK, BalanceOK, NEW w \in Workers, NEW p \in Payouts, StartRequest(w, p)
  PROVE  BalanceOK'
<1>1. /\ OnlyJob(w) /\ job'[w].pc = "summary"
      /\ job'[w].paidOut = Total(InStatus({"paid"}))
      /\ UNCHANGED <<status, unchecked, earned, credits>>
  BY DEF StartRequest, Become, OnlyJob, PayoutsTypeOK, history
<1>2. \A S : Counted(S)' = Counted(S)
  BY <1>1 DEF Counted, InStatus
<1>3. Total(Counted({"paid"})') <= job'[w].paidOut
  <2>1. /\ Counted({"paid"}) \subseteq InStatus({"paid"}) /\ InStatus({"paid"}) \in SUBSET Payouts
        /\ Counted({"paid"})' = Counted({"paid"})
    BY <1>2 DEF Counted, InStatus
  <2> QED
    BY <1>1, <2>1, TotalSubset
<1>4. \A v \in Workers \ {w} : job'[v] = job[v]
  BY <1>1 DEF OnlyJob
<1>5. /\ Total(Counted(Committed)') = Total(Counted(Committed))
      /\ Total(Counted({"paid"})') = Total(Counted({"paid"}))
  BY <1>2, Zenon
<1> QED
  BY <1>1, <1>3, <1>4, <1>5 DEF BalanceOK, Checking

\* A request compares its amount with what is left.
LEMMA BalanceSummary ==
  ASSUME PayoutsTypeOK, BalanceOK, NEW w \in Workers, FinishSummary(w)
  PROVE  BalanceOK'
<1> DEFINE p == job[w].payout
           paidOut == job[w].paidOut
<1>1. /\ job[w].pc = "summary" /\ p \in Payouts /\ paidOut \in Nat /\ Amount[p] \in Nat
      /\ earned \in Int /\ credits \in Nat
  <2>1. job[w] \in Job /\ job[w].pc = "summary"
    BY DEF FinishSummary, At, PayoutsTypeOK
  <2>2. p \in Payouts /\ paidOut \in Nat
    BY <2>1 DEF Job, Free
  <2> QED
    BY <2>1, <2>2, PayoutsAssumption DEF PayoutsTypeOK
<1>2. /\ UNCHANGED <<status, unchecked, earned, credits>> /\ OnlyJob(w)
      /\ \/ job'[w].pc = "free"
         \/ /\ job'[w].pc = "checkInFlight" /\ job'[w].payout = p
            /\ Amount[p] <= earned - Total(InStatus(InFlight)) - paidOut
  BY DEF FinishSummary, Become, OnlyJob, PayoutsTypeOK, history, Free, Available
<1>3. CASE job'[w].pc = "free"
  BY <1>2, <1>3, BalanceQuiet DEF Checking
<1>4. CASE /\ job'[w].pc = "checkInFlight" /\ job'[w].payout = p
           /\ Amount[p] <= earned - Total(InStatus(InFlight)) - paidOut
  <2>1. \A S : Counted(S)' = Counted(S)
    BY <1>2 DEF Counted, InStatus
  <2>2. /\ Total(Counted(Committed)') = Total(Counted(Committed))
        /\ Total(Counted({"paid"})') = Total(Counted({"paid"}))
    BY <2>1, Zenon
  <2>3. Total(Counted(Committed)) <= Total(InStatus(InFlight)) + Total(Counted({"paid"}))
    <3> DEFINE A == InStatus(InFlight)
               B == Counted({"paid"})
               C == Counted(Committed)
    <3>1. A \in SUBSET Payouts /\ B \in SUBSET Payouts /\ C \in SUBSET (A \cup B)
          /\ A \cup B \in SUBSET Payouts
      BY DEF Counted, InStatus, Committed
    <3> HIDE DEF A, B, C
    <3>2. Total(C) <= Total(A \cup B) /\ Total(C) \in Nat
      BY <3>1, TotalSubset
    <3>3. Total(A \cup B) <= Total(A) + Total(B) /\ Total(A) \in Nat /\ Total(B) \in Nat
          /\ Total(A \cup B) \in Nat
      BY <3>1, TotalUnion
    <3>4. Total(C) <= Total(A) + Total(B)
      BY <3>2, <3>3
    <3> QED
      BY <3>4 DEF A, B, C
  <2>4. /\ Total(InStatus(InFlight)) \in Nat /\ Total(Counted({"paid"})) \in Nat
        /\ Total(Counted(Committed)) \in Nat
    BY CountedRows, TotalNat
  <2>5. Total(Counted({"paid"})) <= paidOut /\ earned <= credits
    BY <1>1 DEF BalanceOK
  <2> HIDE DEF p, paidOut
  <2>6. Amount[p] + Total(Counted(Committed)) <= credits
    BY <1>1, <1>4, <2>3, <2>4, <2>5
  <2>7. \A v \in Workers \ {w} : job'[v] = job[v]
    BY <1>2 DEF OnlyJob
  <2> QED
    BY <1>2, <1>4, <2>2, <2>6, <2>7 DEF BalanceOK, Checking
<1> QED
  BY <1>2, <1>3, <1>4

\* The insertion: counted only where nobody else is about to ask the balance,
\* and then its amount was compared.
LEMMA BalanceInsert ==
  ASSUME PayoutsTypeOK, BalanceOK, NEW w \in Workers, Insert(w)
  PROVE  BalanceOK'
<1> DEFINE s == IF job[w].review THEN "pending_review" ELSE "requested"
<1>1. PICK p \in Payouts : p = job[w].payout /\ job[w].pc = "insert"
  <2>1. job[w] \in Job /\ job[w].pc = "insert"
    BY DEF Insert, At, PayoutsTypeOK
  <2> QED
    BY <2>1, JobFields DEF Requesting
<1>2. /\ s \in PayoutStatus /\ s # "paid" /\ SetStatus(p, s)
      /\ UNCHANGED <<earned, credits>>
  BY <1>1 DEF Insert, PayoutStatus, InFlight
<1>3. OnlyJob(w) /\ job'[w].pc \in {"free", "initiate"}
  BY DEF Insert, Become, OnlyJob, PayoutsTypeOK, Free
<1> HIDE DEF s
<1>4. CASE \E v \in Workers : job'[v].pc \in Requesting
  <2>1. /\ Counted(Committed)' \subseteq Counted(Committed)
        /\ \A v \in Workers : job'[v].pc = "summary"
             => Counted({"paid"})' \subseteq Counted({"paid"})
    BY <1>2, <1>4, SetStatusCounts
  <2>2. \A v \in Workers \ {w} : job'[v] = job[v]
    BY <1>3 DEF OnlyJob
  <2>3. /\ earned' <= credits' /\ credits' <= credits' /\ credits' \in Nat
    BY <1>2 DEF BalanceOK, PayoutsTypeOK
  <2>4. credits <= credits'
    BY <1>2 DEF PayoutsTypeOK
  <2> QED
    BY <1>3, <2>1, <2>2, <2>3, <2>4, BalanceKept DEF Checking
<1>5. CASE ~\E v \in Workers : job'[v].pc \in Requesting
  <2>1. Counted(Committed)' \subseteq Counted(Committed) \cup {p}
    BY <1>2, SetStatusCounts
  <2>2. Total(Counted(Committed)') <= Total(Counted(Committed)) + Amount[p]
    <3> DEFINE A == Counted(Committed)
               B == A \cup {p}
    <3>1. A \in SUBSET Payouts /\ {p} \in SUBSET Payouts /\ B \in SUBSET Payouts
      BY CountedRows
    <3>2. Total(B) <= Total(A) + Total({p}) /\ Total(A) \in Nat /\ Total(B) \in Nat
      <4> HIDE DEF A
      <4> QED
        BY <3>1, TotalUnion
    <3>3. Total({p}) = Amount[p] /\ Amount[p] \in Nat
      BY TotalOne
    <3>4. Total(Counted(Committed)') <= Total(B) /\ Total(Counted(Committed)') \in Nat
      BY <2>1, <3>1, TotalSubset
    <3> HIDE DEF A, B
    <3>5. Total(Counted(Committed)') <= Total(A) + Amount[p]
      BY <3>2, <3>3, <3>4
    <3> QED
      BY <3>5 DEF A
  <2>3. Amount[p] + Total(Counted(Committed)) <= credits /\ earned <= credits
    BY <1>1 DEF BalanceOK, Checking
  <2>4. /\ Total(Counted(Committed)') \in Nat /\ Total(Counted(Committed)) \in Nat
        /\ Amount[p] \in Nat /\ credits \in Nat
    <3>1. Counted(Committed)' \in SUBSET Payouts
      BY <2>1, CountedRows
    <3> QED
      BY <3>1, CountedRows, TotalNat, PayoutsAssumption DEF PayoutsTypeOK
  <2>5. Total(Counted(Committed)') <= credits
    BY <2>2, <2>3, <2>4
  <2> QED
    BY <1>2, <1>5, <2>3, <2>5 DEF BalanceOK, Checking, Requesting
<1> QED
  BY <1>4, <1>5

\* finalize leaves the row alone or writes a status.
LEMMA FinalizeWrites ==
  ASSUME NEW p, NEW k, NEW outcome \in Outcome, Finalize(p, k, outcome)
  PROVE  UNCHANGED <<status, unchecked>> \/ (ref[p] = k /\ \E s \in PayoutStatus : SetStatus(p, s))
<1>1. "failed" \in PayoutStatus /\ (outcome # "reversed" => outcome \in PayoutStatus)
  BY DEF Outcome, PayoutStatus, Terminal
<1> QED
  BY <1>1 DEF Finalize

\* The other steps of a worker.
LEMMA BalanceContinue ==
  ASSUME PayoutsTypeOK, RowInv, BalanceOK, NEW w \in Workers, Continue(w)
  PROVE  BalanceOK'
<1>1. CASE FinishSummary(w)
  BY <1>1, BalanceSummary
<1>2. CASE Insert(w)
  BY <1>2, BalanceInsert
<1>3. CASE CheckInFlight(w) \/ Initiate(w) \/ VerifyTransfer(w)
  <2>1. UNCHANGED <<status, unchecked, earned, credits>>
    BY <1>3 DEF CheckInFlight, Initiate, VerifyTransfer, history
  <2>2. OnlyJob(w) /\ job'[w].pc # "summary"
    BY <1>3, QuietMoves
  <2>3. job'[w].pc \in Checking => job[w].pc \in Checking /\ job'[w].payout = job[w].payout
    <3>1. job'[w].pc # "free" => job'[w].payout = job[w].payout
      BY <1>3, QuietMoves
    <3>2. job[w].pc = "initiate" => job'[w].pc \in {"persist", "send"}
      BY <1>3, QuietMoves
    <3>3. job[w].pc = "verify" => job'[w].pc \in {"free", "apply"}
      BY <1>3, QuietMoves
    <3>4. job[w].pc \in {"checkInFlight", "initiate", "verify"}
      BY <1>3 DEF CheckInFlight, Initiate, VerifyTransfer, At
    <3> QED
      BY <3>1, <3>2, <3>3, <3>4 DEF Checking
  <2> QED
    BY <2>1, <2>2, <2>3, BalanceQuiet
<1>4. CASE PersistReference(w) \/ SendTaken(w) \/ SendNotTaken(w)
  <2>1. UNCHANGED <<status, unchecked, earned, credits>>
    BY <1>4 DEF PersistReference, SendTaken, SendNotTaken, history
  <2>2. OnlyJob(w) /\ job'[w].pc \in {"send", "free", "park", "sent"}
    BY <1>4, SendingMoves
  <2> QED
    BY <2>1, <2>2, BalanceQuiet DEF Checking
<1>5. CASE \/ Approve(w) \/ Reject(w) \/ SettleOffPlatform(w) \/ MarkProcessing(w) \/ Park(w)
           \/ ApplyVerified(w)
  <2>1. PICK p \in Payouts : p = job[w].payout
    BY <1>5, WritingMoves
  <2>2. /\ OnlyJob(w) /\ job'[w].pc \in {"free", "initiate"}
        /\ job[w].pc \in {"approve", "reject", "settle", "sent", "park", "apply"}
    <3>1. OnlyJob(w) /\ job'[w].pc \in {"free", "initiate"}
      BY <1>5, WritingMoves
    <3> QED
      BY <1>5, <3>1
         DEF Approve, Reject, SettleOffPlatform, MarkProcessing, Park, ApplyVerified, At
  <2>3. status[p] # "none"
    BY <2>1, <2>2 DEF RowInv, JobsOK, Deciding, Acting
  <2>4. UNCHANGED <<earned, credits>>
    BY <1>5 DEF Approve, Reject, SettleOffPlatform, MarkProcessing, Park, ApplyVerified, history
  <2>5. \/ UNCHANGED <<status, unchecked>>
        \/ \E s \in PayoutStatus : SetStatus(p, s)
    <3>1. CASE ApplyVerified(w)
      <4>1. job[w].outcome \in Outcome
        BY <2>2, <3>1, JobFields DEF PayoutsTypeOK, ApplyVerified, At
      <4> QED
        BY <2>1, <3>1, <4>1, FinalizeWrites DEF ApplyVerified
    <3>2. CASE ~ApplyVerified(w)
      <4>1. {"paid", "approved", "processing", "rejected", "failed"} \subseteq PayoutStatus
        BY DEF PayoutStatus, InFlight, Terminal
      <4> QED
        BY <1>5, <2>1, <3>2, <4>1
           DEF Approve, Reject, SettleOffPlatform, MarkProcessing, Park, Taken
    <3> QED
      BY <3>1, <3>2
  <2> QED
    BY <2>2, <2>3, <2>4, <2>5, BalanceWriting DEF Requesting
<1> QED
  BY <1>1, <1>2, <1>3, <1>4, <1>5 DEF Continue

\* BalanceOK is inductive, relative to the types and the rows.
LEMMA BalanceStep ==
  PayoutsTypeOK /\ RowInv /\ BalanceOK /\ [PayoutsNext]_payoutVars => BalanceOK'
<1> SUFFICES ASSUME PayoutsTypeOK, RowInv, BalanceOK, [PayoutsNext]_payoutVars
             PROVE  BalanceOK'
  OBVIOUS
<1>0. earned \in Int /\ credits \in Nat
  BY DEF PayoutsTypeOK
<1>1. CASE Credit \/ Debit \/ Crash \/ UNCHANGED payoutVars
  <2>1. /\ UNCHANGED <<status, unchecked>>
        /\ \A w \in Workers : job'[w] = job[w] \/ job'[w].pc = "free"
        /\ earned' <= credits' /\ credits <= credits' /\ credits' \in Nat
    BY <1>0, <1>1 DEF Credit, Debit, Crash, Free, payoutVars, history, BalanceOK
  <2>2. \A S : Counted(S)' = Counted(S)
    BY <2>1 DEF Counted, InStatus
  <2>3. /\ Counted(Committed)' \subseteq Counted(Committed)
        /\ Counted({"paid"})' \subseteq Counted({"paid"})
    BY <2>2
  <2> QED
    BY <2>1, <2>3, BalanceKept DEF Checking
<1>2. ASSUME NEW w \in Workers, NEW p \in Payouts,
             \/ StartApprove(w, p) \/ StartReject(w, p) \/ StartRetry(w, p) \/ StartSettle(w, p)
             \/ w = Cron /\ (SweepInitiate(p) \/ SweepReconcile(p))
      PROVE  BalanceOK'
  <2>1. UNCHANGED <<status, unchecked, earned, credits>>
    BY <1>2 DEF StartApprove, StartReject, StartRetry, StartSettle, Load, SweepInitiate,
                SweepReconcile, history
  <2>2. PICK j : Become(w, j) /\ j.pc \in {"approve", "reject", "initiate", "settle", "verify"}
    BY <1>2 DEF StartApprove, StartReject, StartRetry, StartSettle, Load, SweepInitiate,
                SweepReconcile
  <2>3. OnlyJob(w) /\ job'[w].pc \in {"approve", "reject", "initiate", "settle", "verify"}
    BY <2>2 DEF Become, OnlyJob, PayoutsTypeOK
  <2> QED
    BY <2>1, <2>3, BalanceQuiet DEF Checking
<1>3. ASSUME NEW m \in inbox, DeliverWebhook(m)
      PROVE  BalanceOK'
  <2>1. m.payout \in Payouts /\ m.ref \in Refs /\ m.outcome \in Outcome
    BY DEF PayoutsTypeOK
  <2>2. Finalize(m.payout, m.ref, m.outcome) /\ UNCHANGED <<job, earned, credits>>
    BY <1>3 DEF DeliverWebhook, history
  <2>3. /\ Counted(Committed)' \subseteq Counted(Committed)
        /\ \A w \in Workers : job'[w].pc = "summary"
             => Counted({"paid"})' \subseteq Counted({"paid"})
    <3>1. CASE UNCHANGED <<status, unchecked>>
      BY <3>1 DEF Counted, InStatus
    <3>2. CASE ref[m.payout] = m.ref /\ \E s \in PayoutStatus : SetStatus(m.payout, s)
      <4>1. status[m.payout] # "none"
        BY <2>1, <3>2 DEF RowInv, NewOK, Refs
      <4> QED
        BY <2>1, <3>2, <4>1, SetStatusCounts
    <3> QED
      BY <2>1, <2>2, <3>1, <3>2, FinalizeWrites
  <2>4. /\ \A w \in Workers : job'[w] = job[w]
        /\ earned' <= credits' /\ credits <= credits' /\ credits' \in Nat
    BY <1>0, <2>2 DEF BalanceOK
  <2> QED
    BY <2>3, <2>4, BalanceKept
<1>4. ASSUME NEW p \in Payouts, NEW k \in Refs, ProviderEnds(p, k) \/ ProviderReverses(p, k)
      PROVE  BalanceOK'
  <2>1. UNCHANGED <<status, unchecked, earned, job, credits>>
    BY <1>4 DEF ProviderEnds, ProviderReverses, ProviderSettles, history
  <2>2. \A S : Counted(S)' = Counted(S)
    BY <2>1 DEF Counted, InStatus
  <2>3. /\ Counted(Committed)' \subseteq Counted(Committed)
        /\ Counted({"paid"})' \subseteq Counted({"paid"})
    BY <2>2
  <2>4. earned' <= credits' /\ credits <= credits' /\ credits' \in Nat
    BY <1>0, <2>1 DEF BalanceOK
  <2> QED
    BY <2>1, <2>3, <2>4, BalanceKept
<1> QED
  BY <1>1, <1>2, <1>3, <1>4, BalanceContinue, BalanceRequest DEF PayoutsNext, Workers

LEMMA BalanceInit == PayoutsInit => BalanceOK
<1> SUFFICES ASSUME PayoutsInit PROVE BalanceOK
  OBVIOUS
<1>1. Counted(Committed) = {} /\ earned = 0 /\ credits = 0
      /\ \A w \in Workers : job[w].pc = "free"
  BY DEF PayoutsInit, Counted, InStatus, Committed, InFlight, Free
<1>2. Total(Counted(Committed)) = 0
  <2>1. Total({}) = 0
    BY TotalNat, SumEmpty
  <2> QED
    BY <1>1, <2>1
<1> QED
  BY <1>1, <1>2 DEF BalanceOK, Checking

----------------------------------------------------------------------------
(* The whole invariant *)

FullInv == PayoutInv /\ ReferencesOK /\ SuccessOK /\ BalanceOK

\* FullInv is inductive.
LEMMA FullInvariant == PayoutsSpec => []FullInv
<1>1. PayoutsInit => FullInv
  BY PayoutsTypeInit, RowInit, MoneyInit, ReferencesInit, SuccessInit, BalanceInit
     DEF FullInv, PayoutInv
<1>2. FullInv /\ [PayoutsNext]_payoutVars => FullInv'
  BY PayoutsTypeStep, RowStep, MoneyStep, ReferencesStep, SuccessStep, BalanceStep
     DEF FullInv, PayoutInv
<1> QED
  BY <1>1, <1>2, PTL DEF PayoutsSpec

\* However often it is retried, swept or restarted, and however many requests
\* work on it at once, a payout goes to the provider under one reference,
\* unless two admins approved it.  (initiate, approve)
THEOREM SentUnderOneReference == PayoutsSpec => []OneReference
<1>1. ASSUME FullInv PROVE OneReference
  <2> SUFFICES ASSUME NEW p \in Payouts, approvals[p] <= 1
               PROVE  Cardinality({k \in Refs : transfer[p][k] # "none"}) <= 1
    BY DEF OneReference
  <2> DEFINE used == {k \in Refs : transfer[p][k] # "none"}
  <2>1. \A k \in used : ref[p] = k
    BY <1>1 DEF FullInv, ReferencesOK, RefOK, Once
  <2>2. CASE used = {}
    BY <2>2, FS_EmptySet
  <2>3. CASE used # {}
    <3>1. used = {ref[p]}
      BY <2>1, <2>3
    <3>2. Cardinality({ref[p]}) = 1
      BY FS_Singleton
    <3> HIDE DEF used
    <3>3. Cardinality(used) = 1
      BY <3>1, <3>2
    <3> QED
      BY <3>3 DEF used
  <2> QED
    BY <2>2, <2>3
<1> QED
  BY <1>1, FullInvariant, PTL

\* The balance keeps its promise: what is in flight or paid exceeds all that
\* was ever earned by no more than the payouts that no request compared with
\* it, and a transfer that succeeded stays committed.  (request, finalize)
THEOREM BalanceIsExplained == PayoutsSpec => []BalanceExplained
<1>1. ASSUME FullInv PROVE CommittedExplained
  <2> DEFINE C == InStatus(Committed)
             D == Counted(Committed)
  <2>1. /\ D \in SUBSET Payouts /\ unchecked \in SUBSET Payouts /\ D \cup unchecked \in SUBSET Payouts
        /\ C \in SUBSET (D \cup unchecked)
    BY <1>1 DEF FullInv, PayoutInv, PayoutsTypeOK, Counted, InStatus
  <2>2. Total(D) <= credits /\ credits \in Nat
    BY <1>1 DEF FullInv, PayoutInv, PayoutsTypeOK, BalanceOK
  <2> HIDE DEF C, D
  <2>3. /\ Total(D \cup unchecked) <= Total(D) + Total(unchecked)
        /\ Total(D) \in Nat /\ Total(unchecked) \in Nat /\ Total(D \cup unchecked) \in Nat
    BY <2>1, TotalUnion
  <2>4. Total(C) <= Total(D \cup unchecked) /\ Total(C) \in Nat
    BY <2>1, TotalSubset
  <2>5. Total(C) <= credits + Total(unchecked)
    BY <2>2, <2>3, <2>4
  <2> QED
    BY <2>5 DEF C, CommittedExplained
<1>2. ASSUME FullInv PROVE SuccessIsCommitted
  <2> SUFFICES ASSUME NEW p \in Payouts, NEW k \in Refs, transfer[p][k] = "success", Clean(p)
               PROVE  status[p] \in Committed
    BY DEF SuccessIsCommitted, Clean, Once
  <2>1. status[p] \notin {"failed", "rejected"}
    BY <1>2 DEF FullInv, SuccessOK, CleanOK
  <2>2. status[p] # "none"
    BY <1>2, RowFacts DEF FullInv, PayoutInv
  <2>3. status[p] \in PayoutStatus \cup {"none"}
    BY <1>2 DEF FullInv, PayoutInv, PayoutsTypeOK
  <2> QED
    BY <2>1, <2>2, <2>3 DEF PayoutStatus, Committed, Terminal
<1>3. FullInv => BalanceExplained
  BY <1>1, <1>2 DEF BalanceExplained
<1> QED
  BY <1>3, FullInvariant, PTL

=============================================================================
