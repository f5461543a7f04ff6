----------------------------- MODULE Broadcasts -----------------------------
(***************************************************************************)
(* The organiser's mailings to the audience of one event: the quota, the   *)
(* dispatch in chunks, the admin's cancellation, the cron job that takes   *)
(* up what is stuck, and the list of suppressed addresses.                 *)
(*                                                                         *)
(* A dispatch runs in the process of the request that queued it, or of the *)
(* cron job.  It reads the status, resolves the recipients and then claims *)
(* the broadcast by its id, whatever the status is by then.                *)
(***************************************************************************)
EXTENDS Integers, FiniteSets

CONSTANTS Casts,     \* broadcast ids a run may create
          Emails,    \* the audience
          Workers,   \* dispatches and requests running at the same time
          Limit,     \* broadcasts.max_per_event
          ChunkSize, \* broadcasts.chunk_size
          MaxActs,   \* bound on requests and suppressions
          MaxFaults  \* bound on mails and dispatches that fail, on crashes, and
                     \* on chunks slower than the ten minutes of the sweep

ASSUME BroadcastsAssumption ==
  /\ IsFiniteSet(Emails) /\ Limit \in Nat /\ ChunkSize \in Nat \ {0}
  /\ MaxActs \in Nat /\ MaxFaults \in Nat

VARIABLES status,     \* [Casts -> CastStatus]
          recipientsCount, sentCount, failedCount,  \* [Casts -> Nat]
          stale,      \* broadcasts not updated for ten minutes
          suppressed, \* addresses nobody mails to
          worker,     \* [Workers -> Job] (volatile)
          acts, faults,
          mailed,     \* history: [Casts -> [Emails -> 0..2]], 2 for more than once
          resent,     \* history: broadcasts the sweep took up again
          called,     \* history: broadcasts that were cancelled
          overrun,    \* history: broadcasts written on stale news of their status
          crowded     \* history: a quota was checked beside another, or one was taken up again

counts == <<recipientsCount, sentCount, failedCount>>
limits == <<acts, faults>>
history == <<mailed, resent, called, overrun, crowded>>
castVars == <<status, counts, stale, suppressed, worker, limits, history>>

CastStatus == {"none", "queued", "sending", "sent", "failed", "cancelled"}
Committed == {c \in Casts : status[c] \in {"queued", "sending", "sent"}}
Unsettled == {c \in Casts : status[c] \in {"queued", "sending"}}

Idle == [pc |-> "idle"]
Job ==
  {Idle}
    \cup [pc : {"create"}, n : Nat]
    \cup [pc : {"kicked", "cancel"}, cast : Casts]
    \cup [pc : {"loaded"}, cast : Casts, todo : SUBSET Emails]
    \cup [pc : {"chunk"}, cast : Casts, todo : SUBSET Emails]
    \cup [pc : {"mail"}, cast : Casts, todo : SUBSET Emails, chunk : SUBSET Emails,
          ok : Nat, bad : Nat]
    \cup [pc : {"sweep"}, queued : SUBSET Casts, sending : SUBSET Casts]

BroadcastsTypeOK ==
  /\ status \in [Casts -> CastStatus]
  /\ recipientsCount \in [Casts -> Nat] /\ sentCount \in [Casts -> Nat]
  /\ failedCount \in [Casts -> Nat]
  /\ stale \subseteq Casts /\ suppressed \subseteq Emails
  /\ worker \in [Workers -> Job]
  /\ acts \in 0..MaxActs /\ faults \in 0..MaxFaults
  /\ mailed \in [Casts -> [Emails -> 0..2]]
  /\ resent \subseteq Casts /\ called \subseteq Casts /\ overrun \subseteq Casts
  /\ crowded \in BOOLEAN

BroadcastsInit ==
  /\ status = [c \in Casts |-> "none"]
  /\ recipientsCount = [c \in Casts |-> 0] /\ sentCount = recipientsCount
  /\ failedCount = recipientsCount
  /\ stale = {} /\ suppressed = {}
  /\ worker = [w \in Workers |-> Idle]
  /\ acts = 0 /\ faults = 0
  /\ mailed = [c \in Casts |-> [e \in Emails |-> 0]]
  /\ resent = {} /\ called = {} /\ overrun = {} /\ crowded = FALSE

Doing(w, pc) == worker[w].pc = pc
\* Which slot a job takes makes no difference: the first that is free.
Free(w) == Doing(w, "idle") /\ w = CHOOSE v \in Workers : Doing(v, "idle")
Go(w, j) == worker' = [worker EXCEPT ![w] = j]
Stop(w) == Go(w, Idle)
Act == acts < MaxActs /\ acts' = acts + 1 /\ UNCHANGED faults
Fault == faults < MaxFaults /\ faults' = faults + 1 /\ UNCHANGED acts
Dispatching == {"kicked", "loaded", "chunk", "mail"}
On(w, c) ==
  \/ worker[w].pc \in Dispatching /\ worker[w].cast = c
  \/ Doing(w, "sweep") /\ c \in worker[w].queued \cup worker[w].sending

\* An update of the row: its updated_at is fresh.
SetStatus(c, s) ==
  /\ status' = [status EXCEPT ![c] = s]
  /\ stale' = stale \ {c}
Overrun(c, cond) == overrun' = IF cond THEN overrun \cup {c} ELSE overrun

----------------------------------------------------------------------------
(* BroadcastsService *)

\* ensureWithinPerEventLimit; cooldown and daily volume are checked alike.
EnsureQuota == Cardinality(Committed) < Limit

Resolved == Emails \ suppressed

Compose(w) ==
  /\ Free(w) /\ Act
  /\ EnsureQuota /\ Resolved # {}
  /\ crowded' = (crowded \/ \E v \in Workers : Doing(v, "create"))
  /\ Go(w, [pc |-> "create", n |-> Cardinality(Resolved)])
  /\ UNCHANGED <<status, counts, stale, suppressed, mailed, resent, called, overrun>>

\* The request that queues a broadcast kicks off its dispatch.
Create(w) ==
  LET c == CHOOSE x \in Casts : status[x] = "none"
  IN
  /\ Doing(w, "create") /\ \E x \in Casts : status[x] = "none"
  /\ SetStatus(c, "queued")
  /\ recipientsCount' = [recipientsCount EXCEPT ![c] = worker[w].n]
  /\ Go(w, [pc |-> "kicked", cast |-> c])
  /\ UNCHANGED <<sentCount, failedCount, suppressed, limits, history>>

----------------------------------------------------------------------------
(* BroadcastDispatcherService *)

Load(w) ==
  LET c == worker[w].cast
  IN /\ Doing(w, "kicked")
     /\ IF status[c] = "queued" THEN Go(w, [pc |-> "loaded", cast |-> c, todo |-> Resolved])
        ELSE Stop(w)
     /\ UNCHANGED <<status, counts, stale, suppressed, limits, history>>

\* By id only: a cancellation or another dispatch in between is overwritten.
Claim(w) ==
  LET c == worker[w].cast  todo == worker[w].todo
  IN /\ Doing(w, "loaded")
     /\ IF todo = {}
        THEN SetStatus(c, "failed") /\ Stop(w) /\ UNCHANGED recipientsCount
        ELSE /\ SetStatus(c, "sending")
             /\ recipientsCount' = [recipientsCount EXCEPT ![c] = Cardinality(todo)]
             /\ Go(w, [pc |-> "chunk", cast |-> c, todo |-> todo])
     /\ Overrun(c, status[c] # "queued")
     /\ crowded' = (crowded \/ status[c] # "queued")
     /\ UNCHANGED <<sentCount, failedCount, suppressed, limits, mailed, resent, called>>

Chunk(todo) ==
  CHOOSE s \in SUBSET todo :
    Cardinality(s) = IF Cardinality(todo) < ChunkSize THEN Cardinality(todo) ELSE ChunkSize

\* Between chunks a cancelled broadcast stops.
CheckChunk(w) ==
  LET c == worker[w].cast  todo == worker[w].todo
  IN /\ Doing(w, "chunk") /\ todo # {}
     /\ IF status[c] = "cancelled" THEN Stop(w)
        ELSE Go(w, [pc |-> "mail", cast |-> c, todo |-> todo \ Chunk(todo),
                    chunk |-> Chunk(todo), ok |-> 0, bad |-> 0])
     /\ UNCHANGED <<status, counts, stale, suppressed, limits, history>>

\* One address after another, in the order the database returned them.
Mail(w) ==
  LET c == worker[w].cast  e == CHOOSE x \in worker[w].chunk : TRUE
  IN /\ Doing(w, "mail") /\ worker[w].chunk # {}
     /\ Go(w, [worker[w] EXCEPT !.chunk = @ \ {e}, !.ok = @ + 1])
     /\ mailed' = [mailed EXCEPT ![c][e] = IF @ = 2 THEN 2 ELSE @ + 1]
     /\ UNCHANGED <<status, counts, stale, suppressed, limits, resent, called, overrun, crowded>>

MailFails(w) ==
  /\ Doing(w, "mail") /\ worker[w].chunk # {} /\ Fault
  /\ Go(w, [worker[w] EXCEPT !.chunk = @ \ {CHOOSE x \in @ : TRUE}, !.bad = @ + 1])
  /\ UNCHANGED <<status, counts, stale, suppressed, history>>

CountChunk(w) ==
  LET c == worker[w].cast
  IN /\ Doing(w, "mail") /\ worker[w].chunk = {}
     /\ sentCount' = [sentCount EXCEPT ![c] = @ + worker[w].ok]
     /\ failedCount' = [failedCount EXCEPT ![c] = @ + worker[w].bad]
     /\ stale' = stale \ {c}
     /\ Go(w, [pc |-> "chunk", cast |-> c, todo |-> worker[w].todo])
     /\ UNCHANGED <<status, recipientsCount, suppressed, limits, history>>

\* Mutant of MarkSent: by id only.
MarkSentById(w) ==
  LET c == worker[w].cast
  IN /\ Doing(w, "chunk") /\ worker[w].todo = {}
     /\ SetStatus(c, "sent")
     /\ Stop(w)
     /\ UNCHANGED <<counts, suppressed, limits, history>>
\* Only a broadcast that is still being sent becomes sent.
MarkSent(w) ==
  LET c == worker[w].cast
  IN /\ Doing(w, "chunk") /\ worker[w].todo = {}
     /\ IF status[c] = "sending" THEN SetStatus(c, "sent") ELSE UNCHANGED <<status, stale>>
     /\ Stop(w)
     /\ UNCHANGED <<counts, suppressed, limits, history>>

\* A dispatch that throws settles what is not yet settled.
DispatchFails(w) ==
  /\ worker[w].pc \in Dispatching /\ Fault
  /\ IF worker[w].cast \in Unsettled THEN SetStatus(worker[w].cast, "failed")
     ELSE UNCHANGED <<status, stale>>
  /\ Stop(w)
  /\ UNCHANGED <<counts, suppressed, history>>

\* retryStuck, every five minutes, by one process at a time: what is stuck is
\* read, ...
RetryStuck(w) ==
  LET stuck(s) == {c \in stale : status[c] = s}
  IN /\ Free(w) /\ ~(\E v \in Workers : Doing(v, "sweep"))
     /\ stuck("queued") \cup stuck("sending") # {}
     /\ Go(w, [pc |-> "sweep", queued |-> stuck("queued"), sending |-> stuck("sending")])
     /\ UNCHANGED <<status, counts, stale, suppressed, limits, history>>

\* Mutant of Requeue: what was being sent is kicked off without a new claim.
KickOnly(w, c) ==
  /\ Doing(w, "sweep") /\ c \in worker[w].sending
  /\ Go(w, [worker[w] EXCEPT !.queued = @ \cup {c}, !.sending = @ \ {c}])
  /\ resent' = resent \cup {c}
  /\ UNCHANGED <<status, counts, stale, suppressed, limits, mailed, called, overrun, crowded>>
\* ... what was being sent is queued again, by id only, ...
Requeue(w, c) ==
  /\ Doing(w, "sweep") /\ c \in worker[w].sending
  /\ SetStatus(c, "queued")
  /\ Go(w, [worker[w] EXCEPT !.queued = @ \cup {c}, !.sending = @ \ {c}])
  /\ resent' = resent \cup {c}
  /\ Overrun(c, status[c] # "sending")
  /\ crowded' = (crowded \/ status[c] # "sending")
  /\ UNCHANGED <<counts, suppressed, limits, mailed, called>>

\* ... and a dispatch is kicked off for each, the last in the sweep's place.
KickOff(w, v, c) ==
  LET rest == [worker[w] EXCEPT !.queued = @ \ {c}]
      done == rest.queued = {} /\ rest.sending = {}
  IN /\ Doing(w, "sweep") /\ c \in worker[w].queued
     /\ IF v = w THEN done ELSE Free(v)
     /\ worker' = [worker EXCEPT
          ![w] = IF done THEN Idle ELSE rest,
          ![v] = [pc |-> "kicked", cast |-> c]]
     /\ resent' = resent \cup {c}
     /\ UNCHANGED <<status, counts, stale, suppressed, limits, mailed, called, overrun, crowded>>

\* Ten minutes without an update: nobody is at it, or a chunk is that slow.
Age(c) ==
  /\ c \in Unsettled \ stale
  /\ IF \E w \in Workers : On(w, c) THEN Fault ELSE UNCHANGED limits
  /\ stale' = stale \cup {c}
  /\ UNCHANGED <<status, counts, suppressed, worker, history>>

\* The process stops with all it was doing.
Crash ==
  /\ Fault
  /\ \E w \in Workers : worker[w] # Idle
  /\ worker' = [w \in Workers |-> Idle]
  /\ UNCHANGED <<status, counts, stale, suppressed, history>>

----------------------------------------------------------------------------
(* The admin and the addressees *)

AskCancel(w, c) ==
  /\ Free(w) /\ Act /\ c \in Unsettled
  /\ Go(w, [pc |-> "cancel", cast |-> c])
  /\ UNCHANGED <<status, counts, stale, suppressed, history>>

Cancel(w) ==
  LET c == worker[w].cast
  IN /\ Doing(w, "cancel")
     /\ SetStatus(c, "cancelled")
     /\ called' = called \cup {c}
     /\ Stop(w)
     /\ UNCHANGED <<counts, suppressed, limits, mailed, resent, overrun, crowded>>

\* An unsubscription, a bounce or a complaint; and the admin's removal of one.
Suppress(e) ==
  /\ Act /\ e \notin suppressed /\ suppressed' = suppressed \cup {e}
  /\ UNCHANGED <<status, counts, stale, worker, history>>

Restore(e) ==
  /\ Act /\ e \in suppressed /\ suppressed' = suppressed \ {e}
  /\ UNCHANGED <<status, counts, stale, worker, history>>

----------------------------------------------------------------------------
(* The routes and the cron job *)

BroadcastsController == \E w \in Workers : Compose(w) \/ Create(w)
AdminBroadcastsController == \E w \in Workers : Cancel(w) \/ \E c \in Casts : AskCancel(w, c)
Step(w) ==
  \/ Create(w)
  \/ \E c \in Casts : Requeue(w, c) \/ \E v \in Workers : KickOff(w, v, c)
  \/ Cancel(w)
  \/ Load(w) \/ Claim(w) \/ CheckChunk(w) \/ CountChunk(w) \/ MarkSent(w)
  \/ Mail(w)

BroadcastsNext ==
  \/ BroadcastsController \/ AdminBroadcastsController
  \/ Crash
  \/ \E c \in Casts : Age(c)
  \/ \E e \in Emails : Suppress(e) \/ Restore(e)
  \/ \E w \in Workers : Step(w) \/ RetryStuck(w) \/ DispatchFails(w) \/ MailFails(w)

\* A process that runs goes on with what it does; ten minutes pass; and the
\* cron job runs every five.
BroadcastsFairness ==
  /\ \A w \in Workers : WF_castVars(Step(w))
  /\ \A c \in Casts : WF_castVars(Age(c))
  /\ WF_castVars(\E w \in Workers : RetryStuck(w))

BroadcastsSpec == BroadcastsInit /\ [][BroadcastsNext]_castVars /\ BroadcastsFairness

----------------------------------------------------------------------------
(* Properties *)

\* Nobody is mailed the same broadcast twice, unless the sweep took it up
\* again; and a broadcast that was sent in one go counts each addressee once.
MailedOnce ==
  \A c \in Casts \ resent :
    /\ \A e \in Emails : mailed[c][e] < 2
    /\ status[c] = "sent" => sentCount[c] + failedCount[c] = recipientsCount[c]

\* A cancelled broadcast stays so, unless a dispatch or the sweep had read its
\* status before.
CancelHolds == \A c \in called \ overrun : status[c] = "cancelled"

\* An event has no more broadcasts than its quota, unless two were composed at
\* once, or one that was cancelled or failed was taken up again.
WithinQuota == crowded \/ Cardinality(Committed) <= Limit

\* A broadcast is in the end sent, failed or cancelled, whatever crashes.
BroadcastSettles == \A c \in Casts : c \in Unsettled ~> c \notin Unsettled

\* Mail, cancellation and quota of the broadcasts.
BroadcastsExplained == MailedOnce /\ CancelHolds /\ WithinQuota

=============================================================================
