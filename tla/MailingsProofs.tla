--------------------------- MODULE MailingsProofs ---------------------------
(***************************************************************************)
(* Theorems about what the platform sends, first about each module on its  *)
(* own, as they share no state: the organisers' Broadcasts, the admins'    *)
(* Announcements and the Notifications, for any sets of people,            *)
(* broadcasts, announcements, workers and handlers, any sizes of chunks    *)
(* and any number of crashes.  Then about module Mailings, where each      *)
(* keeps its specification.                                                *)
(***************************************************************************)
EXTENDS Mailings, SumLemmas, FiniteSetTheorems, TLAPS

----------------------------------------------------------------------------
(* Broadcasts *)

\* Worker w dispatches broadcast c.
Dispatches(w, c) == worker[w].pc \in Dispatching /\ worker[w].cast = c

\* What a dispatch has mailed and counted so far.
JobOK(j, c) ==
  LET counted == sentCount[c] + failedCount[c]
  IN CASE j.pc \in {"kicked", "loaded"} ->
            counted = 0 /\ \A e \in Emails : mailed[c][e] = 0
       [] j.pc = "chunk" ->
            /\ counted + Cardinality(j.todo) = recipientsCount[c]
            /\ \A e \in j.todo : mailed[c][e] = 0
       [] j.pc = "mail" ->
            /\ counted + j.ok + j.bad + Cardinality(j.chunk) + Cardinality(j.todo)
                 = recipientsCount[c]
            /\ j.chunk \cap j.todo = {}
            /\ \A e \in j.chunk \cup j.todo : mailed[c][e] = 0

\* A broadcast the sweep left alone is dispatched by one worker, once.
CastOK(c) ==
  /\ \A e \in Emails : mailed[c][e] <= 1
  /\ status[c] = "none" =>
       /\ sentCount[c] + failedCount[c] = 0 /\ \A e \in Emails : mailed[c][e] = 0
       /\ \A w \in Workers : ~Dispatches(w, c)
  /\ status[c] = "sent" =>
       /\ sentCount[c] + failedCount[c] = recipientsCount[c]
       /\ \A w \in Workers : ~Dispatches(w, c)
  /\ \A w \in Workers : Dispatches(w, c) =>
       JobOK(worker[w], c) /\ \A v \in Workers : Dispatches(v, c) => v = w

CastsOK == \A c \in Casts \ resent : CastOK(c)

\* What was cancelled was there.
CalledOK == \A c \in called : status[c] # "none" /\ (c \notin overrun => status[c] = "cancelled")

\* Whoever composes a broadcast alone has room for it.
QuotaOK ==
  /\ IsFiniteSet(Committed)
  /\ ~crowded =>
       /\ Cardinality(Committed) <= Limit
       /\ \A w \in Workers : Doing(w, "create") =>
            Cardinality(Committed) < Limit /\ \A v \in Workers : Doing(v, "create") => v = w

BroadcastsInv == BroadcastsTypeOK /\ CastsOK /\ CalledOK /\ QuotaOK

\* A finite set has a subset of every size up to its own.
LEMMA SubsetOfSize ==
  ASSUME NEW S, IsFiniteSet(S)
  PROVE  \A k \in 0..Cardinality(S) : \E T \in SUBSET S : Cardinality(T) = k
<1> DEFINE A == {U \in SUBSET S : \A k \in 0..Cardinality(U) :
                                    \E T \in SUBSET U : Cardinality(T) = k}
<1>1. ASSUME NEW U \in SUBSET S, \A V \in SUBSET U : V # U => V \in A
      PROVE  U \in A
  <2>1. IsFiniteSet(U) /\ Cardinality(U) \in Nat
    <3>1. IsFiniteSet(U)
      BY FS_Subset
    <3> QED BY <3>1, FS_CardinalityType
  <2>2. ASSUME NEW k \in 0..Cardinality(U)
        PROVE  \E T \in SUBSET U : Cardinality(T) = k
    <3>1. CASE k = Cardinality(U)
      BY <3>1
    <3>2. CASE k # Cardinality(U)
      <4>1. PICK x : x \in U
        <5>1. U # {}
          BY <2>1, <3>2, FS_EmptySet
        <5> QED BY <5>1
      <4> DEFINE V == U \ {x}
      <4>2. Cardinality(V) = Cardinality(U) - 1
        BY <2>1, <4>1, FS_RemoveElement
      <4>3. V \in A
        BY <1>1, <4>1
      <4>4. k \in 0..Cardinality(V)
        <5> HIDE DEF V
        <5> QED BY <2>1, <3>2, <4>2
      <4>5. PICK T \in SUBSET V : Cardinality(T) = k
        BY <4>3, <4>4
      <4> QED BY <4>5
    <3> QED BY <3>1, <3>2
  <2> QED BY <2>2
<1>2. A \in SUBSET SUBSET S
  OBVIOUS
<1>3. A = SUBSET S
  <2> HIDE DEF A
  <2> QED BY <1>1, <1>2, SubsetInduction
<1> QED BY <1>3

\* A chunk is part of what is left.
LEMMA ChunkIsPart ==
  ASSUME NEW todo \in SUBSET Emails
  PROVE  Chunk(todo) \in SUBSET todo
<1>1. IsFiniteSet(todo) /\ Cardinality(todo) \in Nat /\ ChunkSize \in Nat \ {0}
  <2>1. IsFiniteSet(todo) /\ ChunkSize \in Nat \ {0}
    BY BroadcastsAssumption, FS_Subset
  <2> QED BY <2>1, FS_CardinalityType
<1> DEFINE k == IF Cardinality(todo) < ChunkSize THEN Cardinality(todo) ELSE ChunkSize
<1>2. k \in 0..Cardinality(todo)
  BY <1>1
<1>3. \E s \in SUBSET todo : Cardinality(s) = k
  <2> HIDE DEF k
  <2> QED BY <1>1, <1>2, SubsetOfSize
<1> QED BY <1>3 DEF Chunk

\* What a worker carries.
LEMMA WorkerFields ==
  ASSUME BroadcastsTypeOK, NEW w \in Workers
  PROVE  /\ worker[w].pc = "create" => worker[w].n \in Nat
         /\ worker[w].pc \in {"kicked", "cancel", "loaded", "chunk", "mail"} =>
              worker[w].cast \in Casts
         /\ worker[w].pc \in {"loaded", "chunk", "mail"} => worker[w].todo \in SUBSET Emails
         /\ worker[w].pc = "mail" =>
              /\ worker[w].chunk \in SUBSET Emails /\ worker[w].ok \in Nat
              /\ worker[w].bad \in Nat
         /\ worker[w].pc = "sweep" =>
              worker[w].queued \in SUBSET Casts /\ worker[w].sending \in SUBSET Casts
  BY DEF BroadcastsTypeOK, Job, Idle

LEMMA WorkerJobs ==
  /\ Idle \in Job /\ Idle.pc = "idle"
  /\ \A n \in Nat : [pc |-> "create", n |-> n] \in Job
  /\ \A c \in Casts, pc \in {"kicked", "cancel"} : [pc |-> pc, cast |-> c] \in Job
  /\ \A c \in Casts, t \in SUBSET Emails, pc \in {"loaded", "chunk"} :
       [pc |-> pc, cast |-> c, todo |-> t] \in Job
  /\ \A c \in Casts, t \in SUBSET Emails, s \in SUBSET Emails, n \in Nat, m \in Nat :
       [pc |-> "mail", cast |-> c, todo |-> t, chunk |-> s, ok |-> n, bad |-> m] \in Job
  /\ \A q \in SUBSET Casts, s \in SUBSET Casts :
       [pc |-> "sweep", queued |-> q, sending |-> s] \in Job
  BY DEF Job, Idle

\* One worker goes on, the others are where they were.
LEMMA WorkerSet ==
  ASSUME BroadcastsTypeOK, NEW w \in Workers, NEW j \in Job, Go(w, j)
  PROVE  /\ worker' \in [Workers -> Job]
         /\ \A v \in Workers : worker'[v] = IF v = w THEN j ELSE worker[v]
  BY DEF BroadcastsTypeOK, Go

\* One row changes.
LEMMA StatusSet ==
  ASSUME BroadcastsTypeOK, NEW c \in Casts, NEW s \in CastStatus, SetStatus(c, s)
  PROVE  /\ status' \in [Casts -> CastStatus] /\ stale' \subseteq Casts
         /\ \A x \in Casts : status'[x] = IF x = c THEN s ELSE status[x]
         /\ Committed' \subseteq Committed \cup {c}
         /\ c \in Committed \/ s \notin {"queued", "sending", "sent"} =>
              Committed' \subseteq Committed
<1>1. status' = [status EXCEPT ![c] = s] /\ stale' = stale \ {c}
  BY DEF SetStatus
<1>2. /\ status' \in [Casts -> CastStatus] /\ stale' \subseteq Casts
      /\ \A x \in Casts : status'[x] = IF x = c THEN s ELSE status[x]
  BY <1>1 DEF BroadcastsTypeOK
<1> QED BY <1>2 DEF Committed

LEMMA LimitsOK ==
  ASSUME BroadcastsTypeOK, Act \/ Fault \/ UNCHANGED limits
  PROVE  acts' \in 0..MaxActs /\ faults' \in 0..MaxFaults
  BY BroadcastsAssumption DEF BroadcastsTypeOK, Act, Fault, limits

\* A broadcast nobody mails or counts.
LEMMA CastAside ==
  ASSUME NEW c \in Casts, CastOK(c),
         status'[c] = status[c] \/ status'[c] \notin {"none", "sent"},
         sentCount'[c] = sentCount[c], failedCount'[c] = failedCount[c],
         recipientsCount'[c] = recipientsCount[c], mailed'[c] = mailed[c],
         \A w \in Workers : Dispatches(w, c)' => worker'[w] = worker[w]
  PROVE  CastOK(c)'
<1>1. \A w \in Workers : Dispatches(w, c)' => Dispatches(w, c)
  BY DEF Dispatches
<1>2. ASSUME NEW w \in Workers, Dispatches(w, c)'
      PROVE  JobOK(worker[w], c)' /\ \A v \in Workers : Dispatches(v, c)' => v = w
  <2>1. Dispatches(w, c) /\ worker'[w] = worker[w]
    BY <1>1, <1>2
  <2>2. JobOK(worker[w], c)
    BY <2>1 DEF CastOK
  <2>3. JobOK(worker[w], c)'
    BY <2>1, <2>2 DEF JobOK
  <2> QED BY <1>1, <2>1, <2>3 DEF CastOK
<1> QED BY <1>1, <1>2 DEF CastOK

\* A broadcast whose dispatch goes on.
LEMMA CastStep ==
  ASSUME NEW c \in Casts, CastOK(c), NEW w \in Workers, Dispatches(w, c), Dispatches(w, c)',
         status'[c] = status[c] \/ status'[c] \notin {"none", "sent"},
         \A e \in Emails : mailed'[c][e] <= 1,
         JobOK(worker[w], c)',
         \A v \in Workers : v # w => worker'[v] = worker[v]
  PROVE  CastOK(c)'
<1>1. \A v \in Workers : Dispatches(v, c)' => v = w
  BY DEF Dispatches, CastOK
<1>2. status[c] \notin {"none", "sent"}
  BY DEF CastOK
<1>3. status'[c] \notin {"none", "sent"}
  BY <1>2
<1> QED BY <1>1, <1>3 DEF CastOK

\* No broadcast is counted anew but on record.
LEMMA QuotaKept ==
  ASSUME BroadcastsTypeOK, QuotaOK, crowded => crowded',
         crowded' \/ Committed' \subseteq Committed,
         \E c : Committed' \subseteq Committed \cup {c},
         \A w \in Workers : Doing(w, "create")' => Doing(w, "create")
  PROVE  QuotaOK'
<1>1. IsFiniteSet(Committed) /\ Limit \in Nat
  BY BroadcastsAssumption DEF QuotaOK
<1>2. IsFiniteSet(Committed')
  <2>1. PICK c : Committed' \subseteq Committed \cup {c}
    OBVIOUS
  <2>2. IsFiniteSet(Committed \cup {c})
    BY <1>1, FS_AddElement
  <2> QED BY <2>1, <2>2, FS_Subset
<1>3. ASSUME ~crowded' 
      PROVE  /\ Cardinality(Committed') <= Cardinality(Committed)
             /\ Cardinality(Committed') \in Nat /\ Cardinality(Committed) \in Nat
  BY <1>1, <1>2, <1>3, FS_Subset, FS_CardinalityType
<1>4. ASSUME ~crowded'
      PROVE  /\ Cardinality(Committed') <= Limit
             /\ \A w \in Workers : Doing(w, "create")' =>
                  /\ Cardinality(Committed') < Limit
                  /\ \A v \in Workers : Doing(v, "create")' => v = w
  <2>1. PICK a \in Nat, b \in Nat : a = Cardinality(Committed) /\ b = Cardinality(Committed') /\ b <= a
    BY <1>3, <1>4
  <2>2. /\ a <= Limit
        /\ \A w \in Workers : Doing(w, "create") =>
             a < Limit /\ \A v \in Workers : Doing(v, "create") => v = w
    BY <1>4, <2>1 DEF QuotaOK
  <2>3. b <= Limit /\ (a < Limit => b < Limit)
    BY <1>1, <2>1, <2>2
  <2> QED BY <2>1, <2>2, <2>3
<1> QED BY <1>2, <1>4 DEF QuotaOK

\* Steps that leave mail and counts alone.
LEMMA CastsKeep ==
  ASSUME CastsOK, resent \subseteq resent',
         \A c \in Casts \ resent' :
           /\ status'[c] = status[c] \/ status'[c] \notin {"none", "sent"}
           /\ \A w \in Workers : Dispatches(w, c)' => worker'[w] = worker[w],
         UNCHANGED <<counts, mailed>>
  PROVE  CastsOK'
<1> SUFFICES ASSUME NEW c \in Casts \ resent' PROVE CastOK(c)'
  BY DEF CastsOK
<1>1. CastOK(c)
  BY DEF CastsOK
<1> QED BY <1>1, CastAside DEF counts

LEMMA StillKeeps ==
  ASSUME BroadcastsInv,
         \/ \E w \in Workers : RetryStuck(w) \/ \E c \in Casts : AskCancel(w, c)
         \/ \E c \in Casts : Age(c)
         \/ \E e \in Emails : Suppress(e) \/ Restore(e)
         \/ Crash
  PROVE  BroadcastsInv'
<1> USE DEF BroadcastsInv
<1>1. /\ UNCHANGED <<status, recipientsCount, sentCount, failedCount, mailed, resent, called,
                     overrun, crowded>>
      /\ acts' \in 0..MaxActs /\ faults' \in 0..MaxFaults
      /\ Act \/ Fault \/ UNCHANGED limits
  BY LimitsOK DEF RetryStuck, AskCancel, Age, Suppress, Restore, Crash, history, counts
<1>2. stale' \subseteq Casts /\ suppressed' \subseteq Emails
  BY DEF RetryStuck, AskCancel, Age, Suppress, Restore, Crash, BroadcastsTypeOK, Unsettled
<1>3. /\ worker' \in [Workers -> Job]
      /\ \A w \in Workers : worker'[w].pc \in Dispatching \cup {"create"} =>
           worker'[w] = worker[w]
  <2>1. CASE UNCHANGED worker
    BY <2>1 DEF BroadcastsTypeOK
  <2>2. CASE Crash
    BY <2>2, WorkerJobs DEF Crash, Dispatching
  <2>3. CASE \E w \in Workers : RetryStuck(w) \/ \E c \in Casts : AskCancel(w, c)
    <3>1. PICK w \in Workers : RetryStuck(w) \/ \E c \in Casts : AskCancel(w, c)
      BY <2>3
    <3>2. PICK j \in Job : Go(w, j) /\ j.pc \in {"sweep", "cancel"}
      <4>1. CASE RetryStuck(w)
        <5>1. {c \in stale : status[c] = "queued"} \in SUBSET Casts
              /\ {c \in stale : status[c] = "sending"} \in SUBSET Casts
          BY DEF BroadcastsTypeOK
        <5> QED BY <4>1, <5>1, WorkerJobs DEF RetryStuck
      <4>2. CASE \E c \in Casts : AskCancel(w, c)
        BY <4>2, WorkerJobs DEF AskCancel
      <4> QED BY <3>1, <4>1, <4>2
    <3> QED BY <3>2, WorkerSet DEF Dispatching
  <2> QED BY <2>1, <2>2, <2>3 DEF Age, Suppress, Restore
<1>4. BroadcastsTypeOK'
  BY <1>1, <1>2, <1>3 DEF BroadcastsTypeOK
<1>5. CastsOK'
  <2>1. resent \subseteq resent' /\ UNCHANGED <<counts, mailed>>
    BY <1>1 DEF counts
  <2>2. \A c \in Casts \ resent' :
           /\ status'[c] = status[c] \/ status'[c] \notin {"none", "sent"}
           /\ \A w \in Workers : Dispatches(w, c)' => worker'[w] = worker[w]
    BY <1>1, <1>3 DEF Dispatches
  <2> QED BY <2>1, <2>2, CastsKeep
<1>6. CalledOK'
  BY <1>1 DEF CalledOK
<1>7. QuotaOK'
  <2>1. Committed' = Committed /\ crowded' = crowded
    BY <1>1 DEF Committed
  <2>2. \E c : Committed' \subseteq Committed \cup {c}
    BY <2>1
  <2>3. \A w \in Workers : Doing(w, "create")' => Doing(w, "create")
    BY <1>3 DEF Doing
  <2> QED BY <2>1, <2>2, <2>3, QuotaKept
<1> QED BY <1>4, <1>5, <1>6, <1>7

\* Room is looked for, by one worker or on record.
LEMMA ComposeKeeps ==
  ASSUME BroadcastsInv, NEW w \in Workers, Compose(w)
  PROVE  BroadcastsInv'
<1> USE DEF BroadcastsInv
<1> DEFINE n == Cardinality(Resolved)
           j == [pc |-> "create", n |-> n]
<1>1. /\ UNCHANGED <<status, recipientsCount, sentCount, failedCount, stale, suppressed, mailed,
                     resent, called, overrun>>
      /\ acts' \in 0..MaxActs /\ faults' \in 0..MaxFaults
      /\ EnsureQuota /\ Go(w, j)
      /\ crowded' = (crowded \/ \E v \in Workers : Doing(v, "create"))
  BY LimitsOK DEF Compose, counts
<1>2. j \in Job
  <2>1. IsFiniteSet(Resolved)
    BY BroadcastsAssumption, FS_Subset DEF Resolved
  <2>2. n \in Nat
    BY <2>1, FS_CardinalityType
  <2> HIDE DEF n
  <2> QED BY <2>2, WorkerJobs
<1>3. j.pc = "create"
  OBVIOUS
<1> HIDE DEF j
<1>4. /\ worker' \in [Workers -> Job]
      /\ \A v \in Workers : worker'[v] = IF v = w THEN j ELSE worker[v]
  BY <1>1, <1>2, WorkerSet
<1>5. crowded' \in BOOLEAN
  BY <1>1 DEF BroadcastsTypeOK
<1>6. BroadcastsTypeOK'
  BY <1>1, <1>4, <1>5 DEF BroadcastsTypeOK
<1>7. CastsOK'
  <2>1. resent \subseteq resent' /\ UNCHANGED <<counts, mailed>>
    BY <1>1 DEF counts
  <2>2. \A c \in Casts \ resent' :
           /\ status'[c] = status[c] \/ status'[c] \notin {"none", "sent"}
           /\ \A v \in Workers : Dispatches(v, c)' => worker'[v] = worker[v]
    BY <1>1, <1>3, <1>4 DEF Dispatches, Dispatching
  <2> QED BY <2>1, <2>2, CastsKeep
<1>8. CalledOK'
  BY <1>1 DEF CalledOK
<1>9. QuotaOK'
  <2>1. Committed' = Committed
    BY <1>1 DEF Committed
  <2>2. ASSUME ~crowded'
        PROVE  \A v \in Workers : Doing(v, "create")' => v = w
    BY <1>1, <1>4, <2>2 DEF Doing
  <2>3. Cardinality(Committed) < Limit /\ (~crowded' => ~crowded)
    BY <1>1 DEF EnsureQuota
  <2> QED BY <2>1, <2>2, <2>3 DEF QuotaOK
<1> QED BY <1>6, <1>7, <1>8, <1>9

\* The new broadcast has its dispatch, and its place in the quota.
LEMMA CreateKeeps ==
  ASSUME BroadcastsInv, NEW w \in Workers, Create(w)
  PROVE  BroadcastsInv'
<1> USE DEF BroadcastsInv
<1>1. PICK c \in Casts :
        /\ status[c] = "none" /\ SetStatus(c, "queued")
        /\ recipientsCount' = [recipientsCount EXCEPT ![c] = worker[w].n]
        /\ Go(w, [pc |-> "kicked", cast |-> c])
  BY DEF Create
<1> DEFINE j == [pc |-> "kicked", cast |-> c]
<1>2. /\ UNCHANGED <<sentCount, failedCount, suppressed, acts, faults, mailed, resent, called,
                     overrun, crowded>>
      /\ worker[w].pc = "create" /\ worker[w].n \in Nat
  BY WorkerFields DEF Create, Doing, limits, history
<1>3. j \in Job /\ j.pc = "kicked" /\ j.cast = c /\ Go(w, j)
  BY <1>1, WorkerJobs
<1> HIDE DEF j
<1>4. /\ worker' \in [Workers -> Job]
      /\ \A v \in Workers : worker'[v] = IF v = w THEN j ELSE worker[v]
  BY <1>3, WorkerSet
<1>5. /\ status' \in [Casts -> CastStatus] /\ stale' \subseteq Casts
      /\ \A x \in Casts : status'[x] = IF x = c THEN "queued" ELSE status[x]
      /\ Committed' \subseteq Committed \cup {c}
  BY <1>1, StatusSet DEF CastStatus
<1>6. /\ recipientsCount' \in [Casts -> Nat]
      /\ \A x \in Casts : x # c => recipientsCount'[x] = recipientsCount[x]
  BY <1>1, <1>2 DEF BroadcastsTypeOK
<1>7. BroadcastsTypeOK'
  BY <1>2, <1>4, <1>5, <1>6 DEF BroadcastsTypeOK
<1>8. CastsOK'
  <2> SUFFICES ASSUME NEW x \in Casts \ resent' PROVE CastOK(x)'
    BY DEF CastsOK
  <2>1. CastOK(x)
    BY <1>2 DEF CastsOK
  <2>2. CASE x = c
    <3>1. /\ sentCount[c] + failedCount[c] = 0 /\ \A e \in Emails : mailed[c][e] = 0
          /\ \A v \in Workers : ~Dispatches(v, c)
      BY <1>1, <2>1, <2>2 DEF CastOK
    <3>2. \A v \in Workers : Dispatches(v, c)' => v = w
      BY <1>4, <3>1 DEF Dispatches
    <3>3. JobOK(worker[w], c)'
      BY <1>2, <1>3, <1>4, <3>1 DEF JobOK
    <3>4. status'[c] = "queued" /\ \A e \in Emails : mailed'[c][e] <= 1
      BY <1>2, <1>5, <3>1
    <3> QED BY <2>2, <3>2, <3>3, <3>4 DEF CastOK
  <2>3. CASE x # c
    <3>1. \A v \in Workers : Dispatches(v, x)' => worker'[v] = worker[v]
      BY <1>3, <1>4, <2>3 DEF Dispatches
    <3>2. status'[x] = status[x] /\ recipientsCount'[x] = recipientsCount[x]
      BY <1>5, <1>6, <2>3
    <3>3. sentCount'[x] = sentCount[x] /\ failedCount'[x] = failedCount[x] /\ mailed'[x] = mailed[x]
      BY <1>2
    <3> QED BY <2>1, <3>1, <3>2, <3>3, CastAside
  <2> QED BY <2>2, <2>3
<1>9. CalledOK'
  <2>1. \A x \in called : x \in Casts /\ x # c
    BY <1>1 DEF CalledOK, BroadcastsTypeOK
  <2> QED BY <1>2, <1>5, <2>1 DEF CalledOK
<1>10. QuotaOK'
  <2>1. IsFiniteSet(Committed) /\ Cardinality(Committed) \in Nat /\ Limit \in Nat
    BY BroadcastsAssumption, FS_CardinalityType DEF QuotaOK
  <2>2. Committed' = Committed \cup {c} /\ c \notin Committed
    BY <1>1, <1>5 DEF Committed
  <2>3. IsFiniteSet(Committed') /\ Cardinality(Committed') = Cardinality(Committed) + 1
    <3> DEFINE S == Committed
    <3>1. IsFiniteSet(S \cup {c}) /\ Cardinality(S \cup {c}) = Cardinality(S) + 1
      <4>1. IsFiniteSet(S) /\ c \notin S
        BY <2>1, <2>2
      <4> HIDE DEF S
      <4> QED BY <4>1, FS_AddElement
    <3> QED BY <2>2, <3>1
  <2>4. ASSUME ~crowded
        PROVE  /\ Cardinality(Committed) < Limit
               /\ \A v \in Workers : ~Doing(v, "create")'
    <3>1. Doing(w, "create")
      BY <1>2 DEF Doing
    <3>2. Cardinality(Committed) < Limit /\ \A v \in Workers : Doing(v, "create") => v = w
      BY <2>4, <3>1 DEF QuotaOK
    <3> QED BY <1>3, <1>4, <3>2 DEF Doing
  <2>5. ASSUME ~crowded' PROVE Cardinality(Committed') <= Limit
    <3>1. ~crowded
      BY <1>2, <2>5
    <3>2. PICK a \in Nat : a = Cardinality(Committed) /\ a < Limit
      BY <2>1, <2>4, <3>1
    <3> QED BY <2>1, <2>3, <3>2
  <2> QED BY <1>2, <2>3, <2>4, <2>5 DEF QuotaOK
<1> QED BY <1>7, <1>8, <1>9, <1>10

\* A step of the dispatch of one broadcast, whose row alone changes.
LEMMA RowStep ==
  ASSUME BroadcastsTypeOK, CastsOK, NEW w \in Workers, NEW c \in Casts, NEW j \in Job,
         Go(w, j), j.pc \in Dispatching => j.cast = c,
         resent \subseteq resent',
         \A x \in Casts : x # c =>
           /\ status'[x] = status[x] /\ sentCount'[x] = sentCount[x]
           /\ failedCount'[x] = failedCount[x] /\ recipientsCount'[x] = recipientsCount[x]
           /\ mailed'[x] = mailed[x],
         c \in resent' \/ CastOK(c)'
  PROVE  CastsOK'
<1> SUFFICES ASSUME NEW x \in Casts \ resent', x # c PROVE CastOK(x)'
  BY DEF CastsOK
<1>1. CastOK(x)
  BY DEF CastsOK
<1>2. \A v \in Workers : worker'[v] = IF v = w THEN j ELSE worker[v]
  BY WorkerSet
<1>3. \A v \in Workers : Dispatches(v, x)' => worker'[v] = worker[v]
  BY <1>2 DEF Dispatches
<1> QED BY <1>1, <1>3, CastAside

\* A dispatch ends, and with it all work on its broadcast.
LEMMA CastEnds ==
  ASSUME BroadcastsTypeOK, NEW w \in Workers, NEW c \in Casts, CastOK(c), Dispatches(w, c),
         Stop(w), mailed'[c] = mailed[c],
         status'[c] = "sent" => sentCount'[c] + failedCount'[c] = recipientsCount'[c],
         status'[c] # "none"
  PROVE  CastOK(c)'
<1>1. \A v \in Workers : worker'[v] = IF v = w THEN Idle ELSE worker[v]
  BY WorkerSet, WorkerJobs DEF Stop
<1>2. \A v \in Workers : ~Dispatches(v, c)'
  BY <1>1 DEF Dispatches, Dispatching, Idle, CastOK
<1> QED BY <1>2 DEF CastOK

\* A cancellation is overwritten on record only.
LEMMA CalledKept ==
  ASSUME BroadcastsTypeOK, CalledOK, NEW c \in Casts, NEW s \in CastStatus, s # "none",
         SetStatus(c, s), called' = called, overrun \subseteq overrun',
         status[c] = "cancelled" => c \in overrun'
  PROVE  CalledOK'
<1>1. \A x \in Casts : status'[x] = IF x = c THEN s ELSE status[x]
  BY StatusSet
<1>2. called \subseteq Casts
  BY DEF BroadcastsTypeOK
<1> QED BY <1>1, <1>2 DEF CalledOK

\* No worker of the dispatcher composes.
LEMMA NobodyComposes ==
  ASSUME BroadcastsTypeOK, NEW w \in Workers, NEW j \in Job, Go(w, j), j.pc # "create"
  PROVE  \A v \in Workers : Doing(v, "create")' => Doing(v, "create")
<1>1. \A v \in Workers : worker'[v] = IF v = w THEN j ELSE worker[v]
  BY WorkerSet
<1> QED BY <1>1 DEF Doing

LEMMA LoadKeeps ==
  ASSUME BroadcastsInv, NEW w \in Workers, Load(w)
  PROVE  BroadcastsInv'
<1> USE DEF BroadcastsInv
<1>1. PICK c \in Casts : c = worker[w].cast /\ worker[w].pc = "kicked"
  BY WorkerFields DEF Load, Doing
<1>2. UNCHANGED <<status, recipientsCount, sentCount, failedCount, stale, suppressed, acts, faults,
                  mailed, resent, called, overrun, crowded>>
  BY DEF Load, counts, limits, history
<1>3. PICK j \in Job : Go(w, j) /\ (j = Idle \/ (j.pc = "loaded" /\ j.cast = c))
  <2>1. Resolved \in SUBSET Emails
    BY DEF Resolved
  <2>2. CASE status[c] = "queued"
    BY <1>1, <2>1, <2>2, WorkerJobs DEF Load
  <2>3. CASE status[c] # "queued"
    <3>1. Go(w, Idle)
      BY <1>1, <2>3 DEF Load, Stop
    <3>2. Idle \in Job
      BY WorkerJobs
    <3> QED BY <3>1, <3>2
  <2> QED BY <2>2, <2>3
<1>4. /\ worker' \in [Workers -> Job]
      /\ \A v \in Workers : worker'[v] = IF v = w THEN j ELSE worker[v]
  BY <1>3, WorkerSet
<1>5. BroadcastsTypeOK'
  BY <1>2, <1>4 DEF BroadcastsTypeOK
<1>6. Dispatches(w, c)
  BY <1>1 DEF Dispatches, Dispatching
<1>7. c \in resent' \/ CastOK(c)'
  <2> SUFFICES ASSUME c \notin resent' PROVE CastOK(c)'
    OBVIOUS
  <2>1. CastOK(c)
    BY <1>2 DEF CastsOK
  <2>2. status[c] \notin {"none", "sent"} /\ JobOK(worker[w], c)
    BY <1>6, <2>1 DEF CastOK
  <2>3. CASE j = Idle
    <3>1. Stop(w)
      BY <1>3, <2>3 DEF Stop
    <3> QED BY <1>2, <1>6, <2>1, <2>2, <3>1, CastEnds
  <2>4. CASE j # Idle
    <3>1. Dispatches(w, c)' /\ worker'[w].pc = "loaded"
      BY <1>3, <1>4, <2>4 DEF Dispatches, Dispatching
    <3>2. JobOK(worker[w], c)'
      BY <1>1, <1>2, <2>2, <3>1 DEF JobOK
    <3>3. \A e \in Emails : mailed'[c][e] <= 1
      BY <1>2, <2>1 DEF CastOK
    <3> QED BY <1>2, <1>4, <1>6, <2>1, <3>1, <3>2, <3>3, CastStep
  <2> QED BY <2>3, <2>4
<1>8. CastsOK'
  <2>1. j.pc \in Dispatching => j.cast = c
    BY <1>3, WorkerJobs DEF Dispatching
  <2> QED BY <1>2, <1>3, <1>7, <2>1, RowStep
<1>9. CalledOK'
  BY <1>2 DEF CalledOK
<1>10. QuotaOK'
  <2>1. Committed' = Committed /\ crowded' = crowded
    BY <1>2 DEF Committed
  <2>2. \E x : Committed' \subseteq Committed \cup {x}
    BY <2>1
  <2>3. j.pc # "create"
    BY <1>3, WorkerJobs
  <2>4. \A v \in Workers : Doing(v, "create")' => Doing(v, "create")
    BY <1>3, <2>3, NobodyComposes
  <2> QED BY <2>1, <2>2, <2>4, QuotaKept
<1> QED BY <1>5, <1>8, <1>9, <1>10

\* A claim counts whom it will mail, whatever the status has become.
LEMMA ClaimKeeps ==
  ASSUME BroadcastsInv, NEW w \in Workers, Claim(w)
  PROVE  BroadcastsInv'
<1> USE DEF BroadcastsInv
<1>1. PICK c \in Casts, todo \in SUBSET Emails :
        c = worker[w].cast /\ todo = worker[w].todo /\ worker[w].pc = "loaded"
  BY WorkerFields DEF Claim, Doing
<1>2. UNCHANGED <<sentCount, failedCount, suppressed, acts, faults, mailed, resent, called>>
  BY DEF Claim, limits
<1>3. PICK s \in {"failed", "sending"}, j \in Job :
        /\ SetStatus(c, s) /\ Go(w, j)
        /\ s = "failed" => j = Idle /\ recipientsCount' = recipientsCount
        /\ s = "sending" =>
             /\ j = [pc |-> "chunk", cast |-> c, todo |-> todo]
             /\ recipientsCount' = [recipientsCount EXCEPT ![c] = Cardinality(todo)]
  <2>1. CASE todo = {}
    BY <1>1, <2>1, WorkerJobs DEF Claim, Stop
  <2>2. CASE todo # {}
    BY <1>1, <2>2, WorkerJobs DEF Claim
  <2> QED BY <2>1, <2>2
<1>4. /\ overrun' = IF status[c] # "queued" THEN overrun \cup {c} ELSE overrun
      /\ crowded' = (crowded \/ status[c] # "queued")
  BY <1>1 DEF Claim, Overrun
<1>5. Cardinality(todo) \in Nat
  <2>1. IsFiniteSet(todo)
    BY BroadcastsAssumption, FS_Subset
  <2> QED BY <2>1, FS_CardinalityType
<1>6. /\ worker' \in [Workers -> Job]
      /\ \A v \in Workers : worker'[v] = IF v = w THEN j ELSE worker[v]
  BY <1>3, WorkerSet
<1>7. /\ status' \in [Casts -> CastStatus] /\ stale' \subseteq Casts
      /\ \A x \in Casts : status'[x] = IF x = c THEN s ELSE status[x]
      /\ Committed' \subseteq Committed \cup {c}
      /\ c \in Committed => Committed' \subseteq Committed
  <2>1. s \in CastStatus
    BY DEF CastStatus
  <2> QED BY <1>3, <2>1, StatusSet
<1>8. recipientsCount' \in [Casts -> Nat]
  BY <1>3, <1>5 DEF BroadcastsTypeOK
<1>9. BroadcastsTypeOK'
  <2>1. crowded' \in BOOLEAN
    BY <1>4 DEF BroadcastsTypeOK
  <2>2. overrun' \subseteq Casts
    BY <1>4 DEF BroadcastsTypeOK
  <2> QED BY <1>2, <1>6, <1>7, <1>8, <2>1, <2>2 DEF BroadcastsTypeOK
<1>10. Dispatches(w, c)
  BY <1>1 DEF Dispatches, Dispatching
<1>11. c \in resent' \/ CastOK(c)'
  <2> SUFFICES ASSUME c \notin resent' PROVE CastOK(c)'
    OBVIOUS
  <2>1. CastOK(c)
    BY <1>2 DEF CastsOK
  <2>2. JobOK(worker[w], c)
    BY <1>10, <2>1 DEF CastOK
  <2>3. CASE s = "failed"
    <3>1. Stop(w) /\ status'[c] = "failed"
      BY <1>3, <1>7, <2>3 DEF Stop
    <3> QED BY <1>2, <1>10, <2>1, <3>1, CastEnds
  <2>4. CASE s = "sending"
    <3>1. worker'[w] = [pc |-> "chunk", cast |-> c, todo |-> todo] /\ Dispatches(w, c)'
      BY <1>3, <1>6, <2>4 DEF Dispatches, Dispatching
    <3>2. recipientsCount'[c] = Cardinality(todo)
      BY <1>3, <2>4 DEF BroadcastsTypeOK
    <3>3. sentCount[c] + failedCount[c] = 0 /\ \A e \in Emails : mailed[c][e] = 0
      BY <1>1, <2>2 DEF JobOK
    <3>4. JobOK(worker[w], c)'
      <4>1. sentCount'[c] + failedCount'[c] + Cardinality(todo) = recipientsCount'[c]
        BY <1>2, <1>5, <3>2, <3>3
      <4> QED BY <1>2, <3>1, <3>3, <4>1 DEF JobOK
    <3>5. \A e \in Emails : mailed'[c][e] <= 1
      BY <1>2, <3>3
    <3>6. status'[c] = "sending"
      BY <1>7, <2>4
    <3> QED BY <1>6, <1>10, <2>1, <3>1, <3>4, <3>5, <3>6, CastStep
  <2> QED BY <2>3, <2>4
<1>12. CastsOK'
  <2>1. j.pc \in Dispatching => j.cast = c
    BY <1>3, WorkerJobs DEF Dispatching
  <2>2. \A x \in Casts : x # c =>
          status'[x] = status[x] /\ recipientsCount'[x] = recipientsCount[x]
    BY <1>3, <1>7 DEF BroadcastsTypeOK
  <2> QED BY <1>2, <1>3, <1>11, <2>1, <2>2, RowStep
<1>13. CalledOK'
  <2>1. s \in CastStatus /\ s # "none"
    BY DEF CastStatus
  <2>2. overrun \subseteq overrun' /\ (status[c] = "cancelled" => c \in overrun')
    BY <1>4
  <2> QED BY <1>2, <1>3, <2>1, <2>2, CalledKept
<1>14. QuotaOK'
  <2>1. crowded' \/ Committed' \subseteq Committed
    BY <1>4, <1>7 DEF Committed
  <2>2. \E x : Committed' \subseteq Committed \cup {x}
    BY <1>7
  <2>3. j.pc # "create"
    BY <1>3, WorkerJobs
  <2>4. \A v \in Workers : Doing(v, "create")' => Doing(v, "create")
    BY <1>3, <2>3, NobodyComposes
  <2> QED BY <1>4, <2>1, <2>2, <2>4, QuotaKept
<1> QED BY <1>9, <1>12, <1>13, <1>14

\* A step of a dispatch that leaves its broadcast's row and the registers alone.
LEMMA DispatchStep ==
  ASSUME BroadcastsInv, NEW w \in Workers, NEW c \in Casts, NEW j \in Job,
         Dispatches(w, c), Go(w, j), j.pc \in Dispatching, j.cast = c,
         UNCHANGED <<status, suppressed, resent, called, overrun, crowded>>,
         recipientsCount' = recipientsCount,
         acts' \in 0..MaxActs, faults' \in 0..MaxFaults, stale' \subseteq Casts,
         sentCount' \in [Casts -> Nat], failedCount' \in [Casts -> Nat],
         mailed' \in [Casts -> [Emails -> 0..2]],
         \A x \in Casts : x # c =>
           /\ sentCount'[x] = sentCount[x] /\ failedCount'[x] = failedCount[x]
           /\ mailed'[x] = mailed[x],
         c \notin resent => JobOK(worker[w], c)' /\ \A e \in Emails : mailed'[c][e] <= 1
  PROVE  BroadcastsInv'
<1> USE DEF BroadcastsInv
<1>1. /\ worker' \in [Workers -> Job]
      /\ \A v \in Workers : worker'[v] = IF v = w THEN j ELSE worker[v]
  BY WorkerSet
<1>2. BroadcastsTypeOK'
  BY <1>1 DEF BroadcastsTypeOK
<1>3. c \in resent' \/ CastOK(c)'
  <2> SUFFICES ASSUME c \notin resent' PROVE CastOK(c)'
    OBVIOUS
  <2>1. CastOK(c) /\ JobOK(worker[w], c)' /\ \A e \in Emails : mailed'[c][e] <= 1
    BY DEF CastsOK
  <2>2. Dispatches(w, c)'
    BY <1>1 DEF Dispatches
  <2> QED BY <1>1, <2>1, <2>2, CastStep
<1>4. CastsOK'
  BY <1>3, RowStep
<1>5. CalledOK'
  BY DEF CalledOK
<1>6. QuotaOK'
  <2>1. Committed' = Committed
    BY DEF Committed
  <2>2. \E x : Committed' \subseteq Committed \cup {x}
    BY <2>1
  <2>3. j.pc # "create"
    BY DEF Dispatching
  <2>4. \A v \in Workers : Doing(v, "create")' => Doing(v, "create")
    BY <2>3, NobodyComposes
  <2> QED BY <2>1, <2>2, <2>4, QuotaKept
<1> QED BY <1>2, <1>4, <1>5, <1>6

\* A dispatch ends; its row is as it was, or settled.
LEMMA DispatchEnds ==
  ASSUME BroadcastsInv, NEW w \in Workers, NEW c \in Casts, Dispatches(w, c), Stop(w),
         UNCHANGED <<recipientsCount, sentCount, failedCount, suppressed>>,
         UNCHANGED <<mailed, resent, called, overrun, crowded>>,
         acts' \in 0..MaxActs, faults' \in 0..MaxFaults,
         \/ UNCHANGED <<status, stale>>
         \/ \E s \in {"sent", "failed"} :
              /\ SetStatus(c, s) /\ c \in Unsettled
              /\ s = "sent" =>
                   status[c] = "sending" /\ (c \notin resent =>
                     sentCount[c] + failedCount[c] = recipientsCount[c])
  PROVE  BroadcastsInv'
<1> USE DEF BroadcastsInv
<1>1. Go(w, Idle) /\ Idle \in Job /\ Idle.pc = "idle"
  BY WorkerJobs DEF Stop
<1>2. /\ worker' \in [Workers -> Job]
      /\ \A v \in Workers : worker'[v] = IF v = w THEN Idle ELSE worker[v]
  BY <1>1, WorkerSet
<1>3. /\ status' \in [Casts -> CastStatus] /\ stale' \subseteq Casts
      /\ \A x \in Casts : x # c => status'[x] = status[x]
      /\ Committed' \subseteq Committed
      /\ CalledOK'
      /\ \/ status'[c] = status[c]
         \/ status'[c] = "failed"
         \/ /\ status'[c] = "sent"
            /\ c \notin resent => sentCount[c] + failedCount[c] = recipientsCount[c]
  <2>1. CASE UNCHANGED <<status, stale>>
    <3>1. status' \in [Casts -> CastStatus] /\ stale' \subseteq Casts
      BY <2>1 DEF BroadcastsTypeOK
    <3>2. Committed' = Committed
      BY <2>1 DEF Committed
    <3>3. CalledOK'
      BY <2>1 DEF CalledOK
    <3> QED BY <2>1, <3>1, <3>2, <3>3
  <2>2. CASE ~UNCHANGED <<status, stale>>
    <3>1. PICK s \in {"sent", "failed"} :
              /\ SetStatus(c, s) /\ c \in Unsettled
              /\ s = "sent" =>
                   status[c] = "sending" /\ (c \notin resent =>
                     sentCount[c] + failedCount[c] = recipientsCount[c])
      BY <2>2
    <3>2. s \in CastStatus /\ s # "none" /\ status[c] # "cancelled" /\ c \in Committed
      BY <3>1 DEF CastStatus, Unsettled, Committed
    <3>3. CalledOK'
      BY <3>1, <3>2, CalledKept
    <3>4. /\ status' \in [Casts -> CastStatus] /\ stale' \subseteq Casts
          /\ \A x \in Casts : status'[x] = IF x = c THEN s ELSE status[x]
          /\ Committed' \subseteq Committed
      BY <3>1, <3>2, StatusSet
    <3> QED BY <3>1, <3>3, <3>4
  <2> QED BY <2>1, <2>2
<1>4. BroadcastsTypeOK'
  BY <1>2, <1>3 DEF BroadcastsTypeOK
<1>5. c \in resent' \/ CastOK(c)'
  <2> SUFFICES ASSUME c \notin resent' PROVE CastOK(c)'
    OBVIOUS
  <2>1. CastOK(c)
    BY DEF CastsOK
  <2>2. status[c] \notin {"none", "sent"}
    BY <2>1 DEF CastOK
  <2>3. status'[c] # "none"
    BY <1>3, <2>2
  <2>4. status'[c] = "sent" => sentCount'[c] + failedCount'[c] = recipientsCount'[c]
    BY <1>3, <2>2
  <2> QED BY <2>1, <2>3, <2>4, CastEnds
<1>6. CastsOK'
  <2>1. Idle.pc \notin Dispatching
    BY <1>1 DEF Dispatching
  <2> QED BY <1>1, <1>3, <1>5, <2>1, RowStep
<1>7. QuotaOK'
  <2>1. \E x : Committed' \subseteq Committed \cup {x}
    BY <1>3
  <2>2. \A v \in Workers : Doing(v, "create")' => Doing(v, "create")
    BY <1>1, NobodyComposes
  <2> QED BY <1>3, <2>1, <2>2, QuotaKept
<1> QED BY <1>3, <1>4, <1>6, <1>7

\* A chunk is taken from what is left, or a cancelled broadcast stops.
LEMMA CheckChunkKeeps ==
  ASSUME BroadcastsInv, NEW w \in Workers, CheckChunk(w)
  PROVE  BroadcastsInv'
<1> USE DEF BroadcastsInv
<1>1. PICK c \in Casts, todo \in SUBSET Emails :
        c = worker[w].cast /\ todo = worker[w].todo /\ worker[w].pc = "chunk"
  BY WorkerFields DEF CheckChunk, Doing
<1>2. /\ UNCHANGED <<status, recipientsCount, sentCount, failedCount, stale, suppressed, acts,
                     faults, mailed, resent, called, overrun, crowded>>
      /\ acts \in 0..MaxActs /\ faults \in 0..MaxFaults
  BY DEF CheckChunk, counts, limits, history, BroadcastsTypeOK
<1>3. Dispatches(w, c)
  BY <1>1 DEF Dispatches, Dispatching
<1>4. CASE status[c] = "cancelled"
  <2>1. Stop(w)
    BY <1>1, <1>4 DEF CheckChunk
  <2> QED BY <1>2, <1>3, <2>1, DispatchEnds
<1>5. CASE status[c] # "cancelled"
  <2>1. PICK s \in SUBSET todo : s = Chunk(todo)
    BY ChunkIsPart
  <2> DEFINE j == [pc |-> "mail", cast |-> c, todo |-> todo \ s, chunk |-> s,
                   ok |-> 0, bad |-> 0]
  <2>2. Go(w, j)
    BY <1>1, <1>5, <2>1 DEF CheckChunk
  <2>3. /\ j \in Job /\ j.pc = "mail" /\ j.cast = c /\ j.todo = todo \ s /\ j.chunk = s
        /\ j.ok = 0 /\ j.bad = 0
    <3>1. todo \ s \in SUBSET Emails /\ s \in SUBSET Emails
      OBVIOUS
    <3>2. j \in Job
      BY <3>1, WorkerJobs
    <3> QED BY <3>2
  <2> HIDE DEF j
  <2>4. worker'[w] = j
    BY <2>2, <2>3, WorkerSet
  <2>5. ASSUME c \notin resent
        PROVE  JobOK(worker[w], c)' /\ \A e \in Emails : mailed'[c][e] <= 1
    <3>1. CastOK(c) /\ JobOK(worker[w], c)
      BY <1>3, <2>5 DEF CastsOK, CastOK
    <3>2. /\ sentCount[c] + failedCount[c] + Cardinality(todo) = recipientsCount[c]
          /\ \A e \in todo : mailed[c][e] = 0
      BY <1>1, <3>1 DEF JobOK
    <3>3. /\ Cardinality(todo) = Cardinality(s) + Cardinality(todo \ s)
          /\ Cardinality(s) \in Nat /\ Cardinality(todo \ s) \in Nat
      <4>1. IsFiniteSet(todo) /\ IsFiniteSet(s) /\ IsFiniteSet(todo \ s)
        BY BroadcastsAssumption, FS_Subset
      <4>2. Cardinality(s \cup (todo \ s))
              = Cardinality(s) + Cardinality(todo \ s) - Cardinality(s \cap (todo \ s))
        BY <4>1, FS_Union
      <4>3. s \cup (todo \ s) = todo /\ s \cap (todo \ s) = {}
        OBVIOUS
      <4>4. /\ Cardinality({}) = 0 /\ Cardinality(s) \in Nat
            /\ Cardinality(todo \ s) \in Nat
        BY <4>1, FS_EmptySet, FS_CardinalityType
      <4>5. Cardinality(todo) = Cardinality(s) + Cardinality(todo \ s) - Cardinality({})
        BY <4>2, <4>3
      <4> QED BY <4>4, <4>5
    <3>4. sentCount[c] + failedCount[c] \in Nat /\ recipientsCount[c] \in Nat
      BY DEF BroadcastsTypeOK
    <3>5. sentCount'[c] + failedCount'[c] + j.ok + j.bad + Cardinality(j.chunk)
            + Cardinality(j.todo) = recipientsCount'[c]
      <4>1. PICK n \in Nat, a \in Nat, b \in Nat :
              /\ n = sentCount[c] + failedCount[c] /\ a = Cardinality(s)
              /\ b = Cardinality(todo \ s) /\ n + a + b = recipientsCount[c]
        <5>1. PICK n \in Nat, a \in Nat, b \in Nat :
              /\ n = sentCount[c] + failedCount[c] /\ a = Cardinality(s)
              /\ b = Cardinality(todo \ s)
          BY <3>3, <3>4
        <5>2. n + (a + b) = recipientsCount[c]
          BY <3>2, <3>3, <5>1
        <5> QED BY <5>1, <5>2
      <4>2. n + 0 + 0 + a + b = recipientsCount[c]
        BY <4>1
      <4> QED BY <1>2, <2>3, <4>1, <4>2
    <3>6. \A e \in j.chunk \cup j.todo : mailed'[c][e] = 0
      BY <1>2, <2>3, <3>2
    <3>7. JobOK(j, c)'
      BY <2>3, <3>5, <3>6 DEF JobOK
    <3>8. \A e \in Emails : mailed'[c][e] <= 1
      BY <1>2, <3>1 DEF CastOK
    <3> QED BY <2>4, <3>7, <3>8
  <2>6. /\ sentCount' \in [Casts -> Nat] /\ failedCount' \in [Casts -> Nat]
        /\ mailed' \in [Casts -> [Emails -> 0..2]] /\ stale' \subseteq Casts
    BY <1>2 DEF BroadcastsTypeOK
  <2> QED BY <1>2, <1>3, <2>2, <2>3, <2>5, <2>6, DispatchStep DEF Dispatching
<1> QED BY <1>4, <1>5

\* An address of the chunk is done with, mailed or not.
LEMMA AddressDone ==
  ASSUME BroadcastsInv, NEW w \in Workers, Mail(w) \/ MailFails(w)
  PROVE  \E c \in Casts, e \in Emails, j \in Job :
           /\ c = worker[w].cast /\ e = CHOOSE x \in worker[w].chunk : TRUE
           /\ Dispatches(w, c) /\ Go(w, j) /\ j.pc = "mail" /\ j.cast = c
           /\ c \notin resent =>
                /\ mailed[c][e] = 0
                /\ sentCount[c] + failedCount[c] + j.ok + j.bad + Cardinality(j.chunk)
                     + Cardinality(j.todo) = recipientsCount[c]
                /\ e \notin j.chunk \cup j.todo /\ j.chunk \cap j.todo = {}
                /\ \A x \in j.chunk \cup j.todo : mailed[c][x] = 0
<1> USE DEF BroadcastsInv
<1>1. worker[w].pc = "mail" /\ worker[w].chunk # {}
  BY DEF Mail, MailFails, Doing
<1> DEFINE MailJob == [pc : {"mail"}, cast : Casts, todo : SUBSET Emails, chunk : SUBSET Emails,
                       ok : Nat, bad : Nat]
<1>2. PICK c \in Casts, todo \in SUBSET Emails, chunk \in SUBSET Emails, ok \in Nat, bad \in Nat :
        /\ worker[w] \in MailJob
        /\ worker[w].pc = "mail" /\ worker[w].cast = c /\ worker[w].todo = todo
        /\ worker[w].chunk = chunk /\ worker[w].ok = ok /\ worker[w].bad = bad
  <2>1. worker[w] \in MailJob
    BY <1>1 DEF BroadcastsTypeOK, Job, Idle
  <2> QED BY <1>1, <2>1
<1>3. PICK e \in chunk : e = CHOOSE x \in worker[w].chunk : TRUE
  BY <1>1, <1>2
<1>4. PICK n \in Nat, m \in Nat, j \in MailJob :
        /\ n + m = ok + bad + 1 /\ Go(w, j)
        /\ j.pc = "mail" /\ j.cast = c /\ j.todo = todo /\ j.chunk = chunk \ {e}
        /\ j.ok = n /\ j.bad = m
  <2>1. PICK s \in SUBSET Emails : s = chunk \ {e}
    BY <1>3
  <2>2. CASE Mail(w)
    <3>1. Go(w, [worker[w] EXCEPT !.chunk = @ \ {CHOOSE x \in worker[w].chunk : TRUE},
                                  !.ok = @ + 1])
      BY <2>2 DEF Mail
    <3>2. PICK k \in Nat : k = ok + 1
      OBVIOUS
    <3>3. Go(w, [worker[w] EXCEPT !.chunk = s, !.ok = k])
      BY <1>2, <1>3, <2>1, <3>1, <3>2
    <3>4. PICK j : j = [worker[w] EXCEPT !.chunk = s, !.ok = k]
      OBVIOUS
    <3>5. j \in MailJob /\ j.pc = "mail" /\ j.cast = c /\ j.todo = todo /\ j.chunk = s
          /\ j.ok = k /\ j.bad = bad
      BY <1>2, <3>4
    <3>6. k + bad = ok + bad + 1 /\ Go(w, j)
      BY <3>2, <3>3, <3>4
    <3> HIDE DEF MailJob
    <3> QED BY <2>1, <3>5, <3>6
  <2>3. CASE MailFails(w)
    <3>1. Go(w, [worker[w] EXCEPT !.chunk = @ \ {CHOOSE x \in worker[w].chunk : TRUE},
                                  !.bad = @ + 1])
      BY <2>3 DEF MailFails
    <3>2. PICK k \in Nat : k = bad + 1
      OBVIOUS
    <3>3. Go(w, [worker[w] EXCEPT !.chunk = s, !.bad = k])
      BY <1>2, <1>3, <2>1, <3>1, <3>2
    <3>4. PICK j : j = [worker[w] EXCEPT !.chunk = s, !.bad = k]
      OBVIOUS
    <3>5. j \in MailJob /\ j.pc = "mail" /\ j.cast = c /\ j.todo = todo /\ j.chunk = s
          /\ j.ok = ok /\ j.bad = k
      BY <1>2, <3>4
    <3>6. ok + k = ok + bad + 1 /\ Go(w, j)
      BY <3>2, <3>3, <3>4
    <3> HIDE DEF MailJob
    <3> QED BY <2>1, <3>5, <3>6
  <2> QED BY <2>2, <2>3
<1>5. /\ j \in Job /\ j.pc = "mail" /\ j.cast = c /\ j.todo = todo /\ j.chunk = chunk \ {e}
      /\ j.ok = n /\ j.bad = m
  <2>1. j \in Job
    BY <1>4 DEF Job
  <2> QED BY <1>4, <2>1
<1>6. Go(w, j)
  BY <1>4
<1> HIDE DEF MailJob
<1>7. Dispatches(w, c)
  BY <1>2 DEF Dispatches, Dispatching
<1>8. ASSUME c \notin resent
      PROVE  /\ mailed[c][e] = 0
             /\ sentCount[c] + failedCount[c] + j.ok + j.bad + Cardinality(j.chunk)
                  + Cardinality(j.todo) = recipientsCount[c]
             /\ e \notin j.chunk \cup j.todo /\ j.chunk \cap j.todo = {}
             /\ \A x \in j.chunk \cup j.todo : mailed[c][x] = 0
  <2>1. JobOK(worker[w], c)
    BY <1>7, <1>8 DEF CastsOK, CastOK
  <2>2. /\ sentCount[c] + failedCount[c] + ok + bad + Cardinality(chunk) + Cardinality(todo)
             = recipientsCount[c]
        /\ chunk \cap todo = {}
        /\ \A x \in chunk \cup todo : mailed[c][x] = 0
    BY <1>2, <2>1 DEF JobOK
  <2>3. IsFiniteSet(chunk) /\ IsFiniteSet(todo)
    BY BroadcastsAssumption, FS_Subset
  <2>4. Cardinality(chunk \ {e}) = Cardinality(chunk) - 1
    BY <2>3, FS_RemoveElement
  <2>5. Cardinality(chunk) \in Nat /\ Cardinality(todo) \in Nat
    BY <2>3, FS_CardinalityType
  <2>6. sentCount[c] \in Nat /\ failedCount[c] \in Nat
    BY DEF BroadcastsTypeOK
  <2>7. sentCount[c] + failedCount[c] + n + m + Cardinality(chunk \ {e}) + Cardinality(todo)
          = recipientsCount[c]
    <3>1. PICK a \in Nat, b \in Nat, s \in Nat, t \in Nat :
            a = sentCount[c] /\ b = failedCount[c] /\ s = Cardinality(chunk) /\ t = Cardinality(todo)
      BY <2>5, <2>6
    <3>2. a + b + n + m + (s - 1) + t = a + b + ok + bad + s + t
      BY <1>4
    <3> QED BY <2>2, <2>4, <3>1, <3>2
  <2> QED BY <1>5, <2>2, <2>7
<1>9. c = worker[w].cast /\ e = CHOOSE x \in worker[w].chunk : TRUE
  BY <1>2, <1>3
<1>10. e \in Emails
  OBVIOUS
<1> QED BY <1>5, <1>6, <1>7, <1>8, <1>9, <1>10

LEMMA MailKeeps ==
  ASSUME BroadcastsInv, NEW w \in Workers, Mail(w)
  PROVE  BroadcastsInv'
<1> USE DEF BroadcastsInv
<1>1. PICK c \in Casts, e \in Emails, j \in Job :
           /\ c = worker[w].cast /\ e = CHOOSE x \in worker[w].chunk : TRUE
           /\ Dispatches(w, c) /\ Go(w, j) /\ j.pc = "mail" /\ j.cast = c
           /\ c \notin resent =>
                /\ mailed[c][e] = 0
                /\ sentCount[c] + failedCount[c] + j.ok + j.bad + Cardinality(j.chunk)
                     + Cardinality(j.todo) = recipientsCount[c]
                /\ e \notin j.chunk \cup j.todo /\ j.chunk \cap j.todo = {}
                /\ \A x \in j.chunk \cup j.todo : mailed[c][x] = 0
  BY AddressDone
<1>2. /\ UNCHANGED <<status, recipientsCount, sentCount, failedCount, stale, suppressed, acts,
                     faults, resent, called, overrun, crowded>>
      /\ acts \in 0..MaxActs /\ faults \in 0..MaxFaults
      /\ stale \subseteq Casts
      /\ sentCount \in [Casts -> Nat] /\ failedCount \in [Casts -> Nat]
  BY DEF Mail, counts, limits, BroadcastsTypeOK
<1>3. PICK n \in 0..2 : n = (IF mailed[c][e] = 2 THEN 2 ELSE mailed[c][e] + 1)
  BY DEF BroadcastsTypeOK
<1>4. mailed' = [mailed EXCEPT ![c][e] = n]
  BY <1>1, <1>3 DEF Mail
<1>5. /\ mailed' \in [Casts -> [Emails -> 0..2]]
      /\ \A x \in Casts : x # c => mailed'[x] = mailed[x]
      /\ \A x \in Emails : mailed'[c][x] = IF x = e THEN n ELSE mailed[c][x]
  BY <1>4 DEF BroadcastsTypeOK
<1>6. worker'[w] = j
  BY <1>1, WorkerSet
<1>7. ASSUME c \notin resent
      PROVE  JobOK(worker[w], c)' /\ \A x \in Emails : mailed'[c][x] <= 1
  <2>1. n = 1
    BY <1>1, <1>3, <1>7
  <2>2. CastOK(c)
    BY <1>7 DEF CastsOK
  <2>3. \A x \in Emails : mailed'[c][x] <= 1
    BY <1>5, <2>1, <2>2 DEF CastOK
  <2>4. \A x \in j.chunk \cup j.todo : mailed'[c][x] = 0
    <3>1. j.chunk \in SUBSET Emails /\ j.todo \in SUBSET Emails
      BY <1>1 DEF Job, Idle
    <3> QED BY <1>1, <1>5, <1>7, <3>1
  <2>5. sentCount'[c] + failedCount'[c] + j.ok + j.bad + Cardinality(j.chunk)
                     + Cardinality(j.todo) = recipientsCount'[c]
    BY <1>1, <1>2, <1>7
  <2>6. JobOK(j, c)'
    BY <1>1, <1>7, <2>4, <2>5 DEF JobOK
  <2> QED BY <1>6, <2>3, <2>6
<1> QED BY <1>1, <1>2, <1>5, <1>7, DispatchStep DEF Dispatching

LEMMA MailFailsKeeps ==
  ASSUME BroadcastsInv, NEW w \in Workers, MailFails(w)
  PROVE  BroadcastsInv'
<1> USE DEF BroadcastsInv
<1>1. PICK c \in Casts, e \in Emails, j \in Job :
           /\ c = worker[w].cast /\ e = CHOOSE x \in worker[w].chunk : TRUE
           /\ Dispatches(w, c) /\ Go(w, j) /\ j.pc = "mail" /\ j.cast = c
           /\ c \notin resent =>
                /\ mailed[c][e] = 0
                /\ sentCount[c] + failedCount[c] + j.ok + j.bad + Cardinality(j.chunk)
                     + Cardinality(j.todo) = recipientsCount[c]
                /\ e \notin j.chunk \cup j.todo /\ j.chunk \cap j.todo = {}
                /\ \A x \in j.chunk \cup j.todo : mailed[c][x] = 0
  BY AddressDone
<1>2. /\ UNCHANGED <<status, recipientsCount, sentCount, failedCount, stale, suppressed,
                     mailed, resent, called, overrun, crowded>>
      /\ acts' \in 0..MaxActs /\ faults' \in 0..MaxFaults
      /\ stale \subseteq Casts /\ mailed \in [Casts -> [Emails -> 0..2]]
      /\ sentCount \in [Casts -> Nat] /\ failedCount \in [Casts -> Nat]
  BY LimitsOK DEF MailFails, counts, history, BroadcastsTypeOK
<1>3. worker'[w] = j
  BY <1>1, WorkerSet
<1>4. ASSUME c \notin resent
      PROVE  JobOK(worker[w], c)' /\ \A x \in Emails : mailed'[c][x] <= 1
  <2>1. CastOK(c)
    BY <1>4 DEF CastsOK
  <2>2. \A x \in Emails : mailed'[c][x] <= 1
    BY <1>2, <2>1 DEF CastOK
  <2>3. JobOK(j, c)'
    BY <1>1, <1>2, <1>4 DEF JobOK
  <2> QED BY <1>3, <2>2, <2>3
<1> QED BY <1>1, <1>2, <1>4, DispatchStep DEF Dispatching

\* What the chunk came to is counted, and the dispatch is between chunks again.
LEMMA CountChunkKeeps ==
  ASSUME BroadcastsInv, NEW w \in Workers, CountChunk(w)
  PROVE  BroadcastsInv'
<1> USE DEF BroadcastsInv
<1>1. PICK c \in Casts, todo \in SUBSET Emails, ok \in Nat, bad \in Nat :
        /\ worker[w].pc = "mail" /\ worker[w].cast = c /\ worker[w].todo = todo
        /\ worker[w].chunk = {} /\ worker[w].ok = ok /\ worker[w].bad = bad
  BY WorkerFields DEF CountChunk, Doing
<1>2. /\ UNCHANGED <<status, recipientsCount, suppressed, acts, faults, mailed, resent, called,
                     overrun, crowded>>
      /\ acts \in 0..MaxActs /\ faults \in 0..MaxFaults
      /\ mailed \in [Casts -> [Emails -> 0..2]] /\ stale' \subseteq Casts
  BY DEF CountChunk, limits, history, BroadcastsTypeOK
<1>3. /\ sentCount' = [sentCount EXCEPT ![c] = @ + ok]
      /\ failedCount' = [failedCount EXCEPT ![c] = @ + bad]
      /\ Go(w, [pc |-> "chunk", cast |-> c, todo |-> todo])
  BY <1>1 DEF CountChunk
<1>4. /\ sentCount' \in [Casts -> Nat] /\ failedCount' \in [Casts -> Nat]
      /\ \A x \in Casts : x # c =>
           sentCount'[x] = sentCount[x] /\ failedCount'[x] = failedCount[x]
      /\ sentCount'[c] = sentCount[c] + ok /\ failedCount'[c] = failedCount[c] + bad
  BY <1>3 DEF BroadcastsTypeOK
<1>5. PICK j \in Job : /\ Go(w, j) /\ j.pc = "chunk" /\ j.cast = c /\ j.todo = todo
  BY <1>3, WorkerJobs
<1>6. worker'[w] = j
  BY <1>5, WorkerSet
<1>7. Dispatches(w, c)
  BY <1>1 DEF Dispatches, Dispatching
<1>8. ASSUME c \notin resent
      PROVE  JobOK(worker[w], c)' /\ \A e \in Emails : mailed'[c][e] <= 1
  <2>1. CastOK(c) /\ JobOK(worker[w], c)
    BY <1>7, <1>8 DEF CastsOK, CastOK
  <2>2. /\ sentCount[c] + failedCount[c] + ok + bad + Cardinality({}) + Cardinality(todo)
             = recipientsCount[c]
        /\ \A e \in todo : mailed[c][e] = 0
    BY <1>1, <2>1 DEF JobOK
  <2>3. IsFiniteSet(todo)
    BY BroadcastsAssumption, FS_Subset
  <2>4. PICK s \in Nat, f \in Nat, t \in Nat :
          s = sentCount[c] /\ f = failedCount[c] /\ t = Cardinality(todo)
    BY <2>3, FS_CardinalityType DEF BroadcastsTypeOK
  <2>5. Cardinality({}) = 0
    BY FS_EmptySet
  <2>6. s + f + ok + bad + 0 + t = recipientsCount[c]
    BY <2>2, <2>4, <2>5
  <2>7. (s + ok) + (f + bad) + t = recipientsCount[c]
    BY <2>6
  <2>8. sentCount'[c] + failedCount'[c] + Cardinality(j.todo) = recipientsCount'[c]
    BY <1>2, <1>4, <1>5, <2>4, <2>7
  <2>9. JobOK(j, c)'
    BY <1>2, <1>5, <2>2, <2>8 DEF JobOK
  <2> QED BY <1>2, <1>6, <2>1, <2>9 DEF CastOK
<1> QED BY <1>2, <1>4, <1>5, <1>7, <1>8, DispatchStep DEF Dispatching

\* What is sent has been counted to the last addressee.
LEMMA MarkSentKeeps ==
  ASSUME BroadcastsInv, NEW w \in Workers, MarkSent(w)
  PROVE  BroadcastsInv'
<1> USE DEF BroadcastsInv
<1>1. PICK c \in Casts :
        worker[w].pc = "chunk" /\ worker[w].cast = c /\ worker[w].todo = {} /\ Stop(w)
  BY WorkerFields DEF MarkSent, Doing
<1>2. /\ UNCHANGED <<recipientsCount, sentCount, failedCount, suppressed, acts, faults>>
      /\ UNCHANGED <<mailed, resent, called, overrun, crowded>>
      /\ acts \in 0..MaxActs /\ faults \in 0..MaxFaults
  BY DEF MarkSent, counts, limits, history, BroadcastsTypeOK
<1>3. Dispatches(w, c)
  BY <1>1 DEF Dispatches, Dispatching
<1>4. ASSUME c \notin resent PROVE sentCount[c] + failedCount[c] = recipientsCount[c]
  <2>1. JobOK(worker[w], c)
    BY <1>3, <1>4 DEF CastsOK, CastOK
  <2>2. sentCount[c] + failedCount[c] + Cardinality({}) = recipientsCount[c]
    BY <1>1, <2>1 DEF JobOK
  <2>3. PICK n \in Nat : n = sentCount[c] + failedCount[c]
    BY DEF BroadcastsTypeOK
  <2>4. Cardinality({}) = 0
    BY FS_EmptySet
  <2>5. n + 0 = recipientsCount[c]
    BY <2>2, <2>3, <2>4
  <2> QED BY <2>3, <2>5
<1>5. CASE status[c] = "sending"
  <2>1. SetStatus(c, "sent") /\ c \in Unsettled
    BY <1>1, <1>5 DEF MarkSent, Unsettled
  <2>2. \E s \in {"sent", "failed"} :
              /\ SetStatus(c, s) /\ c \in Unsettled
              /\ s = "sent" =>
                   status[c] = "sending" /\ (c \notin resent =>
                     sentCount[c] + failedCount[c] = recipientsCount[c])
    BY <1>4, <1>5, <2>1
  <2> QED BY <1>1, <1>2, <1>3, <2>2, DispatchEnds
<1>6. CASE status[c] # "sending"
  <2>1. UNCHANGED <<status, stale>>
    BY <1>1, <1>6 DEF MarkSent
  <2> QED BY <1>1, <1>2, <1>3, <2>1, DispatchEnds
<1> QED BY <1>5, <1>6

LEMMA DispatchFailsKeeps ==
  ASSUME BroadcastsInv, NEW w \in Workers, DispatchFails(w)
  PROVE  BroadcastsInv'
<1> USE DEF BroadcastsInv
<1>1. PICK c \in Casts : worker[w].cast = c /\ Dispatches(w, c) /\ Stop(w)
  BY WorkerFields DEF DispatchFails, Dispatching, Dispatches
<1>2. /\ UNCHANGED <<recipientsCount, sentCount, failedCount, suppressed>>
      /\ UNCHANGED <<mailed, resent, called, overrun, crowded>>
      /\ acts' \in 0..MaxActs /\ faults' \in 0..MaxFaults
  BY LimitsOK DEF DispatchFails, counts, history
<1>3. CASE c \in Unsettled
  <2>1. SetStatus(c, "failed")
    BY <1>1, <1>3 DEF DispatchFails
  <2>2. \E s \in {"sent", "failed"} :
              /\ SetStatus(c, s) /\ c \in Unsettled
              /\ s = "sent" =>
                   status[c] = "sending" /\ (c \notin resent =>
                     sentCount[c] + failedCount[c] = recipientsCount[c])
    BY <1>3, <2>1
  <2> QED BY <1>1, <1>2, <2>2, DispatchEnds
<1>4. CASE c \notin Unsettled
  <2>1. UNCHANGED <<status, stale>>
    BY <1>1, <1>4 DEF DispatchFails
  <2> QED BY <1>1, <1>2, <2>1, DispatchEnds
<1> QED BY <1>3, <1>4

\* What the sweep takes up again is on record.
LEMMA RequeueKeeps ==
  ASSUME BroadcastsInv, NEW w \in Workers, NEW c \in Casts, Requeue(w, c)
  PROVE  BroadcastsInv'
<1> USE DEF BroadcastsInv
<1>1. PICK queued \in SUBSET Casts, sending \in SUBSET Casts :
        /\ worker[w] \in [pc : {"sweep"}, queued : SUBSET Casts, sending : SUBSET Casts]
        /\ worker[w].pc = "sweep" /\ queued = worker[w].queued \cup {c}
        /\ sending = worker[w].sending \ {c}
  <2>1. worker[w] \in [pc : {"sweep"}, queued : SUBSET Casts, sending : SUBSET Casts]
    BY DEF Requeue, Doing, BroadcastsTypeOK, Job, Idle
  <2>2. /\ worker[w].pc = "sweep" /\ worker[w].queued \in SUBSET Casts
        /\ worker[w].sending \in SUBSET Casts
    BY <2>1
  <2>3. /\ worker[w].queued \cup {c} \in SUBSET Casts
        /\ worker[w].sending \ {c} \in SUBSET Casts
    BY <2>2
  <2> QED BY <2>1, <2>2, <2>3
<1>2. PICK j : j = [worker[w] EXCEPT !.queued = queued, !.sending = sending]
  OBVIOUS
<1>3. j \in Job /\ j.pc = "sweep"
  <2>1. /\ j \in [pc : {"sweep"}, queued : SUBSET Casts, sending : SUBSET Casts]
        /\ j.pc = "sweep"
    BY <1>1, <1>2
  <2> QED BY <2>1 DEF Job
<1>4. /\ UNCHANGED <<recipientsCount, sentCount, failedCount, suppressed, acts, faults, mailed,
                     called>>
      /\ SetStatus(c, "queued") /\ resent' = resent \cup {c}
      /\ Go(w, j)
      /\ overrun' = IF status[c] # "sending" THEN overrun \cup {c} ELSE overrun
      /\ crowded' = (crowded \/ status[c] # "sending")
  <2>1. Go(w, [worker[w] EXCEPT !.queued = @ \cup {c}, !.sending = @ \ {c}])
    BY DEF Requeue
  <2>2. [worker[w] EXCEPT !.queued = @ \cup {c}, !.sending = @ \ {c}] = j
    BY <1>1, <1>2
  <2>3. Go(w, j)
    BY <2>1, <2>2
  <2> QED BY <2>3 DEF Requeue, counts, limits, Overrun
<1>5. /\ worker' \in [Workers -> Job]
      /\ \A v \in Workers : worker'[v] = IF v = w THEN j ELSE worker[v]
  BY <1>3, <1>4, WorkerSet
<1>6. /\ status' \in [Casts -> CastStatus] /\ stale' \subseteq Casts
      /\ \A x \in Casts : status'[x] = IF x = c THEN "queued" ELSE status[x]
      /\ Committed' \subseteq Committed \cup {c}
      /\ c \in Committed => Committed' \subseteq Committed
  BY <1>4, StatusSet DEF CastStatus
<1>7. BroadcastsTypeOK'
  <2>1. crowded' \in BOOLEAN
    BY <1>4 DEF BroadcastsTypeOK
  <2>2. overrun' \subseteq Casts /\ resent' \subseteq Casts
    BY <1>4 DEF BroadcastsTypeOK
  <2> QED BY <1>4, <1>5, <1>6, <2>1, <2>2 DEF BroadcastsTypeOK
<1>8. CastsOK'
  <2>1. j.pc \notin Dispatching
    BY <1>3 DEF Dispatching
  <2>2. \A x \in Casts : x # c =>
           /\ status'[x] = status[x] /\ sentCount'[x] = sentCount[x]
           /\ failedCount'[x] = failedCount[x] /\ recipientsCount'[x] = recipientsCount[x]
           /\ mailed'[x] = mailed[x]
    BY <1>4, <1>6
  <2>3. resent \subseteq resent' /\ c \in resent'
    BY <1>4
  <2> QED BY <1>3, <1>4, <2>1, <2>2, <2>3, RowStep
<1>9. CalledOK'
  <2>1. "queued" \in CastStatus /\ "queued" # "none"
    BY DEF CastStatus
  <2>2. overrun \subseteq overrun' /\ (status[c] = "cancelled" => c \in overrun')
    BY <1>4
  <2> QED BY <1>4, <2>1, <2>2, CalledKept
<1>10. QuotaOK'
  <2>1. crowded' \/ Committed' \subseteq Committed
    BY <1>4, <1>6 DEF Committed
  <2>2. \E x : Committed' \subseteq Committed \cup {x}
    BY <1>6
  <2>3. \A v \in Workers : Doing(v, "create")' => Doing(v, "create")
    BY <1>3, <1>4, NobodyComposes
  <2>4. crowded => crowded'
    BY <1>4
  <2> QED BY <2>1, <2>2, <2>3, <2>4, QuotaKept
<1> QED BY <1>7, <1>8, <1>9, <1>10

LEMMA KickOffKeeps ==
  ASSUME BroadcastsInv, NEW w \in Workers, NEW v \in Workers, NEW c \in Casts, KickOff(w, v, c)
  PROVE  BroadcastsInv'
<1> USE DEF BroadcastsInv
<1>1. PICK queued \in SUBSET Casts :
        /\ worker[w] \in [pc : {"sweep"}, queued : SUBSET Casts, sending : SUBSET Casts]
        /\ queued = worker[w].queued \ {c}
  <2>1. worker[w] \in [pc : {"sweep"}, queued : SUBSET Casts, sending : SUBSET Casts]
    BY DEF KickOff, Doing, BroadcastsTypeOK, Job, Idle
  <2>2. worker[w].queued \in SUBSET Casts
    BY <2>1
  <2>3. worker[w].queued \ {c} \in SUBSET Casts
    BY <2>2
  <2> QED BY <2>1, <2>3
<1>2. PICK rest : rest = [worker[w] EXCEPT !.queued = queued]
  OBVIOUS
<1>3. rest \in Job /\ rest.pc = "sweep"
  <2>1. /\ rest \in [pc : {"sweep"}, queued : SUBSET Casts, sending : SUBSET Casts]
        /\ rest.pc = "sweep"
    BY <1>1, <1>2
  <2> QED BY <2>1 DEF Job
<1>4. PICK i \in {Idle, rest} : i = IF rest.queued = {} /\ rest.sending = {} THEN Idle ELSE rest
  OBVIOUS
<1>5. PICK k \in Job : k = [pc |-> "kicked", cast |-> c] /\ k.pc = "kicked" /\ k.cast = c
  BY WorkerJobs
<1>6. worker' = [worker EXCEPT ![w] = i, ![v] = k]
  BY <1>1, <1>2, <1>4, <1>5 DEF KickOff
<1>7. /\ i \in Job /\ i.pc \in {"idle", "sweep"}
  BY <1>3, <1>4, WorkerJobs
<1>8. /\ worker' \in [Workers -> Job]
      /\ \A u \in Workers : worker'[u] = IF u = v THEN k ELSE IF u = w THEN i ELSE worker[u]
  BY <1>5, <1>6, <1>7 DEF BroadcastsTypeOK
<1>9. /\ UNCHANGED <<status, recipientsCount, sentCount, failedCount, stale, suppressed, acts,
                     faults, mailed, called, overrun, crowded>>
      /\ resent' = resent \cup {c}
  BY DEF KickOff, counts, limits
<1>10. BroadcastsTypeOK'
  <2>1. resent' \subseteq Casts
    BY <1>9 DEF BroadcastsTypeOK
  <2> QED BY <1>8, <1>9, <2>1 DEF BroadcastsTypeOK
<1>11. CastsOK'
  <2>1. resent \subseteq resent' /\ UNCHANGED <<counts, mailed>>
    BY <1>9 DEF counts
  <2>2. \A x \in Casts \ resent' :
           /\ status'[x] = status[x] \/ status'[x] \notin {"none", "sent"}
           /\ \A u \in Workers : Dispatches(u, x)' => worker'[u] = worker[u]
    BY <1>5, <1>7, <1>8, <1>9 DEF Dispatches, Dispatching
  <2> QED BY <2>1, <2>2, CastsKeep
<1>12. CalledOK'
  BY <1>9 DEF CalledOK
<1>13. QuotaOK'
  <2>1. Committed' = Committed /\ crowded' = crowded
    BY <1>9 DEF Committed
  <2>2. \E x : Committed' \subseteq Committed \cup {x}
    BY <2>1
  <2>3. \A u \in Workers : Doing(u, "create")' => Doing(u, "create")
    BY <1>5, <1>7, <1>8 DEF Doing
  <2> QED BY <2>1, <2>2, <2>3, QuotaKept
<1> QED BY <1>10, <1>11, <1>12, <1>13

\* A cancellation takes a broadcast out of the quota; its dispatch goes on till
\* it next looks.
LEMMA CancelKeeps ==
  ASSUME BroadcastsInv, NEW w \in Workers, Cancel(w)
  PROVE  BroadcastsInv'
<1> USE DEF BroadcastsInv
<1>1. PICK c \in Casts :
        /\ worker[w].pc = "cancel" /\ SetStatus(c, "cancelled") /\ called' = called \cup {c}
        /\ Go(w, Idle)
  BY WorkerFields DEF Cancel, Doing, Stop
<1>2. UNCHANGED <<recipientsCount, sentCount, failedCount, suppressed, acts, faults, mailed,
                  resent, overrun, crowded>>
  BY DEF Cancel, counts, limits
<1>3. Idle \in Job /\ Idle.pc = "idle"
  BY WorkerJobs
<1>4. /\ worker' \in [Workers -> Job]
      /\ \A v \in Workers : worker'[v] = IF v = w THEN Idle ELSE worker[v]
  BY <1>1, <1>3, WorkerSet
<1>5. /\ status' \in [Casts -> CastStatus] /\ stale' \subseteq Casts
      /\ \A x \in Casts : status'[x] = IF x = c THEN "cancelled" ELSE status[x]
      /\ Committed' \subseteq Committed
  BY <1>1, StatusSet DEF CastStatus
<1>6. BroadcastsTypeOK'
  <2>1. called' \subseteq Casts
    BY <1>1 DEF BroadcastsTypeOK
  <2> QED BY <1>2, <1>4, <1>5, <2>1 DEF BroadcastsTypeOK
<1>7. CastsOK'
  <2>1. resent \subseteq resent' /\ UNCHANGED <<counts, mailed>>
    BY <1>2 DEF counts
  <2>2. \A x \in Casts \ resent' :
           /\ status'[x] = status[x] \/ status'[x] \notin {"none", "sent"}
           /\ \A u \in Workers : Dispatches(u, x)' => worker'[u] = worker[u]
    BY <1>3, <1>4, <1>5 DEF Dispatches, Dispatching
  <2> QED BY <2>1, <2>2, CastsKeep
<1>8. CalledOK'
  <2>1. \A x \in called : x \in Casts
    BY DEF BroadcastsTypeOK
  <2> QED BY <1>1, <1>2, <1>5, <2>1 DEF CalledOK
<1>9. QuotaOK'
  <2>1. \E x : Committed' \subseteq Committed \cup {x}
    BY <1>5
  <2>2. \A u \in Workers : Doing(u, "create")' => Doing(u, "create")
    BY <1>1, <1>3, NobodyComposes
  <2> QED BY <1>2, <1>5, <2>1, <2>2, QuotaKept
<1> QED BY <1>6, <1>7, <1>8, <1>9

\* No fairness is needed for it.
LEMMA BroadcastsInvAlways == BroadcastsInit /\ [][BroadcastsNext]_castVars => []BroadcastsInv
<1>1. BroadcastsInit => BroadcastsInv
  <2> SUFFICES ASSUME BroadcastsInit PROVE BroadcastsInv
    OBVIOUS
  <2> USE BroadcastsAssumption DEF BroadcastsInit
  <2>1. BroadcastsTypeOK
    <3>1. worker \in [Workers -> Job] /\ status \in [Casts -> CastStatus]
      BY WorkerJobs DEF CastStatus
    <3>2. crowded \in BOOLEAN
      OBVIOUS
    <3> QED BY <3>1, <3>2 DEF BroadcastsTypeOK
  <2>2. \A w \in Workers : worker[w].pc = "idle"
    BY WorkerJobs
  <2>3. CastsOK
    BY <2>2 DEF CastsOK, CastOK, Dispatches, Dispatching
  <2>4. CalledOK
    BY DEF CalledOK
  <2>5. QuotaOK
    <3>1. Committed = {}
      BY DEF Committed
    <3>2. IsFiniteSet(Committed) /\ Cardinality(Committed) = 0
      BY <3>1, FS_EmptySet
    <3> QED BY <2>2, <3>2 DEF QuotaOK, Doing
  <2> QED BY <2>1, <2>3, <2>4, <2>5 DEF BroadcastsInv
<1>2. BroadcastsInv /\ [BroadcastsNext]_castVars => BroadcastsInv'
  <2> SUFFICES ASSUME BroadcastsInv, [BroadcastsNext]_castVars PROVE BroadcastsInv'
    OBVIOUS
  <2>1. CASE UNCHANGED castVars
    <3>1. UNCHANGED <<status, recipientsCount, sentCount, failedCount, stale, suppressed, worker,
                      acts, faults, mailed, resent, called, overrun, crowded>>
      BY <2>1 DEF castVars, counts, limits, history
    <3>2. BroadcastsTypeOK'
      BY <3>1 DEF BroadcastsInv, BroadcastsTypeOK
    <3>3. CastsOK'
      <4>1. ASSUME NEW c \in Casts, CastOK(c) PROVE CastOK(c)'
        BY <3>1, <4>1, CastAside
      <4> QED BY <3>1, <4>1 DEF BroadcastsInv, CastsOK
    <3>4. CalledOK'
      BY <3>1 DEF BroadcastsInv, CalledOK
    <3>5. QuotaOK'
      BY <3>1 DEF BroadcastsInv, QuotaOK, Committed, Doing
    <3> QED BY <3>2, <3>3, <3>4, <3>5 DEF BroadcastsInv
  <2>2. CASE BroadcastsNext
    <3>1. CASE \/ \E w \in Workers : RetryStuck(w) \/ \E c \in Casts : AskCancel(w, c)
               \/ \E c \in Casts : Age(c)
               \/ \E e \in Emails : Suppress(e) \/ Restore(e)
               \/ Crash
      BY <3>1, StillKeeps
    <3>2. ASSUME NEW w \in Workers, Step(w) PROVE BroadcastsInv'
      BY <3>2, CreateKeeps, RequeueKeeps, KickOffKeeps, CancelKeeps, LoadKeeps, ClaimKeeps,
         CheckChunkKeeps, CountChunkKeeps, MarkSentKeeps, MailKeeps DEF Step
    <3>3. ASSUME NEW w \in Workers,
                 Compose(w) \/ Create(w) \/ Cancel(w) \/ DispatchFails(w) \/ MailFails(w)
          PROVE  BroadcastsInv'
      BY <3>3, ComposeKeeps, CreateKeeps, CancelKeeps, DispatchFailsKeeps, MailFailsKeeps
    <3> QED BY <2>2, <3>1, <3>2, <3>3
            DEF BroadcastsNext, BroadcastsController, AdminBroadcastsController
  <2> QED BY <2>1, <2>2
<1> QED BY <1>1, <1>2, PTL

\* The invariant of the broadcasts: what a dispatch has counted and mailed and
\* what it still has to, and room for whoever composes.
THEOREM BroadcastsInvariant == BroadcastsSpec => []BroadcastsInv
BY BroadcastsInvAlways, PTL DEF BroadcastsSpec

LEMMA BroadcastsExplain == BroadcastsInv => BroadcastsExplained
<1> SUFFICES ASSUME BroadcastsInv PROVE BroadcastsExplained
  OBVIOUS
<1> USE DEF BroadcastsInv
<1>1. MailedOnce
  <2> SUFFICES ASSUME NEW c \in Casts \ resent
               PROVE  /\ \A e \in Emails : mailed[c][e] < 2
                      /\ status[c] = "sent" =>
                           sentCount[c] + failedCount[c] = recipientsCount[c]
    BY DEF MailedOnce
  <2>1. CastOK(c) /\ \A e \in Emails : mailed[c][e] \in 0..2
    BY DEF CastsOK, BroadcastsTypeOK
  <2> QED BY <2>1 DEF CastOK
<1>2. CancelHolds
  BY DEF CancelHolds, CalledOK
<1>3. WithinQuota
  BY DEF WithinQuota, QuotaOK
<1> QED BY <1>1, <1>2, <1>3 DEF BroadcastsExplained

\* Whoever composes, dispatches, cancels, sweeps and crashes meanwhile: nobody is
\* mailed a broadcast twice and every addressee is counted once, unless the sweep
\* took the broadcast up again; a cancellation holds unless it is overwritten on
\* stale news; and the quota is kept unless two composed at once.
THEOREM BroadcastsAreExplained == BroadcastsSpec => []BroadcastsExplained
BY BroadcastsInvariant, BroadcastsExplain, PTL

----------------------------------------------------------------------------
(* Announcements *)

\* Task t delivers announcement a.
Delivering == {"deliver", "fan", "finish"}
Delivers(t, a) == t.pc \in Delivering /\ t.notice = a

\* What a delivery has reached so far, and in which order.
DeliveryOK(t, a) ==
  /\ t.email + t.failed + Cardinality(t.chunk) = t.recipients
  /\ \A u \in Users : u > t.cursor => received[a][u] = 0
  /\ \A u \in t.chunk : u > t.cursor
  /\ owed[a] \subseteq Segment(t.consent)
  /\ a \notin skipped =>
       /\ \A u \in owed[a] : u <= t.cursor => received[a][u] = 1
       /\ \A u \in owed[a], v \in t.chunk : t.cursor < u /\ u <= v => u \in t.chunk
       /\ Cardinality(t.chunk) < UserChunk /\ t.pc # "deliver" =>
            \A u \in owed[a] : t.cursor < u => u \in t.chunk

\* An announcement written on fresh news only is delivered by one task, once.
NoticeOK(a) ==
  /\ \A u \in Users : received[a][u] <= 1
  /\ notice[a] \notin {"sending", "sent", "failed"} =>
       \A u \in Users : received[a][u] = 0
  /\ notice[a] # "sending" => \A i \in Admins : ~Delivers(task[i], a)
  /\ (notice[a] = "sent" /\ a \notin skipped) =>
       /\ \A u \in owed[a] : received[a][u] = 1
       /\ tally[a].email + tally[a].failed = tally[a].recipients
  /\ \A i \in Admins : Delivers(task[i], a) =>
       DeliveryOK(task[i], a) /\ \A k \in Admins : Delivers(task[k], a) => k = i

NoticesOK == \A a \in Notices \ doubled : NoticeOK(a)

\* A task has a chunk at hand while it fans it out.
ChunksOK ==
  \A i \in Admins : task[i].pc \in Delivering => ((task[i].pc = "fan") <=> (task[i].chunk # {}))

AnnouncementsInv == AnnouncementsTypeOK /\ NoticesOK /\ ChunksOK

\* What a task carries.
LEMMA TaskFields ==
  ASSUME AnnouncementsTypeOK, NEW i \in Admins
  PROVE  /\ task[i] \in Task
         /\ task[i].pc # "rest" => task[i].notice \in Notices
         /\ task[i].pc \in Delivering =>
              /\ task[i] \in [pc : {"deliver", "fan", "finish"}, notice : Notices,
                              consent : BOOLEAN, cursor : 0..Readers, chunk : SUBSET Users,
                              recipients : Nat, email : Nat, failed : Nat]
              /\ task[i].consent \in BOOLEAN /\ task[i].cursor \in 0..Readers
              /\ task[i].chunk \in SUBSET Users /\ task[i].recipients \in Nat
              /\ task[i].email \in Nat /\ task[i].failed \in Nat
  BY DEF AnnouncementsTypeOK, Task, Resting, Delivering

LEMMA TaskJobs ==
  /\ Resting \in Task /\ Resting.pc = "rest"
  /\ \A a \in Notices, pc \in {"update", "remove", "schedule", "cancel", "send"} :
       [pc |-> pc, notice |-> a] \in Task
  BY DEF Task, Resting

\* One task goes on, the others are where they were.
LEMMA TaskSet ==
  ASSUME AnnouncementsTypeOK, NEW i \in Admins, NEW t \in Task, Set(i, t)
  PROVE  /\ task' \in [Admins -> Task]
         /\ \A k \in Admins : task'[k] = IF k = i THEN t ELSE task[k]
  BY DEF AnnouncementsTypeOK, Set

LEMMA NoticeSet ==
  ASSUME AnnouncementsTypeOK, NEW a \in Notices, NEW s \in NoticeStatus, Become(a, s)
  PROVE  /\ notice' \in [Notices -> NoticeStatus]
         /\ \A b \in Notices : notice'[b] = IF b = a THEN s ELSE notice[b]
  BY DEF AnnouncementsTypeOK, Become

LEMMA UsersFinite ==
  ASSUME NEW S \in SUBSET Users
  PROVE  IsFiniteSet(S) /\ Cardinality(S) \in Nat
<1>1. IsFiniteSet(Users)
  BY AnnouncementsAssumption, FS_Interval DEF Users
<1>2. IsFiniteSet(S)
  BY <1>1, FS_Subset
<1> QED BY <1>2, FS_CardinalityType

LEMMA LeastOf ==
  ASSUME NEW S \in SUBSET Users, S # {}
  PROVE  Least(S) \in S /\ \A v \in S : Least(S) <= v
<1> DEFINE id == [u \in S |-> u]
<1>1. \A u \in S : id[u] \in Int
  BY AnnouncementsAssumption DEF Users
<1>2. IsFiniteSet(S)
  BY UsersFinite
<1>3. \E m \in S : \A u \in S : id[m] <= id[u]
  <2> HIDE DEF id
  <2> QED BY <1>1, <1>2, LeastValue
<1>4. \E m \in S : \A u \in S : m <= u
  BY <1>3
<1> QED BY <1>4 DEF Least

LEMMA GreatestOf ==
  ASSUME NEW S \in SUBSET Users, S # {}
  PROVE  Greatest(S) \in S /\ \A v \in S : v <= Greatest(S)
<1> DEFINE id == [u \in S |-> -u]
<1>1. \A u \in S : id[u] \in Int
  BY AnnouncementsAssumption DEF Users
<1>2. IsFiniteSet(S)
  BY UsersFinite
<1>3. \E m \in S : \A u \in S : id[m] <= id[u]
  <2> HIDE DEF id
  <2> QED BY <1>1, <1>2, LeastValue
<1>4. \E m \in S : \A u \in S : u <= m
  <2>1. PICK m \in S : \A u \in S : id[m] <= id[u]
    BY <1>3
  <2>2. ASSUME NEW u \in S PROVE u <= m
    <3>1. -m <= -u
      BY <2>1
    <3>2. m \in Int /\ u \in Int
      BY AnnouncementsAssumption DEF Users
    <3> QED BY <3>1, <3>2
  <2> QED BY <2>2
<1> QED BY <1>4 DEF Greatest

\* The first rows are rows, no row is passed over, some row is among them if
\* there is any, and all are if they do not fill a chunk.
LEMMA FirstRows ==
  ASSUME NEW R \in SUBSET Users
  PROVE  /\ First(R) \in SUBSET R
         /\ \A u \in First(R), v \in R : v <= u => v \in First(R)
         /\ R # {} => First(R) # {}
         /\ Cardinality(First(R)) < UserChunk => First(R) = R
<1> DEFINE Before(u) == {v \in R : v < u}
<1>1. \A u \in R : Before(u) \in SUBSET Users
  OBVIOUS
<1>2. UserChunk \in Nat \ {0} /\ \A x \in R : x \in Int
  BY AnnouncementsAssumption DEF Users
<1>3. First(R) \in SUBSET R
  BY DEF First
<1>4. ASSUME NEW u \in First(R), NEW v \in R, v <= u PROVE v \in First(R)
  <2>1. Before(v) \subseteq Before(u)
    <3> SUFFICES ASSUME NEW x \in R, x < v PROVE x < u
      OBVIOUS
    <3>1. x \in Int /\ v \in Int /\ u \in Int
      BY <1>2, <1>3
    <3> QED BY <1>4, <3>1
  <2>2. /\ IsFiniteSet(Before(u)) /\ Cardinality(Before(u)) \in Nat
        /\ Cardinality(Before(v)) \in Nat
    <3>1. Before(u) \in SUBSET Users /\ Before(v) \in SUBSET Users
      BY <1>1, <1>3, <1>4
    <3> HIDE DEF Before
    <3> QED BY <3>1, UsersFinite
  <2>3. Cardinality(Before(v)) <= Cardinality(Before(u))
    <3> HIDE DEF Before
    <3> QED BY <2>1, <2>2, FS_Subset
  <2>4. Cardinality(Before(u)) < UserChunk
    BY DEF First
  <2>5. Cardinality(Before(v)) < UserChunk
    <3> HIDE DEF Before
    <3> QED BY <1>2, <2>2, <2>3, <2>4
  <2> QED BY <2>5 DEF First
<1>5. ASSUME R # {} PROVE First(R) # {}
  <2>1. Least(R) \in R /\ \A v \in R : Least(R) <= v
    BY <1>5, LeastOf
  <2>2. Before(Least(R)) = {}
    <3> SUFFICES ASSUME NEW x \in R, x < Least(R) PROVE FALSE
      OBVIOUS
    <3>1. x \in Int /\ Least(R) \in Int /\ Least(R) <= x
      BY <1>2, <2>1
    <3> QED BY <3>1
  <2>3. Cardinality(Before(Least(R))) < UserChunk
    <3>1. Cardinality({}) = 0 /\ 0 < UserChunk
      BY <1>2, FS_EmptySet
    <3> HIDE DEF Before
    <3> QED BY <2>2, <3>1
  <2> QED BY <2>1, <2>3 DEF First
<1>6. ASSUME Cardinality(First(R)) < UserChunk, First(R) # R PROVE FALSE
  <2> DEFINE L == R \ First(R)
  <2>1. L \in SUBSET Users /\ L # {}
    BY <1>3, <1>6
  <2>2. PICK u \in L : \A v \in L : u <= v
    <3> HIDE DEF L
    <3> QED BY <2>1, LeastOf
  <2>3. Before(u) \subseteq First(R)
    <3> SUFFICES ASSUME NEW x \in R, x < u, x \notin First(R) PROVE FALSE
      OBVIOUS
    <3>1. x \in Int /\ u \in Int /\ u <= x
      BY <1>2, <2>2
    <3> QED BY <3>1
  <2>4. /\ IsFiniteSet(First(R)) /\ Cardinality(First(R)) \in Nat
        /\ Cardinality(Before(u)) \in Nat
    <3>1. Before(u) \in SUBSET Users /\ First(R) \in SUBSET Users
      BY <1>1, <1>3
    <3> HIDE DEF Before
    <3> QED BY <3>1, UsersFinite
  <2>5. Cardinality(Before(u)) <= Cardinality(First(R))
    <3> HIDE DEF Before
    <3> QED BY <2>3, <2>4, FS_Subset
  <2>6. Cardinality(Before(u)) < UserChunk
    <3> HIDE DEF Before
    <3> QED BY <1>2, <1>6, <2>4, <2>5
  <2> QED BY <2>6 DEF First
<1> QED BY <1>3, <1>4, <1>5, <1>6

\* An announcement nobody delivers in this step; its audience may shrink.
LEMMA NoticeAside ==
  ASSUME NEW a \in Notices, NoticeOK(a),
         \/ notice'[a] = notice[a]
         \/ /\ notice[a] \notin {"sending", "sent", "failed"}
            /\ notice'[a] \notin {"sending", "sent", "failed"},
         tally'[a] = tally[a], received'[a] = received[a], owed'[a] \subseteq owed[a],
         \A k \in BOOLEAN : owed[a] \subseteq Segment(k) => owed'[a] \subseteq Segment(k)',
         a \in skipped => a \in skipped',
         \A i \in Admins : Delivers(task[i], a)' =>
           task'[i] = task[i] /\ task[i].consent \in BOOLEAN
  PROVE  NoticeOK(a)'
<1>1. \A i \in Admins : Delivers(task[i], a)' => Delivers(task[i], a)
  BY DEF Delivers
<1>2. ASSUME NEW i \in Admins, Delivers(task[i], a)'
      PROVE  DeliveryOK(task[i], a)' /\ \A k \in Admins : Delivers(task[k], a)' => k = i
  <2>1. Delivers(task[i], a) /\ task'[i] = task[i] /\ task[i].consent \in BOOLEAN
    BY <1>1, <1>2
  <2>2. PICK t : t = task[i]
    OBVIOUS
  <2>3. DeliveryOK(t, a) /\ t.consent \in BOOLEAN
    BY <2>1, <2>2 DEF NoticeOK
  <2>4. DeliveryOK(t, a)'
    BY <2>3 DEF DeliveryOK
  <2> QED BY <1>1, <2>1, <2>2, <2>4 DEF NoticeOK
<1>3. notice'[a] # "sending" => \A i \in Admins : ~Delivers(task[i], a)'
  BY <1>1 DEF NoticeOK
<1>4. (notice'[a] = "sent" /\ a \notin skipped') =>
        /\ \A u \in owed'[a] : received'[a][u] = 1
        /\ tally'[a].email + tally'[a].failed = tally'[a].recipients
  BY DEF NoticeOK
<1> QED BY <1>2, <1>3, <1>4 DEF NoticeOK

\* The step of a task that does not deliver, or no longer, on any row.
LEMMA NoticesAside ==
  ASSUME AnnouncementsTypeOK, NoticesOK, doubled \subseteq doubled', skipped' = skipped,
         received' = received, tally' = tally,
         \A a \in Notices \ doubled' :
           \/ notice'[a] = notice[a]
           \/ /\ notice[a] \notin {"sending", "sent", "failed"}
              /\ notice'[a] \notin {"sending", "sent", "failed"},
         \/ UNCHANGED <<owed, users>>
         \/ \E u \in Users : Left(u) /\ \A k \in BOOLEAN : Segment(k) \ {u} \subseteq Segment(k)',
         \A i \in Admins : task'[i] = task[i] \/ task'[i].pc \notin Delivering
  PROVE  NoticesOK'
<1> SUFFICES ASSUME NEW a \in Notices \ doubled' PROVE NoticeOK(a)'
  BY DEF NoticesOK
<1>1. NoticeOK(a)
  BY DEF NoticesOK
<1>2. /\ owed'[a] \subseteq owed[a]
      /\ \A k \in BOOLEAN : owed[a] \subseteq Segment(k) => owed'[a] \subseteq Segment(k)'
  <2>1. CASE UNCHANGED <<owed, users>>
    BY <2>1 DEF Segment, users
  <2>2. CASE \E u \in Users : Left(u) /\ \A k \in BOOLEAN : Segment(k) \ {u} \subseteq Segment(k)'
    <3>1. PICK u \in Users : Left(u) /\ \A k \in BOOLEAN : Segment(k) \ {u} \subseteq Segment(k)'
      BY <2>2
    <3>2. owed'[a] = owed[a] \ {u}
      BY <3>1 DEF Left
    <3> QED BY <3>1, <3>2
  <2> QED BY <2>1, <2>2
<1>3. \A i \in Admins : Delivers(task[i], a)' =>
        task'[i] = task[i] /\ task[i].consent \in BOOLEAN
  BY TaskFields DEF Delivers
<1> QED BY <1>1, <1>2, <1>3, NoticeAside

\* Steps of the drafts' service, of the schedule and of the users.
LEMMA DraftsKeep ==
  ASSUME AnnouncementsInv,
         \/ AnnouncementsController
         \/ \E a \in Notices : ComesDue(a) \/ \E i \in Admins : RunDue(i, a)
         \/ \E i \in Admins : ClaimGone(i)
         \/ SenderCrash
  PROVE  AnnouncementsInv'
<1> USE DEF AnnouncementsInv
<1>1. UNCHANGED <<present, account, optIn, tally, received, owed, doubled, skipped>>
  BY DEF AnnouncementsController, CreateNotice, AskSend, AssertDraft, ComesDue, RunDue, ClaimGone,
         SenderCrash, users, sendHistory
<1>2. edits' \in 0..MaxEdits
  <2>1. Edit \/ edits' = edits
    BY DEF AnnouncementsController, CreateNotice, AskSend, AssertDraft, ComesDue, RunDue,
           ClaimGone, SenderCrash
  <2> QED BY <2>1, AnnouncementsAssumption DEF Edit, AnnouncementsTypeOK
<1>3. /\ notice' \in [Notices -> NoticeStatus]
      /\ due' \subseteq Notices /\ marketing' \subseteq Notices
      /\ \A a \in Notices : notice'[a] = notice[a] \/ (notice[a] = "none" /\ notice'[a] = "draft")
  <2>1. CASE \E a \in Notices, k \in BOOLEAN : CreateNotice(a, k)
    <3>1. PICK a \in Notices, k \in BOOLEAN : CreateNotice(a, k)
      BY <2>1
    <3>2. notice[a] = "none" /\ Become(a, "draft") /\ "draft" \in NoticeStatus
      BY <3>1 DEF CreateNotice, NoticeStatus
    <3>3. due' \subseteq Notices /\ marketing' \subseteq Notices
      BY <3>1 DEF CreateNotice, AnnouncementsTypeOK
    <3> QED BY <3>2, <3>3, NoticeSet
  <2>2. CASE UNCHANGED <<notice, marketing>> /\ due' \subseteq Notices
    BY <2>2 DEF AnnouncementsTypeOK
  <2>3. \/ \E a \in Notices, k \in BOOLEAN : CreateNotice(a, k)
        \/ UNCHANGED <<notice, marketing>> /\ due' \subseteq Notices
    BY DEF AnnouncementsController, AskSend, AssertDraft, ComesDue, RunDue, ClaimGone,
           SenderCrash, AnnouncementsTypeOK
  <2> QED BY <2>1, <2>2, <2>3
<1>4. /\ task' \in [Admins -> Task]
      /\ \A i \in Admins : task'[i] = task[i] \/ task'[i].pc \notin Delivering
  <2>1. CASE UNCHANGED task
    BY <2>1 DEF AnnouncementsTypeOK
  <2>2. CASE SenderCrash
    BY <2>2, TaskJobs DEF SenderCrash, Delivering
  <2>3. CASE \E i \in Admins, t \in Task : Set(i, t) /\ t.pc \notin Delivering
    BY <2>3, TaskSet
  <2>4. ASSUME NEW i \in Admins, NEW a \in Notices,
               \/ AskSend(i, a) \/ RunDue(i, a) \/ ClaimGone(i)
               \/ \E pc \in {"update", "remove", "schedule", "cancel"} : AssertDraft(i, a, pc)
        PROVE  \E t \in Task : Set(i, t) /\ t.pc \notin Delivering
    <3>1. CASE ClaimGone(i)
      <4>1. Set(i, Resting) /\ Resting \in Task /\ Resting.pc \notin Delivering
        BY <3>1, TaskJobs DEF ClaimGone, Rest, Delivering
      <4> QED BY <4>1
    <3>2. CASE ~ClaimGone(i)
      <4>1. PICK pc \in {"update", "remove", "schedule", "cancel", "send"} :
              Set(i, [pc |-> pc, notice |-> a])
        BY <2>4, <3>2 DEF AskSend, RunDue, AssertDraft
      <4>2. PICK t \in Task : t = [pc |-> pc, notice |-> a] /\ t.pc = pc
        BY TaskJobs
      <4> QED BY <4>1, <4>2 DEF Delivering
    <3> QED BY <3>1, <3>2
  <2>5. CASE \E i \in Admins : ClaimGone(i)
    <3>1. PICK i \in Admins : ClaimGone(i)
      BY <2>5
    <3>2. Set(i, Resting) /\ Resting \in Task /\ Resting.pc \notin Delivering
      BY <3>1, TaskJobs DEF ClaimGone, Rest, Delivering
    <3> QED BY <2>3, <3>2
  <2>6. CASE AnnouncementsController
    <3>1. UNCHANGED task \/ \E i \in Admins, a \in Notices :
             \/ AskSend(i, a)
             \/ \E pc \in {"update", "remove", "schedule", "cancel"} : AssertDraft(i, a, pc)
      BY <2>6 DEF AnnouncementsController, CreateNotice
    <3> QED BY <2>1, <2>3, <2>4, <3>1
  <2>7. CASE \E a \in Notices : ComesDue(a) \/ \E i \in Admins : RunDue(i, a)
    <3>1. UNCHANGED task \/ \E i \in Admins, a \in Notices : RunDue(i, a)
      BY <2>7 DEF ComesDue
    <3> QED BY <2>1, <2>3, <2>4, <3>1
  <2> QED BY <2>2, <2>5, <2>6, <2>7
<1>5. AnnouncementsTypeOK'
  BY <1>1, <1>2, <1>3, <1>4 DEF AnnouncementsTypeOK
<1>6. NoticesOK'
  <2>1. UNCHANGED <<owed, users>> /\ doubled \subseteq doubled'
    BY <1>1 DEF users
  <2>2. \A a \in Notices \ doubled' :
           \/ notice'[a] = notice[a]
           \/ /\ notice[a] \notin {"sending", "sent", "failed"}
              /\ notice'[a] \notin {"sending", "sent", "failed"}
    BY <1>3
  <2> QED BY <1>1, <1>4, <2>1, <2>2, NoticesAside
<1>7. ChunksOK'
  BY <1>4 DEF ChunksOK
<1> QED BY <1>5, <1>6, <1>7

\* A write by the id changes an announcement that is not sent yet, or is on record.
LEMMA WritesKeep ==
  ASSUME AnnouncementsInv, NEW i \in Admins, WriteNotice(i)
  PROVE  AnnouncementsInv'
<1> USE DEF AnnouncementsInv
<1>1. /\ task[i].pc \in {"update", "remove", "schedule", "cancel"} /\ task[i].notice \in Notices
      /\ UNCHANGED <<due, present, account, optIn, tally, edits, received, owed, skipped>>
      /\ marketing' \subseteq Notices
      /\ Set(i, Resting)
  <2>1. task[i].pc \in {"update", "remove", "schedule", "cancel"}
    BY DEF WriteNotice, UpdateNotice, RemoveNotice, ScheduleNotice, CancelNotice, Write, Busy
  <2>2. task[i].notice \in Notices
    BY <2>1, TaskFields
  <2>3. UNCHANGED <<due, present, account, optIn, tally, edits, received, owed, skipped>>
        /\ Set(i, Resting)
    BY DEF WriteNotice, UpdateNotice, RemoveNotice, ScheduleNotice, CancelNotice, Write, Rest, users
  <2>4. marketing' \subseteq Notices
    BY <2>2 DEF WriteNotice, UpdateNotice, RemoveNotice, ScheduleNotice, CancelNotice,
                AnnouncementsTypeOK
  <2> QED BY <2>1, <2>2, <2>3, <2>4
<1>2. PICK a \in Notices : a = task[i].notice
  BY <1>1
<1>3. PICK s \in NoticeStatus, expected \in SUBSET NoticeStatus :
        /\ IF notice[a] = "gone" THEN UNCHANGED notice ELSE Become(a, s)
        /\ doubled' = IF notice[a] \in expected \cup {"gone"} THEN doubled ELSE doubled \cup {a}
        /\ \/ s = notice[a]
           \/ /\ expected \subseteq {"draft", "scheduled"}
              /\ s \in {"gone", "scheduled", "cancelled"}
  <2>1. /\ notice[a] \in NoticeStatus /\ NoticeStatus \in SUBSET NoticeStatus
        /\ {"gone", "scheduled", "cancelled", "draft"} \subseteq NoticeStatus
    BY DEF AnnouncementsTypeOK, NoticeStatus
  <2>2. CASE \E k \in BOOLEAN : UpdateNotice(i, k)
    BY <1>2, <2>1, <2>2 DEF UpdateNotice, Write
  <2>3. CASE RemoveNotice(i)
    <3>1. {"draft"} \in SUBSET NoticeStatus /\ "gone" \in NoticeStatus
      BY <2>1
    <3> QED BY <1>2, <2>3, <3>1 DEF RemoveNotice, Write
  <2>4. CASE ScheduleNotice(i)
    <3>1. {"draft"} \in SUBSET NoticeStatus /\ "scheduled" \in NoticeStatus
      BY <2>1
    <3> QED BY <1>2, <2>4, <3>1 DEF ScheduleNotice, Write
  <2>5. CASE CancelNotice(i)
    <3>1. {"draft", "scheduled"} \in SUBSET NoticeStatus /\ "cancelled" \in NoticeStatus
      BY <2>1
    <3> QED BY <1>2, <2>5, <3>1 DEF CancelNotice, Write
  <2> QED BY <2>2, <2>3, <2>4, <2>5 DEF WriteNotice
<1>4. /\ notice' \in [Notices -> NoticeStatus]
      /\ \A b \in Notices : notice'[b] = IF b = a /\ notice[a] # "gone" THEN s ELSE notice[b]
  BY <1>3, NoticeSet DEF AnnouncementsTypeOK
<1>5. /\ task' \in [Admins -> Task]
      /\ \A k \in Admins : task'[k] = task[k] \/ task'[k].pc \notin Delivering
  BY <1>1, TaskJobs, TaskSet DEF Delivering
<1>6. AnnouncementsTypeOK'
  <2>1. doubled' \subseteq Notices
    BY <1>3 DEF AnnouncementsTypeOK
  <2> QED BY <1>1, <1>4, <1>5, <2>1 DEF AnnouncementsTypeOK
<1>7. NoticesOK'
  <2>1. UNCHANGED <<owed, users>> /\ doubled \subseteq doubled'
    BY <1>1, <1>3 DEF users
  <2>2. \A b \in Notices \ doubled' :
           \/ notice'[b] = notice[b]
           \/ /\ notice[b] \notin {"sending", "sent", "failed"}
              /\ notice'[b] \notin {"sending", "sent", "failed"}
    BY <1>3, <1>4
  <2> QED BY <1>1, <1>5, <2>1, <2>2, NoticesAside
<1>8. ChunksOK'
  BY <1>5 DEF ChunksOK
<1> QED BY <1>6, <1>7, <1>8

\* Who leaves is owed nothing more.
LEMMA ReadersKeep ==
  ASSUME AnnouncementsInv, NEW u \in Users,
         UnsubscribeMarketing(u) \/ SuspendReader(u) \/ DeleteReader(u)
  PROVE  AnnouncementsInv'
<1> USE DEF AnnouncementsInv
<1> USE DEF UnsubscribeMarketing, SuspendReader, DeleteReader
<1>1. /\ UNCHANGED <<notice, due, marketing, tally, task, received, doubled, skipped>>
      /\ Left(u)
  OBVIOUS
<1>2. edits' \in 0..MaxEdits
  BY AnnouncementsAssumption DEF Edit, AnnouncementsTypeOK
<1>3. /\ present' \subseteq account' /\ account' \subseteq Users /\ optIn' \subseteq account'
      /\ present \ {u} \subseteq present' /\ optIn \ {u} \subseteq optIn'
  BY DEF AnnouncementsTypeOK
<1>4. owed' \in [Notices -> SUBSET Users]
  BY <1>1 DEF Left, AnnouncementsTypeOK
<1>5. AnnouncementsTypeOK'
  BY <1>1, <1>2, <1>3, <1>4 DEF AnnouncementsTypeOK
<1>6. NoticesOK'
  <2>1. \A k \in BOOLEAN : Segment(k) \ {u} \subseteq Segment(k)'
    BY <1>3 DEF Segment
  <2> HIDE DEF UnsubscribeMarketing, SuspendReader, DeleteReader
  <2>2. \A i \in Admins : task'[i] = task[i] \/ task'[i].pc \notin Delivering
    BY <1>1
  <2>3. \A a \in Notices \ doubled' : notice'[a] = notice[a]
    BY <1>1
  <2> QED BY <1>1, <2>1, <2>2, <2>3, NoticesAside
<1>7. ChunksOK'
  BY <1>1 DEF ChunksOK
<1> QED BY <1>5, <1>6, <1>7

\* A task goes on with one announcement, whose row alone changes.
LEMMA RowChanges ==
  ASSUME AnnouncementsTypeOK, NoticesOK, NEW i \in Admins, NEW a \in Notices, NEW t \in Task,
         Set(i, t), t.pc \in Delivering => t.notice = a,
         doubled \subseteq doubled', UNCHANGED <<present, account, optIn>>,
         \A b \in Notices : b # a =>
           /\ notice'[b] = notice[b] /\ tally'[b] = tally[b] /\ received'[b] = received[b]
           /\ owed'[b] = owed[b] /\ (b \in skipped => b \in skipped'),
         a \in doubled' \/ NoticeOK(a)'
  PROVE  NoticesOK'
<1> SUFFICES ASSUME NEW b \in Notices \ doubled', b # a PROVE NoticeOK(b)'
  BY DEF NoticesOK
<1>1. NoticeOK(b)
  BY DEF NoticesOK
<1>2. \A k \in Admins : task'[k] = IF k = i THEN t ELSE task[k]
  BY TaskSet
<1>3. \A k \in Admins : Delivers(task[k], b)' =>
        task'[k] = task[k] /\ task[k].consent \in BOOLEAN
  BY <1>2, TaskFields DEF Delivers
<1>4. \A k \in BOOLEAN : owed[b] \subseteq Segment(k) => owed'[b] \subseteq Segment(k)'
  BY DEF Segment
<1> QED BY <1>1, <1>3, <1>4, NoticeAside

\* The delivery of an announcement goes on.
LEMMA DeliveryGoesOn ==
  ASSUME NEW a \in Notices, NoticeOK(a), NEW i \in Admins, NEW t,
         Delivers(task[i], a), task'[i] = t, Delivers(t, a),
         \A k \in Admins : k # i => task'[k] = task[k],
         notice'[a] = notice[a], \A u \in Users : received'[a][u] <= 1,
         DeliveryOK(t, a)'
  PROVE  NoticeOK(a)'
<1>1. notice[a] = "sending" /\ \A k \in Admins : Delivers(task[k], a) => k = i
  BY DEF NoticeOK
<1>2. \A k \in Admins : Delivers(task[k], a)' => k = i
  BY <1>1 DEF Delivers
<1>3. DeliveryOK(task[i], a)'
  OBVIOUS
<1> QED BY <1>1, <1>2, <1>3 DEF NoticeOK

\* The delivery of an announcement is over.
LEMMA DeliveryOver ==
  ASSUME NEW a \in Notices, NoticeOK(a), NEW i \in Admins, Delivers(task[i], a),
         task'[i] = Resting, \A k \in Admins : k # i => task'[k] = task[k],
         notice'[a] \in {"sent", "failed"}, received' = received,
         (notice'[a] = "sent" /\ a \notin skipped') =>
           /\ \A u \in owed'[a] : received[a][u] = 1
           /\ tally'[a].email + tally'[a].failed = tally'[a].recipients
  PROVE  NoticeOK(a)'
<1>1. \A k \in Admins : Delivers(task[k], a) => k = i
  BY DEF NoticeOK
<1>2. \A k \in Admins : ~Delivers(task[k], a)'
  BY <1>1, TaskJobs DEF Delivers, Delivering
<1> QED BY <1>2 DEF NoticeOK

\* A claim on fresh news is the first.
LEMMA ClaimNoticeKeeps ==
  ASSUME AnnouncementsInv, NEW i \in Admins, ClaimNotice(i)
  PROVE  AnnouncementsInv'
<1> USE DEF AnnouncementsInv
<1>1. PICK a \in Notices : a = task[i].notice
  BY TaskFields DEF ClaimNotice, Busy
<1>2. PICK consent \in BOOLEAN : consent <=> a \in marketing
  OBVIOUS
<1> DEFINE j == [pc |-> "deliver", notice |-> a, consent |-> consent, cursor |-> 0,
                 chunk |-> {}, recipients |-> 0, email |-> 0, failed |-> 0]
<1>3. PICK t \in Task :
        /\ t = j /\ t.pc = "deliver" /\ t.notice = a /\ t.consent = consent /\ t.cursor = 0
        /\ t.chunk = {} /\ t.recipients = 0 /\ t.email = 0 /\ t.failed = 0
  <2>1. 0 \in 0..Readers
    BY AnnouncementsAssumption
  <2>2. j \in Task
    BY <2>1 DEF Task
  <2> QED BY <2>2
<1>4. /\ UNCHANGED <<due, marketing, present, account, optIn, tally, edits, received, skipped>>
      /\ Become(a, "sending") /\ Set(i, t)
      /\ doubled' = IF notice[a] \in {"draft", "scheduled"} THEN doubled ELSE doubled \cup {a}
      /\ owed' = [owed EXCEPT ![a] = Segment(consent)]
  BY <1>1, <1>2, <1>3 DEF ClaimNotice, users
<1>5. /\ notice' \in [Notices -> NoticeStatus]
      /\ \A b \in Notices : notice'[b] = IF b = a THEN "sending" ELSE notice[b]
  BY <1>4, NoticeSet DEF NoticeStatus
<1>6. /\ task' \in [Admins -> Task]
      /\ \A k \in Admins : task'[k] = IF k = i THEN t ELSE task[k]
  BY <1>4, TaskSet
<1>7. /\ owed' \in [Notices -> SUBSET Users] /\ owed'[a] = Segment(consent)
      /\ \A b \in Notices : b # a => owed'[b] = owed[b]
  <2>1. Segment(consent) \in SUBSET Users
    BY DEF Segment, AnnouncementsTypeOK
  <2> QED BY <1>4, <2>1 DEF AnnouncementsTypeOK
<1>8. AnnouncementsTypeOK'
  <2>1. doubled' \subseteq Notices
    BY <1>4 DEF AnnouncementsTypeOK
  <2> QED BY <1>4, <1>5, <1>6, <1>7, <2>1 DEF AnnouncementsTypeOK
<1>9. a \in doubled' \/ NoticeOK(a)'
  <2> SUFFICES ASSUME a \notin doubled' PROVE NoticeOK(a)'
    OBVIOUS
  <2>1. NoticeOK(a) /\ notice[a] \in {"draft", "scheduled"}
    BY <1>4 DEF NoticesOK
  <2>2. /\ \A u \in Users : received[a][u] = 0
        /\ \A k \in Admins : ~Delivers(task[k], a)
    BY <2>1 DEF NoticeOK
  <2>3. \A k \in Admins : Delivers(task[k], a)' => k = i
    BY <1>6, <2>2 DEF Delivers
  <2>4. DeliveryOK(t, a)'
    <3>1. t.email + t.failed + Cardinality(t.chunk) = t.recipients
      BY <1>3, FS_EmptySet
    <3>2. owed'[a] \subseteq Segment(consent)'
      BY <1>4, <1>7 DEF Segment
    <3>3. \A u \in Users : received'[a][u] = 0 /\ ~(u <= 0)
      BY <1>4, <2>2 DEF Users
    <3>4. owed'[a] \subseteq Users
      BY <1>7
    <3> QED BY <1>3, <3>1, <3>2, <3>3, <3>4 DEF DeliveryOK
  <2>5. task'[i] = t /\ notice'[a] = "sending" /\ \A u \in Users : received'[a][u] = 0
    BY <1>4, <1>5, <1>6, <2>2
  <2> QED BY <2>3, <2>4, <2>5 DEF NoticeOK
<1>10. NoticesOK'
  <2>1. doubled \subseteq doubled'
    BY <1>4
  <2> QED BY <1>3, <1>4, <1>5, <1>7, <1>9, <2>1, RowChanges
<1>11. ChunksOK'
  BY <1>3, <1>6 DEF ChunksOK
<1> QED BY <1>8, <1>10, <1>11

\* A page is what comes after the cursor; if the cursor stands at a row of the
\* segment, or at none yet, it is the first of that.
LEMMA PageRows ==
  ASSUME AnnouncementsTypeOK, NEW consent \in BOOLEAN, NEW cursor \in 0..Readers
  PROVE  /\ Page(consent, cursor) \in SUBSET Users
         /\ \A u \in Page(consent, cursor) : u > cursor
         /\ cursor \in {0} \cup Segment(consent) =>
              Page(consent, cursor) = First({u \in Segment(consent) : u > cursor})
<1> DEFINE from == {u \in Segment(consent) : u >= cursor}
           after == {u \in Segment(consent) : u > cursor}
<1>1. /\ Segment(consent) \in SUBSET Users /\ Segment(consent) \subseteq account
      /\ \A u \in Users : u \in Int /\ u > 0
      /\ cursor \in Int /\ cursor >= 0
  BY AnnouncementsAssumption DEF Segment, AnnouncementsTypeOK, Users
<1>2. from \in SUBSET Users /\ after \in SUBSET Users
  BY <1>1
<1>3. CASE cursor = 0
  <2>1. from = after
    BY <1>1, <1>3
  <2>2. Page(consent, cursor) = First(after)
    BY <1>3, <2>1 DEF Page
  <2>3. First(after) \in SUBSET after
    <3> HIDE DEF after
    <3> QED BY <1>2, FirstRows
  <2>4. First(after) \in SUBSET Users /\ \A u \in First(after) : u > cursor
    BY <1>2, <2>3
  <2> QED BY <2>2, <2>4
<1>4. CASE cursor # 0 /\ (cursor \notin account \/ from = {})
  <2>1. Page(consent, cursor) = {}
    BY <1>4 DEF Page
  <2>2. cursor \notin Segment(consent)
    BY <1>1, <1>4
  <2> QED BY <1>4, <2>1, <2>2
<1>5. CASE cursor # 0 /\ cursor \in account /\ from # {}
  <2> DEFINE rest == from \ {Least(from)}
  <2>1. Page(consent, cursor) = First(rest)
    BY <1>5 DEF Page
  <2>2. Least(from) \in from /\ \A v \in from : Least(from) <= v
    <3> HIDE DEF from
    <3> QED BY <1>2, <1>5, LeastOf
  <2>3. rest \subseteq after
    <3> SUFFICES ASSUME NEW x \in from, x # Least(from) PROVE x > cursor
      OBVIOUS
    <3>1. x \in Int /\ Least(from) \in Int /\ Least(from) <= x /\ Least(from) >= cursor
      BY <1>1, <2>2
    <3>2. PICK m \in Int : m = Least(from)
      BY <3>1
    <3>3. m # x /\ m <= x /\ m >= cursor /\ x \in Int
      BY <3>1, <3>2
    <3>4. x > cursor
      <4> HIDE DEF from
      <4> QED BY <1>1, <3>3
    <3> QED BY <3>4
  <2>4. rest \in SUBSET Users
    BY <1>2
  <2>5. First(rest) \in SUBSET rest
    <3> HIDE DEF rest
    <3> QED BY <2>4, FirstRows
  <2>6. ASSUME cursor \in Segment(consent) PROVE rest = after
    <3>1. cursor \in from
      BY <1>1, <2>6
    <3>2. Least(from) = cursor
      <4>1. Least(from) \in Int /\ Least(from) <= cursor /\ Least(from) >= cursor
        BY <1>1, <2>2, <3>1
      <4> HIDE DEF from
      <4> QED BY <1>1, <4>1
    <3>3. after \subseteq rest
      <4> SUFFICES ASSUME NEW x \in Segment(consent), x > cursor
                   PROVE  x >= cursor /\ x # cursor
        BY <3>2
      <4>1. x \in Int
        BY <1>1
      <4> QED BY <1>1, <4>1
    <3> QED BY <2>3, <3>3
  <2> HIDE DEF rest
  <2> QED BY <1>5, <2>1, <2>3, <2>4, <2>5, <2>6
<1> QED BY <1>3, <1>4, <1>5

LEMMA LoadChunkKeeps ==
  ASSUME AnnouncementsInv, NEW i \in Admins, LoadChunk(i)
  PROVE  AnnouncementsInv'
<1> USE DEF AnnouncementsInv
<1> DEFINE Deliveries == [pc : {"deliver", "fan", "finish"}, notice : Notices,
                          consent : BOOLEAN, cursor : 0..Readers, chunk : SUBSET Users,
                          recipients : Nat, email : Nat, failed : Nat]
<1>1. PICK t \in Deliveries : t = task[i] /\ t.pc = "deliver"
  BY TaskFields DEF LoadChunk, Busy, Delivering
<1>2. PICK a \in Notices, consent \in BOOLEAN, cursor \in 0..Readers, n \in Nat :
        t.notice = a /\ t.consent = consent /\ t.cursor = cursor /\ t.recipients = n
  OBVIOUS
<1>3. PICK page : page = Page(consent, cursor)
  OBVIOUS
<1> DEFINE R == {u \in Segment(consent) : u > cursor}
<1>4. /\ page \in SUBSET Users /\ \A u \in page : u > cursor
      /\ cursor \in {0} \cup Segment(consent) => page = First(R)
  BY <1>3, PageRows
<1>5. PICK m \in Nat : m = n + Cardinality(page)
  <2>1. Cardinality(page) \in Nat
    BY <1>4, UsersFinite
  <2> QED BY <2>1
<1>6. PICK j \in Deliveries :
        /\ Set(i, j)
        /\ j.notice = a /\ j.consent = consent /\ j.cursor = cursor /\ j.email = t.email
        /\ j.failed = t.failed
        /\ page = {} => j.pc = "finish" /\ j.chunk = t.chunk /\ j.recipients = n
        /\ page # {} => j.pc = "fan" /\ j.chunk = page /\ j.recipients = m
  <2>1. CASE page = {}
    <3>1. PICK j : j = [t EXCEPT !.pc = "finish"]
      OBVIOUS
    <3>2. Set(i, j)
      BY <1>1, <1>2, <1>3, <2>1, <3>1 DEF LoadChunk
    <3>3. /\ j \in Deliveries /\ j.notice = t.notice /\ j.consent = t.consent
          /\ j.cursor = t.cursor /\ j.email = t.email /\ j.failed = t.failed
          /\ j.pc = "finish" /\ j.chunk = t.chunk /\ j.recipients = t.recipients
      BY <1>1, <3>1
    <3> HIDE DEF Deliveries
    <3> QED BY <1>2, <2>1, <3>2, <3>3
  <2>2. CASE page # {}
    <3>1. PICK j : j = [t EXCEPT !.pc = "fan", !.chunk = page, !.recipients = m]
      OBVIOUS
    <3>2. Set(i, j)
      <4>1. Set(i, [t EXCEPT !.pc = "fan", !.chunk = page, !.recipients = @ + Cardinality(page)])
        BY <1>1, <1>2, <1>3, <2>2 DEF LoadChunk
      <4> HIDE DEF Deliveries
      <4> QED BY <1>2, <1>5, <3>1, <4>1
    <3>3. /\ j \in Deliveries /\ j.notice = t.notice /\ j.consent = t.consent
          /\ j.cursor = t.cursor /\ j.email = t.email /\ j.failed = t.failed
          /\ j.pc = "fan" /\ j.chunk = page /\ j.recipients = m
      BY <1>1, <1>4, <3>1
    <3> HIDE DEF Deliveries
    <3> QED BY <1>2, <2>2, <3>2, <3>3
  <2> QED BY <2>1, <2>2
<1>7. /\ UNCHANGED <<notice, due, marketing, present, account, optIn, tally, edits, received,
                     owed, doubled>>
      /\ skipped' = IF cursor \in {0} \cup Segment(consent) THEN skipped ELSE skipped \cup {a}
  BY <1>1, <1>2 DEF LoadChunk, users
<1>8. j \in Task
  BY <1>6 DEF Task
<1>9. /\ task' \in [Admins -> Task]
      /\ \A k \in Admins : task'[k] = IF k = i THEN j ELSE task[k]
  BY <1>6, <1>8, TaskSet
<1>10. AnnouncementsTypeOK'
  <2>1. skipped' \subseteq Notices
    BY <1>7 DEF AnnouncementsTypeOK
  <2> QED BY <1>7, <1>9, <2>1 DEF AnnouncementsTypeOK
<1>11. t.chunk = {}
  BY <1>1 DEF ChunksOK, Delivering
<1> HIDE DEF Deliveries
<1>12. ASSUME a \notin doubled PROVE NoticeOK(a)'
  <2>1. NoticeOK(a)
    BY <1>12 DEF NoticesOK
  <2>2. Delivers(task[i], a) /\ DeliveryOK(t, a)
    BY <1>1, <1>2, <2>1 DEF NoticeOK, Delivers, Delivering
  <2>3. Delivers(j, a)
    BY <1>6 DEF Delivers, Delivering
  <2>4. j.email + j.failed + Cardinality(j.chunk) = j.recipients
    <3>1. t.email + t.failed + Cardinality({}) = n /\ Cardinality({}) = 0
      BY <1>2, <1>11, <2>2, FS_EmptySet DEF DeliveryOK
    <3>2. CASE page = {}
      BY <1>6, <1>11, <3>1, <3>2
    <3>3. CASE page # {}
      <4>1. Cardinality(page) \in Nat
        BY <1>4, UsersFinite
      <4>2. PICK e \in Nat, f \in Nat, p \in Nat :
              e = t.email /\ f = t.failed /\ p = Cardinality(page)
        BY <4>1 DEF Deliveries
      <4>3. e + f + p = n + p
        BY <3>1, <4>2
      <4> QED BY <1>5, <1>6, <3>3, <4>2, <4>3
    <3> QED BY <3>2, <3>3
  <2>5. \A u \in Users : u > cursor => received'[a][u] = 0
    BY <1>2, <1>7, <2>2 DEF DeliveryOK
  <2>6. owed'[a] \subseteq Segment(consent)' /\ owed'[a] = owed[a] /\ owed[a] \subseteq Segment(consent)
    BY <1>2, <1>7, <2>2 DEF DeliveryOK, Segment
  <2>7. ASSUME a \notin skipped'
        PROVE  /\ \A u \in owed[a] : u <= cursor => received'[a][u] = 1
               /\ \A u \in owed[a], v \in j.chunk : cursor < u /\ u <= v => u \in j.chunk
               /\ Cardinality(j.chunk) < UserChunk /\ j.pc # "deliver" =>
                    \A u \in owed[a] : cursor < u => u \in j.chunk
    <3>1. a \notin skipped /\ page = First(R)
      BY <1>4, <1>7, <2>7
    <3>2. /\ R \in SUBSET Users /\ R \subseteq Segment(consent)
          /\ \A u \in owed[a] : cursor < u => u \in R
      <4>1. Segment(consent) \in SUBSET Users /\ \A u \in Users : u \in Int
        BY AnnouncementsAssumption DEF Segment, AnnouncementsTypeOK, Users
      <4>2. cursor \in Int
        BY AnnouncementsAssumption
      <4> QED BY <2>6, <4>1, <4>2
    <3>3. /\ page \in SUBSET R /\ \A u \in page, v \in R : v <= u => v \in page
          /\ R # {} => page # {}
          /\ Cardinality(page) < UserChunk => page = R
      <4> HIDE DEF R
      <4> QED BY <3>1, <3>2, FirstRows
    <3>4. j.chunk = page
      BY <1>6, <1>11
    <3>5. \A u \in owed[a] : u <= cursor => received'[a][u] = 1
      BY <1>2, <1>7, <2>2, <3>1 DEF DeliveryOK
    <3> HIDE DEF R
    <3>6. \A u \in owed[a], v \in page : cursor < u /\ u <= v => u \in page
      BY <3>2, <3>3
    <3>7. Cardinality(page) < UserChunk => \A u \in owed[a] : cursor < u => u \in page
      BY <3>2, <3>3
    <3> QED BY <3>4, <3>5, <3>6, <3>7
  <2>8. \A u \in j.chunk : u > cursor
    BY <1>4, <1>6, <1>11
  <2>9. DeliveryOK(j, a)'
    BY <1>6, <2>4, <2>5, <2>6, <2>7, <2>8 DEF DeliveryOK
  <2>10. \A u \in Users : received'[a][u] <= 1
    BY <1>7, <2>1 DEF NoticeOK
  <2> QED BY <1>7, <1>9, <2>1, <2>2, <2>3, <2>9, <2>10, DeliveryGoesOn
<1>13. NoticesOK'
  <2>1. \A b \in Notices : b # a => (b \in skipped => b \in skipped')
    BY <1>7
  <2> QED BY <1>6, <1>7, <1>8, <1>12, <2>1, RowChanges
<1>14. ChunksOK'
  <2>1. j.pc \in Delivering => ((j.pc = "fan") <=> (j.chunk # {}))
    BY <1>6, <1>11
  <2> QED BY <1>9, <2>1 DEF ChunksOK
<1> QED BY <1>10, <1>13, <1>14

LEMMA FanKeeps ==
  ASSUME AnnouncementsInv, NEW i \in Admins, NEW bounced \in SUBSET Users, Fan(i, bounced)
  PROVE  AnnouncementsInv'
<1> USE DEF AnnouncementsInv
<1> DEFINE Deliveries == [pc : {"deliver", "fan", "finish"}, notice : Notices,
                          consent : BOOLEAN, cursor : 0..Readers, chunk : SUBSET Users,
                          recipients : Nat, email : Nat, failed : Nat]
<1>1. PICK t \in Deliveries : t = task[i] /\ t.pc = "fan"
  BY TaskFields DEF Fan, Busy, Delivering
<1>2. PICK a \in Notices, consent \in BOOLEAN, cursor \in 0..Readers, chunk \in SUBSET Users,
           e \in Nat, f \in Nat :
        /\ t.notice = a /\ t.consent = consent /\ t.cursor = cursor /\ t.chunk = chunk
        /\ t.email = e /\ t.failed = f
  OBVIOUS
<1>3. chunk # {} /\ bounced \subseteq chunk
  BY <1>1, <1>2 DEF ChunksOK, Delivering, Fan
<1>4. PICK all \in Nat, bad \in Nat :
        all = Cardinality(chunk) /\ bad = Cardinality(bounced) /\ bad <= all
  <2>1. IsFiniteSet(chunk) /\ Cardinality(chunk) \in Nat /\ Cardinality(bounced) \in Nat
    BY UsersFinite
  <2>2. Cardinality(bounced) <= Cardinality(chunk)
    BY <1>3, <2>1, FS_Subset
  <2> QED BY <2>1, <2>2
<1>5. PICK g \in chunk : g = Greatest(chunk) /\ \A v \in chunk : v <= g
  BY <1>3, GreatestOf
<1>6. PICK pc \in {"finish", "deliver"} :
        pc = IF all < UserChunk THEN "finish" ELSE "deliver"
  OBVIOUS
<1>7. PICK x \in Nat, y \in Nat : x = e + all - bad /\ y = f + bad
  BY <1>4
<1>8. PICK j : j = [t EXCEPT !.pc = pc, !.cursor = g, !.chunk = {}, !.email = x, !.failed = y]
  OBVIOUS
<1>9. /\ j \in Deliveries /\ j.pc = pc /\ j.notice = a /\ j.consent = consent /\ j.cursor = g
      /\ j.chunk = {} /\ j.recipients = t.recipients /\ j.email = x /\ j.failed = y
  <2>1. g \in 0..Readers
    BY AnnouncementsAssumption DEF Users
  <2> QED BY <1>1, <1>2, <1>8, <2>1
<1>10. Set(i, j)
  <2>1. Set(i, [t EXCEPT !.pc = IF Cardinality(t.chunk) < UserChunk THEN "finish" ELSE "deliver",
                         !.cursor = Greatest(t.chunk), !.chunk = {},
                         !.email = @ + Cardinality(t.chunk) - Cardinality(bounced),
                         !.failed = @ + Cardinality(bounced)])
    <3> HIDE DEF Deliveries
    <3> QED BY <1>1 DEF Fan
  <2> HIDE DEF Deliveries
  <2> QED BY <1>2, <1>4, <1>5, <1>6, <1>7, <1>8, <2>1
<1>11. /\ UNCHANGED <<notice, due, marketing, present, account, optIn, tally, edits, owed, doubled,
                      skipped>>
       /\ received' = [received EXCEPT ![a] =
            [u \in Users |-> IF u \in chunk /\ received[a][u] < 2 THEN received[a][u] + 1
                             ELSE received[a][u]]]
  BY <1>1, <1>2 DEF Fan, users
<1>12. j \in Task
  BY <1>9 DEF Task
<1> HIDE DEF Deliveries
<1>13. /\ task' \in [Admins -> Task]
       /\ \A k \in Admins : task'[k] = IF k = i THEN j ELSE task[k]
  BY <1>10, <1>12, TaskSet
<1>14. /\ received' \in [Notices -> [Users -> 0..2]]
       /\ \A b \in Notices : b # a => received'[b] = received[b]
       /\ \A u \in Users : received'[a][u] =
            IF u \in chunk /\ received[a][u] < 2 THEN received[a][u] + 1 ELSE received[a][u]
  <2>1. PICK r : r = [u \in Users |-> IF u \in chunk /\ received[a][u] < 2
                                      THEN received[a][u] + 1 ELSE received[a][u]]
    OBVIOUS
  <2>2. \A u \in Users : received[a][u] \in 0..2
    BY DEF AnnouncementsTypeOK
  <2>3. r \in [Users -> 0..2]
    BY <2>1, <2>2
  <2>4. received' = [received EXCEPT ![a] = r]
    BY <1>11, <2>1
  <2>5. /\ received' \in [Notices -> [Users -> 0..2]] /\ received'[a] = r
        /\ \A b \in Notices : b # a => received'[b] = received[b]
    BY <2>3, <2>4 DEF AnnouncementsTypeOK
  <2> QED BY <2>1, <2>5
<1>15. AnnouncementsTypeOK'
  BY <1>11, <1>13, <1>14 DEF AnnouncementsTypeOK
<1>16. ASSUME a \notin doubled PROVE NoticeOK(a)'
  <2>1. NoticeOK(a)
    BY <1>16 DEF NoticesOK
  <2>2. Delivers(task[i], a) /\ DeliveryOK(t, a)
    BY <1>1, <1>2, <2>1 DEF NoticeOK, Delivers, Delivering
  <2>3. Delivers(j, a)
    BY <1>9 DEF Delivers, Delivering
  <2>4. /\ \A u \in Users : u > cursor => received[a][u] = 0
        /\ \A u \in chunk : u > cursor
        /\ owed[a] \subseteq Segment(consent)
    BY <1>2, <2>2 DEF DeliveryOK
  <2>5. \A u \in Users : received'[a][u] = IF u \in chunk THEN 1 ELSE received[a][u]
    BY <1>14, <2>4
  <2>6. /\ \A u \in Users : u \in Int
        /\ cursor \in Int /\ g \in Int /\ g > cursor
    BY AnnouncementsAssumption, <2>4 DEF Users
  <2>7. j.email + j.failed + Cardinality(j.chunk) = j.recipients
    <3>1. e + f + all = t.recipients
      BY <1>2, <1>4, <2>2 DEF DeliveryOK
    <3>2. x + y + 0 = t.recipients
      BY <1>4, <1>7, <3>1
    <3> QED BY <1>9, <3>2, FS_EmptySet
  <2>8. \A u \in Users : u > g => received'[a][u] = 0
    <3> SUFFICES ASSUME NEW u \in Users, u > g PROVE received'[a][u] = 0
      OBVIOUS
    <3>1. u \notin chunk
      <4> SUFFICES ASSUME u \in chunk PROVE FALSE
        OBVIOUS
      <4>1. u <= g /\ u \in Int
        BY <1>5, <2>6
      <4> QED BY <2>6, <4>1
    <3>2. u > cursor
      <4>1. u \in Int
        BY <2>6
      <4> QED BY <2>6, <4>1
    <3> QED BY <2>4, <2>5, <3>1, <3>2
  <2>9. owed'[a] = owed[a] /\ owed'[a] \subseteq Segment(consent)' /\ owed[a] \subseteq Users
    BY <1>11, <2>4 DEF Segment, AnnouncementsTypeOK
  <2>10. ASSUME a \notin skipped'
         PROVE  /\ \A u \in owed[a] : u <= g => received'[a][u] = 1
                /\ all < UserChunk => \A u \in owed[a] : ~(g < u)
    <3>1. a \notin skipped
      BY <1>11, <2>10
    <3>2. /\ \A u \in owed[a] : u <= cursor => received[a][u] = 1
          /\ \A u \in owed[a], v \in chunk : cursor < u /\ u <= v => u \in chunk
          /\ all < UserChunk => \A u \in owed[a] : cursor < u => u \in chunk
      BY <1>1, <1>2, <1>4, <2>2, <3>1 DEF DeliveryOK
    <3>3. ASSUME NEW u \in owed[a], u <= g PROVE received'[a][u] = 1
      <4>1. CASE u \in chunk
        BY <2>5, <2>9, <4>1
      <4>2. CASE u \notin chunk
        <5>1. ~(cursor < u)
          BY <3>2, <3>3, <4>2
        <5>2. u \in Int /\ u \in Users
          BY <2>6, <2>9
        <5>3. u <= cursor
          BY <2>6, <5>1, <5>2
        <5> QED BY <2>5, <3>2, <4>2, <5>2, <5>3
      <4> QED BY <4>1, <4>2
    <3>4. ASSUME all < UserChunk, NEW u \in owed[a], g < u PROVE FALSE
      <4>1. u \in Int
        BY <2>6, <2>9
      <4>2. cursor < u
        BY <2>6, <3>4, <4>1
      <4>3. u \in chunk
        BY <3>2, <3>4, <4>2
      <4>4. u <= g
        BY <1>5, <4>3
      <4> QED BY <2>6, <3>4, <4>1, <4>4
    <3> QED BY <3>3, <3>4
  <2>11. j.pc # "deliver" => all < UserChunk
    BY <1>6, <1>9
  <2>12. DeliveryOK(j, a)'
    BY <1>9, <2>7, <2>8, <2>9, <2>10, <2>11 DEF DeliveryOK
  <2>13. \A u \in Users : received'[a][u] <= 1
    BY <2>1, <2>5 DEF NoticeOK
  <2> QED BY <1>11, <1>13, <2>1, <2>2, <2>3, <2>12, <2>13, DeliveryGoesOn
<1>17. NoticesOK'
  BY <1>9, <1>10, <1>11, <1>12, <1>14, <1>16, RowChanges
<1>18. ChunksOK'
  BY <1>9, <1>13 DEF ChunksOK
<1> QED BY <1>15, <1>17, <1>18

\* A delivery ends with everyone reached who was owed it, or fails.
LEMMA EndKeeps ==
  ASSUME AnnouncementsInv, NEW i \in Admins, FinishNotice(i) \/ FailNotice(i)
  PROVE  AnnouncementsInv'
<1> USE DEF AnnouncementsInv
<1> DEFINE Deliveries == [pc : {"deliver", "fan", "finish"}, notice : Notices,
                          consent : BOOLEAN, cursor : 0..Readers, chunk : SUBSET Users,
                          recipients : Nat, email : Nat, failed : Nat]
<1>1. PICK t \in Deliveries : t = task[i] /\ t.pc \in {"fan", "finish"}
                              /\ (FinishNotice(i) => t.pc = "finish")
  BY TaskFields DEF FinishNotice, FailNotice, Busy, Delivering
<1>2. PICK a \in Notices : t.notice = a
  OBVIOUS
<1>3. /\ UNCHANGED <<due, marketing, present, account, optIn, received, owed, doubled, skipped>>
      /\ edits' \in 0..MaxEdits
      /\ Set(i, Resting)
  BY AnnouncementsAssumption
     DEF FinishNotice, FailNotice, Rest, users, sendHistory, Edit, AnnouncementsTypeOK
<1>4. PICK counted \in [recipients : Nat, email : Nat, failed : Nat] :
        counted.recipients = t.recipients /\ counted.email = t.email /\ counted.failed = t.failed
        /\ counted = [recipients |-> t.recipients, email |-> t.email, failed |-> t.failed]
  OBVIOUS
<1>5. \/ UNCHANGED <<notice, tally>> /\ notice[a] = "gone"
      \/ FinishNotice(i) /\ Become(a, "sent") /\ tally' = [tally EXCEPT ![a] = counted]
      \/ Become(a, "failed") /\ tally' = tally
  <2>1. task[i].notice = a
    BY <1>1, <1>2
  <2>2. CASE FinishNotice(i)
    <3>1. counted = [recipients |-> task[i].recipients, email |-> task[i].email,
                     failed |-> task[i].failed]
      BY <1>1, <1>4
    <3> HIDE DEF Deliveries
    <3> QED BY <2>1, <2>2, <3>1 DEF FinishNotice
  <2>3. CASE FailNotice(i)
    <3> HIDE DEF Deliveries
    <3> QED BY <2>1, <2>3 DEF FailNotice
  <2> QED BY <2>2, <2>3
<1>6. /\ task' \in [Admins -> Task]
      /\ \A k \in Admins : task'[k] = IF k = i THEN Resting ELSE task[k]
      /\ Resting \in Task /\ Resting.pc = "rest"
  BY <1>3, TaskJobs, TaskSet
<1>7. /\ notice' \in [Notices -> NoticeStatus]
      /\ tally' \in [Notices -> [recipients : Nat, email : Nat, failed : Nat]]
      /\ \A b \in Notices : b # a => notice'[b] = notice[b] /\ tally'[b] = tally[b]
      /\ \/ notice'[a] = notice[a] /\ notice[a] = "gone"
         \/ FinishNotice(i) /\ notice'[a] = "sent" /\ tally'[a] = counted
         \/ notice'[a] = "failed"
  <2> HIDE DEF Deliveries
  <2>1. "sent" \in NoticeStatus /\ "failed" \in NoticeStatus
    BY DEF NoticeStatus
  <2>2. CASE UNCHANGED <<notice, tally>> /\ notice[a] = "gone"
    BY <2>2 DEF AnnouncementsTypeOK
  <2>3. CASE FinishNotice(i) /\ Become(a, "sent") /\ tally' = [tally EXCEPT ![a] = counted]
    <3>1. /\ tally' \in [Notices -> [recipients : Nat, email : Nat, failed : Nat]]
          /\ tally'[a] = counted /\ \A b \in Notices : b # a => tally'[b] = tally[b]
      BY <1>4, <2>3 DEF AnnouncementsTypeOK
    <3>2. /\ notice' \in [Notices -> NoticeStatus]
          /\ \A b \in Notices : notice'[b] = IF b = a THEN "sent" ELSE notice[b]
      BY <2>1, <2>3, NoticeSet
    <3> QED BY <2>3, <3>1, <3>2
  <2>4. CASE Become(a, "failed") /\ tally' = tally
    <3>1. /\ notice' \in [Notices -> NoticeStatus]
          /\ \A b \in Notices : notice'[b] = IF b = a THEN "failed" ELSE notice[b]
      BY <2>1, <2>4, NoticeSet
    <3>2. tally' \in [Notices -> [recipients : Nat, email : Nat, failed : Nat]]
      BY <2>4 DEF AnnouncementsTypeOK
    <3> QED BY <2>4, <3>1, <3>2
  <2> QED BY <1>5, <2>2, <2>3, <2>4
<1>8. AnnouncementsTypeOK'
  BY <1>3, <1>6, <1>7 DEF AnnouncementsTypeOK
<1>9. ASSUME a \notin doubled PROVE NoticeOK(a)'
  <2>1. NoticeOK(a)
    BY <1>9 DEF NoticesOK
  <2>2. Delivers(task[i], a) /\ DeliveryOK(t, a) /\ notice[a] = "sending"
    BY <1>1, <1>2, <2>1 DEF NoticeOK, Delivers, Delivering
  <2>3. ASSUME notice'[a] = "sent", a \notin skipped'
        PROVE  /\ \A u \in owed'[a] : received[a][u] = 1
               /\ tally'[a].email + tally'[a].failed = tally'[a].recipients
    <3>1. FinishNotice(i) /\ tally'[a] = counted /\ t.pc = "finish"
      BY <1>1, <1>7, <2>2, <2>3
    <3>2. t.chunk = {} /\ Cardinality({}) = 0 /\ UserChunk \in Nat \ {0}
      BY <1>1, <3>1, FS_EmptySet, AnnouncementsAssumption DEF ChunksOK, Delivering
    <3>3. /\ \A u \in owed[a] : u <= t.cursor => received[a][u] = 1
          /\ \A u \in owed[a] : ~(t.cursor < u)
      <4>1. a \notin skipped
        BY <1>3, <2>3
      <4>2. Cardinality(t.chunk) < UserChunk /\ t.pc # "deliver"
        BY <3>1, <3>2
      <4> QED BY <2>2, <3>2, <4>1, <4>2 DEF DeliveryOK
    <3>4. \A u \in owed[a] : u \in Int
      BY AnnouncementsAssumption DEF AnnouncementsTypeOK, Users
    <3>5. t.cursor \in Int
      BY <1>1, AnnouncementsAssumption
    <3>6. \A u \in owed[a] : received[a][u] = 1
      <4> SUFFICES ASSUME NEW u \in owed[a] PROVE u <= t.cursor
        BY <3>3
      <4> HIDE DEF Deliveries
      <4> QED BY <3>3, <3>4, <3>5
    <3>7. t.email + t.failed = t.recipients
      <4>1. t.email + t.failed + 0 = t.recipients
        BY <2>2, <3>2 DEF DeliveryOK
      <4>2. t.email \in Nat /\ t.failed \in Nat
        BY <1>1
      <4> HIDE DEF Deliveries
      <4> QED BY <4>1, <4>2
    <3> QED BY <1>3, <1>4, <3>1, <3>6, <3>7
  <2>4. notice'[a] \in {"sent", "failed"} /\ received' = received
    BY <1>3, <1>7, <2>2
  <2>5. task'[i] = Resting /\ \A k \in Admins : k # i => task'[k] = task[k]
    BY <1>6
  <2> QED BY <2>1, <2>2, <2>3, <2>4, <2>5, DeliveryOver
<1>10. NoticesOK'
  <2>1. Resting.pc \notin Delivering
    BY <1>6 DEF Delivering
  <2> HIDE DEF Deliveries
  <2> QED BY <1>3, <1>6, <1>7, <1>9, <2>1, RowChanges
<1>11. ChunksOK'
  BY <1>6 DEF ChunksOK, Delivering
<1> QED BY <1>8, <1>10, <1>11

\* The invariant of the announcements: one delivery of each, everyone up to its
\* cursor reached and nobody beyond.
THEOREM AnnouncementsInvariant == AnnouncementsSpec => []AnnouncementsInv
<1>1. AnnouncementsInit => AnnouncementsInv
  <2> SUFFICES ASSUME AnnouncementsInit PROVE AnnouncementsInv
    OBVIOUS
  <2> USE AnnouncementsAssumption DEF AnnouncementsInit
  <2>1. AnnouncementsTypeOK
    <3>1. task \in [Admins -> Task] /\ notice \in [Notices -> NoticeStatus]
      BY TaskJobs DEF NoticeStatus
    <3>2. edits \in 0..MaxEdits
      OBVIOUS
    <3> QED BY <3>1, <3>2 DEF AnnouncementsTypeOK
  <2>2. \A i \in Admins : task[i].pc \notin Delivering
    BY TaskJobs DEF Delivering
  <2>3. NoticesOK
    BY <2>2 DEF NoticesOK, NoticeOK, Delivers
  <2>4. ChunksOK
    BY <2>2 DEF ChunksOK
  <2> QED BY <2>1, <2>3, <2>4 DEF AnnouncementsInv
<1>2. AnnouncementsInv /\ [AnnouncementsNext]_noticeVars => AnnouncementsInv'
  <2> SUFFICES ASSUME AnnouncementsInv, [AnnouncementsNext]_noticeVars
               PROVE  AnnouncementsInv'
    OBVIOUS
  <2>1. CASE UNCHANGED noticeVars
    <3>1. UNCHANGED <<notice, due, marketing, present, account, optIn, tally, task, edits,
                      received, owed, doubled, skipped>>
      BY <2>1 DEF noticeVars, users, sendHistory
    <3>2. AnnouncementsTypeOK'
      BY <3>1 DEF AnnouncementsInv, AnnouncementsTypeOK
    <3>3. NoticesOK'
      <4>1. UNCHANGED <<owed, users>> /\ AnnouncementsTypeOK /\ NoticesOK
        BY <3>1 DEF users, AnnouncementsInv
      <4> QED BY <3>1, <4>1, NoticesAside
    <3>4. ChunksOK'
      BY <3>1 DEF AnnouncementsInv, ChunksOK
    <3> QED BY <3>2, <3>3, <3>4 DEF AnnouncementsInv
  <2>2. CASE AnnouncementsNext
    <3>1. CASE \/ AnnouncementsController
               \/ \E a \in Notices : ComesDue(a) \/ \E i \in Admins : RunDue(i, a)
               \/ SenderCrash
      BY <3>1, DraftsKeep
    <3>2. ASSUME NEW i \in Admins, WriteNotice(i) \/ Deliver(i) \/ FailNotice(i)
          PROVE  AnnouncementsInv'
      BY <3>2, WritesKeep, DraftsKeep, ClaimNoticeKeeps, LoadChunkKeeps, FanKeeps, EndKeeps
         DEF Deliver
    <3>3. CASE \E u \in Users : UnsubscribeMarketing(u) \/ SuspendReader(u) \/ DeleteReader(u)
      BY <3>3, ReadersKeep
    <3> QED BY <2>2, <3>1, <3>2, <3>3 DEF AnnouncementsNext
  <2> QED BY <2>1, <2>2
<1> QED BY <1>1, <1>2, PTL DEF AnnouncementsSpec

\* Whoever drafts, schedules, cancels, sends, leaves and crashes meanwhile: an
\* announcement written on fresh news of its status reaches nobody twice and
\* nobody before it is claimed; once sent it has reached its whole audience that
\* stayed, unless the user its cursor stood at had left, and its counts add up.
THEOREM AudienceIsReached == AnnouncementsSpec => []AudienceReached
<1>1. AnnouncementsInv => AudienceReached
  <2> SUFFICES ASSUME AnnouncementsInv, NEW a \in Notices \ doubled
               PROVE  /\ \A u \in Users : received[a][u] < 2
                      /\ notice[a] \in {"draft", "scheduled", "cancelled"} =>
                           \A u \in Users : received[a][u] = 0
                      /\ (notice[a] = "sent" /\ a \notin skipped) =>
                           /\ \A u \in owed[a] : received[a][u] = 1
                           /\ tally[a].email + tally[a].failed = tally[a].recipients
    BY DEF AudienceReached
  <2>1. NoticeOK(a) /\ \A u \in Users : received[a][u] \in 0..2
    BY DEF AnnouncementsInv, NoticesOK, AnnouncementsTypeOK
  <2>2. \A u \in Users : received[a][u] < 2
    BY <2>1 DEF NoticeOK
  <2> QED BY <2>1, <2>2 DEF NoticeOK
<1> QED BY <1>1, AnnouncementsInvariant, PTL

----------------------------------------------------------------------------
(* Notifications *)

Reply == "attendee.comment_reply"

\* A reply is told of only when the last notice was read, by one listener.
RepliesOK ==
  "reply" \notin raced =>
    /\ unread[Author][Reply] <= 1
    /\ \A h \in Handlers : Works(h, "reply") =>
         unread[Author][Reply] = 0 /\ \A g \in Handlers : Works(g, "reply") => g = h

\* Who was reminded is on record, or about to be, and one job is at it.
RemindersOK ==
  "remind" \notin raced =>
    /\ \A u \in Recipients : told[u] <= 1
    /\ \A h \in Handlers : handler[h].pc \in {"remind", "mark"} =>
         /\ handler[h].pc = "remind" => \A u \in Recipients : told[u] = 0
         /\ \A g \in Handlers : handler[g].pc \in {"remind", "mark"} => g = h
    /\ \/ remindedAt
       \/ \E h \in Handlers : Works(h, "mark")
       \/ \A u \in Recipients : told[u] = 0

NotificationsInv == NotificationsTypeOK /\ RepliesOK /\ RemindersOK /\ FanoutsCapped

\* The message sets are finite, and only a reply's speaks of replies.
LEMMA MessagesOK ==
  /\ \A M \in Messages : IsFiniteSet(M) /\ \A m \in M : m.type # Reply
  /\ \A t \in Types : \A to : LET M == {Message(t, to)}
                          IN  IsFiniteSet(M) /\ \A m \in M : m.type = t
<1>1. \A t, to : IsFiniteSet({Message(t, to)}) /\ \A m \in {Message(t, to)} : m.type = t
  <2> SUFFICES ASSUME NEW t, NEW to
               PROVE  IsFiniteSet({Message(t, to)}) /\ \A m \in {Message(t, to)} : m.type = t
    OBVIOUS
  <2>1. IsFiniteSet({Message(t, to)})
    BY FS_Singleton
  <2>2. Message(t, to).type = t
    BY DEF Message
  <2> QED BY <2>1, <2>2
<1>2. IsFiniteSet({})
  BY FS_EmptySet
<1>3. \A first \in BOOLEAN, large \in BOOLEAN :
        IsFiniteSet(OrderPaid(first, large)) /\ \A m \in OrderPaid(first, large) : m.type # Reply
  <2> SUFFICES ASSUME NEW first \in BOOLEAN, NEW large \in BOOLEAN
               PROVE  IsFiniteSet(OrderPaid(first, large)) /\ \A m \in OrderPaid(first, large) : m.type # Reply
    OBVIOUS
  <2> DEFINE A == {Message("attendee.order_paid", {Buyer})}
             B == IF first THEN {Message("order.first_sale", Members)} ELSE {}
             C == IF large THEN {Message("admin.large_order", AdminUsers)} ELSE {}
  <2>1. /\ IsFiniteSet(A) /\ IsFiniteSet(B) /\ IsFiniteSet(C)
        /\ \A m \in A \cup B \cup C : m.type # Reply
    BY <1>1, <1>2 DEF Reply
  <2>2. OrderPaid(first, large) = A \cup B \cup C
    BY DEF OrderPaid
  <2> HIDE DEF A, B, C
  <2>3. IsFiniteSet(A \cup B \cup C)
    BY <2>1, FS_Union
  <2> QED BY <2>1, <2>2, <2>3
<1>4. \A s \in {"paid", "failed", "approved"} :
        IsFiniteSet(PayoutSettled(s)) /\ \A m \in PayoutSettled(s) : m.type # Reply
  <2> DEFINE A == {Message("payout.failed", Members)}
             B == {Message("admin.payout_failed", AdminUsers)}
  <2>1. PayoutSettled("failed") = A \cup B /\ PayoutSettled("approved") = {}
        /\ PayoutSettled("paid") = {Message("payout.completed", Members)}
    BY DEF PayoutSettled
  <2>2. IsFiniteSet(A) /\ IsFiniteSet(B) /\ \A m \in A \cup B : m.type # Reply
    BY <1>1 DEF Reply
  <2> HIDE DEF A, B
  <2>3. IsFiniteSet(A \cup B)
    BY <2>2, FS_Union
  <2>4. IsFiniteSet(PayoutSettled("paid")) /\ \A m \in PayoutSettled("paid") : m.type # Reply
    BY <1>1, <2>1 DEF Reply
  <2>5. IsFiniteSet(PayoutSettled("failed")) /\ \A m \in PayoutSettled("failed") : m.type # Reply
    BY <2>1, <2>2, <2>3
  <2>6. IsFiniteSet(PayoutSettled("approved")) /\ \A m \in PayoutSettled("approved") : m.type # Reply
    BY <1>2, <2>1
  <2> QED BY <2>4, <2>5, <2>6
<1>5. \A c \in BOOLEAN : IsFiniteSet(ReportCreated(c)) /\ \A m \in ReportCreated(c) : m.type # Reply
  <2> SUFFICES ASSUME NEW c \in BOOLEAN
               PROVE  IsFiniteSet(ReportCreated(c)) /\ \A m \in ReportCreated(c) : m.type # Reply
    OBVIOUS
  <2> DEFINE A == {Message("admin.report_created", AdminUsers)}
             B == IF c THEN {Message("comment.flagged", Members)} ELSE {}
  <2>1. IsFiniteSet(A) /\ IsFiniteSet(B) /\ \A m \in A \cup B : m.type # Reply
    BY <1>1, <1>2 DEF Reply
  <2>2. ReportCreated(c) = A \cup B
    BY DEF ReportCreated
  <2> HIDE DEF A, B
  <2>3. IsFiniteSet(A \cup B)
    BY <2>1, FS_Union
  <2> QED BY <2>1, <2>2, <2>3
<1>6. \A M \in {TicketTransferred(u) : u \in Recipients}
              \cup {PayoutRejected, PayoutRequested, PayoutAccountChanged, OrganisationCreated,
                    BroadcastSent} : IsFiniteSet(M) /\ \A m \in M : m.type # Reply
  <2> SUFFICES ASSUME NEW M \in {TicketTransferred(u) : u \in Recipients}
                        \cup {PayoutRejected, PayoutRequested, PayoutAccountChanged,
                              OrganisationCreated, BroadcastSent}
               PROVE  IsFiniteSet(M) /\ \A m \in M : m.type # Reply
    OBVIOUS
  <2>1. PICK t \in Types \ {Reply}, to \in SUBSET (Recipients \cup Members \cup AdminUsers) :
          M = {Message(t, to)}
    BY DEF TicketTransferred, PayoutRejected, PayoutRequested, PayoutAccountChanged,
       OrganisationCreated, BroadcastSent, Reply, Types, OrganizerTypes, AttendeeTypes, AdminTypes
  <2> QED BY <1>1, <2>1
<1>7. \A M \in Messages : IsFiniteSet(M) /\ \A m \in M : m.type # Reply
  BY <1>3, <1>4, <1>5, <1>6 DEF Messages
<1>8. \A t \in Types : \A to : LET M == {Message(t, to)}
                          IN  IsFiniteSet(M) /\ \A m \in M : m.type = t
  BY <1>1
<1> QED BY <1>7, <1>8

\* Nobody finds more in the inbox than was sent.
LEMMA SendKeeps ==
  ASSUME NotificationsTypeOK, NEW M, IsFiniteSet(M), Send(M)
  PROVE  /\ unread' \in [Recipients -> [Types -> Nat]]
         /\ \A u \in Recipients : \A t \in Types :
              (\A m \in M : m.type # t) => unread'[u][t] = unread[u][t]
         /\ \A u \in Recipients : \A t \in Types :
              unread'[u][t] <= unread[u][t] + Cardinality(M)
<1> DEFINE R(u, t) == {m \in M : m.type = t /\ u \in m.to /\ "inapp" \in Reached(u, t)}
<1>1. \A u, t : /\ Cardinality(R(u, t)) \in Nat
                /\ Cardinality(R(u, t)) <= Cardinality(M)
                /\ (\A m \in M : m.type # t) => Cardinality(R(u, t)) = 0
  <2> SUFFICES ASSUME NEW u, NEW t
               PROVE  /\ Cardinality(R(u, t)) \in Nat
                      /\ Cardinality(R(u, t)) <= Cardinality(M)
                      /\ (\A m \in M : m.type # t) => Cardinality(R(u, t)) = 0
    OBVIOUS
  <2> DEFINE S == R(u, t)
  <2>1. S \subseteq M /\ ((\A m \in M : m.type # t) => S = {})
    OBVIOUS
  <2> HIDE DEF S
  <2>2. IsFiniteSet(S) /\ Cardinality(S) <= Cardinality(M)
    BY <2>1, FS_Subset
  <2>3. Cardinality(S) \in Nat /\ Cardinality({}) = 0
    BY <2>2, FS_CardinalityType, FS_EmptySet
  <2>4. /\ Cardinality(S) \in Nat
        /\ Cardinality(S) <= Cardinality(M)
        /\ (\A m \in M : m.type # t) => Cardinality(S) = 0
    BY <2>1, <2>2, <2>3
  <2> QED BY <2>4 DEF S
<1>2. unread' = [u \in Recipients |-> [t \in Types |-> unread[u][t] + Cardinality(R(u, t))]]
  BY DEF Send
<1>3. Cardinality(M) \in Nat
  BY FS_CardinalityType
<1> HIDE DEF R
<1>4. \A u \in Recipients : \A t \in Types : unread[u][t] \in Nat
  BY DEF NotificationsTypeOK
<1>5. \A u \in Recipients : \A t \in Types : unread'[u][t] = unread[u][t] + Cardinality(R(u, t))
  BY <1>2
<1>6. unread' \in [Recipients -> [Types -> Nat]]
  <2>1. \A u \in Recipients : [t \in Types |-> unread[u][t] + Cardinality(R(u, t))] \in [Types -> Nat]
    BY <1>1, <1>4
  <2> QED BY <1>2, <2>1
<1>7. ASSUME NEW u \in Recipients, NEW t \in Types
      PROVE  /\ (\A m \in M : m.type # t) => unread'[u][t] = unread[u][t]
             /\ unread'[u][t] <= unread[u][t] + Cardinality(M)
  <2>1. PICK a \in Nat, k \in Nat, n \in Nat :
          a = unread[u][t] /\ k = Cardinality(R(u, t)) /\ n = Cardinality(M)
    BY <1>1, <1>3, <1>4
  <2>2. unread'[u][t] = a + k /\ k <= n /\ ((\A m \in M : m.type # t) => k = 0)
    BY <1>1, <1>5, <2>1
  <2> QED BY <2>1, <2>2
<1> QED BY <1>6, <1>7

LEMMA SomeFacts ==
  ASSUME NotificationsTypeOK
  PROVE  /\ Author \in Recipients /\ Reply \in Types /\ unread[Author][Reply] \in Nat
         /\ MaxFanouts \in Nat \ {0}
         /\ \A u \in Recipients : told[u] \in Nat
<1>1. Author \in Recipients /\ Reply \in Types /\ MaxFanouts \in Nat \ {0}
  BY NotificationsAssumption DEF Reply, Types, AttendeeTypes
<1> QED BY <1>1 DEF NotificationsTypeOK

\* A listener goes on, the others are where they were.
LEMMA OntoSets ==
  ASSUME NotificationsTypeOK, NEW h \in Handlers, NEW w \in Work, Onto(h, w)
  PROVE  /\ handler' \in [Handlers -> Work]
         /\ \A g \in Handlers : handler'[g] = IF g = h THEN w ELSE handler[g]
  BY DEF NotificationsTypeOK, Onto

LEMMA PostsOK ==
  ASSUME NotificationsTypeOK, Posting \/ UNCHANGED posts
  PROVE  posts' \in 0..MaxPosts
  BY NotificationsAssumption DEF NotificationsTypeOK, Posting

\* Nothing is told of replies, and nobody is reminded.
LEMMA AsideKeeps ==
  ASSUME NotificationsInv, NotificationsTypeOK', FanoutsCapped',
         unread'[Author][Reply] <= unread[Author][Reply],
         UNCHANGED <<told, raced, remindedAt>>,
         \A g \in Handlers : handler'[g].pc \in {"reply", "remind", "mark"} =>
                               handler'[g] = handler[g],
         \A g \in Handlers : handler[g].pc = "mark" => handler'[g] = handler[g]
  PROVE  NotificationsInv'
<1> USE DEF NotificationsInv
<1>1. unread[Author][Reply] \in Nat /\ unread'[Author][Reply] \in Nat
  <2>1. Author \in Recipients /\ Reply \in Types
    BY SomeFacts
  <2> QED BY <2>1 DEF NotificationsTypeOK
<1>2. RepliesOK'
  BY <1>1 DEF RepliesOK, Works
<1>3. RemindersOK'
  BY DEF RemindersOK, Works
<1> QED BY <1>2, <1>3

LEMMA TellKeeps ==
  ASSUME NotificationsInv, NEW M \in Messages, Tell(M)
  PROVE  NotificationsInv'
<1> USE DEF NotificationsInv
<1>1. /\ Posting /\ Send(M)
      /\ UNCHANGED <<stored, quiet, muted, owner, fanWindow, fanouts, remindedAt, digestedAt,
                     dueStage, handler, fanned, told, raced>>
  BY DEF Tell, markVars, tellVars
<1>2. IsFiniteSet(M) /\ \A m \in M : m.type # Reply
  BY MessagesOK
<1>3. unread' \in [Recipients -> [Types -> Nat]] /\ unread'[Author][Reply] = unread[Author][Reply]
  BY <1>1, <1>2, SendKeeps, SomeFacts
<1>4. posts' \in 0..MaxPosts
  BY <1>1, PostsOK
<1>5. NotificationsTypeOK' /\ FanoutsCapped'
  BY <1>1, <1>3, <1>4 DEF NotificationsTypeOK, FanoutsCapped
<1>6. unread'[Author][Reply] <= unread[Author][Reply]
  BY <1>3, SomeFacts
<1> QED BY <1>1, <1>5, <1>6, AsideKeeps

\* Reading, settings, mutes and tokens.
LEMMA UsersKeep ==
  ASSUME NotificationsInv, NEW u \in Recipients, NotificationsController(u)
  PROVE  NotificationsInv'
<1> USE DEF NotificationsInv
<1>1. unread[Author][Reply] \in Nat /\ Author \in Recipients /\ Reply \in Types
  BY SomeFacts
<1>2. CASE \E t \in Types : MarkRead(u, t)
  <2>1. PICK t \in Types : MarkRead(u, t)
    BY <1>2
  <2>2. /\ Posting /\ unread[u][t] > 0 /\ unread' = [unread EXCEPT ![u][t] = @ - 1]
        /\ UNCHANGED <<stored, quiet, muted, owner, fanWindow, fanouts, remindedAt, digestedAt,
                       dueStage, handler, fanned, told, raced>>
    BY <2>1 DEF MarkRead, markVars, tellVars
  <2>3. posts' \in 0..MaxPosts
    BY <2>2, PostsOK
  <2>4. unread' \in [Recipients -> [Types -> Nat]]
    <3>1. unread[u][t] - 1 \in Nat
      BY <2>2 DEF NotificationsTypeOK
    <3> QED BY <2>2, <3>1 DEF NotificationsTypeOK
  <2>5. unread'[Author][Reply] <= unread[Author][Reply]
    <3>1. \A v \in Recipients, s \in Types :
            unread'[v][s] = IF v = u /\ s = t THEN unread[v][s] - 1 ELSE unread[v][s]
      BY <2>2 DEF NotificationsTypeOK
    <3> QED BY <1>1, <3>1
  <2>6. NotificationsTypeOK' /\ FanoutsCapped'
    BY <2>2, <2>3, <2>4 DEF NotificationsTypeOK, FanoutsCapped
  <2> QED BY <2>2, <2>5, <2>6, AsideKeeps
<1>3. CASE \E a \in {"organizer", "attendee", "admin"} : MarkAllRead(u, a)
  <2>1. PICK a : MarkAllRead(u, a)
    BY <1>3
  <2> DEFINE none == [t \in Types |-> IF Audience(t) = a THEN 0 ELSE unread[u][t]]
  <2>2. /\ Posting /\ unread' = [unread EXCEPT ![u] = none]
        /\ UNCHANGED <<stored, quiet, muted, owner, fanWindow, fanouts, remindedAt, digestedAt,
                       dueStage, handler, fanned, told, raced>>
    BY <2>1 DEF MarkAllRead, markVars, tellVars
  <2>3. posts' \in 0..MaxPosts
    BY <2>2, PostsOK
  <2>4. none \in [Types -> Nat] /\ \A t \in Types : none[t] \in {0, unread[u][t]}
    BY DEF NotificationsTypeOK
  <2> HIDE DEF none
  <2>5. unread' \in [Recipients -> [Types -> Nat]]
    BY <2>2, <2>4 DEF NotificationsTypeOK
  <2>6. unread'[Author][Reply] <= unread[Author][Reply]
    <3>1. unread'[Author] = IF Author = u THEN none ELSE unread[Author]
      BY <1>1, <2>2 DEF NotificationsTypeOK
    <3> QED BY <1>1, <2>4, <3>1
  <2>7. NotificationsTypeOK' /\ FanoutsCapped'
    BY <2>2, <2>3, <2>5 DEF NotificationsTypeOK, FanoutsCapped
  <2> QED BY <2>2, <2>6, <2>7, AsideKeeps
<1>4. CASE \E o \in Options, on \in BOOLEAN : SetPreference(u, o[1], o[2], on)
  <2>1. PICK t \in Types, c \in Channels, on \in BOOLEAN : SetPreference(u, t, c, on)
    BY <1>4, OptionsAssumption
  <2>2. /\ Posting
        /\ stored' = {r \in stored : ~(r.user = u /\ r.type = t /\ r.channel = c)}
                       \cup {[user |-> u, type |-> t, channel |-> c, enabled |-> on]}
        /\ UNCHANGED <<unread, quiet, muted, owner, fanWindow, fanouts, remindedAt, digestedAt,
                       dueStage, handler, fanned, told, raced>>
    BY <2>1 DEF SetPreference, markVars, tellVars
  <2>3. posts' \in 0..MaxPosts
    BY <2>2, PostsOK
  <2>4. stored' \subseteq [user : Recipients, type : Types, channel : Channels, enabled : BOOLEAN]
    BY <2>2 DEF NotificationsTypeOK
  <2>5. NotificationsTypeOK' /\ FanoutsCapped'
    BY <2>2, <2>3, <2>4 DEF NotificationsTypeOK, FanoutsCapped
  <2>6. unread'[Author][Reply] <= unread[Author][Reply]
    BY <1>1, <2>2
  <2> QED BY <2>2, <2>5, <2>6, AsideKeeps
<1>5. CASE \/ UpdateQuietHours(u) \/ ToggleMute(u)
           \/ \E k \in Tokens : \/ UnregisterToken(u, k)
                                \/ \E a \in {"organizer", "attendee"} : RegisterToken(u, k, a)
  <2>1. /\ Posting
        /\ UNCHANGED <<unread, stored, fanWindow, fanouts, remindedAt, digestedAt,
                       dueStage, handler, fanned, told, raced>>
    BY <1>5 DEF UpdateQuietHours, ToggleMute, UnregisterToken, RegisterToken, markVars, tellVars
  <2>2. posts' \in 0..MaxPosts
    BY <2>1, PostsOK
  <2>3. quiet' \subseteq Recipients /\ muted' \subseteq Recipients
    BY <1>5 DEF UpdateQuietHours, ToggleMute, UnregisterToken, RegisterToken, NotificationsTypeOK
  <2>4. owner' \in [Tokens -> SUBSET [user : Recipients, audience : {"organizer", "attendee"}]]
    BY <1>5 DEF UpdateQuietHours, ToggleMute, UnregisterToken, RegisterToken, NotificationsTypeOK
  <2>5. NotificationsTypeOK' /\ FanoutsCapped'
    BY <2>1, <2>2, <2>3, <2>4 DEF NotificationsTypeOK, FanoutsCapped
  <2>6. unread'[Author][Reply] <= unread[Author][Reply]
    BY <1>1, <2>1
  <2> QED BY <2>1, <2>5, <2>6, AsideKeeps
<1> QED BY <1>2, <1>3, <1>4, <1>5 DEF NotificationsController

\* The fan-out, the digest and the clock.
LEMMA MarksKeep ==
  ASSUME NotificationsInv,
         \/ \E h \in Handlers : \/ EventPublished(h) \/ StartWindow(h) \/ ClaimSlot(h)
                                \/ SendDigest(h) \/ MarkDigested(h)
         \/ WindowEnds \/ ComesNear
  PROVE  NotificationsInv'
<1> USE DEF NotificationsInv
<1>1. /\ unread[Author][Reply] \in Nat /\ Author \in Recipients /\ Reply \in Types
      /\ MaxFanouts \in Nat \ {0}
  BY SomeFacts
<1>2. UNCHANGED <<stored, quiet, muted, owner, remindedAt, told, raced>> /\ posts' \in 0..MaxPosts
  BY PostsOK DEF EventPublished, StartWindow, ClaimSlot, SendDigest, MarkDigested, WindowEnds,
     ComesNear, markVars, tellVars, boxVars
<1>3. /\ unread' \in [Recipients -> [Types -> Nat]]
      /\ unread'[Author][Reply] = unread[Author][Reply]
  <2>1. CASE UNCHANGED unread
    BY <2>1 DEF NotificationsTypeOK
  <2>2. CASE ~UNCHANGED unread
    <3>1. PICK t \in Types \ {Reply}, to \in {AdminUsers, Members, Subscribers} :
            Send({Message(t, to)})
      <4>1. {"admin.event_published", "order.daily_digest",
             "attendee.new_event_from_subscription"} \subseteq Types \ {Reply}
        BY DEF Types, OrganizerTypes, AttendeeTypes, AdminTypes, Reply
      <4> QED BY <2>2, <4>1 DEF EventPublished, StartWindow, ClaimSlot, SendDigest, MarkDigested,
              WindowEnds, ComesNear, boxVars
    <3>2. IsFiniteSet({Message(t, to)}) /\ \A m \in {Message(t, to)} : m.type = t
      BY MessagesOK
    <3>3. \A m \in {Message(t, to)} : m.type # Reply
      BY <3>2
    <3> QED BY <1>1, <3>1, <3>2, <3>3, SendKeeps
  <2> QED BY <2>1, <2>2
<1>4. /\ fanWindow' \in {"none", "open", "over"} /\ fanouts' \in 0..MaxFanouts /\ fanned' \in Nat
      /\ FanoutsCapped'
  <2>1. \/ UNCHANGED <<fanouts, fanned>> \/ (fanouts' = 1 /\ fanned' = 1)
        \/ (fanouts < MaxFanouts /\ fanouts' = fanouts + 1 /\ fanned' = fanned + 1)
    BY DEF EventPublished, StartWindow, ClaimSlot, SendDigest, MarkDigested, WindowEnds,
       ComesNear, markVars, tellVars
  <2>2. fanWindow' \in {"none", "open", "over"}
    BY DEF EventPublished, StartWindow, ClaimSlot, SendDigest, MarkDigested, WindowEnds,
       ComesNear, markVars, tellVars, NotificationsTypeOK
  <2> QED BY <1>1, <2>1, <2>2 DEF NotificationsTypeOK, FanoutsCapped
<1>5. digestedAt' \in BOOLEAN /\ dueStage' \in BOOLEAN
  <2>1. (digestedAt' = digestedAt \/ digestedAt' = TRUE)
        /\ (dueStage' = dueStage \/ dueStage' = ~dueStage)
    BY DEF EventPublished, StartWindow, ClaimSlot, SendDigest, MarkDigested, WindowEnds,
       ComesNear, markVars, tellVars
  <2> QED BY <2>1 DEF NotificationsTypeOK
<1>6. /\ handler' \in [Handlers -> Work]
      /\ \A g \in Handlers : handler'[g].pc \in {"reply", "remind", "mark"} =>
                               handler'[g] = handler[g]
      /\ \A g \in Handlers : handler[g].pc = "mark" => handler'[g] = handler[g]
  <2>1. CASE UNCHANGED handler
    BY <2>1 DEF NotificationsTypeOK
  <2>2. CASE \E h \in Handlers : \/ EventPublished(h) \/ StartWindow(h) \/ ClaimSlot(h)
                                 \/ SendDigest(h) \/ MarkDigested(h)
    <3>1. PICK h \in Handlers : \/ EventPublished(h) \/ StartWindow(h) \/ ClaimSlot(h)
                                 \/ SendDigest(h) \/ MarkDigested(h)
      BY <2>2
    <3>2. PICK w \in Work : Onto(h, w) /\ w.pc \in {"wait", "reset", "fan", "digest"}
      <4>1. \A pc \in {"reply", "digest", "reset", "fan"} : [pc |-> pc] \in Work
        BY DEF Work
      <4>2. Waiting \in Work /\ Waiting.pc = "wait"
        BY DEF Work, Waiting
      <4> QED BY <3>1, <4>1, <4>2 DEF EventPublished, StartWindow, ClaimSlot, SendDigest, MarkDigested
    <3>3. handler[h].pc # "mark"
      BY <3>1 DEF EventPublished, StartWindow, ClaimSlot, SendDigest, MarkDigested, Works
    <3> QED BY <3>2, <3>3, OntoSets
  <2> QED BY <2>1, <2>2 DEF WindowEnds, ComesNear
<1>7. NotificationsTypeOK'
  BY <1>2, <1>3, <1>4, <1>5, <1>6 DEF NotificationsTypeOK
<1>8. unread'[Author][Reply] <= unread[Author][Reply]
  BY <1>1, <1>3
<1> QED BY <1>2, <1>4, <1>6, <1>7, <1>8, AsideKeeps

\* One listener tells of replies at a time, unless that is on record.
LEMMA ReplyKeeps ==
  ASSUME NotificationsInv, NEW h \in Handlers, HearReply(h) \/ TellReply(h)
  PROVE  NotificationsInv'
<1> USE DEF NotificationsInv
<1>1. unread[Author][Reply] \in Nat /\ Author \in Recipients /\ Reply \in Types
  BY SomeFacts
<1>2. /\ UNCHANGED <<stored, quiet, muted, owner, fanWindow, fanouts, remindedAt, digestedAt,
                     dueStage, fanned, told>>
      /\ posts' \in 0..MaxPosts
  BY PostsOK DEF HearReply, TellReply, markVars, tellVars, boxVars
<1>3. CASE HearReply(h)
  <2> DEFINE w == [pc |-> "reply"]
  <2>1. w \in Work /\ Onto(h, w) /\ w.pc = "reply"
    BY <1>3 DEF HearReply, Work
  <2> HIDE DEF w
  <2>2. /\ handler' \in [Handlers -> Work]
        /\ \A g \in Handlers : handler'[g] = IF g = h THEN w ELSE handler[g]
    BY <2>1, OntoSets
  <2>3. /\ unread' = unread /\ unread[Author][Reply] = 0 /\ handler[h].pc = "wait"
        /\ raced' = IF SomeoneWorks("reply") THEN raced \cup {"reply"} ELSE raced
    BY <1>3 DEF HearReply, boxVars, Reply, Works
  <2>4. raced' \subseteq {"reply", "remind"} /\ ("remind" \in raced' <=> "remind" \in raced)
    BY <2>3 DEF NotificationsTypeOK
  <2>5. NotificationsTypeOK' /\ FanoutsCapped'
    BY <1>2, <2>2, <2>3, <2>4 DEF NotificationsTypeOK, FanoutsCapped
  <2>6. RepliesOK'
    <3> SUFFICES ASSUME "reply" \notin raced'
                 PROVE  /\ unread'[Author][Reply] <= 1
                        /\ \A d \in Handlers : Works(d, "reply")' =>
                             /\ unread'[Author][Reply] = 0
                             /\ \A g \in Handlers : Works(g, "reply")' => g = d
      BY DEF RepliesOK
    <3>1. \A g \in Handlers : handler[g].pc # "reply"
      BY <2>3 DEF SomeoneWorks, Works
    <3>2. \A g \in Handlers : Works(g, "reply")' => g = h
      BY <2>2, <3>1 DEF Works
    <3> QED BY <2>3, <3>2
  <2>7. RemindersOK'
    <3>1. \A g \in Handlers : handler[g].pc \in {"remind", "mark"}
                                \/ handler'[g].pc \in {"remind", "mark"} =>
            handler'[g] = handler[g]
      BY <2>1, <2>2, <2>3
    <3> QED BY <1>2, <2>4, <3>1 DEF RemindersOK, Works
  <2> QED BY <2>5, <2>6, <2>7
<1>4. CASE TellReply(h)
  <2> DEFINE M == {Message(Reply, {Author})}
  <2>1. Send(M) /\ Onto(h, Waiting) /\ handler[h].pc = "reply" /\ raced' = raced
    BY <1>4 DEF TellReply, Works, Reply, tellVars
  <2>2. Waiting \in Work /\ Waiting.pc = "wait"
    BY DEF Work, Waiting
  <2>3. /\ handler' \in [Handlers -> Work]
        /\ \A g \in Handlers : handler'[g] = IF g = h THEN Waiting ELSE handler[g]
    BY <2>1, <2>2, OntoSets
  <2>4. IsFiniteSet(M) /\ Cardinality(M) = 1
    BY FS_Singleton
  <2> HIDE DEF M
  <2>5. /\ unread' \in [Recipients -> [Types -> Nat]]
        /\ unread'[Author][Reply] <= unread[Author][Reply] + 1
    BY <1>1, <2>1, <2>4, SendKeeps
  <2>6. NotificationsTypeOK' /\ FanoutsCapped'
    BY <1>2, <2>1, <2>3, <2>5 DEF NotificationsTypeOK, FanoutsCapped
  <2>7. RepliesOK'
    <3> SUFFICES ASSUME "reply" \notin raced'
                 PROVE  /\ unread'[Author][Reply] <= 1
                        /\ \A d \in Handlers : Works(d, "reply")' =>
                             /\ unread'[Author][Reply] = 0
                             /\ \A g \in Handlers : Works(g, "reply")' => g = d
      BY DEF RepliesOK
    <3>1. unread[Author][Reply] = 0 /\ \A g \in Handlers : handler[g].pc = "reply" => g = h
      BY <2>1 DEF RepliesOK, Works
    <3>2. \A g \in Handlers : ~Works(g, "reply")'
      BY <2>2, <2>3, <3>1 DEF Works
    <3>3. unread'[Author][Reply] <= 1
      BY <2>5, <3>1
    <3> QED BY <3>2, <3>3
  <2>8. RemindersOK'
    <3>1. \A g \in Handlers : handler[g].pc \in {"remind", "mark"}
                                \/ handler'[g].pc \in {"remind", "mark"} =>
            handler'[g] = handler[g]
      BY <2>1, <2>2, <2>3
    <3> QED BY <1>2, <2>1, <3>1 DEF RemindersOK, Works
  <2> QED BY <2>6, <2>7, <2>8
<1> QED BY <1>3, <1>4

\* One job reminds at a time, of an event without a mark, unless that is on
\* record.
LEMMA FindDueKeeps ==
  ASSUME NotificationsInv, NEW h \in Handlers, FindDue(h)
  PROVE  NotificationsInv'
<1> USE DEF NotificationsInv
<1>1. unread[Author][Reply] \in Nat /\ Author \in Recipients /\ Reply \in Types
  BY SomeFacts
<1> DEFINE w == [pc |-> "remind", to |-> Goers \ muted]
           M == {Message("event.starting_soon", Members)}
<1>2. /\ UNCHANGED <<stored, quiet, muted, owner, fanWindow, fanouts, remindedAt, digestedAt,
                     dueStage, fanned, told>>
      /\ posts' \in 0..MaxPosts /\ handler[h].pc = "wait" /\ ~remindedAt /\ Onto(h, w) /\ Send(M)
      /\ raced' = IF SomeoneWorks("remind") \/ SomeoneWorks("mark") THEN raced \cup {"remind"}
                  ELSE raced
  BY PostsOK DEF FindDue, markVars, Works
<1>3. w \in Work /\ w.pc = "remind"
  BY NotificationsAssumption DEF Work
<1> HIDE DEF w
<1>4. /\ handler' \in [Handlers -> Work]
      /\ \A g \in Handlers : handler'[g] = IF g = h THEN w ELSE handler[g]
  BY <1>2, <1>3, OntoSets
<1>5. IsFiniteSet(M) /\ \A m \in M : m.type # Reply
  <2>1. "event.starting_soon" \in Types /\ "event.starting_soon" # Reply
    BY DEF Types, OrganizerTypes, Reply
  <2>2. IsFiniteSet(M) /\ \A m \in M : m.type = "event.starting_soon"
    BY <2>1, MessagesOK
  <2> QED BY <2>1, <2>2
<1> HIDE DEF M
<1>6. /\ unread' \in [Recipients -> [Types -> Nat]]
      /\ unread'[Author][Reply] = unread[Author][Reply]
  BY <1>1, <1>2, <1>5, SendKeeps
<1>7. raced' \subseteq {"reply", "remind"} /\ ("reply" \in raced' <=> "reply" \in raced)
  BY <1>2 DEF NotificationsTypeOK
<1>8. NotificationsTypeOK' /\ FanoutsCapped'
  BY <1>2, <1>4, <1>6, <1>7 DEF NotificationsTypeOK, FanoutsCapped
<1>9. RepliesOK'
  <2>1. \A g \in Handlers : handler[g].pc = "reply" \/ handler'[g].pc = "reply" =>
          handler'[g] = handler[g]
    BY <1>2, <1>3, <1>4
  <2> QED BY <1>6, <1>7, <2>1 DEF RepliesOK, Works
<1>10. RemindersOK'
  <2> SUFFICES ASSUME "remind" \notin raced'
               PROVE  /\ \A u \in Recipients : told[u] = 0
                      /\ \A g \in Handlers : handler'[g].pc \in {"remind", "mark"} => g = h
    BY <1>2 DEF RemindersOK
  <2>1. /\ "remind" \notin raced
        /\ \A g \in Handlers : handler[g].pc \notin {"remind", "mark"}
    BY <1>2 DEF SomeoneWorks, Works
  <2>2. \A u \in Recipients : told[u] = 0
    BY <1>2, <2>1 DEF RemindersOK, Works
  <2> QED BY <1>4, <2>1, <2>2
<1> QED BY <1>8, <1>9, <1>10

LEMMA NotifyAttendeesKeeps ==
  ASSUME NotificationsInv, NEW h \in Handlers, NotifyAttendees(h)
  PROVE  NotificationsInv'
<1> USE DEF NotificationsInv
<1>1. unread[Author][Reply] \in Nat /\ Author \in Recipients /\ Reply \in Types
  BY SomeFacts
<1> DEFINE w == [pc |-> "mark", to |-> handler[h].to]
           M == {Message("attendee.event_starting_soon", handler[h].to)}
<1>2. /\ UNCHANGED <<stored, quiet, muted, owner, fanWindow, fanouts, remindedAt, digestedAt,
                     dueStage, fanned, posts, raced>>
      /\ handler[h].pc = "remind" /\ Onto(h, w) /\ Send(M)
      /\ told' = [u \in Recipients |-> IF u \in handler[h].to THEN told[u] + 1 ELSE told[u]]
  BY DEF NotifyAttendees, markVars, Works
<1>3. w \in Work /\ w.pc = "mark"
  <2>1. handler[h] \in [pc : {"remind", "mark"}, to : SUBSET Recipients]
    BY <1>2 DEF NotificationsTypeOK, Work, Waiting
  <2> QED BY <2>1 DEF Work
<1> HIDE DEF w
<1>4. /\ handler' \in [Handlers -> Work]
      /\ \A g \in Handlers : handler'[g] = IF g = h THEN w ELSE handler[g]
  BY <1>2, <1>3, OntoSets
<1>5. IsFiniteSet(M) /\ \A m \in M : m.type # Reply
  <2>1. "attendee.event_starting_soon" \in Types /\ "attendee.event_starting_soon" # Reply
    BY DEF Types, AttendeeTypes, Reply
  <2>2. IsFiniteSet(M) /\ \A m \in M : m.type = "attendee.event_starting_soon"
    BY <2>1, MessagesOK
  <2> QED BY <2>1, <2>2
<1> HIDE DEF M
<1>6. /\ unread' \in [Recipients -> [Types -> Nat]]
      /\ unread'[Author][Reply] = unread[Author][Reply]
  BY <1>1, <1>2, <1>5, SendKeeps
<1>7. told' \in [Recipients -> Nat] /\ \A u \in Recipients : told[u] = 0 => told'[u] <= 1
  BY <1>2 DEF NotificationsTypeOK
<1>8. NotificationsTypeOK' /\ FanoutsCapped'
  BY <1>2, <1>4, <1>6, <1>7 DEF NotificationsTypeOK, FanoutsCapped
<1>9. RepliesOK'
  <2>1. \A g \in Handlers : handler[g].pc = "reply" \/ handler'[g].pc = "reply" =>
          handler'[g] = handler[g]
    BY <1>2, <1>3, <1>4
  <2> QED BY <1>2, <1>6, <2>1 DEF RepliesOK, Works
<1>10. RemindersOK'
  <2> SUFFICES ASSUME "remind" \notin raced
               PROVE  /\ \A u \in Recipients : told'[u] <= 1
                      /\ \A g \in Handlers : handler'[g].pc \in {"remind", "mark"} => g = h
    BY <1>2, <1>3, <1>4 DEF RemindersOK, Works
  <2>1. /\ \A g \in Handlers : handler[g].pc \in {"remind", "mark"} => g = h
        /\ \A u \in Recipients : told[u] = 0
    BY <1>2 DEF RemindersOK
  <2> QED BY <1>4, <1>7, <2>1
<1> QED BY <1>8, <1>9, <1>10

\* The event is marked, or a crash is on record.
LEMMA HandlerEndsKeeps ==
  ASSUME NotificationsInv, NEW h \in Handlers, MarkReminded(h) \/ HandlerCrash(h)
  PROVE  NotificationsInv'
<1> USE DEF NotificationsInv
<1>1. /\ UNCHANGED <<unread, stored, quiet, muted, owner, fanWindow, fanouts, digestedAt,
                     dueStage, fanned, told>>
      /\ posts' \in 0..MaxPosts /\ Onto(h, Waiting)
      /\ remindedAt' \in {remindedAt, TRUE}
      /\ raced' \in {raced, raced \cup {"remind"}}
      /\ handler[h].pc = "mark" => "remind" \in raced' \/ remindedAt'
  BY PostsOK DEF MarkReminded, HandlerCrash, boxVars, markVars, tellVars, Works
<1>2. Waiting \in Work /\ Waiting.pc = "wait"
  BY DEF Work, Waiting
<1>3. /\ handler' \in [Handlers -> Work]
      /\ \A g \in Handlers : handler'[g] = IF g = h THEN Waiting ELSE handler[g]
  BY <1>1, <1>2, OntoSets
<1>4. /\ raced' \subseteq {"reply", "remind"} /\ ("reply" \in raced' <=> "reply" \in raced)
      /\ "remind" \notin raced' => "remind" \notin raced
  BY <1>1 DEF NotificationsTypeOK
<1>5. remindedAt' \in BOOLEAN
  BY <1>1 DEF NotificationsTypeOK
<1>6. NotificationsTypeOK' /\ FanoutsCapped'
  BY <1>1, <1>3, <1>4, <1>5 DEF NotificationsTypeOK, FanoutsCapped
<1>7. \A g \in Handlers : handler'[g].pc # "wait" => handler'[g] = handler[g]
  BY <1>2, <1>3
<1>8. RepliesOK'
  BY <1>1, <1>4, <1>7 DEF RepliesOK, Works
<1>9. RemindersOK'
  <2> SUFFICES ASSUME "remind" \notin raced'
               PROVE  /\ \A u \in Recipients : told[u] <= 1
                      /\ \A d \in Handlers : handler'[d].pc \in {"remind", "mark"} =>
                           /\ handler'[d].pc = "remind" => \A u \in Recipients : told[u] = 0
                           /\ \A g \in Handlers : handler'[g].pc \in {"remind", "mark"} => g = d
                      /\ \/ remindedAt'
                         \/ \E g \in Handlers : Works(g, "mark")'
                         \/ \A u \in Recipients : told[u] = 0
    BY <1>1 DEF RemindersOK
  <2>1. "remind" \notin raced
    BY <1>4
  <2>2. \A d \in Handlers : handler'[d].pc \in {"remind", "mark"} =>
          /\ handler'[d].pc = "remind" => \A u \in Recipients : told[u] = 0
          /\ \A g \in Handlers : handler'[g].pc \in {"remind", "mark"} => g = d
    BY <1>7, <2>1 DEF RemindersOK
  <2>3. ASSUME NEW g \in Handlers, Works(g, "mark")
        PROVE  remindedAt' \/ Works(g, "mark")'
    BY <1>1, <1>3, <2>3 DEF Works
  <2>4. remindedAt => remindedAt'
    BY <1>1
  <2> QED BY <2>1, <2>2, <2>3, <2>4 DEF RemindersOK
<1> QED BY <1>6, <1>8, <1>9

\* Inbox, reminders and fan-outs agree with what was sent, however listeners
\* and jobs overlap or stop.  (NotifierService, StartingSoonService,
\* EventPublishedListener, CommentRepliedListener)
THEOREM NotificationsInvariant == NotificationsSpec => []NotificationsInv
<1>1. NotificationsInit => NotificationsInv
  <2> SUFFICES ASSUME NotificationsInit PROVE NotificationsInv
    OBVIOUS
  <2>1. Waiting \in Work /\ Waiting.pc = "wait" /\ MaxFanouts \in Nat \ {0} /\ 0 \in 0..MaxPosts
        /\ 0 \in 0..MaxFanouts
    BY NotificationsAssumption DEF Work, Waiting
  <2>2. FALSE \in BOOLEAN
    OBVIOUS
  <2>3. /\ remindedAt \in BOOLEAN /\ digestedAt \in BOOLEAN /\ dueStage \in BOOLEAN
    BY <2>2 DEF NotificationsInit
  <2>4. NotificationsTypeOK
    BY <2>1, <2>3 DEF NotificationsInit, NotificationsTypeOK
  <2>5. unread[Author][Reply] = 0
    <3>1. Author \in Recipients /\ Reply \in Types
      BY <2>4, SomeFacts
    <3> QED BY <3>1 DEF NotificationsInit
  <2>6. \A h \in Handlers : handler[h].pc = "wait"
    BY <2>1 DEF NotificationsInit
  <2>7. RepliesOK /\ RemindersOK
    BY <2>5, <2>6 DEF RepliesOK, RemindersOK, Works, NotificationsInit
  <2>8. FanoutsCapped
    BY <2>1 DEF FanoutsCapped, NotificationsInit
  <2> QED BY <2>4, <2>7, <2>8 DEF NotificationsInv
<1>2. NotificationsInv /\ [NotificationsNext]_noteVars => NotificationsInv'
  <2> SUFFICES ASSUME NotificationsInv, [NotificationsNext]_noteVars
               PROVE  NotificationsInv'
    OBVIOUS
  <2>1. CASE UNCHANGED noteVars
    BY <2>1 DEF noteVars, boxVars, markVars, tellVars, NotificationsInv, NotificationsTypeOK,
       RepliesOK, RemindersOK, FanoutsCapped, Works
  <2>2. CASE NotificationsNext
    BY <2>2, UsersKeep, TellKeeps, MarksKeep, ReplyKeeps, FindDueKeeps, NotifyAttendeesKeeps,
       HandlerEndsKeeps DEF NotificationsNext
  <2> QED BY <2>1, <2>2
<1> QED BY <1>1, <1>2, PTL DEF NotificationsSpec

\* Nobody is told of a thread's replies twice before reading, or reminded of
\* an event twice, or followers of more events than the window allows, but for
\* overlaps and crashes on record.  (CommentRepliedListener,
\* StartingSoonService, EventPublishedListener)
THEOREM ToldAtMostOnce == NotificationsSpec => []ToldOnce
<1>1. NotificationsInv => ToldOnce
  BY DEF NotificationsInv, RepliesOK, RemindersOK, ToldOnce, OneReplyNotice, RemindedOnce, Reply
<1> QED BY <1>1, NotificationsInvariant, PTL

----------------------------------------------------------------------------
(* The modules side by side (module Mailings) *)

\* Whatever is in focus, each part does what its own module says, or nothing; of
\* the broadcasts nothing is asked but safety.
THEOREM MailingsKeepParts ==
  MailingsSpec => /\ BroadcastsInit /\ [][BroadcastsNext]_castVars
                  /\ AnnouncementsSpec /\ NotificationsSpec
<1>1. MailingsInit => BroadcastsInit /\ AnnouncementsInit /\ NotificationsInit
  BY DEF MailingsInit
<1>2. ASSUME [MailingsNext]_mailingVars
      PROVE  /\ [BroadcastsNext]_castVars /\ [AnnouncementsNext]_noticeVars
             /\ [NotificationsNext]_noteVars
  <2>1. CASE MailingsNext
    BY <2>1 DEF MailingsNext
  <2>2. CASE UNCHANGED mailingVars
    BY <2>2 DEF mailingVars
  <2> QED BY <1>2, <2>1, <2>2
<1> QED BY <1>1, <1>2, PTL DEF MailingsSpec, AnnouncementsSpec, NotificationsSpec

\* Whatever is sent, its rows, workers, tasks and handlers have the types of the
\* code's, with no counter below zero.
THEOREM MailingsTypeCorrect == MailingsSpec => []MailingsTypeOK
<1>1. /\ BroadcastsInv => BroadcastsTypeOK
      /\ AnnouncementsInv => AnnouncementsTypeOK
      /\ NotificationsInv => NotificationsTypeOK
  BY DEF BroadcastsInv, AnnouncementsInv, NotificationsInv
<1>2. MailingsSpec => [](focus \in Focuses)
  <2>1. MailingsInit => focus \in Focuses
    BY DEF MailingsInit
  <2>2. focus \in Focuses /\ [MailingsNext]_mailingVars => (focus \in Focuses)'
    BY DEF MailingsNext, mailingVars, Focuses
  <2> QED BY <2>1, <2>2, PTL DEF MailingsSpec
<1>3. /\ BroadcastsTypeOK /\ AnnouncementsTypeOK /\ NotificationsTypeOK /\ focus \in Focuses
      => MailingsTypeOK
  BY DEF MailingsTypeOK, Focuses
<1> QED
  BY <1>1, <1>2, <1>3, MailingsKeepParts, BroadcastsInvAlways, AnnouncementsInvariant,
     NotificationsInvariant, PTL

\* What is promised of the broadcasts, the announcements and the notifications on
\* their own holds of them together, whatever is in focus.
THEOREM MailingsAreExplained ==
  MailingsSpec => [](BroadcastsExplained /\ AudienceReached /\ ToldOnce)
BY MailingsKeepParts, BroadcastsInvAlways, BroadcastsExplain, AudienceIsReached, ToldAtMostOnce, PTL

=============================================================================
