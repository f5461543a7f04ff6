--------------------------- MODULE Announcements ---------------------------
(***************************************************************************)
(* The announcements of the platform to a segment of its users: drafted,   *)
(* scheduled, cancelled and sent by admins, and sent by a cron job every   *)
(* minute once they are due.                                               *)
(*                                                                         *)
(* Every request reads the row, checks its status and writes it by its id, *)
(* in two steps.  A delivery goes through the users in the order of their  *)
(* ids, a chunk at a time, from a cursor: the next chunk is what matches   *)
(* the segment from the cursor's row on, less its first row.  People come  *)
(* and go, and opt out of marketing, between two chunks.                   *)
(***************************************************************************)
EXTENDS Integers, FiniteSets

CONSTANTS Notices,   \* announcement ids
          Readers,   \* the highest user id: users are 1..Readers
          Admins,    \* requests and cron jobs running at the same time
          UserChunk, \* USER_CHUNK
          MaxEdits   \* bound on requests, and on users who leave

ASSUME AnnouncementsAssumption ==
  /\ Readers \in Nat /\ UserChunk \in Nat \ {0} /\ MaxEdits \in Nat

VARIABLES notice,     \* [Notices -> NoticeStatus]
          due,        \* scheduled announcements whose time has come
          marketing,  \* announcements of kind marketing
          present,    \* users that exist and are not suspended
          account,    \* users that exist
          optIn,      \* users who agreed to marketing
          tally,      \* [Notices -> [recipients, email, failed : Nat]]
          task,       \* [Admins -> Task] (volatile)
          edits,
          received,   \* history: [Notices -> [users -> 0..2]], 2 for more than once
          owed,       \* history: [Notices -> the audience at its claim that stayed]
          doubled,    \* history: announcements written on stale news of their status
          skipped     \* history: announcements whose cursor left between two chunks

users == <<present, account, optIn>>
sendHistory == <<received, owed, doubled, skipped>>
noticeVars == <<notice, due, marketing, users, tally, task, edits, sendHistory>>

Users == 1..Readers
NoticeStatus ==
  {"none", "draft", "scheduled", "sending", "sent", "cancelled", "failed", "gone"}

\* AudienceSegmentService.where: users who are not suspended and, for
\* marketing, agreed.  (Roles, cities and the like select like these.)
Segment(consent) == IF consent THEN present \cap optIn ELSE present

Resting == [pc |-> "rest"]
Task ==
  {Resting}
    \cup [pc : {"update", "remove", "schedule", "cancel", "send"}, notice : Notices]
    \cup [pc : {"deliver", "fan", "finish"}, notice : Notices, consent : BOOLEAN,
          cursor : 0..Readers, chunk : SUBSET Users,
          recipients : Nat, email : Nat, failed : Nat]

AnnouncementsTypeOK ==
  /\ notice \in [Notices -> NoticeStatus]
  /\ due \subseteq Notices /\ marketing \subseteq Notices
  /\ present \subseteq account /\ account \subseteq Users /\ optIn \subseteq account
  /\ tally \in [Notices -> [recipients : Nat, email : Nat, failed : Nat]]
  /\ task \in [Admins -> Task] /\ edits \in 0..MaxEdits
  /\ received \in [Notices -> [Users -> 0..2]]
  /\ owed \in [Notices -> SUBSET Users]
  /\ doubled \subseteq Notices /\ skipped \subseteq Notices

AnnouncementsInit ==
  /\ notice = [a \in Notices |-> "none"]
  /\ due = {} /\ marketing = {}
  /\ present = Users /\ account = Users /\ optIn = Users
  /\ tally = [a \in Notices |-> [recipients |-> 0, email |-> 0, failed |-> 0]]
  /\ task = [i \in Admins |-> Resting] /\ edits = 0
  /\ received = [a \in Notices |-> [u \in Users |-> 0]]
  /\ owed = [a \in Notices |-> {}]
  /\ doubled = {} /\ skipped = {}

Busy(i, pc) == task[i].pc = pc
Set(i, t) == task' = [task EXCEPT ![i] = t]
Rest(i) == Set(i, Resting)
Edit == edits < MaxEdits /\ edits' = edits + 1
Become(a, s) == notice' = [notice EXCEPT ![a] = s]
Least(S) == CHOOSE u \in S : \A v \in S : u <= v
Greatest(S) == CHOOSE u \in S : \A v \in S : v <= u

----------------------------------------------------------------------------
(* AdminBroadcastService: drafts *)

CreateNotice(a, isMarketing) ==
  /\ Edit /\ notice[a] = "none"
  /\ Become(a, "draft")
  /\ marketing' = IF isMarketing THEN marketing \cup {a} ELSE marketing
  /\ UNCHANGED <<due, users, tally, task, sendHistory>>

\* update, remove, schedule and cancel: the row is read and its status checked.
AssertDraft(i, a, pc) ==
  /\ Busy(i, "rest") /\ Edit
  /\ notice[a] \in IF pc = "cancel" THEN {"draft", "scheduled"} ELSE {"draft"}
  /\ Set(i, [pc |-> pc, notice |-> a])
  /\ UNCHANGED <<notice, due, marketing, users, tally, sendHistory>>

\* The row is written by its id; what is gone by then cannot be.
Write(i, pc, s, expected) ==
  LET a == task[i].notice
  IN /\ Busy(i, pc) /\ Rest(i)
     /\ IF notice[a] = "gone" THEN UNCHANGED notice ELSE Become(a, s)
     /\ doubled' = IF notice[a] \in expected \cup {"gone"} THEN doubled ELSE doubled \cup {a}
     /\ UNCHANGED <<due, users, tally, edits, received, owed, skipped>>

\* The kind may change, even while the announcement is sent by now.
UpdateNotice(i, isMarketing) ==
  LET a == task[i].notice
  IN /\ Write(i, "update", notice[a], NoticeStatus)
     /\ marketing' = IF isMarketing THEN marketing \cup {a} ELSE marketing \ {a}

RemoveNotice(i) == Write(i, "remove", "gone", {"draft"}) /\ UNCHANGED marketing
ScheduleNotice(i) == Write(i, "schedule", "scheduled", {"draft"}) /\ UNCHANGED marketing
CancelNotice(i) ==
  Write(i, "cancel", "cancelled", {"draft", "scheduled"}) /\ UNCHANGED marketing

----------------------------------------------------------------------------
(* AdminBroadcastService: sending *)

\* send, up to the claim: the status and the count of the audience are read.
Preview(a) ==
  /\ notice[a] \in {"draft", "scheduled"}
  /\ Segment(a \in marketing) # {}

AskSend(i, a) ==
  /\ Busy(i, "rest") /\ Edit /\ Preview(a)
  /\ Set(i, [pc |-> "send", notice |-> a])
  /\ UNCHANGED <<notice, due, marketing, users, tally, sendHistory>>

\* runDue, every minute: what is due is sent, one after another.
RunDue(i, a) ==
  /\ Busy(i, "rest") /\ a \in due /\ notice[a] = "scheduled" /\ Preview(a)
  /\ Set(i, [pc |-> "send", notice |-> a])
  /\ UNCHANGED <<notice, due, marketing, users, tally, edits, sendHistory>>

\* The time of a scheduled announcement comes.
ComesDue(a) ==
  /\ notice[a] = "scheduled" /\ a \notin due
  /\ due' = due \cup {a}
  /\ UNCHANGED <<notice, marketing, users, tally, task, edits, sendHistory>>

\* By id only: two sends that read the status before either claims deliver twice.
ClaimNotice(i) ==
  LET a == task[i].notice  consent == a \in marketing
  IN /\ Busy(i, "send") /\ notice[a] # "gone"
     /\ Become(a, "sending")
     /\ Set(i, [pc |-> "deliver", notice |-> a, consent |-> consent, cursor |-> 0,
                chunk |-> {}, recipients |-> 0, email |-> 0, failed |-> 0])
     /\ doubled' = IF notice[a] \in {"draft", "scheduled"} THEN doubled ELSE doubled \cup {a}
     /\ owed' = [owed EXCEPT ![a] = Segment(consent)]
     /\ UNCHANGED <<due, marketing, users, tally, edits, received, skipped>>

ClaimGone(i) ==
  /\ Busy(i, "send") /\ notice[task[i].notice] = "gone" /\ Rest(i)
  /\ UNCHANGED <<notice, due, marketing, users, tally, edits, sendHistory>>

First(rows) == {u \in rows : Cardinality({v \in rows : v < u}) < UserChunk}

\* Mutant of Page: the page starts at the cursor's row.
PageFromCursor(consent, cursor) == First({u \in Segment(consent) : u >= cursor})
\* The page of a cursor: nothing if the cursor's row is gone, and less the
\* first row, which is another user's if the cursor's no longer matches.
Page(consent, cursor) ==
  LET from == {u \in Segment(consent) : u >= cursor}
  IN IF cursor = 0 THEN First(from)
     ELSE IF cursor \notin account \/ from = {} THEN {}
     ELSE First(from \ {Least(from)})

\* The next users, in the order of their ids; none are left in the end.
LoadChunk(i) ==
  LET t == task[i]  page == Page(t.consent, t.cursor)
  IN /\ Busy(i, "deliver")
     /\ IF page = {} THEN Set(i, [t EXCEPT !.pc = "finish"])
        ELSE Set(i, [t EXCEPT !.pc = "fan", !.chunk = page,
                              !.recipients = @ + Cardinality(page)])
     /\ skipped' = IF t.cursor \in {0} \cup Segment(t.consent) THEN skipped
                   ELSE skipped \cup {t.notice}
     /\ UNCHANGED <<notice, due, marketing, users, tally, edits, received, owed, doubled>>

\* sendInapp, sendPush, sendEmail: to everyone of the chunk as it was read; a
\* mail that cannot be sent is counted.  A short chunk is the last.
Fan(i, bounced) ==
  LET t == task[i]
      all == Cardinality(t.chunk)  bad == Cardinality(bounced)
  IN /\ Busy(i, "fan") /\ bounced \subseteq t.chunk
     /\ received' = [received EXCEPT ![t.notice] =
          [u \in Users |-> IF u \in t.chunk /\ @[u] < 2 THEN @[u] + 1 ELSE @[u]]]
     /\ Set(i, [t EXCEPT !.pc = IF all < UserChunk THEN "finish" ELSE "deliver",
                         !.cursor = Greatest(t.chunk),
                         !.chunk = {}, !.email = @ + all - bad, !.failed = @ + bad])
     /\ UNCHANGED <<notice, due, marketing, users, tally, edits, owed, doubled, skipped>>

FinishNotice(i) ==
  LET t == task[i]  a == t.notice
  IN /\ Busy(i, "finish") /\ Rest(i)
     /\ IF notice[a] = "gone" THEN UNCHANGED <<notice, tally>>
        ELSE /\ Become(a, "sent")
             /\ tally' = [tally EXCEPT ![a] =
                  [recipients |-> t.recipients, email |-> t.email, failed |-> t.failed]]
     /\ UNCHANGED <<due, marketing, users, edits, sendHistory>>

\* The in-app rows or the push service throw: the announcement has failed.
FailNotice(i) ==
  LET a == task[i].notice
  IN /\ Busy(i, "fan") /\ Edit /\ Rest(i)
     /\ IF notice[a] = "gone" THEN UNCHANGED notice ELSE Become(a, "failed")
     /\ UNCHANGED <<due, marketing, users, tally, sendHistory>>

\* The process stops: what it was sending stays so, and nothing takes it up.
SenderCrash ==
  /\ Edit /\ \E i \in Admins : task[i] # Resting
  /\ task' = [i \in Admins |-> Resting]
  /\ UNCHANGED <<notice, due, marketing, users, tally, sendHistory>>

----------------------------------------------------------------------------
(* The users *)

Left(u) == owed' = [a \in Notices |-> owed[a] \ {u}]

\* unsubscribeMarketing, by the signed link of the mail.
UnsubscribeMarketing(u) ==
  /\ Edit /\ u \in optIn /\ optIn' = optIn \ {u} /\ Left(u)
  /\ UNCHANGED <<notice, due, marketing, present, account, tally, task, received, doubled,
                 skipped>>

\* A suspension, and the deletion of an account.
SuspendReader(u) ==
  /\ Edit /\ u \in present /\ present' = present \ {u} /\ Left(u)
  /\ UNCHANGED <<notice, due, marketing, account, optIn, tally, task, received, doubled,
                 skipped>>

DeleteReader(u) ==
  /\ Edit /\ u \in account
  /\ account' = account \ {u} /\ present' = present \ {u} /\ optIn' = optIn \ {u}
  /\ Left(u)
  /\ UNCHANGED <<notice, due, marketing, tally, task, received, doubled, skipped>>

----------------------------------------------------------------------------
(* The routes and the cron job *)

AnnouncementsController ==
  \E a \in Notices :
    \/ \E k \in BOOLEAN : CreateNotice(a, k)
    \/ \E i \in Admins :
         \/ AskSend(i, a)
         \/ \E pc \in {"update", "remove", "schedule", "cancel"} : AssertDraft(i, a, pc)

WriteNotice(i) ==
  \/ \E k \in BOOLEAN : UpdateNotice(i, k)
  \/ RemoveNotice(i) \/ ScheduleNotice(i) \/ CancelNotice(i)

Deliver(i) ==
  \/ ClaimNotice(i) \/ ClaimGone(i) \/ LoadChunk(i) \/ FinishNotice(i)
  \/ \E bounced \in SUBSET Users : Fan(i, bounced)

AnnouncementsNext ==
  \/ AnnouncementsController
  \/ \E i \in Admins : WriteNotice(i) \/ Deliver(i) \/ FailNotice(i)
  \/ \E a \in Notices : ComesDue(a) \/ \E i \in Admins : RunDue(i, a)
  \/ \E u \in Users : UnsubscribeMarketing(u) \/ SuspendReader(u) \/ DeleteReader(u)
  \/ SenderCrash

AnnouncementsSpec == AnnouncementsInit /\ [][AnnouncementsNext]_noticeVars

----------------------------------------------------------------------------
(* Properties *)

\* An announcement written only on fresh news of its status reaches nobody
\* before it is claimed and nobody twice; and once sent it has reached all of
\* its audience that stayed, unless the user its cursor stood at had left.
AudienceReached ==
  \A a \in Notices \ doubled :
    /\ \A u \in Users : received[a][u] < 2
    /\ notice[a] \in {"draft", "scheduled", "cancelled"} =>
         \A u \in Users : received[a][u] = 0
    /\ (notice[a] = "sent" /\ a \notin skipped) =>
         /\ \A u \in owed[a] : received[a][u] = 1
         /\ tally[a].email + tally[a].failed = tally[a].recipients
=============================================================================
