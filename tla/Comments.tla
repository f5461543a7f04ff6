------------------------------ MODULE Comments ------------------------------
(***************************************************************************)
(* The comments of one event: posting, replying, liking, flagging and      *)
(* deleting them, the organiser's and the admin's moderation, and the      *)
(* reports that may delete one.                                            *)
(*                                                                         *)
(* Counters are kept beside the rows and changed in the same transaction,  *)
(* by amounts that a request may have read before it.  What the database's *)
(* cascades delete leaves the counters alone.                              *)
(***************************************************************************)
EXTENDS Integers, FiniteSets

CONSTANTS Notes,    \* comment ids a run may create
          People,   \* accounts: authors, organisers and admins
          Threads,  \* requests running at the same time
          DailyCap, \* reports.daily_cap_per_user
          MaxActs   \* bound on the requests

ASSUME CommentsAssumption == DailyCap \in Nat /\ MaxActs \in Nat
\* NoOne is nobody, and Top no comment.
ASSUME NoOneAssumption == "no one" \notin People /\ "top" \notin Notes

VARIABLES open,          \* the event is shown and its comments are not locked
          author,        \* [Notes -> People \cup {NoOne}]: the rows; NoOne when there is none
          parent,        \* [Notes -> Notes \cup {Top}]
          used,          \* comment ids given
          likes, flags,  \* event_comment_likes and event_comment_flags
          likesCount, repliesCount, flagsCount, \* [Notes -> Int]
          commentsCount, \* comments_count of the event
          blocks,        \* <<blocker, blocked>> users
          gone,          \* deleted accounts
          report,        \* [People -> [Notes -> ReportStatus]]: reports
          today,         \* [People -> Nat]: reports filed today
          thread,        \* [Threads -> Job] (volatile)
          acts,          \* requests so far
          drifted,       \* history: comments whose replies went by a cascade
          adrift,        \* history: comments went that the event did not count out
          washed,        \* history: comments whose flags changed beside a dismissal, or by a cascade
          slipped,       \* history: comments posted after the event had closed
          rushed         \* history: people who filed two reports side by side

rows == <<author, parent, used>>
tallies == <<likesCount, repliesCount, flagsCount, commentsCount>>
reports == <<report, today>>
notes == <<drifted, adrift, washed, slipped, rushed>>
people == <<blocks, gone>>
commentVars == <<open, rows, likes, flags, tallies, people, reports, thread, acts, notes>>

NoOne == "no one"
Top == "top"
ReportStatus == {"none", "open", "under_review", "actioned", "dismissed"}
Here == {c \in Notes : author[c] # NoOne}
Replies(c) == {r \in Here : parent[r] = c}
LikesOf(c) == {p \in People : <<c, p>> \in likes}
FlagsOf(c) == {p \in People : <<c, p>> \in flags}

Free == [pc |-> "free"]
Job ==
  {Free}
    \cup [pc : {"post"}, by : People, to : Notes \cup {Top}]
    \cup [pc : {"delete"}, note : Notes, replies : Int]
    \cup [pc : {"dismiss"}, note : Notes, cleared : SUBSET People]
    \cup [pc : {"report"}, by : People, note : Notes]

CommentsTypeOK ==
  /\ open \in BOOLEAN
  /\ author \in [Notes -> People \cup {NoOne}] /\ parent \in [Notes -> Notes \cup {Top}]
  /\ used \subseteq Notes
  /\ likes \subseteq Notes \X People /\ flags \subseteq Notes \X People
  /\ likesCount \in [Notes -> Int] /\ repliesCount \in [Notes -> Int]
  /\ flagsCount \in [Notes -> Int] /\ commentsCount \in Int
  /\ blocks \subseteq People \X People /\ gone \subseteq People
  /\ report \in [People -> [Notes -> ReportStatus]] /\ today \in [People -> Nat]
  /\ thread \in [Threads -> Job] /\ acts \in 0..MaxActs
  /\ drifted \subseteq Notes /\ adrift \in BOOLEAN /\ washed \subseteq Notes
  /\ slipped \subseteq Notes /\ rushed \subseteq People

CommentsInit ==
  /\ open = TRUE
  /\ author = [c \in Notes |-> NoOne] /\ parent = [c \in Notes |-> Top] /\ used = {}
  /\ likes = {} /\ flags = {}
  /\ likesCount = [c \in Notes |-> 0] /\ repliesCount = [c \in Notes |-> 0]
  /\ flagsCount = [c \in Notes |-> 0] /\ commentsCount = 0
  /\ blocks = {} /\ gone = {}
  /\ report = [p \in People |-> [c \in Notes |-> "none"]] /\ today = [p \in People |-> 0]
  /\ thread = [d \in Threads |-> Free] /\ acts = 0
  /\ drifted = {} /\ adrift = FALSE /\ washed = {} /\ slipped = {} /\ rushed = {}

At(d, pc) == thread[d].pc = pc
Take(d, j) == thread' = [thread EXCEPT ![d] = j]
Leave(d) == Take(d, Free)
Act == acts < MaxActs /\ acts' = acts + 1
Ask(d) == Act /\ At(d, "free")

\* The request ends here: refused by the database, or the process dies.
Quit(d) ==
  /\ thread[d] # Free /\ Leave(d)
  /\ UNCHANGED <<open, rows, likes, flags, tallies, people, reports, acts, notes>>

\* The rows of dead leave with all that hangs on them.
Cascade(dead) ==
  /\ author' = [c \in Notes |-> IF c \in dead THEN NoOne ELSE author[c]]
  /\ likes' = {l \in likes : l[1] \notin dead}
  /\ flags' = {f \in flags : f[1] \notin dead}
  /\ UNCHANGED <<parent, used>>
WithReplies(dead) == dead \cup {r \in Here : parent[r] \in dead}

----------------------------------------------------------------------------
(* CommentsService *)

\* The event is as the controller loaded it; a reply is to a top-level comment.
EnsureOpen(d, p, q) ==
  /\ Ask(d) /\ p \notin gone /\ open
  /\ q # Top => q \in Here /\ parent[q] = Top
  /\ Take(d, [pc |-> "post", by |-> p, to |-> q])
  /\ UNCHANGED <<open, rows, likes, flags, tallies, people, reports, notes>>

Post(d, c) ==
  LET q == thread[d].to
  IN /\ At(d, "post") /\ c \notin used /\ thread[d].by \notin gone
     /\ q # Top => q \in Here
     /\ used' = used \cup {c}
     /\ author' = [author EXCEPT ![c] = thread[d].by]
     /\ parent' = [parent EXCEPT ![c] = q]
     /\ repliesCount' = IF q = Top THEN repliesCount ELSE [repliesCount EXCEPT ![q] = @ + 1]
     /\ commentsCount' = commentsCount + 1
     /\ slipped' = IF open THEN slipped ELSE slipped \cup {c}
     /\ Leave(d)
     /\ UNCHANGED <<open, likes, flags, likesCount, flagsCount, people, reports, acts,
                    drifted, adrift, washed, rushed>>

\* The author or an admin deletes a comment as it was loaded.
LoadForDelete(d, c) ==
  /\ Ask(d) /\ c \in Here
  /\ Take(d, [pc |-> "delete", note |-> c, replies |-> repliesCount[c]])
  /\ UNCHANGED <<open, rows, likes, flags, tallies, people, reports, notes>>

\* Mutant of Delete: the replies that go with a comment are not counted.
DeleteOne(d) ==
  LET c == thread[d].note
  IN /\ At(d, "delete") /\ c \in Here
     /\ Cascade(WithReplies({c}))
     /\ repliesCount' = IF parent[c] = Top THEN repliesCount
                        ELSE [repliesCount EXCEPT ![parent[c]] = @ - 1]
     /\ commentsCount' = commentsCount - 1
     /\ adrift' = (adrift \/ thread[d].replies # Cardinality(Replies(c)))
     /\ Leave(d)
     /\ UNCHANGED <<open, likesCount, flagsCount, people, reports, acts, drifted, washed, slipped, rushed>>

\* The event counts out the replies that were there when it was loaded.
Delete(d) ==
  LET c == thread[d].note
  IN /\ At(d, "delete") /\ c \in Here
     /\ Cascade(WithReplies({c}))
     /\ repliesCount' = IF parent[c] = Top THEN repliesCount
                        ELSE [repliesCount EXCEPT ![parent[c]] = @ - 1]
     /\ commentsCount' = commentsCount - (1 + thread[d].replies)
     /\ adrift' = (adrift \/ thread[d].replies # Cardinality(Replies(c)))
     /\ Leave(d)
     /\ UNCHANGED <<open, likesCount, flagsCount, people, reports, acts, drifted, washed, slipped, rushed>>

Like(p, c) ==
  /\ Act /\ p \notin gone /\ c \in Here /\ <<c, p>> \notin likes
  /\ likes' = likes \cup {<<c, p>>}
  /\ likesCount' = [likesCount EXCEPT ![c] = @ + 1]
  /\ UNCHANGED <<open, rows, flags, repliesCount, flagsCount, commentsCount, people, reports,
                 thread, notes>>

Unlike(p, c) ==
  /\ Act /\ <<c, p>> \in likes
  /\ likes' = likes \ {<<c, p>>}
  /\ likesCount' = [likesCount EXCEPT ![c] = @ - 1]
  /\ UNCHANGED <<open, rows, flags, repliesCount, flagsCount, commentsCount, people, reports,
                 thread, notes>>

\* A dismissal has p's flag on c: nobody changes it before it commits.
Dismissed(c, p) == \E d \in Threads : At(d, "dismiss") /\ thread[d].note = c /\ p \in thread[d].cleared

Flag(p, c) ==
  /\ Act /\ p \notin gone /\ c \in Here /\ <<c, p>> \notin flags
  /\ flags' = flags \cup {<<c, p>>}
  /\ flagsCount' = [flagsCount EXCEPT ![c] = @ + 1]
  /\ washed' = IF \E d \in Threads : At(d, "dismiss") /\ thread[d].note = c
               THEN washed \cup {c} ELSE washed
  /\ UNCHANGED <<open, rows, likes, likesCount, repliesCount, commentsCount, people, reports,
                 thread, drifted, adrift, slipped, rushed>>

Unflag(p, c) ==
  /\ Act /\ <<c, p>> \in flags /\ ~Dismissed(c, p)
  /\ flags' = flags \ {<<c, p>>}
  /\ flagsCount' = [flagsCount EXCEPT ![c] = @ - 1]
  /\ washed' = IF \E d \in Threads : At(d, "dismiss") /\ thread[d].note = c
               THEN washed \cup {c} ELSE washed
  /\ UNCHANGED <<open, rows, likes, likesCount, repliesCount, commentsCount, people, reports,
                 thread, drifted, adrift, slipped, rushed>>

\* dismissAllFlags: the flags that are there go, and then the counter is
\* zeroed; a second dismissal waits for the first.
Dismiss(d, c) ==
  /\ Ask(d) /\ c \in Here /\ FlagsOf(c) # {}
  /\ \A p \in FlagsOf(c) : ~Dismissed(c, p)
  /\ Take(d, [pc |-> "dismiss", note |-> c, cleared |-> FlagsOf(c)])
  /\ UNCHANGED <<open, rows, likes, flags, tallies, people, reports, notes>>

ZeroFlags(d) ==
  LET c == thread[d].note
  IN /\ At(d, "dismiss") /\ c \in Here
     /\ flags' = flags \ ({c} \X thread[d].cleared)
     /\ flagsCount' = [flagsCount EXCEPT ![c] = 0]
     /\ Leave(d)
     /\ UNCHANGED <<open, rows, likes, likesCount, repliesCount, commentsCount, people, reports,
                    acts, notes>>

----------------------------------------------------------------------------
(* CommentListingService: what a viewer is shown.  Blocks hide both ways.   *)

MutuallyBlocked(v) == {p \in People : <<v, p>> \in blocks \/ <<p, v>> \in blocks}
TopLevel(v) == {c \in Here : /\ parent[c] = Top /\ flagsCount[c] = 0
                             /\ author[c] \notin MutuallyBlocked(v)}
RepliesShown(v, q) ==
  IF q \in Here /\ parent[q] = Top /\ flagsCount[q] = 0
  THEN {r \in Replies(q) : flagsCount[r] = 0 /\ author[r] \notin MutuallyBlocked(v)}
  ELSE {}
Shown(v) == TopLevel(v) \cup UNION {RepliesShown(v, q) : q \in Here}

----------------------------------------------------------------------------
(* ReportsService and ReportModerationService *)

\* The daily cap is counted, the comment looked up, and one's own refused.
EnsureReportable(d, p, c) ==
  /\ Ask(d) /\ p \notin gone /\ today[p] < DailyCap
  /\ c \in Here /\ author[c] # p
  /\ rushed' = IF \E e \in Threads : At(e, "report") /\ thread[e].by = p
               THEN rushed \cup {p} ELSE rushed
  /\ Take(d, [pc |-> "report", by |-> p, note |-> c])
  /\ UNCHANGED <<open, rows, likes, flags, tallies, people, reports, drifted, adrift, washed, slipped>>

\* One report of a reporter on a target.
File(d) ==
  LET p == thread[d].by  c == thread[d].note
  IN /\ At(d, "report") /\ p \notin gone /\ report[p][c] = "none"
     /\ report' = [report EXCEPT ![p][c] = "open"]
     /\ today' = [today EXCEPT ![p] = @ + 1]
     /\ Leave(d)
     /\ UNCHANGED <<open, rows, likes, flags, tallies, people, acts, notes>>

NextDay ==
  /\ Act /\ today' = [p \in People |-> 0]
  /\ UNCHANGED <<open, rows, likes, flags, tallies, people, report, thread, notes>>

\* startReview and dismiss look at no status; bulkDismiss leaves a settled one.
Review(p, c, st) ==
  /\ Act /\ report[p][c] # "none" /\ st \in {"under_review", "dismissed"}
  /\ report' = [report EXCEPT ![p][c] = st]
  /\ UNCHANGED <<open, rows, likes, flags, tallies, people, today, thread, notes>>

BulkDismiss ==
  /\ Act
  /\ report' = [p \in People |-> [c \in Notes |->
       IF report[p][c] \in {"open", "under_review"} THEN "dismissed" ELSE report[p][c]]]
  /\ UNCHANGED <<open, rows, likes, flags, tallies, people, today, thread, notes>>

\* The comment goes with its replies, and no counter is told.
Action(p, c, deleteTarget) ==
  /\ Act /\ report[p][c] # "none"
  /\ report' = [report EXCEPT ![p][c] = "actioned"]
  /\ IF deleteTarget /\ c \in Here
     THEN /\ Cascade(WithReplies({c}))
          /\ drifted' = drifted \cup ({parent[c]} \ {Top})
          /\ adrift' = TRUE
     ELSE UNCHANGED <<rows, likes, flags, drifted, adrift>>
  /\ UNCHANGED <<open, tallies, people, today, thread, washed, slipped, rushed>>

----------------------------------------------------------------------------
(* What the requests read: the event's state, blocks, and accounts *)

\* publish, unpublish, lockComments, unlockComments, the feature flag.
SetOpen(b) ==
  /\ Act /\ open # b /\ open' = b
  /\ UNCHANGED <<rows, likes, flags, tallies, people, reports, thread, notes>>

Block(p, q) ==
  /\ Act /\ p # q /\ {p, q} \cap gone = {} /\ blocks' = blocks \cup {<<p, q>>}
  /\ UNCHANGED <<gone, open, rows, likes, flags, tallies, reports, thread, notes>>

\* Deleting an account takes its comments, likes, flags and reports along.
AccountGone(p) ==
  LET mine == {c \in Here : author[c] = p}
      dead == WithReplies(mine)
  IN /\ Act /\ p \notin gone /\ gone' = gone \cup {p}
     /\ author' = [c \in Notes |-> IF c \in dead THEN NoOne ELSE author[c]]
     /\ likes' = {l \in likes : l[1] \notin dead /\ l[2] # p}
     /\ flags' = {f \in flags : f[1] \notin dead /\ f[2] # p}
     /\ blocks' = {b \in blocks : b[1] # p}
     /\ report' = [report EXCEPT ![p] = [c \in Notes |-> "none"]]
     /\ drifted' = drifted \cup ({parent[c] : c \in mine} \ {Top})
     /\ adrift' = (adrift \/ mine # {})
     /\ washed' = washed \cup {c \in Notes : p \in FlagsOf(c)}
     /\ UNCHANGED <<open, parent, used, tallies, today, thread, slipped, rushed>>

----------------------------------------------------------------------------
(* The routes *)

AttendeeCommentsController ==
  \/ \E p \in People, c \in Notes : Like(p, c) \/ Unlike(p, c)
  \/ \E d \in Threads :
       \/ \E p \in People, q \in Notes \cup {Top} : EnsureOpen(d, p, q)
       \/ \E c \in Notes : Post(d, c) \/ LoadForDelete(d, c)
       \/ Delete(d)

ModerationController == \E p \in People, c \in Notes : Flag(p, c) \/ Unflag(p, c)

AdminCommentsController ==
  \E d \in Threads : ZeroFlags(d) \/ \E c \in Notes : Dismiss(d, c)

ReportsController ==
  \E d \in Threads : File(d) \/ \E p \in People, c \in Notes : EnsureReportable(d, p, c)

AdminReportsController ==
  \/ BulkDismiss
  \/ \E p \in People, c \in Notes :
       \/ \E st \in ReportStatus : Review(p, c, st)
       \/ \E b \in BOOLEAN : Action(p, c, b)

CommentsNext ==
  \/ AttendeeCommentsController \/ ModerationController \/ AdminCommentsController
  \/ ReportsController \/ AdminReportsController
  \/ NextDay
  \/ \E b \in BOOLEAN : SetOpen(b)
  \/ \E p \in People : AccountGone(p) \/ \E q \in People : Block(p, q)
  \/ \E d \in Threads : Quit(d)

CommentsSpec == CommentsInit /\ [][CommentsNext]_commentVars

----------------------------------------------------------------------------
(* Properties *)

\* The counters of comments and replies are what the rows say, unless comments
\* went by a cascade, or a reply came or went while its thread was deleted.
CountsExplained ==
  /\ ~adrift => commentsCount = Cardinality(Here)
  /\ \A c \in Here \ drifted : repliesCount[c] = Cardinality(Replies(c))

\* A comment with flags on it is shown to nobody but its moderators, and one
\* that flags hide has some, unless flags came or went while an admin dismissed
\* those there were, or with the account that raised them.
FlaggedHidden ==
  \A c \in Here \ washed :
    IF FlagsOf(c) = {} THEN flagsCount[c] = 0 ELSE \A v \in People : c \notin Shown(v)

\* Nobody files more reports a day than the cap, unless two at once.
ReportsCapped == \A p \in People \ rushed : today[p] <= DailyCap

\* Counters, flags and reports agree with the rows they are about.
CommentsExplained == CountsExplained /\ FlaggedHidden /\ ReportsCapped

=============================================================================
