------------------------------ MODULE Mailings ------------------------------
(***************************************************************************)
(* What the platform sends: the organisers' broadcasts, the admins'        *)
(* announcements and the notifications.  These modules share no state, so  *)
(* they are not interleaved: focus says which one a behaviour is about,    *)
(* and the others stay as they began.  Fairness is that of the broadcasts, *)
(* and asked for where they are in focus.                                  *)
(***************************************************************************)
EXTENDS Broadcasts, Announcements, Notifications

VARIABLE focus

Focuses == {"broadcasts", "announcements", "notifications"}
mailingVars == <<castVars, noticeVars, noteVars, focus>>

MailingsInit ==
  /\ BroadcastsInit /\ AnnouncementsInit /\ NotificationsInit
  /\ focus \in Focuses

MailingsNext ==
  /\ UNCHANGED focus
  /\ \/ /\ focus = "broadcasts" /\ BroadcastsNext
        /\ UNCHANGED <<noticeVars, noteVars>>
     \/ /\ focus = "announcements" /\ AnnouncementsNext
        /\ UNCHANGED <<castVars, noteVars>>
     \/ /\ focus = "notifications" /\ NotificationsNext
        /\ UNCHANGED <<castVars, noticeVars>>

MailingsSpec ==
  /\ MailingsInit /\ [][MailingsNext]_mailingVars
  /\ focus = "broadcasts" => BroadcastsFairness

\* What is not in focus stays as it began: only what is has to be looked at.
MailingsTypeOK ==
  CASE focus = "broadcasts" -> BroadcastsTypeOK
    [] focus = "announcements" -> AnnouncementsTypeOK
    [] focus = "notifications" -> NotificationsTypeOK
=============================================================================
