--------------------------- MODULE Notifications ---------------------------
(***************************************************************************)
(* What users are told, and where: the types of notifications with their   *)
(* channels and preferences, the notifier, the inbox, the push tokens, the *)
(* listeners of the system's events, the reminder and digest cron jobs.    *)
(*                                                                         *)
(* One event of one organisation, and one comment thread, stand for all.   *)
(* A listener or cron job reads whom to tell, and tells them, in two steps;*)
(* it may crash in between.                                                *)
(***************************************************************************)
EXTENDS Integers, FiniteSets

CONSTANTS Recipients,  \* users
          Members,     \* members of the event's organisation
          AdminUsers,  \* administrators
          Subscribers, \* followers of the organisation
          Goers,       \* holders of tickets, and users who RSVPed
          Author,      \* who wrote the comment that is replied to
          Buyer,       \* who buys a ticket on the web
          Tokens,      \* push tokens of devices
          Handlers,    \* listeners and cron jobs running at the same time
          Options,     \* the preferences that users change: <<type, channel>>
          MaxFanouts,  \* MAX_FANOUTS_PER_DAY
          MaxPosts     \* bound on events, settings and crashes

ASSUME NotificationsAssumption ==
  /\ UNION {Members, AdminUsers, Subscribers, Goers, {Author, Buyer}} \subseteq Recipients
  /\ MaxFanouts \in Nat \ {0} /\ MaxPosts \in Nat

----------------------------------------------------------------------------
(* NOTIFICATION_TYPES *)

Channels == {"push", "inapp", "email"}
PushInapp == {"push", "inapp"}

OrganizerTypes ==
  {"order.first_sale", "order.daily_digest", "event.starting_soon", "payout.completed",
   "payout.failed", "payout.rejected", "comment.flagged", "broadcast.finished"}
AttendeeTypes ==
  {"attendee.order_paid", "attendee.event_starting_soon", "attendee.comment_reply",
   "attendee.new_event_from_subscription", "attendee.ticket_transfer_received"}
AdminTypes ==
  {"admin.payout_requested", "admin.payout_failed", "admin.payout_account_changed",
   "admin.report_created", "admin.organisation_created", "admin.event_published",
   "admin.large_order"}
Types == OrganizerTypes \cup AttendeeTypes \cup AdminTypes

Audience(t) ==
  CASE t \in OrganizerTypes -> "organizer" [] t \in AttendeeTypes -> "attendee"
    [] OTHER -> "admin"
Allowed(t) ==
  CASE t = "order.daily_digest" -> {"email"}
    [] t \in AdminTypes -> {"inapp", "email"}
    [] t = "attendee.ticket_transfer_received" -> PushInapp
    [] OTHER -> Channels
Default(t) ==
  CASE t = "order.daily_digest" -> {"email"}
    [] t \in AdminTypes -> {"inapp", "email"}
    [] OTHER -> PushInapp

ASSUME OptionsAssumption == Options \subseteq Types \X Channels

----------------------------------------------------------------------------

VARIABLES unread,    \* [Recipients -> [Types -> Nat]]: rows of the inbox nobody has read
          stored,    \* preferences on record: set of [user, type, channel, enabled]
          quiet,     \* users within their quiet hours
          muted,     \* users who muted the event
          owner,     \* [Tokens -> set of at most one [user, audience]]
          fanWindow, \* the organisation's fan-out window: "none", "open" or "over"
          fanouts,   \* subscriptionFanoutCount
          remindedAt, digestedAt, \* BOOLEAN: the event's marks of the two cron jobs
          dueStage,  \* BOOLEAN: the event is within the window of the reminder
          handler,   \* [Handlers -> Work] (volatile)
          posts,
          fanned,    \* history: fan-outs since the window started
          told,      \* history: [Recipients -> Nat]: reminders of the event
          raced      \* history: "reply", "remind": two at once, or a crash in between

boxVars == <<unread, stored, quiet, muted, owner>>
markVars == <<fanWindow, fanouts, remindedAt, digestedAt, dueStage>>
tellVars == <<fanned, told, raced>>
noteVars == <<boxVars, markVars, handler, posts, tellVars>>

Waiting == [pc |-> "wait"]
Work == {Waiting}
          \cup [pc : {"reply", "digest", "reset", "fan"}]
          \cup [pc : {"remind", "mark"}, to : SUBSET Recipients]

NotificationsTypeOK ==
  /\ unread \in [Recipients -> [Types -> Nat]]
  /\ stored \subseteq [user : Recipients, type : Types, channel : Channels, enabled : BOOLEAN]
  /\ quiet \subseteq Recipients /\ muted \subseteq Recipients
  /\ owner \in [Tokens -> SUBSET [user : Recipients, audience : {"organizer", "attendee"}]]
  /\ fanWindow \in {"none", "open", "over"} /\ fanouts \in 0..MaxFanouts
  /\ remindedAt \in BOOLEAN /\ digestedAt \in BOOLEAN /\ dueStage \in BOOLEAN
  /\ handler \in [Handlers -> Work] /\ posts \in 0..MaxPosts
  /\ fanned \in Nat /\ told \in [Recipients -> Nat] /\ raced \subseteq {"reply", "remind"}

NotificationsInit ==
  /\ unread = [u \in Recipients |-> [t \in Types |-> 0]]
  /\ stored = {} /\ quiet = {} /\ muted = {}
  /\ owner = [k \in Tokens |-> {}]
  /\ fanWindow = "none" /\ fanouts = 0
  /\ remindedAt = FALSE /\ digestedAt = FALSE /\ dueStage = FALSE
  /\ handler = [h \in Handlers |-> Waiting] /\ posts = 0
  /\ fanned = 0 /\ told = [u \in Recipients |-> 0] /\ raced = {}

Posting == posts < MaxPosts /\ posts' = posts + 1
Works(h, pc) == handler[h].pc = pc
Onto(h, w) == handler' = [handler EXCEPT ![h] = w]
SomeoneWorks(pc) == \E h \in Handlers : Works(h, pc)

----------------------------------------------------------------------------
(* NotificationPreferencesService and NotifierService *)

\* channelsFor: what is stored, else the default, of what is allowed.
ChannelsFor(u, t) ==
  {c \in Allowed(t) :
     \/ [user |-> u, type |-> t, channel |-> c, enabled |-> TRUE] \in stored
     \/ /\ c \in Default(t)
        /\ [user |-> u, type |-> t, channel |-> c, enabled |-> FALSE] \notin stored}

\* A ticket bought on the web is mailed whatever the preferences say.
Guaranteed(t) == IF t = "attendee.order_paid" THEN {"email"} ELSE {}

\* No push within the quiet hours, nor without a token of the type's audience.
Reached(u, t) ==
  LET channels == ChannelsFor(u, t) \cup Guaranteed(t)
      devices == {k \in Tokens : [user |-> u, audience |-> Audience(t)] \in owner[k]}
  IN IF u \in quiet \/ devices = {} THEN channels \ {"push"} ELSE channels

\* send: a message is a type and whom to tell.
Send(messages) ==
  unread' = [u \in Recipients |-> [t \in Types |->
    unread[u][t] + Cardinality({m \in messages : /\ m.type = t /\ u \in m.to
                                                 /\ "inapp" \in Reached(u, t)})]]
Message(t, to) == [type |-> t, to |-> to]

----------------------------------------------------------------------------
(* The listeners that only tell *)

OrderPaid(isFirstSale, isLarge) ==
  {Message("attendee.order_paid", {Buyer})}
    \cup (IF isFirstSale THEN {Message("order.first_sale", Members)} ELSE {})
    \cup (IF isLarge THEN {Message("admin.large_order", AdminUsers)} ELSE {})
\* The payout's status is read again: one that was taken up again is not told of.
PayoutSettled(status) ==
  CASE status = "paid" -> {Message("payout.completed", Members)}
    [] status = "failed" -> {Message("payout.failed", Members),
                             Message("admin.payout_failed", AdminUsers)}
    [] OTHER -> {}
PayoutRejected == {Message("payout.rejected", Members)}
PayoutRequested == {Message("admin.payout_requested", AdminUsers)}
PayoutAccountChanged == {Message("admin.payout_account_changed", AdminUsers)}
ReportCreated(isComment) ==
  {Message("admin.report_created", AdminUsers)}
    \cup (IF isComment THEN {Message("comment.flagged", Members)} ELSE {})
OrganisationCreated == {Message("admin.organisation_created", AdminUsers)}
BroadcastSent == {Message("broadcast.finished", Members)}
TicketTransferred(to) == {Message("attendee.ticket_transfer_received", {to})}

Messages ==
  {OrderPaid(first, large) : first \in BOOLEAN, large \in BOOLEAN}
    \cup {PayoutSettled(s) : s \in {"paid", "failed", "approved"}}
    \cup {ReportCreated(c) : c \in BOOLEAN} \cup {TicketTransferred(u) : u \in Recipients}
    \cup {PayoutRejected, PayoutRequested, PayoutAccountChanged, OrganisationCreated,
          BroadcastSent}

Tell(messages) ==
  /\ Posting /\ Send(messages)
  /\ UNCHANGED <<stored, quiet, muted, owner, markVars, handler, tellVars>>

----------------------------------------------------------------------------
(* CommentRepliedListener *)

\* The author is told unless they muted the event or have not read the last
\* notice of this thread yet.
HearReply(h) ==
  /\ Works(h, "wait") /\ Posting
  /\ Author \notin muted /\ unread[Author]["attendee.comment_reply"] = 0
  /\ Onto(h, [pc |-> "reply"])
  /\ raced' = IF SomeoneWorks("reply") THEN raced \cup {"reply"} ELSE raced
  /\ UNCHANGED <<boxVars, markVars, fanned, told>>

TellReply(h) ==
  /\ Works(h, "reply") /\ Onto(h, Waiting)
  /\ Send({Message("attendee.comment_reply", {Author})})
  /\ UNCHANGED <<stored, quiet, muted, owner, markVars, posts, tellVars>>

----------------------------------------------------------------------------
(* EventPublishedListener *)

\* The admins are told, ...
EventPublished(h) ==
  /\ Works(h, "wait") /\ Posting
  /\ Send({Message("admin.event_published", AdminUsers)})
  /\ Onto(h, [pc |-> "reset"])
  /\ UNCHANGED <<stored, quiet, muted, owner, markVars, tellVars>>

\* ... and the followers if a slot is claimed: the first of a window starts
\* it, in one statement, ...
StartWindow(h) ==
  /\ Works(h, "reset")
  /\ IF fanWindow = "open"
     THEN /\ Onto(h, [pc |-> "fan"])
          /\ UNCHANGED <<unread, fanWindow, fanouts, fanned>>
     ELSE /\ fanWindow' = "open" /\ fanouts' = 1 /\ fanned' = 1
          /\ Onto(h, Waiting)
          /\ Send({Message("attendee.new_event_from_subscription", Subscribers)})
  /\ UNCHANGED <<stored, quiet, muted, owner, remindedAt, digestedAt, dueStage, posts, told, raced>>

\* ... and another counts itself while there is room, in one statement.
ClaimSlot(h) ==
  /\ Works(h, "fan") /\ Onto(h, Waiting)
  /\ IF fanouts < MaxFanouts
     THEN /\ fanouts' = fanouts + 1
          /\ fanned' = fanned + 1
          /\ Send({Message("attendee.new_event_from_subscription", Subscribers)})
     ELSE UNCHANGED <<unread, fanouts, fanned>>
  /\ UNCHANGED <<stored, quiet, muted, owner, fanWindow, remindedAt, digestedAt, dueStage, posts,
                 told, raced>>

WindowEnds ==
  /\ fanWindow = "open" /\ fanWindow' = "over"
  /\ UNCHANGED <<boxVars, fanouts, remindedAt, digestedAt, dueStage, handler, posts, tellVars>>

----------------------------------------------------------------------------
(* StartingSoonService and DailySalesDigestService *)

\* The hour comes at which the event is about a day away; and it passes.
ComesNear ==
  /\ Posting /\ dueStage' = ~dueStage
  /\ UNCHANGED <<boxVars, fanWindow, fanouts, remindedAt, digestedAt, handler, tellVars>>

\* The event is found unmarked, and its organisers are told; ...
FindDue(h) ==
  /\ Works(h, "wait") /\ Posting /\ dueStage /\ ~remindedAt
  /\ Send({Message("event.starting_soon", Members)})
  /\ Onto(h, [pc |-> "remind", to |-> Goers \ muted])
  /\ raced' = IF SomeoneWorks("remind") \/ SomeoneWorks("mark") THEN raced \cup {"remind"}
              ELSE raced
  /\ UNCHANGED <<stored, quiet, muted, owner, markVars, fanned, told>>

\* ... then those who attend and did not mute it; ...
NotifyAttendees(h) ==
  LET to == handler[h].to
  IN /\ Works(h, "remind")
     /\ Send({Message("attendee.event_starting_soon", to)})
     /\ told' = [u \in Recipients |-> IF u \in to THEN told[u] + 1 ELSE told[u]]
     /\ Onto(h, [pc |-> "mark", to |-> to])
     /\ UNCHANGED <<stored, quiet, muted, owner, markVars, posts, fanned, raced>>

\* Mutant of MarkReminded: the mark is forgotten.
MarkNothing(h) ==
  /\ Works(h, "mark") /\ Onto(h, Waiting)
  /\ UNCHANGED <<boxVars, markVars, posts, tellVars>>
\* ... and the event is marked.
MarkReminded(h) ==
  /\ Works(h, "mark") /\ Onto(h, Waiting)
  /\ remindedAt' = TRUE
  /\ UNCHANGED <<boxVars, fanWindow, fanouts, digestedAt, dueStage, posts, tellVars>>

\* The digest goes by mail only, once a day: it is sent, then marked.
SendDigest(h) ==
  /\ Works(h, "wait") /\ Posting /\ ~digestedAt
  /\ Send({Message("order.daily_digest", Members)})
  /\ Onto(h, [pc |-> "digest"])
  /\ UNCHANGED <<stored, quiet, muted, owner, markVars, tellVars>>

MarkDigested(h) ==
  /\ Works(h, "digest") /\ Onto(h, Waiting)
  /\ digestedAt' = TRUE
  /\ UNCHANGED <<boxVars, fanWindow, fanouts, remindedAt, dueStage, posts, tellVars>>

\* The process stops between two steps of what it does.
HandlerCrash(h) ==
  /\ handler[h] # Waiting /\ Posting /\ Onto(h, Waiting)
  /\ raced' = IF Works(h, "mark") THEN raced \cup {"remind"} ELSE raced
  /\ UNCHANGED <<boxVars, markVars, fanned, told>>

----------------------------------------------------------------------------
(* NotificationsController *)

\* Mutant of MarkRead: one that has been read is read again.
MarkReadAgain(u, t) ==
  /\ Posting
  /\ unread' = [unread EXCEPT ![u][t] = @ - 1]
  /\ UNCHANGED <<stored, quiet, muted, owner, markVars, handler, tellVars>>
MarkRead(u, t) ==
  /\ Posting /\ unread[u][t] > 0
  /\ unread' = [unread EXCEPT ![u][t] = @ - 1]
  /\ UNCHANGED <<stored, quiet, muted, owner, markVars, handler, tellVars>>

MarkAllRead(u, audience) ==
  /\ Posting
  /\ unread' = [unread EXCEPT ![u] =
       [t \in Types |-> IF Audience(t) = audience THEN 0 ELSE unread[u][t]]]
  /\ UNCHANGED <<stored, quiet, muted, owner, markVars, handler, tellVars>>

\* set: a channel the type does not allow is ignored.
SetPreference(u, t, c, on) ==
  /\ Posting /\ c \in Allowed(t)
  /\ stored' = {r \in stored : ~(r.user = u /\ r.type = t /\ r.channel = c)}
                 \cup {[user |-> u, type |-> t, channel |-> c, enabled |-> on]}
  /\ UNCHANGED <<unread, quiet, muted, owner, markVars, handler, tellVars>>

UpdateQuietHours(u) ==
  /\ Posting
  /\ quiet' = IF u \in quiet THEN quiet \ {u} ELSE quiet \cup {u}
  /\ UNCHANGED <<unread, stored, muted, owner, markVars, handler, tellVars>>

ToggleMute(u) ==
  /\ Posting
  /\ muted' = IF u \in muted THEN muted \ {u} ELSE muted \cup {u}
  /\ UNCHANGED <<unread, stored, quiet, owner, markVars, handler, tellVars>>

\* A token belongs to a device: registering it again moves it.
RegisterToken(u, k, audience) ==
  /\ Posting /\ owner' = [owner EXCEPT ![k] = {[user |-> u, audience |-> audience]}]
  /\ UNCHANGED <<unread, stored, quiet, muted, markVars, handler, tellVars>>

UnregisterToken(u, k) ==
  /\ Posting /\ \E r \in owner[k] : r.user = u
  /\ owner' = [owner EXCEPT ![k] = {}]
  /\ UNCHANGED <<unread, stored, quiet, muted, markVars, handler, tellVars>>

NotificationsController(u) ==
  \/ \E t \in Types : MarkRead(u, t)
  \/ \E a \in {"organizer", "attendee", "admin"} : MarkAllRead(u, a)
  \/ \E o \in Options, on \in BOOLEAN : SetPreference(u, o[1], o[2], on)
  \/ UpdateQuietHours(u) \/ ToggleMute(u)
  \/ \E k \in Tokens : \/ UnregisterToken(u, k)
                       \/ \E a \in {"organizer", "attendee"} : RegisterToken(u, k, a)

----------------------------------------------------------------------------

NotificationsNext ==
  \/ \E u \in Recipients : NotificationsController(u)
  \/ \E messages \in Messages : Tell(messages)
  \/ \E h \in Handlers :
       \/ HearReply(h) \/ TellReply(h)
       \/ EventPublished(h) \/ StartWindow(h) \/ ClaimSlot(h)
       \/ FindDue(h) \/ NotifyAttendees(h) \/ MarkReminded(h)
       \/ SendDigest(h) \/ MarkDigested(h)
       \/ HandlerCrash(h)
  \/ WindowEnds \/ ComesNear

NotificationsSpec == NotificationsInit /\ [][NotificationsNext]_noteVars

----------------------------------------------------------------------------
(* Properties *)

\* One notice of a thread waits to be read, unless two replies were handled
\* at once.
OneReplyNotice == "reply" \in raced \/ unread[Author]["attendee.comment_reply"] <= 1

\* Nobody is reminded of an event twice, unless two jobs found it unmarked, or
\* one crashed before it marked it.
RemindedOnce == "remind" \in raced \/ \A u \in Recipients : told[u] <= 1

\* Followers hear of no more than the limit of events in one window, and the
\* count on the organisation says how many.
FanoutsCapped == fanned <= MaxFanouts /\ fanned = fanouts

\* Nobody is told the same twice.
ToldOnce == OneReplyNotice /\ RemindedOnce /\ FanoutsCapped
=============================================================================
