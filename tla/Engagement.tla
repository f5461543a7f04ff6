----------------------------- MODULE Engagement -----------------------------
(***************************************************************************)
(* What attendees attach themselves to: RSVPs to one event, subscriptions  *)
(* to and blocks of one organisation, and the interests each has chosen.   *)
(*                                                                         *)
(* A row is looked for before the transaction that inserts it and counts   *)
(* it; the primary key refuses the second of two.  Interests are replaced  *)
(* by deleting the rows a statement sees and inserting the chosen ones.    *)
(***************************************************************************)
EXTENDS Integers, FiniteSets

CONSTANTS Attendees, \* accounts
          Interests, \* interests to choose from
          Windows,   \* requests running at the same time
          MaxVisits  \* bound on the requests

ASSUME EngagementAssumption == MaxVisits \in Nat

VARIABLES eventOpen,   \* the event is published and not over
          rsvps,       \* event_rsvps: accounts that go
          rsvpsCount,  \* rsvps_count of the event
          subscribers, \* subscriptions
          subscribersCount, \* subscribers_count of the organisation
          blockers,    \* accounts that blocked the organisation
          chosen,      \* [Attendees -> SUBSET Interests]: interest_user
          deleted,     \* deleted accounts
          window,      \* [Windows -> Visit] (volatile)
          visits,      \* requests so far
          asked,       \* history: [Attendees -> SUBSET SUBSET Interests], choices made
          lost,        \* history: rows that left with their account, as <<RSVPs, subscriptions>>
          mixed        \* history: people who made two choices at once

going == <<rsvps, rsvpsCount>>
following == <<subscribers, subscribersCount, blockers>>
choice == <<chosen, asked, mixed>>
engagementVars == <<eventOpen, going, following, choice, deleted, window, visits, lost>>

Vacant == [pc |-> "free"]
Visit ==
  {Vacant}
    \cup [pc : {"rsvp", "subscribe", "leave"}, by : Attendees]
    \cup [pc : {"sync"}, by : Attendees, want : SUBSET Interests]
    \cup [pc : {"insert"}, by : Attendees, want : SUBSET Interests, seen : SUBSET Interests]

EngagementTypeOK ==
  /\ eventOpen \in BOOLEAN
  /\ rsvps \subseteq Attendees /\ rsvpsCount \in Nat
  /\ subscribers \subseteq Attendees /\ subscribersCount \in Nat
  /\ blockers \subseteq Attendees /\ deleted \subseteq Attendees
  /\ chosen \in [Attendees -> SUBSET Interests]
  /\ window \in [Windows -> Visit] /\ visits \in 0..MaxVisits
  /\ asked \in [Attendees -> SUBSET SUBSET Interests]
  /\ lost \in Int \X Int /\ mixed \subseteq Attendees

EngagementInit ==
  /\ eventOpen = TRUE
  /\ rsvps = {} /\ rsvpsCount = 0
  /\ subscribers = {} /\ subscribersCount = 0 /\ blockers = {} /\ deleted = {}
  /\ chosen = [p \in Attendees |-> {}]
  /\ window = [d \in Windows |-> Vacant] /\ visits = 0
  /\ asked = [p \in Attendees |-> {{}}] /\ lost = <<0, 0>> /\ mixed = {}

AtWindow(d, pc) == window[d].pc = pc
Turn(d, j) == window' = [window EXCEPT ![d] = j]
Depart(d) == Turn(d, Vacant)
Come(d, p) ==
  AtWindow(d, "free") /\ p \notin deleted /\ visits < MaxVisits /\ visits' = visits + 1

\* Refused by a primary or a foreign key, or the process dies.
GiveUp(d) ==
  /\ window[d] # Vacant /\ Depart(d)
  /\ UNCHANGED <<eventOpen, going, following, choice, deleted, visits, lost>>

----------------------------------------------------------------------------
(* RsvpService *)

\* The event is as the controller loaded it.
EnsureOpenForRsvp(d, p) ==
  /\ Come(d, p) /\ eventOpen /\ p \notin rsvps
  /\ Turn(d, [pc |-> "rsvp", by |-> p])
  /\ UNCHANGED <<eventOpen, going, following, choice, deleted, lost>>

\* Mutant of Rsvp: an upsert, counted each time.
RsvpAgain(d) ==
  LET p == window[d].by
  IN /\ AtWindow(d, "rsvp") /\ p \notin deleted
     /\ rsvps' = rsvps \cup {p} /\ rsvpsCount' = rsvpsCount + 1
     /\ Depart(d)
     /\ UNCHANGED <<eventOpen, following, choice, deleted, visits, lost>>
Rsvp(d) ==
  LET p == window[d].by
  IN /\ AtWindow(d, "rsvp") /\ p \notin rsvps \cup deleted
     /\ rsvps' = rsvps \cup {p} /\ rsvpsCount' = rsvpsCount + 1
     /\ Depart(d)
     /\ UNCHANGED <<eventOpen, following, choice, deleted, visits, lost>>

Unrsvp(d, p) ==
  /\ Come(d, p) /\ p \in rsvps
  /\ rsvps' = rsvps \ {p} /\ rsvpsCount' = rsvpsCount - 1
  /\ UNCHANGED <<eventOpen, following, choice, deleted, window, lost>>

----------------------------------------------------------------------------
(* SubscriptionsService and BlocksService *)

\* No look at blocks.
LookForSubscription(d, p) ==
  /\ Come(d, p) /\ p \notin subscribers
  /\ Turn(d, [pc |-> "subscribe", by |-> p])
  /\ UNCHANGED <<eventOpen, going, following, choice, deleted, lost>>

Subscribe(d) ==
  LET p == window[d].by
  IN /\ AtWindow(d, "subscribe") /\ p \notin subscribers \cup deleted
     /\ subscribers' = subscribers \cup {p}
     /\ subscribersCount' = subscribersCount + 1
     /\ Depart(d)
     /\ UNCHANGED <<eventOpen, going, blockers, choice, deleted, visits, lost>>

\* Mutant of DropSubscription: counted whether there was a row or not.
DropUncounted(p) ==
  /\ subscribers' = subscribers \ {p}
  /\ subscribersCount' = subscribersCount - 1
\* Only a row that was deleted is counted out.
DropSubscription(p) ==
  /\ subscribers' = subscribers \ {p}
  /\ subscribersCount' = subscribersCount - (IF p \in subscribers THEN 1 ELSE 0)

Unsubscribe(d, p) ==
  /\ Come(d, p) /\ DropSubscription(p)
  /\ UNCHANGED <<eventOpen, going, blockers, choice, deleted, window, lost>>

\* A block ends the subscription in a second step.
BlockOrganisation(d, p) ==
  /\ Come(d, p)
  /\ blockers' = blockers \cup {p}
  /\ Turn(d, [pc |-> "leave", by |-> p])
  /\ UNCHANGED <<eventOpen, going, subscribers, subscribersCount, choice, deleted, lost>>

EndSubscription(d) ==
  /\ AtWindow(d, "leave") /\ DropSubscription(window[d].by) /\ Depart(d)
  /\ UNCHANGED <<eventOpen, going, blockers, choice, deleted, visits, lost>>

UnblockOrganisation(d, p) ==
  /\ Come(d, p) /\ blockers' = blockers \ {p}
  /\ UNCHANGED <<eventOpen, going, subscribers, subscribersCount, choice, deleted, window, lost>>

----------------------------------------------------------------------------
(* InterestsService *)

Syncing(p) == \E d \in Windows : window[d].pc \in {"sync", "insert"} /\ window[d].by = p

SyncFor(d, p, want) ==
  /\ Come(d, p)
  /\ Turn(d, [pc |-> "sync", by |-> p, want |-> want])
  /\ asked' = [asked EXCEPT ![p] = @ \cup {want}]
  /\ mixed' = IF Syncing(p) THEN mixed \cup {p} ELSE mixed
  /\ UNCHANGED <<eventOpen, going, following, chosen, deleted, lost>>

\* The rows the deletion sees are those committed when it begins.
DeleteSeen(d) ==
  /\ AtWindow(d, "sync")
  /\ Turn(d, [pc |-> "insert", by |-> window[d].by, want |-> window[d].want,
                seen |-> chosen[window[d].by]])
  /\ UNCHANGED <<eventOpen, going, following, choice, deleted, visits, lost>>

\* Of the rows another deletion saw, those this one replaces are gone, even
\* where it inserts the same interest again.
Replace(d, p, kept) ==
  window' = [e \in Windows |->
    IF e = d THEN Vacant
    ELSE IF AtWindow(e, "insert") /\ window[e].by = p THEN [window[e] EXCEPT !.seen = @ \cap kept]
    ELSE window[e]]

\* A row committed in between stays; if it is among the chosen ones, the
\* primary key refuses them all.
InsertChosen(d) ==
  LET p == window[d].by  kept == chosen[p] \ window[d].seen
  IN /\ AtWindow(d, "insert") /\ p \notin deleted
     /\ window[d].want \cap kept = {}
     /\ chosen' = [chosen EXCEPT ![p] = kept \cup window[d].want]
     /\ Replace(d, p, kept)
     /\ UNCHANGED <<eventOpen, going, following, asked, mixed, deleted, visits, lost>>

----------------------------------------------------------------------------
(* The event and the accounts *)

SetEventOpen ==
  /\ visits < MaxVisits /\ visits' = visits + 1
  /\ eventOpen' = ~eventOpen
  /\ UNCHANGED <<going, following, choice, deleted, window, lost>>

\* An account takes its rows along, and no counter is told.
AccountLeaves(d, p) ==
  LET one(s) == IF p \in s THEN 1 ELSE 0
  IN /\ Come(d, p)
     /\ deleted' = deleted \cup {p}
     /\ rsvps' = rsvps \ {p} /\ subscribers' = subscribers \ {p} /\ blockers' = blockers \ {p}
     /\ chosen' = [chosen EXCEPT ![p] = {}]
     /\ lost' = <<lost[1] + one(rsvps), lost[2] + one(subscribers)>>
     /\ UNCHANGED <<eventOpen, rsvpsCount, subscribersCount, asked, mixed, window>>

----------------------------------------------------------------------------
(* The routes *)

RsvpController ==
  \E d \in Windows : Rsvp(d) \/ \E p \in Attendees : EnsureOpenForRsvp(d, p) \/ Unrsvp(d, p)

SubscriptionsController ==
  \E d \in Windows :
    Subscribe(d) \/ \E p \in Attendees : LookForSubscription(d, p) \/ Unsubscribe(d, p)

BlocksController ==
  \E d \in Windows :
    \/ EndSubscription(d)
    \/ \E p \in Attendees : BlockOrganisation(d, p) \/ UnblockOrganisation(d, p)

ProfileInterests ==
  \E d \in Windows :
    \/ DeleteSeen(d) \/ InsertChosen(d)
    \/ \E p \in Attendees, want \in SUBSET Interests : SyncFor(d, p, want)

EngagementNext ==
  \/ RsvpController \/ SubscriptionsController \/ BlocksController \/ ProfileInterests
  \/ SetEventOpen
  \/ \E d \in Windows : GiveUp(d) \/ \E p \in Attendees : AccountLeaves(d, p)

EngagementSpec == EngagementInit /\ [][EngagementNext]_engagementVars

----------------------------------------------------------------------------
(* Properties *)

\* The counters are the rows and those that left with a deleted account: they
\* never fall below what is there.
AudienceExplained ==
  /\ rsvpsCount = Cardinality(rsvps) + lost[1]
  /\ subscribersCount = Cardinality(subscribers) + lost[2]

\* Somebody's interests are one of the choices made, not a mixture of two,
\* unless two were made at once.
OneChoice == \A p \in Attendees \ (mixed \cup deleted) : chosen[p] \in asked[p]

\* What attendees attached themselves to is what the rows and counters say.
EngagementExplained == AudienceExplained /\ OneChoice

=============================================================================
