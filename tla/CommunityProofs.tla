-------------------------- MODULE CommunityProofs --------------------------
(***************************************************************************)
(* Theorems about what people do with events beside buying tickets, first  *)
(* about each module on its own, as they share no state: Engagement,       *)
(* Transfers, Organisations and Comments, and PayoutAccounts for what an   *)
(* organisation does with its bank account, for any sets of accounts,      *)
(* events, tickets, organisations, comments, banks and requests.  Then     *)
(* about module Community: each part, those of ReadingProofs included,     *)
(* keeps its specification there.                                          *)
(***************************************************************************)
EXTENDS Community, ReadingProofs, SumLemmas,
        FiniteSetTheorems, TLAPS

----------------------------------------------------------------------------
(* Engagement *)

\* The rows are finitely many, and a counter cannot be lowered below zero: no
\* more rows are deleted than were counted.
RowsOK ==
  /\ IsFiniteSet(rsvps) /\ IsFiniteSet(subscribers)
  /\ lost \in Nat \X Nat

SyncsOf(d, p) == window[d].pc \in {"sync", "insert"} /\ window[d].by = p

\* Whoever made no two choices at once has one request at it, and what that
\* one saw and will delete is all there is.
ChoiceOK ==
  \A d \in Windows, p \in Attendees \ (mixed \cup deleted) : SyncsOf(d, p) =>
    /\ window[d].want \in asked[p]
    /\ AtWindow(d, "insert") => chosen[p] \subseteq window[d].seen
    /\ \A e \in Windows : SyncsOf(e, p) => e = d

EngagementInv == EngagementTypeOK /\ RowsOK /\ EngagementExplained /\ ChoiceOK

----------------------------------------------------------------------------

\* Rows and counters that go together: one row more or less.
LEMMA CountIn ==
  ASSUME NEW S, IsFiniteSet(S), NEW x, x \notin S
  PROVE  IsFiniteSet(S \cup {x}) /\ Cardinality(S \cup {x}) = Cardinality(S) + 1
  BY FS_AddElement

LEMMA CountOut ==
  ASSUME NEW S, IsFiniteSet(S), NEW x
  PROVE  /\ IsFiniteSet(S \ {x}) /\ Cardinality(S) \in Nat /\ Cardinality(S \ {x}) \in Nat
         /\ Cardinality(S \ {x}) = Cardinality(S) - (IF x \in S THEN 1 ELSE 0)
<1>1. /\ IsFiniteSet(S \ {x})
      /\ Cardinality(S \ {x}) = IF x \in S THEN Cardinality(S) - 1 ELSE Cardinality(S)
  BY FS_RemoveElement
<1>2. Cardinality(S) \in Nat /\ Cardinality(S \ {x}) \in Nat
  BY <1>1, FS_CardinalityType
<1> QED BY <1>1, <1>2

\* The invariant holds of empty tables.
LEMMA EngagementInitInv == EngagementInit => EngagementInv
<1> SUFFICES ASSUME EngagementInit PROVE EngagementInv
  OBVIOUS
<1> USE DEF EngagementInit
<1>1. EngagementTypeOK
  BY EngagementAssumption DEF EngagementTypeOK, Visit, Vacant
<1>2. RowsOK /\ AudienceExplained
  BY FS_EmptySet DEF RowsOK, AudienceExplained
<1>3. OneChoice /\ ChoiceOK
  BY DEF OneChoice, ChoiceOK, SyncsOf, Vacant
<1> QED BY <1>1, <1>2, <1>3 DEF EngagementInv, EngagementExplained

\* Rows and counters after one step: a row is counted in or out with its
\* insertion or deletion, or remembered as lost with its account.
CountsKept(R, n, g) ==
  IsFiniteSet(R) /\ R \subseteq Attendees /\ n \in Nat /\ g \in Nat
    /\ n = Cardinality(R) + g

LEMMA CountsChange ==
  ASSUME NEW R, NEW n, NEW g, CountsKept(R, n, g), NEW p \in Attendees
  PROVE  /\ p \notin R => CountsKept(R \cup {p}, n + 1, g)
         /\ CountsKept(R \ {p}, n - (IF p \in R THEN 1 ELSE 0), g)
         /\ CountsKept(R \ {p}, n, g + (IF p \in R THEN 1 ELSE 0))
<1> USE DEF CountsKept
<1>1. p \notin R => CountsKept(R \cup {p}, n + 1, g)
  <2> SUFFICES ASSUME p \notin R PROVE CountsKept(R \cup {p}, n + 1, g)
    OBVIOUS
  <2>1. IsFiniteSet(R \cup {p}) /\ Cardinality(R \cup {p}) = Cardinality(R) + 1
    BY CountIn
  <2>2. Cardinality(R) \in Nat
    BY CountOut
  <2> QED BY <2>1, <2>2
<1>2. /\ IsFiniteSet(R \ {p}) /\ Cardinality(R) \in Nat /\ Cardinality(R \ {p}) \in Nat
      /\ Cardinality(R \ {p}) = Cardinality(R) - (IF p \in R THEN 1 ELSE 0)
  BY CountOut
<1>3. CASE p \in R
  BY <1>1, <1>2, <1>3
<1>4. CASE p \notin R
  BY <1>1, <1>2, <1>4
<1> QED BY <1>3, <1>4

GoingKept == CountsKept(rsvps, rsvpsCount, lost[1])
FollowingKept == CountsKept(subscribers, subscribersCount, lost[2])
BooksKept == GoingKept /\ FollowingKept /\ lost \in Nat \X Nat

LEMMA BooksAre == BooksKept <=>
    /\ RowsOK /\ AudienceExplained
    /\ rsvps \subseteq Attendees /\ subscribers \subseteq Attendees
    /\ rsvpsCount \in Nat /\ subscribersCount \in Nat
  BY DEF BooksKept, GoingKept, FollowingKept, CountsKept, RowsOK, AudienceExplained

\* Every step keeps the books.
LEMMA BooksStep ==
  ASSUME EngagementInv, [EngagementNext]_engagementVars
  PROVE  BooksKept'
<1>0. BooksKept
  BY BooksAre DEF EngagementInv, EngagementTypeOK, EngagementExplained
<1>t. \A d \in Windows : AtWindow(d, "rsvp") \/ AtWindow(d, "subscribe") \/ AtWindow(d, "leave")
        => window[d].by \in Attendees
  BY DEF EngagementInv, EngagementTypeOK, Visit, Vacant, AtWindow
<1>1. ASSUME NEW d \in Windows, Rsvp(d) PROVE BooksKept'
  BY <1>0, <1>1, <1>t, CountsChange
     DEF Rsvp, following, BooksKept, GoingKept, FollowingKept
<1>2. ASSUME NEW d \in Windows, NEW p \in Attendees, Unrsvp(d, p) PROVE BooksKept'
  BY <1>0, <1>2, CountsChange
     DEF Unrsvp, following, BooksKept, GoingKept, FollowingKept
<1>3. ASSUME NEW d \in Windows, Subscribe(d) PROVE BooksKept'
  BY <1>0, <1>3, <1>t, CountsChange
     DEF Subscribe, going, BooksKept, GoingKept, FollowingKept
<1>4. ASSUME NEW p \in Attendees, DropSubscription(p), UNCHANGED <<going, lost>>
      PROVE  BooksKept'
  BY <1>0, <1>4, CountsChange
     DEF DropSubscription, going, BooksKept, GoingKept, FollowingKept
<1>5. ASSUME NEW d \in Windows, NEW p \in Attendees, AccountLeaves(d, p) PROVE BooksKept'
  <2> DEFINE one(s) == IF p \in s THEN 1 ELSE 0
  <2>1. /\ rsvps' = rsvps \ {p} /\ subscribers' = subscribers \ {p}
        /\ UNCHANGED <<rsvpsCount, subscribersCount>>
        /\ lost' = <<lost[1] + one(rsvps), lost[2] + one(subscribers)>>
    BY <1>5 DEF AccountLeaves
  <2>2. lost[1] \in Nat /\ lost[2] \in Nat /\ one(rsvps) \in Nat /\ one(subscribers) \in Nat
    BY <1>0 DEF BooksKept
  <2>3. /\ CountsKept(rsvps \ {p}, rsvpsCount, lost[1] + one(rsvps))
        /\ CountsKept(subscribers \ {p}, subscribersCount, lost[2] + one(subscribers))
    BY <1>0, CountsChange DEF BooksKept, GoingKept, FollowingKept
  <2> HIDE DEF one
  <2>4. lost' \in Nat \X Nat /\ lost'[1] = lost[1] + one(rsvps)
        /\ lost'[2] = lost[2] + one(subscribers)
    BY <2>1, <2>2
  <2> QED BY <2>1, <2>3, <2>4 DEF BooksKept, GoingKept, FollowingKept
<1>6. ASSUME UNCHANGED <<rsvps, rsvpsCount, subscribers, subscribersCount, lost>>
      PROVE  BooksKept'
  BY <1>0, <1>6 DEF BooksKept, GoingKept, FollowingKept, CountsKept
<1>7. CASE RsvpController
  BY <1>1, <1>2, <1>6, <1>7 DEF RsvpController, EnsureOpenForRsvp, going, following
<1>8. CASE SubscriptionsController
  BY <1>3, <1>4, <1>6, <1>8
     DEF SubscriptionsController, LookForSubscription, Unsubscribe, going, following
<1>9. CASE BlocksController
  BY <1>4, <1>6, <1>9, <1>t
     DEF BlocksController, EndSubscription, BlockOrganisation, UnblockOrganisation, going
<1>10. CASE ProfileInterests
  BY <1>6, <1>10
     DEF ProfileInterests, DeleteSeen, InsertChosen, SyncFor, going, following
<1>11. ASSUME NEW d \in Windows, GiveUp(d) PROVE BooksKept'
  BY <1>6, <1>11 DEF GiveUp, going, following
<1>12. CASE SetEventOpen \/ UNCHANGED engagementVars
  BY <1>6, <1>12 DEF SetEventOpen, engagementVars, going, following
<1> QED BY <1>5, <1>7, <1>8, <1>9, <1>10, <1>11, <1>12 DEF EngagementNext

\* Every step keeps the types; those of the counters are in the books.
LEMMA TypeStep ==
  ASSUME EngagementInv, [EngagementNext]_engagementVars
  PROVE  EngagementTypeOK'
<1>0. EngagementTypeOK /\ visits \in Nat
  BY EngagementAssumption DEF EngagementInv, EngagementTypeOK
<1>b. rsvpsCount' \in Nat /\ subscribersCount' \in Nat /\ lost' \in Int \X Int
  BY BooksStep DEF BooksKept, GoingKept, FollowingKept, CountsKept
<1>c. \A d \in Windows, p \in Attendees : Come(d, p) => visits' \in 0..MaxVisits
  BY <1>0, EngagementAssumption DEF Come
<1>d. ASSUME NEW d \in Windows, NEW j \in Visit, Turn(d, j) PROVE window' \in [Windows -> Visit]
  BY <1>0, <1>d DEF Turn, EngagementTypeOK
<1>e. Vacant \in Visit
  BY DEF Visit
<1>1. CASE RsvpController
  <2>1. ASSUME NEW d \in Windows, Rsvp(d) PROVE EngagementTypeOK'
    <3>1. window[d].by \in Attendees
      BY <1>0, <2>1 DEF Rsvp, EngagementTypeOK, Visit, Vacant, AtWindow
    <3> QED BY <1>0, <1>b, <1>d, <1>e, <2>1, <3>1
            DEF Rsvp, Depart, EngagementTypeOK, following, choice
  <2>2. ASSUME NEW d \in Windows, NEW p \in Attendees, EnsureOpenForRsvp(d, p)
        PROVE  EngagementTypeOK'
    <3>1. [pc |-> "rsvp", by |-> p] \in Visit
      BY DEF Visit
    <3> QED BY <1>0, <1>c, <1>d, <2>2, <3>1
            DEF EnsureOpenForRsvp, EngagementTypeOK, going, following, choice
  <2>3. ASSUME NEW d \in Windows, NEW p \in Attendees, Unrsvp(d, p) PROVE EngagementTypeOK'
    BY <1>0, <1>b, <1>c, <2>3 DEF Unrsvp, EngagementTypeOK, following, choice
  <2> QED BY <1>1, <2>1, <2>2, <2>3 DEF RsvpController
<1>2. CASE SubscriptionsController
  <2>1. ASSUME NEW d \in Windows, Subscribe(d) PROVE EngagementTypeOK'
    <3>1. window[d].by \in Attendees
      BY <1>0, <2>1 DEF Subscribe, EngagementTypeOK, Visit, Vacant, AtWindow
    <3> QED BY <1>0, <1>b, <1>d, <1>e, <2>1, <3>1
            DEF Subscribe, Depart, EngagementTypeOK, going, choice
  <2>2. ASSUME NEW d \in Windows, NEW p \in Attendees, LookForSubscription(d, p)
        PROVE  EngagementTypeOK'
    <3>1. [pc |-> "subscribe", by |-> p] \in Visit
      BY DEF Visit
    <3> QED BY <1>0, <1>c, <1>d, <2>2, <3>1
            DEF LookForSubscription, EngagementTypeOK, going, following, choice
  <2>3. ASSUME NEW d \in Windows, NEW p \in Attendees, Unsubscribe(d, p)
        PROVE  EngagementTypeOK'
    BY <1>0, <1>b, <1>c, <2>3
       DEF Unsubscribe, DropSubscription, EngagementTypeOK, going, choice
  <2> QED BY <1>2, <2>1, <2>2, <2>3 DEF SubscriptionsController
<1>3. CASE BlocksController
  <2>1. ASSUME NEW d \in Windows, EndSubscription(d) PROVE EngagementTypeOK'
    BY <1>0, <1>b, <1>d, <1>e, <2>1
       DEF EndSubscription, DropSubscription, Depart, EngagementTypeOK, going, choice
  <2>2. ASSUME NEW d \in Windows, NEW p \in Attendees, BlockOrganisation(d, p)
        PROVE  EngagementTypeOK'
    <3>1. [pc |-> "leave", by |-> p] \in Visit
      BY DEF Visit
    <3> QED BY <1>0, <1>c, <1>d, <2>2, <3>1
            DEF BlockOrganisation, EngagementTypeOK, going, choice
  <2>3. ASSUME NEW d \in Windows, NEW p \in Attendees, UnblockOrganisation(d, p)
        PROVE  EngagementTypeOK'
    BY <1>0, <1>c, <2>3 DEF UnblockOrganisation, EngagementTypeOK, going, choice
  <2> QED BY <1>3, <2>1, <2>2, <2>3 DEF BlocksController
<1>4. CASE ProfileInterests
  <2>1. ASSUME NEW d \in Windows, DeleteSeen(d) PROVE EngagementTypeOK'
    <3>1. /\ window[d].by \in Attendees /\ window[d].want \in SUBSET Interests
          /\ chosen[window[d].by] \in SUBSET Interests
      BY <1>0, <2>1 DEF DeleteSeen, EngagementTypeOK, Visit, Vacant, AtWindow
    <3>2. [pc |-> "insert", by |-> window[d].by, want |-> window[d].want,
           seen |-> chosen[window[d].by]] \in Visit
      BY <3>1 DEF Visit
    <3> QED BY <1>0, <1>d, <2>1, <3>2
            DEF DeleteSeen, EngagementTypeOK, going, following, choice
  <2>2. ASSUME NEW d \in Windows, InsertChosen(d) PROVE EngagementTypeOK'
    <3> DEFINE p == window[d].by
               kept == chosen[p] \ window[d].seen
    <3>1. p \in Attendees /\ window[d].want \in SUBSET Interests /\ kept \in SUBSET Interests
      BY <1>0, <2>2 DEF InsertChosen, EngagementTypeOK, Visit, Vacant, AtWindow
    <3>2. chosen' \in [Attendees -> SUBSET Interests]
      BY <1>0, <2>2, <3>1 DEF InsertChosen, EngagementTypeOK
    <3>3. ASSUME NEW e \in Windows, AtWindow(e, "insert")
          PROVE  [window[e] EXCEPT !.seen = @ \cap kept] \in Visit
      BY <1>0, <3>3 DEF EngagementTypeOK, Visit, Vacant, AtWindow
    <3>4. window' \in [Windows -> Visit]
      BY <1>0, <1>e, <2>2, <3>3 DEF InsertChosen, Replace, EngagementTypeOK
    <3> QED BY <1>0, <2>2, <3>2, <3>4 DEF InsertChosen, EngagementTypeOK, going, following
  <2>3. ASSUME NEW d \in Windows, NEW p \in Attendees, NEW want \in SUBSET Interests,
               SyncFor(d, p, want)
        PROVE  EngagementTypeOK'
    <3>1. [pc |-> "sync", by |-> p, want |-> want] \in Visit
      BY DEF Visit
    <3>2. asked' \in [Attendees -> SUBSET SUBSET Interests] /\ mixed' \subseteq Attendees
      BY <1>0, <2>3 DEF SyncFor, EngagementTypeOK
    <3> QED BY <1>0, <1>c, <1>d, <2>3, <3>1, <3>2
            DEF SyncFor, EngagementTypeOK, going, following
  <2> QED BY <1>4, <2>1, <2>2, <2>3 DEF ProfileInterests
<1>5. CASE SetEventOpen
  BY <1>0, <1>5, EngagementAssumption
     DEF SetEventOpen, EngagementTypeOK, going, following, choice
<1>6. ASSUME NEW d \in Windows, GiveUp(d) PROVE EngagementTypeOK'
  BY <1>0, <1>d, <1>e, <1>6 DEF GiveUp, Depart, EngagementTypeOK, going, following, choice
<1>7. ASSUME NEW d \in Windows, NEW p \in Attendees, AccountLeaves(d, p) PROVE EngagementTypeOK'
  BY <1>0, <1>b, <1>c, <1>7 DEF AccountLeaves, EngagementTypeOK
<1>8. CASE UNCHANGED engagementVars
  BY <1>0, <1>8 DEF EngagementTypeOK, engagementVars, going, following, choice
<1> QED BY <1>1, <1>2, <1>3, <1>4, <1>5, <1>6, <1>7, <1>8 DEF EngagementNext

\* A step that leaves the choices alone, and the requests that make them, or
\* ends some of them.
LEMMA ChoiceLeftAlone ==
  ASSUME EngagementInv, UNCHANGED choice, deleted \subseteq deleted',
         \A d \in Windows : window'[d].pc \in {"sync", "insert"} => window'[d] = window[d]
  PROVE  OneChoice' /\ ChoiceOK'
<1>1. OneChoice'
  BY DEF EngagementInv, EngagementExplained, OneChoice, choice
<1>2. ASSUME NEW d \in Windows, NEW p \in (Attendees \ (mixed \cup deleted))', SyncsOf(d, p)'
      PROVE  /\ window'[d].want \in asked'[p]
             /\ AtWindow(d, "insert")' => chosen'[p] \subseteq window'[d].seen
             /\ \A e \in Windows : SyncsOf(e, p)' => e = d
  BY <1>2 DEF EngagementInv, ChoiceOK, SyncsOf, AtWindow, choice
<1> QED BY <1>1, <1>2 DEF ChoiceOK

\* A request that asks for something else, or is done, makes no choice.
LEMMA OtherTurn ==
  ASSUME EngagementTypeOK, NEW d \in Windows, NEW j, Turn(d, j), j.pc \notin {"sync", "insert"}
  PROVE  \A e \in Windows : window'[e].pc \in {"sync", "insert"} => window'[e] = window[e]
  BY DEF Turn, EngagementTypeOK

\* Interests are replaced as chosen, unless two choices were made at once.
LEMMA ChoiceStep ==
  ASSUME EngagementInv, [EngagementNext]_engagementVars
  PROVE  OneChoice' /\ ChoiceOK'
<1>0. EngagementTypeOK /\ EngagementTypeOK'
  BY TypeStep DEF EngagementInv
<1>d. ASSUME NEW d \in Windows, Depart(d), UNCHANGED <<choice, deleted>>
      PROVE  OneChoice' /\ ChoiceOK'
  BY <1>0, <1>d, OtherTurn, ChoiceLeftAlone DEF Depart, Vacant
<1>e. ASSUME NEW d \in Windows, NEW p, NEW pc \in {"rsvp", "subscribe", "leave"},
             Turn(d, [pc |-> pc, by |-> p]), UNCHANGED <<choice, deleted>>
      PROVE  OneChoice' /\ ChoiceOK'
  BY <1>0, <1>e, OtherTurn, ChoiceLeftAlone
<1>f. ASSUME UNCHANGED <<choice, deleted, window>> PROVE OneChoice' /\ ChoiceOK'
  BY <1>f, ChoiceLeftAlone
<1>1. CASE RsvpController
  BY <1>d, <1>e, <1>f, <1>1 DEF RsvpController, Rsvp, EnsureOpenForRsvp, Unrsvp
<1>2. CASE SubscriptionsController
  BY <1>d, <1>e, <1>f, <1>2
     DEF SubscriptionsController, Subscribe, LookForSubscription, Unsubscribe
<1>3. CASE BlocksController
  BY <1>d, <1>e, <1>f, <1>3
     DEF BlocksController, EndSubscription, BlockOrganisation, UnblockOrganisation
<1>4. ASSUME NEW d \in Windows, DeleteSeen(d) PROVE OneChoice' /\ ChoiceOK'
  <2>1. /\ window[d].pc = "sync"
        /\ window' = [window EXCEPT ![d] =
             [pc |-> "insert", by |-> window[d].by, want |-> window[d].want,
              seen |-> chosen[window[d].by]]]
        /\ UNCHANGED <<choice, deleted>>
    BY <1>4 DEF DeleteSeen, AtWindow, Turn
  <2>2. OneChoice'
    BY <2>1 DEF EngagementInv, EngagementExplained, OneChoice, choice
  <2>3. \A e \in Windows, p \in Attendees : SyncsOf(e, p)' <=> SyncsOf(e, p)
    BY <1>0, <2>1 DEF SyncsOf, EngagementTypeOK
  <2>4. ASSUME NEW e \in Windows, NEW p \in (Attendees \ (mixed \cup deleted))', SyncsOf(e, p)'
        PROVE  /\ window'[e].want \in asked'[p]
               /\ AtWindow(e, "insert")' => chosen'[p] \subseteq window'[e].seen
               /\ \A f \in Windows : SyncsOf(f, p)' => f = e
    <3>1. /\ SyncsOf(e, p) /\ window[e].want \in asked[p]
          /\ AtWindow(e, "insert") => chosen[p] \subseteq window[e].seen
          /\ \A f \in Windows : SyncsOf(f, p) => f = e
      BY <2>1, <2>3, <2>4 DEF EngagementInv, ChoiceOK, choice
    <3>2. CASE e = d
      BY <1>0, <2>1, <2>3, <3>1, <3>2 DEF EngagementTypeOK, SyncsOf, choice
    <3>3. CASE e # d
      BY <1>0, <2>1, <2>3, <3>1, <3>3 DEF EngagementTypeOK, AtWindow, choice
    <3> QED BY <3>2, <3>3
  <2> QED BY <2>2, <2>4 DEF ChoiceOK
<1>5. ASSUME NEW d \in Windows, InsertChosen(d) PROVE OneChoice' /\ ChoiceOK'
  <2> DEFINE p == window[d].by
             kept == chosen[p] \ window[d].seen
  <2>1. /\ window[d].pc = "insert" /\ p \notin deleted
        /\ chosen' = [chosen EXCEPT ![p] = kept \cup window[d].want]
        /\ UNCHANGED <<asked, mixed, deleted>>
    BY <1>5 DEF InsertChosen, AtWindow
  <2>2. p \in Attendees
    BY <1>0, <2>1 DEF EngagementTypeOK, Visit, Vacant
  <2>3. /\ window'[d] = Vacant
        /\ \A e \in Windows \ {d} :
             /\ SyncsOf(e, p) => window'[e].pc = window[e].pc /\ window'[e].by = p
             /\ ~SyncsOf(e, p) => window'[e] = window[e]
    BY <1>0, <1>5 DEF InsertChosen, Replace, SyncsOf, EngagementTypeOK, Visit, Vacant, AtWindow
  <2>4. p \notin mixed => kept = {} /\ window[d].want \in asked[p]
    BY <2>1, <2>2 DEF EngagementInv, ChoiceOK, SyncsOf, AtWindow
  <2>5. OneChoice'
    BY <1>0, <2>1, <2>2, <2>4
       DEF EngagementInv, EngagementExplained, OneChoice, EngagementTypeOK
  <2>6. ASSUME NEW e \in Windows, NEW q \in (Attendees \ (mixed \cup deleted))', SyncsOf(e, q)'
        PROVE  /\ window'[e].want \in asked'[q]
               /\ AtWindow(e, "insert")' => chosen'[q] \subseteq window'[e].seen
               /\ \A f \in Windows : SyncsOf(f, q)' => f = e
    <3>1. e # d
      BY <2>3, <2>6 DEF SyncsOf, Vacant
    <3>2. q \in Attendees \ (mixed \cup deleted)
      BY <2>1
    <3>3. SyncsOf(e, q)
      BY <2>3, <2>6, <3>1 DEF SyncsOf
    <3>4. q # p
      BY <2>1, <3>1, <3>2, <3>3 DEF EngagementInv, ChoiceOK, SyncsOf
    <3>5. window'[e] = window[e] /\ chosen'[q] = chosen[q]
      BY <1>0, <2>1, <2>3, <3>1, <3>2, <3>3, <3>4 DEF SyncsOf, EngagementTypeOK
    <3>6. \A f \in Windows : SyncsOf(f, q)' => SyncsOf(f, q)
      BY <2>3 DEF SyncsOf, Vacant
    <3> QED BY <2>1, <3>2, <3>3, <3>5, <3>6 DEF EngagementInv, ChoiceOK, AtWindow
  <2> QED BY <2>5, <2>6 DEF ChoiceOK
<1>6. ASSUME NEW d \in Windows, NEW p \in Attendees, NEW want \in SUBSET Interests,
             SyncFor(d, p, want)
      PROVE  OneChoice' /\ ChoiceOK'
  <2>1. /\ window[d].pc = "free"
        /\ window' = [window EXCEPT ![d] = [pc |-> "sync", by |-> p, want |-> want]]
        /\ asked' = [asked EXCEPT ![p] = @ \cup {want}]
        /\ mixed' = IF Syncing(p) THEN mixed \cup {p} ELSE mixed
        /\ UNCHANGED <<chosen, deleted>>
    BY <1>6 DEF SyncFor, Come, AtWindow, Turn
  <2>2. \A q \in Attendees : asked[q] \subseteq asked'[q]
    BY <1>0, <2>1 DEF EngagementTypeOK
  <2>3. OneChoice'
    BY <2>1, <2>2 DEF EngagementInv, EngagementExplained, OneChoice
  <2>4. \A e \in Windows \ {d} : window'[e] = window[e]
    BY <1>0, <2>1 DEF EngagementTypeOK
  <2>5. window'[d] = [pc |-> "sync", by |-> p, want |-> want] /\ want \in asked'[p]
    BY <1>0, <2>1 DEF EngagementTypeOK
  <2>6. p \notin mixed' => \A e \in Windows : ~SyncsOf(e, p)
    BY <2>1 DEF Syncing, SyncsOf
  <2>7. ASSUME NEW e \in Windows, NEW q \in (Attendees \ (mixed \cup deleted))', SyncsOf(e, q)'
        PROVE  /\ window'[e].want \in asked'[q]
               /\ AtWindow(e, "insert")' => chosen'[q] \subseteq window'[e].seen
               /\ \A f \in Windows : SyncsOf(f, q)' => f = e
    <3>1. q \in Attendees \ (mixed \cup deleted)
      BY <2>1
    <3>2. CASE q = p
      BY <2>4, <2>5, <2>6, <2>7, <3>2 DEF SyncsOf, AtWindow
    <3>3. CASE q # p
      <4>1. e # d
        BY <2>5, <2>7, <3>3 DEF SyncsOf
      <4>2. SyncsOf(e, q) /\ \A f \in Windows : SyncsOf(f, q)' => SyncsOf(f, q)
        BY <2>4, <2>5, <2>7, <3>3, <4>1 DEF SyncsOf
      <4>3. /\ window[e].want \in asked[q]
            /\ AtWindow(e, "insert") => chosen[q] \subseteq window[e].seen
            /\ \A f \in Windows : SyncsOf(f, q) => f = e
        BY <3>1, <4>2 DEF EngagementInv, ChoiceOK
      <4> QED BY <2>1, <2>2, <2>4, <3>1, <4>1, <4>2, <4>3 DEF AtWindow
    <3> QED BY <3>2, <3>3
  <2> QED BY <2>3, <2>7 DEF ChoiceOK
<1>7. CASE ProfileInterests
  BY <1>4, <1>5, <1>6, <1>7 DEF ProfileInterests
<1>8. CASE SetEventOpen \/ UNCHANGED engagementVars
  BY <1>f, <1>8 DEF SetEventOpen, engagementVars
<1>9. ASSUME NEW d \in Windows, GiveUp(d) PROVE OneChoice' /\ ChoiceOK'
  BY <1>d, <1>9 DEF GiveUp
<1>10. ASSUME NEW d \in Windows, NEW p \in Attendees, AccountLeaves(d, p)
       PROVE  OneChoice' /\ ChoiceOK'
  <2>1. /\ deleted' = deleted \cup {p} /\ chosen' = [chosen EXCEPT ![p] = {}]
        /\ UNCHANGED <<asked, mixed, window>>
    BY <1>10 DEF AccountLeaves
  <2>2. \A q \in Attendees \ {p} : chosen'[q] = chosen[q]
    BY <1>0, <2>1 DEF EngagementTypeOK
  <2>3. OneChoice'
    BY <2>1, <2>2 DEF EngagementInv, EngagementExplained, OneChoice
  <2>4. ChoiceOK'
    BY <2>1, <2>2 DEF EngagementInv, ChoiceOK, SyncsOf, AtWindow
  <2> QED BY <2>3, <2>4
<1> QED BY <1>1, <1>2, <1>3, <1>7, <1>8, <1>9, <1>10 DEF EngagementNext

----------------------------------------------------------------------------

\* The invariant holds throughout.
THEOREM EngagementInvariant == EngagementSpec => []EngagementInv
<1>1. EngagementInv /\ [EngagementNext]_engagementVars => EngagementInv'
  <2> SUFFICES ASSUME EngagementInv, [EngagementNext]_engagementVars PROVE EngagementInv'
    OBVIOUS
  <2>1. RowsOK' /\ AudienceExplained'
    BY BooksStep
       DEF BooksKept, GoingKept, FollowingKept, CountsKept, RowsOK, AudienceExplained
  <2> QED BY <2>1, TypeStep, ChoiceStep DEF EngagementInv, EngagementExplained
<1> QED BY EngagementInitInv, <1>1, PTL DEF EngagementSpec

\* Tables, counters and requests have the types of the code's columns: no
\* counter goes below zero.
THEOREM EngagementTypeCorrect == EngagementSpec => []EngagementTypeOK
<1>1. EngagementInv => EngagementTypeOK
  BY DEF EngagementInv
<1> QED BY EngagementInvariant, <1>1, PTL

\* RSVPs and subscriptions are counted exactly, but for those of deleted
\* accounts, and interests are one of the choices made, whatever requests
\* overlap, fail or die (RsvpService, SubscriptionsService, InterestsService).
THEOREM EngagementIsExplained == EngagementSpec => []EngagementExplained
<1>1. EngagementInv => EngagementExplained
  BY DEF EngagementInv
<1> QED BY EngagementInvariant, <1>1, PTL

----------------------------------------------------------------------------
(* Transfers *)

\* What a person may still come to have fits under the cap with what they
\* have: one ticket on its way leaves no room for a hold or another transfer.
RoomLeft(p) ==
  /\ Cardinality(Owned(p)) + held[p] <= Cap
  /\ \A d \in Desks : AtDesk(d, "moving") /\ desk[d].to = p =>
       /\ held[p] = 0 /\ Cardinality(Owned(p)) + 1 <= Cap
       /\ \A e \in Desks : AtDesk(e, "moving") /\ desk[e].to = p => e = d

RoomForAll == \A p \in Patrons \ swamped : RoomLeft(p)

\* A ticket on its way is valid: its lock keeps the gate and the admin away.
MovingValid == \A d \in Desks : AtDesk(d, "moving") => seatStatus[desk[d].seat] = "valid"

\* An issued ticket has a holder, and everybody finitely many.
SeatsPlaced == \A s \in Seats : seatStatus[s] # "none" => holder[s] \in Patrons
FewOwned == \A p \in Patrons : IsFiniteSet(Owned(p))

TransfersInv ==
  /\ TransfersTypeOK /\ SeatsPlaced /\ FewOwned /\ MovingValid /\ RoomForAll
  /\ AdmittedExplained

LEMMA TransfersInitInv == TransfersInit => TransfersInv
<1> SUFFICES ASSUME TransfersInit PROVE TransfersInv
  OBVIOUS
<1> USE DEF TransfersInit
<1>1. TransfersTypeOK
  BY TransfersAssumption DEF TransfersTypeOK, SeatStatus, Errand, Unused
<1>2. \A p \in Patrons : Owned(p) = {} /\ held[p] = 0
  BY DEF Owned
<1>3. \A d \in Desks : ~AtDesk(d, "moving")
  BY DEF AtDesk, Unused
<1>4. FewOwned /\ RoomForAll
  BY <1>2, <1>3, FS_EmptySet, TransfersAssumption DEF FewOwned, RoomForAll, RoomLeft
<1>5. SeatsPlaced /\ MovingValid /\ AdmittedExplained
  BY <1>3 DEF SeatsPlaced, MovingValid, AdmittedExplained, Nobody
<1> QED BY <1>1, <1>4, <1>5 DEF TransfersInv

\* What a request carries.
LEMMA ErrandFields ==
  ASSUME TransfersTypeOK, NEW d \in Desks
  PROVE  /\ desk[d].pc \in {"checked", "moving"} =>
              /\ desk[d].seat \in Seats /\ desk[d].from \in Patrons /\ desk[d].to \in Patrons
              /\ [desk[d] EXCEPT !.pc = "moving"] \in Errand
              /\ [desk[d] EXCEPT !.pc = "moving"].pc = "moving"
              /\ [desk[d] EXCEPT !.pc = "moving"].to = desk[d].to
              /\ [desk[d] EXCEPT !.pc = "moving"].seat = desk[d].seat
         /\ AtDesk(d, "give") => desk[d].seat \in Seats /\ desk[d].to \in Patrons
         /\ desk[d].pc \in {"revoke", "reissue"} => desk[d].seat \in Seats
  BY DEF TransfersTypeOK, Errand, Unused, AtDesk

\* One request proceeds, the others are where they were.
LEMMA DeskSet ==
  ASSUME TransfersTypeOK, NEW d \in Desks, NEW j \in Errand, Proceed(d, j)
  PROVE  /\ desk' \in [Desks -> Errand]
         /\ \A e \in Desks : desk'[e] = IF e = d THEN j ELSE desk[e]
  BY DEF TransfersTypeOK, Proceed

\* A person whose tickets and holds become no more, and to whom nothing new is
\* on its way, has room as before.
LEMMA RoomEases ==
  ASSUME TransfersInv, NEW p \in Patrons, swamped \subseteq swamped',
         p \notin swamped' =>
           /\ Owned(p)' \subseteq Owned(p) /\ held'[p] \in Nat /\ held'[p] <= held[p]
           /\ \A d \in Desks : AtDesk(d, "moving")' /\ desk'[d].to = p => desk'[d] = desk[d]
  PROVE  p \notin swamped' => RoomLeft(p)'
<1> SUFFICES ASSUME p \notin swamped' PROVE RoomLeft(p)'
  OBVIOUS
<1>1. IsFiniteSet(Owned(p)) /\ RoomLeft(p) /\ held[p] \in Nat
  BY DEF TransfersInv, FewOwned, RoomForAll, TransfersTypeOK
<1>2. /\ Cardinality(Owned(p)') <= Cardinality(Owned(p))
      /\ Cardinality(Owned(p)') \in Nat /\ Cardinality(Owned(p)) \in Nat
  BY <1>1, FS_Subset, FS_CardinalityType
<1>3. Cardinality(Owned(p)') + held'[p] <= Cap
  BY <1>1, <1>2, TransfersAssumption DEF RoomLeft
<1>4. ASSUME NEW d \in Desks, AtDesk(d, "moving")', desk'[d].to = p
      PROVE  /\ held'[p] = 0 /\ Cardinality(Owned(p)') + 1 <= Cap
             /\ \A e \in Desks : AtDesk(e, "moving")' /\ desk'[e].to = p => e = d
  <2>1. AtDesk(d, "moving") /\ desk[d].to = p
    BY <1>4 DEF AtDesk
  <2>2. /\ held[p] = 0 /\ Cardinality(Owned(p)) + 1 <= Cap
        /\ \A e \in Desks : AtDesk(e, "moving") /\ desk[e].to = p => e = d
    BY <1>1, <2>1 DEF RoomLeft
  <2>3. held'[p] = 0 /\ Cardinality(Owned(p)') + 1 <= Cap
    BY <1>1, <1>2, <2>2, TransfersAssumption
  <2>4. \A e \in Desks : AtDesk(e, "moving")' /\ desk'[e].to = p => e = d
    BY <2>2 DEF AtDesk
  <2> QED BY <2>3, <2>4
<1> QED BY <1>3, <1>4 DEF RoomLeft

\* One ticket more.
LEMMA OneMoreSeat ==
  ASSUME TransfersInv, NEW p \in Patrons, NEW s, Owned(p)' \subseteq Owned(p) \cup {s}
  PROVE  /\ IsFiniteSet(Owned(p)')
         /\ Cardinality(Owned(p)) \in Nat /\ Cardinality(Owned(p)') \in Nat
         /\ Cardinality(Owned(p)') <= Cardinality(Owned(p)) + 1
<1>1. IsFiniteSet(Owned(p))
  BY DEF TransfersInv, FewOwned
<1>2. /\ IsFiniteSet(Owned(p) \cup {s})
      /\ Cardinality(Owned(p) \cup {s}) =
           IF s \in Owned(p) THEN Cardinality(Owned(p)) ELSE Cardinality(Owned(p)) + 1
  BY <1>1, FS_AddElement
<1>3. IsFiniteSet(Owned(p)') /\ Cardinality(Owned(p)') <= Cardinality(Owned(p) \cup {s})
  BY <1>2, FS_Subset
<1> QED BY <1>1, <1>2, <1>3, FS_CardinalityType

\* Steps that leave the tickets alone, and are no check of the cap.
LEMMA TicketsStay ==
  ASSUME TransfersInv, TransfersTypeOK', UNCHANGED <<seatStatus, holder, door, overtaken>>,
         swamped \subseteq swamped',
         \A p \in Patrons : p \notin swamped' => held'[p] <= held[p],
         \A d \in Desks : AtDesk(d, "moving")' => desk'[d] = desk[d]
  PROVE  TransfersInv'
<1>1. \A p \in Patrons : Owned(p)' = Owned(p)
  BY DEF Owned
<1>2. \A p \in Patrons : held'[p] \in Nat
  BY DEF TransfersTypeOK
<1>3. RoomForAll'
  BY <1>1, <1>2, RoomEases DEF RoomForAll
<1>4. FewOwned'
  BY <1>1 DEF FewOwned, TransfersInv
<1>5. SeatsPlaced' /\ MovingValid' /\ AdmittedExplained'
  BY DEF TransfersInv, SeatsPlaced, MovingValid, AdmittedExplained, AtDesk
<1> QED BY <1>3, <1>4, <1>5 DEF TransfersInv

LEMMA FinishKeeps ==
  ASSUME TransfersTypeOK, NEW d \in Desks, Finish(d)
  PROVE  /\ desk' \in [Desks -> Errand]
         /\ \A e \in Desks : AtDesk(e, "moving")' => desk'[e] = desk[e] /\ e # d
<1>1. Unused \in Errand
  BY DEF Errand
<1>2. /\ desk' \in [Desks -> Errand]
      /\ \A e \in Desks : desk'[e] = IF e = d THEN Unused ELSE desk[e]
  BY <1>1, DeskSet DEF Finish
<1> QED BY <1>2 DEF AtDesk, Unused

LEMMA QuietKeeps ==
  ASSUME TransfersInv,
         \/ Toggle
         \/ \E p \in Patrons :
              Lapse(p) \/ SuspendHolder(p) \/ \E q \in Patrons : BlockPair(p, q)
  PROVE  TransfersInv'
<1> USE DEF TransfersInv
<1>1. TransfersTypeOK'
  <2>1. ASSUME NEW p \in Patrons, Lapse(p) PROVE TransfersTypeOK'
    BY <2>1 DEF Lapse, TransfersTypeOK, ticketRow, house
  <2>2. ASSUME NEW p \in Patrons, SuspendHolder(p) PROVE TransfersTypeOK'
    BY <2>2, TransfersAssumption DEF SuspendHolder, Motion, TransfersTypeOK, ticketRow
  <2>3. CASE Toggle
    BY <2>3, TransfersAssumption DEF Toggle, Motion, TransfersTypeOK, ticketRow
  <2>4. ASSUME NEW p \in Patrons, NEW q \in Patrons, BlockPair(p, q)
        PROVE  TransfersTypeOK'
    BY <2>4, TransfersAssumption DEF BlockPair, Motion, TransfersTypeOK, ticketRow
  <2> QED BY <2>1, <2>2, <2>3, <2>4
<1>2. /\ UNCHANGED <<seatStatus, holder, door, overtaken, swamped, desk>>
      /\ \A q \in Patrons : held'[q] <= held[q]
  BY DEF Lapse, SuspendHolder, Toggle, BlockPair, TransfersTypeOK, ticketRow, house
<1> QED BY <1>1, <1>2, TicketsStay

\* A request asks, is refused, or ends; no ticket changes.
LEMMA DeskKeeps ==
  ASSUME TransfersInv, NEW d \in Desks, NEW s \in Seats,
         \/ \E p, q \in Patrons : Ensure(d, s, p, q)
         \/ \E q \in Patrons : AdminTransfer(d, s, q)
         \/ AdminRevoke(d, s) \/ AdminReissue(d, s)
  PROVE  TransfersInv'
<1> USE DEF TransfersInv
<1>1. PICK j \in Errand :
        /\ j.pc # "moving" /\ Proceed(d, j) /\ motions' \in 0..MaxMotions
        /\ UNCHANGED <<seatStatus, holder, code, held, enabled, barred, blocked, door,
                       swamped, overtaken>>
  <2>m. Approach(d) => motions' \in 0..MaxMotions
    BY TransfersAssumption DEF Approach, Motion, TransfersTypeOK
  <2>1. ASSUME NEW p \in Patrons, NEW q \in Patrons, Ensure(d, s, p, q)
        PROVE  [pc |-> "checked", seat |-> s, from |-> p, to |-> q] \in Errand
    BY DEF Errand
  <2>2. ASSUME NEW q \in Patrons
        PROVE  [pc |-> "give", seat |-> s, to |-> q] \in Errand
    BY DEF Errand
  <2>3. [pc |-> "revoke", seat |-> s] \in Errand /\ [pc |-> "reissue", seat |-> s] \in Errand
    BY DEF Errand
  <2>4. CASE \E p, q \in Patrons : Ensure(d, s, p, q)
    BY <2>1, <2>4, <2>m DEF Ensure, ticketRow, house
  <2>5. CASE \E q \in Patrons : AdminTransfer(d, s, q)
    BY <2>2, <2>5, <2>m DEF AdminTransfer, Admin, ticketRow, house
  <2>6. CASE AdminRevoke(d, s) \/ AdminReissue(d, s)
    BY <2>3, <2>6, <2>m DEF AdminRevoke, AdminReissue, Admin, ticketRow, house
  <2> QED BY <2>4, <2>5, <2>6
<1>2. /\ desk' \in [Desks -> Errand]
      /\ \A e \in Desks : desk'[e] = IF e = d THEN j ELSE desk[e]
  BY <1>1, DeskSet
<1>3. TransfersTypeOK'
  BY <1>1, <1>2 DEF TransfersTypeOK
<1>4. \A e \in Desks : AtDesk(e, "moving")' => desk'[e] = desk[e]
  BY <1>1, <1>2 DEF AtDesk
<1>5. \A p \in Patrons : held'[p] <= held[p]
  BY <1>1 DEF TransfersTypeOK
<1> QED BY <1>1, <1>3, <1>4, <1>5, TicketsStay

LEMMA EndKeeps ==
  ASSUME TransfersInv, NEW d \in Desks, Refuse(d) \/ Withdraw(d)
  PROVE  TransfersInv'
<1> USE DEF TransfersInv
<1>1. Finish(d) /\ UNCHANGED <<seatStatus, holder, code, held, enabled, barred, blocked, motions,
                               door, swamped, overtaken>>
  BY DEF Refuse, Withdraw, ticketRow, house
<1>2. TransfersTypeOK'
  BY <1>1, FinishKeeps DEF TransfersTypeOK
<1>3. \A e \in Desks : AtDesk(e, "moving")' => desk'[e] = desk[e]
  BY <1>1, FinishKeeps
<1>4. \A p \in Patrons : held'[p] <= held[p]
  BY <1>1 DEF TransfersTypeOK
<1> QED BY <1>1, <1>2, <1>3, <1>4, TicketsStay

\* ensureBuyable counts what is held, and a ticket on its way is remembered.
LEMMA HoldKeeps ==
  ASSUME TransfersInv, NEW p \in Patrons, Hold(p)
  PROVE  TransfersInv'
<1> USE DEF TransfersInv
<1>1. /\ UNCHANGED <<seatStatus, holder, code, enabled, barred, blocked, desk, door, overtaken>>
      /\ held' \in [Patrons -> Nat]
      /\ \A q \in Patrons : held'[q] = IF q = p THEN held[p] + 1 ELSE held[q]
      /\ Cardinality(Owned(p)) + held[p] + 1 <= Cap
      /\ swamped' = IF Expected(p) THEN swamped \cup {p} ELSE swamped
      /\ motions' \in 0..MaxMotions
  BY TransfersAssumption DEF Hold, Overrun, Motion, TransfersTypeOK, ticketRow, house
<1>2. TransfersTypeOK'
  BY <1>1 DEF TransfersTypeOK
<1>3. \A q \in Patrons : Owned(q)' = Owned(q)
  BY <1>1 DEF Owned
<1>4. ASSUME NEW q \in Patrons, q \notin swamped' PROVE RoomLeft(q)'
  <2>1. CASE q # p
    <3>1. held'[q] \in Nat /\ held'[q] <= held[q]
      BY <1>1, <2>1 DEF TransfersTypeOK
    <3>2. \A d \in Desks : AtDesk(d, "moving")' /\ desk'[d].to = q => desk'[d] = desk[d]
      BY <1>1
    <3>3. swamped \subseteq swamped'
      BY <1>1
    <3> QED BY <1>3, <1>4, <3>1, <3>2, <3>3, RoomEases
  <2>2. CASE q = p
    <3>1. ~Expected(p) /\ p \in Patrons
      BY <1>1, <1>4, <2>2
    <3>2. \A d \in Desks : ~(AtDesk(d, "moving")' /\ desk'[d].to = p)
      BY <1>1, <3>1 DEF Expected, AtDesk
    <3>3. Cardinality(Owned(p)) \in Nat /\ held[p] \in Nat
      BY FS_CardinalityType DEF FewOwned, TransfersTypeOK
    <3>4. Cardinality(Owned(p)') + held'[p] <= Cap
      BY <1>1, <1>3, <3>3, TransfersAssumption
    <3> QED BY <2>2, <3>2, <3>4 DEF RoomLeft
  <2> QED BY <2>1, <2>2
<1>5. RoomForAll'
  BY <1>4 DEF RoomForAll
<1>6. FewOwned'
  BY <1>3 DEF FewOwned
<1>7. SeatsPlaced' /\ MovingValid' /\ AdmittedExplained'
  BY <1>1 DEF SeatsPlaced, MovingValid, AdmittedExplained, AtDesk
<1> QED BY <1>2, <1>5, <1>6, <1>7

\* LockAndCheck: the recipient has room for one more, and no hold or other
\* transfer to them is beside it.
LEMMA LockKeeps ==
  ASSUME TransfersInv, NEW d \in Desks, LockAndCheck(d)
  PROVE  TransfersInv'
<1> USE DEF TransfersInv
<1>0. AtDesk(d, "checked")
  BY DEF LockAndCheck
<1>1. PICK s \in Seats, p \in Patrons, j \in Errand :
        /\ s = desk[d].seat /\ p = desk[d].to /\ j = [desk[d] EXCEPT !.pc = "moving"]
        /\ j.pc = "moving" /\ j.to = p /\ j.seat = s
  BY <1>0, ErrandFields DEF AtDesk
<1>2. /\ Proceed(d, j) /\ seatStatus[s] = "valid"
      /\ Cardinality(Owned(p)) + 1 <= Cap
      /\ swamped' = IF held[p] > 0 \/ Expected(p) THEN swamped \cup {p} ELSE swamped
      /\ UNCHANGED <<seatStatus, holder, code, held, enabled, barred, blocked, motions, door,
                     overtaken>>
  BY <1>1 DEF LockAndCheck, UnderCap, Overrun, ticketRow, house
<1>3. /\ desk' \in [Desks -> Errand]
      /\ \A e \in Desks : desk'[e] = IF e = d THEN j ELSE desk[e]
  BY <1>2, DeskSet
<1>4. TransfersTypeOK'
  BY <1>2, <1>3 DEF TransfersTypeOK
<1>5. \A q \in Patrons : Owned(q)' = Owned(q)
  BY <1>2 DEF Owned
<1>6. ASSUME NEW q \in Patrons, q \notin swamped' PROVE RoomLeft(q)'
  <2>1. CASE q # p
    <3>1. held'[q] \in Nat /\ held'[q] <= held[q]
      BY <1>2, <2>1 DEF TransfersTypeOK
    <3>2. \A e \in Desks : AtDesk(e, "moving")' /\ desk'[e].to = q => desk'[e] = desk[e]
      BY <1>1, <1>3, <2>1
    <3>3. swamped \subseteq swamped'
      BY <1>2
    <3> QED BY <1>5, <1>6, <3>1, <3>2, <3>3, RoomEases
  <2>2. CASE q = p
    <3>1. ~Expected(p) /\ ~(held[p] > 0)
      BY <1>2, <1>6, <2>2
    <3>2. Cardinality(Owned(p)) \in Nat /\ held[p] \in Nat
      BY FS_CardinalityType DEF FewOwned, TransfersTypeOK
    <3>3. held[p] = 0
      BY <3>1, <3>2
    <3>4. \A e \in Desks : AtDesk(e, "moving")' /\ desk'[e].to = p => e = d
      BY <1>3, <3>1 DEF Expected, AtDesk
    <3>5. held'[p] = 0 /\ Cardinality(Owned(p)') + 1 <= Cap
      BY <1>2, <1>5, <3>3
    <3>6. Cardinality(Owned(p)') + held'[p] <= Cap
      BY <1>2, <1>5, <3>2, <3>3, TransfersAssumption
    <3> QED BY <2>2, <3>4, <3>5, <3>6 DEF RoomLeft
  <2> QED BY <2>1, <2>2
<1>7. RoomForAll'
  BY <1>6 DEF RoomForAll
<1>8. FewOwned'
  BY <1>5 DEF FewOwned
<1>9. MovingValid'
  BY <1>1, <1>2, <1>3 DEF MovingValid, AtDesk
<1>10. SeatsPlaced' /\ AdmittedExplained'
  BY <1>2 DEF SeatsPlaced, AdmittedExplained
<1> QED BY <1>4, <1>7, <1>8, <1>9, <1>10

\* What is changed where its seat is not locked stays valid on its way.
LEMMA MovingStays ==
  ASSUME TransfersInv,
         \A d \in Desks : AtDesk(d, "moving")' => desk'[d] = desk[d],
         \A s \in Seats : Locked(s) => seatStatus'[s] = seatStatus[s]
  PROVE  MovingValid'
<1> SUFFICES ASSUME NEW d \in Desks, AtDesk(d, "moving")'
             PROVE  seatStatus'[desk'[d].seat] = "valid"
  BY DEF MovingValid
<1>1. desk'[d] = desk[d] /\ AtDesk(d, "moving")
  BY DEF AtDesk
<1>2. Locked(desk[d].seat) /\ seatStatus[desk[d].seat] = "valid"
  BY <1>1 DEF Locked, TransfersInv, MovingValid
<1>3. desk[d].seat \in Seats
  BY <1>1, ErrandFields DEF TransfersInv, AtDesk
<1> QED BY <1>1, <1>2, <1>3

\* Nobody comes to have more, and the cap need not be looked at.
LEMMA FewerKeep ==
  ASSUME TransfersInv, \A p \in Patrons : Owned(p)' \subseteq Owned(p),
         UNCHANGED held, swamped \subseteq swamped',
         \A d \in Desks : AtDesk(d, "moving")' => desk'[d] = desk[d]
  PROVE  FewOwned' /\ RoomForAll'
<1>1. FewOwned'
  BY FS_Subset DEF TransfersInv, FewOwned
<1>2. \A p \in Patrons : held'[p] \in Nat /\ held'[p] <= held[p]
  BY DEF TransfersInv, TransfersTypeOK
<1>3. RoomForAll'
  BY <1>2, RoomEases DEF RoomForAll
<1> QED BY <1>1, <1>3

\* One person comes to have more, and is excused.
LEMMA GivenKeep ==
  ASSUME TransfersInv, NEW s \in Seats, NEW q,
         \A p \in Patrons : Owned(p)' \subseteq Owned(p) \cup {s},
         \A p \in Patrons \ {q} : Owned(p)' \subseteq Owned(p),
         UNCHANGED held, swamped' = swamped \cup {q},
         \A d \in Desks : AtDesk(d, "moving")' => desk'[d] = desk[d]
  PROVE  FewOwned' /\ RoomForAll'
<1>1. FewOwned'
  BY OneMoreSeat DEF FewOwned
<1>2. \A p \in Patrons : held'[p] \in Nat /\ held'[p] <= held[p]
  BY DEF TransfersInv, TransfersTypeOK
<1>3. RoomForAll'
  BY <1>2, RoomEases DEF RoomForAll
<1> QED BY <1>1, <1>3

LEMMA IssueKeeps ==
  ASSUME TransfersInv, NEW p \in Patrons, NEW s \in Seats, Issue(p, s)
  PROVE  TransfersInv'
<1> USE DEF TransfersInv
<1>1. /\ held[p] > 0 /\ seatStatus[s] = "none"
      /\ held' = [held EXCEPT ![p] = @ - 1]
      /\ seatStatus' = [seatStatus EXCEPT ![s] = "valid"]
      /\ holder' = [holder EXCEPT ![s] = p]
      /\ UNCHANGED <<code, enabled, barred, blocked, desk, motions, door, swamped, overtaken>>
  BY DEF Issue, house
<1>2. held[p] \in Nat /\ held[p] - 1 \in Nat
  BY <1>1 DEF TransfersTypeOK
<1>3. held' \in [Patrons -> Nat]
  BY <1>1, <1>2 DEF TransfersTypeOK
<1>4. /\ seatStatus' \in [Seats -> SeatStatus]
      /\ holder' \in [Seats -> Patrons \cup {Nobody}]
  BY <1>1 DEF TransfersTypeOK, SeatStatus
<1>5. TransfersTypeOK'
  BY <1>1, <1>3, <1>4 DEF TransfersTypeOK
<1>6. /\ \A t \in Seats : seatStatus'[t] = IF t = s THEN "valid" ELSE seatStatus[t]
      /\ \A t \in Seats : holder'[t] = IF t = s THEN p ELSE holder[t]
      /\ \A q \in Patrons : held'[q] = IF q = p THEN held[p] - 1 ELSE held[q]
  BY <1>1 DEF TransfersTypeOK
<1>7. /\ Owned(p)' \subseteq Owned(p) \cup {s}
      /\ \A q \in Patrons : q # p => Owned(q)' \subseteq Owned(q)
  BY <1>6 DEF Owned
<1>8. FewOwned'
  BY <1>7, OneMoreSeat, FS_Subset DEF FewOwned
<1>9. ASSUME NEW q \in Patrons, q \notin swamped' PROVE RoomLeft(q)'
  <2>1. CASE q # p
    <3>1. held'[q] \in Nat /\ held'[q] <= held[q]
      BY <1>6, <2>1 DEF TransfersTypeOK
    <3>2. \A e \in Desks : AtDesk(e, "moving")' /\ desk'[e].to = q => desk'[e] = desk[e]
      BY <1>1
    <3>3. swamped \subseteq swamped'
      BY <1>1
    <3>4. Owned(q)' \subseteq Owned(q)
      BY <1>7, <2>1
    <3> QED BY <1>9, <3>1, <3>2, <3>3, <3>4, RoomEases
  <2>2. CASE q = p
    <3>1. RoomLeft(p)
      BY <1>1, <1>9, <2>2 DEF RoomForAll
    <3>2. \A e \in Desks : ~(AtDesk(e, "moving") /\ desk[e].to = p)
      BY <1>1, <1>2, <3>1 DEF RoomLeft
    <3>3. \A e \in Desks : ~(AtDesk(e, "moving")' /\ desk'[e].to = p)
      BY <1>1, <3>2 DEF AtDesk
    <3>4. /\ Cardinality(Owned(p)) \in Nat /\ Cardinality(Owned(p)') \in Nat
          /\ Cardinality(Owned(p)') <= Cardinality(Owned(p)) + 1
      BY <1>7, OneMoreSeat
    <3>5. Cardinality(Owned(p)) + held[p] <= Cap
      BY <3>1 DEF RoomLeft
    <3>6. Cardinality(Owned(p)') + held'[p] <= Cap
      BY <1>2, <1>6, <3>4, <3>5, TransfersAssumption
    <3> QED BY <2>2, <3>3, <3>6 DEF RoomLeft
  <2> QED BY <2>1, <2>2
<1>10. RoomForAll'
  BY <1>9 DEF RoomForAll
<1>11. MovingValid'
  <2>1. \A e \in Desks : AtDesk(e, "moving") => desk[e].seat \in Seats
    BY ErrandFields DEF AtDesk
  <2> QED BY <1>1, <1>6, <2>1 DEF MovingValid, AtDesk
<1>12. SeatsPlaced' /\ AdmittedExplained'
  BY <1>1, <1>6 DEF SeatsPlaced, AdmittedExplained
<1> QED BY <1>5, <1>8, <1>10, <1>11, <1>12

\* A ticket is scanned, revoked by the organiser, or revoked by an admin.
LEMMA SeatEndsKeeps ==
  ASSUME TransfersInv, NEW s \in Seats,
         \/ \E c \in 0..code[s] : ScanByCode(s, c)
         \/ OrganizerRevoke(s)
         \/ \E d \in Desks : CommitRevoke(d) /\ s = desk[d].seat
  PROVE  TransfersInv'
<1> USE DEF TransfersInv
<1>1. \E st \in {"scanned", "revoked"} :
        /\ ~Locked(s) /\ seatStatus[s] \in {"valid", "scanned"}
        /\ seatStatus' = [seatStatus EXCEPT ![s] = st]
        /\ UNCHANGED <<holder, code, held, enabled, barred, blocked, swamped>>
  BY DEF ScanByCode, OrganizerRevoke, CommitRevoke, RevokeSeat, house
<1>2. PICK st \in {"scanned", "revoked"} :
        /\ ~Locked(s) /\ seatStatus[s] \in {"valid", "scanned"}
        /\ \A t \in Seats : seatStatus'[t] = IF t = s THEN st ELSE seatStatus[t]
        /\ seatStatus' \in [Seats -> SeatStatus]
        /\ UNCHANGED <<holder, code, held, enabled, barred, blocked, swamped>>
  BY <1>1 DEF TransfersTypeOK, SeatStatus
<1>3. \A p \in Patrons : Owned(p)' \subseteq Owned(p)
  BY <1>2 DEF Owned
<1>4. /\ desk' \in [Desks -> Errand]
      /\ \A e \in Desks : AtDesk(e, "moving")' => desk'[e] = desk[e]
  <2>1. ASSUME NEW d \in Desks, CommitRevoke(d)
        PROVE  /\ desk' \in [Desks -> Errand]
               /\ \A e \in Desks : AtDesk(e, "moving")' => desk'[e] = desk[e]
    BY <2>1, FinishKeeps DEF CommitRevoke
  <2>2. CASE UNCHANGED desk
    BY <2>2 DEF TransfersTypeOK
  <2> QED BY <2>1, <2>2 DEF ScanByCode, OrganizerRevoke
<1>5. FewOwned' /\ RoomForAll'
  BY <1>2, <1>3, <1>4, FewerKeep
<1>6. MovingValid'
  BY <1>2, <1>4, MovingStays
<1>7. SeatsPlaced'
  BY <1>2 DEF SeatsPlaced
<1>8. AdmittedExplained' /\ TransfersTypeOK'
  <2>1. ASSUME NEW c \in 0..code[s], ScanByCode(s, c)
        PROVE  AdmittedExplained' /\ TransfersTypeOK'
    <3>1. /\ seatStatus[s] = "valid" /\ seatStatus' = [seatStatus EXCEPT ![s] = "scanned"]
          /\ door' = [door EXCEPT ![s] = holder[s]]
          /\ UNCHANGED <<desk, motions, overtaken>>
      BY <2>1 DEF ScanByCode
    <3>2. /\ \A t \in Seats : seatStatus'[t] = IF t = s THEN "scanned" ELSE seatStatus[t]
          /\ \A t \in Seats : door'[t] = IF t = s THEN holder[s] ELSE door[t]
          /\ door' \in [Seats -> Patrons \cup {Nobody}]
      BY <3>1 DEF TransfersTypeOK
    <3>3. AdmittedExplained'
      BY <1>2, <3>1, <3>2 DEF AdmittedExplained
    <3>4. TransfersTypeOK'
      BY <1>2, <3>1, <3>2 DEF TransfersTypeOK
    <3> QED BY <3>3, <3>4
  <2>2. CASE OrganizerRevoke(s)
    <3>1. /\ door' = [door EXCEPT ![s] = Nobody] /\ motions' \in 0..MaxMotions
          /\ UNCHANGED <<desk, overtaken>>
      BY <2>2, TransfersAssumption DEF OrganizerRevoke, Motion, TransfersTypeOK
    <3>2. /\ \A t \in Seats : door'[t] = IF t = s THEN Nobody ELSE door[t]
          /\ door' \in [Seats -> Patrons \cup {Nobody}]
      BY <3>1 DEF TransfersTypeOK
    <3>3. AdmittedExplained'
      BY <1>2, <3>1, <3>2 DEF AdmittedExplained
    <3>4. TransfersTypeOK'
      BY <1>2, <3>1, <3>2 DEF TransfersTypeOK
    <3> QED BY <3>3, <3>4
  <2>3. ASSUME NEW d \in Desks, CommitRevoke(d), s = desk[d].seat
        PROVE  AdmittedExplained' /\ TransfersTypeOK'
    <3>1. /\ overtaken' = IF seatStatus[s] = "scanned" THEN overtaken \cup {s} ELSE overtaken
          /\ UNCHANGED <<door, motions>>
      BY <2>3 DEF CommitRevoke
    <3>2. AdmittedExplained'
      BY <1>2, <3>1 DEF AdmittedExplained
    <3>3. TransfersTypeOK'
      BY <1>2, <1>4, <3>1 DEF TransfersTypeOK
    <3> QED BY <3>2, <3>3
  <2> QED BY <2>1, <2>2, <2>3
<1> QED BY <1>5, <1>6, <1>7, <1>8

\* The transfer commits: the room it was promised is there.
LEMMA TransferKeeps ==
  ASSUME TransfersInv, NEW d \in Desks, Transfer(d)
  PROVE  TransfersInv'
<1> USE DEF TransfersInv
<1>0. AtDesk(d, "moving")
  BY DEF Transfer
<1>1. PICK s \in Seats, p \in Patrons : s = desk[d].seat /\ p = desk[d].to
  BY <1>0, ErrandFields DEF AtDesk
<1>2. /\ holder' = [holder EXCEPT ![s] = p] /\ code' = [code EXCEPT ![s] = @ + 1]
      /\ Finish(d) /\ seatStatus[s] = "valid"
      /\ UNCHANGED <<seatStatus, held, enabled, barred, blocked, motions, door, swamped,
                     overtaken>>
  BY <1>0, <1>1 DEF Transfer, house, MovingValid
<1>3. /\ desk' \in [Desks -> Errand]
      /\ \A e \in Desks : AtDesk(e, "moving")' => desk'[e] = desk[e] /\ e # d
  BY <1>2, FinishKeeps
<1>4. /\ \A t \in Seats : holder'[t] = IF t = s THEN p ELSE holder[t]
      /\ holder' \in [Seats -> Patrons \cup {Nobody}] /\ code' \in [Seats -> Nat]
  BY <1>2 DEF TransfersTypeOK
<1>5. TransfersTypeOK'
  BY <1>2, <1>3, <1>4 DEF TransfersTypeOK
<1>6. /\ Owned(p)' \subseteq Owned(p) \cup {s}
      /\ \A q \in Patrons : q # p => Owned(q)' \subseteq Owned(q)
  BY <1>2, <1>4 DEF Owned
<1>7. FewOwned'
  BY <1>6, OneMoreSeat, FS_Subset DEF FewOwned
<1>8. ASSUME NEW q \in Patrons, q \notin swamped' PROVE RoomLeft(q)'
  <2>1. CASE q # p
    <3>1. held'[q] \in Nat /\ held'[q] <= held[q]
      BY <1>2, <2>1 DEF TransfersTypeOK
    <3>2. \A e \in Desks : AtDesk(e, "moving")' /\ desk'[e].to = q => desk'[e] = desk[e]
      BY <1>3
    <3>3. swamped \subseteq swamped'
      BY <1>2
    <3>4. Owned(q)' \subseteq Owned(q)
      BY <1>6, <2>1
    <3> QED BY <1>8, <3>1, <3>2, <3>3, <3>4, RoomEases
  <2>2. CASE q = p
    <3>1. RoomLeft(p)
      BY <1>2, <1>8, <2>2 DEF RoomForAll
    <3>2. /\ held[p] = 0 /\ Cardinality(Owned(p)) + 1 <= Cap
          /\ \A e \in Desks : AtDesk(e, "moving") /\ desk[e].to = p => e = d
      BY <1>0, <1>1, <3>1 DEF RoomLeft
    <3>3. \A e \in Desks : ~(AtDesk(e, "moving")' /\ desk'[e].to = p)
      BY <1>3, <3>2 DEF AtDesk
    <3>4. /\ Cardinality(Owned(p)) \in Nat /\ Cardinality(Owned(p)') \in Nat
          /\ Cardinality(Owned(p)') <= Cardinality(Owned(p)) + 1
      BY <1>6, OneMoreSeat
    <3>5. Cardinality(Owned(p)') + held'[p] <= Cap
      BY <1>2, <3>2, <3>4, TransfersAssumption
    <3> QED BY <2>2, <3>3, <3>5 DEF RoomLeft
  <2> QED BY <2>1, <2>2
<1>9. RoomForAll'
  BY <1>8 DEF RoomForAll
<1>10. MovingValid'
  BY <1>2, <1>3, MovingStays
<1>11. SeatsPlaced' /\ AdmittedExplained'
  BY <1>2, <1>4 DEF SeatsPlaced, AdmittedExplained
<1> QED BY <1>5, <1>7, <1>9, <1>10, <1>11

\* The admin gives a ticket to somebody, whatever they have.
LEMMA GiveKeeps ==
  ASSUME TransfersInv, NEW d \in Desks, CommitGive(d)
  PROVE  TransfersInv'
<1> USE DEF TransfersInv
<1>0. AtDesk(d, "give")
  BY DEF CommitGive
<1>1. PICK s \in Seats, q \in Patrons : s = desk[d].seat /\ q = desk[d].to
  BY <1>0, ErrandFields
<1>2. /\ holder' = [holder EXCEPT ![s] = q] /\ Finish(d) /\ ~Locked(s)
      /\ swamped' = swamped \cup {q}
      /\ overtaken' = IF seatStatus[s] = "scanned" THEN overtaken \cup {s} ELSE overtaken
      /\ UNCHANGED <<seatStatus, code, held, enabled, barred, blocked, motions, door>>
  BY <1>1 DEF CommitGive, Overrun, house
<1>3. /\ desk' \in [Desks -> Errand]
      /\ \A e \in Desks : AtDesk(e, "moving")' => desk'[e] = desk[e]
  BY <1>2, FinishKeeps
<1>4. /\ \A t \in Seats : holder'[t] = IF t = s THEN q ELSE holder[t]
      /\ holder' \in [Seats -> Patrons \cup {Nobody}]
  BY <1>2 DEF TransfersTypeOK
<1>5. TransfersTypeOK'
  BY <1>2, <1>3, <1>4 DEF TransfersTypeOK
<1>6. /\ \A p \in Patrons : Owned(p)' \subseteq Owned(p) \cup {s}
      /\ \A p \in Patrons \ {q} : Owned(p)' \subseteq Owned(p)
  BY <1>2, <1>4 DEF Owned
<1>7. FewOwned' /\ RoomForAll'
  BY <1>2, <1>3, <1>6, GivenKeep
<1>8. MovingValid'
  BY <1>2, <1>3, MovingStays
<1>9. SeatsPlaced' /\ AdmittedExplained'
  BY <1>2, <1>4 DEF SeatsPlaced, AdmittedExplained
<1> QED BY <1>5, <1>7, <1>8, <1>9

\* A revoked ticket is valid again, whatever its holder has by now.
LEMMA ReissueKeeps ==
  ASSUME TransfersInv, NEW d \in Desks, CommitReissue(d)
  PROVE  TransfersInv'
<1> USE DEF TransfersInv
<1>0. AtDesk(d, "reissue")
  BY DEF CommitReissue
<1>1. PICK s \in Seats : s = desk[d].seat
  BY <1>0, ErrandFields DEF AtDesk
<1>2. /\ seatStatus' = [seatStatus EXCEPT ![s] = "valid"] /\ seatStatus[s] = "revoked"
      /\ code' = [code EXCEPT ![s] = @ + 1] /\ Finish(d) /\ ~Locked(s)
      /\ swamped' = swamped \cup {holder[s]}
      /\ UNCHANGED <<holder, held, enabled, barred, blocked, motions, door, overtaken>>
  BY <1>1 DEF CommitReissue, Overrun, house
<1>3. /\ desk' \in [Desks -> Errand]
      /\ \A e \in Desks : AtDesk(e, "moving")' => desk'[e] = desk[e]
  BY <1>2, FinishKeeps
<1>4. /\ \A t \in Seats : seatStatus'[t] = IF t = s THEN "valid" ELSE seatStatus[t]
      /\ seatStatus' \in [Seats -> SeatStatus] /\ code' \in [Seats -> Nat]
  BY <1>2 DEF TransfersTypeOK, SeatStatus
<1>5. holder[s] \in Patrons
  BY <1>2 DEF SeatsPlaced
<1>6. TransfersTypeOK'
  BY <1>2, <1>3, <1>4, <1>5 DEF TransfersTypeOK
<1>7. /\ \A p \in Patrons : Owned(p)' \subseteq Owned(p) \cup {s}
      /\ \A p \in Patrons \ {holder[s]} : Owned(p)' \subseteq Owned(p)
  BY <1>2, <1>4 DEF Owned
<1>8. FewOwned' /\ RoomForAll'
  BY <1>2, <1>3, <1>7, GivenKeep
<1>9. MovingValid'
  BY <1>2, <1>3, <1>4, MovingStays
<1>10. SeatsPlaced' /\ AdmittedExplained'
  BY <1>2, <1>4, <1>5 DEF SeatsPlaced, AdmittedExplained
<1> QED BY <1>6, <1>8, <1>9, <1>10

\* The invariant holds throughout.
THEOREM TransfersInvariant == TransfersSpec => []TransfersInv
<1>1. TransfersInv /\ [TransfersNext]_transferVars => TransfersInv'
  <2> SUFFICES ASSUME TransfersInv, [TransfersNext]_transferVars PROVE TransfersInv'
    OBVIOUS
  <2>1. CASE TicketTransfersController
    <3>1. PICK d \in Desks : \/ LockAndCheck(d) \/ Refuse(d) \/ Transfer(d)
                             \/ \E s \in Seats, p, q \in Patrons : Ensure(d, s, p, q)
      BY <2>1 DEF TicketTransfersController
    <3>2. CASE \E s \in Seats, p, q \in Patrons : Ensure(d, s, p, q)
      BY <3>2, DeskKeeps
    <3> QED BY <3>1, <3>2, LockKeeps, EndKeeps, TransferKeeps
  <2>2. CASE IssuedTicketsController
    <3>1. PICK s \in Seats : OrganizerRevoke(s) \/ \E c \in 0..code[s] : ScanByCode(s, c)
      BY <2>2 DEF IssuedTicketsController
    <3> QED BY <3>1, SeatEndsKeeps
  <2>3. CASE AdminIssuedTicketsController
    <3>1. PICK d \in Desks :
            \/ CommitRevoke(d) \/ CommitGive(d) \/ CommitReissue(d)
            \/ \E s \in Seats : \/ AdminRevoke(d, s) \/ AdminReissue(d, s)
                                \/ \E q \in Patrons : AdminTransfer(d, s, q)
      BY <2>3 DEF AdminIssuedTicketsController
    <3>2. CASE CommitRevoke(d)
      <4>1. desk[d].seat \in Seats
        BY <3>2, ErrandFields DEF CommitRevoke, AtDesk, TransfersInv
      <4> QED BY <3>2, <4>1, SeatEndsKeeps
    <3> QED BY <3>1, <3>2, GiveKeeps, ReissueKeeps, DeskKeeps
  <2>4. ASSUME NEW p \in Patrons,
               \/ Hold(p) \/ Lapse(p) \/ SuspendHolder(p)
               \/ \E s \in Seats : Issue(p, s)
               \/ \E q \in Patrons : BlockPair(p, q)
        PROVE  TransfersInv'
    BY <2>4, HoldKeeps, QuietKeeps, IssueKeeps
  <2>5. CASE Toggle
    BY <2>5, QuietKeeps
  <2>6. ASSUME NEW d \in Desks, Withdraw(d) PROVE TransfersInv'
    BY <2>6, EndKeeps
  <2>7. CASE UNCHANGED transferVars
    <3>1. TransfersTypeOK' /\ UNCHANGED <<seatStatus, holder, door, overtaken, swamped, desk, held>>
      BY <2>7 DEF transferVars, TransfersInv, TransfersTypeOK
    <3>2. \A p \in Patrons : held'[p] <= held[p]
      BY <3>1 DEF TransfersInv, TransfersTypeOK
    <3> QED BY <3>1, <3>2, TicketsStay
  <2> QED BY <2>1, <2>2, <2>3, <2>4, <2>5, <2>6, <2>7 DEF TransfersNext
<1> QED BY TransfersInitInv, <1>1, PTL DEF TransfersSpec

\* Nobody has more tickets of a type than its cap allows, and who was admitted
\* is still the holder of a scanned ticket, but for what a transfer beside a
\* checkout or an admin's request on stale news explains
\* (TicketTransferService, IssuedTicketsService).
THEOREM TransfersAreExplained == TransfersSpec => []TransfersExplained
<1>1. TransfersInv => TransfersExplained
  BY DEF TransfersInv, TransfersExplained, CapExplained, RoomForAll, RoomLeft
<1> QED BY TransfersInvariant, <1>1, PTL

----------------------------------------------------------------------------
(* Organisations *)

\* Members are members of organisations that exist.
MembersOfExisting == \A o \in Orgs \ Existing, p \in Staff : role[o][p] = "none"

\* What a request loaded in order to list it existed then.
LoadedExisting ==
  \A d \in Offices :
    /\ AtOffice(d, "list") => office[d].seen \in {"active", "suspended"}
    /\ AtOffice(d, "relist") =>
         \A o \in office[d].todo : office[d].seen[o] \in {"active", "suspended"}

\* OneOwner, naming the owner.
OwnerNamed == \A o \in Existing \ contested : \E p \in Staff : Owners(o) = {p}

OrganisationsInv ==
  /\ OrganisationsTypeOK /\ MembersOfExisting /\ LoadedExisting /\ OwnerNamed
  /\ ListingExplained

LEMMA OrganisationsInitInv == OrganisationsInit => OrganisationsInv
<1> SUFFICES ASSUME OrganisationsInit PROVE OrganisationsInv
  OBVIOUS
<1> USE DEF OrganisationsInit
<1>1. OrganisationsTypeOK
  BY OrganisationsAssumption DEF OrganisationsTypeOK, OrgState, Role, OfficeJob, Off
<1>2. MembersOfExisting /\ OwnerNamed
  BY DEF MembersOfExisting, OwnerNamed, Existing
<1>3. LoadedExisting /\ ListingExplained
  BY DEF LoadedExisting, ListingExplained, AtOffice, Off
<1> QED BY <1>1, <1>2, <1>3 DEF OrganisationsInv

\* What a request carries.
LEMMA OfficeFields ==
  ASSUME OrganisationsTypeOK, NEW d \in Offices
  PROVE  /\ office[d].pc \in {"save", "unlist", "drop", "list", "add", "remove", "demote",
                              "promote"} => office[d].org \in Orgs
         /\ office[d].pc \in {"add", "remove", "demote", "promote"} => office[d].who \in Staff
         /\ AtOffice(d, "promote") => office[d].seen \subseteq Staff
         /\ AtOffice(d, "list") => office[d].seen \in OrgState
         /\ AtOffice(d, "relist") =>
              /\ office[d].todo \subseteq Orgs /\ office[d].seen \in [Orgs -> OrgState]
              /\ \A S \in SUBSET Orgs :
                   /\ [office[d] EXCEPT !.todo = S] \in OfficeJob
                   /\ [office[d] EXCEPT !.todo = S].pc = "relist"
                   /\ [office[d] EXCEPT !.todo = S].todo = S
                   /\ [office[d] EXCEPT !.todo = S].seen = office[d].seen
  BY DEF OrganisationsTypeOK, OfficeJob, Off, AtOffice

\* The jobs there are.
LEMMA OfficeJobs ==
  /\ Off \in OfficeJob
  /\ \A o \in Orgs :
       /\ \A pc \in {"save", "unlist", "drop"} : [pc |-> pc, org |-> o] \in OfficeJob
       /\ \A s \in OrgState : [pc |-> "list", org |-> o, seen |-> s] \in OfficeJob
       /\ \A p \in Staff :
            /\ \A pc \in {"add", "remove", "demote"} :
                 [pc |-> pc, org |-> o, who |-> p] \in OfficeJob
            /\ \A S \in SUBSET Staff :
                 [pc |-> "promote", org |-> o, who |-> p, seen |-> S] \in OfficeJob
  /\ \A S \in SUBSET Orgs, f \in [Orgs -> OrgState] :
       [pc |-> "relist", todo |-> S, seen |-> f] \in OfficeJob
  BY DEF OfficeJob

\* One office takes a job, the others keep theirs.
LEMMA OfficeSet ==
  ASSUME OrganisationsTypeOK, NEW d \in Offices, NEW j \in OfficeJob, Sit(d, j)
  PROVE  /\ office' \in [Offices -> OfficeJob]
         /\ \A e \in Offices : office'[e] = IF e = d THEN j ELSE office[e]
  BY DEF OrganisationsTypeOK, Sit

\* An office that lists nothing, and whose suspension, if it was at one, is
\* accounted for.
Harmless(j) ==
  /\ j.pc = "list" => j.seen \in {"active", "suspended"}
  /\ j.pc = "relist" => \A o \in j.todo : j.seen[o] \in {"active", "suspended"}

LEMMA LoadedStays ==
  ASSUME OrganisationsInv, NEW d \in Offices, NEW j \in OfficeJob, Sit(d, j), Harmless(j)
  PROVE  LoadedExisting'
<1>1. \A e \in Offices : office'[e] = IF e = d THEN j ELSE office[e]
  BY OfficeSet DEF OrganisationsInv
<1> QED BY <1>1 DEF OrganisationsInv, LoadedExisting, AtOffice, Harmless

\* Nothing new is listed and nothing that was active becomes otherwise: the
\* suspensions that were at it are, or are accounted for.
LEMMA ListingStays ==
  ASSUME OrganisationsInv, NEW d \in Offices, NEW j \in OfficeJob, Sit(d, j),
         \A o \in listed' \ stray' :
           /\ o \in listed \ stray /\ (org[o] = "active" => org'[o] = "active")
           /\ office[d].pc = "unlist" => office[d].org # o
  PROVE  ListingExplained'
<1> SUFFICES ASSUME NEW o \in listed' \ stray'
             PROVE  \/ org'[o] = "active"
                    \/ \E e \in Offices : AtOffice(e, "unlist")' /\ office'[e].org = o
  BY DEF ListingExplained
<1>1. \A e \in Offices : office'[e] = IF e = d THEN j ELSE office[e]
  BY OfficeSet DEF OrganisationsInv
<1>2. CASE org[o] = "active"
  BY <1>2
<1>3. CASE org[o] # "active"
  <2>1. PICK e \in Offices : AtOffice(e, "unlist") /\ office[e].org = o
    BY <1>3 DEF OrganisationsInv, ListingExplained
  <2>2. e # d
    BY <2>1 DEF AtOffice
  <2> QED BY <1>1, <2>1, <2>2 DEF AtOffice
<1> QED BY <1>2, <1>3

\* Steps that write neither the organisations nor their members.
LEMMA RowsStay ==
  ASSUME OrganisationsInv, UNCHANGED <<org, role, contested>>
  PROVE  MembersOfExisting' /\ OwnerNamed'
  BY DEF OrganisationsInv, MembersOfExisting, OwnerNamed, Existing, Owners

LEMMA RequestKeeps ==
  ASSUME OrganisationsInv, NEW d \in Offices, NEW j \in OfficeJob, Sit(d, j), Harmless(j),
         office[d].pc # "unlist", moves' \in 0..MaxMoves, listed' \subseteq listed,
         UNCHANGED <<org, role, departed, closing, contested, stray>>
  PROVE  OrganisationsInv'
<1> USE DEF OrganisationsInv
<1>1. OrganisationsTypeOK'
  BY OfficeSet DEF OrganisationsTypeOK
<1>2. ListingExplained'
  BY ListingStays
<1> QED BY <1>1, <1>2, RowsStay, LoadedStays

\* An office that rises from its work, or breaks off: a suspension that was at
\* it is remembered.
LEMMA BreakKeeps ==
  ASSUME OrganisationsInv, NEW d \in Offices, Break(d)
  PROVE  OrganisationsInv'
<1> USE DEF OrganisationsInv
<1>1. /\ Sit(d, Off) /\ UNCHANGED <<org, role, departed, closing, listed, moves, contested>>
      /\ stray' = IF office[d].pc = "unlist" THEN stray \cup {office[d].org} ELSE stray
  BY DEF Break, Rise, membership
<1>2. Off \in OfficeJob /\ Harmless(Off)
  BY OfficeJobs DEF Harmless, Off
<1>3. OrganisationsTypeOK'
  BY <1>1, <1>2, OfficeSet, OfficeFields DEF OrganisationsTypeOK
<1>4. ListingExplained'
  BY <1>1, <1>2, ListingStays
<1> QED BY <1>1, <1>2, <1>3, <1>4, RowsStay, LoadedStays

\* Requests that ask for something, and those that only write down what they
\* found.
LEMMA AskKeeps ==
  ASSUME OrganisationsInv, NEW d \in Offices,
         \/ StartReindex(d) \/ Save(d) \/ Demote(d)
         \/ \E o \in Orgs, p \in Staff : UpdateOrganisation(d, o, p)
         \/ \E o \in Orgs, p, q \in Staff : AddByEmail(d, o, p, q) \/ RemoveByUserId(d, o, p, q)
         \/ \E o \in Orgs : DeleteOrganisation(d, o) \/ \E q \in Staff : ChangeOwner(d, o, q)
  PROVE  OrganisationsInv'
<1> USE DEF OrganisationsInv
<1>m. Move => moves' \in 0..MaxMoves
  BY OrganisationsAssumption DEF Move, OrganisationsTypeOK
<1>e. /\ \A o \in Existing : o \in Orgs /\ org[o] \in {"active", "suspended"}
      /\ org \in [Orgs -> OrgState]
  BY DEF Existing, OrganisationsTypeOK
<1>1. CASE StartReindex(d)
  <2> DEFINE j == [pc |-> "relist", todo |-> Existing, seen |-> org]
  <2>1. j \in OfficeJob /\ Harmless(j)
    BY <1>e, OfficeJobs DEF Harmless, Existing
  <2>2. /\ Sit(d, j) /\ Move /\ AtOffice(d, "off")
        /\ UNCHANGED <<org, role, departed, closing, listed, contested, stray>>
    BY <1>1 DEF StartReindex, membership
  <2> HIDE DEF j
  <2> QED BY <1>m, <2>1, <2>2, RequestKeeps DEF AtOffice
<1>2. CASE Save(d)
  <2> DEFINE j == [pc |-> "list", org |-> office[d].org, seen |-> org[office[d].org]]
  <2>1. j \in OfficeJob /\ Harmless(j)
    BY <1>2, <1>e, OfficeJobs DEF Harmless, Save
  <2>2. /\ Sit(d, j) /\ AtOffice(d, "save")
        /\ UNCHANGED <<org, role, departed, closing, listed, moves, contested, stray>>
    BY <1>2 DEF Save, membership
  <2>3. moves' \in 0..MaxMoves
    BY <2>2 DEF OrganisationsTypeOK
  <2> HIDE DEF j
  <2> QED BY <2>1, <2>2, <2>3, RequestKeeps DEF AtOffice
<1>3. CASE Demote(d)
  <2> DEFINE j == [pc |-> "promote", org |-> office[d].org, who |-> office[d].who,
                   seen |-> Owners(office[d].org)]
  <2>1. AtOffice(d, "demote")
    BY <1>3 DEF Demote
  <2>2. j \in OfficeJob /\ Harmless(j)
    BY <2>1, OfficeFields, OfficeJobs DEF Harmless, AtOffice, Owners
  <2>3. /\ Sit(d, j)
        /\ UNCHANGED <<org, role, departed, closing, listed, moves, contested, stray>>
    BY <1>3 DEF Demote, membership
  <2>4. moves' \in 0..MaxMoves
    BY <2>3 DEF OrganisationsTypeOK
  <2> HIDE DEF j
  <2> QED BY <2>1, <2>2, <2>3, <2>4, RequestKeeps DEF AtOffice
<1>4. ASSUME NEW o \in Orgs, NEW p \in Staff, UpdateOrganisation(d, o, p)
      PROVE  OrganisationsInv'
  <2> DEFINE j == [pc |-> "save", org |-> o]
  <2>1. j \in OfficeJob /\ Harmless(j)
    BY OfficeJobs DEF Harmless
  <2>2. /\ Sit(d, j) /\ Move /\ AtOffice(d, "off")
        /\ UNCHANGED <<org, role, departed, closing, listed, contested, stray>>
    BY <1>4 DEF UpdateOrganisation, membership
  <2> HIDE DEF j
  <2> QED BY <1>m, <2>1, <2>2, RequestKeeps DEF AtOffice
<1>5. ASSUME NEW o \in Orgs, NEW q \in Staff, NEW pc \in {"add", "remove", "demote"},
             Sit(d, [pc |-> pc, org |-> o, who |-> q]), Move, AtOffice(d, "off"),
             UNCHANGED <<org, role, departed, closing, listed, contested, stray>>
      PROVE  OrganisationsInv'
  <2> DEFINE j == [pc |-> pc, org |-> o, who |-> q]
  <2>1. j \in OfficeJob /\ Harmless(j)
    BY OfficeJobs DEF Harmless
  <2>2. Sit(d, j)
    BY <1>5
  <2> HIDE DEF j
  <2> QED BY <1>m, <1>5, <2>1, <2>2, RequestKeeps DEF AtOffice
<1>6. ASSUME NEW o \in Orgs, NEW p \in Staff, NEW q \in Staff,
             AddByEmail(d, o, p, q) \/ RemoveByUserId(d, o, p, q)
      PROVE  OrganisationsInv'
  BY <1>5, <1>6 DEF AddByEmail, RemoveByUserId, membership
<1>7. ASSUME NEW o \in Orgs, NEW q \in Staff, ChangeOwner(d, o, q)
      PROVE  OrganisationsInv'
  BY <1>5, <1>7 DEF ChangeOwner, membership
<1>8. ASSUME NEW o \in Orgs, DeleteOrganisation(d, o) PROVE OrganisationsInv'
  <2> DEFINE j == [pc |-> "drop", org |-> o]
  <2>1. j \in OfficeJob /\ Harmless(j)
    BY OfficeJobs DEF Harmless
  <2>2. /\ Sit(d, j) /\ Move /\ AtOffice(d, "off") /\ listed' = listed \ {o}
        /\ UNCHANGED <<org, role, departed, closing, contested, stray>>
    BY <1>8 DEF DeleteOrganisation, membership
  <2> HIDE DEF j
  <2> QED BY <1>m, <2>1, <2>2, RequestKeeps DEF AtOffice
<1> QED BY <1>1, <1>2, <1>3, <1>4, <1>6, <1>7, <1>8

\* The index: a request lists what it loaded, or takes out what it suspended.
LEMMA ListingStep ==
  ASSUME OrganisationsInv, NEW d \in Offices, NEW j \in OfficeJob, Sit(d, j), Harmless(j),
         NEW o \in Orgs, NEW s \in {"active", "suspended"}, ListAs(o, s),
         ~AtOffice(d, "unlist"),
         UNCHANGED <<org, role, departed, closing, moves, contested>>
  PROVE  OrganisationsInv'
<1> USE DEF OrganisationsInv
<1>1. /\ listed' = IF s = "suspended" THEN listed \ {o} ELSE listed \cup {o}
      /\ stray' = IF s # org[o] THEN stray \cup {o} ELSE stray
  BY DEF ListAs
<1>2. OrganisationsTypeOK'
  BY <1>1, OfficeSet DEF OrganisationsTypeOK
<1>3. \A e \in Offices : office'[e] = IF e = d THEN j ELSE office[e]
  BY OfficeSet
<1>4. ListingExplained'
  <2> SUFFICES ASSUME NEW p \in listed' \ stray'
               PROVE  \/ org'[p] = "active"
                      \/ \E e \in Offices : AtOffice(e, "unlist")' /\ office'[e].org = p
    BY DEF ListingExplained
  <2>1. CASE p = o
    BY <1>1, <2>1
  <2>2. CASE p # o
    <3>1. p \in listed \ stray
      BY <1>1, <2>2
    <3>2. \/ org[p] = "active"
          \/ \E e \in Offices : AtOffice(e, "unlist") /\ office[e].org = p
      BY <3>1 DEF ListingExplained
    <3> QED BY <1>3, <3>2 DEF AtOffice
  <2> QED BY <2>1, <2>2
<1> QED BY <1>2, <1>4, RowsStay, LoadedStays

LEMMA IndexKeeps ==
  ASSUME OrganisationsInv, NEW d \in Offices,
         ListOrganisation(d) \/ UnlistOrganisation(d) \/ Reindex(d)
  PROVE  OrganisationsInv'
<1> USE DEF OrganisationsInv
<1>0. Off \in OfficeJob /\ Harmless(Off)
  BY OfficeJobs DEF Harmless, Off
<1>1. CASE ListOrganisation(d)
  <2>1. /\ AtOffice(d, "list") /\ ListAs(office[d].org, office[d].seen) /\ Sit(d, Off)
        /\ UNCHANGED <<org, role, departed, closing, moves, contested>>
    BY <1>1 DEF ListOrganisation, Rise, membership
  <2>2. office[d].org \in Orgs /\ office[d].seen \in {"active", "suspended"}
    BY <2>1, OfficeFields DEF LoadedExisting, AtOffice
  <2>3. ~AtOffice(d, "unlist")
    BY <2>1 DEF AtOffice
  <2> QED BY <1>0, <2>1, <2>2, <2>3, ListingStep
<1>2. CASE UnlistOrganisation(d)
  <2>1. /\ AtOffice(d, "unlist") /\ listed' = listed \ {office[d].org} /\ Sit(d, Off)
        /\ UNCHANGED <<org, role, departed, closing, moves, contested, stray>>
    BY <1>2 DEF UnlistOrganisation, Rise, membership
  <2>2. OrganisationsTypeOK'
    BY <1>0, <2>1, OfficeSet DEF OrganisationsTypeOK
  <2>3. ListingExplained'
    BY <1>0, <2>1, ListingStays
  <2> QED BY <1>0, <2>1, <2>2, <2>3, RowsStay, LoadedStays
<1>3. CASE Reindex(d)
  <2>1. AtOffice(d, "relist") /\ UNCHANGED <<org, role, departed, closing, moves, contested>>
    BY <1>3 DEF Reindex, membership
  <2>2. PICK o \in office[d].todo :
          /\ ListAs(o, office[d].seen[o])
          /\ IF office[d].todo = {o} THEN Rise(d)
             ELSE Sit(d, [office[d] EXCEPT !.todo = @ \ {o}])
    BY <1>3 DEF Reindex
  <2>3. /\ office[d].todo \subseteq Orgs
        /\ office[d].seen[o] \in {"active", "suspended"}
        /\ \A p \in office[d].todo : office[d].seen[p] \in {"active", "suspended"}
    BY <2>1, OfficeFields DEF LoadedExisting
  <2>4. PICK j \in OfficeJob : Sit(d, j) /\ Harmless(j)
    <3>1. CASE office[d].todo = {o}
      BY <1>0, <2>2, <3>1 DEF Rise
    <3>2. CASE office[d].todo # {o}
      <4> DEFINE rest == office[d].todo \ {o}
                 k == [office[d] EXCEPT !.todo = rest]
      <4>1. rest \in SUBSET Orgs
        BY <2>3
      <4>2. k \in OfficeJob /\ k.pc = "relist" /\ k.todo = rest /\ k.seen = office[d].seen
        BY <2>1, <4>1, OfficeFields
      <4>3. Sit(d, k)
        BY <2>2, <3>2
      <4> HIDE DEF k
      <4>4. Harmless(k)
        BY <2>3, <4>2 DEF Harmless
      <4> QED BY <4>2, <4>3, <4>4
    <3> QED BY <3>1, <3>2
  <2>5. o \in Orgs /\ ~AtOffice(d, "unlist")
    BY <2>1, <2>3 DEF AtOffice
  <2> QED BY <2>1, <2>2, <2>3, <2>4, <2>5, ListingStep
<1> QED BY <1>1, <1>2, <1>3

\* Suspension and its lifting: membership is what it was.
LEMMA SuspensionKeeps ==
  ASSUME OrganisationsInv, NEW d \in Offices, NEW o \in Orgs,
         SuspendOrganisation(d, o) \/ Reinstate(d, o)
  PROVE  OrganisationsInv'
<1> USE DEF OrganisationsInv
<1>1. PICK s \in {"active", "suspended"}, j \in OfficeJob :
        /\ org' = [org EXCEPT ![o] = s] /\ Sit(d, j) /\ Harmless(j)
        /\ s = "suspended" => j.pc = "unlist" /\ j.org = o
  <2>1. CASE SuspendOrganisation(d, o)
    <3>1. [pc |-> "unlist", org |-> o] \in OfficeJob /\ Harmless([pc |-> "unlist", org |-> o])
      BY OfficeJobs DEF Harmless
    <3> QED BY <2>1, <3>1 DEF SuspendOrganisation
  <2>2. CASE Reinstate(d, o)
    <3>1. /\ [pc |-> "list", org |-> o, seen |-> "active"] \in OfficeJob
          /\ Harmless([pc |-> "list", org |-> o, seen |-> "active"])
      BY OfficeJobs DEF Harmless, OrgState
    <3> QED BY <2>2, <3>1 DEF Reinstate
  <2> QED BY <2>1, <2>2
<1>2. /\ AtOffice(d, "off") /\ o \in Existing /\ moves' \in 0..MaxMoves
      /\ UNCHANGED <<role, departed, closing, listed, contested, stray>>
  BY OrganisationsAssumption
     DEF SuspendOrganisation, Reinstate, Move, OrganisationsTypeOK, membership, Existing
<1>3. /\ \A e \in Offices : office'[e] = IF e = d THEN j ELSE office[e]
      /\ office' \in [Offices -> OfficeJob]
  BY <1>1, OfficeSet
<1>4. /\ \A p \in Orgs : org'[p] = IF p = o THEN s ELSE org[p]
      /\ org' \in [Orgs -> OrgState]
  BY <1>1 DEF OrganisationsTypeOK, OrgState
<1>5. OrganisationsTypeOK'
  BY <1>2, <1>3, <1>4 DEF OrganisationsTypeOK
<1>6. Existing' = Existing
  BY <1>2, <1>4 DEF Existing
<1>7. MembersOfExisting' /\ OwnerNamed'
  BY <1>2, <1>6 DEF MembersOfExisting, OwnerNamed, Owners
<1>8. ListingExplained'
  <2> SUFFICES ASSUME NEW p \in listed' \ stray'
               PROVE  \/ org'[p] = "active"
                      \/ \E e \in Offices : AtOffice(e, "unlist")' /\ office'[e].org = p
    BY DEF ListingExplained
  <2>0. p \in Orgs /\ p \in listed \ stray
    BY <1>2 DEF OrganisationsTypeOK
  <2>1. CASE p = o
    BY <1>1, <1>3, <1>4, <2>0, <2>1 DEF AtOffice
  <2>2. CASE p # o
    <3>1. \/ org[p] = "active"
          \/ \E e \in Offices : AtOffice(e, "unlist") /\ office[e].org = p
      BY <2>0 DEF ListingExplained
    <3>2. \A e \in Offices : AtOffice(e, "unlist") => e # d
      BY <1>2 DEF AtOffice
    <3> QED BY <1>3, <1>4, <2>0, <2>2, <3>1, <3>2 DEF AtOffice
  <2> QED BY <2>1, <2>2
<1> QED BY <1>1, <1>5, <1>7, <1>8, LoadedStays

LEMMA CreateKeeps ==
  ASSUME OrganisationsInv, NEW d \in Offices, NEW o \in Orgs, NEW p \in Staff,
         CreateOrganisation(d, o, p)
  PROVE  OrganisationsInv'
<1> USE DEF OrganisationsInv
<1> DEFINE j == [pc |-> "list", org |-> o, seen |-> "active"]
<1>1. j \in OfficeJob /\ Harmless(j)
  BY OfficeJobs DEF Harmless, OrgState
<1>2. /\ org[o] = "none" /\ AtOffice(d, "off") /\ Sit(d, j) /\ moves' \in 0..MaxMoves
      /\ org' = [org EXCEPT ![o] = "active"] /\ role' = [role EXCEPT ![o][p] = "owner"]
      /\ UNCHANGED <<departed, closing, listed, contested, stray>>
  BY OrganisationsAssumption DEF CreateOrganisation, Move, OrganisationsTypeOK
<1> HIDE DEF j
<1>3. office' \in [Offices -> OfficeJob]
  BY <1>1, <1>2, OfficeSet
<1>4. /\ \A t \in Orgs : org'[t] = IF t = o THEN "active" ELSE org[t]
      /\ org' \in [Orgs -> OrgState]
  BY <1>2 DEF OrganisationsTypeOK, OrgState
<1>5. /\ role' \in [Orgs -> [Staff -> Role]]
      /\ \A t \in Orgs, q \in Staff :
           role'[t][q] = IF t = o /\ q = p THEN "owner" ELSE role[t][q]
  BY <1>2 DEF OrganisationsTypeOK, Role
<1>6. OrganisationsTypeOK'
  BY <1>2, <1>3, <1>4, <1>5 DEF OrganisationsTypeOK
<1>7. \A q \in Staff : role[o][q] = "none"
  BY <1>2 DEF MembersOfExisting, Existing
<1>8. Existing' = Existing \cup {o}
  BY <1>4 DEF Existing
<1>9. MembersOfExisting'
  BY <1>5, <1>8 DEF MembersOfExisting, Existing
<1>10. OwnerNamed'
  <2>1. Owners(o)' = {p}
    BY <1>5, <1>7 DEF Owners
  <2>2. \A t \in Orgs : t # o => Owners(t)' = Owners(t)
    BY <1>5 DEF Owners
  <2> QED BY <1>2, <1>8, <2>1, <2>2 DEF OwnerNamed, Existing
<1>11. ListingExplained'
  <2>1. \A t \in listed' \ stray' :
           /\ t \in listed \ stray /\ (org[t] = "active" => org'[t] = "active")
           /\ office[d].pc = "unlist" => office[d].org # t
    BY <1>2, <1>4 DEF AtOffice, OrganisationsTypeOK
  <2> QED BY <1>1, <1>2, <2>1, ListingStays
<1> QED BY <1>1, <1>2, <1>6, <1>9, <1>10, <1>11, LoadedStays

\* Membership is written: whoever else owned an organisation is demoted, was
\* known, or the organisation is contested.
LEMMA MembersWritten ==
  ASSUME OrganisationsInv, NEW d \in Offices, Rise(d), ~AtOffice(d, "unlist"),
         role' \in [Orgs -> [Staff -> Role]],
         NEW o \in Existing,
         \A t \in Orgs : t # o => role'[t] = role[t],
         contested' \subseteq Orgs, contested \subseteq contested',
         o \notin contested' => \E p \in Staff : Owners(o)' = {p},
         UNCHANGED <<org, departed, closing, listed, moves, stray>>
  PROVE  OrganisationsInv'
<1> USE DEF OrganisationsInv
<1>1. Off \in OfficeJob /\ Harmless(Off) /\ Sit(d, Off)
  BY OfficeJobs DEF Harmless, Off, Rise
<1>2. OrganisationsTypeOK'
  BY <1>1, OfficeSet DEF OrganisationsTypeOK
<1>3. Existing' = Existing
  BY DEF Existing
<1>4. MembersOfExisting'
  BY <1>3 DEF MembersOfExisting, Existing
<1>5. \A t \in Orgs : t # o => Owners(t)' = Owners(t)
  BY DEF Owners
<1>6. OwnerNamed'
  BY <1>3, <1>5 DEF OwnerNamed, Existing
<1>7. ListingExplained'
  BY <1>1, ListingStays DEF AtOffice
<1> QED BY <1>1, <1>2, <1>4, <1>6, <1>7, LoadedStays

LEMMA MembersKeep ==
  ASSUME OrganisationsInv, NEW d \in Offices,
         InsertMember(d) \/ DeleteMember(d) \/ Promote(d)
  PROVE  OrganisationsInv'
<1> USE DEF OrganisationsInv
<1>0. office[d].pc \in {"add", "remove", "promote"}
  BY DEF InsertMember, DeleteMember, Promote, AtOffice
<1>1. PICK o \in Orgs, q \in Staff : o = office[d].org /\ q = office[d].who
  BY <1>0, OfficeFields
<1>2. /\ ~AtOffice(d, "unlist") /\ Rise(d)
      /\ UNCHANGED <<org, departed, closing, listed, moves, stray>>
  BY <1>0 DEF AtOffice, InsertMember, DeleteMember, Promote
<1>3. CASE InsertMember(d)
  <2>1. /\ o \in Existing /\ role[o][q] = "none"
        /\ role' = [role EXCEPT ![o][q] = "member"] /\ UNCHANGED contested
    BY <1>1, <1>3 DEF InsertMember
  <2>2. /\ role' \in [Orgs -> [Staff -> Role]] /\ \A t \in Orgs : t # o => role'[t] = role[t]
        /\ \A p \in Staff : role'[o][p] = IF p = q THEN "member" ELSE role[o][p]
    BY <2>1 DEF OrganisationsTypeOK, Role
  <2>3. Owners(o)' = Owners(o)
    BY <2>1, <2>2 DEF Owners
  <2>4. o \notin contested' => \E p \in Staff : Owners(o)' = {p}
    BY <2>1, <2>3 DEF OwnerNamed
  <2>5. contested' \subseteq Orgs /\ contested \subseteq contested'
    BY <2>1 DEF OrganisationsTypeOK
  <2> QED BY <1>2, <2>1, <2>2, <2>4, <2>5, MembersWritten
<1>4. CASE DeleteMember(d)
  <2>1. /\ role' = [role EXCEPT ![o][q] = "none"]
        /\ contested' = IF role[o][q] = "owner" THEN contested \cup {o} ELSE contested
    BY <1>1, <1>4 DEF DeleteMember
  <2>2. /\ role' \in [Orgs -> [Staff -> Role]] /\ \A t \in Orgs : t # o => role'[t] = role[t]
        /\ \A p \in Staff : role'[o][p] = IF p = q THEN "none" ELSE role[o][p]
    BY <2>1 DEF OrganisationsTypeOK, Role
  <2>3. contested' \subseteq Orgs /\ contested \subseteq contested'
    BY <2>1 DEF OrganisationsTypeOK
  <2>4. CASE o \in Existing
    <3>1. o \notin contested' => Owners(o)' = Owners(o)
      BY <2>1, <2>2 DEF Owners
    <3>2. o \notin contested' => \E p \in Staff : Owners(o)' = {p}
      BY <2>3, <2>4, <3>1 DEF OwnerNamed
    <3> QED BY <1>2, <2>2, <2>3, <2>4, <3>2, MembersWritten
  <2>5. CASE o \notin Existing
    <3>1. \A p \in Staff : role[o][p] = "none"
      BY <2>5 DEF MembersOfExisting
    <3>2. role' = role /\ UNCHANGED contested
      BY <2>1, <2>2, <3>1 DEF OrganisationsTypeOK
    <3>3. Off \in OfficeJob /\ Harmless(Off) /\ Sit(d, Off)
      BY <1>2, OfficeJobs DEF Harmless, Off, Rise
    <3>4. moves' \in 0..MaxMoves /\ listed' \subseteq listed
      BY <1>2 DEF OrganisationsTypeOK
    <3> QED BY <1>2, <3>2, <3>3, <3>4, RequestKeeps DEF AtOffice
  <2> QED BY <2>4, <2>5
<1>5. CASE Promote(d)
  <2> DEFINE seen == office[d].seen
  <2>1. /\ role[o][q] # "none"
        /\ role' = [role EXCEPT ![o] = [p \in Staff |->
             IF p = q THEN "owner"
             ELSE IF p \in seen /\ role[o][p] = "owner" THEN "member" ELSE role[o][p]]]
        /\ contested' = IF seen # Owners(o) THEN contested \cup {o} ELSE contested
    BY <1>1, <1>5 DEF Promote
  <2>2. /\ role' \in [Orgs -> [Staff -> Role]] /\ \A t \in Orgs : t # o => role'[t] = role[t]
        /\ \A p \in Staff : role'[o][p] =
             IF p = q THEN "owner"
             ELSE IF p \in seen /\ role[o][p] = "owner" THEN "member" ELSE role[o][p]
    BY <2>1 DEF OrganisationsTypeOK, Role
  <2>3. contested' \subseteq Orgs /\ contested \subseteq contested'
    BY <2>1 DEF OrganisationsTypeOK
  <2>4. o \in Existing
    BY <2>1 DEF MembersOfExisting
  <2>5. o \notin contested' => seen = Owners(o)
    BY <2>1
  <2>6. o \notin contested' => Owners(o)' = {q}
    BY <2>2, <2>5 DEF Owners
  <2> QED BY <1>2, <2>2, <2>3, <2>4, <2>6, MembersWritten
<1> QED BY <1>3, <1>4, <1>5, <1>0 

\* purge: the row goes with its members.
LEMMA DropKeeps ==
  ASSUME OrganisationsInv, NEW d \in Offices, DropRow(d)
  PROVE  OrganisationsInv'
<1> USE DEF OrganisationsInv
<1>0. AtOffice(d, "drop")
  BY DEF DropRow
<1>1. PICK o \in Orgs : o = office[d].org
  BY <1>0, OfficeFields DEF AtOffice
<1>2. /\ o \in Existing /\ Sit(d, Off)
      /\ org' = [org EXCEPT ![o] = "deleted"]
      /\ role' = [role EXCEPT ![o] = [p \in Staff |-> "none"]]
      /\ stray' = IF o \in listed THEN stray \cup {o} ELSE stray
      /\ UNCHANGED <<departed, closing, listed, moves, contested>>
  BY <1>1 DEF DropRow, Rise
<1>3. Off \in OfficeJob /\ Harmless(Off)
  BY OfficeJobs DEF Harmless, Off
<1>4. /\ \A t \in Orgs : org'[t] = IF t = o THEN "deleted" ELSE org[t]
      /\ org' \in [Orgs -> OrgState]
  BY <1>2 DEF OrganisationsTypeOK, OrgState
<1>5. /\ role' \in [Orgs -> [Staff -> Role]] /\ \A t \in Orgs : t # o => role'[t] = role[t]
      /\ \A p \in Staff : role'[o][p] = "none"
  BY <1>2 DEF OrganisationsTypeOK, Role
<1>6. OrganisationsTypeOK'
  BY <1>2, <1>3, <1>4, <1>5, OfficeSet DEF OrganisationsTypeOK
<1>7. Existing' = Existing \ {o}
  BY <1>4 DEF Existing
<1>8. MembersOfExisting'
  BY <1>5, <1>7 DEF MembersOfExisting, Existing
<1>9. OwnerNamed'
  <2>1. \A t \in Orgs : t # o => Owners(t)' = Owners(t)
    BY <1>5 DEF Owners
  <2> QED BY <1>2, <1>7, <2>1 DEF OwnerNamed, Existing
<1>10. ListingExplained'
  <2>1. \A t \in listed' \ stray' :
           /\ t \in listed \ stray /\ (org[t] = "active" => org'[t] = "active")
           /\ office[d].pc = "unlist" => office[d].org # t
    BY <1>0, <1>2, <1>4 DEF AtOffice, OrganisationsTypeOK
  <2> QED BY <1>2, <1>3, <2>1, ListingStays
<1> QED BY <1>2, <1>3, <1>6, <1>8, <1>9, <1>10, LoadedStays

\* The account goes out of all organisations; what it owned is contested.
LEMMA AccountKeeps ==
  ASSUME OrganisationsInv, NEW p \in Staff, ValidateDeletion(p) \/ ExecuteDeletion(p)
  PROVE  OrganisationsInv'
<1> USE DEF OrganisationsInv
<1>1. CASE ValidateDeletion(p)
  <2>1. /\ closing' = closing \cup {p} /\ moves' \in 0..MaxMoves
        /\ UNCHANGED <<org, role, departed, listed, office, contested, stray>>
    BY <1>1, OrganisationsAssumption DEF ValidateDeletion, Move, OrganisationsTypeOK
  <2>2. OrganisationsTypeOK'
    BY <2>1 DEF OrganisationsTypeOK
  <2>3. LoadedExisting' /\ ListingExplained'
    BY <2>1 DEF LoadedExisting, ListingExplained, AtOffice
  <2> QED BY <2>1, <2>2, <2>3, RowsStay
<1>2. CASE ExecuteDeletion(p)
  <2>1. /\ departed' = departed \cup {p} /\ closing' = closing \ {p}
        /\ role' = [o \in Orgs |-> [role[o] EXCEPT ![p] = "none"]]
        /\ contested' = contested \cup {o \in Orgs : role[o][p] = "owner"}
        /\ UNCHANGED <<org, listed, office, moves, stray>>
    BY <1>2 DEF ExecuteDeletion
  <2>2. /\ role' \in [Orgs -> [Staff -> Role]]
        /\ \A o \in Orgs, q \in Staff : role'[o][q] = IF q = p THEN "none" ELSE role[o][q]
    BY <2>1 DEF OrganisationsTypeOK, Role
  <2>3. OrganisationsTypeOK'
    BY <2>1, <2>2 DEF OrganisationsTypeOK
  <2>4. Existing' = Existing
    BY <2>1 DEF Existing
  <2>5. MembersOfExisting'
    BY <2>2, <2>4 DEF MembersOfExisting
  <2>6. OwnerNamed'
    <3>1. \A o \in Orgs \ contested' : Owners(o)' = Owners(o)
      BY <2>1, <2>2 DEF Owners
    <3> QED BY <2>1, <2>4, <3>1 DEF OwnerNamed, Existing
  <2>7. LoadedExisting' /\ ListingExplained'
    BY <2>1 DEF LoadedExisting, ListingExplained, AtOffice
  <2> QED BY <2>3, <2>5, <2>6, <2>7
<1> QED BY <1>1, <1>2

\* The invariant holds throughout.
THEOREM OrganisationsInvariant == OrganisationsSpec => []OrganisationsInv
<1>1. OrganisationsInv /\ [OrganisationsNext]_orgVars => OrganisationsInv'
  <2> SUFFICES ASSUME OrganisationsInv, [OrganisationsNext]_orgVars PROVE OrganisationsInv'
    OBVIOUS
  <2>1. CASE OrganisationsController
    BY <2>1, AskKeeps, IndexKeeps, CreateKeeps DEF OrganisationsController
  <2>2. CASE MembersController
    BY <2>2, AskKeeps, MembersKeep DEF MembersController
  <2>3. CASE AdminOrganisationsController
    BY <2>3, AskKeeps, IndexKeeps, MembersKeep, DropKeeps, SuspensionKeeps
       DEF AdminOrganisationsController
  <2>4. ASSUME NEW p \in Staff, ValidateDeletion(p) \/ ExecuteDeletion(p)
        PROVE  OrganisationsInv'
    BY <2>4, AccountKeeps
  <2>5. ASSUME NEW d \in Offices, StartReindex(d) \/ Reindex(d) \/ Break(d)
        PROVE  OrganisationsInv'
    BY <2>5, AskKeeps, IndexKeeps, BreakKeeps
  <2>6. CASE UNCHANGED orgVars
    <3>1. UNCHANGED <<org, role, departed, closing, listed, office, moves, contested, stray>>
      BY <2>6 DEF orgVars
    <3>2. OrganisationsTypeOK'
      BY <3>1 DEF OrganisationsInv, OrganisationsTypeOK
    <3>3. LoadedExisting' /\ ListingExplained'
      BY <3>1 DEF OrganisationsInv, LoadedExisting, ListingExplained, AtOffice
    <3> QED BY <3>1, <3>2, <3>3, RowsStay DEF OrganisationsInv
  <2> QED BY <2>1, <2>2, <2>3, <2>4, <2>5, <2>6 DEF OrganisationsNext
<1> QED BY OrganisationsInitInv, <1>1, PTL DEF OrganisationsSpec

\* An organisation has one owner and search lists the active ones, but for what
\* was written on stale news, whatever requests overlap or die
\* (OrganisationsService, MembersService, OrganisationModerationService).
THEOREM OrganisationsAreExplained == OrganisationsSpec => []OrganisationsExplained
<1>1. OrganisationsInv => OrganisationsExplained
  <2> SUFFICES ASSUME OrganisationsInv PROVE OrganisationsExplained
    OBVIOUS
  <2>1. ASSUME NEW o \in Existing \ contested PROVE Cardinality(Owners(o)) = 1
    BY FS_Singleton DEF OrganisationsInv, OwnerNamed
  <2> QED BY <2>1 DEF OrganisationsInv, OrganisationsExplained, OneOwner
<1> QED BY OrganisationsInvariant, <1>1, PTL

----------------------------------------------------------------------------
(* Comments *)

\* Comments are known by the ids that were given to them: a reply is to another
\* comment that was there, and nothing hangs on an id that was not given.
NotesKnown ==
  /\ IsFiniteSet(Here) /\ Here \subseteq used
  /\ \A c \in Here : parent[c] \in used \cup {Top} /\ parent[c] # c
  /\ \A c \in Notes \ used : repliesCount[c] = 0 /\ flagsCount[c] = 0 /\ FlagsOf(c) = {}

FlagsTold(c) == IsFiniteSet(FlagsOf(c)) /\ flagsCount[c] = Cardinality(FlagsOf(c))
Dismissing(d, c) == At(d, "dismiss") /\ thread[d].note = c

\* Flags are counted exactly, and who dismisses them has seen all there are,
\* and is alone.
FlagsCounted ==
  /\ \A d \in Threads : At(d, "dismiss") => thread[d].note \in used
  /\ \A c \in Here \ washed :
       /\ FlagsTold(c)
       /\ \A d \in Threads : Dismissing(d, c) =>
            /\ thread[d].cleared = FlagsOf(c) /\ thread[d].cleared # {}
            /\ \A e \in Threads : Dismissing(e, c) => e = d

Reporting(d, p) == At(d, "report") /\ thread[d].by = p

\* Whoever is about to report may still do so, and does it once.
ReportsCounted ==
  \A p \in People \ rushed :
    /\ today[p] <= DailyCap
    /\ \A d \in Threads : Reporting(d, p) =>
         /\ today[p] < DailyCap
         /\ \A e \in Threads : Reporting(e, p) => e = d

CommentsInv ==
  /\ CommentsTypeOK /\ NotesKnown /\ CountsExplained /\ FlagsCounted /\ ReportsCounted

\* What a request carries.
LEMMA ThreadFields ==
  ASSUME CommentsTypeOK, NEW d \in Threads
  PROVE  /\ At(d, "post") => thread[d].by \in People /\ thread[d].to \in Notes \cup {Top}
         /\ At(d, "delete") => thread[d].note \in Notes /\ thread[d].replies \in Int
         /\ At(d, "dismiss") => thread[d].note \in Notes /\ thread[d].cleared \subseteq People
         /\ At(d, "report") => thread[d].by \in People /\ thread[d].note \in Notes
  BY DEF CommentsTypeOK, Job, Free, At

\* The requests there are.
LEMMA ThreadJobs ==
  /\ Free \in Job
  /\ \A p \in People, q \in Notes \cup {Top} : [pc |-> "post", by |-> p, to |-> q] \in Job
  /\ \A c \in Notes, n \in Int : [pc |-> "delete", note |-> c, replies |-> n] \in Job
  /\ \A c \in Notes, S \in SUBSET People :
       [pc |-> "dismiss", note |-> c, cleared |-> S] \in Job
  /\ \A p \in People, c \in Notes : [pc |-> "report", by |-> p, note |-> c] \in Job
  BY DEF Job

\* The invariant holds of an event without comments.
LEMMA CommentsInitInv == CommentsInit => CommentsInv
<1> SUFFICES ASSUME CommentsInit PROVE CommentsInv
  OBVIOUS
<1> USE DEF CommentsInit
<1>1. CommentsTypeOK
  <2>1. open \in BOOLEAN /\ adrift \in BOOLEAN
    OBVIOUS
  <2>4. /\ used \subseteq Notes /\ likes \subseteq Notes \X People
        /\ flags \subseteq Notes \X People /\ blocks \subseteq People \X People
        /\ gone \subseteq People /\ drifted \subseteq Notes /\ washed \subseteq Notes
        /\ slipped \subseteq Notes /\ rushed \subseteq People
    OBVIOUS
  <2>2. /\ author \in [Notes -> People \cup {NoOne}] /\ parent \in [Notes -> Notes \cup {Top}]
        /\ likesCount \in [Notes -> Int] /\ repliesCount \in [Notes -> Int]
        /\ flagsCount \in [Notes -> Int] /\ commentsCount \in Int
    OBVIOUS
  <2>3. /\ report \in [People -> [Notes -> ReportStatus]] /\ today \in [People -> Nat]
        /\ thread \in [Threads -> Job] /\ acts \in 0..MaxActs
    <3>1. /\ report \in [People -> [Notes -> ReportStatus]] /\ today \in [People -> Nat]
          /\ thread \in [Threads -> Job]
      BY ThreadJobs DEF ReportStatus
    <3>2. acts \in 0..MaxActs
      BY CommentsAssumption
    <3> QED BY <3>1, <3>2
  <2> QED BY <2>1, <2>2, <2>3, <2>4 DEF CommentsTypeOK
<1>2. Here = {} /\ \A c \in Notes : FlagsOf(c) = {}
  BY DEF Here, FlagsOf
<1>3. NotesKnown /\ CountsExplained /\ FlagsCounted
  BY <1>2, FS_EmptySet DEF NotesKnown, CountsExplained, FlagsCounted, At, Free
<1>4. ReportsCounted
  <2>1. \A d \in Threads, p \in People : ~Reporting(d, p)
    BY DEF Reporting, At, Free
  <2>2. DailyCap \in Nat
    BY CommentsAssumption
  <2>3. \A p \in People : today[p] = 0
    OBVIOUS
  <2>4. \A p \in People : today[p] <= DailyCap
    BY <2>2, <2>3
  <2> QED BY <2>1, <2>4 DEF ReportsCounted
<1> QED BY <1>1, <1>3, <1>4 DEF CommentsInv

\* One request proceeds, the others are where they were.
LEMMA ThreadSet ==
  ASSUME CommentsTypeOK, NEW d \in Threads, NEW j \in Job, Take(d, j)
  PROVE  /\ thread' \in [Threads -> Job]
         /\ \A e \in Threads : thread'[e] = IF e = d THEN j ELSE thread[e]
  BY DEF CommentsTypeOK, Take

\* A request ends: no new one dismisses or reports.
LEMMA ThreadEnds ==
  ASSUME CommentsTypeOK, NEW d \in Threads, Leave(d)
  PROVE  /\ thread' \in [Threads -> Job]
         /\ \A e \in Threads : At(e, "dismiss")' => thread'[e] = thread[e] /\ e # d
         /\ \A e \in Threads : At(e, "report")' => thread'[e] = thread[e] /\ e # d
<1>1. /\ thread' \in [Threads -> Job]
      /\ \A e \in Threads : thread'[e] = IF e = d THEN Free ELSE thread[e]
  BY ThreadJobs, ThreadSet DEF Leave
<1> QED BY <1>1 DEF At, Free

\* The parts of the invariant that a step leaves alone.
LEMMA NotesLeft ==
  ASSUME NotesKnown, UNCHANGED <<author, parent, used>>,
         \A c \in Notes \ used :
           /\ repliesCount'[c] = repliesCount[c] /\ flagsCount'[c] = flagsCount[c]
           /\ FlagsOf(c)' = FlagsOf(c)
  PROVE  NotesKnown'
<1>1. Here' = Here
  BY DEF Here
<1> QED BY <1>1 DEF NotesKnown

LEMMA CountsLeft ==
  ASSUME CountsExplained,
         UNCHANGED <<author, parent, repliesCount, commentsCount, drifted, adrift>>
  PROVE  CountsExplained'
  BY DEF CountsExplained, Here, Replies

LEMMA FlagsLeft ==
  ASSUME FlagsCounted, used \subseteq used',
         \A c \in Here' \ washed' :
           /\ c \in Here \ washed /\ FlagsOf(c)' = FlagsOf(c) /\ flagsCount'[c] = flagsCount[c],
         \A d \in Threads : At(d, "dismiss")' => thread'[d] = thread[d]
  PROVE  FlagsCounted'
  BY DEF FlagsCounted, FlagsTold, Dismissing, At

LEMMA ReportsLeft ==
  ASSUME CommentsTypeOK, ReportsCounted, rushed \subseteq rushed', today' \in [People -> Nat],
         \A p \in People \ rushed' : today'[p] <= today[p],
         \A d \in Threads : At(d, "report")' => thread'[d] = thread[d]
  PROVE  ReportsCounted'
<1> SUFFICES ASSUME NEW p \in People \ rushed'
             PROVE  /\ today'[p] <= DailyCap
                    /\ \A d \in Threads : Reporting(d, p)' =>
                         /\ today'[p] < DailyCap
                         /\ \A e \in Threads : Reporting(e, p)' => e = d
  BY DEF ReportsCounted
<1>0. today \in [People -> Nat]
  BY DEF CommentsTypeOK
<1>1. today[p] \in Nat /\ today'[p] \in Nat /\ today'[p] <= today[p]
  BY <1>0
<1>2. /\ today[p] <= DailyCap
      /\ \A d \in Threads : Reporting(d, p) =>
           today[p] < DailyCap /\ \A e \in Threads : Reporting(e, p) => e = d
  BY DEF ReportsCounted
<1>3. \A d \in Threads : Reporting(d, p)' => Reporting(d, p)
  BY DEF Reporting, At
<1>4. DailyCap \in Nat
  BY CommentsAssumption
<1>5. today'[p] <= DailyCap
  BY <1>1, <1>2, <1>4
<1>6. ASSUME NEW d \in Threads, Reporting(d, p)'
      PROVE  today'[p] < DailyCap /\ \A e \in Threads : Reporting(e, p)' => e = d
  <2>1. today[p] < DailyCap
    BY <1>2, <1>3, <1>6
  <2>2. today'[p] < DailyCap
    BY <1>1, <1>4, <2>1
  <2>3. \A e \in Threads : Reporting(e, p)' => e = d
    BY <1>2, <1>3, <1>6
  <2> QED BY <2>2, <2>3
<1> QED BY <1>5, <1>6

\* Rows go, with all that hangs on them; no id is given back.
LEMMA NotesGo ==
  ASSUME CommentsTypeOK, NotesKnown, Here' \subseteq Here, UNCHANGED <<parent, used>>,
         \A c \in Notes \ used :
           /\ repliesCount'[c] = repliesCount[c] /\ flagsCount'[c] = flagsCount[c]
           /\ FlagsOf(c)' \subseteq FlagsOf(c)
  PROVE  NotesKnown'
<1>1. IsFiniteSet(Here')
  BY FS_Subset DEF NotesKnown
<1> QED BY <1>1 DEF NotesKnown

\* Steps that change no row, no flag and no counter, and no report.
LEMMA ReadKeeps ==
  ASSUME CommentsInv, CommentsTypeOK',
         UNCHANGED <<rows, flags, repliesCount, flagsCount, commentsCount, drifted, adrift,
                     washed, rushed>>,
         \A p \in People : today'[p] <= today[p],
         \A d \in Threads : At(d, "dismiss")' => thread'[d] = thread[d],
         \A d \in Threads : At(d, "report")' => thread'[d] = thread[d]
  PROVE  CommentsInv'
<1> USE DEF CommentsInv
<1>0. UNCHANGED <<author, parent, used>>
  BY DEF rows
<1>1. \A c \in Notes : FlagsOf(c)' = FlagsOf(c)
  BY DEF FlagsOf
<1>2. Here' = Here /\ Here \subseteq Notes
  BY <1>0 DEF Here
<1>3. NotesKnown'
  BY <1>0, <1>1, NotesLeft
<1>4. CountsExplained'
  BY <1>0, CountsLeft
<1>5. FlagsCounted'
  BY <1>0, <1>1, <1>2, FlagsLeft
<1>6. today' \in [People -> Nat] /\ rushed \subseteq rushed'
  BY DEF CommentsTypeOK
<1>7. ReportsCounted'
  BY <1>6, ReportsLeft
<1> QED BY <1>3, <1>4, <1>5, <1>7

\* The rows of dead go; what hangs on the others stays.
LEMMA CascadeFacts ==
  ASSUME CommentsTypeOK, NEW dead, Cascade(dead)
  PROVE  /\ author' \in [Notes -> People \cup {NoOne}] /\ Here' = Here \ dead
         /\ likes' \subseteq likes /\ flags' \subseteq flags
         /\ \A c \in Notes : FlagsOf(c)' \subseteq FlagsOf(c)
         /\ \A c \in Notes \ dead : FlagsOf(c)' = FlagsOf(c)
         /\ UNCHANGED <<parent, used>>
<1>1. /\ author' = [c \in Notes |-> IF c \in dead THEN NoOne ELSE author[c]]
      /\ likes' = {l \in likes : l[1] \notin dead}
      /\ flags' = {f \in flags : f[1] \notin dead}
      /\ UNCHANGED <<parent, used>>
  BY DEF Cascade
<1>2. /\ author' \in [Notes -> People \cup {NoOne}]
      /\ \A c \in Notes : author'[c] = IF c \in dead THEN NoOne ELSE author[c]
  BY <1>1 DEF CommentsTypeOK
<1>3. Here' = Here \ dead
  BY <1>2 DEF Here
<1>4. likes' \subseteq likes /\ flags' \subseteq flags
  BY <1>1
<1>5. \A c \in Notes : FlagsOf(c)' \subseteq FlagsOf(c)
  BY <1>4 DEF FlagsOf
<1>6. ASSUME NEW c \in Notes \ dead PROVE FlagsOf(c)' = FlagsOf(c)
  BY <1>1 DEF FlagsOf
<1> QED BY <1>1, <1>2, <1>3, <1>4, <1>5, <1>6

\* A comment and its replies.
LEMMA ThreadCounted ==
  ASSUME NEW H, IsFiniteSet(H), NEW R \in SUBSET H, NEW c \in H, c \notin R
  PROVE  /\ Cardinality(H) \in Nat /\ Cardinality(R) \in Nat
         /\ Cardinality(H \ ({c} \cup R)) = Cardinality(H) - (1 + Cardinality(R))
<1>1. IsFiniteSet(H \ {c}) /\ Cardinality(H \ {c}) = Cardinality(H) - 1
  BY CountOut
<1>2. IsFiniteSet(R) /\ Cardinality(H) \in Nat /\ Cardinality(R) \in Nat
  BY FS_Subset, FS_CardinalityType
<1>3. (H \ {c}) \cap R = R /\ (H \ {c}) \ R = H \ ({c} \cup R)
  OBVIOUS
<1>4. Cardinality((H \ {c}) \ R) = Cardinality(H \ {c}) - Cardinality((H \ {c}) \cap R)
  BY <1>1, FS_Difference
<1>5. Cardinality(H \ ({c} \cup R)) = Cardinality(H) - 1 - Cardinality(R)
  BY <1>1, <1>3, <1>4
<1> QED BY <1>2, <1>5

\* A comment is deleted with its replies.  Who loses a reply and is still there
\* is its parent.
LEMMA ThreadRemoved ==
  ASSUME CommentsInv, NEW c \in Here, Cascade(WithReplies({c}))
  PROVE  /\ Here' = Here \ ({c} \cup Replies(c)) /\ c \notin Replies(c)
         /\ Replies(c) \subseteq Here
         /\ \A x \in Here' : Replies(x)' = IF parent[c] = x THEN Replies(x) \ {c} ELSE Replies(x)
         /\ \A x \in Here' : FlagsOf(x)' = FlagsOf(x)
<1> USE DEF CommentsInv
<1>1. WithReplies({c}) = {c} \cup Replies(c)
  BY DEF WithReplies, Replies
<1>2. /\ Here' = Here \ ({c} \cup Replies(c)) /\ UNCHANGED parent
      /\ \A x \in Notes \ ({c} \cup Replies(c)) : FlagsOf(x)' = FlagsOf(x)
  BY <1>1, CascadeFacts
<1>3. c \notin Replies(c) /\ Replies(c) \subseteq Here
  BY DEF NotesKnown, Replies
<1>4. ASSUME NEW x \in Here'
      PROVE  Replies(x)' = IF parent[c] = x THEN Replies(x) \ {c} ELSE Replies(x)
  BY <1>2 DEF Replies
<1>5. \A x \in Here' : FlagsOf(x)' = FlagsOf(x)
  BY <1>2 DEF Here
<1> QED BY <1>2, <1>3, <1>4, <1>5

LEMMA PostKeeps ==
  ASSUME CommentsInv, NEW d \in Threads, NEW c \in Notes, Post(d, c)
  PROVE  CommentsInv'
<1> USE DEF CommentsInv
<1>1. PICK q \in Notes \cup {Top}, p \in People : q = thread[d].to /\ p = thread[d].by
  BY ThreadFields DEF Post
<1>2. /\ c \notin used
      /\ q # Top => q \in Here
      /\ used' = used \cup {c} /\ author' = [author EXCEPT ![c] = p]
      /\ parent' = [parent EXCEPT ![c] = q]
      /\ repliesCount' = IF q = Top THEN repliesCount ELSE [repliesCount EXCEPT ![q] = @ + 1]
      /\ commentsCount' = commentsCount + 1
      /\ Leave(d)
      /\ slipped' = IF open THEN slipped ELSE slipped \cup {c}
      /\ UNCHANGED <<open, likes, flags, likesCount, flagsCount, blocks, gone, report, today, acts,
                     drifted, adrift, washed, rushed>>
  BY <1>1 DEF Post, people, reports
<1>3. /\ c \notin Here /\ q # c
      /\ q # Top => q \in used
      /\ repliesCount[c] = 0 /\ flagsCount[c] = 0 /\ FlagsOf(c) = {}
      /\ \A r \in Here : parent[r] # c
  BY <1>2, NoOneAssumption DEF NotesKnown, Top
<1>4. /\ \A x \in Notes : author'[x] = IF x = c THEN p ELSE author[x]
      /\ \A x \in Notes : parent'[x] = IF x = c THEN q ELSE parent[x]
      /\ author' \in [Notes -> People \cup {NoOne}] /\ parent' \in [Notes -> Notes \cup {Top}]
  BY <1>2 DEF CommentsTypeOK
<1>5. /\ repliesCount' \in [Notes -> Int]
      /\ \A x \in Notes : repliesCount'[x] = IF x = q THEN repliesCount[x] + 1 ELSE repliesCount[x]
  <2>1. repliesCount \in [Notes -> Int] /\ Top \notin Notes
    BY NoOneAssumption DEF CommentsTypeOK, Top
  <2> QED BY <1>2, <2>1
<1>6. /\ thread' \in [Threads -> Job]
      /\ \A e \in Threads : At(e, "dismiss")' => thread'[e] = thread[e]
      /\ \A e \in Threads : At(e, "report")' => thread'[e] = thread[e]
  BY <1>2, ThreadEnds
<1>7. CommentsTypeOK'
  <2>1. commentsCount' \in Int
    BY <1>2 DEF CommentsTypeOK
  <2>2. slipped' \subseteq Notes /\ used' \subseteq Notes
    BY <1>2 DEF CommentsTypeOK
  <2> QED BY <1>2, <1>4, <1>5, <1>6, <2>1, <2>2 DEF CommentsTypeOK
<1>8. Here' = Here \cup {c}
  BY <1>4, NoOneAssumption DEF Here, NoOne
<1>9. IsFiniteSet(Here') /\ Cardinality(Here') = Cardinality(Here) + 1
  BY <1>3, <1>8, CountIn DEF NotesKnown
<1>10. \A x \in Notes : FlagsOf(x)' = FlagsOf(x)
  BY <1>2 DEF FlagsOf
<1>11. NotesKnown'
  <2>1. Here' \subseteq used'
    BY <1>2, <1>8 DEF NotesKnown
  <2>2. \A x \in Here' : parent'[x] \in used' \cup {Top} /\ parent'[x] # x
    BY <1>2, <1>3, <1>4, <1>8 DEF NotesKnown, Here
  <2>3. \A x \in Notes \ used' :
          repliesCount'[x] = 0 /\ flagsCount'[x] = 0 /\ FlagsOf(x)' = {}
    BY <1>2, <1>3, <1>5, <1>10 DEF NotesKnown
  <2> QED BY <1>9, <2>1, <2>2, <2>3 DEF NotesKnown
<1>12. CountsExplained'
  <2>1. ~adrift' => commentsCount' = Cardinality(Here')
    BY <1>2, <1>9 DEF CountsExplained
  <2>2. ASSUME NEW x \in Here' \ drifted' PROVE repliesCount'[x] = Cardinality(Replies(x)')
    <3>0. x \in Notes /\ x \notin drifted
      BY <1>2, <2>2 DEF Here
    <3>1. CASE x = c
      <4>1. Replies(x)' = {}
        BY <1>3, <1>4, <1>8, <3>1 DEF Replies, Here
      <4> QED BY <1>3, <1>5, <3>0, <3>1, <4>1, FS_EmptySet
    <3>2. CASE x # c /\ x = q
      <4>1. Replies(x)' = Replies(x) \cup {c} /\ c \notin Replies(x)
        BY <1>3, <1>4, <1>8, <3>2 DEF Replies, Here
      <4>2. IsFiniteSet(Replies(x))
        BY FS_Subset DEF NotesKnown, Replies
      <4>3. Cardinality(Replies(x)') = Cardinality(Replies(x)) + 1
        BY <4>1, <4>2, CountIn
      <4>4. repliesCount[x] = Cardinality(Replies(x))
        BY <1>8, <2>2, <3>0, <3>2 DEF CountsExplained
      <4> QED BY <1>5, <3>0, <3>2, <4>3, <4>4
    <3>3. CASE x # c /\ x # q
      <4>1. Replies(x)' = Replies(x)
        BY <1>3, <1>4, <1>8, <3>3 DEF Replies, Here
      <4>2. repliesCount[x] = Cardinality(Replies(x))
        BY <1>8, <2>2, <3>0, <3>3 DEF CountsExplained
      <4> QED BY <1>5, <3>0, <3>3, <4>1, <4>2
    <3> QED BY <3>1, <3>2, <3>3
  <2> QED BY <2>1, <2>2 DEF CountsExplained
<1>13. FlagsCounted'
  <2>k. \A e \in Threads : At(e, "dismiss")' => thread'[e].note \in used
    BY <1>6 DEF FlagsCounted, At
  <2> SUFFICES ASSUME NEW x \in Here' \ washed'
               PROVE  /\ FlagsTold(x)'
                      /\ \A e \in Threads : Dismissing(e, x)' =>
                           /\ thread'[e].cleared = FlagsOf(x)' /\ thread'[e].cleared # {}
                           /\ \A g \in Threads : Dismissing(g, x)' => g = e
    BY <1>2, <2>k DEF FlagsCounted
  <2>0. x \in Notes
    BY DEF Here
  <2>1. CASE x # c
    BY <1>2, <1>6, <1>8, <1>10, <2>0, <2>1 DEF FlagsCounted, FlagsTold, Dismissing, At
  <2>2. CASE x = c
    <3>1. FlagsTold(x)'
      BY <1>2, <1>3, <1>10, <2>0, <2>2, FS_EmptySet DEF FlagsTold
    <3>2. \A e \in Threads : ~Dismissing(e, x)'
      BY <1>2, <2>k, <2>2 DEF Dismissing
    <3> QED BY <3>1, <3>2
  <2> QED BY <2>1, <2>2
<1>14. ReportsCounted'
  <2>1. rushed \subseteq rushed' /\ today' \in [People -> Nat]
        /\ \A x \in People \ rushed' : today'[x] <= today[x]
    BY <1>2 DEF CommentsTypeOK
  <2> QED BY <1>6, <2>1, ReportsLeft
<1> QED BY <1>7, <1>11, <1>12, <1>13, <1>14

LEMMA DeleteKeeps ==
  ASSUME CommentsInv, NEW d \in Threads, Delete(d)
  PROVE  CommentsInv'
<1> USE DEF CommentsInv
<1>0. At(d, "delete")
  BY DEF Delete
<1>1. PICK c \in Here, n \in Int : c = thread[d].note /\ n = thread[d].replies
  BY <1>0, ThreadFields DEF Delete
<1>2. /\ Cascade(WithReplies({c})) /\ Leave(d)
      /\ repliesCount' = IF parent[c] = Top THEN repliesCount
                         ELSE [repliesCount EXCEPT ![parent[c]] = @ - 1]
      /\ commentsCount' = commentsCount - (1 + n)
      /\ adrift' = (adrift \/ n # Cardinality(Replies(c)))
      /\ UNCHANGED <<open, likesCount, flagsCount, blocks, gone, report, today, acts, drifted,
                     washed, slipped, rushed>>
  BY <1>1 DEF Delete, people, reports
<1>3. /\ Here' = Here \ ({c} \cup Replies(c)) /\ c \notin Replies(c) /\ Replies(c) \subseteq Here
      /\ \A x \in Here' : Replies(x)' = IF parent[c] = x THEN Replies(x) \ {c} ELSE Replies(x)
      /\ \A x \in Here' : FlagsOf(x)' = FlagsOf(x)
  BY <1>2, ThreadRemoved
<1>4. /\ author' \in [Notes -> People \cup {NoOne}] /\ UNCHANGED <<parent, used>>
      /\ likes' \subseteq likes /\ flags' \subseteq flags
      /\ \A x \in Notes : FlagsOf(x)' \subseteq FlagsOf(x)
  BY <1>2, CascadeFacts
<1>5. /\ thread' \in [Threads -> Job]
      /\ \A e \in Threads : At(e, "dismiss")' => thread'[e] = thread[e]
      /\ \A e \in Threads : At(e, "report")' => thread'[e] = thread[e]
  BY <1>2, ThreadEnds
<1>6. /\ repliesCount' \in [Notes -> Int]
      /\ \A x \in Notes : repliesCount'[x] =
           IF x = parent[c] THEN repliesCount[x] - 1 ELSE repliesCount[x]
  <2>1. repliesCount \in [Notes -> Int] /\ Top \notin Notes
    BY NoOneAssumption DEF CommentsTypeOK, Top
  <2>2. PICK q \in Notes \cup {Top} : q = parent[c]
    BY DEF CommentsTypeOK, Here
  <2>3. CASE q = Top
    BY <1>2, <2>1, <2>2, <2>3
  <2>4. CASE q # Top
    <3>1. q \in Notes /\ repliesCount' = [repliesCount EXCEPT ![q] = @ - 1]
      BY <1>2, <2>2, <2>4
    <3>2. /\ repliesCount' \in [Notes -> Int]
          /\ \A x \in Notes : repliesCount'[x] = IF x = q THEN repliesCount[x] - 1 ELSE repliesCount[x]
      BY <2>1, <3>1
    <3> QED BY <2>2, <3>2
  <2> QED BY <2>3, <2>4
<1>7. adrift' \in BOOLEAN
  BY <1>2, Zenon DEF CommentsTypeOK
<1>8. CommentsTypeOK'
  <2>1. commentsCount' \in Int
    BY <1>2 DEF CommentsTypeOK
  <2>2. likes' \subseteq Notes \X People /\ flags' \subseteq Notes \X People
    BY <1>4 DEF CommentsTypeOK
  <2> QED BY <1>2, <1>4, <1>5, <1>6, <1>7, <2>1, <2>2 DEF CommentsTypeOK
<1>9. NotesKnown'
  <2>0. parent[c] \in used \cup {Top} /\ Top \notin Notes
    BY NoOneAssumption DEF NotesKnown, Top
  <2>1. \A x \in Notes \ used : repliesCount'[x] = repliesCount[x]
    BY <1>6, <2>0
  <2> QED BY <1>2, <1>3, <1>4, <2>1, NotesGo
<1>10. CountsExplained'
  <2>1. IsFiniteSet(Here) /\ Replies(c) \in SUBSET Here
    BY <1>3 DEF NotesKnown
  <2>2. /\ Cardinality(Here) \in Nat /\ Cardinality(Replies(c)) \in Nat
        /\ Cardinality(Here') = Cardinality(Here) - (1 + Cardinality(Replies(c)))
    BY <1>3, <2>1, ThreadCounted
  <2>3. ~adrift' => commentsCount' = Cardinality(Here')
    BY <1>2, <2>2 DEF CountsExplained
  <2>4. ASSUME NEW x \in Here' \ drifted' PROVE repliesCount'[x] = Cardinality(Replies(x)')
    <3>0. x \in Notes /\ x \in Here \ drifted
      BY <1>2, <1>3, <2>4 DEF Here
    <3>1. repliesCount[x] = Cardinality(Replies(x))
      BY <3>0 DEF CountsExplained
    <3>2. CASE parent[c] = x
      <4>1. c \in Replies(x) /\ IsFiniteSet(Replies(x))
        BY <2>1, <3>2, FS_Subset DEF Replies
      <4>2. Cardinality(Replies(x) \ {c}) = Cardinality(Replies(x)) - 1
        BY <4>1, CountOut
      <4> QED BY <1>3, <1>6, <3>0, <3>1, <3>2, <4>2
    <3>3. CASE parent[c] # x
      BY <1>3, <1>6, <2>4, <3>0, <3>1, <3>3
    <3> QED BY <3>2, <3>3
  <2> QED BY <2>3, <2>4 DEF CountsExplained
<1>11. FlagsCounted'
  <2>1. \A x \in Here' \ washed' :
           /\ x \in Here \ washed /\ FlagsOf(x)' = FlagsOf(x) /\ flagsCount'[x] = flagsCount[x]
    BY <1>2, <1>3
  <2> QED BY <1>4, <1>5, <2>1, FlagsLeft
<1>12. ReportsCounted'
  <2>1. rushed \subseteq rushed' /\ today' \in [People -> Nat]
        /\ \A x \in People \ rushed' : today'[x] <= today[x]
    BY <1>2 DEF CommentsTypeOK
  <2> QED BY <1>5, <2>1, ReportsLeft
<1> QED BY <1>8, <1>9, <1>10, <1>11, <1>12

\* A report has its comment deleted, and no counter is told.
LEMMA ActionKeeps ==
  ASSUME CommentsInv, NEW p \in People, NEW c \in Notes, NEW b \in BOOLEAN, Action(p, c, b)
  PROVE  CommentsInv'
<1> USE DEF CommentsInv
<1>1. /\ report' = [report EXCEPT ![p][c] = "actioned"] /\ acts' \in 0..MaxActs
      /\ UNCHANGED <<open, likesCount, repliesCount, flagsCount, commentsCount, blocks, gone, today,
                     thread, washed, slipped, rushed>>
  BY CommentsAssumption DEF Action, Act, CommentsTypeOK, tallies, people
<1>2. report' \in [People -> [Notes -> ReportStatus]]
  BY <1>1 DEF CommentsTypeOK, ReportStatus
<1>3. /\ \A d \in Threads : At(d, "dismiss")' => thread'[d] = thread[d]
      /\ \A d \in Threads : At(d, "report")' => thread'[d] = thread[d]
      /\ \A x \in People : today'[x] <= today[x]
  BY <1>1 DEF CommentsTypeOK
<1>4. CASE b /\ c \in Here
  <2>1. /\ Cascade(WithReplies({c})) /\ adrift' = TRUE
        /\ drifted' = drifted \cup ({parent[c]} \ {Top})
    BY <1>4 DEF Action
  <2>2. /\ Here' = Here \ ({c} \cup Replies(c))
        /\ \A x \in Here' : Replies(x)' = IF parent[c] = x THEN Replies(x) \ {c} ELSE Replies(x)
        /\ \A x \in Here' : FlagsOf(x)' = FlagsOf(x)
    BY <1>4, <2>1, ThreadRemoved
  <2>3. /\ author' \in [Notes -> People \cup {NoOne}] /\ UNCHANGED <<parent, used>>
        /\ likes' \subseteq likes /\ flags' \subseteq flags
        /\ \A x \in Notes : FlagsOf(x)' \subseteq FlagsOf(x)
    BY <2>1, CascadeFacts
  <2>4. CommentsTypeOK'
    <3>1. drifted' \subseteq Notes /\ adrift' \in BOOLEAN
      BY <2>1 DEF CommentsTypeOK
    <3>2. likes' \subseteq Notes \X People /\ flags' \subseteq Notes \X People
      BY <2>3 DEF CommentsTypeOK
    <3> QED BY <1>1, <1>2, <2>3, <3>1, <3>2 DEF CommentsTypeOK
  <2>5. NotesKnown'
    BY <1>1, <2>2, <2>3, NotesGo
  <2>6. CountsExplained'
    <3>1. \A x \in Here' \ drifted' : x \in Here \ drifted /\ Replies(x)' = Replies(x)
      BY <2>1, <2>2, NoOneAssumption DEF Here, Top
    <3> QED BY <1>1, <2>1, <3>1 DEF CountsExplained
  <2>7. FlagsCounted'
    <3>1. \A x \in Here' \ washed' :
            /\ x \in Here \ washed /\ FlagsOf(x)' = FlagsOf(x) /\ flagsCount'[x] = flagsCount[x]
      BY <1>1, <2>2
    <3> QED BY <1>3, <2>3, <3>1, FlagsLeft
  <2>8. ReportsCounted'
    <3>1. rushed \subseteq rushed' /\ today' \in [People -> Nat]
      BY <1>1 DEF CommentsTypeOK
    <3> QED BY <1>3, <3>1, ReportsLeft
  <2> QED BY <2>4, <2>5, <2>6, <2>7, <2>8
<1>5. CASE ~(b /\ c \in Here)
  <2>1. UNCHANGED <<author, parent, used, likes, flags, drifted, adrift>>
    BY <1>5 DEF Action, rows
  <2>2. CommentsTypeOK'
    BY <1>1, <1>2, <2>1 DEF CommentsTypeOK
  <2>3. UNCHANGED <<rows, flags, repliesCount, flagsCount, commentsCount, drifted, adrift,
                    washed, rushed>>
    BY <1>1, <2>1 DEF rows
  <2> QED BY <1>3, <2>2, <2>3, ReadKeeps
<1> QED BY <1>4, <1>5

\* An account goes with its comments, their replies, and its flags.
LEMMA AccountGoneKeeps ==
  ASSUME CommentsInv, NEW p \in People, AccountGone(p)
  PROVE  CommentsInv'
<1> USE DEF CommentsInv
<1> DEFINE hers == {c \in Here : author[c] = p}
           dead == WithReplies(hers)
<1>1. /\ gone' = gone \cup {p} /\ acts' \in 0..MaxActs
      /\ author' = [c \in Notes |-> IF c \in dead THEN NoOne ELSE author[c]]
      /\ likes' = {l \in likes : l[1] \notin dead /\ l[2] # p}
      /\ flags' = {f \in flags : f[1] \notin dead /\ f[2] # p}
      /\ blocks' = {b \in blocks : b[1] # p}
      /\ report' = [report EXCEPT ![p] = [c \in Notes |-> "none"]]
      /\ drifted' = drifted \cup ({parent[c] : c \in hers} \ {Top})
      /\ adrift' = (adrift \/ hers # {})
      /\ washed' = washed \cup {c \in Notes : p \in FlagsOf(c)}
      /\ UNCHANGED <<open, parent, used, likesCount, repliesCount, flagsCount, commentsCount, today,
                     thread, slipped, rushed>>
  BY CommentsAssumption DEF AccountGone, Act, CommentsTypeOK, tallies
<1>2. /\ author' \in [Notes -> People \cup {NoOne}]
      /\ \A c \in Notes : author'[c] = IF c \in dead THEN NoOne ELSE author[c]
  BY <1>1 DEF CommentsTypeOK
<1>3. Here' = Here \ dead /\ dead = hers \cup {r \in Here : parent[r] \in hers}
  BY <1>2 DEF Here, WithReplies
<1>4. report' \in [People -> [Notes -> ReportStatus]]
  BY <1>1 DEF CommentsTypeOK, ReportStatus
<1>5. /\ likes' \subseteq likes /\ flags' \subseteq flags /\ blocks' \subseteq blocks
      /\ \A c \in Notes : FlagsOf(c)' \subseteq FlagsOf(c)
  BY <1>1 DEF FlagsOf
<1>6. adrift' \in BOOLEAN
  BY <1>1, Zenon DEF CommentsTypeOK
<1>7. CommentsTypeOK'
  <2>1. drifted' \subseteq Notes
    BY <1>1 DEF CommentsTypeOK, Here
  <2>2. washed' \subseteq Notes /\ gone' \subseteq People
    BY <1>1 DEF CommentsTypeOK
  <2>3. /\ likes' \subseteq Notes \X People /\ flags' \subseteq Notes \X People
        /\ blocks' \subseteq People \X People
    BY <1>5 DEF CommentsTypeOK
  <2> QED BY <1>1, <1>2, <1>4, <1>6, <2>1, <2>2, <2>3 DEF CommentsTypeOK
<1>8. NotesKnown'
  BY <1>1, <1>3, <1>5, NotesGo
<1>9. CountsExplained'
  <2>1. ~adrift' => Here' = Here /\ ~adrift
    BY <1>1, <1>3
  <2>2. ASSUME NEW x \in Here' \ drifted'
        PROVE  x \in Here \ drifted /\ Replies(x)' = Replies(x)
    <3>1. x \in Here \ drifted /\ x # Top
      BY <1>1, <1>3, NoOneAssumption DEF Here, Top
    <3>2. \A c \in hers : parent[c] # x
      BY <1>1, <2>2, <3>1
    <3>3. Replies(x)' = Replies(x)
      BY <1>1, <1>3, <2>2, <3>2 DEF Replies
    <3> QED BY <3>1, <3>3
  <2> QED BY <1>1, <2>1, <2>2 DEF CountsExplained
<1>10. FlagsCounted'
  <2>1. ASSUME NEW x \in Here' \ washed'
        PROVE  /\ x \in Here \ washed /\ FlagsOf(x)' = FlagsOf(x)
               /\ flagsCount'[x] = flagsCount[x]
    <3>1. x \in Here \ washed /\ x \notin dead /\ p \notin FlagsOf(x)
      BY <1>1, <1>3 DEF Here
    <3>2. FlagsOf(x)' = FlagsOf(x)
      BY <1>1, <3>1 DEF FlagsOf
    <3> QED BY <1>1, <3>1, <3>2
  <2>2. \A d \in Threads : At(d, "dismiss")' => thread'[d] = thread[d]
    BY <1>1
  <2>3. used \subseteq used'
    BY <1>1
  <2> QED BY <2>1, <2>2, <2>3, FlagsLeft
<1>11. ReportsCounted'
  <2>1. /\ rushed \subseteq rushed' /\ today' \in [People -> Nat]
        /\ \A x \in People \ rushed' : today'[x] <= today[x]
        /\ \A d \in Threads : At(d, "report")' => thread'[d] = thread[d]
    BY <1>1 DEF CommentsTypeOK
  <2> QED BY <2>1, ReportsLeft
<1> QED BY <1>7, <1>8, <1>9, <1>10, <1>11

\* The flags of one comment change; a dismissal of them that is under way will
\* not have seen it.
LEMMA FlagsChange ==
  ASSUME CommentsInv, NEW c \in used, acts' \in 0..MaxActs,
         UNCHANGED <<open, rows, likes, likesCount, repliesCount, commentsCount, people, reports,
                     thread, drifted, adrift, slipped, rushed>>,
         washed' = IF \E d \in Threads : Dismissing(d, c) THEN washed \cup {c} ELSE washed,
         flags' \subseteq Notes \X People, flagsCount' \in [Notes -> Int],
         \A x \in Notes \ {c} : FlagsOf(x)' = FlagsOf(x) /\ flagsCount'[x] = flagsCount[x],
         FlagsTold(c) => FlagsTold(c)'
  PROVE  CommentsInv'
<1> USE DEF CommentsInv
<1>1. UNCHANGED <<open, author, parent, used, likes, likesCount, repliesCount, commentsCount,
                  blocks, gone, report, today, thread, drifted, adrift, slipped, rushed>>
  BY DEF rows, people, reports
<1>2. washed \subseteq washed' /\ washed' \subseteq Notes /\ c \in Notes
  BY DEF CommentsTypeOK
<1>3. CommentsTypeOK'
  BY <1>1, <1>2 DEF CommentsTypeOK
<1>4. Here' = Here /\ Here \subseteq Notes
  BY <1>1 DEF Here
<1>5. NotesKnown'
  BY <1>1, NotesLeft
<1>6. CountsExplained'
  BY <1>1, CountsLeft
<1>7. FlagsCounted'
  <2>1. \A d \in Threads : At(d, "dismiss")' => thread'[d].note \in used'
    BY <1>1 DEF FlagsCounted, At
  <2>2. ASSUME NEW x \in Here' \ washed'
        PROVE  /\ FlagsTold(x)'
               /\ \A d \in Threads : Dismissing(d, x)' =>
                    /\ thread'[d].cleared = FlagsOf(x)' /\ thread'[d].cleared # {}
                    /\ \A e \in Threads : Dismissing(e, x)' => e = d
    <3>1. x \in Here \ washed /\ FlagsTold(x)
      BY <1>2, <1>4 DEF FlagsCounted
    <3>2. \A d \in Threads : Dismissing(d, x)' <=> Dismissing(d, x)
      BY <1>1 DEF Dismissing, At
    <3>3. CASE x = c
      <4>1. \A d \in Threads : ~Dismissing(d, x)
        BY <2>2, <3>3
      <4> QED BY <3>1, <3>2, <3>3, <4>1
    <3>4. CASE x # c
      <4>1. FlagsOf(x)' = FlagsOf(x) /\ flagsCount'[x] = flagsCount[x]
        BY <1>4, <3>1, <3>4
      <4>2. FlagsTold(x)'
        BY <3>1, <4>1 DEF FlagsTold
      <4> QED BY <1>1, <3>1, <3>2, <4>1, <4>2 DEF FlagsCounted
    <3> QED BY <3>3, <3>4
  <2> QED BY <2>1, <2>2 DEF FlagsCounted
<1>8. ReportsCounted'
  <2>1. /\ rushed \subseteq rushed' /\ today' \in [People -> Nat]
        /\ \A x \in People \ rushed' : today'[x] <= today[x]
        /\ \A d \in Threads : At(d, "report")' => thread'[d] = thread[d]
    BY <1>1 DEF CommentsTypeOK
  <2> QED BY <2>1, ReportsLeft
<1> QED BY <1>3, <1>5, <1>6, <1>7, <1>8

LEMMA FlagKeeps ==
  ASSUME CommentsInv, NEW p \in People, NEW c \in Notes, Flag(p, c)
  PROVE  CommentsInv'
<1> USE DEF CommentsInv
<1>1. /\ c \in Here /\ <<c, p>> \notin flags
      /\ flags' = flags \cup {<<c, p>>} /\ flagsCount' = [flagsCount EXCEPT ![c] = @ + 1]
      /\ washed' = IF \E d \in Threads : Dismissing(d, c) THEN washed \cup {c} ELSE washed
      /\ UNCHANGED <<open, rows, likes, likesCount, repliesCount, commentsCount, people, reports,
                     thread, drifted, adrift, slipped, rushed>>
  BY DEF Flag, Dismissing
<1>2. acts' \in 0..MaxActs
  BY CommentsAssumption DEF Flag, Act, CommentsTypeOK
<1>3. flagsCount \in [Notes -> Int] /\ c \in used
  BY <1>1 DEF CommentsTypeOK, NotesKnown
<1>4. /\ flagsCount' \in [Notes -> Int] /\ flagsCount'[c] = flagsCount[c] + 1
      /\ \A x \in Notes \ {c} : flagsCount'[x] = flagsCount[x]
  BY <1>1, <1>3
<1>5. flags' \subseteq Notes \X People
  BY <1>1 DEF CommentsTypeOK
<1>6. \A x \in Notes \ {c} : FlagsOf(x)' = FlagsOf(x)
  BY <1>1 DEF FlagsOf
<1>7. FlagsOf(c)' = FlagsOf(c) \cup {p} /\ p \notin FlagsOf(c)
  BY <1>1 DEF FlagsOf
<1>8. ASSUME FlagsTold(c) PROVE FlagsTold(c)'
  <2>1. /\ IsFiniteSet(FlagsOf(c) \cup {p})
        /\ Cardinality(FlagsOf(c) \cup {p}) = Cardinality(FlagsOf(c)) + 1
    BY <1>7, <1>8, CountIn DEF FlagsTold
  <2> QED BY <1>4, <1>7, <1>8, <2>1 DEF FlagsTold
<1> QED BY <1>1, <1>2, <1>3, <1>4, <1>5, <1>6, <1>8, FlagsChange

LEMMA UnflagKeeps ==
  ASSUME CommentsInv, NEW p \in People, NEW c \in Notes, Unflag(p, c)
  PROVE  CommentsInv'
<1> USE DEF CommentsInv
<1>1. /\ <<c, p>> \in flags
      /\ flags' = flags \ {<<c, p>>} /\ flagsCount' = [flagsCount EXCEPT ![c] = @ - 1]
      /\ washed' = IF \E d \in Threads : Dismissing(d, c) THEN washed \cup {c} ELSE washed
      /\ UNCHANGED <<open, rows, likes, likesCount, repliesCount, commentsCount, people, reports,
                     thread, drifted, adrift, slipped, rushed>>
  BY DEF Unflag, Dismissing
<1>2. acts' \in 0..MaxActs
  BY CommentsAssumption DEF Unflag, Act, CommentsTypeOK
<1>3. flagsCount \in [Notes -> Int] /\ c \in used
  BY <1>1 DEF CommentsTypeOK, NotesKnown, FlagsOf
<1>4. /\ flagsCount' \in [Notes -> Int] /\ flagsCount'[c] = flagsCount[c] - 1
      /\ \A x \in Notes \ {c} : flagsCount'[x] = flagsCount[x]
  BY <1>1, <1>3
<1>5. flags' \subseteq Notes \X People
  BY <1>1 DEF CommentsTypeOK
<1>6. \A x \in Notes \ {c} : FlagsOf(x)' = FlagsOf(x)
  BY <1>1 DEF FlagsOf
<1>7. FlagsOf(c)' = FlagsOf(c) \ {p} /\ p \in FlagsOf(c)
  BY <1>1 DEF FlagsOf
<1>8. ASSUME FlagsTold(c) PROVE FlagsTold(c)'
  <2>1. /\ IsFiniteSet(FlagsOf(c) \ {p})
        /\ Cardinality(FlagsOf(c) \ {p}) = Cardinality(FlagsOf(c)) - 1
    BY <1>7, <1>8, CountOut DEF FlagsTold
  <2> QED BY <1>4, <1>7, <1>8, <2>1 DEF FlagsTold
<1> QED BY <1>1, <1>2, <1>3, <1>4, <1>5, <1>6, <1>8, FlagsChange

\* What the steps of a dismissal leave alone, of the invariant too.
LEMMA DismissalLeaves ==
  ASSUME CommentsInv, CommentsTypeOK',
         UNCHANGED <<rows, repliesCount, commentsCount, today, drifted, adrift, washed, rushed>>,
         \A c \in Notes \ used : flagsCount'[c] = flagsCount[c] /\ FlagsOf(c)' = FlagsOf(c),
         \A e \in Threads : At(e, "report")' => thread'[e] = thread[e]
  PROVE  NotesKnown' /\ CountsExplained' /\ ReportsCounted'
<1> USE DEF CommentsInv
<1>0. UNCHANGED <<author, parent, used>>
  BY DEF rows
<1>1. NotesKnown'
  BY <1>0, NotesLeft
<1>2. CountsExplained'
  BY <1>0, CountsLeft
<1>3. /\ rushed \subseteq rushed' /\ today' \in [People -> Nat]
      /\ \A x \in People \ rushed' : today'[x] <= today[x]
  BY DEF CommentsTypeOK
<1>4. ReportsCounted'
  BY <1>3, ReportsLeft
<1> QED BY <1>1, <1>2, <1>4

\* The flags that are there are taken note of; nobody else has done so.
LEMMA DismissKeeps ==
  ASSUME CommentsInv, NEW d \in Threads, NEW c \in Notes, Dismiss(d, c)
  PROVE  CommentsInv'
<1> USE DEF CommentsInv
<1>1. /\ c \in Here /\ FlagsOf(c) # {} /\ At(d, "free") /\ Act
      /\ \A q \in FlagsOf(c) : ~Dismissed(c, q)
      /\ Take(d, [pc |-> "dismiss", note |-> c, cleared |-> FlagsOf(c)])
  BY DEF Dismiss, Ask
<1>2. UNCHANGED <<open, author, parent, used, likes, flags, likesCount, repliesCount, flagsCount,
                  commentsCount, blocks, gone, report, today, drifted, adrift, washed, slipped, rushed>>
  BY DEF Dismiss, rows, tallies, people, reports, notes
<1>3. [pc |-> "dismiss", note |-> c, cleared |-> FlagsOf(c)] \in Job
  <2>1. FlagsOf(c) \in SUBSET People
    BY DEF FlagsOf
  <2> QED BY <2>1, ThreadJobs
<1>4. /\ thread' \in [Threads -> Job]
      /\ \A e \in Threads : thread'[e] = IF e = d THEN [pc |-> "dismiss", note |-> c, cleared |-> FlagsOf(c)]
                                         ELSE thread[e]
  BY <1>1, <1>3, ThreadSet
<1>5. acts' \in 0..MaxActs
  BY <1>1, CommentsAssumption DEF Act, CommentsTypeOK
<1>6. CommentsTypeOK'
  BY <1>2, <1>4, <1>5 DEF CommentsTypeOK
<1>7. NotesKnown' /\ CountsExplained' /\ ReportsCounted'
  <2>1. UNCHANGED rows
    BY <1>2 DEF rows
  <2>2. \A x \in Notes : FlagsOf(x)' = FlagsOf(x)
    BY <1>2 DEF FlagsOf
  <2>3. \A e \in Threads : At(e, "report")' => thread'[e] = thread[e]
    BY <1>4 DEF At
  <2> QED BY <1>2, <1>6, <2>1, <2>2, <2>3, DismissalLeaves
<1>8. Here' = Here /\ c \in used
  BY <1>1, <1>2 DEF Here, NotesKnown
<1>9. FlagsCounted'
  <2>1. \A e \in Threads : At(e, "dismiss")' => thread'[e].note \in used'
    BY <1>2, <1>4, <1>8 DEF FlagsCounted, At
  <2>2. ASSUME NEW x \in Here' \ washed'
        PROVE  /\ FlagsTold(x)'
               /\ \A e \in Threads : Dismissing(e, x)' =>
                    /\ thread'[e].cleared = FlagsOf(x)' /\ thread'[e].cleared # {}
                    /\ \A g \in Threads : Dismissing(g, x)' => g = e
    <3>1. /\ x \in Here \ washed /\ FlagsTold(x)
          /\ \A e \in Threads : Dismissing(e, x) =>
               /\ thread[e].cleared = FlagsOf(x) /\ thread[e].cleared # {}
               /\ \A g \in Threads : Dismissing(g, x) => g = e
      BY <1>2, <1>8 DEF FlagsCounted
    <3>2. FlagsOf(x)' = FlagsOf(x) /\ FlagsTold(x)'
      BY <1>2, <3>1 DEF FlagsTold, FlagsOf
    <3>3. CASE x = c
      <4>1. \A e \in Threads : ~Dismissing(e, c)
        BY <1>1, <3>1, <3>3 DEF Dismissing, Dismissed
      <4>2. \A e \in Threads : Dismissing(e, x)' => e = d
        BY <1>4, <3>3, <4>1 DEF Dismissing, At
      <4>3. thread'[d].cleared = FlagsOf(x)
        BY <1>4, <3>3
      <4> QED BY <1>1, <3>2, <3>3, <4>2, <4>3
    <3>4. CASE x # c
      <4>1. \A e \in Threads : Dismissing(e, x)' => Dismissing(e, x) /\ thread'[e] = thread[e]
        BY <1>4, <3>4 DEF Dismissing, At
      <4> QED BY <3>1, <3>2, <4>1
    <3> QED BY <3>3, <3>4
  <2> QED BY <2>1, <2>2 DEF FlagsCounted
<1> QED BY <1>6, <1>7, <1>9

\* The flags that were there are deleted, and they are all there are.
LEMMA ZeroFlagsKeeps ==
  ASSUME CommentsInv, NEW d \in Threads, ZeroFlags(d)
  PROVE  CommentsInv'
<1> USE DEF CommentsInv
<1>0. At(d, "dismiss")
  BY DEF ZeroFlags
<1>1. PICK c \in Notes, S \in SUBSET People : c = thread[d].note /\ S = thread[d].cleared
  BY <1>0, ThreadFields
<1>2. /\ c \in Here /\ flags' = flags \ ({c} \X S) /\ flagsCount' = [flagsCount EXCEPT ![c] = 0]
      /\ Leave(d)
      /\ UNCHANGED <<open, author, parent, used, likes, likesCount, repliesCount, commentsCount,
                     blocks, gone, report, today, acts, drifted, adrift, washed, slipped, rushed>>
  BY <1>1 DEF ZeroFlags, rows, people, reports, notes
<1>3. /\ thread' \in [Threads -> Job]
      /\ \A e \in Threads : At(e, "dismiss")' => thread'[e] = thread[e] /\ e # d
      /\ \A e \in Threads : At(e, "report")' => thread'[e] = thread[e]
  BY <1>2, ThreadEnds
<1>4. /\ flagsCount' \in [Notes -> Int] /\ flagsCount'[c] = 0
      /\ \A x \in Notes \ {c} : flagsCount'[x] = flagsCount[x]
  BY <1>2 DEF CommentsTypeOK
<1>5. flags' \subseteq Notes \X People
  BY <1>2 DEF CommentsTypeOK
<1>6. CommentsTypeOK'
  BY <1>2, <1>3, <1>4, <1>5 DEF CommentsTypeOK
<1>7. /\ \A x \in Notes \ {c} : FlagsOf(x)' = FlagsOf(x)
      /\ FlagsOf(c) = S => FlagsOf(c)' = {}
  BY <1>2 DEF FlagsOf
<1>8. Here' = Here /\ c \in used
  BY <1>2 DEF Here, NotesKnown
<1>9. NotesKnown' /\ CountsExplained' /\ ReportsCounted'
  <2>1. UNCHANGED rows
    BY <1>2 DEF rows
  <2> QED BY <1>2, <1>3, <1>4, <1>6, <1>7, <1>8, <2>1, DismissalLeaves
<1>10. FlagsCounted'
  <2>1. \A e \in Threads : At(e, "dismiss")' => thread'[e].note \in used'
    BY <1>2, <1>3 DEF FlagsCounted, At
  <2>2. ASSUME NEW x \in Here' \ washed'
        PROVE  /\ FlagsTold(x)'
               /\ \A e \in Threads : Dismissing(e, x)' =>
                    /\ thread'[e].cleared = FlagsOf(x)' /\ thread'[e].cleared # {}
                    /\ \A g \in Threads : Dismissing(g, x)' => g = e
    <3>1. /\ x \in Here \ washed /\ FlagsTold(x) /\ x \in Notes
          /\ \A e \in Threads : Dismissing(e, x) =>
               /\ thread[e].cleared = FlagsOf(x) /\ thread[e].cleared # {}
               /\ \A g \in Threads : Dismissing(g, x) => g = e
      BY <1>2, <1>8 DEF FlagsCounted, Here
    <3>2. \A e \in Threads : Dismissing(e, x)' => Dismissing(e, x) /\ thread'[e] = thread[e] /\ e # d
      BY <1>3 DEF Dismissing, At
    <3>3. CASE x = c
      <4>1. Dismissing(d, c)
        BY <1>0, <1>1 DEF Dismissing
      <4>2. FlagsOf(c)' = {} /\ \A e \in Threads : ~Dismissing(e, c)'
        BY <1>1, <1>7, <3>1, <3>2, <3>3, <4>1
      <4>3. FlagsTold(c)'
        BY <1>4, <4>2, FS_EmptySet DEF FlagsTold
      <4> QED BY <3>3, <4>2, <4>3
    <3>4. CASE x # c
      <4>1. FlagsOf(x)' = FlagsOf(x) /\ flagsCount'[x] = flagsCount[x]
        BY <1>4, <1>7, <3>1, <3>4
      <4>2. FlagsTold(x)'
        BY <3>1, <4>1 DEF FlagsTold
      <4> QED BY <3>1, <3>2, <4>1, <4>2
    <3> QED BY <3>3, <3>4
  <2> QED BY <2>1, <2>2 DEF FlagsCounted
<1> QED BY <1>6, <1>9, <1>10

\* What the steps of a report leave alone, of the invariant too.
LEMMA ReportLeaves ==
  ASSUME CommentsInv, CommentsTypeOK',
         UNCHANGED <<rows, flags, tallies, drifted, adrift, washed>>,
         \A e \in Threads : At(e, "dismiss")' => thread'[e] = thread[e]
  PROVE  NotesKnown' /\ CountsExplained' /\ FlagsCounted'
<1> USE DEF CommentsInv
<1>0. UNCHANGED <<author, parent, used, flags, repliesCount, flagsCount, commentsCount>>
  BY DEF rows, tallies
<1>1. \A c \in Notes : FlagsOf(c)' = FlagsOf(c)
  BY <1>0 DEF FlagsOf
<1>2. Here' = Here /\ Here \subseteq Notes
  BY <1>0 DEF Here
<1>3. NotesKnown'
  BY <1>0, <1>1, NotesLeft
<1>4. CountsExplained'
  BY <1>0, CountsLeft
<1>5. FlagsCounted'
  BY <1>0, <1>1, <1>2, FlagsLeft
<1> QED BY <1>3, <1>4, <1>5

\* The cap is looked at; who is here twice is known for it.
LEMMA EnsureReportableKeeps ==
  ASSUME CommentsInv, NEW d \in Threads, NEW p \in People, NEW c \in Notes,
         EnsureReportable(d, p, c)
  PROVE  CommentsInv'
<1> USE DEF CommentsInv
<1>1. /\ At(d, "free") /\ Act /\ today[p] < DailyCap
      /\ rushed' = IF \E e \in Threads : Reporting(e, p) THEN rushed \cup {p} ELSE rushed
      /\ Take(d, [pc |-> "report", by |-> p, note |-> c])
      /\ UNCHANGED <<open, rows, likes, flags, tallies, blocks, gone, report, today, drifted, adrift,
                     washed, slipped>>
  BY DEF EnsureReportable, Ask, Reporting, people, reports
<1>2. [pc |-> "report", by |-> p, note |-> c] \in Job
  BY ThreadJobs
<1>3. /\ thread' \in [Threads -> Job]
      /\ \A e \in Threads : thread'[e] = IF e = d THEN [pc |-> "report", by |-> p, note |-> c]
                                         ELSE thread[e]
  BY <1>1, <1>2, ThreadSet
<1>4. CommentsTypeOK'
  <2>1. acts' \in 0..MaxActs
    BY <1>1, CommentsAssumption DEF Act, CommentsTypeOK
  <2>2. rushed' \subseteq People
    BY <1>1 DEF CommentsTypeOK
  <2> QED BY <1>1, <1>3, <2>1, <2>2 DEF CommentsTypeOK, rows, tallies
<1>5. NotesKnown' /\ CountsExplained' /\ FlagsCounted'
  <2>1. \A e \in Threads : At(e, "dismiss")' => thread'[e] = thread[e]
    BY <1>3 DEF At
  <2> QED BY <1>1, <1>4, <2>1, ReportLeaves
<1>6. ReportsCounted'
  <2> SUFFICES ASSUME NEW q \in People \ rushed'
               PROVE  /\ today'[q] <= DailyCap
                      /\ \A e \in Threads : Reporting(e, q)' =>
                           /\ today'[q] < DailyCap
                           /\ \A g \in Threads : Reporting(g, q)' => g = e
    BY DEF ReportsCounted
  <2>1. /\ today'[q] = today[q] /\ today[q] <= DailyCap
        /\ \A e \in Threads : Reporting(e, q) =>
             today[q] < DailyCap /\ \A g \in Threads : Reporting(g, q) => g = e
    BY <1>1 DEF ReportsCounted
  <2>2. CASE q = p
    <3>1. \A e \in Threads : ~Reporting(e, p)
      BY <1>1, <2>2
    <3>2. \A e \in Threads : Reporting(e, p)' => e = d
      BY <1>3, <3>1 DEF Reporting, At
    <3> QED BY <1>1, <2>1, <2>2, <3>2
  <2>3. CASE q # p
    <3>1. \A e \in Threads : Reporting(e, q)' => Reporting(e, q)
      BY <1>3, <2>3 DEF Reporting, At
    <3> QED BY <2>1, <3>1
  <2> QED BY <2>2, <2>3
<1> QED BY <1>4, <1>5, <1>6

\* The report is filed: there was room for it.
LEMMA FileKeeps ==
  ASSUME CommentsInv, NEW d \in Threads, File(d)
  PROVE  CommentsInv'
<1> USE DEF CommentsInv
<1>0. At(d, "report")
  BY DEF File
<1>1. PICK p \in People, c \in Notes : p = thread[d].by /\ c = thread[d].note
  BY <1>0, ThreadFields
<1>2. /\ report' = [report EXCEPT ![p][c] = "open"] /\ today' = [today EXCEPT ![p] = @ + 1]
      /\ Leave(d)
      /\ UNCHANGED <<open, rows, likes, flags, tallies, blocks, gone, acts, drifted, adrift, washed,
                     slipped, rushed>>
  BY <1>1 DEF File, people, notes
<1>3. /\ thread' \in [Threads -> Job]
      /\ \A e \in Threads : At(e, "dismiss")' => thread'[e] = thread[e]
      /\ \A e \in Threads : At(e, "report")' => thread'[e] = thread[e] /\ e # d
  BY <1>2, ThreadEnds
<1>4. report' \in [People -> [Notes -> ReportStatus]]
  BY <1>2 DEF CommentsTypeOK, ReportStatus
<1>5. /\ today' \in [People -> Nat] /\ today[p] \in Nat
      /\ \A q \in People : today'[q] = IF q = p THEN today[q] + 1 ELSE today[q]
  BY <1>2 DEF CommentsTypeOK
<1>6. CommentsTypeOK'
  BY <1>2, <1>3, <1>4, <1>5 DEF CommentsTypeOK, rows, tallies
<1>7. NotesKnown' /\ CountsExplained' /\ FlagsCounted'
  BY <1>2, <1>3, <1>6, ReportLeaves
<1>8. ReportsCounted'
  <2> SUFFICES ASSUME NEW q \in People \ rushed'
               PROVE  /\ today'[q] <= DailyCap
                      /\ \A e \in Threads : Reporting(e, q)' =>
                           /\ today'[q] < DailyCap
                           /\ \A g \in Threads : Reporting(g, q)' => g = e
    BY DEF ReportsCounted
  <2>1. /\ today[q] <= DailyCap
        /\ \A e \in Threads : Reporting(e, q) =>
             today[q] < DailyCap /\ \A g \in Threads : Reporting(g, q) => g = e
    BY <1>2 DEF ReportsCounted
  <2>2. \A e \in Threads : Reporting(e, q)' => Reporting(e, q) /\ e # d
    BY <1>3 DEF Reporting, At
  <2>3. CASE q = p
    <3>1. Reporting(d, p)
      BY <1>0, <1>1 DEF Reporting
    <3>2. today[p] < DailyCap /\ \A e \in Threads : ~Reporting(e, p)'
      BY <2>1, <2>2, <2>3, <3>1
    <3>3. DailyCap \in Nat
      BY CommentsAssumption
    <3>4. today'[p] <= DailyCap
      BY <1>5, <3>2, <3>3
    <3> QED BY <2>3, <3>2, <3>4
  <2>4. CASE q # p
    BY <1>5, <2>1, <2>2, <2>4
  <2> QED BY <2>3, <2>4
<1> QED BY <1>6, <1>7, <1>8

\* A request that posts or deletes is heard, or any request ends.
LEMMA AskCommentKeeps ==
  ASSUME CommentsInv, NEW d \in Threads,
         \/ \E p \in People, q \in Notes \cup {Top} : EnsureOpen(d, p, q)
         \/ \E c \in Notes : LoadForDelete(d, c)
         \/ Quit(d)
  PROVE  CommentsInv'
<1> USE DEF CommentsInv
<1>1. /\ UNCHANGED <<open, author, parent, used, likes, flags, likesCount, repliesCount, flagsCount,
                     commentsCount, blocks, gone, report, today, drifted, adrift, washed, slipped,
                     rushed>>
      /\ acts' \in 0..MaxActs
  <2>1. acts \in 0..MaxActs
    BY DEF CommentsTypeOK
  <2>2. /\ UNCHANGED <<open, rows, likes, flags, tallies, people, reports, notes>>
        /\ UNCHANGED acts \/ Act
    BY DEF EnsureOpen, LoadForDelete, Quit, Ask
  <2>3. acts' \in 0..MaxActs
    BY <2>1, <2>2, CommentsAssumption DEF Act
  <2> QED BY <2>2, <2>3 DEF rows, tallies, people, reports, notes
<1>2. /\ thread' \in [Threads -> Job]
      /\ \A e \in Threads : At(e, "dismiss")' => thread'[e] = thread[e]
      /\ \A e \in Threads : At(e, "report")' => thread'[e] = thread[e]
  <2>1. CASE \E p \in People, q \in Notes \cup {Top} : EnsureOpen(d, p, q)
    <3>1. PICK p \in People, q \in Notes \cup {Top} : EnsureOpen(d, p, q)
      BY <2>1
    <3>2. [pc |-> "post", by |-> p, to |-> q] \in Job /\ Take(d, [pc |-> "post", by |-> p, to |-> q])
      BY <3>1, ThreadJobs DEF EnsureOpen
    <3>3. /\ thread' \in [Threads -> Job]
          /\ \A e \in Threads : thread'[e] = IF e = d THEN [pc |-> "post", by |-> p, to |-> q]
                                             ELSE thread[e]
      BY <3>2, ThreadSet
    <3> QED BY <3>3 DEF At
  <2>2. CASE \E c \in Notes : LoadForDelete(d, c)
    <3>1. PICK c \in Notes : LoadForDelete(d, c)
      BY <2>2
    <3>2. repliesCount[c] \in Int
      BY DEF CommentsTypeOK
    <3>3. PICK n \in Int : n = repliesCount[c]
      BY <3>2
    <3>4. /\ [pc |-> "delete", note |-> c, replies |-> n] \in Job
          /\ Take(d, [pc |-> "delete", note |-> c, replies |-> n])
      BY <3>1, <3>3, ThreadJobs DEF LoadForDelete
    <3>5. /\ thread' \in [Threads -> Job]
          /\ \A e \in Threads : thread'[e] = IF e = d THEN [pc |-> "delete", note |-> c, replies |-> n]
                                             ELSE thread[e]
      BY <3>4, ThreadSet
    <3> QED BY <3>5 DEF At
  <2>3. CASE Quit(d)
    <3>1. Leave(d)
      BY <2>3 DEF Quit
    <3> QED BY <3>1, ThreadEnds
  <2> QED BY <2>1, <2>2, <2>3
<1>3. CommentsTypeOK'
  BY <1>1, <1>2 DEF CommentsTypeOK
<1>4. UNCHANGED <<rows, flags, repliesCount, flagsCount, commentsCount, drifted, adrift, washed,
                  rushed>>
  BY <1>1 DEF rows
<1>5. \A p \in People : today'[p] <= today[p]
  BY <1>1 DEF CommentsTypeOK
<1> QED BY <1>2, <1>3, <1>4, <1>5, ReadKeeps

\* Likes, blocks, the state of the event, and what becomes of a report.
LEMMA AsideCommentKeeps ==
  ASSUME CommentsInv,
         \/ \E p \in People, c \in Notes : Like(p, c) \/ Unlike(p, c)
         \/ \E p \in People, c \in Notes, st \in ReportStatus : Review(p, c, st)
         \/ BulkDismiss \/ NextDay
         \/ \E b \in BOOLEAN : SetOpen(b)
         \/ \E p \in People, q \in People : Block(p, q)
  PROVE  CommentsInv'
<1> USE DEF CommentsInv
<1>1. /\ UNCHANGED <<author, parent, used, flags, repliesCount, flagsCount, commentsCount, gone,
                     thread, drifted, adrift, washed, slipped, rushed>>
      /\ acts' \in 0..MaxActs
  <2>1. Act /\ acts \in 0..MaxActs
    BY DEF Like, Unlike, Review, BulkDismiss, NextDay, SetOpen, Block, CommentsTypeOK
  <2>2. acts' \in 0..MaxActs
    BY <2>1, CommentsAssumption DEF Act
  <2>3. UNCHANGED <<rows, flags, repliesCount, flagsCount, commentsCount, gone, thread, notes>>
    BY DEF Like, Unlike, Review, BulkDismiss, NextDay, SetOpen, Block, tallies, people
  <2> QED BY <2>2, <2>3 DEF rows, notes
<1>2. CommentsTypeOK'
  <2>1. CASE \E p \in People, c \in Notes : Like(p, c) \/ Unlike(p, c)
    <3>1. PICK p \in People, c \in Notes : Like(p, c) \/ Unlike(p, c)
      BY <2>1
    <3>2. UNCHANGED <<open, blocks, report, today>>
      BY <3>1 DEF Like, Unlike, people, reports
    <3>3. likes' \subseteq Notes \X People
      BY <3>1 DEF Like, Unlike, CommentsTypeOK
    <3>4. likesCount' \in [Notes -> Int]
      BY <3>1 DEF Like, Unlike, CommentsTypeOK
    <3> QED BY <1>1, <3>2, <3>3, <3>4 DEF CommentsTypeOK
  <2>2. CASE \E p \in People, c \in Notes, st \in ReportStatus : Review(p, c, st)
    <3>1. PICK p \in People, c \in Notes, st \in ReportStatus : Review(p, c, st)
      BY <2>2
    <3>2. /\ UNCHANGED <<open, blocks, likes, likesCount, today>>
          /\ report' = [report EXCEPT ![p][c] = st]
      BY <3>1 DEF Review, people, tallies
    <3>3. report' \in [People -> [Notes -> ReportStatus]]
      BY <3>2 DEF CommentsTypeOK
    <3> QED BY <1>1, <3>2, <3>3 DEF CommentsTypeOK
  <2>3. CASE BulkDismiss
    <3>1. UNCHANGED <<open, blocks, likes, likesCount, today>>
      BY <2>3 DEF BulkDismiss, people, tallies
    <3>2. report' \in [People -> [Notes -> ReportStatus]]
      BY <2>3 DEF BulkDismiss, CommentsTypeOK, ReportStatus
    <3> QED BY <1>1, <3>1, <3>2 DEF CommentsTypeOK
  <2>4. CASE NextDay
    <3>1. UNCHANGED <<open, blocks, likes, likesCount, report>> /\ today' = [p \in People |-> 0]
      BY <2>4 DEF NextDay, people, tallies
    <3> QED BY <1>1, <3>1 DEF CommentsTypeOK
  <2>5. CASE \E b \in BOOLEAN : SetOpen(b)
    <3>1. UNCHANGED <<blocks, likes, likesCount, report, today>> /\ open' \in BOOLEAN
      BY <2>5 DEF SetOpen, people, tallies, reports
    <3> QED BY <1>1, <3>1 DEF CommentsTypeOK
  <2>6. CASE \E p \in People, q \in People : Block(p, q)
    <3>1. PICK p \in People, q \in People : Block(p, q)
      BY <2>6
    <3>2. UNCHANGED <<open, likes, likesCount, report, today>> /\ blocks' = blocks \cup {<<p, q>>}
      BY <3>1 DEF Block, tallies, reports
    <3> QED BY <1>1, <3>2 DEF CommentsTypeOK
  <2> QED BY <2>1, <2>2, <2>3, <2>4, <2>5, <2>6
<1>3. \A p \in People : today'[p] <= today[p]
  <2>1. \A p \in People : today[p] \in Nat
    BY DEF CommentsTypeOK
  <2>2. \A p \in People : today'[p] \in {0, today[p]}
    BY DEF Like, Unlike, Review, BulkDismiss, NextDay, SetOpen, Block, reports
  <2> QED BY <2>1, <2>2
<1>4. /\ \A e \in Threads : At(e, "dismiss")' => thread'[e] = thread[e]
      /\ \A e \in Threads : At(e, "report")' => thread'[e] = thread[e]
  BY <1>1
<1>5. UNCHANGED <<rows, flags, repliesCount, flagsCount, commentsCount, drifted, adrift, washed,
                  rushed>>
  BY <1>1 DEF rows
<1> QED BY <1>2, <1>3, <1>4, <1>5, ReadKeeps

\* Counts, flags and reports stay what CommentsInv says of them.
THEOREM CommentsInvariant == CommentsSpec => []CommentsInv
<1>1. CommentsInit => CommentsInv
  BY CommentsInitInv
<1>2. ASSUME CommentsInv, [CommentsNext]_commentVars PROVE CommentsInv'
  <2>1. CASE AttendeeCommentsController
    BY <1>2, <2>1, PostKeeps, DeleteKeeps, AskCommentKeeps, AsideCommentKeeps DEF AttendeeCommentsController
  <2>2. CASE ModerationController
    BY <1>2, <2>2, FlagKeeps, UnflagKeeps DEF ModerationController
  <2>3. CASE AdminCommentsController
    BY <1>2, <2>3, DismissKeeps, ZeroFlagsKeeps DEF AdminCommentsController
  <2>4. CASE ReportsController
    BY <1>2, <2>4, EnsureReportableKeeps, FileKeeps DEF ReportsController
  <2>5. CASE AdminReportsController
    BY <1>2, <2>5, ActionKeeps, AsideCommentKeeps DEF AdminReportsController
  <2>6. CASE NextDay \/ \E b \in BOOLEAN : SetOpen(b)
    BY <1>2, <2>6, AsideCommentKeeps
  <2>7. CASE \E p \in People : AccountGone(p) \/ \E q \in People : Block(p, q)
    BY <1>2, <2>7, AccountGoneKeeps, AsideCommentKeeps
  <2>8. CASE \E d \in Threads : Quit(d)
    BY <1>2, <2>8, AskCommentKeeps
  <2>9. CASE UNCHANGED commentVars
    <3>1. UNCHANGED <<open, author, parent, used, likes, flags, likesCount, repliesCount, flagsCount,
                      commentsCount, blocks, gone, report, today, thread, acts, drifted, adrift,
                      washed, slipped, rushed>>
      BY <2>9 DEF commentVars, rows, tallies, people, reports, notes
    <3>2. CommentsTypeOK'
      BY <1>2, <3>1 DEF CommentsInv, CommentsTypeOK
    <3>3. UNCHANGED <<rows, flags, repliesCount, flagsCount, commentsCount, drifted, adrift, washed,
                      rushed>>
      BY <3>1 DEF rows
    <3>4. \A p \in People : today'[p] <= today[p]
      BY <1>2, <3>1 DEF CommentsInv, CommentsTypeOK
    <3> QED BY <1>2, <3>1, <3>2, <3>3, <3>4, ReadKeeps
  <2> QED BY <1>2, <2>1, <2>2, <2>3, <2>4, <2>5, <2>6, <2>7, <2>8, <2>9 DEF CommentsNext
<1> QED BY <1>1, <1>2, PTL DEF CommentsSpec

\* CommentsService, CommentListingService and ReportsService: whatever
\* requests run side by side and wherever they are cut off, the comment and
\* reply counts are those of the rows, a flagged comment is shown to nobody and
\* one without flags is not hidden, and nobody files more reports a day than the
\* cap, but for the races and cascades that are named.
THEOREM CommentsAreExplained == CommentsSpec => []CommentsExplained
<1>1. ASSUME CommentsInv PROVE CommentsExplained
  <2>1. CountsExplained /\ ReportsCapped
    BY <1>1 DEF CommentsInv, ReportsCounted, ReportsCapped
  <2>2. FlaggedHidden
    <3> SUFFICES ASSUME NEW c \in Here \ washed
                 PROVE  IF FlagsOf(c) = {} THEN flagsCount[c] = 0
                        ELSE \A v \in People : c \notin Shown(v)
      BY DEF FlaggedHidden
    <3>1. IsFiniteSet(FlagsOf(c)) /\ flagsCount[c] = Cardinality(FlagsOf(c))
      BY <1>1 DEF CommentsInv, FlagsCounted, FlagsTold
    <3>2. CASE FlagsOf(c) = {}
      BY <3>1, <3>2, FS_EmptySet
    <3>3. CASE FlagsOf(c) # {}
      <4>1. flagsCount[c] # 0
        BY <3>1, <3>3, FS_EmptySet
      <4>2. ASSUME NEW v \in People PROVE c \notin Shown(v)
        <5>1. c \notin TopLevel(v)
          BY <4>1 DEF TopLevel
        <5>2. \A q \in Here : c \notin RepliesShown(v, q)
          BY <4>1 DEF RepliesShown
        <5> QED BY <5>1, <5>2 DEF Shown
      <4> QED BY <3>3, <4>2
    <3> QED BY <3>2, <3>3
  <2> QED BY <2>1, <2>2 DEF CommentsExplained
<1> QED BY <1>1, CommentsInvariant, PTL

----------------------------------------------------------------------------
(* Payout accounts *)

\* Who takes payout n to the provider.
Sender(c, n) == clerk[c].pc \in {"load", "send"} /\ clerk[c].payout = n

\* Rows and requests name what was there: a bank account where there is a row,
\* a row that was written, a payout that was requested; and time goes on.
NamesOK ==
  /\ account.id # 0 => account.bank \in Banks
  /\ \A c \in Clerks :
       /\ clerk[c].pc = "look" => clerk[c].bank \in Banks
       /\ c \in Requesting => clerk[c].id \in 1..accountNo
       /\ clerk[c].pc \in {"load", "send"} => clerk[c].payout \in DOMAIN payout
  /\ \A n \in DOMAIN payout :
       /\ payout[n].requestedAt <= hour
       /\ payout[n].state = "failed" =>
            payout[n].requestedAt <= payout[n].failedAt /\ payout[n].failedAt <= hour

\* A payout that was sent once is taken to the provider by one clerk, and waits
\* until then.
SendersOK ==
  \A n \in DOMAIN payout \ (crossed \cap hurried), c \in Clerks : Sender(c, n) =>
    payout[n].state = "waiting" /\ \A d \in Clerks : Sender(d, n) => d = c

\* A payout that waits is for the account as it is, and nobody edits that.
DestinationOK ==
  /\ \A n \in DOMAIN payout \ crossed :
       /\ payout[n].state = "waiting" =>
            /\ Editing = {} /\ account.id # 0
            /\ payout[n].link = account.id /\ payout[n].bank = account.bank
       /\ \A c \in Clerks : clerk[c].pc = "send" /\ clerk[c].payout = n =>
            clerk[c].bank = payout[n].bank
  /\ \A c \in Requesting : ~clerk[c].late /\ clerk[c].id = account.id =>
       clerk[c].bank = account.bank

\* The row says when its details became others, unless that was forgotten.
ChangeKnown ==
  /\ moved # Never => moved <= hour /\ accountNo # 0
  /\ moved # Never /\ ~renewed /\ account.id # 0 =>
       account.changed # Never /\ account.changed >= moved

Waiting(n) == SumOver(Waits, 1..n)
AllFailed(n, m) == \A k \in n..m : payout[k].state = "failed" /\ k \notin hurried

\* A payout that was requested in order found the others settled, and one that
\* is being requested has waited long enough.
OrderOK ==
  /\ \A m \in DOMAIN payout \ hurried, n \in InFlight : n < m => n \in hurried
  /\ Len(payout) + 1 \in Seqs \ hurried =>
       \A c \in Clerks : clerk[c].pc \in {"lock", "insert"} =>
         /\ InFlight \subseteq hurried
         /\ \A n \in DOMAIN payout : AllFailed(n, Len(payout)) =>
              hour - payout[n].requestedAt >= Waiting(Len(payout) + 1 - n)

\* FailuresSpaced, with names for what it says.
Spaced ==
  \A n, m \in DOMAIN payout \ hurried : n < m /\ AllFailed(n, m - 1) =>
    payout[m].requestedAt - payout[n].requestedAt >= Waiting(m - n)

PayoutAccountsInv ==
  /\ PayoutAccountsTypeOK /\ NamesOK /\ SendersOK /\ DestinationOK /\ SentAsShown
  /\ ChangeKnown /\ SettledFirst /\ OrderOK /\ Spaced

----------------------------------------------------------------------------
(* How long one waits *)

\* A set of numbers with 0 and with the next of each is all of them.
LEMMA NatClosed ==
  ASSUME NEW A \in SUBSET Nat, 0 \in A, \A n \in A : n + 1 \in A
  PROVE  A = Nat
<1> SUFFICES ASSUME NEW n \in Nat, n \notin A PROVE FALSE
  OBVIOUS
<1> DEFINE S == {k \in 0..n : k \notin A}
           v == [k \in S |-> k]
<1>1. IsFiniteSet(S) /\ S # {} /\ \A k \in S : v[k] = k /\ v[k] \in Int
  <2>1. IsFiniteSet(0..n)
    BY FS_Interval
  <2> QED BY <2>1, FS_Subset
<1> HIDE DEF v
<1>2. PICK m \in S : \A k \in S : v[m] <= v[k]
  <2> HIDE DEF S
  <2> QED BY <1>1, LeastValue
<1>3. m # 0 /\ m - 1 \in 0..n /\ m - 1 \notin S
  BY <1>1, <1>2
<1>4. m - 1 \in A
  BY <1>3
<1> QED BY <1>2, <1>3, <1>4

\* The doublings up to N.
IsDoubled(h, N) == h = [n \in 0..N |-> IF n = 0 THEN 1 ELSE 2 * h[n - 1]]

LEMMA DoubledUnique ==
  ASSUME NEW N \in Nat, NEW g, NEW h, IsDoubled(g, N), IsDoubled(h, N)
  PROVE  g = h
<1> DEFINE A == {n \in Nat : n <= N => g[n] = h[n]}
<1>1. 0 \in A
  BY DEF IsDoubled
<1>2. ASSUME NEW n \in A PROVE n + 1 \in A
  <2>1. CASE n + 1 <= N
    <3>1. g[n] = h[n] /\ n + 1 \in 0..N /\ n + 1 # 0 /\ (n + 1) - 1 = n
      BY <1>2, <2>1
    <3>2. g[n + 1] = 2 * g[n] /\ h[n + 1] = 2 * h[n]
      BY <3>1 DEF IsDoubled
    <3> QED BY <3>1, <3>2
  <2> QED BY <2>1
<1>3. A = Nat
  <2> HIDE DEF A
  <2>1. A \in SUBSET Nat
    BY DEF A
  <2> QED BY <1>1, <1>2, <2>1, NatClosed
<1>4. \A n \in 0..N : g[n] = h[n]
  BY <1>3
<1> QED BY <1>4 DEF IsDoubled

LEMMA DoubledUpTo == \A N \in Nat : \E h : IsDoubled(h, N)
<1> DEFINE A == {N \in Nat : \E h : IsDoubled(h, N)}
<1>1. 0 \in A
  <2> DEFINE h == [n \in 0..0 |-> 1]
  <2>1. IsDoubled(h, 0)
    BY DEF IsDoubled
  <2> QED BY <2>1
<1>2. ASSUME NEW N \in A PROVE N + 1 \in A
  <2>1. PICK h : IsDoubled(h, N)
    OBVIOUS
  <2> DEFINE g == [n \in 0..(N + 1) |-> IF n = N + 1 THEN 2 * h[N] ELSE h[n]]
  <2>2. \A n \in 0..(N + 1) : g[n] = IF n = 0 THEN 1 ELSE 2 * g[n - 1]
    BY <2>1 DEF IsDoubled
  <2>3. IsDoubled(g, N + 1)
    BY <2>2 DEF IsDoubled
  <2> QED BY <2>3
<1>3. A = Nat
  <2> HIDE DEF A
  <2>1. A \in SUBSET Nat
    BY DEF A
  <2> QED BY <1>1, <1>2, <2>1, NatClosed
<1> QED BY <1>3

\* Doubled is what its equation says.
LEMMA DoubledIs == Doubled = [n \in Nat |-> IF n = 0 THEN 1 ELSE 2 * Doubled[n - 1]]
<1> DEFINE D(N) == CHOOSE h : IsDoubled(h, N)
           f == [n \in Nat |-> D(n)[n]]
<1>1. \A N \in Nat : IsDoubled(D(N), N)
  BY DoubledUpTo
<1>2. ASSUME NEW n \in Nat PROVE D(n + 1)[n] = D(n)[n]
  <2> DEFINE g == [k \in 0..n |-> D(n + 1)[k]]
  <2>1. IsDoubled(D(n + 1), n + 1) /\ IsDoubled(D(n), n)
    BY <1>1
  <2>2. \A k \in 0..n : g[k] = IF k = 0 THEN 1 ELSE 2 * g[k - 1]
    <3> HIDE DEF D
    <3> QED BY <2>1 DEF IsDoubled
  <2>3. IsDoubled(g, n)
    BY <2>2 DEF IsDoubled
  <2>4. g = D(n)
    <3> HIDE DEF D, g
    <3> QED BY <2>1, <2>3, DoubledUnique
  <2>5. g[n] = D(n + 1)[n]
    OBVIOUS
  <2> QED BY <2>4, <2>5
<1>3. ASSUME NEW n \in Nat PROVE f[n] = IF n = 0 THEN 1 ELSE 2 * f[n - 1]
  <2> HIDE DEF D
  <2>1. IsDoubled(D(n), n)
    BY <1>1
  <2>2. CASE n = 0
    BY <2>1, <2>2 DEF IsDoubled
  <2>3. CASE n # 0
    <3>1. n - 1 \in Nat /\ (n - 1) + 1 = n
      BY <2>3
    <3>2. D(n)[n - 1] = D(n - 1)[n - 1]
      BY <1>2, <3>1
    <3>3. D(n)[n] = 2 * D(n)[n - 1]
      BY <2>1, <2>3 DEF IsDoubled
    <3> QED BY <2>3, <3>1, <3>2, <3>3
  <2> QED BY <2>2, <2>3
<1>4. f = [n \in Nat |-> IF n = 0 THEN 1 ELSE 2 * f[n - 1]]
  <2>1. \A n \in Nat : f[n] = IF n = 0 THEN 1 ELSE 2 * f[n - 1]
    BY <1>3
  <2>2. f = [n \in Nat |-> f[n]]
    OBVIOUS
  <2> HIDE DEF f
  <2> QED BY <2>1, <2>2
<1>5. \E h : h = [n \in Nat |-> IF n = 0 THEN 1 ELSE 2 * h[n - 1]]
  <2> HIDE DEF f
  <2> QED BY <1>4
<1> QED BY <1>5 DEF Doubled

\* The doublings grow.
LEMMA DoubledGrows ==
  \A m \in Nat : Doubled[m] \in Nat /\ \A n \in 0..m : Doubled[n] <= Doubled[m]
<1> DEFINE A == {m \in Nat : /\ Doubled[m] \in Nat
                           /\ \A n \in 0..m : Doubled[n] \in Nat /\ Doubled[n] <= Doubled[m]}
<1>0. \A n \in Nat : Doubled[n] = IF n = 0 THEN 1 ELSE 2 * Doubled[n - 1]
  BY DoubledIs
<1>1. 0 \in A
  BY <1>0
<1>2. ASSUME NEW m \in A PROVE m + 1 \in A
  <2>1. /\ Doubled[m + 1] = 2 * Doubled[m] /\ Doubled[m] \in Nat
        /\ \A n \in 0..m : Doubled[n] \in Nat /\ Doubled[n] <= Doubled[m]
    BY <1>0
  <2>2. Doubled[m + 1] \in Nat /\ Doubled[m] <= Doubled[m + 1]
    BY <2>1
  <2>4. ASSUME NEW n \in 0..(m + 1) PROVE Doubled[n] \in Nat /\ Doubled[n] <= Doubled[m + 1]
    BY <2>1, <2>2
  <2> QED BY <2>2, <2>4
<1>3. A = Nat
  <2> HIDE DEF A
  <2>1. A \in SUBSET Nat
    BY DEF A
  <2> QED BY <1>1, <1>2, <2>1, NatClosed
<1> QED BY <1>3

\* The lesser of two numbers.
LEMMA MinOfTwo ==
  ASSUME NEW a \in Int, NEW b \in Int
  PROVE  Min({a, b}) = IF a <= b THEN a ELSE b
<1>1. \A x \in Int : (x \in {a, b} /\ \A y \in {a, b} : x <= y) <=> x = IF a <= b THEN a ELSE b
  OBVIOUS
<1>2. \E x \in {a, b} : \A y \in {a, b} : x <= y
  OBVIOUS
<1> QED BY <1>1, <1>2 DEF Min

\* One waits some time, and the longer the more payouts failed.
LEMMA WaitsGrow ==
  /\ \A n \in Nat \ {0} : Waits[n] \in Nat
  /\ \A n \in Nat \ {0}, m \in Nat \ {0} : n <= m => Waits[n] <= Waits[m]
<1>1. BackoffBase \in Nat /\ BackoffMax \in Nat /\ Recent \in Nat \ {0}
  BY PayoutAccountsAssumption
<1> DEFINE r(n) == IF n <= Recent THEN n ELSE Recent
           b(n) == BackoffBase * Doubled[r(n) - 1]
<1>2. ASSUME NEW n \in Nat \ {0}
      PROVE  /\ r(n) - 1 \in Nat /\ Doubled[r(n) - 1] \in Nat /\ b(n) \in Nat
             /\ Waits[n] = IF b(n) <= BackoffMax THEN b(n) ELSE BackoffMax
  <2>1. Min({n, Recent}) = r(n) /\ r(n) \in Nat \ {0}
    BY <1>1, MinOfTwo
  <2>2. r(n) - 1 \in Nat
    <3> HIDE DEF r
    <3> QED BY <2>1
  <2>3. Doubled[r(n) - 1] \in Nat
    <3> HIDE DEF r
    <3> QED BY <2>2, DoubledGrows
  <2>4. b(n) \in Nat
    <3> HIDE DEF r
    <3> QED BY <1>1, <2>3
  <2>5. Waits[n] = Min({b(n), BackoffMax})
    <3> HIDE DEF r
    <3> QED BY <2>1 DEF Waits
  <2>6. Waits[n] = IF b(n) <= BackoffMax THEN b(n) ELSE BackoffMax
    <3> HIDE DEF b
    <3> QED BY <1>1, <2>4, <2>5, MinOfTwo
  <2> QED BY <2>2, <2>3, <2>4, <2>6
<1>3. ASSUME NEW n \in Nat \ {0}, NEW m \in Nat \ {0}, n <= m PROVE b(n) <= b(m)
  <2>1. r(n) - 1 \in 0..(r(m) - 1) /\ r(m) - 1 \in Nat
    BY <1>1, <1>3
  <2> HIDE DEF r
  <2>2. Doubled[r(n) - 1] <= Doubled[r(m) - 1]
    BY <2>1, DoubledGrows
  <2>3. PICK x \in Nat, y \in Nat : x = Doubled[r(n) - 1] /\ y = Doubled[r(m) - 1]
    BY <1>2
  <2>4. \A k \in Nat : k * x <= k * y
    BY <2>2, <2>3
  <2> QED BY <1>1, <2>3, <2>4
<1> HIDE DEF b, r
<1>4. \A n \in Nat \ {0} : Waits[n] \in Nat
  BY <1>1, <1>2
<1>5. ASSUME NEW n \in Nat \ {0}, NEW m \in Nat \ {0}, n <= m PROVE Waits[n] <= Waits[m]
  BY <1>1, <1>2, <1>3, <1>5
<1> QED BY <1>4, <1>5

\* One failure more.
LEMMA WaitingStep ==
  /\ Waiting(0) = 0
  /\ \A n \in Nat : Waiting(n) \in Nat /\ Waiting(n + 1) = Waiting(n) + Waits[n + 1]
<1>1. Waiting(0) = 0
  <2>1. 1..0 = {}
    OBVIOUS
  <2> QED BY <2>1, SumEmpty DEF Waiting
<1>2. ASSUME NEW n \in Nat PROVE Waiting(n) \in Nat /\ Waiting(n + 1) = Waiting(n) + Waits[n + 1]
  <2>1. /\ IsFiniteSet(1..n) /\ n + 1 \notin 1..n /\ 1..(n + 1) = (1..n) \cup {n + 1}
        /\ \A k \in (1..n) \cup {n + 1} : Waits[k] \in Nat
    <3>1. IsFiniteSet(1..n)
      BY FS_Interval
    <3>2. \A k \in (1..n) \cup {n + 1} : k \in Nat \ {0}
      OBVIOUS
    <3> QED BY <3>1, <3>2, WaitsGrow
  <2>2. SumOver(Waits, (1..n) \cup {n + 1}) = SumOver(Waits, 1..n) + Waits[n + 1]
    <3> DEFINE S == 1..n
               y == n + 1
    <3>1. IsFiniteSet(S) /\ y \notin S /\ \A k \in S \cup {y} : Waits[k] \in Int
      BY <2>1
    <3> HIDE DEF S, y
    <3>2. SumOver(Waits, S \cup {y}) = SumOver(Waits, S) + Waits[y]
      BY <3>1, SumAdd
    <3> QED BY <3>2 DEF S, y
  <2>3. SumOver(Waits, 1..n) \in Nat
    BY <2>1, SumNat
  <2>4. SumOver(Waits, 1..(n + 1)) = SumOver(Waits, (1..n) \cup {n + 1})
    BY <2>1, Zenon
  <2> QED BY <2>2, <2>3, <2>4 DEF Waiting
<1> QED BY <1>1, <1>2

\* The greatest of some numbers up to N, and 0.
LEMMA MaxUpTo ==
  ASSUME NEW N \in Nat, NEW S \in SUBSET (1..N)
  PROVE  /\ Max({0} \cup S) \in {0} \cup S
         /\ \A x \in S : x <= Max({0} \cup S)
<1> DEFINE T == {0} \cup S
           v == [x \in T |-> 0 - x]
<1>1. IsFiniteSet(T) /\ T # {} /\ \A x \in T : x \in Int /\ v[x] = 0 - x /\ v[x] \in Int
  <2>1. IsFiniteSet(0..N) /\ T \subseteq 0..N
    <3>1. IsFiniteSet(0..N)
      BY FS_Interval
    <3> QED BY <3>1
  <2>2. IsFiniteSet(T)
    BY <2>1, FS_Subset
  <2>3. T # {} /\ \A x \in T : x \in Int /\ v[x] = 0 - x /\ v[x] \in Int
    OBVIOUS
  <2> QED BY <2>2, <2>3
<1> HIDE DEF v, T
<1>2. PICK m \in T : \A x \in T : v[m] <= v[x]
  BY <1>1, LeastValue
<1>3. \E m2 \in T : \A x \in T : m2 >= x
  BY <1>1, <1>2
<1>4. Max(T) \in T /\ \A x \in T : Max(T) >= x
  BY <1>3 DEF Max
<1>5. \A x \in T : x <= Max(T)
  BY <1>1, <1>4
<1> QED BY <1>4, <1>5 DEF T

\* What a payout says.
LEMMA RowFields ==
  ASSUME PayoutAccountsTypeOK, NEW n \in DOMAIN payout
  PROVE  /\ payout[n] \in PayoutRow /\ payout[n].requestedAt \in Nat
         /\ payout[n].failedAt \in Int /\ payout[n].bank \in Banks
<1>1. payout[n] \in PayoutRow
  BY DEF PayoutAccountsTypeOK
<1>2. LastHour \in Nat
  BY PayoutAccountsAssumption
<1> QED BY <1>1, <1>2 DEF PayoutRow

LEMMA SpacedBy == FailuresSpaced <=> Spaced
  BY DEF FailuresSpaced, Spaced, AllFailed, Waiting, SumOver

\* Whoever does not back off has waited long enough since each of the failures
\* at the end.
LEMMA BackoffRested ==
  ASSUME PayoutAccountsTypeOK, NamesOK, Spaced, ~BackingOff,
         NEW n \in DOMAIN payout, AllFailed(n, Len(payout))
  PROVE  hour - payout[n].requestedAt >= Waiting(Len(payout) + 1 - n)
<1> DEFINE good == {k \in DOMAIN payout : payout[k].state # "failed"}
           top == Max({0} \cup good)
<1>1. PICK L \in Nat : L = Len(payout) /\ DOMAIN payout = 1..L
  BY DEF PayoutAccountsTypeOK
<1>2. /\ n \in 1..L /\ L \in 1..L /\ n \in Nat \ {0}
      /\ hour \in Nat /\ payout[n].requestedAt \in Nat
      /\ payout[L].requestedAt \in Nat /\ payout[L].failedAt \in Int
  <2>1. n \in 1..L /\ L \in 1..L
    BY <1>1
  <2>2. hour \in Nat
    BY PayoutAccountsAssumption DEF PayoutAccountsTypeOK
  <2> QED BY <1>1, <2>1, <2>2, RowFields
<1>3. top \in {0} \cup good /\ good \in SUBSET (1..L)
  <2>1. good \in SUBSET (1..L)
    BY <1>1
  <2> HIDE DEF good
  <2> QED BY <1>1, <2>1, MaxUpTo
<1>4. \A k \in n..L : k \notin good
  BY <1>1 DEF AllFailed
<1>5. Consecutive = L - top
  BY <1>1 DEF Consecutive
<1> HIDE DEF top, good
<1>6. top \in Nat /\ top < n
  BY <1>1, <1>2, <1>3, <1>4
<1>7. PICK j \in Nat \ {0} : j = L + 1 - n
  BY <1>1, <1>2
<1>8. PICK c \in Nat \ {0} : c = Consecutive /\ j <= c
  <2>1. PICK t \in Nat : t = top /\ t < n
    BY <1>6
  <2>2. L - t \in Nat \ {0} /\ j <= L - t
    BY <1>1, <1>2, <1>7, <2>1
  <2> QED BY <1>5, <2>1, <2>2
<1>9. Waits[j] \in Nat /\ Waits[c] \in Nat /\ Waits[j] <= Waits[c]
  BY <1>8, WaitsGrow
<1>10. hour >= payout[L].failedAt + Waits[c]
  <2>1. ~(hour < payout[L].failedAt + Waits[c])
    BY <1>1, <1>8 DEF BackingOff
  <2> QED BY <1>2, <1>9, <2>1
<1>11. payout[L].requestedAt <= payout[L].failedAt
  <2>1. L \in DOMAIN payout /\ payout[L].state = "failed"
    BY <1>1, <1>2 DEF AllFailed
  <2> QED BY <2>1 DEF NamesOK
<1>12. /\ Waiting(L - n) \in Nat /\ Waiting(j) = Waiting(L - n) + Waits[j]
       /\ L - n \in Nat /\ Waiting(0) = 0
  <2>1. L - n \in Nat /\ (L - n) + 1 = j
    BY <1>1, <1>2, <1>7
  <2> QED BY <2>1, WaitingStep
<1>13. payout[L].requestedAt - payout[n].requestedAt >= Waiting(L - n)
  <2>1. CASE n = L
    <3>1. L - n = 0 /\ payout[L].requestedAt - payout[n].requestedAt = 0
      BY <1>2, <2>1
    <3> QED BY <1>12, <3>1
  <2>2. CASE n # L
    <3>1. /\ n \in DOMAIN payout \ hurried /\ L \in DOMAIN payout \ hurried
          /\ n < L /\ AllFailed(n, L - 1)
      BY <1>1, <1>2, <2>2 DEF AllFailed
    <3> QED BY <3>1 DEF Spaced
  <2> QED BY <2>1, <2>2
<1>14. hour - payout[n].requestedAt >= Waiting(j)
  <2>1. PICK a \in Nat, b \in Nat, f \in Int, h \in Nat :
          a = payout[n].requestedAt /\ b = payout[L].requestedAt /\ f = payout[L].failedAt /\ h = hour
    BY <1>2
  <2>2. PICK w \in Nat, v \in Nat, x \in Nat : w = Waits[j] /\ v = Waits[c] /\ x = Waiting(L - n)
    BY <1>9, <1>12
  <2>3. h >= f + v /\ b <= f /\ b - a >= x /\ w <= v
    BY <1>9, <1>10, <1>11, <1>13, <2>1, <2>2
  <2>4. h - a >= x + w
    BY <2>3
  <2> QED BY <1>12, <2>1, <2>2, <2>4
<1> QED BY <1>1, <1>7, <1>14

----------------------------------------------------------------------------
(* The clerks *)

\* What a request carries.
LEMMA ClerkFields ==
  ASSUME PayoutAccountsTypeOK, NEW c \in Clerks
  PROVE  /\ clerk[c].pc \in {"look", "delete"} => clerk[c].bank \in AnyBank
         /\ clerk[c].pc \in {"resolve", "write"} =>
              clerk[c].bank \in Banks /\ clerk[c].existing \in AnyBank
         /\ c \in Requesting =>
              clerk[c].id \in Nat /\ clerk[c].bank \in Banks /\ clerk[c].late \in BOOLEAN
         /\ clerk[c].pc \in {"load", "send"} => clerk[c].payout \in Seqs
         /\ clerk[c].pc = "send" => clerk[c].bank \in AnyBank
  BY DEF PayoutAccountsTypeOK, Counter, Idle, Requesting

\* The requests there are.
LEMMA ClerkJobs ==
  /\ Idle \in Counter
  /\ \A b \in AnyBank, pc \in {"look", "delete"} : [pc |-> pc, bank |-> b] \in Counter
  /\ \A b \in Banks, x \in AnyBank, pc \in {"resolve", "write"} :
       [pc |-> pc, bank |-> b, existing |-> x] \in Counter
  /\ \A i \in Nat, b \in Banks, l \in BOOLEAN, pc \in {"backoff", "lock", "insert"} :
       [pc |-> pc, id |-> i, bank |-> b, late |-> l] \in Counter
  /\ \A n \in Seqs : [pc |-> "load", payout |-> n] \in Counter
  /\ \A n \in Seqs, b \in AnyBank : [pc |-> "send", payout |-> n, bank |-> b] \in Counter
  BY DEF Counter

\* One clerk goes on, the others are where they were.
LEMMA ClerkSet ==
  ASSUME PayoutAccountsTypeOK, NEW c \in Clerks, NEW e \in Counter, Goes(c, e)
  PROVE  /\ clerk' \in [Clerks -> Counter]
         /\ \A d \in Clerks : clerk'[d] = IF d = c THEN e ELSE clerk[d]
  BY DEF PayoutAccountsTypeOK, Goes

\* What the next step of a request must not claim falsely: the account it is
\* for, the time it waited, the payout it takes along.
StepOK(c, e) ==
  /\ e.pc = "look" => e.bank \in Banks
  /\ e.pc \in {"look", "resolve", "write", "delete"} => c \in Editing \/ InFlight = {}
  /\ e.pc \in {"backoff", "lock", "insert"} =>
       /\ e.id \in 1..accountNo
       /\ ~e.late /\ e.id = account.id => e.bank = account.bank
       /\ moved # Never /\ ~renewed /\ ~e.late => hour >= moved + Cooldown
  /\ e.pc \in {"load", "send"} =>
       /\ e.payout \in DOMAIN payout
       /\ e.payout \notin crossed' \cap hurried' =>
            /\ payout[e.payout].state = "waiting"
            /\ \A d \in Clerks : Sender(d, e.payout) => d = c
  /\ e.pc = "send" =>
       (e.payout \notin crossed' => e.bank = payout[e.payout].bank)
  /\ e.pc \in {"lock", "insert"} =>
       (Len(payout) + 1 \in Seqs \ hurried' =>
          /\ InFlight \subseteq hurried'
          /\ \A n \in DOMAIN payout : AllFailed(n, Len(payout)) =>
               hour - payout[n].requestedAt >= Waiting(Len(payout) + 1 - n))

\* A step that changes no row.
LEMMA ClerkStep ==
  ASSUME PayoutAccountsInv, NEW c \in Clerks, NEW e \in Counter, Goes(c, e), StepOK(c, e),
         UNCHANGED <<account, payout, hour, accountNo, moved, renewed>>,
         errands' \in 0..MaxErrands,
         crossed \subseteq crossed', crossed' \subseteq Seqs,
         hurried \subseteq hurried', hurried' \subseteq Seqs
  PROVE  PayoutAccountsInv'
<1> USE DEF PayoutAccountsInv
<1>1. /\ clerk' \in [Clerks -> Counter]
      /\ \A d \in Clerks : clerk'[d] = IF d = c THEN e ELSE clerk[d]
  BY ClerkSet
<1>2. PayoutAccountsTypeOK'
  BY <1>1 DEF PayoutAccountsTypeOK
<1>3. /\ Requesting' = {d \in Clerks : clerk'[d].pc \in {"backoff", "lock", "insert"}}
      /\ Editing' = {d \in Clerks : clerk'[d].pc \in {"look", "resolve", "write", "delete"}}
      /\ InFlight' = InFlight
  BY DEF Requesting, Editing, InFlight
<1>4. \A d \in Requesting' : d # c => d \in Requesting /\ clerk'[d] = clerk[d]
  BY <1>1, <1>3 DEF Requesting
<1>5. \A d \in Editing' : d # c => d \in Editing
  BY <1>1, <1>3 DEF Editing
<1>6. c \in Requesting' => e.pc \in {"backoff", "lock", "insert"}
  BY <1>1, <1>3
<1>7. c \in Editing' => c \in Editing \/ InFlight = {}
  BY <1>1, <1>3 DEF StepOK
<1>8. NamesOK'
  <2>1. /\ account'.id # 0 => account'.bank \in Banks
        /\ \A n \in DOMAIN payout' :
             /\ payout'[n].requestedAt <= hour'
             /\ payout'[n].state = "failed" =>
                  payout'[n].requestedAt <= payout'[n].failedAt /\ payout'[n].failedAt <= hour'
    BY DEF NamesOK
  <2>2. ASSUME NEW d \in Clerks
        PROVE  /\ clerk'[d].pc = "look" => clerk'[d].bank \in Banks
               /\ d \in Requesting' => clerk'[d].id \in 1..accountNo'
               /\ clerk'[d].pc \in {"load", "send"} => clerk'[d].payout \in DOMAIN payout'
    <3>1. CASE d = c
      BY <1>1, <1>6, <3>1 DEF StepOK
    <3>2. CASE d # c
      BY <1>1, <1>4, <3>2 DEF NamesOK
    <3> QED BY <3>1, <3>2
  <2> QED BY <2>1, <2>2 DEF NamesOK
<1>9. SendersOK'
  <2> SUFFICES ASSUME NEW n \in DOMAIN payout' \ (crossed' \cap hurried'), NEW d \in Clerks,
                      Sender(d, n)'
               PROVE  payout'[n].state = "waiting" /\ \A g \in Clerks : Sender(g, n)' => g = d
    BY DEF SendersOK
  <2>1. n \in DOMAIN payout \ (crossed \cap hurried)
    OBVIOUS
  <2>2. \A g \in Clerks : g # c => (Sender(g, n)' <=> Sender(g, n))
    BY <1>1 DEF Sender
  <2>3. CASE Sender(c, n)'
    <3>1. e.pc \in {"load", "send"} /\ e.payout = n
      BY <1>1, <2>3 DEF Sender
    <3>2. payout[n].state = "waiting" /\ \A g \in Clerks : Sender(g, n) => g = c
      BY <3>1 DEF StepOK
    <3> QED BY <2>2, <3>2
  <2>4. CASE ~Sender(c, n)'
    <3>1. d # c /\ Sender(d, n)
      BY <2>2, <2>4
    <3> QED BY <2>1, <2>2, <2>4, <3>1 DEF SendersOK
  <2> QED BY <2>3, <2>4
<1>10. DestinationOK'
  <2>1. ASSUME NEW n \in DOMAIN payout' \ crossed', payout'[n].state = "waiting"
        PROVE  /\ Editing' = {} /\ account'.id # 0
               /\ payout'[n].link = account'.id /\ payout'[n].bank = account'.bank
    <3>1. n \in DOMAIN payout \ crossed /\ n \in InFlight
      BY <2>1 DEF InFlight
    <3>2. /\ Editing = {} /\ account.id # 0
          /\ payout[n].link = account.id /\ payout[n].bank = account.bank
      BY <2>1, <3>1 DEF DestinationOK
    <3>3. Editing' = {}
      BY <1>3, <1>5, <1>7, <3>1, <3>2
    <3> QED BY <3>2, <3>3
  <2>2. ASSUME NEW n \in DOMAIN payout' \ crossed', NEW d \in Clerks,
               clerk'[d].pc = "send", clerk'[d].payout = n
        PROVE  clerk'[d].bank = payout'[n].bank
    <3>1. CASE d = c
      BY <1>1, <2>2, <3>1 DEF StepOK
    <3>2. CASE d # c
      BY <1>1, <2>2, <3>2 DEF DestinationOK
    <3> QED BY <3>1, <3>2
  <2>3. ASSUME NEW d \in Requesting', ~clerk'[d].late, clerk'[d].id = account'.id
        PROVE  clerk'[d].bank = account'.bank
    <3>1. CASE d = c
      BY <1>1, <1>6, <2>3, <3>1 DEF StepOK
    <3>2. CASE d # c
      BY <1>4, <2>3, <3>2 DEF DestinationOK
    <3> QED BY <3>1, <3>2
  <2> QED BY <2>1, <2>2, <2>3 DEF DestinationOK
<1>11. SentAsShown'
  BY DEF SentAsShown
<1>12. ChangeKnown'
  BY DEF ChangeKnown
<1>13. SettledFirst'
  <2> SUFFICES ASSUME NEW d \in Requesting', moved # Never, ~renewed, ~clerk'[d].late
               PROVE  hour >= moved + Cooldown
    BY DEF SettledFirst
  <2>1. CASE d = c
    BY <1>1, <1>6, <2>1 DEF StepOK
  <2>2. CASE d # c
    BY <1>4, <2>2 DEF SettledFirst
  <2> QED BY <2>1, <2>2
<1>14. \A n, m : AllFailed(n, m)' => AllFailed(n, m)
  BY DEF AllFailed
<1>15. OrderOK'
  <2>1. \A m \in DOMAIN payout' \ hurried', n \in InFlight' : n < m => n \in hurried'
    BY <1>3 DEF OrderOK
  <2>2. ASSUME Len(payout') + 1 \in Seqs \ hurried', NEW d \in Clerks,
               clerk'[d].pc \in {"lock", "insert"}
        PROVE  /\ InFlight' \subseteq hurried'
               /\ \A n \in DOMAIN payout' : AllFailed(n, Len(payout))' =>
                    hour' - payout'[n].requestedAt >= Waiting(Len(payout') + 1 - n)
    <3>0. Len(payout') = Len(payout)
      OBVIOUS
    <3>1. CASE d = c
      BY <1>1, <1>3, <1>14, <2>2, <3>0, <3>1 DEF StepOK
    <3>2. CASE d # c
      BY <1>1, <1>3, <1>14, <2>2, <3>0, <3>2 DEF OrderOK
    <3> QED BY <3>1, <3>2
  <2>3. Seqs' = Seqs
    BY DEF Seqs
  <2> QED BY <2>1, <2>2, <2>3 DEF OrderOK
<1>16. Spaced'
  BY <1>14 DEF Spaced
<1> QED BY <1>2, <1>8, <1>9, <1>10, <1>11, <1>12, <1>13, <1>15, <1>16

\* The bound on requests.
LEMMA ErrandsOK ==
  ASSUME PayoutAccountsTypeOK, Starts \/ UNCHANGED errands
  PROVE  errands' \in 0..MaxErrands
  BY PayoutAccountsAssumption DEF PayoutAccountsTypeOK, Starts

LEMMA AskEditKeeps ==
  ASSUME PayoutAccountsInv, NEW c \in Clerks,
         AskDelete(c) \/ \E b \in Banks : AskUpsert(c, b)
  PROVE  PayoutAccountsInv'
<1> USE DEF PayoutAccountsInv
<1>1. PICK b \in AnyBank, pc \in {"look", "delete"} :
        AskEdit(c, pc, b) /\ (pc = "look" => b \in Banks)
  BY DEF AskDelete, AskUpsert, AnyBank
<1> DEFINE e == [pc |-> pc, bank |-> b]
<1>2. e \in Counter /\ Goes(c, e)
  BY <1>1, ClerkJobs DEF AskEdit
<1>3. /\ UNCHANGED <<account, payout, hour, accountNo, moved, renewed, crossed, hurried>>
      /\ errands' \in 0..MaxErrands /\ InFlight = {}
      /\ crossed \subseteq Seqs /\ hurried \subseteq Seqs
  BY <1>1, ErrandsOK DEF AskEdit, accountRows, Editable, PayoutAccountsTypeOK
<1>4. StepOK(c, e)
  BY <1>1, <1>3 DEF StepOK
<1> HIDE DEF e
<1> QED BY <1>2, <1>3, <1>4, ClerkStep

LEMMA EditStepKeeps ==
  ASSUME PayoutAccountsInv, NEW c \in Clerks, ReadExisting(c) \/ Resolve(c)
  PROVE  PayoutAccountsInv'
<1> USE DEF PayoutAccountsInv
<1>1. /\ UNCHANGED <<account, payout, hour, accountNo, moved, renewed, crossed, hurried>>
      /\ errands' \in 0..MaxErrands
      /\ crossed \subseteq Seqs /\ hurried \subseteq Seqs
  BY ErrandsOK DEF ReadExisting, Resolve, accountRows, accountHistory, PayoutAccountsTypeOK
<1>2. c \in Editing
  BY DEF ReadExisting, Resolve, Doing, Editing
<1>3. PICK e \in Counter : Goes(c, e) /\ e.pc \in {"resolve", "write", "free"}
  <2>1. CASE ReadExisting(c)
    <3>1. clerk[c].bank \in Banks /\ account.bank \in AnyBank
      BY <2>1 DEF ReadExisting, Doing, NamesOK, PayoutAccountsTypeOK
    <3>2. [pc |-> "resolve", bank |-> clerk[c].bank, existing |-> account.bank] \in Counter
      BY <3>1, ClerkJobs
    <3> QED BY <2>1, <3>2 DEF ReadExisting
  <2>2. CASE Resolve(c)
    <3>1. clerk[c] \in [pc : {"resolve"}, bank : Banks, existing : AnyBank]
      BY <2>2 DEF Resolve, Doing, PayoutAccountsTypeOK, Counter, Idle
    <3>2. [clerk[c] EXCEPT !.pc = "write"] \in Counter /\ [clerk[c] EXCEPT !.pc = "write"].pc = "write"
      BY <3>1 DEF Counter
    <3> QED BY <2>2, <3>2, ClerkJobs DEF Resolve, Idle
  <2> QED BY <2>1, <2>2
<1>4. StepOK(c, e)
  BY <1>2, <1>3 DEF StepOK
<1> QED BY <1>1, <1>3, <1>4, ClerkStep

LEMMA AskPayoutKeeps ==
  ASSUME PayoutAccountsInv, NEW c \in Clerks, AskPayout(c)
  PROVE  PayoutAccountsInv'
<1> USE DEF PayoutAccountsInv
<1>1. /\ UNCHANGED <<account, payout, hour, accountNo, moved, renewed, crossed, hurried>>
      /\ errands' \in 0..MaxErrands /\ account.id # 0 /\ ~Paused(account)
      /\ crossed \subseteq Seqs /\ hurried \subseteq Seqs
  BY ErrandsOK DEF AskPayout, accountRows, accountHistory, PayoutAccountsTypeOK
<1>2. account.id \in 1..accountNo /\ account.bank \in Banks /\ account.id \in Nat
  BY <1>1 DEF NamesOK, PayoutAccountsTypeOK
<1> DEFINE e == [pc |-> "backoff", id |-> account.id, bank |-> account.bank, late |-> FALSE]
<1>3. e \in Counter /\ Goes(c, e)
  BY <1>2, ClerkJobs DEF AskPayout
<1>4. moved # Never /\ ~renewed => hour >= moved + Cooldown
  <2> SUFFICES ASSUME moved # Never, ~renewed PROVE hour >= moved + Cooldown
    OBVIOUS
  <2>1. account.changed # Never /\ account.changed >= moved
    BY <1>1 DEF ChangeKnown
  <2>2. ~(hour < account.changed + Cooldown)
    BY <1>1, <2>1 DEF Paused
  <2>3. /\ hour \in Int /\ moved \in Int /\ Cooldown \in Int /\ account.changed \in Int
    BY PayoutAccountsAssumption DEF PayoutAccountsTypeOK
  <2> QED BY <2>1, <2>2, <2>3
<1>5. StepOK(c, e)
  BY <1>2, <1>4 DEF StepOK
<1> HIDE DEF e
<1> QED BY <1>1, <1>3, <1>5, ClerkStep

\* Who does not back off has rested.
LEMMA CheckBackoffKeeps ==
  ASSUME PayoutAccountsInv, NEW c \in Clerks, CheckBackoff(c)
  PROVE  PayoutAccountsInv'
<1> USE DEF PayoutAccountsInv
<1>1. /\ UNCHANGED <<account, payout, hour, accountNo, moved, renewed, crossed>>
      /\ errands' \in 0..MaxErrands /\ clerk[c].pc = "backoff" /\ c \in Requesting
      /\ crossed \subseteq Seqs /\ hurried \subseteq Seqs
      /\ hurried' = IF InFlight = {} THEN hurried ELSE hurried \cup ({Len(payout) + 1} \cap Seqs)
      /\ Goes(c, IF BackingOff THEN Idle ELSE [clerk[c] EXCEPT !.pc = "lock"])
  BY ErrandsOK DEF CheckBackoff, Doing, accountRows, PayoutAccountsTypeOK, Requesting
<1>2. hurried \subseteq hurried' /\ hurried' \subseteq Seqs
  BY <1>1
<1>3. CASE BackingOff
  <2>1. Goes(c, Idle) /\ Idle \in Counter /\ StepOK(c, Idle)
    BY <1>1, <1>3, ClerkJobs DEF StepOK, Idle
  <2> QED BY <1>1, <1>2, <2>1, ClerkStep
<1>4. CASE ~BackingOff
  <2>1. clerk[c] \in [pc : {"backoff", "lock", "insert"}, id : Nat, bank : Banks, late : BOOLEAN]
    BY <1>1 DEF PayoutAccountsTypeOK, Counter, Idle
  <2> DEFINE e == [clerk[c] EXCEPT !.pc = "lock"]
  <2>2. /\ e \in Counter /\ Goes(c, e) /\ e.pc = "lock" /\ e.id = clerk[c].id
        /\ e.bank = clerk[c].bank /\ e.late = clerk[c].late
    BY <1>1, <1>4, <2>1 DEF Counter
  <2>3. /\ clerk[c].id \in 1..accountNo
        /\ ~clerk[c].late /\ clerk[c].id = account.id => clerk[c].bank = account.bank
        /\ moved # Never /\ ~renewed /\ ~clerk[c].late => hour >= moved + Cooldown
    BY <1>1 DEF NamesOK, DestinationOK, SettledFirst
  <2>4. Len(payout) + 1 \in Seqs \ hurried' => InFlight = {}
    BY <1>1
  <2>5. \A n \in DOMAIN payout : AllFailed(n, Len(payout)) =>
          hour - payout[n].requestedAt >= Waiting(Len(payout) + 1 - n)
    BY <1>4, BackoffRested
  <2> HIDE DEF e
  <2>6. StepOK(c, e)
    BY <2>2, <2>3, <2>4, <2>5 DEF StepOK
  <2> QED BY <1>1, <1>2, <2>2, <2>6, ClerkStep
<1> QED BY <1>3, <1>4

LEMMA LockInFlightKeeps ==
  ASSUME PayoutAccountsInv, NEW c \in Clerks, LockInFlight(c)
  PROVE  PayoutAccountsInv'
<1> USE DEF PayoutAccountsInv
<1>1. /\ UNCHANGED <<account, payout, hour, accountNo, moved, renewed, crossed, hurried>>
      /\ errands' \in 0..MaxErrands /\ clerk[c].pc = "lock" /\ c \in Requesting
      /\ crossed \subseteq Seqs /\ hurried \subseteq Seqs
      /\ Goes(c, IF InFlight = {} THEN [clerk[c] EXCEPT !.pc = "insert"] ELSE Idle)
  BY ErrandsOK DEF LockInFlight, Doing, accountRows, accountHistory, PayoutAccountsTypeOK, Requesting
<1>3. CASE InFlight # {}
  <2>1. Goes(c, Idle) /\ Idle \in Counter /\ StepOK(c, Idle)
    BY <1>1, <1>3, ClerkJobs DEF StepOK, Idle
  <2> QED BY <1>1, <2>1, ClerkStep
<1>4. CASE InFlight = {}
  <2>1. clerk[c] \in [pc : {"backoff", "lock", "insert"}, id : Nat, bank : Banks, late : BOOLEAN]
    BY <1>1 DEF PayoutAccountsTypeOK, Counter, Idle
  <2> DEFINE e == [clerk[c] EXCEPT !.pc = "insert"]
  <2>2. /\ e \in Counter /\ Goes(c, e) /\ e.pc = "insert" /\ e.id = clerk[c].id
        /\ e.bank = clerk[c].bank /\ e.late = clerk[c].late
    BY <1>1, <1>4, <2>1 DEF Counter
  <2>3. /\ clerk[c].id \in 1..accountNo
        /\ ~clerk[c].late /\ clerk[c].id = account.id => clerk[c].bank = account.bank
        /\ moved # Never /\ ~renewed /\ ~clerk[c].late => hour >= moved + Cooldown
    BY <1>1 DEF NamesOK, DestinationOK, SettledFirst
  <2>4. Len(payout) + 1 \in Seqs \ hurried' =>
          /\ InFlight \subseteq hurried'
          /\ \A n \in DOMAIN payout : AllFailed(n, Len(payout)) =>
               hour - payout[n].requestedAt >= Waiting(Len(payout) + 1 - n)
    BY <1>1 DEF OrderOK
  <2> HIDE DEF e
  <2>5. StepOK(c, e)
    BY <2>2, <2>3, <2>4 DEF StepOK
  <2> QED BY <1>1, <2>2, <2>5, ClerkStep
<1> QED BY <1>3, <1>4

\* A payout that fails and is taken up again, or twice, is known for it.
LEMMA AskSendKeeps ==
  ASSUME PayoutAccountsInv, NEW c \in Clerks, NEW n \in Seqs, AskSend(c, n)
  PROVE  PayoutAccountsInv'
<1> USE DEF PayoutAccountsInv
<1> DEFINE e == [pc |-> "load", payout |-> n]
           odd == payout[n].state = "failed" \/ \E d \in Clerks : Sender(d, n)
<1>1. /\ UNCHANGED <<account, payout, hour, accountNo, moved, renewed>>
      /\ errands' \in 0..MaxErrands /\ clerk[c].pc = "free"
      /\ crossed \subseteq Seqs /\ hurried \subseteq Seqs
      /\ n \in DOMAIN payout /\ payout[n].state \in {"waiting", "failed"}
      /\ crossed' = crossed \cup (IF odd THEN {n} ELSE {})
      /\ hurried' = hurried \cup (IF odd THEN {n} ELSE {})
      /\ Goes(c, e)
  BY ErrandsOK DEF AskSend, Doing, accountRows, Sender, PayoutAccountsTypeOK
<1>2. e \in Counter
  BY ClerkJobs
<1>3. n \notin crossed' \cap hurried' => ~odd
  BY <1>1
<1>4. StepOK(c, e)
  BY <1>1, <1>3 DEF StepOK
<1>5. /\ crossed \subseteq crossed' /\ crossed' \subseteq Seqs
      /\ hurried \subseteq hurried' /\ hurried' \subseteq Seqs
  BY <1>1
<1> HIDE DEF e
<1> QED BY <1>1, <1>2, <1>4, <1>5, ClerkStep

\* The recipient is that of the account the row points to.
LEMMA LoadDestinationKeeps ==
  ASSUME PayoutAccountsInv, NEW c \in Clerks, LoadDestination(c)
  PROVE  PayoutAccountsInv'
<1> USE DEF PayoutAccountsInv
<1>1. clerk[c].pc = "load"
  BY DEF LoadDestination, Doing
<1>2. PICK n \in Seqs : n = clerk[c].payout /\ n \in DOMAIN payout
  BY <1>1, ClerkFields DEF NamesOK
<1>3. PICK b \in AnyBank : b = IF payout[n].link = 0 THEN NoBank ELSE account.bank
  BY DEF AnyBank, PayoutAccountsTypeOK
<1> DEFINE e == [pc |-> "send", payout |-> n, bank |-> b]
<1>4. /\ UNCHANGED <<account, payout, hour, accountNo, moved, renewed, crossed, hurried>>
      /\ errands' \in 0..MaxErrands
      /\ crossed \subseteq Seqs /\ hurried \subseteq Seqs
      /\ Goes(c, e)
  BY <1>2, <1>3, ErrandsOK DEF LoadDestination, accountRows, accountHistory, PayoutAccountsTypeOK
<1>5. e \in Counter
  BY ClerkJobs
<1>6. n \notin crossed \cap hurried =>
        payout[n].state = "waiting" /\ \A d \in Clerks : Sender(d, n) => d = c
  BY <1>1, <1>2 DEF SendersOK, Sender
<1>7. n \notin crossed => b = payout[n].bank
  BY <1>2, <1>3, <1>6 DEF DestinationOK
<1>8. StepOK(c, e)
  BY <1>2, <1>4, <1>6, <1>7 DEF StepOK
<1> HIDE DEF e
<1> QED BY <1>4, <1>5, <1>8, ClerkStep

\* Whoever is requesting a payout finds the account edited.
LEMMA WriteClerks ==
  ASSUME PayoutAccountsTypeOK, NEW c \in Clerks, WriteAccount(c)
  PROVE  /\ clerk' \in [Clerks -> Counter]
         /\ clerk'[c] = Idle
         /\ \A d \in Clerks : d # c /\ d \notin Requesting => clerk'[d] = clerk[d]
         /\ \A d \in Requesting : d # c =>
              /\ clerk'[d].late = TRUE /\ clerk'[d].pc = clerk[d].pc
              /\ clerk'[d].id = clerk[d].id
         /\ \A d \in Clerks : d # c => clerk'[d].pc = clerk[d].pc
<1>1. clerk' = [d \in Clerks |->
           IF d = c THEN Idle
           ELSE IF d \in Requesting THEN [clerk[d] EXCEPT !.late = TRUE] ELSE clerk[d]]
  BY DEF WriteAccount
<1>2. \A d \in Clerks : clerk'[d] = 
           IF d = c THEN Idle
           ELSE IF d \in Requesting THEN [clerk[d] EXCEPT !.late = TRUE] ELSE clerk[d]
  BY <1>1
<1>3. ASSUME NEW d \in Requesting
      PROVE  LET e == [clerk[d] EXCEPT !.late = TRUE]
             IN  e \in Counter /\ e.late = TRUE /\ e.pc = clerk[d].pc /\ e.id = clerk[d].id
  <2>1. clerk[d] \in [pc : {"backoff", "lock", "insert"}, id : Nat, bank : Banks, late : BOOLEAN]
    BY <1>3 DEF PayoutAccountsTypeOK, Counter, Idle, Requesting
  <2> QED BY <2>1 DEF Counter
<1>4. \A d \in Clerks : clerk[d] \in Counter
  BY DEF PayoutAccountsTypeOK
<1>5. Idle \in Counter /\ Requesting \subseteq Clerks
  BY ClerkJobs DEF Requesting
<1>6. \A d \in Clerks : clerk'[d] \in Counter
  BY <1>2, <1>3, <1>4, <1>5
<1>7. clerk' \in [Clerks -> Counter]
  BY <1>1, <1>6
<1>8. \A d \in Requesting : d # c =>
              /\ clerk'[d].late = TRUE /\ clerk'[d].pc = clerk[d].pc
              /\ clerk'[d].id = clerk[d].id
  BY <1>2, <1>3, <1>5
<1> QED BY <1>2, <1>5, <1>7, <1>8

\* What the account says after an edit, and when it last said something else.
LEMMA WriteRows ==
  ASSUME PayoutAccountsTypeOK, NamesOK, ChangeKnown, NEW c \in Clerks, WriteAccount(c)
  PROVE  /\ account' \in [id : 0..accountNo', bank : AnyBank, changed : -1..LastHour]
         /\ account'.id # 0 /\ account'.bank \in Banks
         /\ accountNo' \in Nat /\ accountNo <= accountNo'
         /\ moved' \in -1..LastHour /\ renewed' \in BOOLEAN
         /\ ChangeKnown'
<1> DEFINE e == clerk[c]
           changed == e.existing # NoBank /\ e.existing # e.bank
<1>1. e.bank \in Banks /\ e.existing \in AnyBank /\ NoBank \notin Banks
  <2>1. NoBank \notin Banks
    BY NoBankAssumption DEF NoBank
  <2> QED BY <2>1, ClerkFields DEF WriteAccount, Doing
<1> HIDE DEF e
<1>2. /\ IF account.id # 0
        THEN /\ account' = [account EXCEPT !.bank = e.bank,
                                           !.changed = IF changed THEN hour ELSE @]
             /\ UNCHANGED accountNo
        ELSE /\ account' = [id |-> accountNo + 1, bank |-> e.bank, changed |-> Never]
             /\ accountNo' = accountNo + 1
      /\ IF e.bank = account.bank \/ accountNo = 0 THEN UNCHANGED <<moved, renewed>>
        ELSE moved' = hour /\ renewed' = (account.id = 0 \/ e.existing # account.bank)
      /\ hour' = hour
  BY DEF WriteAccount, e
<1> HIDE DEF changed
<1>3. /\ account \in [id : 0..accountNo, bank : AnyBank, changed : -1..LastHour]
      /\ hour \in Nat /\ hour \in -1..LastHour /\ hour # Never /\ accountNo \in Nat
      /\ moved \in -1..LastHour /\ renewed \in BOOLEAN /\ moved \in Int
      /\ account.id = 0 => account.bank = NoBank
      /\ account.id # 0 => account.bank \in Banks
      /\ account.changed \in Int
  <2>1. LastHour \in Nat
    BY PayoutAccountsAssumption
  <2>2. hour \in 0..LastHour
    BY DEF PayoutAccountsTypeOK
  <2> QED BY <2>1, <2>2 DEF PayoutAccountsTypeOK, NamesOK, NoAccount, Never
<1>4. account' \in [id : 0..accountNo', bank : AnyBank, changed : -1..LastHour]
      /\ account'.id # 0 /\ account'.bank = e.bank /\ accountNo' \in Nat /\ accountNo <= accountNo'
  <2>1. CASE account.id # 0
    <3>1. accountNo' = accountNo /\ account' = [account EXCEPT !.bank = e.bank,
                                           !.changed = IF changed THEN hour ELSE @]
      BY <1>2, <2>1
    <3>2. PICK h \in -1..LastHour : h = IF changed THEN hour ELSE account.changed
      BY <1>3
    <3>3. account' = [account EXCEPT !.bank = e.bank, !.changed = h]
      BY <1>3, <3>1, <3>2
    <3>4. e.bank \in AnyBank /\ account.id \in 0..accountNo'
      BY <1>1, <1>3, <3>1 DEF AnyBank
    <3>5. account'.id = account.id /\ account'.bank = e.bank
      BY <1>3, <3>3
    <3>6. account' \in [id : 0..accountNo', bank : AnyBank, changed : -1..LastHour]
      BY <1>3, <3>2, <3>3, <3>4
    <3>7. accountNo' \in Nat /\ accountNo <= accountNo'
      BY <1>3, <3>1
    <3> QED BY <2>1, <3>5, <3>6, <3>7
  <2>2. CASE account.id = 0
    <3>1. accountNo' = accountNo + 1 /\ account' = [id |-> accountNo + 1, bank |-> e.bank, changed |-> Never]
      BY <1>2, <2>2
    <3>2. Never \in -1..LastHour /\ accountNo + 1 \in 0..accountNo' /\ accountNo + 1 # 0
      BY <1>3, <3>1, PayoutAccountsAssumption DEF Never
    <3> QED BY <1>1, <1>3, <3>1, <3>2 DEF AnyBank
  <2> QED BY <2>1, <2>2
<1>5. account.id # 0 => account'.changed = IF changed THEN hour ELSE account.changed
  BY <1>2, <1>3
<1>6. CASE e.bank = account.bank \/ accountNo = 0
  <2>1. moved' = moved /\ renewed' = renewed
    BY <1>2, <1>6
  <2>2. moved # Never => moved <= hour /\ accountNo # 0
    BY DEF ChangeKnown
  <2>3. moved' # Never => moved' <= hour' /\ accountNo' # 0
    BY <1>2, <1>3, <1>4, <2>1, <2>2
  <2>4. ASSUME moved # Never, ~renewed
        PROVE account'.changed # Never /\ account'.changed >= moved
    <3>1. account.id # 0 /\ moved <= hour
      BY <1>1, <1>3, <1>6, <2>2, <2>4
    <3>2. account.changed # Never /\ account.changed >= moved
      BY <2>4, <3>1 DEF ChangeKnown
    <3> QED BY <1>3, <1>5, <3>1, <3>2
  <2>5. ChangeKnown'
    BY <2>1, <2>3, <2>4 DEF ChangeKnown
  <2> QED BY <1>1, <1>3, <1>4, <2>1, <2>5
<1>7. CASE ~(e.bank = account.bank \/ accountNo = 0)
  <2>1. moved' = hour /\ renewed' = (account.id = 0 \/ e.existing # account.bank)
    BY <1>2, <1>7
  <2>2. renewed' \in BOOLEAN
    BY <2>1
  <2>3. moved' <= hour' /\ accountNo' # 0
    BY <1>2, <1>3, <1>4, <1>7, <2>1
  <2>4. ASSUME ~renewed' PROVE account'.changed # Never /\ account'.changed >= moved'
    <3>1. account.id # 0 /\ e.existing = account.bank
      BY <2>1, <2>4
    <3>2. changed
      BY <1>1, <1>3, <1>7, <3>1 DEF changed
    <3> QED BY <1>3, <1>5, <2>1, <3>1, <3>2
  <2>5. ChangeKnown'
    BY <2>3, <2>4 DEF ChangeKnown, Never
  <2> QED BY <1>1, <1>3, <1>4, <2>1, <2>2, <2>5
<1> QED BY <1>6, <1>7

LEMMA WriteAccountKeeps ==
  ASSUME PayoutAccountsInv, NEW c \in Clerks, WriteAccount(c)
  PROVE  PayoutAccountsInv'
<1> USE DEF PayoutAccountsInv
<1>1. /\ clerk' \in [Clerks -> Counter]
      /\ clerk'[c] = Idle
      /\ \A d \in Clerks : d # c /\ d \notin Requesting => clerk'[d] = clerk[d]
      /\ \A d \in Requesting : d # c =>
           clerk'[d].late = TRUE /\ clerk'[d].pc = clerk[d].pc /\ clerk'[d].id = clerk[d].id
      /\ \A d \in Clerks : d # c => clerk'[d].pc = clerk[d].pc
  BY WriteClerks
<1>2. /\ account' \in [id : 0..accountNo', bank : AnyBank, changed : -1..LastHour]
      /\ account'.id # 0 /\ account'.bank \in Banks
      /\ accountNo' \in Nat /\ accountNo <= accountNo'
      /\ moved' \in -1..LastHour /\ renewed' \in BOOLEAN
      /\ ChangeKnown'
  BY WriteRows
<1>3. /\ payout' = payout /\ hour' = hour /\ errands' = errands
      /\ crossed' = crossed /\ hurried' = hurried /\ c \in Editing
  BY DEF WriteAccount, Doing, Editing
<1>4. Idle.pc = "free" /\ account' # NoAccount
  BY <1>2 DEF Idle, NoAccount
<1>5. PayoutAccountsTypeOK'
  BY <1>1, <1>2, <1>3, <1>4 DEF PayoutAccountsTypeOK
<1>6. \A d \in Requesting' : d \in Requesting /\ d # c /\ clerk'[d].late = TRUE
  BY <1>1, <1>4 DEF Requesting
<1>7. \A d \in Clerks : clerk'[d].pc \notin {"backoff", "lock", "insert", "free"} =>
        d # c /\ clerk'[d] = clerk[d]
  BY <1>1, <1>4 DEF Requesting
<1>8. \A d \in Clerks : \A n : Sender(d, n)' => Sender(d, n)
  BY <1>7 DEF Sender
<1>9. NamesOK'
  <2>1. \A n \in DOMAIN payout' :
             /\ payout'[n].requestedAt <= hour'
             /\ payout'[n].state = "failed" =>
                  payout'[n].requestedAt <= payout'[n].failedAt /\ payout'[n].failedAt <= hour'
    BY <1>3 DEF NamesOK
  <2>2. ASSUME NEW d \in Clerks
        PROVE  /\ clerk'[d].pc = "look" => clerk'[d].bank \in Banks
               /\ d \in Requesting' => clerk'[d].id \in 1..accountNo'
               /\ clerk'[d].pc \in {"load", "send"} => clerk'[d].payout \in DOMAIN payout'
    <3>1. d \in Requesting' => clerk'[d].id \in 1..accountNo'
      <4>1. d \in Requesting' => clerk'[d].id = clerk[d].id /\ clerk[d].id \in 1..accountNo
        BY <1>1, <1>6 DEF NamesOK
      <4>2. accountNo \in Nat
        BY DEF PayoutAccountsTypeOK
      <4> QED BY <1>2, <4>1, <4>2
    <3> QED BY <1>3, <1>7, <3>1 DEF NamesOK
  <2> QED BY <1>2, <2>1, <2>2 DEF NamesOK
<1>10. SendersOK'
  BY <1>3, <1>8 DEF SendersOK
<1>11. \A n \in DOMAIN payout \ crossed : payout[n].state # "waiting"
  BY <1>3 DEF DestinationOK
<1>12. DestinationOK'
  BY <1>3, <1>6, <1>7, <1>11 DEF DestinationOK
<1>13. SentAsShown'
  BY <1>3 DEF SentAsShown
<1>14. SettledFirst'
  BY <1>6 DEF SettledFirst
<1>15. OrderOK'
  <2>1. \A d \in Clerks : clerk'[d].pc \in {"lock", "insert"} => clerk[d].pc = clerk'[d].pc
    BY <1>1, <1>4
  <2>2. \A n, m : AllFailed(n, m)' <=> AllFailed(n, m)
    BY <1>3 DEF AllFailed
  <2>3. InFlight' = InFlight /\ Len(payout') = Len(payout) /\ Seqs' = Seqs
    BY <1>3 DEF InFlight, Seqs
  <2>4. ASSUME NEW d \in Clerks, clerk'[d].pc \in {"lock", "insert"}, Len(payout') + 1 \in Seqs \ hurried'
        PROVE  /\ InFlight' \subseteq hurried'
               /\ \A n \in DOMAIN payout' : AllFailed(n, Len(payout))' =>
                    hour' - payout'[n].requestedAt >= Waiting(Len(payout') + 1 - n)
    BY <1>3, <2>1, <2>2, <2>3, <2>4 DEF OrderOK
  <2> QED BY <1>3, <2>3, <2>4 DEF OrderOK
<1>16. Spaced'
  BY <1>3 DEF Spaced, AllFailed
<1> QED BY <1>2, <1>5, <1>9, <1>10, <1>12, <1>13, <1>14, <1>15, <1>16

\* The payouts keep all but their link.
LEMMA DeleteAccountKeeps ==
  ASSUME PayoutAccountsInv, NEW c \in Clerks, DeleteAccount(c)
  PROVE  PayoutAccountsInv'
<1> USE DEF PayoutAccountsInv
<1>1. /\ clerk' \in [Clerks -> Counter]
      /\ \A d \in Clerks : clerk'[d] = IF d = c THEN Idle ELSE clerk[d]
  BY ClerkJobs, ClerkSet DEF DeleteAccount
<1>2. /\ account' = NoAccount /\ hour' = hour /\ errands' = errands /\ accountNo' = accountNo
      /\ moved' = moved /\ renewed' = renewed
      /\ crossed' = crossed /\ hurried' = hurried /\ c \in Editing
      /\ payout' = [n \in DOMAIN payout |->
                  IF payout[n].link = account.id THEN [payout[n] EXCEPT !.link = 0]
                  ELSE payout[n]]
  BY DEF DeleteAccount, Doing, Editing, accountHistory
<1>3. DOMAIN payout' = DOMAIN payout
  BY <1>2
<1>4. ASSUME NEW n \in DOMAIN payout
      PROVE  /\ payout'[n] \in PayoutRow
             /\ payout'[n].state = payout[n].state /\ payout'[n].bank = payout[n].bank
             /\ payout'[n].failedAt = payout[n].failedAt /\ payout'[n].sentTo = payout[n].sentTo
             /\ payout'[n].requestedAt = payout[n].requestedAt
  <2>1. payout[n] \in PayoutRow
    BY RowFields
  <2>2. payout'[n] = IF payout[n].link = account.id THEN [payout[n] EXCEPT !.link = 0]
                     ELSE payout[n]
    BY <1>2
  <2> QED BY <2>1, <2>2 DEF PayoutRow
<1>5. payout' \in Seq(PayoutRow) /\ Len(payout') = Len(payout)
  <2>1. PICK L \in Nat : L = Len(payout) /\ DOMAIN payout = 1..L
    BY DEF PayoutAccountsTypeOK
  <2>2. payout' \in [1..L -> PayoutRow]
    BY <1>2, <1>4, <2>1
  <2> QED BY <2>1, <2>2
<1>6. NoAccount.id = 0 /\ NoAccount \in [id : 0..accountNo, bank : AnyBank, changed : -1..LastHour]
  BY PayoutAccountsAssumption DEF NoAccount, AnyBank, Never, PayoutAccountsTypeOK
<1>7. PayoutAccountsTypeOK'
  BY <1>1, <1>2, <1>5, <1>6 DEF PayoutAccountsTypeOK
<1>8. \A d \in Clerks : clerk'[d].pc # "free" => d # c /\ clerk'[d] = clerk[d]
  BY <1>1 DEF Idle
<1>9. \A d \in Requesting' : d \in Requesting /\ clerk'[d] = clerk[d]
  BY <1>8 DEF Requesting
<1>10. NamesOK'
  <2>1. \A n \in DOMAIN payout' :
             /\ payout'[n].requestedAt <= hour'
             /\ payout'[n].state = "failed" =>
                  payout'[n].requestedAt <= payout'[n].failedAt /\ payout'[n].failedAt <= hour'
    BY <1>2, <1>3, <1>4 DEF NamesOK
  <2>2. ASSUME NEW d \in Clerks
        PROVE  /\ clerk'[d].pc = "look" => clerk'[d].bank \in Banks
               /\ d \in Requesting' => clerk'[d].id \in 1..accountNo'
               /\ clerk'[d].pc \in {"load", "send"} => clerk'[d].payout \in DOMAIN payout'
    BY <1>2, <1>3, <1>8, <1>9 DEF NamesOK
  <2> QED BY <1>2, <1>6, <2>1, <2>2 DEF NamesOK
<1>11. \A d \in Clerks : \A n : Sender(d, n)' => Sender(d, n)
  BY <1>8 DEF Sender
<1>12. SendersOK'
  BY <1>2, <1>3, <1>4, <1>11 DEF SendersOK
<1>13. \A n \in DOMAIN payout \ crossed : payout[n].state # "waiting"
  BY <1>2 DEF DestinationOK
<1>14. DestinationOK'
  <2>1. \A d \in Requesting' : clerk'[d].id # 0
    <3>1. accountNo \in Nat /\ \A d \in Requesting : clerk[d].id \in 1..accountNo
      BY DEF NamesOK, Requesting, PayoutAccountsTypeOK
    <3> QED BY <1>9, <3>1
  <2>2. \A n \in DOMAIN payout' \ crossed' : payout'[n].state # "waiting"
    BY <1>2, <1>3, <1>4, <1>13
  <2>3. ASSUME NEW n \in DOMAIN payout' \ crossed', NEW d \in Clerks,
               clerk'[d].pc = "send", clerk'[d].payout = n
        PROVE  clerk'[d].bank = payout'[n].bank
    <3>1. n \in DOMAIN payout \ crossed /\ clerk'[d] = clerk[d]
      BY <1>2, <1>3, <1>8, <2>3
    <3>2. clerk[d].bank = payout[n].bank
      BY <2>3, <3>1 DEF DestinationOK
    <3> QED BY <1>4, <3>1, <3>2
  <2> QED BY <1>2, <1>6, <2>1, <2>2, <2>3 DEF DestinationOK
<1>15. SentAsShown'
  BY <1>2, <1>3, <1>4 DEF SentAsShown
<1>16. ChangeKnown'
  BY <1>2, <1>6 DEF ChangeKnown
<1>17. SettledFirst'
  BY <1>2, <1>9 DEF SettledFirst
<1>18. InFlight' = InFlight /\ Seqs' = Seqs /\ Len(payout') = Len(payout)
  BY <1>3, <1>4, <1>5 DEF InFlight, Seqs
<1>19. \A m \in DOMAIN payout, n \in DOMAIN payout : AllFailed(n, m)' => AllFailed(n, m)
  <2>1. PICK L \in Nat : L = Len(payout) /\ DOMAIN payout = 1..L
    BY DEF PayoutAccountsTypeOK
  <2>2. \A n \in 1..L, m \in 1..L : \A k \in n..m : k \in DOMAIN payout
    BY <2>1
  <2> QED BY <1>2, <1>4, <2>1, <2>2 DEF AllFailed
<1>20. OrderOK'
  <2>1. ASSUME NEW d \in Clerks, clerk'[d].pc \in {"lock", "insert"}, Len(payout') + 1 \in Seqs \ hurried'
        PROVE  /\ InFlight' \subseteq hurried'
               /\ \A n \in DOMAIN payout' : AllFailed(n, Len(payout))' =>
                    hour' - payout'[n].requestedAt >= Waiting(Len(payout') + 1 - n)
    <3>1. clerk[d].pc \in {"lock", "insert"}
      BY <1>8, <2>1
    <3>3. \A n \in DOMAIN payout : AllFailed(n, Len(payout))' => AllFailed(n, Len(payout))
      <4>1. \A n \in DOMAIN payout : AllFailed(n, Len(payout))' =>
              \A k \in n..Len(payout') : payout'[k].state = "failed" /\ k \notin hurried'
        BY DEF AllFailed
      <4>2. PICK L \in Nat : L = Len(payout) /\ L = Len(payout') /\ DOMAIN payout = 1..L
        BY <1>18 DEF PayoutAccountsTypeOK
      <4>3. \A n \in 1..L : \A k \in n..L : k \in DOMAIN payout
        BY <4>2
      <4>4. ASSUME NEW n \in DOMAIN payout, AllFailed(n, Len(payout))'
            PROVE  \A k \in n..L : payout[k].state = "failed" /\ k \notin hurried
        <5>1. \A k \in n..L : payout'[k].state = "failed" /\ k \notin hurried'
          BY <4>1, <4>2, <4>4
        <5>2. \A k \in n..L : k \in DOMAIN payout
          BY <4>2, <4>3, <4>4
        <5> QED BY <1>2, <1>4, <5>1, <5>2
      <4> QED BY <4>2, <4>4 DEF AllFailed
    <3> QED BY <1>2, <1>3, <1>4, <1>18, <2>1, <3>1, <3>3 DEF OrderOK
  <2>2. \A m \in DOMAIN payout' \ hurried', n \in InFlight' : n < m => n \in hurried'
    BY <1>2, <1>3, <1>18 DEF OrderOK
  <2> QED BY <1>18, <2>1, <2>2 DEF OrderOK
<1>21. Spaced'
  <2> SUFFICES ASSUME NEW n \in DOMAIN payout' \ hurried', NEW m \in DOMAIN payout' \ hurried',
                      n < m, AllFailed(n, m - 1)'
               PROVE  payout'[m].requestedAt - payout'[n].requestedAt >= Waiting(m - n)
    BY DEF Spaced
  <2>1. PICK L \in Nat : L = Len(payout) /\ DOMAIN payout = 1..L
    BY DEF PayoutAccountsTypeOK
  <2>2. n \in DOMAIN payout \ hurried /\ m \in DOMAIN payout \ hurried /\ m - 1 \in DOMAIN payout
    BY <1>2, <1>3, <2>1
  <2>3. AllFailed(n, m - 1)
    BY <1>19, <2>2
  <2>4. payout[m].requestedAt - payout[n].requestedAt >= Waiting(m - n)
    BY <2>2, <2>3 DEF Spaced
  <2> QED BY <1>4, <2>2, <2>4
<1> QED BY <1>7, <1>10, <1>12, <1>14, <1>15, <1>16, <1>17, <1>20, <1>21

LEMMA TimePassesKeeps ==
  ASSUME PayoutAccountsInv, TimePasses
  PROVE  PayoutAccountsInv'
<1> USE DEF PayoutAccountsInv
<1>1. /\ hour' = hour + 1 /\ account' = account /\ payout' = payout
      /\ clerk' = clerk /\ errands' = errands /\ accountNo' = accountNo /\ moved' = moved
      /\ renewed' = renewed /\ crossed' = crossed /\ hurried' = hurried /\ hour < LastHour
  BY DEF TimePasses, accountRows, accountHistory
<1>2. /\ hour \in Nat /\ LastHour \in Nat /\ hour \in Int /\ hour' \in Int /\ hour <= hour'
      /\ Cooldown \in Nat
  BY <1>1, PayoutAccountsAssumption DEF PayoutAccountsTypeOK
<1>3. hour' \in 0..LastHour
  BY <1>1, <1>2
<1>4. PayoutAccountsTypeOK'
  BY <1>1, <1>3 DEF PayoutAccountsTypeOK
<1>5. /\ Requesting' = Requesting /\ Editing' = Editing /\ InFlight' = InFlight /\ Seqs' = Seqs
      /\ \A d, n : Sender(d, n)' <=> Sender(d, n)
      /\ \A n, m : AllFailed(n, m)' <=> AllFailed(n, m)
  BY <1>1 DEF Requesting, Editing, InFlight, Seqs, Sender, AllFailed
<1>6. NamesOK'
  <2>1. ASSUME NEW n \in DOMAIN payout
        PROVE  /\ payout[n].requestedAt <= hour'
               /\ payout[n].state = "failed" =>
                    payout[n].requestedAt <= payout[n].failedAt /\ payout[n].failedAt <= hour'
    <3>1. PICK a \in Nat, f \in Int : a = payout[n].requestedAt /\ f = payout[n].failedAt
      BY RowFields
    <3>2. a <= hour /\ (payout[n].state = "failed" => a <= f /\ f <= hour)
      BY <3>1 DEF NamesOK
    <3> QED BY <1>1, <1>2, <3>1, <3>2
  <2> QED BY <1>1, <1>5, <2>1 DEF NamesOK
<1>7. SendersOK'
  BY <1>1, <1>5 DEF SendersOK
<1>8. DestinationOK'
  BY <1>1, <1>5 DEF DestinationOK
<1>9. SentAsShown'
  BY <1>1 DEF SentAsShown
<1>10. moved \in Int
  BY PayoutAccountsAssumption DEF PayoutAccountsTypeOK
<1>11. ChangeKnown'
  <2>1. moved # Never => moved <= hour'
    BY <1>1, <1>2, <1>10 DEF ChangeKnown
  <2> QED BY <1>1, <2>1 DEF ChangeKnown
<1>12. SettledFirst'
  <2>1. ASSUME hour >= moved + Cooldown PROVE hour' >= moved + Cooldown
    BY <1>1, <1>2, <1>10, <2>1
  <2> QED BY <1>1, <1>5, <2>1 DEF SettledFirst
<1>13. OrderOK'
  <2>1. ASSUME NEW n \in DOMAIN payout,
               hour - payout[n].requestedAt >= Waiting(Len(payout) + 1 - n)
        PROVE  hour' - payout[n].requestedAt >= Waiting(Len(payout) + 1 - n)
    <3>1. PICK a \in Nat : a = payout[n].requestedAt
      BY RowFields
    <3>2. Waiting(Len(payout) + 1 - n) \in Nat
      <4>1. Len(payout) + 1 - n \in Nat
        BY DEF PayoutAccountsTypeOK
      <4> QED BY <4>1, WaitingStep
    <3>3. PICK w \in Nat : w = Waiting(Len(payout) + 1 - n)
      BY <3>2
    <3>4. hour - a >= w
      BY <2>1, <3>1, <3>3
    <3>5. hour' - a >= w
      BY <1>1, <1>2, <3>4
    <3> QED BY <3>1, <3>3, <3>5
  <2> QED BY <1>1, <1>5, <2>1 DEF OrderOK
<1>14. Spaced'
  BY <1>1, <1>5 DEF Spaced
<1> QED BY <1>4, <1>6, <1>7, <1>8, <1>9, <1>11, <1>12, <1>13, <1>14

\* A payout that was taken to the provider, or settled, and the clerk is done.
LEMMA RowStep ==
  ASSUME PayoutAccountsInv, NEW n \in DOMAIN payout, NEW r \in PayoutRow,
         payout' = [payout EXCEPT ![n] = r],
         r.link = payout[n].link, r.bank = payout[n].bank,
         r.requestedAt = payout[n].requestedAt,
         r.state # "waiting", r.state = "failed" => r.failedAt = hour,
         n \notin hurried => n \in InFlight,
         n \notin crossed => r.sentTo \in {NoBank, payout[n].bank},
         UNCHANGED <<account, hour, errands, accountNo, moved, renewed, crossed, hurried>>,
         clerk' \in [Clerks -> Counter],
         \A d \in Clerks : clerk'[d] = clerk[d] \/ clerk'[d] = Idle,
         n \notin crossed \cap hurried => \A d \in Clerks : ~Sender(d, n)'
  PROVE  PayoutAccountsInv'
<1> USE DEF PayoutAccountsInv
<1>1. PICK L \in Nat : L = Len(payout) /\ DOMAIN payout = 1..L
  BY DEF PayoutAccountsTypeOK
<1>2. payout' \in Seq(PayoutRow) /\ Len(payout') = L /\ DOMAIN payout' = 1..L
  BY <1>1 DEF PayoutAccountsTypeOK
<1>3. \A m \in 1..L : payout'[m] = IF m = n THEN r ELSE payout[m]
  BY <1>1
<1>4. PayoutAccountsTypeOK'
  BY <1>1, <1>2 DEF PayoutAccountsTypeOK
<1>5. \A m \in 1..L :
        /\ payout'[m].link = payout[m].link /\ payout'[m].bank = payout[m].bank
        /\ payout'[m].requestedAt = payout[m].requestedAt
  BY <1>3
<1>6. \A d \in Clerks : clerk'[d].pc # "free" => clerk'[d] = clerk[d]
  BY DEF Idle
<1>7. \A d \in Requesting' : d \in Requesting /\ clerk'[d] = clerk[d]
  BY <1>6 DEF Requesting
<1>8. \A d \in Editing' : d \in Editing
  BY <1>6 DEF Editing
<1>9. \A d \in Clerks : \A m : Sender(d, m)' => Sender(d, m)
  BY <1>6 DEF Sender
<1>10. NamesOK'
  <2>1. ASSUME NEW m \in 1..L
        PROVE  /\ payout'[m].requestedAt <= hour
               /\ payout'[m].state = "failed" =>
                    payout'[m].requestedAt <= payout'[m].failedAt /\ payout'[m].failedAt <= hour
    <3>1. payout[m].requestedAt <= hour
      BY <1>1 DEF NamesOK
    <3>2. CASE m = n
      <4>1. hour \in Int
        BY PayoutAccountsAssumption DEF PayoutAccountsTypeOK
      <4> QED BY <1>3, <1>5, <3>1, <3>2, <4>1
    <3>3. CASE m # n
      BY <1>1, <1>3, <3>3 DEF NamesOK
    <3> QED BY <3>2, <3>3
  <2>2. ASSUME NEW d \in Clerks
        PROVE  /\ clerk'[d].pc = "look" => clerk'[d].bank \in Banks
               /\ d \in Requesting' => clerk'[d].id \in 1..accountNo'
               /\ clerk'[d].pc \in {"load", "send"} => clerk'[d].payout \in DOMAIN payout'
    BY <1>1, <1>2, <1>6, <1>7 DEF NamesOK
  <2>3. account'.id # 0 => account'.bank \in Banks
    BY DEF NamesOK
  <2> QED BY <1>2, <2>1, <2>2, <2>3 DEF NamesOK
<1>11. SendersOK'
  <2> SUFFICES ASSUME NEW m \in DOMAIN payout' \ (crossed' \cap hurried'), NEW d \in Clerks,
                      Sender(d, m)'
               PROVE  payout'[m].state = "waiting" /\ \A g \in Clerks : Sender(g, m)' => g = d
    BY DEF SendersOK
  <2>1. m # n /\ m \in DOMAIN payout \ (crossed \cap hurried)
    BY <1>1, <1>2
  <2>2. payout[m].state = "waiting" /\ \A g \in Clerks : Sender(g, m) => g = d
    BY <1>9, <2>1 DEF SendersOK
  <2> QED BY <1>1, <1>3, <1>9, <2>1, <2>2
<1>12. DestinationOK'
  <2>1. ASSUME NEW m \in DOMAIN payout' \ crossed', payout'[m].state = "waiting"
        PROVE  /\ Editing' = {} /\ account'.id # 0
               /\ payout'[m].link = account'.id /\ payout'[m].bank = account'.bank
    <3>1. m # n /\ m \in DOMAIN payout \ crossed /\ payout[m].state = "waiting"
      BY <1>1, <1>2, <1>3, <2>1
    <3>2. /\ Editing = {} /\ account.id # 0
          /\ payout[m].link = account.id /\ payout[m].bank = account.bank
      BY <3>1 DEF DestinationOK
    <3> QED BY <1>1, <1>5, <1>8, <3>1, <3>2
  <2>2. ASSUME NEW m \in DOMAIN payout' \ crossed', NEW d \in Clerks,
               clerk'[d].pc = "send", clerk'[d].payout = m
        PROVE  clerk'[d].bank = payout'[m].bank
    <3>1. m \in DOMAIN payout \ crossed /\ clerk'[d] = clerk[d] /\ m \in 1..L
      BY <1>1, <1>2, <1>6, <2>2
    <3>2. clerk[d].bank = payout[m].bank
      BY <2>2, <3>1 DEF DestinationOK
    <3> QED BY <1>5, <3>1, <3>2
  <2>3. \A d \in Requesting' : ~clerk'[d].late /\ clerk'[d].id = account'.id =>
          clerk'[d].bank = account'.bank
    BY <1>7 DEF DestinationOK
  <2> QED BY <2>1, <2>2, <2>3 DEF DestinationOK
<1>13. SentAsShown'
  <2>1. ASSUME NEW m \in DOMAIN payout' \ crossed'
        PROVE  payout'[m].sentTo \in {NoBank, payout'[m].bank}
    <3>1. m \in DOMAIN payout \ crossed /\ m \in 1..L
      BY <1>1, <1>2
    <3>2. CASE m = n
      BY <1>3, <1>5, <3>1, <3>2
    <3>3. CASE m # n
      BY <1>3, <3>1, <3>3 DEF SentAsShown
    <3> QED BY <3>2, <3>3
  <2> QED BY <2>1 DEF SentAsShown
<1>14. ChangeKnown'
  BY DEF ChangeKnown
<1>15. SettledFirst'
  BY <1>7 DEF SettledFirst
<1>16. InFlight' \subseteq InFlight \cup hurried
  <2>1. ASSUME NEW m \in InFlight' PROVE m \in InFlight \/ m \in hurried
    <3>1. m \in 1..L /\ payout'[m].state \in {"waiting", "processing"}
      BY <1>2 DEF InFlight
    <3>2. m # n => m \in InFlight
      BY <1>1, <1>3, <3>1 DEF InFlight
    <3> QED BY <3>2
  <2> QED BY <2>1
<1>17. ASSUME NEW i \in 1..L, NEW m \in 1..L, AllFailed(i, m)'
       PROVE  AllFailed(i, m) \/ (n \in i..m /\ n \in InFlight /\ n \notin hurried)
  <2>1. \A k \in i..m : payout'[k].state = "failed" /\ k \notin hurried'
    BY <1>17 DEF AllFailed
  <2>2. CASE n \in i..m
    BY <2>1, <2>2
  <2>3. CASE n \notin i..m
    <3>1. \A k \in i..m : k \in 1..L /\ k # n
      BY <2>3
    <3>2. \A k \in i..m : payout[k].state = "failed" /\ k \notin hurried
      BY <1>3, <2>1, <3>1
    <3> QED BY <3>2 DEF AllFailed
  <2> QED BY <2>2, <2>3
<1>18. OrderOK'
  <2>1. \A m \in DOMAIN payout' \ hurried', k \in InFlight' : k < m => k \in hurried'
    BY <1>1, <1>2, <1>16 DEF OrderOK
  <2>2. ASSUME NEW d \in Clerks, clerk'[d].pc \in {"lock", "insert"}, Len(payout') + 1 \in Seqs \ hurried'
        PROVE  /\ InFlight' \subseteq hurried'
               /\ \A i \in DOMAIN payout' : AllFailed(i, Len(payout))' =>
                    hour' - payout'[i].requestedAt >= Waiting(Len(payout') + 1 - i)
    <3>1. clerk[d].pc \in {"lock", "insert"} /\ Len(payout) + 1 \in Seqs \ hurried
      BY <1>1, <1>2, <1>6, <2>2
    <3>2. /\ InFlight \subseteq hurried
          /\ \A i \in 1..L : AllFailed(i, L) => hour - payout[i].requestedAt >= Waiting(L + 1 - i)
      BY <1>1, <3>1 DEF OrderOK
    <3>3. ASSUME NEW i \in 1..L, AllFailed(i, Len(payout))'
          PROVE  hour - payout'[i].requestedAt >= Waiting(L + 1 - i)
      <4>1. L \in 1..L /\ AllFailed(i, L)'
        BY <1>2, <3>3 DEF AllFailed
      <4>2. AllFailed(i, L)
        BY <1>17, <3>2, <4>1
      <4> QED BY <1>5, <3>2, <4>2
    <3> QED BY <1>1, <1>2, <1>16, <3>2, <3>3
  <2>3. Seqs' = Seqs
    BY DEF Seqs
  <2> QED BY <2>1, <2>2, <2>3 DEF OrderOK
<1>19. Spaced'
  <2> SUFFICES ASSUME NEW i \in DOMAIN payout' \ hurried', NEW m \in DOMAIN payout' \ hurried',
                      i < m, AllFailed(i, m - 1)'
               PROVE  payout'[m].requestedAt - payout'[i].requestedAt >= Waiting(m - i)
    BY DEF Spaced
  <2>1. /\ i \in 1..L /\ m \in 1..L /\ m - 1 \in 1..L
        /\ i \in DOMAIN payout \ hurried /\ m \in DOMAIN payout \ hurried
    BY <1>1, <1>2
  <2>2. n \in i..(m - 1) => n < m
    BY <2>1
  <2>3. ~(n \in i..(m - 1) /\ n \in InFlight /\ n \notin hurried)
    BY <2>1, <2>2 DEF OrderOK
  <2>4. AllFailed(i, m - 1)
    BY <1>17, <2>1, <2>3
  <2>5. payout[m].requestedAt - payout[i].requestedAt >= Waiting(m - i)
    BY <2>1, <2>4 DEF Spaced
  <2> QED BY <1>5, <2>1, <2>5
<1> QED BY <1>4, <1>10, <1>11, <1>12, <1>13, <1>14, <1>15, <1>18, <1>19

LEMMA SendTransferKeeps ==
  ASSUME PayoutAccountsInv, NEW c \in Clerks, SendTransfer(c)
  PROVE  PayoutAccountsInv'
<1> USE DEF PayoutAccountsInv
<1>1. clerk[c].pc = "send"
  BY DEF SendTransfer, Doing
<1>2. PICK n \in Seqs : n = clerk[c].payout /\ n \in DOMAIN payout
  BY <1>1, ClerkFields DEF NamesOK
<1>3. /\ UNCHANGED <<account, hour, errands, accountNo, moved, renewed, crossed, hurried>>
      /\ Goes(c, Idle)
      /\ \/ /\ clerk[c].bank # NoBank
            /\ payout' = [payout EXCEPT ![n].state = "processing", ![n].failedAt = -1,
                                        ![n].sentTo = clerk[c].bank]
         \/ payout' = [payout EXCEPT ![n].state = "failed", ![n].failedAt = hour]
  BY <1>2 DEF SendTransfer, accountHistory
<1>4. /\ clerk' \in [Clerks -> Counter]
      /\ \A d \in Clerks : clerk'[d] = IF d = c THEN Idle ELSE clerk[d]
  BY <1>3, ClerkJobs, ClerkSet
<1>5. n \notin crossed \cap hurried =>
        payout[n].state = "waiting" /\ \A d \in Clerks : Sender(d, n) => d = c
  BY <1>1, <1>2 DEF SendersOK, Sender
<1>6. n \notin hurried => n \in InFlight
  BY <1>2, <1>5 DEF InFlight
<1>7. n \notin crossed \cap hurried => \A d \in Clerks : ~Sender(d, n)'
  BY <1>4, <1>5 DEF Sender, Idle
<1>8. payout[n] \in PayoutRow /\ hour \in -1..LastHour /\ clerk[c].bank \in AnyBank /\ -1 \in -1..LastHour
  <2>1. hour \in 0..LastHour /\ LastHour \in Nat
    BY PayoutAccountsAssumption DEF PayoutAccountsTypeOK
  <2> QED BY <1>1, <1>2, <2>1, ClerkFields, RowFields
<1>9. PICK r \in PayoutRow :
        /\ payout' = [payout EXCEPT ![n] = r]
        /\ r.link = payout[n].link /\ r.bank = payout[n].bank
        /\ r.requestedAt = payout[n].requestedAt
        /\ r.state \in {"processing", "failed"} /\ (r.state = "failed" => r.failedAt = hour)
        /\ r.sentTo \in {payout[n].sentTo, clerk[c].bank}
  <2>1. CASE payout' = [payout EXCEPT ![n].state = "processing", ![n].failedAt = -1,
                                        ![n].sentTo = clerk[c].bank]
    <3> DEFINE r == [payout[n] EXCEPT !.state = "processing", !.failedAt = -1, !.sentTo = clerk[c].bank]
    <3>1. /\ r \in PayoutRow /\ r.link = payout[n].link /\ r.bank = payout[n].bank
          /\ r.requestedAt = payout[n].requestedAt /\ r.state = "processing"
          /\ r.sentTo = clerk[c].bank
      BY <1>8 DEF PayoutRow
    <3>2. payout' = [payout EXCEPT ![n] = r]
      BY <2>1
    <3> HIDE DEF r
    <3> QED BY <3>1, <3>2
  <2>2. CASE payout' = [payout EXCEPT ![n].state = "failed", ![n].failedAt = hour]
    <3> DEFINE r == [payout[n] EXCEPT !.state = "failed", !.failedAt = hour]
    <3>1. /\ r \in PayoutRow /\ r.link = payout[n].link /\ r.bank = payout[n].bank
          /\ r.requestedAt = payout[n].requestedAt /\ r.state = "failed" /\ r.failedAt = hour
          /\ r.sentTo = payout[n].sentTo
      BY <1>8 DEF PayoutRow
    <3>2. payout' = [payout EXCEPT ![n] = r]
      BY <2>2
    <3> HIDE DEF r
    <3> QED BY <3>1, <3>2
  <2> QED BY <1>3, <2>1, <2>2
<1>10. n \notin crossed => r.sentTo \in {NoBank, payout[n].bank}
  BY <1>1, <1>2, <1>9 DEF SentAsShown, DestinationOK
<1>11. \A d \in Clerks : clerk'[d] = clerk[d] \/ clerk'[d] = Idle
  BY <1>4
<1> HIDE DEF PayoutAccountsInv
<1> QED BY <1>2, <1>3, <1>4, <1>6, <1>7, <1>9, <1>10, <1>11, RowStep

LEMMA SettleKeeps ==
  ASSUME PayoutAccountsInv, NEW n \in Seqs, Settle(n)
  PROVE  PayoutAccountsInv'
<1> USE DEF PayoutAccountsInv
<1>1. /\ n \in DOMAIN payout /\ payout[n].state = "processing"
      /\ UNCHANGED <<account, hour, clerk, errands, accountNo, moved, renewed, crossed, hurried>>
      /\ \/ payout' = [payout EXCEPT ![n].state = "paid"]
         \/ payout' = [payout EXCEPT ![n].state = "failed", ![n].failedAt = hour]
  BY DEF Settle, accountHistory
<1>2. n \in InFlight /\ clerk' \in [Clerks -> Counter]
  BY <1>1 DEF InFlight, PayoutAccountsTypeOK
<1>3. n \notin crossed \cap hurried => \A d \in Clerks : ~Sender(d, n)
  BY <1>1 DEF SendersOK
<1>4. n \notin crossed \cap hurried => \A d \in Clerks : ~Sender(d, n)'
  BY <1>1, <1>3 DEF Sender
<1>5. payout[n] \in PayoutRow /\ hour \in -1..LastHour
  <2>1. hour \in 0..LastHour /\ LastHour \in Nat
    BY PayoutAccountsAssumption DEF PayoutAccountsTypeOK
  <2> QED BY <1>1, <2>1, RowFields
<1>6. PICK r \in PayoutRow :
        /\ payout' = [payout EXCEPT ![n] = r]
        /\ r.link = payout[n].link /\ r.bank = payout[n].bank
        /\ r.requestedAt = payout[n].requestedAt
        /\ r.state \in {"paid", "failed"} /\ (r.state = "failed" => r.failedAt = hour)
        /\ r.sentTo = payout[n].sentTo
  <2>1. CASE payout' = [payout EXCEPT ![n].state = "paid"]
    <3> DEFINE r == [payout[n] EXCEPT !.state = "paid"]
    <3>1. /\ r \in PayoutRow /\ r.link = payout[n].link /\ r.bank = payout[n].bank
          /\ r.requestedAt = payout[n].requestedAt /\ r.state = "paid"
          /\ r.sentTo = payout[n].sentTo
      BY <1>5 DEF PayoutRow
    <3>2. payout' = [payout EXCEPT ![n] = r]
      BY <2>1
    <3> HIDE DEF r
    <3> QED BY <3>1, <3>2
  <2>2. CASE payout' = [payout EXCEPT ![n].state = "failed", ![n].failedAt = hour]
    <3> DEFINE r == [payout[n] EXCEPT !.state = "failed", !.failedAt = hour]
    <3>1. /\ r \in PayoutRow /\ r.link = payout[n].link /\ r.bank = payout[n].bank
          /\ r.requestedAt = payout[n].requestedAt /\ r.state = "failed" /\ r.failedAt = hour
          /\ r.sentTo = payout[n].sentTo
      BY <1>5 DEF PayoutRow
    <3>2. payout' = [payout EXCEPT ![n] = r]
      BY <2>2
    <3> HIDE DEF r
    <3> QED BY <3>1, <3>2
  <2> QED BY <1>1, <2>1, <2>2
<1>7. n \notin crossed => r.sentTo \in {NoBank, payout[n].bank}
  BY <1>1, <1>6 DEF SentAsShown
<1>8. \A d \in Clerks : clerk'[d] = clerk[d] \/ clerk'[d] = Idle
  BY <1>1
<1>9. r.state # "waiting"
  BY <1>6
<1> HIDE DEF PayoutAccountsInv
<1> QED BY <1>1, <1>2, <1>4, <1>6, <1>7, <1>8, <1>9, RowStep

\* A payout that was not inserted leaves everything as it is.
LEMMA InsertRefusedKeeps ==
  ASSUME PayoutAccountsInv, NEW c \in Clerks, InsertPayout(c), payout' = payout, Goes(c, Idle)
  PROVE  PayoutAccountsInv'
<1> USE DEF PayoutAccountsInv
<1>1. /\ UNCHANGED <<account, payout, hour, accountNo, moved, renewed>>
      /\ errands' \in 0..MaxErrands
      /\ crossed \subseteq crossed' /\ crossed' \subseteq Seqs
      /\ hurried \subseteq hurried' /\ hurried' \subseteq Seqs
  BY ErrandsOK DEF InsertPayout, PayoutAccountsTypeOK
<1>2. Idle \in Counter /\ StepOK(c, Idle)
  BY ClerkJobs DEF StepOK, Idle
<1> QED BY <1>1, <1>2, ClerkStep

\* The new payout, and what its request waited for.
LEMMA InsertPayoutKeeps ==
  ASSUME PayoutAccountsInv, NEW c \in Clerks, InsertPayout(c)
  PROVE  PayoutAccountsInv'
<1> USE DEF PayoutAccountsInv
<1>1. PICK L \in Nat : L = Len(payout) /\ DOMAIN payout = 1..L /\ payout \in Seq(PayoutRow)
  BY DEF PayoutAccountsTypeOK
<1> DEFINE n == L + 1
           row == [state |-> "waiting", link |-> clerk[c].id, bank |-> clerk[c].bank,
                   failedAt |-> -1, requestedAt |-> hour, sentTo |-> NoBank]
<1>2. /\ clerk[c].pc = "insert" /\ c \in Requesting
      /\ IF clerk[c].id = account.id /\ n \in Seqs
         THEN /\ payout' = Append(payout, row)
              /\ Goes(c, Idle) \/ Goes(c, [pc |-> "load", payout |-> n])
         ELSE Goes(c, Idle) /\ UNCHANGED payout
      /\ crossed' = IF Editing = {} /\ ~clerk[c].late THEN crossed ELSE crossed \cup ({n} \cap Seqs)
      /\ hurried' = IF Requesting = {c} THEN hurried ELSE hurried \cup ({n, n + 1} \cap Seqs)
      /\ UNCHANGED <<account, hour, errands, accountNo, moved, renewed>>
  BY <1>1 DEF InsertPayout, Doing, Requesting
<1> SUFFICES ASSUME clerk[c].id = account.id, n \in Seqs PROVE PayoutAccountsInv'
  BY <1>2, InsertRefusedKeeps
<1>3. /\ clerk[c].id \in Nat /\ clerk[c].bank \in Banks /\ clerk[c].late \in BOOLEAN
      /\ clerk[c].id \in 1..accountNo /\ accountNo \in Nat
  <2>1. clerk[c].id \in 1..accountNo /\ accountNo \in Nat
    BY <1>2 DEF NamesOK, PayoutAccountsTypeOK
  <2> QED BY <1>2, <2>1, ClerkFields
<1>4. account.id # 0 /\ account'.id = account.id
  BY <1>2, <1>3
<1>5. hour \in 0..LastHour /\ hour \in Nat /\ -1 \in -1..LastHour /\ row \in PayoutRow
  <2>1. hour \in 0..LastHour /\ LastHour \in Nat
    BY PayoutAccountsAssumption DEF PayoutAccountsTypeOK
  <2>2. -1 \in -1..LastHour /\ hour \in Nat
    BY <2>1
  <2> QED BY <1>3, <2>1, <2>2 DEF PayoutRow, AnyBank
<1>6. PICK e \in Counter :
        Goes(c, e) /\ (e = Idle \/ (e.pc = "load" /\ e.payout = n))
  <2>1. Idle \in Counter /\ [pc |-> "load", payout |-> n] \in Counter
    BY ClerkJobs
  <2> QED BY <1>2, <2>1
<1>7. e.pc \in {"free", "load"}
  BY <1>6 DEF Idle
<1>8. /\ clerk' \in [Clerks -> Counter]
      /\ \A d \in Clerks : clerk'[d] = IF d = c THEN e ELSE clerk[d]
  BY <1>6, ClerkSet
<1>9. PICK new \in PayoutRow :
        /\ new = row /\ payout' = Append(payout, new)
        /\ new.state = "waiting" /\ new.link = account.id /\ new.bank = clerk[c].bank
        /\ new.requestedAt = hour /\ new.sentTo = NoBank
  BY <1>2, <1>5
<1> HIDE DEF row
<1>10. /\ payout' \in Seq(PayoutRow) /\ Len(payout') = n /\ DOMAIN payout' = 1..n
       /\ payout'[n] = new /\ \A k \in 1..L : payout'[k] = payout[k]
  BY <1>1, <1>9
<1>11. /\ crossed \subseteq crossed' /\ crossed' \subseteq Seqs
       /\ hurried \subseteq hurried' /\ hurried' \subseteq Seqs
       /\ n \notin crossed' => Editing = {} /\ ~clerk[c].late
       /\ n \notin hurried' \/ (n + 1 \in Seqs /\ n + 1 \notin hurried') => Requesting = {c}
  <2>1. crossed \subseteq Seqs /\ hurried \subseteq Seqs
    BY DEF PayoutAccountsTypeOK
  <2> QED BY <1>2, <2>1
<1>12. n <= MaxPayouts
  BY PayoutAccountsAssumption DEF Seqs
<1>13. PayoutAccountsTypeOK'
  BY <1>2, <1>8, <1>10, <1>11, <1>12 DEF PayoutAccountsTypeOK, Seqs
<1>14. \A k \in 1..n : k \in 1..L \/ k = n
  BY <1>1
<1>15. n \notin 1..L /\ 1..L \subseteq 1..n
  BY <1>1
<1>16. Requesting' = Requesting \ {c} /\ Editing' = Editing /\ Seqs' = Seqs
       /\ \A d \in Requesting' : clerk'[d] = clerk[d]
  BY <1>2, <1>7, <1>8 DEF Requesting, Editing, Seqs
<1>17. \A d \in Clerks : d # c => clerk'[d] = clerk[d]
  BY <1>8
<1>18. \A d \in Clerks, k \in 1..L : Sender(d, k)' => d # c /\ Sender(d, k)
  BY <1>6, <1>8, <1>15 DEF Sender, Idle
<1>19. NamesOK'
  <2>1. ASSUME NEW k \in 1..n
        PROVE  /\ payout'[k].requestedAt <= hour'
               /\ payout'[k].state = "failed" =>
                    payout'[k].requestedAt <= payout'[k].failedAt /\ payout'[k].failedAt <= hour'
    <3>1. CASE k = n
      BY <1>2, <1>5, <1>9, <1>10, <3>1
    <3>2. CASE k \in 1..L
      BY <1>1, <1>2, <1>10, <3>2 DEF NamesOK
    <3> QED BY <1>14, <3>1, <3>2
  <2>2. ASSUME NEW d \in Clerks
        PROVE  /\ clerk'[d].pc = "look" => clerk'[d].bank \in Banks
               /\ d \in Requesting' => clerk'[d].id \in 1..accountNo'
               /\ clerk'[d].pc \in {"load", "send"} => clerk'[d].payout \in DOMAIN payout'
    <3>1. CASE d = c
      <4>1. n \in 1..n
        BY <1>1
      <4> QED BY <1>6, <1>7, <1>8, <1>10, <1>16, <3>1, <4>1 DEF Idle
    <3>2. CASE d # c
      BY <1>1, <1>2, <1>10, <1>15, <1>16, <1>17, <3>2 DEF NamesOK
    <3> QED BY <3>1, <3>2
  <2>3. account'.id # 0 => account'.bank \in Banks
    BY <1>2 DEF NamesOK
  <2> QED BY <1>10, <2>1, <2>2, <2>3 DEF NamesOK
<1>20. \A d \in Clerks : d # c => ~Sender(d, n)'
  <2>1. \A d \in Clerks : clerk[d].pc \in {"load", "send"} => clerk[d].payout # n
    BY <1>1, <1>15 DEF NamesOK
  <2> QED BY <1>17, <2>1 DEF Sender
<1>21. SendersOK'
  <2> SUFFICES ASSUME NEW k \in DOMAIN payout' \ (crossed' \cap hurried'), NEW d \in Clerks,
                      Sender(d, k)'
               PROVE  payout'[k].state = "waiting" /\ \A g \in Clerks : Sender(g, k)' => g = d
    BY DEF SendersOK
  <2>1. CASE k = n
    BY <1>9, <1>10, <1>20, <2>1
  <2>2. CASE k \in 1..L
    <3>1. k \in DOMAIN payout \ (crossed \cap hurried) /\ Sender(d, k)
      BY <1>1, <1>11, <1>18, <2>2
    <3>2. payout[k].state = "waiting" /\ \A g \in Clerks : Sender(g, k) => g = d
      BY <3>1 DEF SendersOK
    <3> QED BY <1>10, <1>18, <2>2, <3>2
  <2> QED BY <1>10, <1>14, <2>1, <2>2
<1>22. DestinationOK'
  <2>1. ASSUME NEW k \in DOMAIN payout' \ crossed', payout'[k].state = "waiting"
        PROVE  /\ Editing' = {} /\ account'.id # 0
               /\ payout'[k].link = account'.id /\ payout'[k].bank = account'.bank
    <3>1. CASE k = n
      <4>1. Editing = {} /\ ~clerk[c].late
        BY <1>11, <2>1, <3>1
      <4>2. clerk[c].bank = account.bank
        BY <1>2, <4>1 DEF DestinationOK
      <4> QED BY <1>2, <1>4, <1>9, <1>10, <1>16, <3>1, <4>1, <4>2
    <3>2. CASE k \in 1..L
      <4>1. k \in DOMAIN payout \ crossed /\ payout[k].state = "waiting"
        BY <1>1, <1>10, <1>11, <2>1, <3>2
      <4>2. /\ Editing = {} /\ account.id # 0
            /\ payout[k].link = account.id /\ payout[k].bank = account.bank
        BY <4>1 DEF DestinationOK
      <4> QED BY <1>2, <1>10, <1>16, <3>2, <4>2
    <3> QED BY <1>10, <1>14, <2>1, <3>1, <3>2
  <2>2. ASSUME NEW k \in DOMAIN payout' \ crossed', NEW d \in Clerks,
               clerk'[d].pc = "send", clerk'[d].payout = k
        PROVE  clerk'[d].bank = payout'[k].bank
    <3>1. d # c /\ clerk'[d] = clerk[d]
      BY <1>7, <1>8, <2>2
    <3>2. k \in 1..L
      BY <1>1, <2>2, <3>1 DEF NamesOK
    <3>3. clerk[d].bank = payout[k].bank
      BY <1>1, <1>11, <2>2, <3>1, <3>2 DEF DestinationOK
    <3> QED BY <1>10, <3>1, <3>2, <3>3
  <2>3. \A d \in Requesting' : ~clerk'[d].late /\ clerk'[d].id = account'.id =>
          clerk'[d].bank = account'.bank
    BY <1>2, <1>16 DEF DestinationOK
  <2> QED BY <2>1, <2>2, <2>3 DEF DestinationOK
<1>23. SentAsShown'
  <2>1. ASSUME NEW k \in DOMAIN payout' \ crossed'
        PROVE  payout'[k].sentTo \in {NoBank, payout'[k].bank}
    <3>1. CASE k = n
      BY <1>9, <1>10, <3>1
    <3>2. CASE k \in 1..L
      BY <1>1, <1>10, <1>11, <2>1, <3>2 DEF SentAsShown
    <3> QED BY <1>10, <1>14, <2>1, <3>1, <3>2
  <2> QED BY <2>1 DEF SentAsShown
<1>24. ChangeKnown'
  BY <1>2 DEF ChangeKnown
<1>25. SettledFirst'
  BY <1>2, <1>16 DEF SettledFirst
<1>26. \A k \in InFlight' : k \in InFlight \/ k = n
  BY <1>1, <1>10, <1>14 DEF InFlight
<1>27. n \notin hurried' =>
         /\ InFlight \subseteq hurried
         /\ \A k \in 1..L : AllFailed(k, L) => hour - payout[k].requestedAt >= Waiting(n - k)
  <2> SUFFICES ASSUME n \notin hurried' 
               PROVE  /\ InFlight \subseteq hurried
                      /\ \A k \in 1..L : AllFailed(k, L) =>
                           hour - payout[k].requestedAt >= Waiting(n - k)
    OBVIOUS
  <2>1. Len(payout) + 1 \in Seqs \ hurried /\ c \in Clerks /\ clerk[c].pc \in {"lock", "insert"}
    BY <1>1, <1>2, <1>11
  <2> QED BY <1>1, <2>1 DEF OrderOK
<1>28. OrderOK'
  <2>1. ASSUME NEW m \in DOMAIN payout' \ hurried', NEW k \in InFlight', k < m
        PROVE  k \in hurried'
    <3>1. k \in 1..n
      BY <1>10 DEF InFlight
    <3>2. CASE m = n
      BY <1>1, <1>11, <1>26, <1>27, <2>1, <3>2
    <3>3. CASE m \in 1..L
      <4>1. k \in InFlight
        BY <1>1, <1>26, <2>1, <3>3
      <4> QED BY <1>1, <1>11, <2>1, <3>3, <4>1 DEF OrderOK
    <3> QED BY <1>10, <1>14, <2>1, <3>2, <3>3
  <2>2. n + 1 \in Seqs \ hurried' => Requesting' = {}
    BY <1>11, <1>16
  <2>3. \A d \in Clerks : clerk'[d].pc \in {"lock", "insert"} => d \in Requesting'
    BY DEF Requesting
  <2> QED BY <1>10, <1>16, <2>1, <2>2, <2>3 DEF OrderOK
<1>29. ASSUME NEW i \in 1..L, NEW m \in 1..L, AllFailed(i, m)'
       PROVE  AllFailed(i, m)
  <2>1. \A k \in i..m : payout'[k].state = "failed" /\ k \notin hurried'
    BY <1>29 DEF AllFailed
  <2>2. \A k \in i..m : k \in 1..L
    OBVIOUS
  <2>3. \A k \in i..m : payout[k].state = "failed" /\ k \notin hurried
    BY <1>10, <1>11, <2>1, <2>2
  <2> QED BY <2>3 DEF AllFailed
<1>30. Spaced'
  <2> SUFFICES ASSUME NEW i \in DOMAIN payout' \ hurried', NEW m \in DOMAIN payout' \ hurried',
                      i < m, AllFailed(i, m - 1)'
               PROVE  payout'[m].requestedAt - payout'[i].requestedAt >= Waiting(m - i)
    BY DEF Spaced
  <2>1. i \in 1..L /\ m - 1 \in 1..L /\ m \in 1..n
    BY <1>1, <1>10
  <2>2. AllFailed(i, m - 1)
    BY <1>29, <2>1
  <2>3. CASE m = n
    <3>1. m - 1 = L
      BY <1>1, <2>3
    <3>2. hour - payout[i].requestedAt >= Waiting(n - i)
      BY <1>27, <2>1, <2>2, <2>3, <3>1
    <3> QED BY <1>9, <1>10, <2>1, <2>3, <3>2
  <2>4. CASE m \in 1..L
    BY <1>1, <1>10, <1>11, <2>1, <2>2, <2>4 DEF Spaced
  <2> QED BY <1>14, <2>1, <2>3, <2>4
<1> QED BY <1>13, <1>19, <1>21, <1>22, <1>23, <1>24, <1>25, <1>28, <1>30

\* What an organisation's payouts show of its bank account holds always,
\* whoever edits it and whoever requests payouts at the same time.
\* (PayoutAccountsService, OrganizerPayoutsService, PayoutProcessingService)
THEOREM PayoutAccountsInvariant == PayoutAccountsSpec => []PayoutAccountsInv
<1>1. PayoutAccountsInit => PayoutAccountsInv
  <2> SUFFICES ASSUME PayoutAccountsInit PROVE PayoutAccountsInv
    OBVIOUS
  <2>1. /\ account = NoAccount /\ payout = <<>> /\ hour = 0 /\ errands = 0
        /\ \A c \in Clerks : clerk[c] = Idle
        /\ clerk = [c \in Clerks |-> Idle]
        /\ accountNo = 0 /\ moved = Never /\ renewed = FALSE /\ crossed = {} /\ hurried = {}
    BY DEF PayoutAccountsInit
  <2>2. /\ DOMAIN payout = {} /\ Len(payout) = 0 /\ payout \in Seq(PayoutRow)
        /\ Requesting = {} /\ InFlight = {} /\ Editing = {}
    BY <2>1 DEF Requesting, InFlight, Editing, Idle
  <2>3. Never \in -1..LastHour /\ 0 \in 0..LastHour /\ 0 \in 0..MaxErrands /\ 0 <= MaxPayouts
    BY PayoutAccountsAssumption DEF Never
  <2>4. clerk \in [Clerks -> Counter]
    BY <2>1, ClerkJobs
  <2>5. renewed \in BOOLEAN
    BY <2>1
  <2>6. PayoutAccountsTypeOK
    BY <2>1, <2>2, <2>3, <2>4, <2>5 DEF PayoutAccountsTypeOK, NoAccount, AnyBank
  <2>7. \A c \in Clerks : clerk[c].pc = "free"
    BY <2>1 DEF Idle
  <2>8. NamesOK
    BY <2>1, <2>2, <2>7 DEF NamesOK, NoAccount
  <2>9. SendersOK /\ DestinationOK /\ SentAsShown /\ ChangeKnown /\ SettledFirst
    BY <2>1, <2>2, <2>7 DEF SendersOK, DestinationOK, SentAsShown, ChangeKnown, SettledFirst
  <2>10. OrderOK /\ Spaced
    BY <2>1, <2>2, <2>7 DEF OrderOK, Spaced
  <2> QED BY <2>6, <2>8, <2>9, <2>10 DEF PayoutAccountsInv
<1>2. PayoutAccountsInv /\ [PayoutAccountsNext]_payoutAccountVars => PayoutAccountsInv'
  <2> SUFFICES ASSUME PayoutAccountsInv, [PayoutAccountsNext]_payoutAccountVars
               PROVE  PayoutAccountsInv'
    OBVIOUS
  <2>1. ASSUME NEW c \in Clerks, OrganizerPayoutsController(c) PROVE PayoutAccountsInv'
    BY <2>1, AskEditKeeps, AskPayoutKeeps DEF OrganizerPayoutsController
  <2>2. ASSUME NEW c \in Clerks, ReadExisting(c) \/ Resolve(c) PROVE PayoutAccountsInv'
    BY <2>2, EditStepKeeps
  <2>3. ASSUME NEW c \in Clerks, WriteAccount(c) PROVE PayoutAccountsInv'
    BY <2>3, WriteAccountKeeps
  <2>4. ASSUME NEW c \in Clerks, DeleteAccount(c) PROVE PayoutAccountsInv'
    BY <2>4, DeleteAccountKeeps
  <2>5. ASSUME NEW c \in Clerks, CheckBackoff(c) PROVE PayoutAccountsInv'
    BY <2>5, CheckBackoffKeeps
  <2>6. ASSUME NEW c \in Clerks, LockInFlight(c) PROVE PayoutAccountsInv'
    BY <2>6, LockInFlightKeeps
  <2>7. ASSUME NEW c \in Clerks, InsertPayout(c) PROVE PayoutAccountsInv'
    BY <2>7, InsertPayoutKeeps
  <2>8. ASSUME NEW c \in Clerks, LoadDestination(c) PROVE PayoutAccountsInv'
    BY <2>8, LoadDestinationKeeps
  <2>9. ASSUME NEW c \in Clerks, SendTransfer(c) PROVE PayoutAccountsInv'
    BY <2>9, SendTransferKeeps
  <2>10. ASSUME NEW c \in Clerks, NEW n \in Seqs, AskSend(c, n) PROVE PayoutAccountsInv'
    BY <2>10, AskSendKeeps
  <2>11. ASSUME NEW n \in Seqs, Settle(n) PROVE PayoutAccountsInv'
    BY <2>11, SettleKeeps
  <2>12. CASE TimePasses
    BY <2>12, TimePassesKeeps
  <2>13. CASE UNCHANGED payoutAccountVars
    BY <2>13 DEF payoutAccountVars, accountRows, accountHistory, PayoutAccountsInv,
       PayoutAccountsTypeOK, NamesOK, SendersOK, Sender, DestinationOK, SentAsShown, ChangeKnown,
       SettledFirst, OrderOK, Spaced, AllFailed, InFlight, Editing, Requesting, Seqs
  <2> QED BY <2>1, <2>2, <2>3, <2>4, <2>5, <2>6, <2>7, <2>8, <2>9, <2>10, <2>11, <2>12, <2>13
       DEF PayoutAccountsNext
<1> QED BY <1>1, <1>2, PTL DEF PayoutAccountsSpec

\* A payout goes to the bank account its row names, is not inserted sooner than
\* the cooldown after the details became others, and those that fail one after
\* the other are requested at growing distance, but for the cases the history
\* names.  (ensureAccountEditable, ensureAccountSettled, ensureNotBackingOff)
THEOREM PayoutAccountsAreExplained == PayoutAccountsSpec => []PayoutAccountsExplained
<1>1. PayoutAccountsInv => PayoutAccountsExplained
  BY SpacedBy DEF PayoutAccountsInv, PayoutAccountsExplained
<1> QED BY <1>1, PayoutAccountsInvariant, PTL

----------------------------------------------------------------------------
(* The modules side by side (module Community) *)

\* Whatever is in focus, each part does what its own module says, or nothing.
THEOREM CommunityKeepsParts ==
  CommunitySpec => /\ OrganisationsSpec /\ EngagementSpec /\ CommentsSpec /\ TransfersSpec
                   /\ PayoutAccountsSpec /\ ListingsSpec /\ SearchSpec
<1>1. CommunityInit => /\ OrganisationsInit /\ EngagementInit /\ CommentsInit /\ TransfersInit
                       /\ PayoutAccountsInit /\ ListingsInit /\ SearchInit
  BY DEF CommunityInit
<1>2. ASSUME [CommunityNext]_communityVars
      PROVE  /\ [OrganisationsNext]_orgVars /\ [EngagementNext]_engagementVars
             /\ [CommentsNext]_commentVars /\ [TransfersNext]_transferVars
             /\ [PayoutAccountsNext]_payoutAccountVars /\ [ListingsNext]_listingVars
             /\ [SearchNext]_searchVars
  <2>1. CASE CommunityNext
    BY <2>1 DEF CommunityNext
  <2>2. CASE UNCHANGED communityVars
    BY <2>2 DEF communityVars
  <2> QED BY <1>2, <2>1, <2>2
<1> QED
  BY <1>1, <1>2, PTL
  DEF CommunitySpec, OrganisationsSpec, EngagementSpec, CommentsSpec, TransfersSpec,
      PayoutAccountsSpec, ListingsSpec, SearchSpec

\* Whichever part is in focus, its rows and requests have the types of the code's.
THEOREM CommunityTypeCorrect == CommunitySpec => []CommunityTypeOK
<1>1. /\ OrganisationsInv => OrganisationsTypeOK
      /\ EngagementInv => EngagementTypeOK
      /\ CommentsInv => CommentsTypeOK
      /\ TransfersInv => TransfersTypeOK
      /\ PayoutAccountsInv => PayoutAccountsTypeOK
      /\ ListingsInv => ListingsTypeOK
      /\ SearchInv => SearchTypeOK
  BY DEF OrganisationsInv, EngagementInv, CommentsInv, TransfersInv, PayoutAccountsInv,
         ListingsInv, SearchInv
<1>2. CommunitySpec => [](focus \in Focuses)
  <2>1. CommunityInit => focus \in Focuses
    BY DEF CommunityInit
  <2>2. focus \in Focuses /\ [CommunityNext]_communityVars => (focus \in Focuses)'
    BY DEF CommunityNext, communityVars, Focuses
  <2> QED BY <2>1, <2>2, PTL DEF CommunitySpec
<1>3. /\ OrganisationsTypeOK /\ EngagementTypeOK /\ CommentsTypeOK /\ TransfersTypeOK
      /\ PayoutAccountsTypeOK /\ ListingsTypeOK /\ SearchTypeOK /\ focus \in Focuses
      => CommunityTypeOK
  BY DEF CommunityTypeOK, Focuses
<1> QED
  BY <1>1, <1>2, <1>3, CommunityKeepsParts, OrganisationsInvariant, EngagementInvariant,
     CommentsInvariant, TransfersInvariant, PayoutAccountsInvariant, ListingsInvariant,
     SearchInvariant, PTL

\* Every list and every search finds what it is asked for, whatever is bought,
\* deleted, hidden or blocked between its queries.
THEOREM ReadsAreExplained == CommunitySpec => []ReadsExplained
<1>1. ListingsExplained /\ SearchExplained => ReadsExplained
  BY DEF ReadsExplained
<1> QED BY <1>1, CommunityKeepsParts, ListingsAreExplained, SearchIsExplained, PTL

\* What the memberships, attachments, comments, tickets and bank accounts promise
\* on their own holds of them together.
THEOREM CommunityIsExplained ==
  CommunitySpec => [](/\ OrganisationsExplained /\ EngagementExplained /\ CommentsExplained
                      /\ TransfersExplained /\ PayoutAccountsExplained)
BY CommunityKeepsParts, OrganisationsAreExplained, EngagementIsExplained, CommentsAreExplained,
   TransfersAreExplained, PayoutAccountsAreExplained, PTL

=============================================================================
