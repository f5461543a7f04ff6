------------------------------ MODULE Profiles ------------------------------
(***************************************************************************)
(* Profiles of accounts: completing one after sign-up and changing it.     *)
(*                                                                         *)
(* Both load the profile, look whether the username is free, put the new   *)
(* picture in the place of the one they loaded, and save the row: a read,  *)
(* two calls of the storage and a write, in no transaction.  Completing    *)
(* also credits a referrer, and stores the interests after the row says    *)
(* that the profile is complete.                                           *)
(***************************************************************************)
EXTENDS Integers, FiniteSets

CONSTANTS Joiners,   \* accounts
          Handles,   \* usernames
          Screens,   \* requests running at the same time
          MaxSubmits \* bound on the requests

ASSUME ProfilesAssumption == MaxSubmits \in Nat

VARIABLES username,  \* [Joiners -> Handles \cup {"none"}]
          completed, \* completed_at is set
          referrer,  \* [Joiners -> Joiners \cup {"none"}]
          avatar,    \* [Joiners -> Avatars]: avatar_path, 0 for none
          storage,   \* pictures in the storage
          interested,\* accounts with rows in interest_user
          page,      \* [Screens -> Page] (volatile)
          submits,   \* requests so far; each names its picture by its number
          credited,  \* history: [Joiners -> SUBSET Joiners], referrers written
          doubled,   \* history: accounts with two requests at once
          unshown,   \* history: accounts of a request that ended with a picture moved
          halfway,   \* history: accounts whose interests were not stored
          strays     \* history: pictures a request left behind

row == <<username, completed, referrer, avatar>>
past == <<credited, doubled, unshown, halfway, strays>>
profileVars == <<row, storage, interested, page, submits, past>>

Avatars == 0..MaxSubmits
ReferralCodes == Joiners \cup {"none", "wrong"}

Closed == [pc |-> "free"]
Open(pcs) ==
  [pc : pcs, by : Joiners, name : Handles \cup {"none"}, code : ReferralCodes, new : Avatars,
   remove : BOOLEAN, was : Avatars, kind : {"complete", "update"}]
Page ==
  {Closed} \cup Open({"username", "referral", "delete", "put", "save"})
    \cup [pc : {"sync"}, by : Joiners]

ProfilesTypeOK ==
  /\ username \in [Joiners -> Handles \cup {"none"}]
  /\ completed \subseteq Joiners /\ interested \subseteq Joiners
  /\ referrer \in [Joiners -> Joiners \cup {"none"}]
  /\ avatar \in [Joiners -> Avatars] /\ storage \subseteq Avatars \ {0}
  /\ page \in [Screens -> Page] /\ submits \in 0..MaxSubmits
  /\ credited \in [Joiners -> SUBSET Joiners]
  /\ doubled \subseteq Joiners /\ unshown \subseteq Joiners /\ halfway \subseteq Joiners
  /\ strays \subseteq Avatars

ProfilesInit ==
  /\ username = [a \in Joiners |-> "none"] /\ completed = {} /\ interested = {}
  /\ referrer = [a \in Joiners |-> "none"]
  /\ avatar = [a \in Joiners |-> 0] /\ storage = {}
  /\ page = [d \in Screens |-> Closed] /\ submits = 0
  /\ credited = [a \in Joiners |-> {}]
  /\ doubled = {} /\ unshown = {} /\ halfway = {} /\ strays = {}

AtScreen(d, pc) == page[d].pc = pc
Goto(d, pc) == page' = [page EXCEPT ![d].pc = pc]
Display(d, j) == page' = [page EXCEPT ![d] = j]
Busy(a) == \E d \in Screens : page[d] # Closed /\ page[d].by = a

\* The deletion is done or about to be: what was loaded may no longer be there.
Moved(p) == p.pc \in {"put", "save"} /\ p.was # 0 /\ (p.new # 0 \/ p.remove)
Waiting(p) == p.pc = "save" /\ p.new # 0

\* Refused by a rule or a key, or the process dies: what was done stays done.
GiveUpPage(d) ==
  LET p == page[d]
  IN /\ p # Closed /\ Display(d, Closed)
     /\ unshown' = IF Moved(p) THEN unshown \cup {p.by} ELSE unshown
     /\ strays' = IF Waiting(p) THEN strays \cup {p.new} ELSE strays
     /\ halfway' = IF p.pc = "sync" THEN halfway \cup {p.by} ELSE halfway
     /\ UNCHANGED <<row, storage, interested, submits, credited, doubled>>

\* Mutant of Credit: a profile that has a referrer is credited again.
CreditAgain(a, code) == code
\* The code counts only if the profile loaded has no referrer.
Credit(a, code) == IF referrer[a] = "none" THEN code ELSE "none"

Load(d, a, name, code, pic, remove, kind) ==
  /\ AtScreen(d, "free") /\ submits < MaxSubmits /\ submits' = submits + 1
  /\ Display(d, [pc |-> "username", by |-> a, name |-> name,
              code |-> Credit(a, code),
              new |-> IF pic THEN submits' ELSE 0, remove |-> remove,
              was |-> avatar[a], kind |-> kind])
  /\ doubled' = IF Busy(a) THEN doubled \cup {a} ELSE doubled
  /\ UNCHANGED <<row, storage, interested, credited, unshown, halfway, strays>>

----------------------------------------------------------------------------
(* OnboardingService and ProfileService *)

Complete(d, a, name, code, pic) ==
  name # "none" /\ Load(d, a, name, code, pic, FALSE, "complete")

\* A picture is replaced or, if one was loaded, removed.
UpdateProfile(d, a, name, pic, remove) ==
  /\ ~(pic /\ remove)
  /\ Load(d, a, name, "none", pic, remove, "update")

EnsureAvailable(d) ==
  LET p == page[d]
  IN /\ AtScreen(d, "username")
     /\ p.name # "none" => \A b \in Joiners \ {p.by} : username[b] # p.name
     /\ Goto(d, "referral")
     /\ UNCHANGED <<row, storage, interested, submits, past>>

\* A code of nobody is refused; one's own credits nobody.
ResolveReferral(d) ==
  LET p == page[d]
  IN /\ AtScreen(d, "referral") /\ p.code # "wrong"
     /\ Display(d, [p EXCEPT !.pc = IF p.new # 0 \/ p.remove THEN "delete" ELSE "save",
                          !.code = IF @ = p.by THEN "none" ELSE @])
     /\ UNCHANGED <<row, storage, interested, submits, past>>

DeleteAvatar(d) ==
  LET p == page[d]
  IN /\ AtScreen(d, "delete")
     /\ storage' = storage \ {p.was}
     /\ Goto(d, IF p.new # 0 THEN "put" ELSE "save")
     /\ UNCHANGED <<row, interested, submits, past>>

StoreAvatar(d) ==
  /\ AtScreen(d, "put")
  /\ storage' = storage \cup {page[d].new}
  /\ Goto(d, "save")
  /\ UNCHANGED <<row, interested, submits, past>>

\* The unique index refuses a name taken since it was looked for.  A picture
\* saved over one that was not loaded stays in the storage.
SaveRow(d) ==
  LET p == page[d]
      saved == IF p.new # 0 THEN p.new ELSE IF p.remove /\ p.was # 0 THEN 0 ELSE avatar[p.by]
      credit == IF p.code = "none" THEN referrer[p.by] ELSE p.code
  IN /\ \A b \in Joiners \ {p.by} : p.name = "none" \/ username[b] # p.name
     /\ username' = IF p.name = "none" THEN username ELSE [username EXCEPT ![p.by] = p.name]
     /\ avatar' = [avatar EXCEPT ![p.by] = saved]
     /\ referrer' = [referrer EXCEPT ![p.by] = credit]
     /\ credited' = IF p.code = "none" THEN credited
                    ELSE [credited EXCEPT ![p.by] = @ \cup {p.code}]
     /\ strays' = IF avatar[p.by] \in {0, saved, p.was} THEN strays
                  ELSE strays \cup {avatar[p.by]}

SaveCompletion(d) ==
  /\ AtScreen(d, "save") /\ page[d].kind = "complete"
  /\ SaveRow(d)
  /\ completed' = completed \cup {page[d].by}
  /\ Display(d, [pc |-> "sync", by |-> page[d].by])
  /\ UNCHANGED <<storage, interested, submits, doubled, unshown, halfway>>

SaveUpdate(d) ==
  /\ AtScreen(d, "save") /\ page[d].kind = "update"
  /\ SaveRow(d)
  /\ Display(d, Closed)
  /\ UNCHANGED <<completed, storage, interested, submits, doubled, unshown, halfway>>

\* At least one interest; refused if one was deleted since it was looked for.
SyncInterests(d) ==
  /\ AtScreen(d, "sync")
  /\ interested' = interested \cup {page[d].by}
  /\ Display(d, Closed)
  /\ UNCHANGED <<row, storage, submits, past>>

OnboardingController ==
  \E d \in Screens :
    \/ SaveCompletion(d) \/ SyncInterests(d)
    \/ \E a \in Joiners, name \in Handles, code \in ReferralCodes, pic \in BOOLEAN :
         Complete(d, a, name, code, pic)

ProfileController ==
  \E d \in Screens :
    \/ SaveUpdate(d)
    \/ \E a \in Joiners, name \in Handles \cup {"none"}, pic, remove \in BOOLEAN :
         UpdateProfile(d, a, name, pic, remove)

ProfilesNext ==
  \/ OnboardingController \/ ProfileController
  \/ \E d \in Screens :
       \/ EnsureAvailable(d) \/ ResolveReferral(d)
       \/ DeleteAvatar(d) \/ StoreAvatar(d) \/ GiveUpPage(d)

ProfilesSpec == ProfilesInit /\ [][ProfilesNext]_profileVars

----------------------------------------------------------------------------
(* Properties *)

\* No two profiles share a username, whoever looked first.
UsernamesUnique ==
  \A a, b \in Joiners : a # b /\ username[a] = username[b] => username[a] = "none"

\* A profile's picture is in the storage, unless a request of its owner is
\* replacing it, ended while it was, or ran beside another.
AvatarsShown ==
  \A a \in Joiners \ (doubled \cup unshown) :
    avatar[a] \in storage \cup {0} \/ \E d \in Screens : Moved(page[d]) /\ page[d].by = a

\* A picture in the storage is some profile's, about to be, or left behind by
\* a request that ended before it was saved or that saved over another's.
StorageUsed ==
  \A f \in storage :
    \/ \E a \in Joiners : avatar[a] = f
    \/ \E d \in Screens : Waiting(page[d]) /\ page[d].new = f
    \/ f \in strays

\* An account is credited to one other account at most, and to it for good,
\* unless it completed its profile twice at once.
ReferredOnce ==
  \A a \in Joiners \ doubled :
    credited[a] = {referrer[a]} \ {"none", a}

\* A complete profile has interests, unless storing them is still to come or
\* failed after the profile was made complete.
InterestsStored ==
  completed \subseteq
    interested \cup halfway \cup {page[d].by : d \in {e \in Screens : AtScreen(e, "sync")}}

\* What a profile says is what its owner's requests left behind.
ProfilesExplained ==
  UsernamesUnique /\ AvatarsShown /\ StorageUsed /\ ReferredOnce /\ InterestsStored

=============================================================================
