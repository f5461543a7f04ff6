--------------------------- MODULE Organisations ---------------------------
(***************************************************************************)
(* Organisations: their members and owner, suspension, deletion, and their *)
(* entry in the search index.                                              *)
(*                                                                         *)
(* A role is read in one query and acted upon in another; a change of      *)
(* owner is one transaction, but a second one that began beside it demotes *)
(* the owners it saw and waits for the first; and a deletion of an account *)
(* that was validated is executed later, whatever its user has become.     *)
(***************************************************************************)
EXTENDS Integers, FiniteSets

CONSTANTS Orgs,    \* organisation ids a run may create
          Staff,   \* accounts
          Offices, \* requests running at the same time
          MaxMoves \* bound on the requests

ASSUME OrganisationsAssumption == MaxMoves \in Nat

VARIABLES org,       \* [Orgs -> OrgState]
          role,      \* [Orgs -> [Staff -> Role]]: organisation_members
          departed,  \* deleted accounts
          closing,   \* accounts whose deletion has been validated
          listed,    \* organisations in the search index
          office,    \* [Offices -> Job] (volatile)
          moves,     \* requests so far
          contested, \* history: organisations whose ownership was written on stale news
          stray      \* history: organisations listed on stale news, or left half done

orgVars == <<org, role, departed, closing, listed, office, moves, contested, stray>>
membership == <<role, departed, closing>>

OrgState == {"none", "active", "suspended", "deleted"}
Role == {"none", "member", "owner"}
Existing == {o \in Orgs : org[o] \in {"active", "suspended"}}
Owners(o) == {p \in Staff : role[o][p] = "owner"}

Off == [pc |-> "off"]
OfficeJob ==
  {Off}
    \cup [pc : {"save", "unlist", "drop"}, org : Orgs]
    \cup [pc : {"list"}, org : Orgs, seen : OrgState]
    \cup [pc : {"add", "remove"}, org : Orgs, who : Staff]
    \cup [pc : {"demote"}, org : Orgs, who : Staff]
    \cup [pc : {"promote"}, org : Orgs, who : Staff, seen : SUBSET Staff]
    \cup [pc : {"relist"}, todo : SUBSET Orgs, seen : [Orgs -> OrgState]]

OrganisationsTypeOK ==
  /\ org \in [Orgs -> OrgState]
  /\ role \in [Orgs -> [Staff -> Role]]
  /\ departed \subseteq Staff /\ closing \subseteq Staff
  /\ listed \subseteq Orgs
  /\ office \in [Offices -> OfficeJob]
  /\ moves \in 0..MaxMoves
  /\ contested \subseteq Orgs /\ stray \subseteq Orgs

OrganisationsInit ==
  /\ org = [o \in Orgs |-> "none"]
  /\ role = [o \in Orgs |-> [p \in Staff |-> "none"]]
  /\ departed = {} /\ closing = {} /\ listed = {}
  /\ office = [d \in Offices |-> Off]
  /\ moves = 0 /\ contested = {} /\ stray = {}

AtOffice(d, pc) == office[d].pc = pc
Sit(d, j) == office' = [office EXCEPT ![d] = j]
Rise(d) == Sit(d, Off)
Move == moves < MaxMoves /\ moves' = moves + 1
\* ensureManage: only the owner.
Manages(p, o) == p \notin departed /\ role[o][p] = "owner"

\* The process ends between two steps of a request.
Break(d) ==
  /\ office[d] # Off /\ Rise(d)
  /\ stray' = IF office[d].pc = "unlist" THEN stray \cup {office[d].org} ELSE stray
  /\ UNCHANGED <<org, membership, listed, moves, contested>>

----------------------------------------------------------------------------
(* The search index: what a request loaded is what it lists. *)

ListAs(o, s) ==
  /\ listed' = IF s = "suspended" THEN listed \ {o} ELSE listed \cup {o}
  /\ stray' = IF s # org[o] THEN stray \cup {o} ELSE stray

ListOrganisation(d) ==
  /\ AtOffice(d, "list")
  /\ ListAs(office[d].org, office[d].seen) /\ Rise(d)
  /\ UNCHANGED <<org, membership, moves, contested>>

UnlistOrganisation(d) ==
  /\ AtOffice(d, "unlist")
  /\ listed' = listed \ {office[d].org} /\ Rise(d)
  /\ UNCHANGED <<org, membership, moves, contested, stray>>

\* The maintenance task loads all organisations and lists them one by one.
StartReindex(d) ==
  /\ Move /\ AtOffice(d, "off") /\ Existing # {}
  /\ Sit(d, [pc |-> "relist", todo |-> Existing, seen |-> org])
  /\ UNCHANGED <<org, membership, listed, contested, stray>>

Reindex(d) ==
  /\ AtOffice(d, "relist")
  /\ \E o \in office[d].todo :
       /\ ListAs(o, office[d].seen[o])
       /\ IF office[d].todo = {o} THEN Rise(d)
          ELSE Sit(d, [office[d] EXCEPT !.todo = @ \ {o}])
  /\ UNCHANGED <<org, membership, moves, contested>>

----------------------------------------------------------------------------
(* The organiser's side *)

CreateOrganisation(d, o, p) ==
  /\ Move /\ AtOffice(d, "off") /\ org[o] = "none" /\ p \notin departed
  /\ org' = [org EXCEPT ![o] = "active"]
  /\ role' = [role EXCEPT ![o][p] = "owner"]
  /\ Sit(d, [pc |-> "list", org |-> o, seen |-> "active"])
  /\ UNCHANGED <<departed, closing, listed, contested, stray>>

UpdateOrganisation(d, o, p) ==
  /\ Move /\ AtOffice(d, "off") /\ o \in Existing /\ Manages(p, o)
  /\ Sit(d, [pc |-> "save", org |-> o])
  /\ UNCHANGED <<org, membership, listed, contested, stray>>

Save(d) ==
  /\ AtOffice(d, "save") /\ office[d].org \in Existing
  /\ Sit(d, [pc |-> "list", org |-> office[d].org, seen |-> org[office[d].org]])
  /\ UNCHANGED <<org, membership, listed, moves, contested, stray>>

AddByEmail(d, o, p, q) ==
  /\ Move /\ AtOffice(d, "off") /\ o \in Existing /\ Manages(p, o)
  /\ q \notin departed /\ role[o][q] = "none"
  /\ Sit(d, [pc |-> "add", org |-> o, who |-> q])
  /\ UNCHANGED <<org, membership, listed, contested, stray>>

\* The primary key lets one of two insertions pass.
InsertMember(d) ==
  LET o == office[d].org  q == office[d].who
  IN /\ AtOffice(d, "add") /\ o \in Existing /\ q \notin departed /\ role[o][q] = "none"
     /\ role' = [role EXCEPT ![o][q] = "member"]
     /\ Rise(d)
     /\ UNCHANGED <<org, departed, closing, listed, moves, contested, stray>>

RemoveByUserId(d, o, p, q) ==
  /\ Move /\ AtOffice(d, "off") /\ o \in Existing /\ Manages(p, o)
  /\ q \notin departed /\ role[o][q] # "owner"
  /\ Sit(d, [pc |-> "remove", org |-> o, who |-> q])
  /\ UNCHANGED <<org, membership, listed, contested, stray>>

\* The row is deleted whatever its role is by now.
DeleteMember(d) ==
  LET o == office[d].org  q == office[d].who
  IN /\ AtOffice(d, "remove")
     /\ role' = [role EXCEPT ![o][q] = "none"]
     /\ contested' = IF role[o][q] = "owner" THEN contested \cup {o} ELSE contested
     /\ Rise(d)
     /\ UNCHANGED <<org, departed, closing, listed, moves, stray>>

----------------------------------------------------------------------------
(* The admin's side *)

SuspendOrganisation(d, o) ==
  /\ Move /\ AtOffice(d, "off") /\ o \in Existing
  /\ org' = [org EXCEPT ![o] = "suspended"]
  /\ Sit(d, [pc |-> "unlist", org |-> o])
  /\ UNCHANGED <<membership, listed, contested, stray>>

Reinstate(d, o) ==
  /\ Move /\ AtOffice(d, "off") /\ org[o] = "suspended"
  /\ org' = [org EXCEPT ![o] = "active"]
  /\ Sit(d, [pc |-> "list", org |-> o, seen |-> "active"])
  /\ UNCHANGED <<membership, listed, contested, stray>>

\* changeOwner: the candidate is a member, ...
ChangeOwner(d, o, q) ==
  /\ Move /\ AtOffice(d, "off") /\ o \in Existing /\ role[o][q] # "none"
  /\ Sit(d, [pc |-> "demote", org |-> o, who |-> q])
  /\ UNCHANGED <<org, membership, listed, contested, stray>>

\* ... the owners are those committed when the demotion begins, ...
Demote(d) ==
  /\ AtOffice(d, "demote")
  /\ Sit(d, [pc |-> "promote", org |-> office[d].org, who |-> office[d].who,
             seen |-> Owners(office[d].org)])
  /\ UNCHANGED <<org, membership, listed, moves, contested, stray>>

\* Mutant of Promote: nobody is demoted.
PromoteBeside(d) ==
  LET o == office[d].org  q == office[d].who
  IN /\ AtOffice(d, "promote") /\ role[o][q] # "none"
     /\ role' = [role EXCEPT ![o][q] = "owner"]
     /\ contested' = IF office[d].seen # Owners(o) THEN contested \cup {o} ELSE contested
     /\ Rise(d)
     /\ UNCHANGED <<org, departed, closing, listed, moves, stray>>
\* ... and the commit demotes those that still are, and promotes the
\* candidate, if the row is still there.
Promote(d) ==
  LET o == office[d].org  q == office[d].who  seen == office[d].seen
  IN /\ AtOffice(d, "promote") /\ role[o][q] # "none"
     /\ role' = [role EXCEPT ![o] = [p \in Staff |->
          IF p = q THEN "owner"
          ELSE IF p \in seen /\ role[o][p] = "owner" THEN "member" ELSE role[o][p]]]
     /\ contested' = IF seen # Owners(o) THEN contested \cup {o} ELSE contested
     /\ Rise(d)
     /\ UNCHANGED <<org, departed, closing, listed, moves, stray>>

\* purge: out of the index first, then the row with all that hangs on it.
DeleteOrganisation(d, o) ==
  /\ Move /\ AtOffice(d, "off") /\ o \in Existing
  /\ listed' = listed \ {o}
  /\ Sit(d, [pc |-> "drop", org |-> o])
  /\ UNCHANGED <<org, membership, contested, stray>>

DropRow(d) ==
  LET o == office[d].org
  IN /\ AtOffice(d, "drop") /\ o \in Existing
     /\ org' = [org EXCEPT ![o] = "deleted"]
     /\ role' = [role EXCEPT ![o] = [p \in Staff |-> "none"]]
     /\ stray' = IF o \in listed THEN stray \cup {o} ELSE stray
     /\ Rise(d)
     /\ UNCHANGED <<departed, closing, listed, moves, contested>>

----------------------------------------------------------------------------
(* The deletion of an account, seen from its organisations *)

OwnsNothing(p) == \A o \in Orgs : role[o][p] # "owner"

ValidateDeletion(p) ==
  /\ Move /\ p \notin departed \cup closing /\ OwnsNothing(p)
  /\ closing' = closing \cup {p}
  /\ UNCHANGED <<org, role, departed, listed, office, contested, stray>>

ExecuteDeletion(p) ==
  /\ p \in closing
  /\ departed' = departed \cup {p} /\ closing' = closing \ {p}
  /\ role' = [o \in Orgs |-> [role[o] EXCEPT ![p] = "none"]]
  /\ contested' = contested \cup {o \in Orgs : role[o][p] = "owner"}
  /\ UNCHANGED <<org, listed, office, moves, stray>>

----------------------------------------------------------------------------
(* The routes *)

OrganisationsController ==
  \E d \in Offices :
    \/ Save(d) \/ ListOrganisation(d)
    \/ \E o \in Orgs, p \in Staff : CreateOrganisation(d, o, p) \/ UpdateOrganisation(d, o, p)

MembersController ==
  \E d \in Offices :
    \/ InsertMember(d) \/ DeleteMember(d)
    \/ \E o \in Orgs, p, q \in Staff : AddByEmail(d, o, p, q) \/ RemoveByUserId(d, o, p, q)

AdminOrganisationsController ==
  \E d \in Offices :
    \/ UnlistOrganisation(d) \/ Demote(d) \/ Promote(d) \/ DropRow(d)
    \/ \E o \in Orgs :
         \/ SuspendOrganisation(d, o) \/ Reinstate(d, o) \/ DeleteOrganisation(d, o)
         \/ \E q \in Staff : ChangeOwner(d, o, q)

OrganisationsNext ==
  \/ OrganisationsController \/ MembersController \/ AdminOrganisationsController
  \/ \E p \in Staff : ValidateDeletion(p) \/ ExecuteDeletion(p)
  \/ \E d \in Offices : StartReindex(d) \/ Reindex(d) \/ Break(d)

OrganisationsSpec == OrganisationsInit /\ [][OrganisationsNext]_orgVars

----------------------------------------------------------------------------
(* Properties *)

\* An organisation has exactly one owner, but for one whose ownership was
\* written on stale news: a change of owner beside another, the removal of
\* somebody promoted since, a deletion validated before the promotion.
OneOwner ==
  \A o \in Existing \ contested : Cardinality(Owners(o)) = 1

\* Search does not list a suspended or deleted organisation, but while the
\* suspension is still at it, or after somebody listed what it had loaded
\* before, or died in between.
ListingExplained ==
  \A o \in listed \ stray :
    \/ org[o] = "active"
    \/ \E d \in Offices : AtOffice(d, "unlist") /\ office[d].org = o

\* Ownership and listing are what the rows and the suspensions say.
OrganisationsExplained == OneOwner /\ ListingExplained

=============================================================================
