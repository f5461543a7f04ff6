----------------------------- MODULE Community -----------------------------
(***************************************************************************)
(* What people attach to organisations, events and one another, the bank   *)
(* account an organisation is paid to and the lists it all is read from.   *)
(* These modules share no state, so they are not interleaved: focus says   *)
(* which one a behaviour is about, and the others stay as they began.      *)
(***************************************************************************)
EXTENDS Organisations, Engagement, Comments, Transfers, PayoutAccounts, Listings,
        Search

VARIABLE focus

Focuses == {"organisations", "engagement", "comments", "transfers",
            "payout accounts", "listings", "search"}
communityVars ==
  <<orgVars, engagementVars, commentVars, transferVars, payoutAccountVars, listingVars,
    searchVars, focus>>

SearchIdle ==
  /\ sought = [kind |-> "event", form |-> "all"] /\ indexed = {} /\ mine = {}
  /\ score = [r \in Hits |-> 1]

CommunityInit ==
  /\ OrganisationsInit /\ EngagementInit /\ CommentsInit /\ TransfersInit
  /\ focus \in Focuses
  /\ PayoutAccountsInit /\ ListingsInit /\ SearchInit
  /\ focus # "listings" => listing = "orders" /\ present = {}
  /\ focus # "search" => SearchIdle

CommunityNext ==
  /\ UNCHANGED focus
  /\ \/ /\ focus = "organisations" /\ OrganisationsNext
        /\ UNCHANGED <<engagementVars, commentVars, transferVars, payoutAccountVars, listingVars,
                       searchVars>>
     \/ /\ focus = "engagement" /\ EngagementNext
        /\ UNCHANGED <<orgVars, commentVars, transferVars, payoutAccountVars, listingVars,
                       searchVars>>
     \/ /\ focus = "comments" /\ CommentsNext
        /\ UNCHANGED <<orgVars, engagementVars, transferVars, payoutAccountVars, listingVars,
                       searchVars>>
     \/ /\ focus = "transfers" /\ TransfersNext
        /\ UNCHANGED <<orgVars, engagementVars, commentVars, payoutAccountVars, listingVars,
                       searchVars>>
     \/ /\ focus = "payout accounts" /\ PayoutAccountsNext
        /\ UNCHANGED <<orgVars, engagementVars, commentVars, transferVars, listingVars,
                       searchVars>>
     \/ /\ focus = "listings" /\ ListingsNext
        /\ UNCHANGED <<orgVars, engagementVars, commentVars, transferVars, payoutAccountVars,
                       searchVars>>
     \/ /\ focus = "search" /\ SearchNext
        /\ UNCHANGED <<orgVars, engagementVars, commentVars, transferVars, payoutAccountVars,
                       listingVars>>

CommunitySpec == CommunityInit /\ [][CommunityNext]_communityVars

\* What is not in focus stays as it began: only what is has to be looked at.
CommunityTypeOK ==
  CASE focus = "organisations" -> OrganisationsTypeOK
    [] focus = "engagement" -> EngagementTypeOK
    [] focus = "comments" -> CommentsTypeOK
    [] focus = "transfers" -> TransfersTypeOK
    [] focus = "payout accounts" -> PayoutAccountsTypeOK
    [] focus = "listings" -> ListingsTypeOK
    [] focus = "search" -> SearchTypeOK

\* Every list and every search found what it was asked for (Listings, Search).
ReadsExplained == ListingsExplained /\ SearchExplained
=============================================================================
