---------------------------- MODULE MCStorefront ----------------------------
(***************************************************************************)
(* The profiles of accounts, the catalogue of an organisation and the      *)
(* gallery of an event, the platform's settings and catalogues and the     *)
(* reports, checked in one run.  These modules share no state, so they are *)
(* not interleaved: focus says which one a behaviour is about, and the     *)
(* others stay as they began.                                              *)
(***************************************************************************)
EXTENDS Profiles, Catalogue, Gallery, Platform, Catalogs, Reports, TLC

CONSTANTS d1, d2, v1, v2, t1, t2, r1, r2, r3

VARIABLE focus

Focuses == {"profiles", "catalogue", "gallery", "platform", "catalogs", "reports"}
storefrontVars ==
  <<profileVars, catalogueVars, galleryVars, platformVars, catalogVars,
    reportVars, focus>>

StorefrontInit ==
  /\ CatalogueInit /\ PlatformInit
  /\ focus \in Focuses
  /\ GalleryInit /\ ReportsInit /\ ProfilesInit /\ CatalogsInit
  /\ focus # "gallery" => album = CHOOSE a \in Albums : TRUE
  /\ focus # "catalogs" => catalogue = "reasons" /\ \A i \in Entries : entry[i] = "active"
  /\ focus # "reports" => \A o \in OrderIds : orderEvent[o] = CHOOSE e \in EventIds : TRUE

StorefrontNext ==
  /\ UNCHANGED focus
  /\ \/ /\ focus = "profiles" /\ ProfilesNext
        /\ UNCHANGED <<catalogueVars, galleryVars, platformVars, catalogVars, reportVars>>
     \/ /\ focus = "catalogue" /\ CatalogueNext
        /\ UNCHANGED <<profileVars, galleryVars, platformVars, catalogVars, reportVars>>
     \/ /\ focus = "gallery" /\ GalleryNext
        /\ UNCHANGED <<profileVars, catalogueVars, platformVars, catalogVars, reportVars>>
     \/ /\ focus = "platform" /\ PlatformNext
        /\ UNCHANGED <<profileVars, catalogueVars, galleryVars, catalogVars, reportVars>>
     \/ /\ focus = "catalogs" /\ CatalogsNext
        /\ UNCHANGED <<profileVars, catalogueVars, galleryVars, platformVars, reportVars>>
     \/ /\ focus = "reports" /\ ReportsNext
        /\ UNCHANGED <<profileVars, catalogueVars, galleryVars, platformVars, catalogVars>>

StorefrontSpec == StorefrontInit /\ [][StorefrontNext]_storefrontVars

----------------------------------------------------------------------------
(* The instance: requests, events, ticket types, rows of a gallery *)

Slots == {d1, d2}
MCEvents == {v1, v2}
MCTypes == {t1, t2}
MCJoiners == {t1, t2, r1}
MCPictures == {r1, r2, r3}
MCOrganiser == [e \in EventIds |-> "org"]
MCCategory == [g \in {"org"} |-> "parties"]
MCCity == (1 :> "Lagos" @@ 2 :> NoCity)
MCSubtotal == (1 :> 10 @@ 2 :> 0)
MCFees == (1 :> 2 @@ 2 :> 0)
MCProcessing == (1 :> 1 @@ 2 :> 0)
MCQuantity == (1 :> 2 @@ 2 :> 1)
Alike == Permutations(Slots) \cup Permutations(MCTypes)
=============================================================================
