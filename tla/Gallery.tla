------------------------------ MODULE Gallery ------------------------------
(***************************************************************************)
(* EventMediaService: the images of one event, or its features, with the   *)
(* files they show and the order they are shown in.                        *)
(*                                                                         *)
(* A row and its file change in separate steps: a new file is stored       *)
(* before the row, an old one is deleted before the row; the place of a    *)
(* new row is read before the row is written.  A feature's new image is    *)
(* looked at only when the old one has been deleted.                       *)
(***************************************************************************)
EXTENDS Integers, FiniteSets, FiniteSetsExt

CONSTANTS Pictures,   \* rows a run may create
          Albums,     \* subset of {"images", "features"}: what a run is about
          Curators,   \* requests running at the same time
          MaxCurations \* bound on the requests

ASSUME GalleryAssumption ==
  MaxCurations \in Nat /\ Albums \subseteq {"images", "features"}

VARIABLES album,    \* what this run is about
          pictures, \* partial function Pictures -> [file, sort]: the rows; file 0 for none
          photos,   \* files stored, by number
          curator,  \* [Curators -> Curation] (volatile)
          curations, \* requests so far
          pasts,    \* history: rows that were ever there
          photoNo,  \* history: files ever stored
          troubled,     \* history: rows changed by two requests at once, or half changed
          spilt,    \* history: files stored for a row that was not written, or written twice
          crossed   \* history: places given at once, or to some of the rows only

rowVars == <<album, pictures, photos>>
galleryVars == <<rowVars, curator, curations, pasts, photoNo, troubled, spilt, crossed>>

Absent == [pc |-> "free"]
Curation ==
  {Absent}
    \cup [pc : {"put"}] \cup [pc : {"place"}, file : Nat]
    \cup [pc : {"create"}, file : Nat, sort : Nat]
    \cup [pc : {"unlink", "renew", "erase", "store"}, row : Pictures, file : Nat]
    \cup [pc : {"show"}, row : Pictures, file : Nat]

GalleryTypeOK ==
  /\ album \in {"images", "features"}
  /\ DOMAIN pictures \subseteq pasts
  /\ \A p \in DOMAIN pictures : pictures[p].file \in 0..photoNo /\ pictures[p].sort \in Nat
  /\ photos \subseteq 1..photoNo /\ photoNo \in Nat
  /\ curator \in [Curators -> Curation] /\ curations \in 0..MaxCurations
  /\ pasts \subseteq Pictures /\ troubled \subseteq Pictures /\ spilt \subseteq 1..photoNo
  /\ crossed \in BOOLEAN

GalleryInit ==
  /\ album \in Albums
  /\ pictures = [p \in {} |-> 0] /\ photos = {}
  /\ curator = [q \in Curators |-> Absent] /\ curations = 0
  /\ pasts = {} /\ photoNo = 0 /\ troubled = {} /\ spilt = {} /\ crossed = FALSE

Curates(q, pc) == curator[q].pc = pc
Then(q, c) == curator' = [curator EXCEPT ![q] = c]
Another == curations < MaxCurations /\ curations' = curations + 1
Placing == {q \in Curators : curator[q].pc \in {"place", "create"}}
AtRow(p) == {q \in Curators : curator[q].pc \in {"unlink", "renew", "erase", "store", "show"}
                                /\ curator[q].row = p}

----------------------------------------------------------------------------
(* addImage and createFeature *)

\* An image has a file, a feature may have one.
AskAdd(q) ==
  /\ Curates(q, "free") /\ Another
  /\ \/ Then(q, [pc |-> "put"])
     \/ album = "features" /\ Then(q, [pc |-> "place", file |-> 0])
  /\ UNCHANGED <<rowVars, pasts, photoNo, troubled, spilt, crossed>>

PutPhoto(q) ==
  /\ Curates(q, "put")
  /\ photoNo' = photoNo + 1 /\ photos' = photos \cup {photoNo'}
  /\ Then(q, [pc |-> "place", file |-> photoNo'])
  /\ UNCHANGED <<album, pictures, curations, pasts, troubled, spilt, crossed>>

\* Mutant of NextPlace: the rows are counted.
NextPlaceByCount == Cardinality(DOMAIN pictures) + 1
\* maxSortOrder is 0 when there is no row.
NextPlace == Max({0} \cup {pictures[p].sort : p \in DOMAIN pictures}) + 1

ReadPlace(q) ==
  /\ Curates(q, "place")
  /\ Then(q, [pc |-> "create", file |-> curator[q].file, sort |-> NextPlace])
  /\ crossed' = (crossed \/ \E r \in Curators \ {q} : Curates(r, "create"))
  /\ UNCHANGED <<rowVars, curations, pasts, photoNo, troubled, spilt>>

CreatePicture(q, p) ==
  LET row == [file |-> curator[q].file, sort |-> curator[q].sort]
  IN /\ Curates(q, "create") /\ p \notin pasts
     /\ pictures' = [x \in DOMAIN pictures \cup {p} |-> IF x = p THEN row ELSE pictures[x]]
     /\ pasts' = pasts \cup {p}
     /\ Then(q, Absent)
     /\ UNCHANGED <<album, photos, curations, photoNo, troubled, spilt, crossed>>

----------------------------------------------------------------------------
(* deleteImage and deleteFeature, updateFeature with an image *)

\* The row is loaded with the file it has.
LoadRow(q, p, pcs) ==
  /\ Curates(q, "free") /\ Another /\ p \in DOMAIN pictures
  /\ \E pc \in pcs : Then(q, [pc |-> pc, row |-> p, file |-> pictures[p].file])
  /\ troubled' = IF AtRow(p) = {} THEN troubled ELSE troubled \cup {p}
  /\ UNCHANGED <<rowVars, pasts, photoNo, spilt, crossed>>
AskRemove(q, p) == LoadRow(q, p, {"unlink"})
AskRenew(q, p) == album = "features" /\ LoadRow(q, p, {"renew"})

\* The old file goes first ...
UnlinkPhoto(q) ==
  LET c == curator[q]
  IN /\ c.pc \in {"unlink", "renew"}
     /\ photos' = photos \ {c.file}
     /\ Then(q, [pc |-> IF c.pc = "unlink" THEN "erase" ELSE "store", row |-> c.row,
                 file |-> c.file])
     /\ UNCHANGED <<album, pictures, curations, pasts, photoNo, troubled, spilt, crossed>>

\* What another request stored for the row meanwhile stays behind.
LeftBehind(p) ==
  IF p \in troubled \cap DOMAIN pictures THEN {pictures[p].file} \cap photos ELSE {}

\* ... then the row.
ErasePicture(q) ==
  /\ Curates(q, "erase") /\ Then(q, Absent)
  /\ pictures' = [x \in DOMAIN pictures \ {curator[q].row} |-> pictures[x]]
  /\ spilt' = spilt \cup LeftBehind(curator[q].row)
  /\ UNCHANGED <<album, photos, curations, pasts, photoNo, troubled, crossed>>

\* storeFeatureImage: a new image that is not valid is refused here, ...
RefuseRenewal(q) ==
  /\ Curates(q, "store") /\ Then(q, Absent)
  /\ troubled' = IF curator[q].file = 0 THEN troubled ELSE troubled \cup {curator[q].row}
  /\ UNCHANGED <<rowVars, curations, pasts, photoNo, spilt, crossed>>

RenewPhoto(q) ==
  /\ Curates(q, "store")
  /\ photoNo' = photoNo + 1 /\ photos' = photos \cup {photoNo'}
  /\ Then(q, [pc |-> "show", row |-> curator[q].row, file |-> photoNo'])
  /\ UNCHANGED <<album, pictures, curations, pasts, troubled, spilt, crossed>>

\* ... and the row is written, unless it is gone by now.
ShowRenewed(q) ==
  LET c == curator[q]
  IN /\ Curates(q, "show") /\ Then(q, Absent)
     /\ IF c.row \in DOMAIN pictures
        THEN /\ pictures' = [pictures EXCEPT ![c.row].file = c.file]
             /\ spilt' = spilt \cup LeftBehind(c.row)
        ELSE spilt' = spilt \cup {c.file} /\ UNCHANGED pictures
     /\ UNCHANGED <<album, photos, curations, pasts, photoNo, troubled, crossed>>

----------------------------------------------------------------------------
(* reorderImages and reorderFeatures *)

\* Rows the client knows get their place in its list, in one transaction;
\* the others keep theirs.
Reorder(q) ==
  /\ Curates(q, "free") /\ Another
  /\ \E ids \in SUBSET DOMAIN pictures \ {{}} :
       \E places \in [ids -> 1..Cardinality(ids)] :
         /\ \A p, r \in ids : places[p] = places[r] => p = r
         /\ pictures' = [p \in DOMAIN pictures |->
              IF p \in ids THEN [pictures[p] EXCEPT !.sort = places[p]]
              ELSE pictures[p]]
         /\ crossed' = (ids # DOMAIN pictures \/ \E r \in Curators : Curates(r, "create"))
  /\ UNCHANGED <<album, photos, curator, pasts, photoNo, troubled, spilt>>

\* A process stops between two steps.
CuratorCrash(q) ==
  LET c == curator[q]
  IN /\ c.pc # "free" /\ Another /\ Then(q, Absent)
     /\ troubled' = IF c.pc \in {"erase", "store", "show"} THEN troubled \cup {c.row} ELSE troubled
     /\ spilt' = IF c.pc \in {"place", "create", "show"} /\ c.file # 0
                 THEN spilt \cup {c.file} ELSE spilt
     /\ UNCHANGED <<rowVars, pasts, photoNo, crossed>>

----------------------------------------------------------------------------

ImagesController(q) ==
  AskAdd(q) \/ Reorder(q) \/ \E p \in Pictures : AskRemove(q, p)
FeaturesController(q) == \E p \in Pictures : AskRenew(q, p)

GalleryNext ==
  \E q \in Curators :
    \/ ImagesController(q) \/ FeaturesController(q)
    \/ PutPhoto(q) \/ ReadPlace(q) \/ \E p \in Pictures : CreatePicture(q, p)
    \/ UnlinkPhoto(q) \/ ErasePicture(q)
    \/ RefuseRenewal(q) \/ RenewPhoto(q) \/ ShowRenewed(q)
    \/ CuratorCrash(q)

GallerySpec == GalleryInit /\ [][GalleryNext]_galleryVars

----------------------------------------------------------------------------
(* Properties *)

\* What a row shows is stored, unless a request is changing the row now or two
\* changed it at once, one was cut off, or its new image was refused: then the
\* old one is lost.  (updateFeature, deleteFeature)
PhotosKept ==
  \A p \in DOMAIN pictures \ troubled :
    AtRow(p) = {} => pictures[p].file \in photos \cup {0}

\* Every file stored is shown by a row, unless it is on its way there, was
\* stored in vain or for a row that two requests changed.
NoPhotoLost ==
  \A f \in photos :
    \/ f \in spilt \/ \E q \in Curators : curator[q].pc # "put" /\ curator[q].pc # "free"
                                            /\ curator[q].file = f
    \/ \E p \in DOMAIN pictures : pictures[p].file = f

\* No two rows are in the same place, unless two were added at once or some
\* were left out of a new order; the next complete order puts that right.
PlacesDistinct ==
  crossed \/ \A p, r \in DOMAIN pictures : pictures[p].sort = pictures[r].sort => p = r

\* The gallery is what its requests made of it.
GalleryExplained == PhotosKept /\ NoPhotoLost /\ PlacesDistinct
=============================================================================
