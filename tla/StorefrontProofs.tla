-------------------------- MODULE StorefrontProofs --------------------------
(***************************************************************************)
(* Proofs about profiles of accounts (Profiles), the catalogues whose      *)
(* entries profiles, events, organisations and reports name (Catalogs),    *)
(* the settings every request reads and the welcome page (Platform), the   *)
(* events of an organisation (Catalogue), the images of an event (Gallery),*)
(* and what is shown of the sales (Reports).                               *)
(***************************************************************************)
EXTENDS Profiles, Catalogs, Platform, Catalogue, Gallery, Reports, SumLemmas, FiniteSetTheorems, TLAPS

----------------------------------------------------------------------------
(* Profiles *)

OpenPcs == {"username", "referral", "delete", "put", "save"}
IsOpen(p) == p.pc \in OpenPcs
Syncing == [pc : {"sync"}, by : Joiners]

\* Pictures are named by the requests that brought them, one after the other.
PicturesNumbered ==
  /\ \A a \in Joiners : avatar[a] <= submits
  /\ \A d \in Screens : IsOpen(page[d]) => page[d].new <= submits /\ page[d].was <= submits

\* A picture is one profile's or one request's, and one that was loaded is
\* nobody else's: what a request deletes is not shown elsewhere.
PicturesApart ==
  /\ \A a, b \in Joiners : a # b => avatar[a] # avatar[b] \/ avatar[a] = 0
  /\ \A d \in Screens : IsOpen(page[d]) =>
       /\ \A a \in Joiners : page[d].new # avatar[a] \/ page[d].new = 0
       /\ \A a \in Joiners \ {page[d].by} : page[d].was # avatar[a] \/ page[d].was = 0
  /\ \A d, e \in Screens : IsOpen(page[d]) /\ IsOpen(page[e]) =>
       /\ page[d].new # page[e].was \/ page[d].new = 0
       /\ d # e => page[d].new # page[e].new \/ page[d].new = 0

\* What a request has passed by the time it touches the storage.
PagesInOrder ==
  \A d \in Screens :
    /\ page[d].pc = "delete" => page[d].new # 0 \/ page[d].remove
    /\ page[d].pc = "put" => page[d].new # 0
    /\ page[d].pc \in {"delete", "put", "save"} =>
         page[d].code \in (Joiners \ {page[d].by}) \cup {"none"}

\* Whoever never had two requests at once has one, and its row is what that
\* one loaded.
Alone ==
  \A d, e \in Screens :
    page[d] # Closed /\ page[e] # Closed /\ page[d].by = page[e].by
      => d = e \/ page[d].by \in doubled
RowAsLoaded ==
  \A d \in Screens : IsOpen(page[d]) /\ page[d].by \notin doubled =>
    /\ page[d].was = avatar[page[d].by]
    /\ page[d].code # "none" => referrer[page[d].by] = "none"

\* A picture about to be saved is stored, one it replaces is gone.
StorageFollows ==
  \A d \in Screens :
    /\ Waiting(page[d]) => page[d].new \in storage
    /\ Moved(page[d]) => page[d].was \notin storage

ProfilesInv ==
  /\ ProfilesTypeOK /\ PicturesNumbered /\ PicturesApart /\ PagesInOrder /\ Alone
  /\ RowAsLoaded /\ StorageFollows /\ ProfilesExplained

\* A page is closed, open with all it was sent, or about to store interests.
LEMMA PageKinds ==
  ASSUME ProfilesTypeOK, NEW d \in Screens
  PROVE  /\ page[d] = Closed \/ page[d] \in Open(OpenPcs) \/ page[d] \in Syncing
         /\ IsOpen(page[d]) => page[d] \in Open(OpenPcs)
         /\ page[d].pc = "sync" => page[d] \in Syncing
         /\ page[d].pc = "free" => page[d] = Closed
         /\ page[d] # Closed => page[d].by \in Joiners
<1>1. page[d] \in Page
  BY DEF ProfilesTypeOK
<1>2. page[d] = Closed \/ page[d] \in Open(OpenPcs) \/ page[d] \in Syncing
  BY <1>1 DEF Page, Open, OpenPcs, Syncing
<1>3. CASE page[d] = Closed
  BY <1>3 DEF Closed, IsOpen, OpenPcs
<1>4. CASE page[d] \in Open(OpenPcs)
  BY <1>4 DEF Closed, IsOpen, OpenPcs, Open
<1>5. CASE page[d] \in Syncing
  BY <1>5 DEF Closed, IsOpen, OpenPcs, Syncing
<1> QED BY <1>2, <1>3, <1>4, <1>5

LEMMA KindsArePages == Closed \in Page /\ Open(OpenPcs) \subseteq Page /\ Syncing \subseteq Page
  BY DEF Page, Open, OpenPcs, Syncing

LEMMA OpenFields ==
  ASSUME NEW p \in Open(OpenPcs)
  PROVE  /\ p.pc \in OpenPcs /\ p.by \in Joiners /\ p.name \in Handles \cup {"none"}
         /\ p.code \in ReferralCodes /\ p.new \in Avatars /\ p.remove \in BOOLEAN
         /\ p.was \in Avatars /\ p.kind \in {"complete", "update"}
         /\ \A pc \in OpenPcs, code \in ReferralCodes :
              [p EXCEPT !.pc = pc, !.code = code] \in Open(OpenPcs)
         /\ \A pc \in OpenPcs : [p EXCEPT !.pc = pc] \in Open(OpenPcs)
  BY DEF Open

\* Only the page at d changes, to q.
Goes(d, q) == page' = [page EXCEPT ![d] = q]

\* What each step does to its page.
LEMMA LoadTurns ==
  ASSUME ProfilesTypeOK, NEW d \in Screens, NEW a \in Joiners, NEW name \in Handles \cup {"none"},
         NEW code \in ReferralCodes, NEW pic \in BOOLEAN, NEW remove \in BOOLEAN,
         NEW kind \in {"complete", "update"}, Load(d, a, name, code, pic, remove, kind)
  PROVE  \E q \in Open(OpenPcs) :
           /\ Goes(d, q) /\ q.pc = "username" /\ q.by = a
           /\ q.was = avatar[a] /\ (q.code # "none" => referrer[a] = "none")
           /\ q.new \in {0, submits + 1} /\ submits' = submits + 1 /\ submits' \in 0..MaxSubmits
<1> DEFINE q == [pc |-> "username", by |-> a, name |-> name, code |-> Credit(a, code),
                 new |-> IF pic THEN submits' ELSE 0, remove |-> remove,
                 was |-> avatar[a], kind |-> kind]
<1>1. submits' = submits + 1 /\ submits' \in 0..MaxSubmits /\ Goes(d, q)
  BY ProfilesAssumption DEF Load, Display, Goes, ProfilesTypeOK
<1>2. Credit(a, code) \in ReferralCodes /\ (Credit(a, code) # "none" => referrer[a] = "none")
  BY DEF Credit, ReferralCodes
<1>3. avatar[a] \in Avatars /\ q.new \in Avatars
  BY <1>1, ProfilesAssumption DEF ProfilesTypeOK, Avatars
<1>4. q \in Open(OpenPcs)
  BY <1>2, <1>3 DEF Open, OpenPcs
<1>5. q.pc = "username" /\ q.by = a /\ q.was = avatar[a]
      /\ (q.code # "none" => referrer[a] = "none") /\ q.new \in {0, submits + 1}
  BY <1>1, <1>2
<1> HIDE DEF q
<1> QED BY <1>1, <1>4, <1>5

\* A page goes on with what it has.
LEMMA GotoTurns ==
  ASSUME ProfilesTypeOK, NEW d \in Screens, IsOpen(page[d]), NEW pc \in OpenPcs, Goto(d, pc)
  PROVE  \E q \in Open(OpenPcs) :
           /\ Goes(d, q) /\ q.pc = pc /\ q.by = page[d].by /\ q.code = page[d].code
           /\ q.was = page[d].was /\ q.new = page[d].new /\ q.remove = page[d].remove
<1> DEFINE q == [page[d] EXCEPT !.pc = pc]
<1>1. page[d] \in Open(OpenPcs)
  BY PageKinds
<1>2. q \in Open(OpenPcs)
  BY <1>1, OpenFields
<1>3. Goes(d, q)
  BY DEF Goto, Goes, ProfilesTypeOK
<1>4. q.pc = pc /\ q.by = page[d].by /\ q.code = page[d].code
      /\ q.was = page[d].was /\ q.new = page[d].new /\ q.remove = page[d].remove
  BY <1>1 DEF Open
<1> QED BY <1>2, <1>3, <1>4

LEMMA ReferralTurns ==
  ASSUME ProfilesTypeOK, NEW d \in Screens, ResolveReferral(d)
  PROVE  \E q \in Open(OpenPcs) :
           /\ Goes(d, q) /\ q.by = page[d].by /\ q.was = page[d].was
           /\ q.new = page[d].new /\ q.remove = page[d].remove
           /\ q.pc = IF q.new # 0 \/ q.remove THEN "delete" ELSE "save"
           /\ q.code \in (Joiners \ {q.by}) \cup {"none"} /\ q.code \in {page[d].code, "none"}
           /\ IsOpen(page[d]) /\ page[d].pc = "referral"
<1> DEFINE p == page[d]
           q == [p EXCEPT !.pc = IF p.new # 0 \/ p.remove THEN "delete" ELSE "save",
                          !.code = IF @ = p.by THEN "none" ELSE @]
<1>1. p \in Open(OpenPcs) /\ p.pc = "referral" /\ IsOpen(p)
  BY PageKinds DEF ResolveReferral, AtScreen, IsOpen, OpenPcs
<1>2. Goes(d, q)
  BY DEF ResolveReferral, Display, Goes
<1>3. p.code # "wrong"
  BY DEF ResolveReferral
<1>4. (IF p.code = p.by THEN "none" ELSE p.code) \in (Joiners \ {p.by}) \cup {"none"}
  BY <1>1, <1>3 DEF Open, ReferralCodes
<1>5. (IF p.code = p.by THEN "none" ELSE p.code) \in ReferralCodes
  BY <1>4 DEF ReferralCodes
<1>6. (IF p.new # 0 \/ p.remove THEN "delete" ELSE "save") \in OpenPcs
  BY DEF OpenPcs
<1>7. q \in Open(OpenPcs)
  BY <1>1, <1>5, <1>6, OpenFields
<1>8. /\ q.by = p.by /\ q.was = p.was /\ q.new = p.new /\ q.remove = p.remove
      /\ q.pc = IF p.new # 0 \/ p.remove THEN "delete" ELSE "save"
      /\ q.code = IF p.code = p.by THEN "none" ELSE p.code
  BY <1>1 DEF Open
<1> HIDE DEF q
<1> QED BY <1>1, <1>2, <1>4, <1>7, <1>8

\* A request that goes on without touching the row.
Proceeds(d, q) ==
  /\ q \in Open(OpenPcs) /\ IsOpen(page[d]) /\ Goes(d, q)
  /\ q.by = page[d].by /\ q.was = page[d].was /\ q.new = page[d].new
  /\ q.remove = page[d].remove /\ q.code \in {page[d].code, "none"}
  /\ UNCHANGED <<row, interested, submits, past>>

LEMMA ProceedKeeps ==
  ASSUME ProfilesInv, NEW d \in Screens, NEW q, Proceeds(d, q), storage' \subseteq Avatars \ {0}
  PROVE  (ProfilesTypeOK /\ PicturesNumbered /\ PicturesApart /\ Alone /\ RowAsLoaded
            /\ UsernamesUnique /\ ReferredOnce /\ InterestsStored)'
<1> USE DEF Proceeds, ProfilesInv, row, past
<1>1. ProfilesTypeOK'
  BY KindsArePages DEF ProfilesTypeOK, Goes
<1>2. /\ \A e \in Screens : page'[e] = IF e = d THEN q ELSE page[e]
      /\ page[d] # Closed /\ q # Closed /\ IsOpen(q) /\ page[d].by \in Joiners
      /\ page[d].pc # "sync" /\ q.pc # "sync"
  <2>1. \A e \in Screens : page'[e] = IF e = d THEN q ELSE page[e]
    BY DEF ProfilesTypeOK, Goes
  <2>2. page[d] # Closed /\ q # Closed
    BY DEF IsOpen, OpenPcs, Open, Closed
  <2>3. IsOpen(q) /\ page[d].by \in Joiners
    BY PageKinds, <2>2 DEF IsOpen, Open
  <2>4. page[d].pc # "sync" /\ q.pc # "sync"
    BY <2>3 DEF IsOpen, OpenPcs
  <2> QED BY <2>1, <2>2, <2>3, <2>4
<1>3. PicturesNumbered'
  BY <1>2 DEF PicturesNumbered, IsOpen
<1>4. PicturesApart'
  BY <1>2 DEF PicturesApart, IsOpen
<1>5. Alone'
  BY <1>2 DEF Alone
<1>6. RowAsLoaded'
  BY <1>2 DEF RowAsLoaded, IsOpen
<1>7. UsernamesUnique' /\ ReferredOnce'
  BY DEF UsernamesUnique, ReferredOnce, ProfilesExplained
<1>8. InterestsStored'
  BY <1>2 DEF InterestsStored, ProfilesExplained, AtScreen
<1> QED BY <1>1, <1>3, <1>4, <1>5, <1>6, <1>7, <1>8

LEMMA ReferralKeeps ==
  ASSUME ProfilesInv, NEW d \in Screens, EnsureAvailable(d) \/ ResolveReferral(d)
  PROVE  ProfilesInv'
<1>1. PICK q : /\ Proceeds(d, q) /\ storage' = storage
               /\ page[d].pc \in {"username", "referral"}
               /\ \/ q.pc = "referral"
                  \/ /\ q.pc = IF q.new # 0 \/ q.remove THEN "delete" ELSE "save"
                     /\ q.code \in (Joiners \ {q.by}) \cup {"none"}
  <2>1. CASE EnsureAvailable(d)
    <3>1. IsOpen(page[d]) /\ Goto(d, "referral") /\ "referral" \in OpenPcs
      BY <2>1 DEF EnsureAvailable, AtScreen, IsOpen, OpenPcs
    <3>2. PICK q \in Open(OpenPcs) :
            /\ Goes(d, q) /\ q.pc = "referral" /\ q.by = page[d].by /\ q.code = page[d].code
            /\ q.was = page[d].was /\ q.new = page[d].new /\ q.remove = page[d].remove
      BY <3>1, GotoTurns DEF ProfilesInv
    <3> QED BY <2>1, <3>1, <3>2 DEF Proceeds, EnsureAvailable, AtScreen
  <2>2. CASE ResolveReferral(d)
    <3>1. PICK q \in Open(OpenPcs) :
           /\ Goes(d, q) /\ q.by = page[d].by /\ q.was = page[d].was
           /\ q.new = page[d].new /\ q.remove = page[d].remove
           /\ q.pc = IF q.new # 0 \/ q.remove THEN "delete" ELSE "save"
           /\ q.code \in (Joiners \ {q.by}) \cup {"none"} /\ q.code \in {page[d].code, "none"}
           /\ IsOpen(page[d]) /\ page[d].pc = "referral"
      BY <2>2, ReferralTurns DEF ProfilesInv
    <3> QED BY <2>2, <3>1 DEF Proceeds, ResolveReferral
  <2> QED BY <2>1, <2>2
<1>2. (ProfilesTypeOK /\ PicturesNumbered /\ PicturesApart /\ Alone /\ RowAsLoaded
         /\ UsernamesUnique /\ ReferredOnce /\ InterestsStored)'
  BY <1>1, ProceedKeeps DEF ProfilesInv, ProfilesTypeOK
<1>3. /\ \A e \in Screens : page'[e] = IF e = d THEN q ELSE page[e]
      /\ ~Moved(page[d]) /\ ~Waiting(page[d]) /\ ~Waiting(q) /\ ~Moved(q) /\ q.pc # "put"
  BY <1>1 DEF Proceeds, Goes, ProfilesInv, ProfilesTypeOK, Moved, Waiting
<1>4. PagesInOrder'
  BY <1>1, <1>3 DEF PagesInOrder, ProfilesInv
<1>5. StorageFollows'
  BY <1>1, <1>3 DEF StorageFollows, ProfilesInv
<1>6. AvatarsShown'
  BY <1>1, <1>3 DEF AvatarsShown, ProfilesInv, ProfilesExplained, Proceeds, row, past
<1>7. StorageUsed'
  BY <1>1, <1>3 DEF StorageUsed, ProfilesInv, ProfilesExplained, Proceeds, row, past
<1> QED BY <1>2, <1>4, <1>5, <1>6, <1>7 DEF ProfilesInv, ProfilesExplained

\* The storage loses what the request loaded, which is nobody else's, and gains
\* what it brought, which nobody deletes.
LEMMA StorageKeeps ==
  ASSUME ProfilesInv, NEW d \in Screens, DeleteAvatar(d) \/ StoreAvatar(d)
  PROVE  ProfilesInv'
<1>1. PICK q : /\ Proceeds(d, q) /\ q.pc \in {"put", "save"}
               /\ \/ page[d].pc = "delete" /\ storage' = storage \ {q.was}
                     /\ q.pc = IF q.new # 0 THEN "put" ELSE "save"
                  \/ page[d].pc = "put" /\ storage' = storage \cup {q.new} /\ q.pc = "save"
               /\ page[d].pc \in {"delete", "put"}
               /\ q.code = page[d].code
  <2>1. CASE DeleteAvatar(d)
    <3>1. /\ IsOpen(page[d]) /\ Goto(d, IF page[d].new # 0 THEN "put" ELSE "save")
          /\ (IF page[d].new # 0 THEN "put" ELSE "save") \in OpenPcs
      BY <2>1 DEF DeleteAvatar, AtScreen, IsOpen, OpenPcs
    <3>2. PICK q \in Open(OpenPcs) :
            /\ Goes(d, q) /\ q.pc = (IF page[d].new # 0 THEN "put" ELSE "save")
            /\ q.by = page[d].by /\ q.code = page[d].code
            /\ q.was = page[d].was /\ q.new = page[d].new /\ q.remove = page[d].remove
      BY <3>1, GotoTurns DEF ProfilesInv
    <3> QED BY <2>1, <3>1, <3>2 DEF Proceeds, DeleteAvatar, AtScreen
  <2>2. CASE StoreAvatar(d)
    <3>1. IsOpen(page[d]) /\ Goto(d, "save") /\ "save" \in OpenPcs
      BY <2>2 DEF StoreAvatar, AtScreen, IsOpen, OpenPcs
    <3>2. PICK q \in Open(OpenPcs) :
            /\ Goes(d, q) /\ q.pc = "save" /\ q.by = page[d].by /\ q.code = page[d].code
            /\ q.was = page[d].was /\ q.new = page[d].new /\ q.remove = page[d].remove
      BY <3>1, GotoTurns DEF ProfilesInv
    <3> QED BY <2>2, <3>1, <3>2 DEF Proceeds, StoreAvatar, AtScreen
  <2> QED BY <2>1, <2>2
<1>2. storage' \subseteq Avatars \ {0} /\ q \in Open(OpenPcs) /\ IsOpen(q) /\ q # Closed
  <2>1. q \in Open(OpenPcs) /\ q.new \in Avatars
    BY <1>1, OpenFields DEF Proceeds
  <2>2. page[d].pc = "put" => q.new # 0
    BY <1>1 DEF ProfilesInv, PagesInOrder, Proceeds
  <2>3. storage' \subseteq Avatars \ {0}
    BY <1>1, <2>1, <2>2 DEF ProfilesInv, ProfilesTypeOK
  <2> QED BY <2>1, <2>3 DEF IsOpen, Open, Closed, OpenPcs
<1>3. (ProfilesTypeOK /\ PicturesNumbered /\ PicturesApart /\ Alone /\ RowAsLoaded
         /\ UsernamesUnique /\ ReferredOnce /\ InterestsStored)'
  BY <1>1, <1>2, ProceedKeeps
<1>4. /\ \A e \in Screens : page'[e] = IF e = d THEN q ELSE page[e]
      /\ \A e \in Screens : Waiting(page[e]) \/ Moved(page[e]) => IsOpen(page[e])
      /\ q.by = page[d].by /\ q.was = page[d].was /\ q.new = page[d].new
      /\ q.remove = page[d].remove /\ IsOpen(page[d])
  BY <1>1 DEF Proceeds, Goes, ProfilesInv, ProfilesTypeOK, Moved, Waiting, IsOpen, OpenPcs
<1>5. PagesInOrder'
  BY <1>1, <1>4 DEF PagesInOrder, ProfilesInv
<1>6. StorageFollows'
  <2> SUFFICES ASSUME NEW e \in Screens
               PROVE  /\ Waiting(page'[e]) => page'[e].new \in storage'
                      /\ Moved(page'[e]) => page'[e].was \notin storage'
    BY DEF StorageFollows, Waiting, Moved
  <2>1. CASE e # d
    BY <1>1, <1>4, <2>1 DEF StorageFollows, ProfilesInv, PicturesApart, PagesInOrder, Waiting
  <2>2. CASE e = d
    BY <1>1, <1>4, <2>2
       DEF StorageFollows, ProfilesInv, PicturesApart, PagesInOrder, Waiting, Moved
  <2> QED BY <2>1, <2>2
<1>7. AvatarsShown'
  <2> SUFFICES ASSUME NEW a \in Joiners, a \notin doubled, a \notin unshown
               PROVE  \/ avatar[a] \in storage' \cup {0}
                      \/ \E e \in Screens : Moved(page'[e]) /\ page'[e].by = a
    BY <1>1 DEF AvatarsShown, Proceeds, row, past, Moved
  <2>1. CASE avatar[a] \in storage
    BY <1>1, <1>4, <2>1 DEF ProfilesInv, PicturesApart, PagesInOrder, Moved
  <2>2. CASE avatar[a] \notin storage
    BY <1>1, <1>4, <2>2 DEF ProfilesInv, ProfilesExplained, AvatarsShown, Moved
  <2> QED BY <2>1, <2>2
<1>8. StorageUsed'
  BY <1>1, <1>4 DEF StorageUsed, ProfilesInv, ProfilesExplained, Proceeds, row, past, Waiting, PagesInOrder
<1> QED BY <1>3, <1>5, <1>6, <1>7, <1>8 DEF ProfilesInv, ProfilesExplained

\* A new request names its picture by a number nothing has yet.
LEMMA LoadKeeps ==
  ASSUME ProfilesInv, NEW d \in Screens, NEW a \in Joiners, NEW name \in Handles \cup {"none"},
         NEW code \in ReferralCodes, NEW pic \in BOOLEAN, NEW remove \in BOOLEAN,
         NEW kind \in {"complete", "update"}, Load(d, a, name, code, pic, remove, kind)
  PROVE  ProfilesInv'
<1> USE DEF ProfilesInv
<1>1. PICK q \in Open(OpenPcs) :
        /\ Goes(d, q) /\ q.pc = "username" /\ q.by = a
        /\ q.was = avatar[a] /\ (q.code # "none" => referrer[a] = "none")
        /\ q.new \in {0, submits + 1} /\ submits' = submits + 1 /\ submits' \in 0..MaxSubmits
  BY LoadTurns
<1>2. /\ \A e \in Screens : page'[e] = IF e = d THEN q ELSE page[e]
      /\ page[d] = Closed /\ q # Closed /\ IsOpen(q) /\ ~IsOpen(page[d])
      /\ UNCHANGED <<row, storage, interested, credited, unshown, halfway, strays>>
      /\ doubled' = IF Busy(a) THEN doubled \cup {a} ELSE doubled
      /\ submits \in Nat /\ \A b \in Joiners : avatar[b] \in Nat
      /\ \A e \in Screens : IsOpen(page[e]) => page[e].new \in Nat /\ page[e].was \in Nat
      /\ \A e \in Screens : page[e] # Closed => page[e].by \in Joiners
  <2>1. \A e \in Screens : page'[e] = IF e = d THEN q ELSE page[e]
    BY <1>1 DEF Goes, ProfilesTypeOK
  <2>2. page[d] = Closed
    BY PageKinds DEF Load, AtScreen
  <2>3. q # Closed /\ IsOpen(q) /\ ~IsOpen(page[d])
    BY <1>1, <2>2 DEF IsOpen, OpenPcs, Closed
  <2>4. UNCHANGED <<row, storage, interested, credited, unshown, halfway, strays>>
        /\ doubled' = IF Busy(a) THEN doubled \cup {a} ELSE doubled
    BY DEF Load
  <2>5. submits \in Nat /\ \A b \in Joiners : avatar[b] \in Nat
    BY ProfilesAssumption DEF ProfilesTypeOK, Avatars
  <2>6. \A e \in Screens : IsOpen(page[e]) => page[e].new \in Nat /\ page[e].was \in Nat
    <3> SUFFICES ASSUME NEW e \in Screens, IsOpen(page[e])
                 PROVE  page[e].new \in Nat /\ page[e].was \in Nat
      OBVIOUS
    <3>1. page[e] \in Open(OpenPcs)
      BY PageKinds
    <3>2. page[e].new \in Avatars /\ page[e].was \in Avatars
      BY <3>1, OpenFields
    <3> QED BY <3>2, ProfilesAssumption DEF Avatars
  <2>7. \A e \in Screens : page[e] # Closed => page[e].by \in Joiners
    BY PageKinds
  <2> QED BY <2>1, <2>2, <2>3, <2>4, <2>5, <2>6, <2>7
<1>3. ProfilesTypeOK'
  BY <1>1, <1>2, KindsArePages DEF ProfilesTypeOK, Goes, row
<1>4. PicturesNumbered'
  BY <1>1, <1>2 DEF PicturesNumbered, row
<1>5. PicturesApart'
  <2>1. /\ \A b \in Joiners : avatar[b] <= submits
        /\ \A e \in Screens : IsOpen(page[e]) => page[e].new <= submits /\ page[e].was <= submits
    BY DEF PicturesNumbered
  <2>2. /\ \A b \in Joiners : q.new # avatar[b] \/ q.new = 0
        /\ \A e \in Screens : IsOpen(page[e]) =>
             /\ q.new # page[e].was \/ q.new = 0
             /\ q.new # page[e].new \/ q.new = 0
             /\ page[e].new # q.was \/ page[e].new = 0
        /\ q.new # q.was \/ q.new = 0
    BY <1>1, <1>2, <2>1 DEF PicturesApart
  <2>3. \A b \in Joiners \ {q.by} : q.was # avatar[b] \/ q.was = 0
    BY <1>1 DEF PicturesApart
  <2>4. avatar' = avatar
    BY <1>2 DEF row
  <2> QED BY <1>2, <2>2, <2>3, <2>4 DEF PicturesApart
<1>6. PagesInOrder'
  BY <1>1, <1>2 DEF PagesInOrder
<1>7. Alone'
  <2> SUFFICES ASSUME NEW e \in Screens, NEW f \in Screens, page'[e] # Closed, page'[f] # Closed,
                      page'[e].by = page'[f].by, e # f
               PROVE  page'[e].by \in doubled'
    BY DEF Alone
  <2>1. CASE e # d /\ f # d
    BY <1>2, <2>1 DEF Alone
  <2>2. CASE e = d \/ f = d
    BY <1>1, <1>2, <2>2 DEF Busy
  <2> QED BY <2>1, <2>2
<1>8. RowAsLoaded'
  BY <1>1, <1>2 DEF RowAsLoaded, row
<1>9. StorageFollows'
  BY <1>1, <1>2 DEF StorageFollows, Waiting, Moved
<1>10. ~Moved(page[d]) /\ ~Waiting(page[d]) /\ page[d].pc # "sync"
  BY <1>2 DEF Moved, Waiting, Closed
<1>11. UsernamesUnique' /\ AvatarsShown'
  BY <1>1, <1>2, <1>10 DEF ProfilesExplained, UsernamesUnique, AvatarsShown, row
<1>12. StorageUsed'
  BY <1>1, <1>2, <1>10 DEF ProfilesExplained, StorageUsed, row
<1>13. ReferredOnce' /\ InterestsStored'
  BY <1>1, <1>2, <1>10 DEF ProfilesExplained, ReferredOnce, InterestsStored, AtScreen, row
<1> QED BY <1>3, <1>4, <1>5, <1>6, <1>7, <1>8, <1>9, <1>11, <1>12, <1>13 DEF ProfilesExplained

\* A request that ends leaves its page free for the next.
LEMMA CloseKeeps ==
  ASSUME ProfilesInv, NEW d \in Screens, GiveUpPage(d) \/ SyncInterests(d)
  PROVE  ProfilesInv'
<1> USE DEF ProfilesInv
<1>1. /\ \A e \in Screens : page'[e] = IF e = d THEN Closed ELSE page[e]
      /\ page' \in [Screens -> Page] /\ page[d] # Closed /\ ~IsOpen(Closed)
      /\ UNCHANGED <<row, storage, submits, credited, doubled>>
      /\ page[d].by \in Joiners
  BY PageKinds, KindsArePages
     DEF GiveUpPage, SyncInterests, Display, AtScreen, Closed, IsOpen, OpenPcs, ProfilesTypeOK, past
<1>2. page[d].pc = "save" => page[d].new \in Avatars
  BY PageKinds, OpenFields DEF IsOpen, OpenPcs
<1>3. ProfilesTypeOK'
  BY <1>1, <1>2 DEF ProfilesTypeOK, row, GiveUpPage, SyncInterests, past, Waiting
<1>4. PicturesNumbered' /\ PicturesApart'
  BY <1>1 DEF PicturesNumbered, PicturesApart, row
<1>5. PagesInOrder' /\ Alone' /\ RowAsLoaded'
  BY <1>1 DEF PagesInOrder, Alone, RowAsLoaded, Closed, row
<1>6. StorageFollows'
  BY <1>1 DEF StorageFollows, Waiting, Moved, Closed
<1>7. AvatarsShown'
  <2> SUFFICES ASSUME NEW a \in Joiners, a \notin doubled, a \notin unshown',
                      avatar[a] \notin storage \cup {0}
               PROVE  \E e \in Screens : Moved(page'[e]) /\ page'[e].by = a
    BY <1>1 DEF AvatarsShown, row, Moved
  <2>1. unshown \subseteq unshown'
    BY DEF GiveUpPage, SyncInterests, past
  <2>2. PICK e \in Screens : Moved(page[e]) /\ page[e].by = a
    BY <2>1 DEF ProfilesExplained, AvatarsShown
  <2>3. e # d
    BY <2>2 DEF GiveUpPage, SyncInterests, AtScreen, Moved
  <2> QED BY <1>1, <2>2, <2>3
<1>8. StorageUsed'
  <2> SUFFICES ASSUME NEW f \in storage, f \notin strays', \A a \in Joiners : avatar[a] # f
               PROVE  \E e \in Screens : Waiting(page'[e]) /\ page'[e].new = f
    BY <1>1 DEF StorageUsed, row, Waiting
  <2>1. strays \subseteq strays'
    BY DEF GiveUpPage, SyncInterests, past
  <2>2. PICK e \in Screens : Waiting(page[e]) /\ page[e].new = f
    BY <2>1 DEF ProfilesExplained, StorageUsed
  <2>3. e # d
    BY <2>2 DEF GiveUpPage, SyncInterests, AtScreen, Waiting
  <2> QED BY <1>1, <2>2, <2>3
<1>9. UsernamesUnique' /\ ReferredOnce'
  BY <1>1 DEF ProfilesExplained, UsernamesUnique, ReferredOnce, row
<1>10. InterestsStored'
  <2>1. /\ interested \subseteq interested' /\ halfway \subseteq halfway'
        /\ page[d].pc = "sync" => page[d].by \in interested' \cup halfway'
    BY DEF GiveUpPage, SyncInterests, AtScreen, past
  <2> QED BY <1>1, <2>1 DEF ProfilesExplained, InterestsStored, AtScreen, row
<1> QED BY <1>3, <1>4, <1>5, <1>6, <1>7, <1>8, <1>9, <1>10 DEF ProfilesExplained

\* Saving a row: the picture it shows afterwards is stored, and the one it
\* showed is gone or a stray.
LEMMA SaveKeeps ==
  ASSUME ProfilesInv, NEW d \in Screens, SaveCompletion(d) \/ SaveUpdate(d)
  PROVE  ProfilesInv'
<1> DEFINE p == page[d]
           a == p.by
           saved == IF p.new # 0 THEN p.new ELSE IF p.remove /\ p.was # 0 THEN 0 ELSE avatar[a]
           credit == IF p.code = "none" THEN referrer[a] ELSE p.code
<1> USE DEF ProfilesInv
<1>1. /\ p \in Open(OpenPcs) /\ a \in Joiners /\ IsOpen(p) /\ p.pc = "save" /\ p # Closed
      /\ p.new \in Avatars /\ p.name \in Handles \cup {"none"}
      /\ p.code \in (Joiners \ {a}) \cup {"none"}
  <2>1. IsOpen(p) /\ p.pc = "save" /\ p # Closed
    BY DEF SaveCompletion, SaveUpdate, AtScreen, IsOpen, OpenPcs, Closed
  <2>2. p \in Open(OpenPcs)
    BY <2>1, PageKinds
  <2>3. p.code \in (Joiners \ {a}) \cup {"none"}
    BY <2>1 DEF PagesInOrder
  <2> QED BY <2>1, <2>2, <2>3, OpenFields
<1>2. PICK r \in {Closed} \cup Syncing :
        /\ Goes(d, r) /\ (r # Closed => r.by = a)
        /\ completed' = (IF r = Closed THEN completed ELSE completed \cup {a})
  <2>1. CASE SaveCompletion(d)
    <3> DEFINE r == [pc |-> "sync", by |-> a]
    <3>1. r \in Syncing /\ r # Closed /\ Goes(d, r) /\ r.by = a /\ completed' = completed \cup {a}
      BY <1>1, <2>1 DEF SaveCompletion, Display, Goes, Syncing, Closed
    <3> QED BY <3>1
  <2>2. CASE SaveUpdate(d)
    BY <2>2 DEF SaveUpdate, Display, Goes
  <2> QED BY <2>1, <2>2
<1>3. /\ \A e \in Screens : page'[e] = IF e = d THEN r ELSE page[e]
      /\ page' \in [Screens -> Page] /\ ~IsOpen(r) /\ ~Waiting(r) /\ ~Moved(r)
      /\ r.pc \notin {"delete", "put", "save"} /\ (r.pc = "sync" <=> r # Closed)
  BY <1>2, KindsArePages DEF Goes, ProfilesTypeOK, IsOpen, OpenPcs, Closed, Syncing, Waiting, Moved
<1>4. /\ \A b \in Joiners \ {a} : p.name = "none" \/ username[b] # p.name
      /\ username' = IF p.name = "none" THEN username ELSE [username EXCEPT ![a] = p.name]
      /\ avatar' = [avatar EXCEPT ![a] = saved]
      /\ referrer' = [referrer EXCEPT ![a] = credit]
      /\ credited' = IF p.code = "none" THEN credited
                     ELSE [credited EXCEPT ![a] = @ \cup {p.code}]
      /\ strays' = IF avatar[a] \in {0, saved, p.was} THEN strays ELSE strays \cup {avatar[a]}
      /\ UNCHANGED <<storage, interested, submits, doubled, unshown, halfway>>
  BY DEF SaveCompletion, SaveUpdate, SaveRow
<1>5. /\ saved \in Avatars /\ saved \in {0, p.new, avatar[a]}
      /\ credit \in Joiners \cup {"none"} /\ avatar[a] \in Avatars
  BY <1>1 DEF ProfilesTypeOK
<1>6. /\ avatar'[a] = saved /\ \A b \in Joiners \ {a} : avatar'[b] = avatar[b]
      /\ referrer'[a] = credit /\ \A b \in Joiners \ {a} : referrer'[b] = referrer[b]
  BY <1>1, <1>4 DEF ProfilesTypeOK
<1> HIDE DEF saved, credit
<1>7. ProfilesTypeOK'
  BY <1>1, <1>2, <1>3, <1>4, <1>5 DEF ProfilesTypeOK
<1>8. PicturesNumbered'
  BY <1>1, <1>3, <1>4, <1>5, <1>6, ProfilesAssumption DEF PicturesNumbered, ProfilesTypeOK
<1>9. PicturesApart'
  <2>1. \A b \in Joiners \ {a} : saved # avatar[b] \/ saved = 0
    BY <1>1, <1>5 DEF PicturesApart
  <2>2. \A e \in Screens \ {d} : IsOpen(page[e]) =>
          /\ page[e].new # saved \/ page[e].new = 0
          /\ page[e].by # a => page[e].was # saved \/ page[e].was = 0
    BY <1>1, <1>5 DEF PicturesApart
  <2>3. \A b, c \in Joiners : b # c => avatar'[b] # avatar'[c] \/ avatar'[b] = 0
    BY <1>6, <2>1 DEF PicturesApart
  <2>4. \A e \in Screens : IsOpen(page'[e]) =>
           /\ \A b \in Joiners : page'[e].new # avatar'[b] \/ page'[e].new = 0
           /\ \A b \in Joiners \ {page'[e].by} : page'[e].was # avatar'[b] \/ page'[e].was = 0
    BY <1>1, <1>3, <1>6, <2>2 DEF PicturesApart
  <2>5. \A e, f \in Screens : IsOpen(page'[e]) /\ IsOpen(page'[f]) =>
           /\ page'[e].new # page'[f].was \/ page'[e].new = 0
           /\ e # f => page'[e].new # page'[f].new \/ page'[e].new = 0
    BY <1>3 DEF PicturesApart
  <2> QED BY <2>3, <2>4, <2>5 DEF PicturesApart, IsOpen
<1>10. PagesInOrder'
  BY <1>3 DEF PagesInOrder
<1>11. Alone'
  BY <1>1, <1>2, <1>3, <1>4 DEF Alone
<1>12. RowAsLoaded'
  <2>1. \A e \in Screens \ {d} : IsOpen(page[e]) /\ page[e].by \notin doubled => page[e].by # a
    BY <1>1 DEF Alone, IsOpen, OpenPcs, Closed
  <2>2. \A e \in Screens \ {d} : IsOpen(page[e]) => page[e].by \in Joiners
    BY PageKinds, OpenFields
  <2> QED BY <1>3, <1>4, <1>6, <2>1, <2>2 DEF RowAsLoaded, IsOpen
<1>13. StorageFollows'
  BY <1>3, <1>4 DEF StorageFollows, Waiting, Moved
<1>14. UsernamesUnique'
  BY <1>1, <1>4 DEF ProfilesExplained, UsernamesUnique, ProfilesTypeOK
<1>15. AvatarsShown'
  <2> SUFFICES ASSUME NEW b \in Joiners, b \notin doubled, b \notin unshown,
                      avatar'[b] \notin storage \cup {0}
               PROVE  \E e \in Screens : Moved(page'[e]) /\ page'[e].by = b
    BY <1>4 DEF AvatarsShown, Moved
  <2>1. CASE b # a
    BY <1>1, <1>3, <1>6, <2>1 DEF ProfilesExplained, AvatarsShown
  <2>2. CASE b = a
    <3>1. p.new = 0
      BY <1>1, <1>6, <2>2 DEF StorageFollows, Waiting, saved
    <3>2. saved = avatar[a] /\ ~Moved(p)
      BY <1>6, <2>2, <3>1 DEF saved, Moved
    <3>3. PICK e \in Screens : Moved(page[e]) /\ page[e].by = a
      BY <1>6, <2>2, <3>2 DEF ProfilesExplained, AvatarsShown
    <3>4. e = d
      BY <1>1, <2>2, <3>3 DEF Alone, Moved, Closed
    <3> QED BY <3>2, <3>3, <3>4
  <2> QED BY <2>1, <2>2
<1>16. StorageUsed'
  <2> SUFFICES ASSUME NEW f \in storage, f \notin strays', \A b \in Joiners : avatar'[b] # f
               PROVE  \E e \in Screens : Waiting(page'[e]) /\ page'[e].new = f
    BY <1>4 DEF StorageUsed, Waiting
  <2>1. strays \subseteq strays' /\ saved # f /\ f # 0
    BY <1>1, <1>4, <1>6 DEF ProfilesTypeOK
  <2>2. avatar[a] # f
    <3> SUFFICES ASSUME avatar[a] = f PROVE FALSE
      OBVIOUS
    <3>1. p.was = f
      BY <1>4, <2>1
    <3>2. Moved(p)
      BY <1>1, <2>1, <3>1 DEF Moved, saved
    <3> QED BY <3>1, <3>2 DEF StorageFollows
  <2>3. \A b \in Joiners : avatar[b] # f
    BY <1>6, <2>2
  <2>4. PICK e \in Screens : Waiting(page[e]) /\ page[e].new = f
    BY <2>1, <2>3 DEF ProfilesExplained, StorageUsed
  <2>5. e # d
    BY <2>1, <2>4 DEF saved, Waiting
  <2> QED BY <1>3, <2>4, <2>5
<1>17. ReferredOnce'
  <2> SUFFICES ASSUME NEW b \in Joiners, b \notin doubled
               PROVE  credited'[b] = {referrer'[b]} \ {"none", b}
    BY <1>4 DEF ReferredOnce
  <2>0. credited[b] = {referrer[b]} \ {"none", b}
    BY DEF ProfilesExplained, ReferredOnce
  <2>1. CASE p.code = "none"
    BY <1>1, <1>4, <1>6, <2>0, <2>1 DEF credit
  <2>2. CASE p.code # "none" /\ b # a
    BY <1>1, <1>4, <1>6, <2>0, <2>2 DEF ProfilesTypeOK
  <2>3. CASE p.code # "none" /\ b = a
    <3>1. referrer[a] = "none"
      BY <1>1, <2>3 DEF RowAsLoaded
    <3>2. credited'[a] = credited[a] \cup {p.code}
      BY <1>1, <1>4, <2>3 DEF ProfilesTypeOK
    <3>3. credited'[a] = {p.code} /\ referrer'[a] = p.code
      BY <1>6, <2>0, <2>3, <3>1, <3>2 DEF credit
    <3> QED BY <1>1, <2>3, <3>3
  <2> QED BY <2>1, <2>2, <2>3
<1>18. InterestsStored'
  BY <1>1, <1>2, <1>3, <1>4 DEF ProfilesExplained, InterestsStored, AtScreen
<1> QED BY <1>7, <1>8, <1>9, <1>10, <1>11, <1>12, <1>13, <1>14, <1>15, <1>16, <1>17, <1>18
        DEF ProfilesExplained

LEMMA ProfilesStep == ProfilesInv /\ [ProfilesNext]_profileVars => ProfilesInv'
<1> SUFFICES ASSUME ProfilesInv, [ProfilesNext]_profileVars PROVE ProfilesInv'
  OBVIOUS
<1>1. CASE OnboardingController
  BY <1>1, SaveKeeps, CloseKeeps, LoadKeeps DEF OnboardingController, Complete
<1>2. CASE ProfileController
  <2>1. "none" \in ReferralCodes
    BY DEF ReferralCodes
  <2> QED BY <1>2, <2>1, SaveKeeps, LoadKeeps DEF ProfileController, UpdateProfile
<1>3. CASE \E d \in Screens :
             \/ EnsureAvailable(d) \/ ResolveReferral(d)
             \/ DeleteAvatar(d) \/ StoreAvatar(d) \/ GiveUpPage(d)
  BY <1>3, ReferralKeeps, StorageKeeps, CloseKeeps
<1>4. CASE UNCHANGED profileVars
  BY <1>4 DEF profileVars, row, past, ProfilesInv, ProfilesTypeOK, PicturesNumbered, PicturesApart,
     PagesInOrder, Alone, RowAsLoaded, StorageFollows, ProfilesExplained, UsernamesUnique,
     AvatarsShown, StorageUsed, ReferredOnce, InterestsStored, IsOpen, Moved, Waiting, AtScreen
<1> QED BY <1>1, <1>2, <1>3, <1>4 DEF ProfilesNext

LEMMA ProfilesInitInv == ProfilesInit => ProfilesInv
<1> SUFFICES ASSUME ProfilesInit PROVE ProfilesInv
  OBVIOUS
<1> USE ProfilesAssumption DEF ProfilesInit
<1>1. ProfilesTypeOK
  BY KindsArePages DEF ProfilesTypeOK, Avatars
<1>2. PicturesNumbered /\ PicturesApart /\ PagesInOrder /\ Alone /\ RowAsLoaded /\ StorageFollows
  BY DEF PicturesNumbered, PicturesApart, PagesInOrder, Alone, RowAsLoaded, StorageFollows,
         IsOpen, OpenPcs, Closed, Waiting, Moved
<1>3. ProfilesExplained
  BY DEF ProfilesExplained, UsernamesUnique, AvatarsShown, StorageUsed, ReferredOnce, InterestsStored
<1> QED BY <1>1, <1>2, <1>3 DEF ProfilesInv

\* Whatever requests of whatever accounts overlap or end halfway, usernames
\* are unique, pictures are shown and none is left unexplained, a referrer is
\* credited once, and complete profiles have interests.
\* (OnboardingService.complete, ProfileService.update)
THEOREM ProfilesAlwaysExplained == ProfilesSpec => [](ProfilesTypeOK /\ ProfilesExplained)
<1>1. ProfilesInv => ProfilesTypeOK /\ ProfilesExplained
  BY DEF ProfilesInv
<1> QED BY <1>1, ProfilesInitInv, ProfilesStep, PTL DEF ProfilesSpec

----------------------------------------------------------------------------
(* Catalogs *)

Choosing == [pc : {"check", "begin", "delete"}, by : Pickers, want : SUBSET Entries,
             touch : BOOLEAN, held : BOOLEAN]
Inserting == [pc : {"insert"}, by : Pickers, want : SUBSET Entries,
              touch : BOOLEAN, held : BOOLEAN, seen : SUBSET Entries]
Filing == [pc : {"file"}, report : Report]
Removing == [pc : {"remove"}, reason : Entries]

\* Which requests a catalogue has: reasons are named by reports, which nothing
\* takes along, the others by lists, and a category is stored in one step.
KindsInOrder ==
  /\ filed # {} => catalogue = "reasons"
  /\ catalogue = "reasons" => \A o \in Pickers : linked[o] = {}
  /\ \A o \in Pickers : {} \in offered[o]
  /\ \A d \in Forms :
       /\ Replaces(d) => catalogue # "reasons"
       /\ Filling(d, "file") \/ Filling(d, "remove") => catalogue = "reasons"
       /\ form[d].pc \in {"delete", "insert"} => catalogue # "categories"

\* A report about to be filed gives a reason that was for its target.
ReportsUnscoped ==
  \A d \in Forms : Filling(d, "file") /\ form[d].report.on = "event_comment"
    => form[d].report.scope = {}

\* A list about to be stored was accepted.
ListsAccepted ==
  \A d \in Forms :
    form[d].pc \in {"delete", "insert"} \/ (Filling(d, "begin") /\ catalogue # "event interests")
      => form[d].want \in offered[form[d].by]

\* A request that changes its owner's row holds it while it replaces the list,
\* and no two hold it.
RowsHeld ==
  \A d \in Forms :
    /\ /\ form[d].touch
       /\ form[d].pc \in {"delete", "insert"}
            \/ (form[d].pc = "check" /\ catalogue = "event interests")
       => form[d].held
    /\ Replaces(d) /\ form[d].held =>
         \A e \in Forms : Replaces(e) /\ form[e].held /\ form[e].by = form[d].by => e = d

\* What jumbled remembers: two requests of one owner, not both holding its row.
OneReplaces ==
  \A d, e \in Forms :
    Replaces(d) /\ Replaces(e) /\ d # e /\ form[d].by = form[e].by
      => form[d].by \in jumbled \/ (form[d].touch /\ form[e].touch)

\* The deletion saw all there is.
SeenAll ==
  \A d \in Forms : Filling(d, "insert") =>
    form[d].by \in jumbled \/ linked[form[d].by] \subseteq form[d].seen

CatalogsInv ==
  /\ CatalogsTypeOK /\ KindsInOrder /\ ReportsUnscoped /\ ListsAccepted /\ RowsHeld
  /\ OneReplaces /\ SeenAll /\ CatalogsExplained

LEMMA FormKinds ==
  ASSUME NEW f \in Form
  PROVE  /\ f.pc = "free" => f = Blank
         /\ f.pc \in {"check", "begin", "delete"} => f \in Choosing
         /\ f.pc = "insert" => f \in Inserting
         /\ f.pc = "file" => f \in Filing
         /\ f.pc = "remove" => f \in Removing
<1>1. f \in {Blank} \cup Choosing \cup Inserting \cup Filing \cup Removing
  BY DEF Form, Choosing, Inserting, Filing, Removing
<1>2. CASE f = Blank
  BY <1>2 DEF Blank
<1>3. CASE f \in Choosing
  BY <1>3 DEF Choosing
<1>4. CASE f \in Inserting
  BY <1>4 DEF Inserting
<1>5. CASE f \in Filing
  BY <1>5 DEF Filing
<1>6. CASE f \in Removing
  BY <1>6 DEF Removing
<1> QED BY <1>1, <1>2, <1>3, <1>4, <1>5, <1>6

LEMMA KindsAreForms ==
  /\ Blank \in Form /\ Choosing \subseteq Form /\ Inserting \subseteq Form
  /\ Filing \subseteq Form /\ Removing \subseteq Form
  BY DEF Form, Choosing, Inserting, Filing, Removing

\* A request that replaces a list has an owner and the list wanted.
LEMMA ListFields ==
  ASSUME NEW f \in Form, f.pc \in {"check", "begin", "delete", "insert"}
  PROVE  f.by \in Pickers /\ f.want \in SUBSET Entries /\ f.touch \in BOOLEAN /\ f.held \in BOOLEAN
<1>1. f \in Choosing \/ f \in Inserting
  BY FormKinds
<1> QED BY <1>1 DEF Choosing, Inserting

\* The admin changes entries: those that went leave the lists, and reasons
\* that reports give do not go this way.
LEMMA EntriesKeep ==
  ASSUME CatalogsInv, NEW i \in Entries,
         \/ CreateEntry(i)
         \/ DeleteEntry(i) /\ catalogue # "reasons"
         \/ \E b \in BOOLEAN : UpdateEntry(i, b)
         \/ \E t \in Terms : UpdateTerms(i, t)
  PROVE  CatalogsInv'
<1> USE DEF CatalogsInv
<1>1. /\ UNCHANGED <<catalogue, filed, form, offered, jumbled>> /\ upserts' \in 0..MaxUpserts
      /\ entry' \in [Entries -> EntryState] /\ terms' \in [Entries -> Terms]
      /\ \A j \in Entries \ {i} : entry'[j] = entry[j]
      /\ catalogue = "reasons" => (InStock(i) => entry'[i] \in {"active", "inactive"})
      /\ \/ linked' = linked /\ (entry[i] = "gone" <=> entry'[i] = "gone")
         \/ /\ linked' = [o \in Pickers |-> linked[o] \ {i}] /\ entry'[i] = "gone"
            /\ catalogue # "reasons"
  <2>1. upserts' \in 0..MaxUpserts
    BY CatalogsAssumption
       DEF CreateEntry, DeleteEntry, UpdateEntry, UpdateTerms, Submit, CatalogsTypeOK
  <2>2. CASE CreateEntry(i)
    BY <2>1, <2>2 DEF CreateEntry, CatalogsTypeOK, EntryState, notesTaken, InStock
  <2>3. CASE DeleteEntry(i) /\ catalogue # "reasons"
    BY <2>1, <2>3 DEF DeleteEntry, CatalogsTypeOK, EntryState, notesTaken, InStock
  <2>4. CASE \E b \in BOOLEAN : UpdateEntry(i, b)
    BY <2>1, <2>4 DEF UpdateEntry, CatalogsTypeOK, EntryState, notesTaken, InStock
  <2>5. CASE \E t \in Terms : UpdateTerms(i, t)
    BY <2>1, <2>5 DEF UpdateTerms, CatalogsTypeOK, notesTaken, InStock
  <2> QED BY <2>2, <2>3, <2>4, <2>5
<1>2. /\ linked' \in [Pickers -> SUBSET Entries]
      /\ \A o \in Pickers : linked'[o] \subseteq linked[o]
  BY <1>1 DEF CatalogsTypeOK
<1>3. CatalogsTypeOK'
  BY <1>1, <1>2 DEF CatalogsTypeOK
<1>4. KindsInOrder'
  BY <1>1, <1>2 DEF KindsInOrder, Replaces, Filling
<1>5. ReportsUnscoped' /\ ListsAccepted' /\ RowsHeld' /\ OneReplaces'
  BY <1>1 DEF ReportsUnscoped, ListsAccepted, RowsHeld, OneReplaces, Replaces, Filling
<1>6. SeenAll'
  <2> SUFFICES ASSUME NEW d \in Forms, form[d].pc = "insert", form[d].by \notin jumbled
               PROVE  linked'[form[d].by] \subseteq form[d].seen
    BY <1>1 DEF SeenAll, Filling
  <2>1. form[d].by \in Pickers
    BY ListFields DEF CatalogsTypeOK
  <2> QED BY <1>2, <2>1 DEF SeenAll, Filling
<1>7. ReasonsKept' /\ CommentsUnscoped'
  <2>1. \A r \in filed : r.reason \in Entries
    BY DEF CatalogsTypeOK, Report
  <2>2. filed # {} => catalogue = "reasons"
    BY DEF KindsInOrder
  <2>3. ReasonsKept'
    BY <1>1, <2>1, <2>2 DEF CatalogsExplained, ReasonsKept, InStock
  <2> QED BY <1>1, <2>3 DEF CatalogsExplained, CommentsUnscoped
<1>8. OneList'
  <2> SUFFICES ASSUME NEW o \in Pickers, o \notin jumbled
               PROVE  \E want \in offered[o] : linked'[o] = {j \in want : entry'[j] # "gone"}
    BY <1>1 DEF OneList
  <2>1. PICK want \in offered[o] : linked[o] = {j \in want : entry[j] # "gone"}
    BY DEF CatalogsExplained, OneList
  <2>2. want \subseteq Entries
    BY <2>1 DEF CatalogsTypeOK
  <2>3. linked'[o] = {j \in want : entry'[j] # "gone"}
    BY <1>1, <2>1, <2>2
  <2> QED BY <2>1, <2>3
<1> QED BY <1>3, <1>4, <1>5, <1>6, <1>7, <1>8 DEF CatalogsExplained

Fills(d, q) == form' = [form EXCEPT ![d] = q]

\* A request that replaces no list, or ends: what the others rely on is left.
LEMMA OthersKeep ==
  ASSUME CatalogsInv, NEW d \in Forms, NEW q \in {Blank} \cup Filing \cup Removing, Fills(d, q),
         UNCHANGED <<catalogue, terms, linked, notesTaken>>, upserts' \in 0..MaxUpserts,
         entry' \in [Entries -> EntryState], filed' \subseteq Report,
         filed' = filed \/ catalogue = "reasons", entry' = entry \/ catalogue = "reasons",
         q # Blank => catalogue = "reasons",
         q.pc = "file" /\ q.report.on = "event_comment" => q.report.scope = {},
         ReasonsKept', CommentsUnscoped'
  PROVE  CatalogsInv'
<1> USE DEF CatalogsInv, notesTaken
<1>1. /\ \A e \in Forms : form'[e] = IF e = d THEN q ELSE form[e]
      /\ form' \in [Forms -> Form] /\ q.pc \in {"free", "file", "remove"}
      /\ q.pc # "free" => catalogue = "reasons"
  BY KindsAreForms DEF Fills, CatalogsTypeOK, Blank, Filing, Removing
<1>2. CatalogsTypeOK'
  BY <1>1 DEF CatalogsTypeOK
<1>3. KindsInOrder'
  BY <1>1 DEF KindsInOrder, Replaces, Filling
<1>4. ReportsUnscoped'
  BY <1>1 DEF ReportsUnscoped, Filling
<1>5. ListsAccepted' /\ RowsHeld' /\ OneReplaces' /\ SeenAll'
  <2>1. ListsAccepted' /\ OneReplaces'
    BY <1>1 DEF ListsAccepted, OneReplaces, Replaces, Filling
  <2>2. RowsHeld' /\ SeenAll'
    BY <1>1 DEF RowsHeld, SeenAll, Replaces, Filling
  <2> QED BY <2>1, <2>2
<1>6. OneList'
  <2>1. CASE entry' = entry
    BY <2>1 DEF OneList, CatalogsExplained
  <2>2. CASE catalogue = "reasons"
    <3> SUFFICES ASSUME NEW o \in Pickers
                 PROVE  \E want \in offered[o] : linked[o] = {i \in want : entry'[i] # "gone"}
      BY DEF OneList
    <3>1. {} \in offered[o] /\ linked[o] = {}
      BY <2>2 DEF KindsInOrder
    <3> QED BY <3>1
  <2> QED BY <2>1, <2>2
<1> QED BY <1>2, <1>3, <1>4, <1>5, <1>6 DEF CatalogsExplained

LEMMA ReasonsKeep ==
  ASSUME CatalogsInv, NEW d \in Forms,
         \/ Retract(d) \/ CreateReport(d)
         \/ DeleteReportReason(d) /\ catalogue = "reasons"
         \/ \E i \in Entries : CountReports(d, i) /\ catalogue = "reasons"
         \/ \E o \in Pickers, t \in TargetTypes, i \in Entries, details \in BOOLEAN :
              ResolveReason(d, o, t, i, details)
  PROVE  CatalogsInv'
<1> USE DEF CatalogsInv
<1>0. /\ form[d] \in Form /\ upserts \in 0..MaxUpserts /\ entry \in [Entries -> EntryState]
      /\ filed \subseteq Report /\ ReasonsKept /\ CommentsUnscoped
      /\ filed # {} => catalogue = "reasons"
      /\ Filling(d, "file") \/ Filling(d, "remove") => catalogue = "reasons"
  BY DEF CatalogsTypeOK, CatalogsExplained, KindsInOrder
<1>1. CASE Retract(d)
  <2>1. Blank.pc # "file"
    BY DEF Blank
  <2>2. ReasonsKept' /\ CommentsUnscoped'
    BY <1>0, <1>1 DEF Retract, ReasonsKept, CommentsUnscoped, InStock, entryRows
  <2> QED BY <1>0, <1>1, <2>1, <2>2, OthersKeep DEF Retract, Fill, Fills, entryRows
<1>2. CASE CreateReport(d)
  <2> DEFINE r == form[d].report
  <2>1. form[d] \in Filing /\ catalogue = "reasons"
    BY <1>0, <1>2, FormKinds DEF CreateReport, Filling
  <2>2. r \in Report
    BY <2>1 DEF Filing
  <2>3. /\ filed' = filed \cup {r} /\ UNCHANGED <<catalogue, entry, terms, linked, upserts, notesTaken>>
        /\ InStock(r.reason) /\ Fills(d, Blank) /\ Filling(d, "file")
    BY <1>2 DEF CreateReport, Fill, Fills, entryRows
  <2>4. r.on = "event_comment" => r.scope = {}
    BY <2>3 DEF ReportsUnscoped
  <2>5. ReasonsKept' /\ CommentsUnscoped'
    BY <1>0, <2>3, <2>4 DEF ReasonsKept, CommentsUnscoped, InStock
  <2>6. Blank.pc # "file"
    BY DEF Blank
  <2> HIDE DEF r
  <2>7. filed' \subseteq Report
    BY <1>0, <2>2, <2>3
  <2> QED BY <1>0, <2>1, <2>3, <2>5, <2>6, <2>7, OthersKeep
<1>3. CASE DeleteReportReason(d) /\ catalogue = "reasons"
  <2> DEFINE i == form[d].reason
  <2>1. form[d] \in Removing
    BY <1>0, <1>3, FormKinds DEF DeleteReportReason, Filling
  <2>2. i \in Entries
    BY <2>1 DEF Removing
  <2>3. /\ entry' = [entry EXCEPT ![i] = "gone"] /\ ~InUse(i)
        /\ UNCHANGED <<catalogue, terms, linked, filed, upserts, notesTaken>> /\ Fills(d, Blank)
    BY <1>3 DEF DeleteReportReason, Fill, Fills
  <2>4. entry' \in [Entries -> EntryState]
    BY <1>0, <2>2, <2>3 DEF EntryState
  <2>5. ReasonsKept' /\ CommentsUnscoped'
    <3>1. \A r \in filed : r.reason # i
      BY <2>3 DEF InUse
    <3>2. \A r \in filed : entry'[r.reason] = entry[r.reason]
      BY <1>0, <2>2, <2>3, <3>1
    <3> QED BY <1>0, <2>3, <3>2 DEF ReasonsKept, CommentsUnscoped, InStock
  <2>6. Blank.pc # "file"
    BY DEF Blank
  <2> HIDE DEF i
  <2> QED BY <1>0, <1>3, <2>3, <2>4, <2>5, <2>6, OthersKeep
<1>4. ASSUME NEW i \in Entries, CountReports(d, i), catalogue = "reasons" PROVE CatalogsInv'
  <2> DEFINE q == [pc |-> "remove", reason |-> i]
  <2>1. q \in Removing /\ q.pc # "file"
    BY DEF Removing
  <2>2. /\ UNCHANGED <<catalogue, entry, terms, linked, filed, notesTaken>> /\ Fills(d, q)
        /\ upserts' \in 0..MaxUpserts
    BY <1>0, <1>4, CatalogsAssumption DEF CountReports, Submit, Fill, Fills, entryRows
  <2>3. ReasonsKept' /\ CommentsUnscoped'
    BY <1>0, <2>2 DEF ReasonsKept, CommentsUnscoped, InStock
  <2> HIDE DEF q
  <2> QED BY <1>0, <1>4, <2>1, <2>2, <2>3, OthersKeep
<1>5. ASSUME NEW o \in Pickers, NEW t \in TargetTypes, NEW i \in Entries, NEW details \in BOOLEAN,
             ResolveReason(d, o, t, i, details)
      PROVE  CatalogsInv'
  <2> DEFINE q == [pc |-> "file",
                   report |-> [by |-> o, on |-> t, reason |-> i, scope |-> terms[i].scope]]
  <2>1. terms[i].scope \in SUBSET ScopeTypes
    BY DEF CatalogsTypeOK, Terms
  <2>2. q \in Filing /\ q.pc = "file" /\ q.report.on = t /\ q.report.scope = terms[i].scope
    BY <2>1 DEF Filing, Report
  <2>3. terms[i].scope = {} \/ t \in terms[i].scope
    BY <1>5 DEF ResolveReason
  <2>4. q.report.on = "event_comment" => q.report.scope = {}
    BY <2>1, <2>2, <2>3 DEF ScopeTypes
  <2>5. /\ UNCHANGED <<catalogue, entry, terms, linked, filed, notesTaken>> /\ Fills(d, q)
        /\ upserts' \in 0..MaxUpserts /\ catalogue = "reasons"
    BY <1>0, <1>5, CatalogsAssumption DEF ResolveReason, Submit, Fill, Fills, entryRows
  <2>6. ReasonsKept' /\ CommentsUnscoped'
    BY <1>0, <2>5 DEF ReasonsKept, CommentsUnscoped, InStock
  <2> HIDE DEF q
  <2> QED BY <1>0, <2>2, <2>4, <2>5, <2>6, OthersKeep
<1> QED BY <1>1, <1>2, <1>3, <1>4, <1>5

\* A request to replace a list goes on, with nothing stored yet.
LEMMA ListsProceed ==
  ASSUME CatalogsInv, NEW d \in Forms, NEW q \in Form, Fills(d, q),
         q.pc \in {"check", "begin", "delete", "insert"},
         UNCHANGED <<catalogue, entryRows, linked, filed>>, catalogue # "reasons",
         upserts' \in 0..MaxUpserts, offered' \in [Pickers -> SUBSET SUBSET Entries],
         \A o \in Pickers : offered[o] \subseteq offered'[o],
         jumbled \subseteq jumbled', jumbled' \subseteq Pickers,
         q.pc \in {"delete", "insert"} => catalogue # "categories",
         q.pc \in {"delete", "insert"} \/ (q.pc = "begin" /\ catalogue # "event interests")
           => q.want \in offered'[q.by],
         /\ q.touch
         /\ q.pc \in {"delete", "insert"} \/ (q.pc = "check" /\ catalogue = "event interests")
         => q.held,
         q.held => \A e \in Forms \ {d} : ~(Replaces(e) /\ form[e].held /\ form[e].by = q.by),
         \A e \in Forms \ {d} : Replaces(e) /\ form[e].by = q.by =>
           q.by \in jumbled' \/ (q.touch /\ form[e].touch),
         q.pc = "insert" => q.by \in jumbled' \/ linked[q.by] \subseteq q.seen
  PROVE  CatalogsInv'
<1> USE DEF CatalogsInv, entryRows
<1>1. /\ \A e \in Forms : form'[e] = IF e = d THEN q ELSE form[e]
      /\ form' \in [Forms -> Form]
      /\ \A e \in Forms \ {d} : Replaces(e) => form[e].by \in Pickers
  BY ListFields DEF Fills, CatalogsTypeOK, Replaces
<1>2. CatalogsTypeOK'
  BY <1>1 DEF CatalogsTypeOK
<1>3. KindsInOrder'
  BY <1>1 DEF KindsInOrder, Replaces, Filling
<1>4. ReportsUnscoped'
  BY <1>1 DEF ReportsUnscoped, Filling
<1>5. ListsAccepted'
  <2> SUFFICES ASSUME NEW e \in Forms, 
                      form'[e].pc \in {"delete", "insert"}
                        \/ (form'[e].pc = "begin" /\ catalogue # "event interests")
               PROVE  form'[e].want \in offered'[form'[e].by]
    BY DEF ListsAccepted, Filling
  <2>1. CASE e = d
    BY <1>1, <2>1
  <2>2. CASE e # d
    <3>1. form[e].want \in offered[form[e].by] /\ form[e].by \in Pickers
      BY <1>1, <2>2 DEF ListsAccepted, Filling, Replaces
    <3> QED BY <1>1, <2>2, <3>1
  <2> QED BY <2>1, <2>2
<1>6. RowsHeld'
  <2>1. \A e \in Forms :
          /\ form'[e].touch
          /\ form'[e].pc \in {"delete", "insert"}
               \/ (form'[e].pc = "check" /\ catalogue = "event interests")
          => form'[e].held
    BY <1>1 DEF RowsHeld
  <2>2. \A e, f \in Forms :
          /\ form'[e].pc \in {"check", "begin", "delete", "insert"} /\ form'[e].held
          /\ form'[f].pc \in {"check", "begin", "delete", "insert"} /\ form'[f].held
          /\ form'[f].by = form'[e].by
          => f = e
    <3> SUFFICES ASSUME NEW e \in Forms, NEW f \in Forms, f # e,
                        form'[e].pc \in {"check", "begin", "delete", "insert"}, form'[e].held,
                        form'[f].pc \in {"check", "begin", "delete", "insert"}, form'[f].held,
                        form'[f].by = form'[e].by
                 PROVE  FALSE
      OBVIOUS
    <3>1. CASE e # d /\ f # d
      BY <1>1, <3>1 DEF RowsHeld, Replaces
    <3>2. CASE e = d \/ f = d
      BY <1>1, <3>2 DEF Replaces
    <3> QED BY <3>1, <3>2
  <2> QED BY <2>1, <2>2 DEF RowsHeld, Replaces
<1>7. OneReplaces'
  <2> SUFFICES ASSUME NEW e \in Forms, NEW f \in Forms, e # f,
                      form'[e].pc \in {"check", "begin", "delete", "insert"},
                      form'[f].pc \in {"check", "begin", "delete", "insert"},
                      form'[e].by = form'[f].by, form'[e].by \notin jumbled'
               PROVE  form'[e].touch /\ form'[f].touch
    BY DEF OneReplaces, Replaces
  <2>1. CASE e # d /\ f # d
    BY <1>1, <2>1 DEF OneReplaces, Replaces
  <2>2. CASE e = d \/ f = d
    BY <1>1, <2>2 DEF Replaces
  <2> QED BY <2>1, <2>2
<1>8. SeenAll'
  BY <1>1 DEF SeenAll, Filling
<1>9. CatalogsExplained'
  <2>1. ReasonsKept' /\ CommentsUnscoped'
    BY DEF CatalogsExplained, ReasonsKept, CommentsUnscoped, InStock
  <2>2. OneList'
    <3> SUFFICES ASSUME NEW o \in Pickers, o \notin jumbled'
                 PROVE  \E want \in offered'[o] : linked[o] = {i \in want : entry[i] # "gone"}
      BY DEF OneList
    <3>1. PICK want \in offered[o] : linked[o] = {i \in want : entry[i] # "gone"}
      BY DEF CatalogsExplained, OneList
    <3> QED BY <3>1
  <2> QED BY <2>1, <2>2 DEF CatalogsExplained
<1> QED BY <1>2, <1>3, <1>4, <1>5, <1>6, <1>7, <1>8, <1>9

LEMMA ChooseKeeps ==
  ASSUME CatalogsInv, NEW d \in Forms, NEW o \in Pickers, NEW want \in SUBSET Entries,
         NEW touch \in BOOLEAN, Choose(d, o, want, touch)
  PROVE  CatalogsInv'
<1> DEFINE q == [pc |-> IF catalogue = "event interests" THEN "begin" ELSE "check",
                 by |-> o, want |-> want, touch |-> touch, held |-> FALSE]
<1>1. /\ q \in Form /\ q.pc \in {"check", "begin"} /\ q.by = o /\ q.touch = touch /\ ~q.held
      /\ q.pc = "begin" <=> catalogue = "event interests"
  BY KindsAreForms DEF Choosing
<1>2. /\ Fills(d, q) /\ UNCHANGED <<catalogue, entryRows, linked, filed, offered>>
      /\ catalogue # "reasons" /\ upserts' \in 0..MaxUpserts
      /\ jumbled' = IF \E e \in Forms : /\ Replaces(e) /\ form[e].by = o
                                        /\ ~(touch /\ form[e].touch)
                    THEN jumbled \cup {o} ELSE jumbled
  <2>1. Submit => upserts' \in 0..MaxUpserts
    BY CatalogsAssumption DEF Submit, CatalogsInv, CatalogsTypeOK
  <2> QED BY <2>1 DEF Choose, Fill, Fills
<1>3. offered' \in [Pickers -> SUBSET SUBSET Entries] /\ jumbled \subseteq Pickers
  BY <1>2 DEF CatalogsInv, CatalogsTypeOK
<1> HIDE DEF q
<1>4. /\ jumbled \subseteq jumbled' /\ jumbled' \subseteq Pickers
      /\ \A e \in Forms \ {d} : Replaces(e) /\ form[e].by = q.by =>
           q.by \in jumbled' \/ (q.touch /\ form[e].touch)
  BY <1>1, <1>2, <1>3
<1>5. /\ \A p \in Pickers : offered[p] \subseteq offered'[p]
      /\ q.pc \notin {"delete", "insert"} /\ (q.pc = "begin" => catalogue = "event interests")
      /\ q.pc \in {"check", "begin", "delete", "insert"} /\ q.pc # "insert"
      /\ q.pc = "check" => catalogue # "event interests"
  BY <1>1, <1>2
<1> QED BY <1>1, <1>2, <1>3, <1>4, <1>5, ListsProceed

LEMMA ListStepKeeps ==
  ASSUME CatalogsInv, NEW d \in Forms, CheckEntries(d) \/ BeginSave(d) \/ DeleteLinked(d)
  PROVE  CatalogsInv'
<1> DEFINE f == form[d]
<1> USE DEF CatalogsInv
<1>1. f \in Choosing /\ f \in Form /\ Replaces(d) /\ catalogue # "reasons" /\ f.by \in Pickers
      /\ f.want \in SUBSET Entries /\ f.touch \in BOOLEAN /\ f.held \in BOOLEAN
  <2>1. f.pc \in {"check", "begin", "delete"} /\ f \in Form
    BY DEF CheckEntries, BeginSave, DeleteLinked, Filling, CatalogsTypeOK
  <2>2. Replaces(d) /\ catalogue # "reasons"
    BY <2>1 DEF Replaces, KindsInOrder
  <2> QED BY <2>1, <2>2, FormKinds, ListFields
<1>2. /\ \A e \in Forms \ {d} : Replaces(e) /\ form[e].by = f.by =>
           f.by \in jumbled \/ (f.touch /\ form[e].touch)
      /\ f.held => \A e \in Forms \ {d} : ~(Replaces(e) /\ form[e].held /\ form[e].by = f.by)
  BY <1>1 DEF OneReplaces, RowsHeld
<1>3. /\ offered \in [Pickers -> SUBSET SUBSET Entries] /\ jumbled \subseteq Pickers
      /\ upserts \in 0..MaxUpserts
  BY DEF CatalogsTypeOK
<1>4. CASE CheckEntries(d)
  <2> DEFINE q == [f EXCEPT !.pc = IF catalogue = "event interests" THEN "delete" ELSE "begin"]
  <2>1. /\ q \in Form /\ q.pc = (IF catalogue = "event interests" THEN "delete" ELSE "begin")
        /\ q.by = f.by /\ q.want = f.want /\ q.touch = f.touch /\ q.held = f.held
    BY <1>1, KindsAreForms DEF Choosing
  <2>2. /\ Fills(d, q) /\ offered' = [offered EXCEPT ![f.by] = @ \cup {f.want}]
        /\ UNCHANGED <<catalogue, entryRows, linked, filed, upserts, jumbled>> /\ f.pc = "check"
    BY <1>4 DEF CheckEntries, Fill, Fills, Filling
  <2>3. /\ offered' \in [Pickers -> SUBSET SUBSET Entries] /\ f.want \in offered'[f.by]
        /\ \A o \in Pickers : offered[o] \subseteq offered'[o]
    BY <1>1, <1>3, <2>2
  <2>4. catalogue = "event interests" /\ f.touch => f.held
    BY <1>1, <2>2 DEF RowsHeld
  <2> HIDE DEF q
  <2> QED BY <1>1, <1>2, <1>3, <2>1, <2>2, <2>3, <2>4, ListsProceed
<1>5. CASE BeginSave(d)
  <2> DEFINE q == [f EXCEPT !.held = f.touch,
                            !.pc = IF catalogue = "event interests" THEN "check" ELSE "delete"]
  <2>1. /\ q \in Form /\ q.pc = (IF catalogue = "event interests" THEN "check" ELSE "delete")
        /\ q.by = f.by /\ q.want = f.want /\ q.touch = f.touch /\ q.held = f.touch
    BY <1>1, KindsAreForms DEF Choosing
  <2>2. /\ Fills(d, q) /\ f.pc = "begin" /\ catalogue # "categories"
        /\ UNCHANGED <<catalogue, entryRows, linked, filed, upserts, offered, jumbled>>
        /\ f.touch => \A e \in Forms : ~(Replaces(e) /\ form[e].held /\ form[e].by = f.by)
    BY <1>5 DEF BeginSave, Fill, Fills, Filling, Held, notesTaken
  <2>3. catalogue # "event interests" => f.want \in offered[f.by]
    BY <2>2 DEF ListsAccepted, Filling
  <2> HIDE DEF q
  <2> QED BY <1>1, <1>2, <1>3, <2>1, <2>2, <2>3, ListsProceed
<1>6. CASE DeleteLinked(d)
  <2> DEFINE q == [pc |-> "insert", by |-> f.by, want |-> f.want,
                   touch |-> f.touch, held |-> f.held, seen |-> linked[f.by]]
  <2>1. linked[f.by] \in SUBSET Entries
    BY <1>1 DEF CatalogsTypeOK
  <2>2. /\ q \in Form /\ q.pc = "insert" /\ q.seen = linked[f.by]
        /\ q.by = f.by /\ q.want = f.want /\ q.touch = f.touch /\ q.held = f.held
    BY <1>1, <2>1, KindsAreForms DEF Inserting
  <2>3. /\ Fills(d, q) /\ f.pc = "delete"
        /\ UNCHANGED <<catalogue, entryRows, linked, filed, upserts, offered, jumbled>>
    BY <1>6 DEF DeleteLinked, Fill, Fills, Filling, notesTaken
  <2>4. f.want \in offered[f.by] /\ catalogue # "categories" /\ (f.touch => f.held)
    BY <2>3 DEF ListsAccepted, Filling, KindsInOrder, RowsHeld
  <2> HIDE DEF q
  <2> QED BY <1>1, <1>2, <1>3, <2>2, <2>3, <2>4, ListsProceed
<1> QED BY <1>4, <1>5, <1>6

\* A category is stored as it was accepted.
LEMMA SetCategoryKeeps ==
  ASSUME CatalogsInv, NEW d \in Forms, SetCategory(d)
  PROVE  CatalogsInv'
<1> DEFINE f == form[d]
<1> USE DEF CatalogsInv
<1>1. /\ Filling(d, "begin") /\ catalogue = "categories" /\ \A i \in f.want : InStock(i)
      /\ linked' = [linked EXCEPT ![f.by] = f.want] /\ Fills(d, Blank)
      /\ UNCHANGED <<catalogue, entry, terms, filed, upserts, offered, jumbled>>
  BY DEF SetCategory, Fill, Fills, entryRows, notesTaken
<1>2. f.by \in Pickers /\ f.want \in SUBSET Entries /\ f.want \in offered[f.by]
  BY <1>1, ListFields DEF CatalogsTypeOK, Filling, ListsAccepted
<1>3. /\ \A e \in Forms : form'[e] = IF e = d THEN Blank ELSE form[e]
      /\ form' \in [Forms -> Form] /\ Blank.pc = "free"
  BY <1>1, KindsAreForms DEF Fills, CatalogsTypeOK, Blank
<1>4. /\ linked' \in [Pickers -> SUBSET Entries] /\ linked'[f.by] = f.want
      /\ \A o \in Pickers \ {f.by} : linked'[o] = linked[o]
  BY <1>1, <1>2 DEF CatalogsTypeOK
<1>5. CatalogsTypeOK'
  BY <1>1, <1>3, <1>4 DEF CatalogsTypeOK
<1>6. KindsInOrder'
  BY <1>1, <1>3 DEF KindsInOrder, Replaces, Filling
<1>7. ReportsUnscoped' /\ ListsAccepted' /\ RowsHeld' /\ OneReplaces'
  BY <1>1, <1>3 DEF ReportsUnscoped, ListsAccepted, RowsHeld, OneReplaces, Replaces, Filling
<1>8. SeenAll'
  BY <1>1, <1>3 DEF SeenAll, KindsInOrder, Filling
<1>9. ReasonsKept' /\ CommentsUnscoped'
  BY <1>1 DEF CatalogsExplained, ReasonsKept, CommentsUnscoped, InStock
<1>10. OneList'
  <2> SUFFICES ASSUME NEW o \in Pickers, o \notin jumbled
               PROVE  \E want \in offered[o] : linked'[o] = {i \in want : entry[i] # "gone"}
    BY <1>1 DEF OneList
  <2>1. CASE o = f.by
    BY <1>1, <1>2, <1>4, <2>1 DEF InStock
  <2>2. CASE o # f.by
    BY <1>4, <2>2 DEF CatalogsExplained, OneList
  <2> QED BY <2>1, <2>2
<1> QED BY <1>5, <1>6, <1>7, <1>8, <1>9, <1>10 DEF CatalogsExplained

\* Whoever's requests did not meet has the list stored last, for its deletion
\* saw all there was, and the others saw nothing less.
LEMMA InsertKeeps ==
  ASSUME CatalogsInv, NEW d \in Forms, InsertLinked(d)
  PROVE  CatalogsInv'
<1> DEFINE f == form[d]
           o == f.by
           kept == linked[o] \ f.seen
           Cut(e) == Filling(e, "insert") /\ form[e].by = o
<1> USE DEF CatalogsInv
<1>1. /\ Filling(d, "insert") /\ \A i \in f.want : InStock(i)
      /\ linked' = [linked EXCEPT ![o] = kept \cup f.want]
      /\ UNCHANGED <<catalogue, entry, terms, filed, upserts, offered, jumbled>>
      /\ form' = [e \in Forms |->
           IF e = d THEN Blank
           ELSE IF Cut(e) THEN [form[e] EXCEPT !.seen = @ \cap kept] ELSE form[e]]
  BY DEF InsertLinked, entryRows, notesTaken
<1>2. /\ f \in Inserting /\ o \in Pickers /\ f.want \in SUBSET Entries /\ f.want \in offered[o]
      /\ catalogue # "reasons" /\ linked[o] \in SUBSET Entries
  <2>1. f \in Inserting
    BY <1>1, FormKinds DEF CatalogsTypeOK, Filling
  <2>2. o \in Pickers /\ f.want \in SUBSET Entries
    BY <2>1 DEF Inserting
  <2>3. f.want \in offered[o]
    BY <1>1 DEF ListsAccepted, Filling
  <2>4. catalogue # "reasons"
    BY <1>1 DEF KindsInOrder, Replaces, Filling
  <2>5. linked[o] \in SUBSET Entries
    BY <2>2 DEF CatalogsTypeOK
  <2> QED BY <2>1, <2>2, <2>3, <2>4, <2>5
<1>3. /\ \A e \in Forms \ {d} : Cut(e) =>
           /\ form'[e] \in Inserting /\ form'[e].pc = "insert" /\ form'[e].by = form[e].by
           /\ form'[e].want = form[e].want /\ form'[e].touch = form[e].touch
           /\ form'[e].held = form[e].held
      /\ \A e \in Forms \ {d} : ~Cut(e) => form'[e] = form[e]
      /\ form'[d] = Blank /\ Blank.pc = "free"
  <2>1. ASSUME NEW e \in Forms \ {d}, Cut(e)
        PROVE  /\ form'[e] \in Inserting /\ form'[e].pc = "insert" /\ form'[e].by = form[e].by
               /\ form'[e].want = form[e].want /\ form'[e].touch = form[e].touch
               /\ form'[e].held = form[e].held
    <3>1. form[e] \in Inserting
      BY <2>1, FormKinds DEF CatalogsTypeOK, Filling
    <3>2. form'[e] = [form[e] EXCEPT !.seen = @ \cap kept]
      BY <1>1, <2>1
    <3>3. form[e].seen \cap kept \in SUBSET Entries
      BY <3>1 DEF Inserting
    <3> HIDE DEF kept
    <3> QED BY <3>1, <3>2, <3>3 DEF Inserting
  <2>2. \A e \in Forms \ {d} : ~Cut(e) => form'[e] = form[e]
    BY <1>1
  <2>3. form'[d] = Blank /\ Blank.pc = "free"
    BY <1>1 DEF Blank
  <2> HIDE DEF Cut
  <2> QED BY <2>1, <2>2, <2>3
<1>4. \A e \in Forms \ {d} :
        /\ form'[e].pc = form[e].pc /\ form'[e] \in Form
        /\ Replaces(e) => /\ form'[e].by = form[e].by /\ form'[e].want = form[e].want
                          /\ form'[e].touch = form[e].touch /\ form'[e].held = form[e].held
        /\ ~Replaces(e) => form'[e] = form[e]
  BY <1>3, KindsAreForms DEF Filling, Replaces, CatalogsTypeOK
<1>5. /\ linked' \in [Pickers -> SUBSET Entries] /\ linked'[o] = kept \cup f.want
      /\ \A p \in Pickers \ {o} : linked'[p] = linked[p]
  BY <1>1, <1>2 DEF CatalogsTypeOK
<1>6. form' \in [Forms -> Form]
  <2>1. \A e \in Forms : form'[e] \in Form
    BY <1>3, <1>4, KindsAreForms
  <2>2. form' = [e \in Forms |-> form'[e]]
    BY <1>1
  <2> QED BY <2>1, <2>2
<1>7. o \in jumbled \/ (kept = {} /\ \A e \in Forms \ {d} : ~Cut(e))
  <2> SUFFICES ASSUME o \notin jumbled PROVE kept = {} /\ \A e \in Forms \ {d} : ~Cut(e)
    OBVIOUS
  <2>1. kept = {}
    BY <1>1 DEF SeenAll
  <2>2. ASSUME NEW e \in Forms \ {d}, Cut(e) PROVE FALSE
    <3>1. form[e].touch /\ f.touch
      BY <1>1, <2>2 DEF OneReplaces, Replaces, Filling
    <3>2. form[e].held /\ f.held
      BY <1>1, <2>2, <3>1 DEF RowsHeld, Filling
    <3> QED BY <1>1, <2>2, <3>2 DEF RowsHeld, Replaces, Filling
  <2> QED BY <2>1, <2>2
<1> HIDE DEF kept, Cut
<1>8. CatalogsTypeOK'
  BY <1>1, <1>5, <1>6 DEF CatalogsTypeOK
<1>9. KindsInOrder'
  BY <1>1, <1>2, <1>3, <1>4 DEF KindsInOrder, Replaces, Filling
<1>10. ReportsUnscoped' /\ ListsAccepted'
  <2>1. ReportsUnscoped'
    BY <1>3, <1>4 DEF ReportsUnscoped, Filling, Replaces
  <2>2. ListsAccepted'
    BY <1>1, <1>3, <1>4 DEF ListsAccepted, Filling, Replaces
  <2> QED BY <2>1, <2>2
<1>11. RowsHeld'
  <2>1. \A e \in Forms :
          /\ form'[e].touch
          /\ form'[e].pc \in {"delete", "insert"}
               \/ (form'[e].pc = "check" /\ catalogue = "event interests")
          => form'[e].held
    <3>1. \A e \in Forms :
             form[e].touch
             /\ (form[e].pc \in {"delete", "insert"}
                   \/ (form[e].pc = "check" /\ catalogue = "event interests"))
             => form[e].held
      BY DEF RowsHeld, Replaces
    <3> QED BY <1>3, <1>4, <3>1 DEF Replaces
  <2>2. \A e \in Forms : form'[e].pc \in {"check", "begin", "delete", "insert"} =>
          e # d /\ Replaces(e) /\ form'[e].by = form[e].by /\ form'[e].held = form[e].held
    BY <1>3, <1>4 DEF Replaces
  <2>3. ASSUME NEW e \in Forms, form'[e].pc \in {"check", "begin", "delete", "insert"},
               form'[e].held,
               NEW g \in Forms, form'[g].pc \in {"check", "begin", "delete", "insert"},
               form'[g].held, form'[g].by = form'[e].by
        PROVE  g = e
    <3>1. /\ Replaces(e) /\ form[e].held /\ Replaces(g) /\ form[g].held
          /\ form[g].by = form[e].by
      BY <2>2, <2>3
    <3> QED BY <3>1 DEF RowsHeld
  <2> QED BY <1>1, <2>1, <2>3 DEF RowsHeld, Replaces
<1>12. OneReplaces'
  BY <1>1, <1>3, <1>4 DEF OneReplaces, Replaces
<1>13. SeenAll'
  <2> SUFFICES ASSUME NEW e \in Forms, form'[e].pc = "insert", form'[e].by \notin jumbled
               PROVE  linked'[form'[e].by] \subseteq form'[e].seen
    BY <1>1 DEF SeenAll, Filling
  <2>1. e # d /\ form[e].pc = "insert" /\ form'[e].by = form[e].by /\ form[e].by \in Pickers
    BY <1>3, <1>4, ListFields DEF Replaces, CatalogsTypeOK
  <2>2. form[e].by # o
    BY <1>7, <2>1 DEF Cut, Filling
  <2>3. form'[e] = form[e]
    BY <1>3, <2>1, <2>2 DEF Cut
  <2> QED BY <1>5, <2>1, <2>2, <2>3 DEF SeenAll, Filling
<1>14. ReasonsKept' /\ CommentsUnscoped'
  BY <1>1 DEF CatalogsExplained, ReasonsKept, CommentsUnscoped, InStock
<1>15. OneList'
  <2> SUFFICES ASSUME NEW p \in Pickers, p \notin jumbled
               PROVE  \E want \in offered[p] : linked'[p] = {i \in want : entry[i] # "gone"}
    BY <1>1 DEF OneList
  <2>1. CASE p = o
    <3>1. linked'[o] = f.want /\ \A i \in f.want : entry[i] # "gone"
      BY <1>1, <1>5, <1>7, <2>1 DEF InStock
    <3> QED BY <1>2, <2>1, <3>1
  <2>2. CASE p # o
    BY <1>5, <2>2 DEF CatalogsExplained, OneList
  <2> QED BY <2>1, <2>2
<1> QED BY <1>8, <1>9, <1>10, <1>11, <1>12, <1>13, <1>14, <1>15 DEF CatalogsExplained

LEMMA CatalogsStep == CatalogsInv /\ [CatalogsNext]_catalogVars => CatalogsInv'
<1> SUFFICES ASSUME CatalogsInv, [CatalogsNext]_catalogVars PROVE CatalogsInv'
  OBVIOUS
<1>1. CASE InterestCatalog \/ CategoryCatalog \/ PlatformCatalog
  BY <1>1, EntriesKeep DEF InterestCatalog, CategoryCatalog, PlatformCatalog
<1>2. CASE ReasonCatalog
  <2>1. ASSUME NEW i \in Entries,
               \/ CreateEntry(i) \/ \E b \in BOOLEAN : UpdateEntry(i, b)
               \/ \E t \in Terms : UpdateTerms(i, t)
        PROVE  CatalogsInv'
    BY <2>1, EntriesKeep
  <2>2. ASSUME NEW d \in Forms,
               DeleteReportReason(d) \/ \E i \in Entries : CountReports(d, i),
               catalogue = "reasons"
        PROVE  CatalogsInv'
    <3>1. CASE DeleteReportReason(d)
      BY <2>2, <3>1, ReasonsKeep
    <3>2. CASE \E i \in Entries : CountReports(d, i)
      <4>1. \E i \in Entries : CountReports(d, i) /\ catalogue = "reasons"
        BY <2>2, <3>2
      <4> QED BY <4>1, ReasonsKeep
    <3> QED BY <2>2, <3>1, <3>2
  <2>3. /\ catalogue = "reasons"
        /\ \/ \E i \in Entries :
                \/ CreateEntry(i) \/ \E b \in BOOLEAN : UpdateEntry(i, b)
                \/ \E t \in Terms : UpdateTerms(i, t)
           \/ \E d \in Forms : DeleteReportReason(d) \/ \E i \in Entries : CountReports(d, i)
    BY <1>2 DEF ReasonCatalog
  <2> QED BY <2>1, <2>2, <2>3
<1>3. ASSUME NEW d \in Forms,
             \/ CheckEntries(d) \/ BeginSave(d) \/ SetCategory(d) \/ DeleteLinked(d)
             \/ InsertLinked(d) \/ CreateReport(d) \/ Retract(d)
      PROVE  CatalogsInv'
  BY <1>3, ListStepKeeps, SetCategoryKeeps, InsertKeeps, ReasonsKeep
<1>4. ASSUME NEW d \in Forms, NEW o \in Pickers,
             \/ \E want \in SUBSET Entries, touch \in BOOLEAN : Choose(d, o, want, touch)
             \/ \E t \in TargetTypes, i \in Entries, details \in BOOLEAN :
                  ResolveReason(d, o, t, i, details)
      PROVE  CatalogsInv'
  BY <1>4, ChooseKeeps, ReasonsKeep
<1>5. CASE UNCHANGED catalogVars
  <2> USE <1>5 DEF catalogVars, entryRows, notesTaken, CatalogsInv
  <2>1. CatalogsTypeOK' /\ KindsInOrder' /\ ReportsUnscoped'
    BY DEF CatalogsTypeOK, KindsInOrder, ReportsUnscoped, Replaces, Filling
  <2>2. ListsAccepted' /\ RowsHeld' /\ OneReplaces' /\ SeenAll'
    BY DEF ListsAccepted, RowsHeld, OneReplaces, SeenAll, Replaces, Filling
  <2>3. CatalogsExplained'
    BY DEF CatalogsExplained, ReasonsKept, CommentsUnscoped, OneList, InStock
  <2> QED BY <2>1, <2>2, <2>3
<1> QED BY <1>1, <1>2, <1>3, <1>4, <1>5 DEF CatalogsNext

LEMMA CatalogsInitInv == CatalogsInit => CatalogsInv
<1> SUFFICES ASSUME CatalogsInit PROVE CatalogsInv
  OBVIOUS
<1> USE DEF CatalogsInit
<1>1. CatalogsTypeOK
  BY KindsAreForms, CatalogsAssumption DEF CatalogsTypeOK, EntryState, Terms
<1>2. KindsInOrder /\ ReportsUnscoped /\ ListsAccepted /\ RowsHeld /\ OneReplaces /\ SeenAll
  BY DEF KindsInOrder, ReportsUnscoped, ListsAccepted, RowsHeld, OneReplaces, SeenAll,
         Replaces, Filling, Blank
<1>3. ReasonsKept /\ CommentsUnscoped /\ OneList
  BY DEF ReasonsKept, CommentsUnscoped, OneList
<1> QED BY <1>1, <1>2, <1>3 DEF CatalogsInv, CatalogsExplained

\* Whatever an admin does to the entries while requests name them: no report
\* loses its reason, none on a comment gives one that was for something else,
\* and an owner whose requests did not meet has one list that was accepted.
\* (CatalogService, syncFor, syncSocials, resolveReason)
THEOREM CatalogsAlwaysExplained == CatalogsSpec => [](CatalogsTypeOK /\ CatalogsExplained)
<1>1. CatalogsInv => CatalogsTypeOK /\ CatalogsExplained
  BY DEF CatalogsInv
<1> QED BY <1>1, CatalogsInitInv, CatalogsStep, PTL DEF CatalogsSpec

----------------------------------------------------------------------------
(* Platform *)

\* What each request remembers.
LoadOf == [pc : {"load"}, server : Servers, rows : Nat, then : {"use", "show", "tag"},
           payload : Nat]
VersionOf == [pc : {"version"}, server : Servers, payload : Nat]
UpdateOf == [pc : {"updated"}, server : Servers]
PageOf ==
  [pc : {"make"}] \cup [pc : {"page"}, id : Nat, old : Nat] \cup [pc : {"write"}, id : Nat, file : Nat]
PagePcs == {"make", "page", "write"}

\* Rows that are about to be kept are of now, or their server is behind.
LoadsOnTime ==
  \A r \in Servings : Serves(r, "load") =>
    /\ serving[r].rows <= settings
    /\ serving[r].rows < settings => serving[r].server \in behind

\* Between the two reads of a request nothing happened to the cache, and the
\* version is read by itself only where something did.
ReadsWhole ==
  \A r \in Servings \ ripped :
    /\ Serves(r, "version") => /\ Kept(serving[r].server)
                               /\ serving[r].payload = cache[serving[r].server]
    /\ Serves(r, "load") => serving[r].then # "tag"

SettingsInv == LoadsOnTime /\ ReadsWhole /\ CacheExplained /\ EtagHonest

\* The rows of the page are numbered from 1.
RowsNumbered == \E n \in Nat : DOMAIN welcome = 1..n

\* One request at a time finds one row at most, and one image.
OnePage ==
  twice \/
    /\ \A r, q \in Servings : OnPage(r) /\ OnPage(q) => r = q
    /\ DOMAIN welcome \in {{}, {1}}
    /\ \A i \in DOMAIN welcome : welcome[i] <= changes
    /\ \A r \in Servings :
         /\ Serves(r, "make") => DOMAIN welcome = {}
         /\ Serves(r, "page") => DOMAIN welcome = {1} /\ serving[r].id = 1
                                   /\ serving[r].old = welcome[1]
         /\ Serves(r, "write") => DOMAIN welcome = {1} /\ serving[r].file <= changes
                                    /\ images = {serving[r].file} \ {0}

PageInv == settings <= changes /\ RowsNumbered /\ OnePage /\ WelcomeShown

PlatformInv == PlatformTypeOK /\ SettingsInv /\ PageInv

LEMMA ServingKinds ==
  ASSUME NEW x \in ServingState
  PROVE  /\ x.pc = "load" => x \in LoadOf
         /\ x.pc = "version" => x \in VersionOf
         /\ x.pc = "updated" => x \in UpdateOf
         /\ x.pc \in PagePcs => x \in PageOf
<1>1. x \in {Ready} \cup LoadOf \cup VersionOf \cup UpdateOf \cup PageOf
  BY DEF ServingState, LoadOf, VersionOf, UpdateOf, PageOf
<1>2. CASE x = Ready
  BY <1>2 DEF Ready, PagePcs
<1>3. CASE x \in LoadOf
  BY <1>3 DEF LoadOf, PagePcs
<1>4. CASE x \in VersionOf
  BY <1>4 DEF VersionOf, PagePcs
<1>5. CASE x \in UpdateOf
  BY <1>5 DEF UpdateOf, PagePcs
<1>6. CASE x \in PageOf
  BY <1>6 DEF PageOf, PagePcs
<1> QED BY <1>1, <1>2, <1>3, <1>4, <1>5, <1>6

LEMMA KindsAreServed ==
  /\ Ready \in ServingState /\ LoadOf \subseteq ServingState /\ VersionOf \subseteq ServingState
  /\ UpdateOf \subseteq ServingState /\ PageOf \subseteq ServingState
  BY DEF ServingState, LoadOf, VersionOf, UpdateOf, PageOf

LEMMA TurnsAt ==
  ASSUME PlatformTypeOK, NEW r \in Servings, NEW x, Turns(r, x)
  PROVE  \A q \in Servings : serving'[q] = IF q = r THEN x ELSE serving[q]
  BY DEF PlatformTypeOK, Turns

\* A request that is not at the page leaves it alone.
LEMMA PageLeft ==
  ASSUME PlatformInv, NEW r \in Servings, NEW x, Turns(r, x), ~OnPage(r), x.pc \notin PagePcs,
         UNCHANGED <<pageVars, twice>>, changes' \in 0..MaxChanges, changes <= changes',
         settings' <= changes'
  PROVE  PageInv'
<1>1. \A q \in Servings : serving'[q] = IF q = r THEN x ELSE serving[q]
  BY TurnsAt DEF PlatformInv
<1>2. /\ \A q \in Servings : OnPage(q)' <=> OnPage(q)
      /\ \A q \in Servings : OnPage(q) => serving'[q] = serving[q]
  BY <1>1 DEF OnPage, PagePcs
<1>3. RowsNumbered'
  BY DEF PlatformInv, PageInv, RowsNumbered, pageVars
<1>4. WelcomeShown'
  BY <1>2 DEF PlatformInv, PageInv, WelcomeShown, pageVars, OnPage, Serves
<1>5. OnePage'
  <2> SUFFICES ASSUME ~twice PROVE OnePage'
    BY DEF OnePage
  <2>1. \A p, q \in Servings : OnPage(p)' /\ OnPage(q)' => p = q
    BY <1>2 DEF PlatformInv, PageInv, OnePage
  <2>2. \A i \in DOMAIN welcome : welcome[i] <= changes'
    BY PlatformAssumption DEF PlatformInv, PageInv, OnePage, PlatformTypeOK
  <2>3. ASSUME NEW q \in Servings, Serves(q, "make")' PROVE DOMAIN welcome = {}
    BY <1>2, <2>3 DEF PlatformInv, PageInv, OnePage, OnPage, Serves
  <2>4. ASSUME NEW q \in Servings, Serves(q, "page")'
        PROVE  DOMAIN welcome = {1} /\ serving'[q].id = 1 /\ serving'[q].old = welcome[1]
    BY <1>2, <2>4 DEF PlatformInv, PageInv, OnePage, OnPage, Serves
  <2>5. ASSUME NEW q \in Servings, Serves(q, "write")'
        PROVE  DOMAIN welcome = {1} /\ serving'[q].file <= changes'
               /\ images = {serving'[q].file} \ {0}
    <3>1. serving'[q] = serving[q] /\ Serves(q, "write")
      BY <1>2, <2>5 DEF OnPage, Serves
    <3>2. serving[q].file \in Nat
      <4>1. serving[q] \in PageOf
        BY <3>1, ServingKinds DEF PlatformInv, PlatformTypeOK, Serves, PagePcs
      <4> QED BY <3>1, <4>1 DEF PageOf, Serves
    <3> QED BY <3>1, <3>2, PlatformAssumption DEF PlatformInv, PageInv, OnePage, PlatformTypeOK
  <2> QED BY <2>1, <2>2, <2>3, <2>4, <2>5 DEF OnePage, pageVars, PlatformInv, PageInv
<1> QED BY <1>3, <1>4, <1>5 DEF PageInv

\* A request at the page leaves the settings alone.
LEMMA SettingsLeft ==
  ASSUME PlatformInv, NEW r \in Servings, NEW x, Turns(r, x), OnPage(r) \/ Serves(r, "ready"),
         x = Ready \/ x \in PageOf,
         UNCHANGED <<settings, cache, expired, client, behind, ripped, misled>>
  PROVE  SettingsInv'
<1>1. \A q \in Servings : serving'[q] = IF q = r THEN x ELSE serving[q]
  BY TurnsAt DEF PlatformInv
<1>2. x.pc \notin {"load", "version"}
  BY DEF Ready, PageOf
<1>3. LoadsOnTime' /\ ReadsWhole'
  BY <1>1, <1>2 DEF PlatformInv, SettingsInv, LoadsOnTime, ReadsWhole, Serves, Kept
<1>4. CacheExplained' /\ EtagHonest'
  BY DEF PlatformInv, SettingsInv, CacheExplained, EtagHonest, Kept
<1> QED BY <1>3, <1>4 DEF SettingsInv

\* Rows that were read are kept.
LEMMA KeepKeeps ==
  ASSUME PlatformInv, NEW r \in Servings, Serves(r, "load"), Keep(r), NEW x \in ServingState,
         Turns(r, x), UNCHANGED settings, x.pc # "load", OnPage(r) => x.pc \in PagePcs,
         x.pc = "version" => x.server = serving[r].server /\ x.payload = serving[r].rows
  PROVE  LoadsOnTime' /\ ReadsWhole' /\ CacheExplained' /\ cache' \in [Servers -> Nat \cup {None}]
         /\ behind' \subseteq Servers /\ ripped' \subseteq Servings /\ expired' \subseteq Servers
<1> DEFINE s == serving[r].server  rows == serving[r].rows
<1> USE DEF PlatformInv, SettingsInv
<1>1. \A q \in Servings : serving'[q] = IF q = r THEN x ELSE serving[q]
  BY TurnsAt
<1>2. s \in Servers /\ rows \in Nat
  <2>1. serving[r] \in LoadOf
    BY ServingKinds DEF PlatformTypeOK, Serves
  <2> QED BY <2>1 DEF LoadOf
<1>3. /\ cache' = [cache EXCEPT ![s] = rows] /\ expired' = expired \ {s}
      /\ behind' = (IF rows = settings /\ ~Outdated(r, s) THEN behind \ {s} ELSE behind)
      /\ ripped' = ripped \cup {q \in Servings \ {r} : Serves(q, "version") /\ serving[q].server = s}
  BY DEF Keep
<1>4. /\ cache' \in [Servers -> Nat \cup {None}] /\ behind' \subseteq Servers
      /\ ripped' \subseteq Servings /\ expired' \subseteq Servers
  BY <1>2, <1>3 DEF PlatformTypeOK
<1>5. /\ cache'[s] = rows /\ rows # None /\ s \notin expired'
      /\ \A u \in Servers \ {s} : cache'[u] = cache[u] /\ (u \in expired' <=> u \in expired)
      /\ \A u \in Servers \ {s} : u \in behind' <=> u \in behind
  BY <1>2, <1>3 DEF PlatformTypeOK, None
<1>6. rows <= settings /\ (rows < settings => s \in behind) /\ settings \in Nat
  BY PlatformAssumption DEF LoadsOnTime, PlatformTypeOK
<1> HIDE DEF s, rows
<1>7. LoadsOnTime'
  <2> SUFFICES ASSUME NEW q \in Servings \ {r}, Serves(q, "load"), serving[q].rows < settings
               PROVE  serving[q].server \in behind'
    BY <1>1 DEF LoadsOnTime, Serves
  <2>1. serving[q].server \in behind /\ serving[q].server \in Servers
    BY DEF LoadsOnTime, PlatformTypeOK
  <2>2. CASE serving[q].server = s
    BY <1>3, <2>1, <2>2 DEF Outdated
  <2>3. CASE serving[q].server # s
    BY <1>5, <2>1, <2>3
  <2> QED BY <2>2, <2>3
<1>8. ReadsWhole'
  <2> SUFFICES ASSUME NEW q \in Servings \ ripped'
               PROVE  /\ Serves(q, "version")' =>
                           /\ Kept(serving[q].server)' /\ serving'[q].payload = cache'[serving'[q].server]
                      /\ Serves(q, "load")' => serving'[q].then # "tag"
    BY DEF ReadsWhole
  <2>1. CASE q = r
    BY <1>1, <1>5, <2>1 DEF Serves, Kept, s, rows
  <2>2. CASE q # r
    <3>1. serving'[q] = serving[q] /\ q \notin ripped
      BY <1>1, <1>3, <2>2
    <3>2. Serves(q, "load") => serving[q].then # "tag"
      BY <3>1 DEF ReadsWhole
    <3>3. CASE Serves(q, "version")
      <4>1. serving[q] \in VersionOf
        BY <3>3, ServingKinds DEF PlatformTypeOK, Serves
      <4>2. serving[q].server \in Servers \ {s}
        BY <1>3, <2>2, <3>3, <4>1 DEF VersionOf
      <4>3. Kept(serving[q].server) /\ serving[q].payload = cache[serving[q].server]
        BY <3>1, <3>3 DEF ReadsWhole
      <4> QED BY <1>5, <3>1, <3>2, <4>2, <4>3 DEF Serves, Kept
    <3> QED BY <3>1, <3>2, <3>3 DEF Serves
  <2> QED BY <2>1, <2>2
<1>9. CacheExplained'
  <2> SUFFICES ASSUME NEW u \in Servers \ behind', Kept(u)' PROVE cache'[u] = settings
    BY DEF CacheExplained
  <2>1. CASE u = s
    BY <1>2, <1>3, <1>5, <1>6, <2>1
  <2>2. CASE u # s
    BY <1>5, <2>2 DEF CacheExplained, Kept
  <2> QED BY <2>1, <2>2
<1> QED BY <1>4, <1>7, <1>8, <1>9


\* A request reads the rows, or what its server kept of them.
LEMMA ReadKeeps ==
  ASSUME PlatformInv, NEW r \in Servings, NEW x \in LoadOf \cup VersionOf, Turns(r, x), ~OnPage(r),
         x.pc = "load" => x.rows = settings /\ (x.then = "tag" => r \in ripped'),
         x.pc = "version" => Kept(x.server) /\ x.payload = cache[x.server],
         UNCHANGED <<settings, cache, expired, client, pageVars, changes, behind, misled, twice>>,
         ripped' \subseteq ripped, ripped \subseteq ripped' \cup {r}
  PROVE  PlatformInv'
<1> USE PlatformAssumption DEF PlatformInv, SettingsInv
<1>1. \A q \in Servings : serving'[q] = IF q = r THEN x ELSE serving[q]
  BY TurnsAt
<1>2. x \in ServingState /\ x.pc \in {"load", "version"} /\ x.pc \notin PagePcs
  BY KindsAreServed DEF LoadOf, VersionOf, PagePcs
<1>3. PlatformTypeOK'
  BY <1>2 DEF PlatformTypeOK, Turns, pageVars
<1>4. LoadsOnTime'
  BY <1>1 DEF LoadsOnTime, Serves, PlatformTypeOK
<1>5. ReadsWhole'
  BY <1>1 DEF ReadsWhole, Serves, Kept
<1>6. CacheExplained' /\ EtagHonest'
  BY DEF CacheExplained, EtagHonest, Kept
<1>7. PageInv'
  BY <1>2, PageLeft DEF PlatformTypeOK, PageInv
<1> QED BY <1>3, <1>4, <1>5, <1>6, <1>7

\* A read that goes to the database ends: its rows are kept and used.
LEMMA LoadEnds ==
  ASSUME PlatformInv, NEW r \in Servings, Used(r) \/ ShowLoaded(r) \/ Tagged(r)
  PROVE  PlatformInv'
<1> DEFINE s == serving[r].server  rows == serving[r].rows
           x == IF ShowLoaded(r) THEN [pc |-> "version", server |-> s, payload |-> rows] ELSE Ready
<1> USE PlatformAssumption DEF PlatformInv, SettingsInv
<1>1. /\ Serves(r, "load") /\ Keep(r) /\ UNCHANGED <<settings, pageVars, changes, twice>>
      /\ ~OnPage(r)
  BY DEF Used, ShowLoaded, Tagged, Serves, OnPage
<1>2. s \in Servers /\ rows \in Nat /\ serving[r].payload \in Nat
  <2>1. serving[r] \in LoadOf
    BY <1>1, ServingKinds DEF PlatformTypeOK, Serves
  <2> QED BY <2>1 DEF LoadOf
<1>3. PICK y : /\ y \in ServingState /\ Turns(r, y) /\ y.pc \notin PagePcs /\ y.pc # "load"
               /\ y.pc = "version" => y.server = s /\ y.payload = rows
  <2>1. CASE ShowLoaded(r)
    <3> DEFINE y == [pc |-> "version", server |-> s, payload |-> rows]
    <3>1. y \in VersionOf /\ Turns(r, y) /\ y.pc = "version" /\ y.server = s /\ y.payload = rows
      BY <1>2, <2>1 DEF ShowLoaded, VersionOf
    <3> HIDE DEF y
    <3> QED BY <3>1, KindsAreServed DEF PagePcs
  <2>2. CASE Used(r) \/ Tagged(r)
    BY <2>2, KindsAreServed DEF Used, Tagged, Ready, PagePcs
  <2> QED BY <2>1, <2>2
<1>4. /\ LoadsOnTime' /\ ReadsWhole' /\ CacheExplained' /\ cache' \in [Servers -> Nat \cup {None}]
      /\ behind' \subseteq Servers /\ ripped' \subseteq Servings /\ expired' \subseteq Servers
  BY <1>1, <1>3, KeepKeeps
<1>5. /\ client' \in [payload : Nat, etag : Nat] /\ misled' \in BOOLEAN /\ EtagHonest'
  <2>1. CASE Used(r) \/ ShowLoaded(r)
    BY <2>1 DEF Used, ShowLoaded, PlatformTypeOK, EtagHonest
  <2>2. CASE Tagged(r)
    <3>1. r \in ripped
      BY <1>1, <2>2 DEF ReadsWhole, Tagged
    <3>2. CASE client.etag = rows
      BY <2>2, <3>2 DEF Tagged, Reply, PlatformTypeOK, EtagHonest
    <3>3. CASE client.etag # rows
      <4>1. client' = [payload |-> serving[r].payload, etag |-> rows] /\ misled' = TRUE
        BY <2>2, <3>1, <3>3 DEF Tagged, Reply
      <4> QED BY <1>2, <4>1 DEF EtagHonest
    <3> QED BY <3>2, <3>3
  <2> QED BY <2>1, <2>2
<1>6. PlatformTypeOK'
  BY <1>1, <1>3, <1>4, <1>5 DEF PlatformTypeOK, Turns, pageVars
<1>7. PageInv'
  BY <1>1, <1>3, PageLeft DEF PlatformTypeOK, PageInv
<1> QED BY <1>4, <1>5, <1>6, <1>7

\* A version is read from the cache, and the client answered, or a read begins.
LEMMA TagKeeps ==
  ASSUME PlatformInv, NEW r \in Servings, Tag(r)
  PROVE  PlatformInv'
<1> DEFINE s == serving[r].server
<1> USE PlatformAssumption DEF PlatformInv, SettingsInv
<1>1. /\ s \in Servers /\ serving[r].payload \in Nat /\ Serves(r, "version") /\ ~OnPage(r)
      /\ settings \in Nat
  <2>1. Serves(r, "version")
    BY DEF Tag
  <2>2. serving[r] \in VersionOf
    BY <2>1, ServingKinds DEF PlatformTypeOK, Serves
  <2> QED BY <2>1, <2>2 DEF VersionOf, OnPage, Serves, PlatformTypeOK
<1>2. CASE ~Kept(s)
  <2> DEFINE x == Loading(s, "tag", serving[r].payload)
  <2>1. Turns(r, x) /\ r \in ripped
    BY <1>1, <1>2 DEF Tag, ReadsWhole
  <2>2. x \in LoadOf /\ x.rows = settings /\ x.then = "tag" /\ x.pc = "load"
    BY <1>1 DEF Loading, LoadOf
  <2>3. UNCHANGED <<settings, cache, expired, client, pageVars, changes, behind, misled, twice, ripped>>
    BY <1>2 DEF Tag
  <2> HIDE DEF x
  <2> QED BY <1>1, <2>1, <2>2, <2>3, ReadKeeps
<1>3. CASE Kept(s)
  <2>1. /\ Turns(r, Ready) /\ Reply(r, serving[r].payload, cache[s])
        /\ UNCHANGED <<settings, cache, expired, pageVars, changes, behind, ripped, twice>>
    BY <1>3 DEF Tag
  <2>2. \A q \in Servings : serving'[q] = IF q = r THEN Ready ELSE serving[q]
    BY <2>1, TurnsAt
  <2>3. Ready.pc = "ready" /\ Ready.pc \notin PagePcs /\ Ready \in ServingState
    BY KindsAreServed DEF Ready, PagePcs
  <2>4. cache[s] \in Nat
    BY <1>1, <1>3 DEF Kept, PlatformTypeOK
  <2>5. client' \in [payload : Nat, etag : Nat] /\ misled' \in BOOLEAN /\ EtagHonest'
    <3>1. CASE client.etag = cache[s]
      BY <2>1, <3>1 DEF Reply, PlatformTypeOK, EtagHonest
    <3>2. CASE client.etag # cache[s]
      <4>1. client' = [payload |-> serving[r].payload, etag |-> cache[s]] /\ misled' = (r \in ripped)
        BY <2>1, <3>2 DEF Reply
      <4>2. r \in ripped \/ serving[r].payload = cache[s]
        BY <1>1 DEF ReadsWhole
      <4>3. CASE r \in ripped
        <5>1. misled' = TRUE
          BY <4>1, <4>3
        <5> QED BY <1>1, <2>4, <4>1, <5>1 DEF EtagHonest
      <4>4. CASE r \notin ripped
        <5>1. misled' = (r \in ripped)
          BY <4>1
        <5>2. (r \in ripped) \in BOOLEAN
          OBVIOUS
        <5>3. misled' \in BOOLEAN
          BY <5>1, <5>2, Zenon
        <5> QED BY <1>1, <2>4, <4>1, <4>2, <4>4, <5>3 DEF EtagHonest
      <4> QED BY <4>3, <4>4
    <3> QED BY <3>1, <3>2
  <2>6. PlatformTypeOK'
    BY <2>1, <2>3, <2>5 DEF PlatformTypeOK, Turns, pageVars
  <2>7. LoadsOnTime' /\ ReadsWhole' /\ CacheExplained'
    BY <2>1, <2>2, <2>3 DEF LoadsOnTime, ReadsWhole, CacheExplained, Serves, Kept
  <2>8. PageInv'
    BY <1>1, <2>1, <2>3, PageLeft DEF PlatformTypeOK, PageInv
  <2> QED BY <2>5, <2>6, <2>7, <2>8
<1> QED BY <1>2, <1>3

\* The settings change, the cache of a server is cleared or grows old.
LEMMA ClearKeeps ==
  ASSUME PlatformInv,
         \/ \E r \in Servings : Invalidate(r) \/ \E s \in Servers : UpdateSettings(r, s)
         \/ \E s \in Servers : Expire(s)
  PROVE  PlatformInv'
<1> USE PlatformAssumption DEF PlatformInv, SettingsInv
<1>1. ASSUME NEW r \in Servings, NEW s \in Servers, UpdateSettings(r, s) PROVE PlatformInv'
  <2> DEFINE x == [pc |-> "updated", server |-> s]
  <2>1. x \in UpdateOf /\ x.pc = "updated" /\ x.pc \notin PagePcs /\ Turns(r, x)
    BY <1>1 DEF UpdateOf, PagePcs, UpdateSettings
  <2>2. /\ settings' = settings + 1 /\ behind' = Servers /\ changes' = changes + 1
        /\ changes' \in 0..MaxChanges /\ settings' \in 0..MaxChanges /\ settings' <= changes' /\ ~OnPage(r)
        /\ UNCHANGED <<cache, expired, client, pageVars, ripped, misled, twice>>
    BY <1>1 DEF UpdateSettings, Change, PlatformTypeOK, OnPage, Serves, PageInv
  <2> HIDE DEF x
  <2>3. \A q \in Servings : serving'[q] = IF q = r THEN x ELSE serving[q]
    BY <2>1, TurnsAt
  <2>4. PageInv'
    BY <2>1, <2>2, PageLeft DEF PlatformTypeOK, PageInv
  <2>5. ReadsWhole' /\ CacheExplained' /\ EtagHonest'
    BY <2>1, <2>2, <2>3 DEF ReadsWhole, CacheExplained, EtagHonest, Serves, Kept
  <2>6. LoadsOnTime'
    <3> SUFFICES ASSUME NEW q \in Servings, Serves(q, "load")'
                 PROVE  serving'[q].rows <= settings' /\ serving'[q].server \in behind'
      BY DEF LoadsOnTime
    <3>1. serving'[q] = serving[q] /\ Serves(q, "load")
      BY <2>1, <2>3 DEF Serves
    <3>2. serving[q] \in LoadOf
      BY <3>1, ServingKinds DEF PlatformTypeOK, Serves
    <3> QED BY <2>2, <3>1, <3>2 DEF LoadOf, LoadsOnTime, PlatformTypeOK
  <2>7. PlatformTypeOK'
    BY <2>1, <2>2, KindsAreServed DEF PlatformTypeOK, Turns, pageVars
  <2> QED BY <2>4, <2>5, <2>6, <2>7
<1>2. ASSUME NEW r \in Servings, Invalidate(r) PROVE PlatformInv'
  <2> DEFINE s == serving[r].server
  <2>1. Ready.pc = "ready" /\ Ready.pc \notin PagePcs /\ Ready \in ServingState
    BY KindsAreServed DEF Ready, PagePcs
  <2>2. s \in Servers /\ ~OnPage(r) /\ Turns(r, Ready) /\ Serves(r, "updated")
    <3>1. Serves(r, "updated") /\ Turns(r, Ready)
      BY <1>2 DEF Invalidate
    <3>2. serving[r] \in UpdateOf
      BY <3>1, ServingKinds DEF PlatformTypeOK, Serves
    <3> QED BY <3>1, <3>2 DEF UpdateOf, OnPage, Serves
  <2>3. /\ cache' = [cache EXCEPT ![s] = None] /\ expired' = expired \ {s}
        /\ \/ behind' = behind
           \/ behind' = behind \ {s} /\ \A q \in Servings : Serves(q, "load") => serving[q].server # s
        /\ ripped' = ripped \cup {q \in Servings : Serves(q, "version") /\ serving[q].server = s}
        /\ UNCHANGED <<settings, client, pageVars, changes, misled, twice>>
    BY <1>2 DEF Invalidate
  <2> HIDE DEF s
  <2>4. \A q \in Servings : serving'[q] = IF q = r THEN Ready ELSE serving[q]
    BY <2>2, TurnsAt
  <2>5. cache'[s] = None /\ \A u \in Servers \ {s} : cache'[u] = cache[u]
    BY <2>2, <2>3 DEF PlatformTypeOK
  <2>6. PageInv'
    BY <2>1, <2>2, <2>3, PageLeft DEF PlatformTypeOK, PageInv
  <2>7. CacheExplained' /\ EtagHonest'
    BY <2>3, <2>5 DEF CacheExplained, EtagHonest, Kept
  <2>8. LoadsOnTime'
    BY <2>1, <2>3, <2>4 DEF LoadsOnTime, Serves
  <2>9. ReadsWhole'
    <3> SUFFICES ASSUME NEW q \in Servings \ ripped', q # r
                 PROVE  /\ Serves(q, "version") => /\ Kept(serving[q].server)'
                                                   /\ serving[q].payload = cache'[serving[q].server]
                        /\ Serves(q, "load") => serving[q].then # "tag"
      BY <2>1, <2>4 DEF ReadsWhole, Serves, Kept
    <3>1. CASE Serves(q, "version")
      <4>1. serving[q] \in VersionOf
        BY <3>1, ServingKinds DEF PlatformTypeOK, Serves
      <4>2. serving[q].server \in Servers \ {s} /\ q \notin ripped
        BY <2>3, <3>1, <4>1 DEF VersionOf
      <4>3. Kept(serving[q].server) /\ serving[q].payload = cache[serving[q].server]
        BY <3>1, <4>2 DEF ReadsWhole
      <4>4. cache'[serving[q].server] = cache[serving[q].server]
            /\ (serving[q].server \in expired' <=> serving[q].server \in expired)
        BY <2>3, <2>5, <4>2
      <4>5. serving'[q] = serving[q]
        BY <2>4
      <4> QED BY <3>1, <4>3, <4>4, <4>5 DEF Kept, Serves
    <3>2. CASE ~Serves(q, "version")
      BY <2>3, <3>2 DEF ReadsWhole
    <3> QED BY <3>1, <3>2
  <2>10. PlatformTypeOK'
    BY <2>1, <2>2, <2>3 DEF PlatformTypeOK, Turns, pageVars
  <2> QED BY <2>6, <2>7, <2>8, <2>9, <2>10
<1>3. ASSUME NEW s \in Servers, Expire(s) PROVE PlatformInv'
  <2>1. /\ expired' = expired \cup {s}
        /\ ripped' = ripped \cup {q \in Servings : Serves(q, "version") /\ serving[q].server = s}
        /\ UNCHANGED <<settings, cache, client, pageVars, serving, changes, behind, misled, twice>>
    BY <1>3 DEF Expire
  <2>2. PlatformTypeOK'
    BY <2>1 DEF PlatformTypeOK, pageVars
  <2>3. LoadsOnTime' /\ ReadsWhole' /\ CacheExplained' /\ EtagHonest'
    BY <2>1 DEF LoadsOnTime, ReadsWhole, CacheExplained, EtagHonest, Serves, Kept
  <2>4. RowsNumbered' /\ OnePage' /\ WelcomeShown' /\ (settings <= changes)'
    <3>1. RowsNumbered /\ OnePage /\ WelcomeShown /\ settings <= changes
      BY DEF PageInv
    <3>2. UNCHANGED <<settings, welcome, images, serving, changes, twice>>
      BY <2>1 DEF pageVars
    <3>3. RowsNumbered'
      BY <3>1, <3>2 DEF RowsNumbered, Serves
    <3>4. OnePage'
      BY <3>1, <3>2 DEF OnePage, OnPage, Serves
    <3>5. WelcomeShown'
      BY <3>1, <3>2 DEF WelcomeShown, Serves
    <3> QED BY <3>1, <3>2, <3>3, <3>4, <3>5
  <2> QED BY <2>2, <2>3, <2>4 DEF PageInv
<1> QED BY <1>1, <1>2, <1>3

LEMMA SettingsStep ==
  ASSUME PlatformInv, NEW r \in Servings, NEW s \in Servers, AskValue(r, s) \/ ShowPublic(r, s)
  PROVE  PlatformInv'
<1>1. ~OnPage(r) /\ settings \in Nat
  BY DEF AskValue, ShowPublic, OnPage, Serves, PlatformInv, PlatformTypeOK
<1>2. CASE ShowPublic(r, s) /\ Kept(s)
  <2> DEFINE x == [pc |-> "version", server |-> s, payload |-> cache[s]]
  <2>1. cache[s] \in Nat
    BY <1>2 DEF Kept, PlatformInv, PlatformTypeOK
  <2>2. x \in VersionOf /\ x.pc = "version" /\ x.server = s /\ x.payload = cache[s]
    BY <2>1 DEF VersionOf
  <2>3. /\ Turns(r, x) /\ ripped' = ripped \ {r}
        /\ UNCHANGED <<settings, cache, expired, client, pageVars, changes, behind, misled, twice>>
    BY <1>2 DEF ShowPublic
  <2> HIDE DEF x
  <2> QED BY <1>1, <1>2, <2>2, <2>3, ReadKeeps
<1>3. CASE AskValue(r, s) \/ (ShowPublic(r, s) /\ ~Kept(s))
  <2>1. PICK then \in {"use", "show"} : Turns(r, Loading(s, then, 0))
    BY <1>3 DEF AskValue, ShowPublic
  <2> DEFINE x == Loading(s, then, 0)
  <2>2. x \in LoadOf /\ x.pc = "load" /\ x.rows = settings /\ x.then # "tag"
    BY <1>1 DEF LoadOf, Loading
  <2>3. /\ ripped' \subseteq ripped /\ ripped \subseteq ripped' \cup {r}
        /\ UNCHANGED <<settings, cache, expired, client, pageVars, changes, behind, misled, twice>>
    BY <1>3 DEF ShowPublic, AskValue
  <2>4. Turns(r, x)
    BY <2>1
  <2> HIDE DEF x
  <2> QED BY <1>1, <2>2, <2>3, <2>4, ReadKeeps
<1> QED BY <1>2, <1>3

\* The requests for the page: what they leave alone, and who else is at it.
LEMMA PageTurns ==
  ASSUME PlatformInv, NEW r \in Servings, WelcomeControllers(r)
  PROVE  /\ UNCHANGED <<settings, cache, expired, client, behind, ripped, misled>>
         /\ changes' \in 0..MaxChanges /\ changes <= changes'
         /\ twice' \in BOOLEAN
         /\ ~twice' => ~twice /\ \A q \in Servings \ {r} : ~OnPage(q)
         /\ OnPage(r) \/ Serves(r, "ready")
<1> USE PlatformAssumption DEF PlatformInv
<1>1. CASE Welcome(r)
  <2>1. /\ UNCHANGED <<settings, cache, expired, client, behind, ripped, misled>>
        /\ Serves(r, "ready") /\ changes' = changes + 1 /\ changes < MaxChanges
        /\ twice' = (twice \/ \E q \in Servings \ {r} : OnPage(q))
    BY <1>1 DEF Welcome, Change, Crowd
  <2>2. twice' \in BOOLEAN
    BY <2>1
  <2>3. ~twice' => ~twice /\ \A q \in Servings \ {r} : ~OnPage(q)
    BY <2>1
  <2> QED BY <2>1, <2>2, <2>3 DEF PlatformTypeOK
<1>2. CASE ~Welcome(r)
  <2>1. /\ UNCHANGED <<settings, cache, expired, client, behind, ripped, misled, twice>>
        /\ OnPage(r) /\ (changes' = changes \/ Change)
    BY <1>2 DEF WelcomeControllers, MakeWelcome, ShowWelcome, StoreBackground, RemoveBackground,
                WriteWelcome, OnPage, Serves
  <2>2. twice \/ \A q \in Servings \ {r} : ~OnPage(q)
    BY <2>1 DEF PageInv, OnePage
  <2> QED BY <2>1, <2>2 DEF Change, PlatformTypeOK
<1> QED BY <1>1, <1>2

\* What is asked of the page when one request is at it.
LEMMA PageAlone ==
  ASSUME PlatformInv, NEW r \in Servings, WelcomeControllers(r), NEW x \in {Ready} \cup PageOf,
         Turns(r, x), images' \subseteq Nat, NEW n \in Nat, DOMAIN welcome' = 1..n,
         \A i \in 1..n : welcome'[i] \in Nat,
         ~twice' =>
           /\ n \in {0, 1} /\ (n = 1 => welcome'[1] <= changes')
           /\ x.pc = "make" => n = 0
           /\ x.pc = "page" => n = 1 /\ x.id = 1 /\ x.old = welcome'[1]
           /\ x.pc = "write" => n = 1 /\ x.file <= changes' /\ images' = {x.file} \ {0}
           /\ x.pc # "write" => images' = (IF n = 1 THEN {welcome'[1]} ELSE {}) \ {0}
  PROVE  PlatformInv'
<1> USE PlatformAssumption DEF PlatformInv
<1>1. /\ UNCHANGED <<settings, cache, expired, client, behind, ripped, misled>>
      /\ changes' \in 0..MaxChanges /\ changes <= changes' /\ twice' \in BOOLEAN
      /\ ~twice' => ~twice /\ \A q \in Servings \ {r} : ~OnPage(q)
      /\ OnPage(r) \/ Serves(r, "ready")
  BY PageTurns
<1>2. SettingsInv'
  BY <1>1, SettingsLeft
<1>3. \A q \in Servings : serving'[q] = IF q = r THEN x ELSE serving[q]
  BY TurnsAt
<1>4. PlatformTypeOK'
  BY <1>1, KindsAreServed DEF PlatformTypeOK, Turns
<1>5. RowsNumbered' /\ (settings <= changes)'
  <2>1. settings <= changes /\ settings \in Nat /\ changes \in Nat /\ changes' \in Nat
    BY <1>1 DEF PageInv, PlatformTypeOK
  <2> QED BY <1>1, <2>1 DEF RowsNumbered
<1>6. ASSUME ~twice' PROVE OnePage' /\ WelcomeShown'
  <2>1. \A q \in Servings : OnPage(q)' => q = r
    BY <1>1, <1>3, <1>6 DEF OnPage
  <2>2. \A q \in Servings : Serves(q, "make")' \/ Serves(q, "page")' \/ Serves(q, "write")' => q = r
    BY <2>1 DEF OnPage, Serves
  <2>3. n \in {0, 1} /\ 1..0 = {} /\ 1..1 = {1}
    BY <1>6
  <2>4. OnePage'
    <3>1. \A p, q \in Servings : OnPage(p)' /\ OnPage(q)' => p = q
      BY <2>1
    <3>2. DOMAIN welcome' \in {{}, {1}} /\ \A i \in DOMAIN welcome' : welcome'[i] <= changes'
      BY <1>6, <2>3
    <3>3. ASSUME NEW q \in Servings
          PROVE /\ Serves(q, "make")' => DOMAIN welcome' = {}
                /\ Serves(q, "page")' => DOMAIN welcome' = {1} /\ serving'[q].id = 1
                                   /\ serving'[q].old = welcome'[1]
                /\ Serves(q, "write")' => DOMAIN welcome' = {1} /\ serving'[q].file <= changes'
                                    /\ images' = {serving'[q].file} \ {0}
      BY <1>3, <1>6, <2>2, <2>3 DEF Serves
    <3> QED BY <3>1, <3>2, <3>3 DEF OnePage
  <2>5. CASE x.pc = "write"
    <3>1. Serves(r, "write")'
      BY <1>3, <2>5 DEF Serves
    <3> QED BY <2>4, <3>1 DEF WelcomeShown
  <2>6. CASE x.pc # "write"
    <3>1. Cardinality(DOMAIN welcome') = n
      <4>1. CASE n = 0
        <5>1. DOMAIN welcome' = {}
          BY <2>3, <4>1
        <5> QED BY <4>1, <5>1, FS_EmptySet
      <4>2. CASE n = 1
        <5>1. DOMAIN welcome' = {1}
          BY <2>3, <4>2
        <5>2. Cardinality({1}) = 1
          BY FS_Singleton
        <5> QED BY <4>2, <5>1, <5>2
      <4> QED BY <2>3, <4>1, <4>2
    <3>2. images' = {welcome'[i] : i \in DOMAIN welcome'} \ {0}
      BY <1>6, <2>3, <2>6
    <3> QED BY <2>3, <2>4, <3>1, <3>2 DEF WelcomeShown
  <2> QED BY <2>5, <2>6
<1>7. OnePage' /\ WelcomeShown'
  BY <1>6 DEF OnePage, WelcomeShown
<1> QED BY <1>2, <1>4, <1>5, <1>7 DEF PageInv

\* When one request is at the page it finds the image the row names.
LEMMA PageFound ==
  ASSUME PlatformInv, NEW r \in Servings, WelcomeControllers(r), ~twice'
  PROVE  \E n \in {0, 1} :
           /\ DOMAIN welcome = 1..n /\ (n = 1 => welcome[1] \in 0..changes)
           /\ ~Serves(r, "write") => images = (IF n = 1 THEN {welcome[1]} ELSE {}) \ {0}
           /\ Serves(r, "make") => n = 0
           /\ Serves(r, "page") => n = 1 /\ serving[r].id = 1 /\ serving[r].old = welcome[1]
           /\ Serves(r, "write") => n = 1 /\ serving[r].file \in 0..changes
                                      /\ images = {serving[r].file} \ {0}
<1> USE PlatformAssumption DEF PlatformInv, PageInv
<1>1. ~twice /\ \A q \in Servings \ {r} : ~OnPage(q)
  BY PageTurns
<1>2. 1..0 = {} /\ 1..1 = {1} /\ changes \in Nat
  BY DEF PlatformTypeOK
<1>3. PICK n \in {0, 1} : DOMAIN welcome = 1..n
  BY <1>1, <1>2 DEF OnePage
<1>4. n = 1 => welcome[1] \in 0..changes
  BY <1>1, <1>2, <1>3 DEF OnePage, PlatformTypeOK
<1>5. ~Serves(r, "write") => images = (IF n = 1 THEN {welcome[1]} ELSE {}) \ {0}
  <2> SUFFICES ASSUME ~Serves(r, "write") PROVE images = (IF n = 1 THEN {welcome[1]} ELSE {}) \ {0}
    OBVIOUS
  <2>1. images = {welcome[i] : i \in DOMAIN welcome} \ {0}
    BY <1>1 DEF WelcomeShown, OnPage, Serves
  <2>2. CASE n = 1
    BY <1>2, <1>3, <2>1, <2>2
  <2>3. CASE n = 0
    BY <1>2, <1>3, <2>1, <2>3
  <2> QED BY <2>2, <2>3
<1>6. /\ Serves(r, "make") => n = 0
      /\ Serves(r, "page") => n = 1 /\ serving[r].id = 1 /\ serving[r].old = welcome[1]
      /\ Serves(r, "write") => n = 1 /\ serving[r].file <= changes /\ images = {serving[r].file} \ {0}
  BY <1>1, <1>2, <1>3 DEF OnePage
<1>7. Serves(r, "write") => serving[r].file \in Nat
  <2> SUFFICES ASSUME Serves(r, "write") PROVE serving[r].file \in Nat
    OBVIOUS
  <2>1. serving[r] \in PageOf
    BY ServingKinds DEF PlatformTypeOK, Serves, PagePcs
  <2> QED BY <2>1 DEF PageOf, Serves
<1> QED BY <1>2, <1>3, <1>4, <1>5, <1>6, <1>7

LEMMA WelcomeKeeps ==
  ASSUME PlatformInv, NEW r \in Servings, WelcomeControllers(r)
  PROVE  PlatformInv'
<1> USE PlatformAssumption DEF PlatformInv
<1>0. PICK n \in Nat : DOMAIN welcome = 1..n
  BY DEF PageInv, RowsNumbered
<1>1. /\ changes \in Nat /\ changes' \in Nat /\ changes <= changes'
      /\ \A i \in 1..n : welcome[i] \in Nat
      /\ images \subseteq Nat
  BY <1>0, PageTurns DEF PlatformTypeOK
<1>2. ~twice' =>
           /\ n \in {0, 1} /\ (n = 1 => welcome[1] \in 0..changes)
           /\ ~Serves(r, "write") => images = (IF n = 1 THEN {welcome[1]} ELSE {}) \ {0}
           /\ Serves(r, "make") => n = 0
           /\ Serves(r, "page") => n = 1 /\ serving[r].id = 1 /\ serving[r].old = welcome[1]
           /\ Serves(r, "write") => n = 1 /\ serving[r].file \in 0..changes
                                      /\ images = {serving[r].file} \ {0}
  <2> SUFFICES ASSUME ~twice' PROVE
           /\ n \in {0, 1} /\ (n = 1 => welcome[1] \in 0..changes)
           /\ ~Serves(r, "write") => images = (IF n = 1 THEN {welcome[1]} ELSE {}) \ {0}
           /\ Serves(r, "make") => n = 0
           /\ Serves(r, "page") => n = 1 /\ serving[r].id = 1 /\ serving[r].old = welcome[1]
           /\ Serves(r, "write") => n = 1 /\ serving[r].file \in 0..changes
                                      /\ images = {serving[r].file} \ {0}
    OBVIOUS
  <2>1. PICK m \in {0, 1} :
           /\ DOMAIN welcome = 1..m /\ (m = 1 => welcome[1] \in 0..changes)
           /\ ~Serves(r, "write") => images = (IF m = 1 THEN {welcome[1]} ELSE {}) \ {0}
           /\ Serves(r, "make") => m = 0
           /\ Serves(r, "page") => m = 1 /\ serving[r].id = 1 /\ serving[r].old = welcome[1]
           /\ Serves(r, "write") => m = 1 /\ serving[r].file \in 0..changes
                                      /\ images = {serving[r].file} \ {0}
    BY PageFound
  <2>2. m = n
    BY <1>0, <2>1
  <2> QED BY <2>1, <2>2
<1>3. n # 0 => FirstRow = 1
  <2> SUFFICES ASSUME n # 0 PROVE FirstRow = 1
    OBVIOUS
  <2>1. 1 \in DOMAIN welcome /\ \A k \in DOMAIN welcome : 1 <= k
    BY <1>0
  <2>2. /\ FirstRow \in DOMAIN welcome /\ \A k \in DOMAIN welcome : FirstRow <= k
    BY <2>1 DEF FirstRow
  <2> QED BY <1>0, <2>1, <2>2
<1>4. serving[r].pc \in PagePcs => serving[r] \in PageOf
  BY ServingKinds DEF PlatformTypeOK
<1>5. CASE Welcome(r)
  <2>1. /\ Turns(r, IF DOMAIN welcome = {} THEN [pc |-> "make"]
                    ELSE [pc |-> "page", id |-> FirstRow, old |-> welcome[FirstRow]])
        /\ UNCHANGED pageVars /\ Serves(r, "ready")
    BY <1>5 DEF Welcome
  <2>2. CASE n = 0
    <3> DEFINE x == [pc |-> "make"]
    <3>1. Turns(r, x) /\ x \in PageOf /\ x.pc = "make"
      BY <1>0, <2>1, <2>2 DEF PageOf
    <3> HIDE DEF x
    <3>2. images' \subseteq Nat /\ DOMAIN welcome' = 1..n /\ \A i \in 1..n : welcome'[i] \in Nat
      BY <1>0, <1>1, <2>1 DEF pageVars
    <3>3. ~twice' => images' = (IF n = 1 THEN {welcome'[1]} ELSE {}) \ {0}
      BY <1>2, <2>1 DEF pageVars, Serves
    <3>4. ~twice' =>
           /\ n \in {0, 1} /\ (n = 1 => welcome'[1] <= changes')
           /\ x.pc = "make" => n = 0
           /\ x.pc = "page" => n = 1 /\ x.id = 1 /\ x.old = welcome'[1]
           /\ x.pc = "write" => n = 1 /\ x.file <= changes' /\ images' = {x.file} \ {0}
           /\ x.pc # "write" => images' = (IF n = 1 THEN {welcome'[1]} ELSE {}) \ {0}
      BY <2>2, <3>1, <3>3
    <3> QED BY <3>1, <3>2, <3>4, PageAlone
  <2>3. CASE n # 0
    <3> DEFINE x == [pc |-> "page", id |-> 1, old |-> welcome[1]]
    <3>0. 1 \in DOMAIN welcome /\ DOMAIN welcome # {} /\ welcome[1] \in Nat
      BY <1>0, <1>1, <2>3
    <3>1. Turns(r, x) /\ x \in PageOf /\ x.pc = "page" /\ x.id = 1 /\ x.old = welcome[1]
      BY <1>3, <2>1, <2>3, <3>0 DEF PageOf
    <3> HIDE DEF x
    <3>2. images' \subseteq Nat /\ DOMAIN welcome' = 1..n /\ \A i \in 1..n : welcome'[i] \in Nat
      BY <1>0, <1>1, <2>1 DEF pageVars
    <3>3. ~twice' => n = 1 /\ welcome'[1] <= changes'
                     /\ images' = (IF n = 1 THEN {welcome'[1]} ELSE {}) \ {0}
      BY <1>1, <1>2, <2>1, <2>3 DEF pageVars, Serves
    <3>4. welcome'[1] = welcome[1]
      BY <2>1 DEF pageVars
    <3> QED BY <3>1, <3>2, <3>3, <3>4, PageAlone
  <2> QED BY <2>2, <2>3
<1>6. CASE MakeWelcome(r)
  <2> DEFINE x == [pc |-> "page", id |-> n + 1, old |-> 0]
  <2>1. Cardinality(DOMAIN welcome) = n
    BY <1>0, FS_Interval
  <2>2. Serves(r, "make") /\ images' = images /\ changes' = changes
    BY <1>6 DEF MakeWelcome
  <2>3. Turns(r, x) /\ x \in PageOf /\ x.pc = "page" /\ x.id = n + 1 /\ x.old = 0
    BY <1>6, <2>1 DEF MakeWelcome, PageOf
  <2> HIDE DEF x
  <2>4. welcome' = [i \in 1..n \cup {n + 1} |-> IF i = n + 1 THEN 0 ELSE welcome[i]]
    BY <1>0, <1>6, <2>1 DEF MakeWelcome
  <2>5. 1..n \cup {n + 1} = 1..(n + 1)
    OBVIOUS
  <2>6. /\ DOMAIN welcome' = 1..(n + 1) /\ \A i \in 1..(n + 1) : welcome'[i] \in Nat
        /\ welcome'[n + 1] = 0
    BY <1>1, <2>4, <2>5
  <2>7. ~twice' => /\ n + 1 = 1 /\ welcome'[1] <= changes' /\ x.id = 1 /\ x.old = welcome'[1]
                   /\ images' = {welcome'[1]} \ {0}
    BY <1>1, <1>2, <2>2, <2>3, <2>6 DEF Serves
  <2> QED BY <1>1, <2>2, <2>3, <2>6, <2>7, PageAlone
<1>7. CASE ShowWelcome(r)
  <2>1. Turns(r, Ready) /\ UNCHANGED pageVars /\ Serves(r, "page") /\ Ready.pc = "ready"
    BY <1>7 DEF ShowWelcome, Ready
  <2>2. images' \subseteq Nat /\ DOMAIN welcome' = 1..n /\ \A i \in 1..n : welcome'[i] \in Nat
    BY <1>0, <1>1, <2>1 DEF pageVars
  <2>3. ~twice' => n = 1 /\ welcome'[1] <= changes'
                     /\ images' = (IF n = 1 THEN {welcome'[1]} ELSE {}) \ {0}
    BY <1>1, <1>2, <2>1 DEF pageVars, Serves
  <2> QED BY <2>1, <2>2, <2>3, PageAlone
<1>8. ASSUME NEW f \in Nat, f <= changes', Serves(r, "page"), welcome' = welcome,
             images' \subseteq Nat,
             Turns(r, [pc |-> "write", id |-> serving[r].id, file |-> f]),
             ~twice' => images' = {f} \ {0}
      PROVE  PlatformInv'
  <2> DEFINE x == [pc |-> "write", id |-> serving[r].id, file |-> f]
  <2>1. serving[r].id \in Nat
    BY <1>4, <1>8 DEF Serves, PageOf, PagePcs
  <2>2. Turns(r, x) /\ x \in PageOf /\ x.pc = "write" /\ x.file = f
    BY <1>8, <2>1 DEF PageOf
  <2> HIDE DEF x
  <2>3. DOMAIN welcome' = 1..n /\ \A i \in 1..n : welcome'[i] \in Nat
    BY <1>0, <1>1, <1>8
  <2>4. ~twice' => n = 1 /\ welcome'[1] <= changes'
    BY <1>1, <1>2, <1>8
  <2> QED BY <1>8, <2>2, <2>3, <2>4, PageAlone
<1>9. CASE StoreBackground(r)
  <2> DEFINE old == serving[r].old
  <2>1. /\ Serves(r, "page") /\ changes' = changes + 1 /\ welcome' = welcome
        /\ images' = (images \cup {changes + 1}) \ {old}
        /\ Turns(r, [pc |-> "write", id |-> serving[r].id, file |-> changes + 1])
    BY <1>9 DEF StoreBackground, Change, NewFile
  <2>2. ~twice' => images' = {changes + 1} \ {0}
    <3> SUFFICES ASSUME ~twice' PROVE images' = {changes + 1} \ {0}
      OBVIOUS
    <3>1. images = {old} \ {0} /\ old \in 0..changes
      BY <1>2, <2>1 DEF Serves
    <3> HIDE DEF old
    <3> QED BY <1>1, <2>1, <3>1
  <2>3. images' \subseteq Nat
    BY <1>1, <2>1
  <2> QED BY <1>1, <1>8, <2>1, <2>2, <2>3
<1>10. CASE RemoveBackground(r)
  <2>1. /\ Serves(r, "page") /\ welcome' = welcome /\ images' = images \ {serving[r].old}
        /\ Turns(r, [pc |-> "write", id |-> serving[r].id, file |-> 0])
    BY <1>10 DEF RemoveBackground
  <2>2. ~twice' => images' = {0} \ {0}
    BY <1>2, <2>1 DEF Serves
  <2>3. images' \subseteq Nat
    BY <1>1, <2>1
  <2> QED BY <1>1, <1>8, <2>1, <2>2, <2>3
<1>11. CASE WriteWelcome(r)
  <2> DEFINE f == serving[r].file
  <2>1. /\ Serves(r, "write") /\ Turns(r, Ready) /\ images' = images /\ Ready.pc = "ready"
        /\ welcome' = [welcome EXCEPT ![FirstRow] = f]
    BY <1>11 DEF WriteWelcome, Ready
  <2>2. f \in Nat
    BY <1>4, <2>1 DEF Serves, PageOf, PagePcs
  <2>3. DOMAIN welcome' = 1..n /\ \A i \in 1..n : welcome'[i] \in Nat
    BY <1>0, <1>1, <2>1, <2>2
  <2>4. ~twice' => n = 1 /\ welcome'[1] = f /\ f <= changes' /\ images' = {f} \ {0}
    BY <1>0, <1>1, <1>2, <1>3, <2>1 DEF Serves
  <2> HIDE DEF f
  <2> QED BY <1>1, <2>1, <2>3, <2>4, PageAlone
<1> QED BY <1>5, <1>6, <1>7, <1>9, <1>10, <1>11 DEF WelcomeControllers

LEMMA PlatformStep == PlatformInv /\ [PlatformNext]_platformVars => PlatformInv'
<1> SUFFICES ASSUME PlatformInv, [PlatformNext]_platformVars PROVE PlatformInv'
  OBVIOUS
<1>1. CASE PlatformNext
  BY <1>1, SettingsStep, LoadEnds, TagKeeps, ClearKeeps, WelcomeKeeps
     DEF PlatformNext, SettingsControllers
<1>2. CASE UNCHANGED platformVars
  <2> USE <1>2 DEF platformVars, pageVars, PlatformInv
  <2>1. PlatformTypeOK'
    BY DEF PlatformTypeOK
  <2>2. SettingsInv'
    BY DEF SettingsInv, LoadsOnTime, ReadsWhole, CacheExplained, EtagHonest, Kept, Serves
  <2>3. RowsNumbered' /\ OnePage' /\ (settings <= changes)'
    BY DEF PageInv, RowsNumbered, OnePage, OnPage, Serves
  <2>4. WelcomeShown'
    BY DEF PageInv, WelcomeShown, Serves
  <2> QED BY <2>1, <2>2, <2>3, <2>4 DEF PageInv
<1> QED BY <1>1, <1>2

LEMMA PlatformInitInv == PlatformInit => PlatformInv
<1> SUFFICES ASSUME PlatformInit PROVE PlatformInv
  OBVIOUS
<1> USE PlatformAssumption DEF PlatformInit
<1>1. PlatformTypeOK
  <2>1. DOMAIN welcome = {}
    OBVIOUS
  <2>2. cache \in [Servers -> Nat \cup {None}] /\ serving \in [Servings -> ServingState]
    BY KindsAreServed
  <2>3. client \in [payload : Nat, etag : Nat]
    OBVIOUS
  <2>4. settings \in 0..MaxChanges /\ changes \in 0..MaxChanges
    OBVIOUS
  <2>5. /\ DOMAIN welcome \subseteq Nat /\ \A i \in DOMAIN welcome : welcome[i] \in Nat
    BY <2>1
  <2>6. /\ expired \subseteq Servers /\ behind \subseteq Servers /\ ripped \subseteq Servings
        /\ misled \in BOOLEAN /\ twice \in BOOLEAN /\ images \subseteq Nat
    OBVIOUS
  <2> QED BY <2>2, <2>3, <2>4, <2>5, <2>6 DEF PlatformTypeOK
<1>2. SettingsInv
  BY DEF SettingsInv, LoadsOnTime, ReadsWhole, CacheExplained, EtagHonest, Serves, Kept, Ready
<1>3. DOMAIN welcome = {} /\ {} = 1..0
  OBVIOUS
<1>4. WelcomeShown
  <2>1. images = {welcome[i] : i \in DOMAIN welcome} \ {0}
    BY <1>3
  <2> QED BY <1>3, <2>1, FS_EmptySet DEF WelcomeShown
<1>5. OnePage /\ RowsNumbered /\ settings <= changes
  BY <1>3 DEF OnePage, RowsNumbered, OnPage, Serves, Ready
<1> QED BY <1>1, <1>2, <1>4, <1>5 DEF PlatformInv, PageInv

\* Whatever requests overlap on whatever servers: a cache is old for no longer
\* than its time to live, an ETag names what was served with it, and the
\* welcome page shows its image, but for the overlaps the histories name.
\* (SystemConfigRepository, ConfigController, WelcomeService)
THEOREM ServedAlwaysExplained == PlatformSpec => [](PlatformTypeOK /\ ServedExplained)
<1>1. PlatformInv => PlatformTypeOK /\ ServedExplained
  BY DEF PlatformInv, SettingsInv, PageInv, ServedExplained
<1> QED BY <1>1, PlatformInitInv, PlatformStep, PTL DEF PlatformSpec

----------------------------------------------------------------------------
(* Catalogue *)

\* A request that will write or delete the row's flyer, one that brings a file
\* of its own, and one that remembers the row's.
Writer(t) == t.pc \in {"edit", "clear", "save", "purge", "drop"} \/ (t.pc = "unlist" /\ t.drop)
Brings(t) == t.pc \in {"insert", "clear", "save"}
Recalls(t) == t.pc \in {"edit", "clear", "purge"}
AtEvents == {"edit", "clear", "save", "index", "publish", "unpublish", "takeDown", "close",
             "clone", "purge", "unlist", "drop", "recount"}

\* An event that is not born has nothing, and no request is at it.
UnbornBare ==
  /\ \A e \in Events : status[e] = "none" =>
       count[e] = 0 /\ sold[e] = 0 /\ pending[e] = 0 /\ flyer[e] = 0
  /\ \A t \in Types : typeOf[t] \in Events => typeOf[t] \in OnShelf
  /\ \A h \in Hands : hand[h].pc \in AtEvents => status[hand[h].event] # "none"

\* Types that are being added are nobody else's; a request that recounts the
\* types of an event by itself brings the right number.
TypesCounted ==
  /\ \A g, h \in Hands :
       In(g, "recount") /\ In(h, "recount") /\ g # h =>
         /\ hand[g].event = hand[h].event => hand[g].event \in skewed
         /\ hand[g].op = "add" => hand[g].type # hand[h].type
  /\ \A h \in Hands : In(h, "recount") /\ hand[h].op = "add" => typeOf[hand[h].type] = "none"
  /\ \A h \in Hands : In(h, "recount") /\ hand[h].event \in OnShelf \ skewed =>
       hand[h].n = Cardinality(TypesOf(hand[h].event))
                     + (IF hand[h].op = "add" THEN 1 ELSE IF hand[h].op = "delete" THEN -1 ELSE 0)
  /\ AggregatesExplained

\* Orders wait at events that are there; a request that takes an event down
\* found no sales, or they came late.
SalesSeen ==
  /\ \A e \in Events : pending[e] > 0 => e \in OnShelf
  /\ \A h \in Hands : hand[h].pc \in TakingDown =>
       sold[hand[h].event] = 0 \/ hand[h].event \in late \cup overruled
  /\ SoldStaysUp

\* A file is one event's or one request's.
FlyersApart ==
  /\ \A e \in Events : flyer[e] <= stored
  /\ \A h \in Hands : /\ Brings(hand[h]) => hand[h].new <= stored
                      /\ Recalls(hand[h]) => hand[h].old <= stored
  /\ \A d, e \in Events : d # e => flyer[d] # flyer[e] \/ flyer[d] = 0
  /\ \A h \in Hands, e \in Events :
       /\ Brings(hand[h]) => hand[h].new # flyer[e] \/ flyer[e] = 0
       /\ Recalls(hand[h]) /\ hand[h].event # e => hand[h].old # flyer[e] \/ flyer[e] = 0
  /\ \A g, h \in Hands : Brings(hand[g]) =>
       /\ Recalls(hand[h]) => hand[g].new # hand[h].old \/ hand[g].new = 0
       /\ Brings(hand[h]) /\ g # h => hand[g].new # hand[h].new \/ hand[g].new = 0

\* A flyer is stored before a row names it; a row whose flyer one request
\* changes at a time names what that one found, and a stored one.
FlyersFollow ==
  /\ \A h \in Hands : Brings(hand[h]) => hand[h].new \in files \cup {0}
  /\ \A g, h \in Hands : Writer(hand[g]) /\ Writer(hand[h]) /\ hand[g].event = hand[h].event =>
       g = h \/ hand[g].event \in torn
  /\ \A h \in Hands : Recalls(hand[h]) /\ hand[h].event \notin torn =>
       hand[h].old = flyer[hand[h].event]
  /\ \A e \in OnShelf \ torn :
       \/ flyer[e] \in files \cup {0}
       \/ \E h \in Hands : Writer(hand[h]) /\ hand[h].pc \in {"save", "unlist", "drop"}
                           /\ hand[h].event = e

\* What is in the index and nobody blurred is there to be shown, but while
\* requests that hide it are under way: one of the event, one of the suspension.
Hides(t, e) == (t.pc = "gather" /\ ~t.lift) \/ (t.pc = "sweep" /\ e \in t.todo)
IndexFollows ==
  \A e \in index \ blurred :
    /\ e \in OnShelf
    /\ Shown(status[e]) \/ \E h \in Hands : In(h, "unlist") /\ hand[h].event = e
    /\ ~suspended \/ \E h \in Hands : Hides(hand[h], e)

CatalogueInv ==
  /\ CatalogueTypeOK /\ UnbornBare /\ EventsCountExact /\ TypesCounted /\ SalesSeen
  /\ FlyersApart /\ FlyersFollow /\ IndexFollows

EditOf == [pc : {"edit"}, event : Events, old : 0..MaxFiles]
SaveOf == [pc : {"clear", "save"}, event : Events, old : 0..MaxFiles, new : 0..MaxFiles]
InsertOf == [pc : {"insert"}, new : 0..MaxFiles]
IndexOf == [pc : {"index"}, event : Events, seen : EventStatus]
StatusOf == [pc : {"publish", "unpublish", "takeDown", "close"}, event : Events]
CloneOf == [pc : {"clone"}, event : Events, n : Nat]
PurgeOf == [pc : {"purge"}, event : Events, old : 0..MaxFiles]
UnlistOf == [pc : {"unlist"}, event : Events, drop : BOOLEAN]
DropOf == [pc : {"drop"}, event : Events]
RecountOf ==
  [pc : {"recount"}, event : Events, type : Types, op : {"add", "edit", "delete"}, n : Int]
SweepOf == [pc : {"sweep"}, todo : SUBSET Events]
RestoreOf == [pc : {"restore"}, todo : SUBSET Events, seen : [Events -> EventStatus]]
GatherOf == [pc : {"gather"}, lift : BOOLEAN]

LEMMA KindsAreTasks ==
  /\ Rest \in Task /\ EditOf \subseteq Task /\ SaveOf \subseteq Task /\ InsertOf \subseteq Task
  /\ IndexOf \subseteq Task /\ StatusOf \subseteq Task /\ CloneOf \subseteq Task
  /\ PurgeOf \subseteq Task /\ UnlistOf \subseteq Task /\ DropOf \subseteq Task
  /\ RecountOf \subseteq Task /\ SweepOf \subseteq Task /\ RestoreOf \subseteq Task
  /\ GatherOf \subseteq Task
  BY DEF Task, EditOf, SaveOf, InsertOf, IndexOf, StatusOf, CloneOf, PurgeOf, UnlistOf, DropOf,
         RecountOf, SweepOf, RestoreOf, GatherOf

LEMMA TaskKinds ==
  ASSUME NEW t \in Task
  PROVE  /\ t.pc = "rest" => t = Rest
         /\ t.pc = "edit" => t \in EditOf
         /\ t.pc \in {"clear", "save"} => t \in SaveOf
         /\ t.pc = "insert" => t \in InsertOf
         /\ t.pc = "index" => t \in IndexOf
         /\ t.pc \in {"publish", "unpublish", "takeDown", "close"} => t \in StatusOf
         /\ t.pc = "clone" => t \in CloneOf
         /\ t.pc = "purge" => t \in PurgeOf
         /\ t.pc = "unlist" => t \in UnlistOf
         /\ t.pc = "drop" => t \in DropOf
         /\ t.pc = "recount" => t \in RecountOf
         /\ t.pc = "sweep" => t \in SweepOf
         /\ t.pc = "restore" => t \in RestoreOf
         /\ t.pc = "gather" => t \in GatherOf
<1>1. \/ t = Rest \/ t \in EditOf \/ t \in SaveOf \/ t \in InsertOf \/ t \in IndexOf
      \/ t \in StatusOf \/ t \in CloneOf \/ t \in PurgeOf \/ t \in UnlistOf \/ t \in DropOf
      \/ t \in RecountOf \/ t \in SweepOf \/ t \in RestoreOf \/ t \in GatherOf
  BY DEF Task, EditOf, SaveOf, InsertOf, IndexOf, StatusOf, CloneOf, PurgeOf, UnlistOf, DropOf,
         RecountOf, SweepOf, RestoreOf, GatherOf
<1>2. /\ t = Rest => t.pc = "rest"
      /\ t \in EditOf => t.pc = "edit"
      /\ t \in SaveOf => t.pc \in {"clear", "save"}
      /\ t \in InsertOf => t.pc = "insert"
      /\ t \in IndexOf => t.pc = "index"
      /\ t \in StatusOf => t.pc \in {"publish", "unpublish", "takeDown", "close"}
      /\ t \in CloneOf => t.pc = "clone"
      /\ t \in PurgeOf => t.pc = "purge"
      /\ t \in UnlistOf => t.pc = "unlist"
      /\ t \in DropOf => t.pc = "drop"
      /\ t \in RecountOf => t.pc = "recount"
      /\ t \in SweepOf => t.pc = "sweep"
      /\ t \in RestoreOf => t.pc = "restore"
      /\ t \in GatherOf => t.pc = "gather"
  BY DEF Rest, EditOf, SaveOf, InsertOf, IndexOf, StatusOf, CloneOf, PurgeOf, UnlistOf, DropOf,
         RecountOf, SweepOf, RestoreOf, GatherOf
<1> QED BY <1>1, <1>2

LEMMA TaskFields ==
  ASSUME NEW t \in Task
  PROVE  /\ t.pc \in AtEvents => t.event \in Events
         /\ Brings(t) => t.new \in 0..MaxFiles
         /\ Recalls(t) => t.old \in 0..MaxFiles
         /\ t.pc = "recount" => /\ t.type \in Types /\ t.op \in {"add", "edit", "delete"}
                               /\ t.n \in Int
         /\ t.pc = "unlist" => t.drop \in BOOLEAN
         /\ t.pc \in {"sweep", "restore"} => t.todo \subseteq Events
         /\ t.pc = "restore" => t.seen \in [Events -> EventStatus]
         /\ t.pc = "index" => t.seen \in EventStatus
         /\ t.pc = "clone" => t.n \in Nat
         /\ t.pc = "gather" => t.lift \in BOOLEAN
<1>1. t.pc \in AtEvents => t.event \in Events
  BY TaskKinds DEF AtEvents, EditOf, SaveOf, IndexOf, StatusOf, CloneOf, PurgeOf, UnlistOf,
                   DropOf, RecountOf
<1>2. Brings(t) => t.new \in 0..MaxFiles
  BY TaskKinds DEF Brings, InsertOf, SaveOf
<1>3. Recalls(t) => t.old \in 0..MaxFiles
  BY TaskKinds DEF Recalls, EditOf, SaveOf, PurgeOf
<1> QED BY <1>1, <1>2, <1>3, TaskKinds
        DEF RecountOf, UnlistOf, SweepOf, RestoreOf, IndexOf, CloneOf, GatherOf

\* Who is at an event.
LEMMA Roles ==
  ASSUME NEW t \in Task
  PROVE  /\ Writer(t) \/ Recalls(t) \/ t.pc \in TakingDown => t.pc \in AtEvents
         /\ t.pc = "recount" \/ t.pc = "unlist" => t.pc \in AtEvents
  BY DEF Writer, Recalls, TakingDown, AtEvents

LEMMA TypesFinite ==
  \A e : IsFiniteSet(TypesOf(e)) /\ Cardinality(TypesOf(e)) \in Nat
  BY CatalogueAssumption, FS_Subset, FS_CardinalityType DEF TypesOf

LEMMA TurnAt ==
  ASSUME CatalogueTypeOK, NEW h \in Hands, NEW c, Turn(h, c)
  PROVE  \A g \in Hands : hand'[g] = IF g = h THEN c ELSE hand[g]
  BY DEF CatalogueTypeOK, Turn

(* What leaves a part of the invariant as it is. *)

LEMMA UnbornLeft ==
  ASSUME CatalogueInv,
         \A e \in Events : status'[e] = "none" =>
           /\ status[e] = "none" /\ count'[e] = count[e] /\ sold'[e] = sold[e]
           /\ pending'[e] = pending[e] /\ flyer'[e] = flyer[e],
         \A t \in Types : typeOf'[t] \in Events => typeOf'[t] \in OnShelf',
         \A g \in Hands : hand'[g].pc \in AtEvents =>
           hand'[g] = hand[g] \/ status'[hand'[g].event] # "none"
  PROVE  UnbornBare'
<1>1. \A g \in Hands : hand[g].pc \in AtEvents => hand[g].event \in Events
  BY TaskFields DEF CatalogueInv, CatalogueTypeOK
<1> QED BY <1>1 DEF CatalogueInv, UnbornBare

LEMMA TypesLeft ==
  ASSUME CatalogueInv, UNCHANGED <<typeOf, count>>, skewed \subseteq skewed',
         \A e \in OnShelf' : e \in OnShelf \/ status[e] = "none",
         \A g \in Hands : hand'[g].pc = "recount" => hand'[g] = hand[g]
  PROVE  TypesCounted'
<1>1. \A e \in Events : status[e] = "none" => count[e] = 0 /\ TypesOf(e) = {}
  BY CatalogueAssumption DEF CatalogueInv, UnbornBare, TypesOf, OnShelf
<1>2. \A e : TypesOf(e)' = TypesOf(e)
  BY DEF TypesOf
<1>3. \A g \in Hands : hand[g].pc = "recount" => status[hand[g].event] # "none"
  BY DEF CatalogueInv, UnbornBare, AtEvents
<1>4. Cardinality({}) = 0
  BY FS_EmptySet
<1>5. AggregatesExplained'
  BY <1>1, <1>2, <1>4 DEF CatalogueInv, TypesCounted, AggregatesExplained, OnShelf
<1>6. \A e \in OnShelf' \ skewed' : e \in OnShelf \ skewed \/ status[e] = "none"
  OBVIOUS
<1> QED BY <1>2, <1>3, <1>5, <1>6 DEF CatalogueInv, TypesCounted, In

LEMMA SalesLeft ==
  ASSUME CatalogueInv, sold' = sold, late \subseteq late', overruled \subseteq overruled',
         \A e \in Events : pending'[e] > 0 => pending[e] > 0 /\ (e \in OnShelf => e \in OnShelf'),
         \A e \in Events : Shown(status[e]) =>
           Shown(status'[e]) \/ sold[e] = 0 \/ e \in late' \cup overruled',
         \A g \in Hands : hand'[g].pc \in TakingDown =>
           \/ hand[g].pc \in TakingDown /\ hand'[g].event = hand[g].event
           \/ sold[hand'[g].event] = 0
           \/ hand'[g].event \in late' \cup overruled'
  PROVE  SalesSeen'
<1>1. \A e \in Events : pending'[e] > 0 => e \in OnShelf'
  BY DEF CatalogueInv, SalesSeen
<1>2. \A g \in Hands : hand'[g].pc \in TakingDown =>
        sold'[hand'[g].event] = 0 \/ hand'[g].event \in late' \cup overruled'
  BY DEF CatalogueInv, SalesSeen
<1>3. SoldStaysUp'
  BY DEF CatalogueInv, SalesSeen, SoldStaysUp, Shown, CatalogueTypeOK
<1> QED BY <1>1, <1>2, <1>3 DEF SalesSeen

LEMMA ApartLeft ==
  ASSUME CatalogueInv, CatalogueTypeOK', flyer' = flyer, stored <= stored',
         \A f, g \in Hands : f = g \/ hand'[f] = hand[f] \/ hand'[g] = hand[g],
         \A g \in Hands : Brings(hand'[g]) =>
           \/ Brings(hand[g]) /\ hand'[g].new = hand[g].new
           \/ hand'[g].new = 0
           \/ hand'[g].new = stored + 1 /\ stored' = stored + 1,
         \A g \in Hands : Recalls(hand'[g]) =>
           \/ Recalls(hand[g]) /\ hand'[g].old = hand[g].old /\ hand'[g].event = hand[g].event
           \/ hand'[g].old = flyer[hand'[g].event]
  PROVE  FlyersApart'
<1> USE DEF CatalogueInv, FlyersApart
<1>1. /\ stored \in Nat /\ stored' \in Nat
      /\ \A e \in Events : flyer[e] \in Nat /\ flyer[e] <= stored
      /\ \A g \in Hands : /\ Brings(hand[g]) => hand[g].new \in Nat /\ hand[g].new <= stored
                          /\ Recalls(hand[g]) => hand[g].old \in Nat /\ hand[g].old <= stored
                          /\ Recalls(hand'[g]) => hand'[g].event \in Events
  <2>1. stored \in Nat /\ stored' \in Nat /\ flyer \in [Events -> 0..MaxFiles]
    BY CatalogueAssumption DEF CatalogueTypeOK
  <2>2. \A g \in Hands : hand[g] \in Task /\ hand'[g] \in Task
    BY DEF CatalogueTypeOK
  <2>3. \A g \in Hands : /\ Brings(hand[g]) => hand[g].new \in 0..MaxFiles
                         /\ Recalls(hand[g]) => hand[g].old \in 0..MaxFiles
                         /\ Recalls(hand'[g]) => hand'[g].event \in Events
    BY <2>2, TaskFields, Roles
  <2> QED BY <2>1, <2>3, CatalogueAssumption
<1>2. \A g \in Hands : Recalls(hand'[g]) => hand'[g].old \in Nat /\ hand'[g].old <= stored
  BY <1>1
<1>3. \A g \in Hands : Brings(hand'[g]) => hand'[g].new <= stored'
  BY <1>1
<1>4. \A d, e \in Events : d # e => flyer[d] # flyer[e] \/ flyer[d] = 0
  OBVIOUS
<1>5. \A g \in Hands, e \in Events :
        /\ Brings(hand'[g]) => hand'[g].new # flyer[e] \/ flyer[e] = 0
        /\ Recalls(hand'[g]) /\ hand'[g].event # e => hand'[g].old # flyer[e] \/ flyer[e] = 0
  BY <1>1
<1>6. ASSUME NEW g \in Hands, NEW f \in Hands, Brings(hand'[g])
      PROVE  /\ Recalls(hand'[f]) => hand'[g].new # hand'[f].old \/ hand'[g].new = 0
             /\ Brings(hand'[f]) /\ g # f => hand'[g].new # hand'[f].new \/ hand'[g].new = 0
  <2>1. CASE hand'[g].new = 0
    BY <2>1
  <2>2. CASE hand'[g].new = stored + 1
    <3>1. Brings(hand'[f]) /\ g # f => hand'[f].new <= stored /\ hand'[f].new \in Nat
      <4>1. hand[g] # hand'[g]
        BY <1>1, <1>6, <2>2
      <4> QED BY <1>1, <4>1
    <3> QED BY <1>1, <1>2, <2>2, <3>1
  <2>3. CASE Brings(hand[g]) /\ hand'[g].new = hand[g].new
    <3>1. Recalls(hand'[f]) => hand'[g].new # hand'[f].old \/ hand'[g].new = 0
      <4>1. CASE hand'[f].old = flyer[hand'[f].event]
        BY <1>1, <2>3, <4>1
      <4> QED BY <2>3, <4>1
    <3>2. Brings(hand'[f]) /\ g # f => hand'[g].new # hand'[f].new \/ hand'[g].new = 0
      BY <1>1, <2>3
    <3> QED BY <3>1, <3>2
  <2> QED BY <1>6, <2>1, <2>2, <2>3
<1> HIDE DEF CatalogueInv
<1>7. \A e \in Events : flyer'[e] <= stored'
  BY <1>1
<1> QED BY <1>1, <1>2, <1>3, <1>4, <1>5, <1>6, <1>7

LEMMA FollowLeft ==
  ASSUME CatalogueInv, flyer' = flyer, files \subseteq files', torn \subseteq torn',
         \A e \in OnShelf' : e \in OnShelf \/ flyer[e] = 0,
         \A g \in Hands : Brings(hand'[g]) =>
           \/ Brings(hand[g]) /\ hand'[g].new = hand[g].new
           \/ hand'[g].new \in files' \cup {0},
         \A g \in Hands : Recalls(hand'[g]) =>
           \/ Recalls(hand[g]) /\ hand'[g].old = hand[g].old /\ hand'[g].event = hand[g].event
           \/ hand'[g].old = flyer[hand'[g].event],
         \A f, g \in Hands : Writer(hand'[f]) /\ Writer(hand'[g])
                               /\ hand'[f].event = hand'[g].event =>
           \/ f = g
           \/ hand'[f].event \in torn'
           \/ /\ Writer(hand[f]) /\ hand[f].event = hand'[f].event
              /\ Writer(hand[g]) /\ hand[g].event = hand'[g].event,
         \A g \in Hands : Writer(hand[g]) /\ hand[g].pc \in {"save", "unlist", "drop"} =>
           \/ Writer(hand'[g]) /\ hand'[g].pc \in {"save", "unlist", "drop"}
                /\ hand'[g].event = hand[g].event
           \/ hand[g].event \in torn'
           \/ hand[g].event \notin OnShelf'
  PROVE  FlyersFollow'
<1> USE DEF CatalogueInv, FlyersFollow
<1>1. \A h \in Hands : Brings(hand'[h]) => hand'[h].new \in files' \cup {0}
  OBVIOUS
<1>2. \A g, h \in Hands :
        Writer(hand'[g]) /\ Writer(hand'[h]) /\ hand'[g].event = hand'[h].event =>
          g = h \/ hand'[g].event \in torn'
  OBVIOUS
<1>3. \A h \in Hands : Recalls(hand'[h]) /\ hand'[h].event \notin torn' =>
        hand'[h].old = flyer'[hand'[h].event]
  OBVIOUS
<1>4. \A e \in OnShelf' \ torn' :
        \/ flyer'[e] \in files' \cup {0}
        \/ \E h \in Hands : Writer(hand'[h]) /\ hand'[h].pc \in {"save", "unlist", "drop"}
                              /\ hand'[h].event = e
  OBVIOUS
<1> QED BY <1>1, <1>2, <1>3, <1>4

LEMMA IndexLeft ==
  ASSUME CatalogueInv, index' \subseteq index, blurred \subseteq blurred',
         \A e \in index' \ blurred' :
           /\ e \in OnShelf => e \in OnShelf'
           /\ Shown(status[e]) =>
                Shown(status'[e]) \/ \E h \in Hands : hand'[h].pc = "unlist" /\ hand'[h].event = e
           /\ \A h \in Hands : hand[h].pc = "unlist" /\ hand[h].event = e =>
                hand'[h].pc = "unlist" /\ hand'[h].event = e
           /\ suspended' => suspended \/ \E h \in Hands : Hides(hand'[h], e)
           /\ \A h \in Hands : Hides(hand[h], e) => Hides(hand'[h], e)
  PROVE  IndexFollows'
<1> SUFFICES ASSUME NEW e \in index' \ blurred'
             PROVE  /\ e \in OnShelf'
                    /\ Shown(status'[e])
                         \/ \E h \in Hands : hand'[h].pc = "unlist" /\ hand'[h].event = e
                    /\ ~suspended' \/ \E h \in Hands : Hides(hand'[h], e)
  BY DEF IndexFollows, In
<1>1. /\ e \in OnShelf
      /\ Shown(status[e]) \/ \E h \in Hands : hand[h].pc = "unlist" /\ hand[h].event = e
      /\ ~suspended \/ \E h \in Hands : Hides(hand[h], e)
  BY DEF CatalogueInv, IndexFollows, In
<1> QED BY <1>1

\* A request that moves on and leaves rows and files as they are.
LEMMA Moves ==
  ASSUME CatalogueInv, NEW h \in Hands, NEW c \in Task, Turn(h, c),
         UNCHANGED <<shelf, files, stock, sales, stored>>,
         index' \subseteq Events, suspended' \in BOOLEAN, edits' \in 0..MaxEdits,
         overruled \subseteq overruled', overruled' \subseteq Events,
         skewed \subseteq skewed', skewed' \subseteq Events,
         blurred \subseteq blurred', blurred' \subseteq Events,
         torn \subseteq torn', torn' \subseteq Events,
         TypesCounted', IndexFollows',
         c.pc \in AtEvents => status[c.event] # "none",
         c.pc \in TakingDown => sold[c.event] = 0 \/ c.event \in late \cup overruled',
         Brings(c) => Brings(hand[h]) /\ c.new = hand[h].new,
         Recalls(c) => c.old = flyer[c.event],
         Writer(c) =>
           \/ c.event \in torn'
           \/ \A g \in Hands \ {h} : Writer(hand[g]) => hand[g].event # c.event,
         Writer(hand[h]) /\ hand[h].pc \in {"save", "unlist", "drop"} =>
           \/ hand[h].event \in torn'
           \/ Writer(c) /\ c.pc \in {"save", "unlist", "drop"} /\ c.event = hand[h].event
  PROVE  CatalogueInv'
<1>1. \A g \in Hands : hand'[g] = IF g = h THEN c ELSE hand[g]
  BY TurnAt DEF CatalogueInv
<1>2. /\ status' = status /\ over' = over /\ flyer' = flyer /\ eventsCount' = eventsCount
      /\ files' = files /\ typeOf' = typeOf /\ capped' = capped /\ bought' = bought
      /\ count' = count /\ pending' = pending /\ sold' = sold /\ ordered' = ordered
      /\ late' = late /\ stored' = stored
  BY DEF shelf, stock, sales
<1>3. OnShelf' = OnShelf
  BY <1>2 DEF OnShelf
<1>4. CatalogueTypeOK'
  <2>1. hand' \in [Hands -> Task]
    BY DEF CatalogueInv, CatalogueTypeOK, Turn
  <2> QED BY <1>2, <2>1 DEF CatalogueInv, CatalogueTypeOK
<1>5. stored <= stored'
  BY <1>2, CatalogueAssumption DEF CatalogueInv, CatalogueTypeOK
<1>6. UnbornBare'
  BY <1>1, <1>2, <1>3, UnbornLeft DEF CatalogueInv, UnbornBare
<1>7. EventsCountExact'
  BY <1>2, <1>3 DEF CatalogueInv, EventsCountExact
<1>8. SalesSeen'
  BY <1>1, <1>2, <1>3, SalesLeft
<1>9. FlyersApart'
  BY <1>1, <1>2, <1>4, <1>5, ApartLeft
<1>10. FlyersFollow'
  BY <1>1, <1>2, <1>3, FollowLeft
<1> QED BY <1>4, <1>6, <1>7, <1>8, <1>9, <1>10 DEF CatalogueInv

\* A request that was not hiding anything leaves the index explained.
LEMMA IndexAsIs ==
  ASSUME CatalogueInv, NEW h \in Hands, NEW c, Turn(h, c),
         hand[h].pc \notin {"unlist", "gather", "sweep"},
         index' = index, suspended' = suspended, blurred \subseteq blurred',
         \A e \in index \ blurred' : e \in OnShelf =>
           e \in OnShelf' /\ (Shown(status[e]) => Shown(status'[e]) \/ (c.pc = "unlist" /\ c.event = e))
  PROVE  IndexFollows'
<1>1. \A g \in Hands : hand'[g] = IF g = h THEN c ELSE hand[g]
  BY TurnAt DEF CatalogueInv
<1>2. \A e : ~Hides(hand[h], e)
  BY DEF Hides
<1>3. \A e \in index' \ blurred' : e \in OnShelf
  BY DEF CatalogueInv, IndexFollows
<1> QED BY <1>1, <1>2, <1>3, IndexLeft

LEMMA Begins ==
  ASSUME CatalogueInv, NEW h \in Hands, NEW c \in Task, Turn(h, c),
         UNCHANGED <<shelf, files, stock, sales, index, suspended, stored, skewed, blurred>>,
         edits' \in 0..MaxEdits,
         overruled \subseteq overruled', overruled' \subseteq Events,
         torn \subseteq torn', torn' \subseteq Events,
         hand[h].pc = "rest", c.pc # "recount", ~Brings(c),
         c.pc \in AtEvents => status[c.event] # "none",
         c.pc \in TakingDown => sold[c.event] = 0 \/ c.event \in late \cup overruled',
         Recalls(c) => c.old = flyer[c.event],
         Writer(c) =>
           \/ c.event \in torn'
           \/ \A g \in Hands \ {h} : Writer(hand[g]) => hand[g].event # c.event
  PROVE  CatalogueInv'
<1>1. /\ status' = status /\ typeOf' = typeOf /\ count' = count
      /\ index' = index /\ suspended' = suspended /\ skewed' = skewed /\ blurred' = blurred
      /\ index \subseteq Events /\ suspended \in BOOLEAN /\ skewed \subseteq Events
      /\ blurred \subseteq Events
  BY DEF shelf, stock, CatalogueInv, CatalogueTypeOK
<1>2. OnShelf' = OnShelf
  BY <1>1 DEF OnShelf
<1>3. IndexFollows'
  <2>1. /\ hand[h].pc \notin {"unlist", "gather", "sweep"} /\ blurred \subseteq blurred'
        /\ index' = index /\ suspended' = suspended
    BY <1>1
  <2>2. \A e \in index \ blurred' : e \in OnShelf =>
          e \in OnShelf' /\ (Shown(status[e]) => Shown(status'[e]) \/ (c.pc = "unlist" /\ c.event = e))
    BY <1>1, <1>2
  <2> QED BY <2>1, <2>2, IndexAsIs
<1>4. TypesCounted'
  <2>1. \A g \in Hands : hand'[g] = IF g = h THEN c ELSE hand[g]
    BY TurnAt DEF CatalogueInv
  <2> QED BY <1>1, <1>2, <2>1, TypesLeft
<1>5. UNCHANGED <<shelf, files, stock, sales, stored>>
  OBVIOUS
<1>6. /\ index' \subseteq Events /\ suspended' \in BOOLEAN
      /\ skewed \subseteq skewed' /\ skewed' \subseteq Events
      /\ blurred \subseteq blurred' /\ blurred' \subseteq Events
      /\ hand[h].pc \notin {"save", "unlist", "drop"}
  BY <1>1
<1> QED BY <1>3, <1>4, <1>5, <1>6, Moves

\* Who begins to change the flyer of an event another request is changing is noted.
LEMMA LoadsKeep ==
  ASSUME CatalogueInv, NEW h \in Hands, NEW e \in Events,
         LoadForUpdate(h, e) \/ DeleteEvent(h, e) \/ AdminDelete(h, e)
  PROVE  CatalogueInv'
<1>1. PICK pc \in {"edit", "purge"} :
        /\ Turn(h, [pc |-> pc, event |-> e, old |-> flyer[e]])
        /\ pc = "purge" => sold[e] = 0 \/ e \in overruled'
  BY DEF LoadForUpdate, DeleteEvent, AdminDelete
<1> DEFINE c == [pc |-> pc, event |-> e, old |-> flyer[e]]
<1>2. c \in Task
  <2>1. flyer[e] \in 0..MaxFiles
    BY DEF CatalogueInv, CatalogueTypeOK
  <2>2. c \in EditOf \/ c \in PurgeOf
    BY <1>1, <2>1 DEF EditOf, PurgeOf
  <2> QED BY <2>2, KindsAreTasks
<1>3. /\ Edit(h) /\ status[e] # "none"
      /\ UNCHANGED <<shelf, files, stock, sales, index, suspended, stored, skewed, blurred>>
      /\ torn' = Marked(torn, e, OthersAt(h, FlyerWriters, e))
      /\ overruled' = overruled \/ overruled' = overruled \cup {e}
  BY DEF LoadForUpdate, DeleteEvent, AdminDelete, OnShelf
<1>4. hand[h].pc = "rest" /\ edits' \in 0..MaxEdits
  BY <1>3, CatalogueAssumption DEF Edit, In, CatalogueInv, CatalogueTypeOK
<1>5. /\ overruled \subseteq overruled' /\ overruled' \subseteq Events
      /\ torn \subseteq torn' /\ torn' \subseteq Events
  BY <1>3 DEF Marked, CatalogueInv, CatalogueTypeOK
<1>6. e \in torn' \/ \A g \in Hands \ {h} : Writer(hand[g]) => hand[g].event # e
  BY <1>3 DEF Marked, OthersAt, Writer, FlyerWriters
<1>7. ~Brings(c) /\ c.pc # "recount" /\ (c.pc \in TakingDown => pc = "purge")
  BY DEF Brings, TakingDown
<1>8. Turn(h, c) /\ c.event = e /\ c.old = flyer[e]
  BY <1>1
<1> HIDE DEF c
<1> QED BY <1>1, <1>2, <1>3, <1>4, <1>5, <1>6, <1>7, <1>8, Begins

LEMMA StatusAskedKeeps ==
  ASSUME CatalogueInv, NEW h \in Hands, NEW e \in Events,
         \/ Publish(h, e) \/ Unpublish(h, e) \/ Duplicate(h, e)
         \/ AdminLoads(h, e, "takeDown") \/ AdminLoads(h, e, "close")
  PROVE  CatalogueInv'
<1>1. /\ Edit(h) /\ status[e] # "none"
      /\ UNCHANGED <<shelf, files, stock, sales, index, suspended, stored, notes>>
  BY DEF Publish, Publishable, Unpublish, Duplicate, AdminLoads, OnShelf
<1>2. PICK c \in Task :
        /\ Turn(h, c) /\ c.event = e
        /\ c.pc \in {"publish", "unpublish", "takeDown", "close", "clone"}
        /\ c.pc = "unpublish" => sold[e] = 0
  <2>1. ASSUME NEW pc \in {"publish", "unpublish", "takeDown", "close"}
        PROVE  [pc |-> pc, event |-> e] \in Task
    BY KindsAreTasks DEF StatusOf
  <2>2. [pc |-> "clone", event |-> e, n |-> Cardinality(TypesOf(e))] \in Task
    BY TypesFinite, KindsAreTasks DEF CloneOf
  <2>3. CASE Publish(h, e)
    BY <2>1, <2>3 DEF Publish
  <2>4. CASE Unpublish(h, e)
    BY <2>1, <2>4 DEF Unpublish
  <2>5. CASE Duplicate(h, e)
    BY <2>2, <2>5 DEF Duplicate
  <2>6. CASE AdminLoads(h, e, "takeDown") \/ AdminLoads(h, e, "close")
    BY <2>1, <2>6 DEF AdminLoads
  <2> QED BY <2>3, <2>4, <2>5, <2>6
<1>3. /\ UNCHANGED <<skewed, blurred>> /\ overruled' = overruled /\ torn' = torn
      /\ overruled \subseteq Events /\ torn \subseteq Events
  BY <1>1 DEF notes, CatalogueInv, CatalogueTypeOK
<1>4. hand[h].pc = "rest" /\ edits' \in 0..MaxEdits
  BY <1>1, CatalogueAssumption DEF Edit, In, CatalogueInv, CatalogueTypeOK
<1>5. /\ ~Brings(c) /\ c.pc # "recount" /\ ~Recalls(c) /\ ~Writer(c)
      /\ c.pc \in TakingDown => c.pc = "unpublish"
  BY <1>2 DEF Brings, Recalls, Writer, TakingDown
<1> QED BY <1>1, <1>2, <1>3, <1>4, <1>5, Begins

LEMMA ReindexKeeps == ASSUME CatalogueInv, NEW h \in Hands, ReindexAll(h) PROVE CatalogueInv'
<1> DEFINE c == [pc |-> "restore", todo |-> {e \in Events : Shown(status[e])}, seen |-> status]
<1>1. c \in Task
  BY KindsAreTasks DEF RestoreOf, CatalogueInv, CatalogueTypeOK
<1>2. /\ Turn(h, c) /\ Edit(h)
      /\ UNCHANGED <<shelf, files, stock, sales, index, suspended, stored, notes>>
  BY DEF ReindexAll
<1>3. /\ UNCHANGED <<skewed, blurred>> /\ overruled' = overruled /\ torn' = torn
      /\ overruled \subseteq Events /\ torn \subseteq Events
  BY <1>2 DEF notes, CatalogueInv, CatalogueTypeOK
<1>4. hand[h].pc = "rest" /\ edits' \in 0..MaxEdits
  BY <1>2, CatalogueAssumption DEF Edit, In, CatalogueInv, CatalogueTypeOK
<1>5. /\ ~Brings(c) /\ c.pc # "recount" /\ ~Recalls(c) /\ ~Writer(c)
      /\ c.pc \notin TakingDown /\ c.pc \notin AtEvents
  BY DEF Brings, Recalls, Writer, TakingDown, AtEvents
<1> HIDE DEF c
<1> QED BY <1>1, <1>2, <1>3, <1>4, <1>5, Begins

\* What a request brings for the aggregates is right unless another is at the
\* types of the event.
LEMMA BeginTypesKeeps ==
  ASSUME CatalogueInv, NEW h \in Hands, NEW e \in Events, NEW t \in Types,
         AddType(h, e, t) \/ EditType(h, e, t) \/ DeleteType(h, e, t)
  PROVE  CatalogueInv'
<1>1. PICK op \in {"add", "edit", "delete"} :
        /\ op = "add" => t \in NewTypes
        /\ op # "add" => t \in TypesOf(e)
        /\ BeginTypes(h, e, t, op, Cardinality(TypesOf(e))
             + (IF op = "add" THEN 1 ELSE IF op = "delete" THEN -1 ELSE 0))
  <2>1. Cardinality(TypesOf(e)) \in Int
    BY TypesFinite
  <2>2. CASE AddType(h, e, t)
    BY <2>2 DEF AddType
  <2>3. CASE EditType(h, e, t)
    <3>1. Cardinality(TypesOf(e)) + 0 = Cardinality(TypesOf(e))
      BY <2>1
    <3> QED BY <2>3, <3>1 DEF EditType
  <2>4. CASE DeleteType(h, e, t)
    <3>1. Cardinality(TypesOf(e)) - 1 = Cardinality(TypesOf(e)) + (-1)
      BY <2>1
    <3> QED BY <2>4, <3>1 DEF DeleteType
  <2> QED BY <2>2, <2>3, <2>4
<1>2. PICK n \in Int :
        /\ n = Cardinality(TypesOf(e))
                 + (IF op = "add" THEN 1 ELSE IF op = "delete" THEN -1 ELSE 0)
        /\ BeginTypes(h, e, t, op, n)
  <2>1. Cardinality(TypesOf(e)) \in Int
    BY TypesFinite
  <2> QED BY <1>1, <2>1
<1>3. PICK c \in Task : /\ c.pc = "recount" /\ c.event = e /\ c.type = t /\ c.op = op /\ c.n = n
                        /\ Turn(h, c)
  <2>1. [pc |-> "recount", event |-> e, type |-> t, op |-> op, n |-> n] \in Task
    BY KindsAreTasks DEF RecountOf
  <2> QED BY <1>2, <2>1 DEF BeginTypes
<1>4. /\ Edit(h) /\ status[e] \in {"draft", "published"}
      /\ skewed' = Marked(skewed, e, OthersAt(h, {"recount"}, e))
      /\ UNCHANGED <<shelf, files, stock, sales, index, suspended, stored, overruled, blurred, torn>>
  BY <1>2 DEF BeginTypes
<1>5. /\ hand[h].pc = "rest" /\ edits' \in 0..MaxEdits
      /\ skewed \subseteq skewed' /\ skewed' \subseteq Events
      /\ index \subseteq Events /\ suspended \in BOOLEAN
      /\ overruled \subseteq Events /\ blurred \subseteq Events /\ torn \subseteq Events
  BY <1>4, CatalogueAssumption DEF Edit, In, Marked, CatalogueInv, CatalogueTypeOK
<1>6. \A g \in Hands : hand'[g] = IF g = h THEN c ELSE hand[g]
  BY <1>3, TurnAt DEF CatalogueInv
<1>7. /\ status' = status /\ typeOf' = typeOf /\ count' = count
      /\ OnShelf' = OnShelf /\ \A d : TypesOf(d)' = TypesOf(d)
  BY <1>4 DEF shelf, stock, OnShelf, TypesOf
<1>8. IndexFollows'
  <2>1. /\ hand[h].pc \notin {"unlist", "gather", "sweep"} /\ blurred \subseteq blurred'
        /\ index' = index /\ suspended' = suspended
    BY <1>4, <1>5
  <2>2. \A d \in index \ blurred' : d \in OnShelf =>
          d \in OnShelf' /\ (Shown(status[d]) => Shown(status'[d]) \/ (c.pc = "unlist" /\ c.event = d))
    BY <1>7
  <2> QED BY <1>3, <2>1, <2>2, IndexAsIs
<1>9. TypesCounted'
  <2> USE DEF CatalogueInv, TypesCounted, In
  <2>1. ASSUME NEW g \in Hands \ {h}, hand[g].pc = "recount"
        PROVE  /\ hand[g].event = e => e \in skewed'
               /\ hand[g].op = "add" => hand[g].type # t
               /\ op = "add" => t # hand[g].type
    <3>1. hand[g].event = e => e \in skewed'
      BY <1>4, <2>1 DEF OthersAt, Marked
    <3>2. hand[g].op = "add" => hand[g].type # t
      BY <1>1, <2>1, CatalogueAssumption DEF NewTypes, TypesOf
    <3>3. op = "add" => t # hand[g].type
      BY <1>1, <2>1 DEF NewTypes
    <3> QED BY <3>1, <3>2, <3>3
  <2>2. \A f, g \in Hands :
          hand'[f].pc = "recount" /\ hand'[g].pc = "recount" /\ f # g =>
            /\ hand'[f].event = hand'[g].event => hand'[f].event \in skewed'
            /\ hand'[f].op = "add" => hand'[f].type # hand'[g].type
    BY <1>3, <1>5, <1>6, <2>1
  <2>3. \A g \in Hands : hand'[g].pc = "recount" /\ hand'[g].op = "add" =>
          typeOf'[hand'[g].type] = "none"
    BY <1>1, <1>3, <1>6, <1>7 DEF NewTypes
  <2>4. \A g \in Hands : hand'[g].pc = "recount" /\ hand'[g].event \in OnShelf' \ skewed' =>
          hand'[g].n = Cardinality({s \in Types : typeOf'[s] = hand'[g].event})
            + (IF hand'[g].op = "add" THEN 1 ELSE IF hand'[g].op = "delete" THEN -1 ELSE 0)
    <3>1. \A d : {s \in Types : typeOf'[s] = d} = TypesOf(d)
      BY <1>7 DEF TypesOf
    <3>2. ASSUME NEW g \in Hands \ {h}, hand[g].pc = "recount", hand[g].event \in OnShelf \ skewed
          PROVE  hand[g].n = Cardinality(TypesOf(hand[g].event))
            + (IF hand[g].op = "add" THEN 1 ELSE IF hand[g].op = "delete" THEN -1 ELSE 0)
      BY <3>2
    <3>3. ASSUME NEW g \in Hands, hand'[g].pc = "recount", hand'[g].event \in OnShelf' \ skewed'
          PROVE  hand'[g].n = Cardinality(TypesOf(hand'[g].event))
            + (IF hand'[g].op = "add" THEN 1 ELSE IF hand'[g].op = "delete" THEN -1 ELSE 0)
      <4>1. CASE g = h
        <5>1. hand'[g] = c
          BY <1>6, <4>1
        <5> QED BY <1>2, <1>3, <5>1
      <4>2. CASE g # h
        <5>1. hand'[g] = hand[g]
          BY <1>6, <4>2
        <5> QED BY <1>5, <1>7, <3>2, <3>3, <4>2, <5>1
      <4> QED BY <4>1, <4>2
    <3> HIDE DEF CatalogueInv, TypesCounted
    <3> QED BY <3>1, <3>3
  <2>5. AggregatesExplained'
    BY <1>5, <1>7 DEF AggregatesExplained
  <2> QED BY <2>2, <2>3, <2>4, <2>5 DEF TypesOf
<1>10. /\ c.pc \in AtEvents => status[c.event] # "none"
       /\ c.pc \notin TakingDown /\ ~Brings(c) /\ ~Recalls(c) /\ ~Writer(c)
       /\ hand[h].pc \notin {"save", "unlist", "drop"}
  BY <1>3, <1>4, <1>5 DEF TakingDown, Brings, Recalls, Writer
<1>11. /\ UNCHANGED <<shelf, files, stock, sales, stored>>
       /\ index' \subseteq Events /\ suspended' \in BOOLEAN
       /\ overruled \subseteq overruled' /\ overruled' \subseteq Events
       /\ blurred \subseteq blurred' /\ blurred' \subseteq Events
       /\ torn \subseteq torn' /\ torn' \subseteq Events
  BY <1>4, <1>5
<1> QED BY <1>3, <1>5, <1>8, <1>9, <1>10, <1>11, Moves

\* What follows when a request of the index moves on, leaving rows, files and
\* histories other than blurred alone.
LEMMA IndexProceeds ==
  ASSUME CatalogueInv, NEW h \in Hands, NEW c \in Task, Turn(h, c),
         UNCHANGED <<shelf, files, stock, sales, stored, overruled, skewed>>,
         index' \subseteq Events, suspended' \in BOOLEAN, edits' \in 0..MaxEdits,
         blurred \subseteq blurred', blurred' \subseteq Events,
         torn \subseteq torn', torn' \subseteq Events, IndexFollows',
         \/ c.pc \in {"rest", "gather", "sweep", "restore"}
         \/ hand[h].pc = "unlist" /\ hand[h].drop /\ c.pc = "drop" /\ c.event = hand[h].event,
         Writer(hand[h]) /\ hand[h].pc \in {"save", "unlist", "drop"} =>
           hand[h].event \in torn' \/ (c.pc = "drop" /\ c.event = hand[h].event)
  PROVE  CatalogueInv'
<1>1. /\ status' = status /\ typeOf' = typeOf /\ count' = count /\ skewed' = skewed
      /\ OnShelf' = OnShelf
  BY DEF shelf, stock, OnShelf
<1>2. overruled' = overruled /\ overruled \subseteq Events /\ skewed \subseteq Events
  BY DEF CatalogueInv, CatalogueTypeOK
<1>3. TypesCounted'
  <2>1. \A g \in Hands : hand'[g] = IF g = h THEN c ELSE hand[g]
    BY TurnAt DEF CatalogueInv
  <2> QED BY <1>1, <2>1, TypesLeft
<1>4. ~Brings(c) /\ ~Recalls(c)
  BY DEF Brings, Recalls
<1>5. c.pc = "rest" \/ c.pc = "gather" \/ c.pc = "sweep" \/ c.pc = "restore"
        => c.pc \notin AtEvents /\ c.pc \notin TakingDown /\ ~Writer(c)
  BY DEF AtEvents, TakingDown, Writer
<1>6. CASE hand[h].pc = "unlist" /\ hand[h].drop /\ c.pc = "drop" /\ c.event = hand[h].event
  <2>1. status[c.event] # "none"
    BY <1>6 DEF CatalogueInv, UnbornBare, AtEvents
  <2>2. sold[c.event] = 0 \/ c.event \in late \cup overruled'
    BY <1>2, <1>6 DEF CatalogueInv, SalesSeen, TakingDown
  <2>3. \/ c.event \in torn'
        \/ \A g \in Hands \ {h} : Writer(hand[g]) => hand[g].event # c.event
    BY <1>6 DEF CatalogueInv, FlyersFollow, Writer
  <2>4. Writer(c)
    BY <1>6 DEF Writer
  <2> QED BY <1>2, <1>3, <1>4, <1>6, <2>1, <2>2, <2>3, <2>4, Moves
<1>7. CASE c.pc \in {"rest", "gather", "sweep", "restore"}
  BY <1>2, <1>3, <1>4, <1>5, <1>7, Moves
<1> QED BY <1>6, <1>7

LEMMA WriteFollows ==
  ASSUME CatalogueInv, NEW h \in Hands, NEW c, Turn(h, c), hand[h].pc \in {"index", "restore"},
         NEW e \in Events, NEW seen, Write(e, seen), status' = status, suspended' = suspended
  PROVE  IndexFollows' /\ index' \subseteq Events /\ blurred \subseteq blurred' /\ blurred' \subseteq Events
<1>1. \A g \in Hands : hand'[g] = IF g = h THEN c ELSE hand[g]
  BY TurnAt DEF CatalogueInv
<1>2. index' \subseteq Events /\ blurred \subseteq blurred' /\ blurred' \subseteq Events
  BY DEF Write, Marked, CatalogueInv, CatalogueTypeOK
<1>3. OnShelf' = OnShelf
  BY DEF OnShelf
<1>4. ASSUME NEW d \in index' \ blurred'
      PROVE  /\ d \in OnShelf
             /\ Shown(status[d]) \/ \E g \in Hands : hand'[g].pc = "unlist" /\ hand'[g].event = d
             /\ ~suspended \/ \E g \in Hands : Hides(hand'[g], d)
  <2>1. CASE d = e
    BY <2>1, CatalogueInv DEF Write, Marked, Shown, OnShelf
  <2>2. CASE d # e
    <3>1. d \in index \ blurred
      BY <1>2, <2>2 DEF Write
    <3>2. ~Hides(hand[h], d) /\ hand[h].pc # "unlist"
      BY DEF Hides
    <3> QED BY <1>1, <3>1, <3>2 DEF CatalogueInv, IndexFollows, In
  <2> QED BY <2>1, <2>2
<1> QED BY <1>2, <1>3, <1>4 DEF IndexFollows, In

LEMMA WritesKeep ==
  ASSUME CatalogueInv, NEW h \in Hands, Index(h) \/ Restore(h)
  PROVE  CatalogueInv'
<1>1. hand[h] \in Task
  BY DEF CatalogueInv, CatalogueTypeOK
<1>2. PICK c \in Task : \E e \in Events : \E seen :
        Turn(h, c) /\ Write(e, seen) /\ c.pc \in {"rest", "restore"}
  <2>1. CASE Index(h)
    <3>1. hand[h].event \in Events
      BY <1>1, <2>1, TaskFields DEF Index, In, AtEvents
    <3> QED BY <2>1, <3>1, KindsAreTasks DEF Index, Done, Rest
  <2>2. CASE Restore(h)
    <3>1. hand[h] \in RestoreOf
      BY <1>1, <2>2, TaskKinds DEF Restore, In
    <3>2. PICK e \in hand[h].todo : Write(e, hand[h].seen[e]) /\ Onward(h, e)
      BY <2>2 DEF Restore
    <3>3. e \in Events
      BY <3>1 DEF RestoreOf
    <3>4. CASE hand[h].todo = {e}
      BY <3>2, <3>3, <3>4, KindsAreTasks DEF Onward, Done, Rest
    <3>5. CASE hand[h].todo # {e}
      <4>1. [hand[h] EXCEPT !.todo = @ \ {e}] \in RestoreOf
        BY <3>1 DEF RestoreOf
      <4>2. [hand[h] EXCEPT !.todo = @ \ {e}].pc = "restore"
        BY <4>1 DEF RestoreOf
      <4> QED BY <3>2, <3>3, <3>5, <4>1, <4>2, KindsAreTasks DEF Onward
    <3> QED BY <3>4, <3>5
  <2> QED BY <2>1, <2>2
<1>3. /\ UNCHANGED <<shelf, files, stock, sales, suspended, stored, edits, overruled, skewed, torn>>
      /\ hand[h].pc \in {"index", "restore"}
  BY DEF Index, Restore, In
<1>4. PICK e \in Events : \E seen : Write(e, seen)
  BY <1>2
<1>5. PICK seen : Write(e, seen)
  BY <1>4
<1>6. status' = status /\ suspended' = suspended
  BY <1>3 DEF shelf
<1>7. /\ IndexFollows' /\ index' \subseteq Events
      /\ blurred \subseteq blurred' /\ blurred' \subseteq Events
  BY <1>2, <1>3, <1>5, <1>6, WriteFollows
<1>8. suspended' \in BOOLEAN /\ edits' \in 0..MaxEdits /\ torn \subseteq torn' /\ torn' \subseteq Events
  BY <1>3 DEF CatalogueInv, CatalogueTypeOK
<1>9. UNCHANGED <<shelf, files, stock, sales, stored, overruled, skewed>>
  BY <1>3
<1>10. ~(Writer(hand[h]) /\ hand[h].pc \in {"save", "unlist", "drop"})
  BY <1>3
<1> QED BY <1>2, <1>7, <1>8, <1>9, <1>10, IndexProceeds

\* Requests that hide events from the index.
LEMMA HidingKeeps ==
  ASSUME CatalogueInv, NEW h \in Hands,
         Unlist(h) \/ Sweep(h) \/ Gather(h) \/ \E b \in BOOLEAN : SuspendOrganisation(h, b)
  PROVE  CatalogueInv'
<1>1. hand[h] \in Task
  BY DEF CatalogueInv, CatalogueTypeOK
<1>2. /\ UNCHANGED <<shelf, files, stock, sales, stored, notes>>
      /\ index' \subseteq index /\ index' \subseteq Events
  BY DEF Unlist, Sweep, Gather, SuspendOrganisation, CatalogueInv, CatalogueTypeOK
<1>3. /\ overruled' = overruled /\ skewed' = skewed /\ blurred' = blurred /\ torn' = torn
      /\ blurred \subseteq Events /\ torn \subseteq Events
      /\ status' = status /\ OnShelf' = OnShelf
  BY <1>2 DEF notes, shelf, OnShelf, CatalogueInv, CatalogueTypeOK
<1>4. \A e \in index \ blurred : e \in OnShelf
  BY DEF CatalogueInv, IndexFollows
<1>5. ASSUME NEW c, Turn(h, c), suspended' = suspended,
             hand[h].pc = "unlist" => hand[h].event \notin index',
             \A e \in index' \ blurred : Hides(hand[h], e) => Hides(c, e)
      PROVE  IndexFollows'
  <2>1. \A g \in Hands : hand'[g] = IF g = h THEN c ELSE hand[g]
    BY <1>5, TurnAt DEF CatalogueInv
  <2> QED BY <1>2, <1>3, <1>5, <2>1, IndexLeft
<1>6. /\ suspended \in BOOLEAN /\ edits \in 0..MaxEdits
      /\ Rest \in Task /\ Rest.pc = "rest"
  BY KindsAreTasks DEF CatalogueInv, CatalogueTypeOK, Rest
<1>7. /\ UNCHANGED <<shelf, files, stock, sales, stored, overruled, skewed>>
      /\ blurred \subseteq blurred' /\ blurred' \subseteq Events
      /\ torn \subseteq torn' /\ torn' \subseteq Events
  BY <1>2, <1>3
<1>8. CASE Unlist(h)
  <2> DEFINE d == [pc |-> "drop", event |-> hand[h].event]
  <2>1. /\ hand[h].pc = "unlist" /\ hand[h].event \notin index' /\ suspended' = suspended
        /\ edits' = edits
    BY <1>8 DEF Unlist, In
  <2>2. hand[h].event \in Events /\ \A e : ~Hides(hand[h], e)
    BY <1>1, <2>1, TaskFields DEF AtEvents, Hides
  <2>3. CASE hand[h].drop
    <3>1. Turn(h, d)
      BY <1>8, <2>3 DEF Unlist
    <3>2. d \in Task
      BY <2>2, KindsAreTasks DEF DropOf
    <3>3. d.pc = "drop" /\ d.event = hand[h].event
      OBVIOUS
    <3> HIDE DEF d
    <3> QED BY <1>2, <1>5, <1>6, <1>7, <2>1, <2>2, <2>3, <3>1, <3>2, <3>3, IndexProceeds
  <2>4. CASE ~hand[h].drop
    <3>1. Turn(h, Rest)
      BY <1>8, <2>4 DEF Unlist, Done
    <3>2. ~Writer(hand[h])
      BY <2>1, <2>4 DEF Writer
    <3> QED BY <1>2, <1>5, <1>6, <1>7, <2>1, <2>2, <3>1, <3>2, IndexProceeds
  <2> QED BY <2>3, <2>4
<1>9. CASE Sweep(h)
  <2>1. hand[h] \in SweepOf /\ hand[h].pc = "sweep" /\ suspended' = suspended /\ edits' = edits
    BY <1>1, <1>9, TaskKinds DEF Sweep, In
  <2>2. PICK e \in hand[h].todo : index' = index \ {e} /\ Onward(h, e)
    BY <1>9 DEF Sweep
  <2>3. PICK c \in Task : /\ Turn(h, c) /\ c.pc \in {"rest", "sweep"}
                          /\ \A x \in index' \ blurred : Hides(hand[h], x) => Hides(c, x)
    <3>1. CASE hand[h].todo = {e}
      <4>1. Turn(h, Rest)
        BY <2>2, <3>1 DEF Onward, Done
      <4>2. \A x \in index' \ blurred : ~Hides(hand[h], x)
        BY <2>1, <2>2, <3>1 DEF Hides
      <4> QED BY <1>6, <4>1, <4>2
    <3>2. CASE hand[h].todo # {e}
      <4> DEFINE s == [hand[h] EXCEPT !.todo = @ \ {e}]
      <4>1. s \in SweepOf /\ s.pc = "sweep" /\ s.todo = hand[h].todo \ {e}
        BY <2>1 DEF SweepOf
      <4>2. Turn(h, s)
        BY <2>2, <3>2 DEF Onward
      <4>3. \A x \in index' \ blurred : Hides(hand[h], x) => Hides(s, x)
        BY <2>1, <2>2, <4>1 DEF Hides
      <4> HIDE DEF s
      <4> QED BY <4>1, <4>2, <4>3, KindsAreTasks
    <3> QED BY <3>1, <3>2
  <2> QED BY <1>2, <1>5, <1>6, <1>7, <2>1, <2>3, IndexProceeds
<1>10. CASE Gather(h)
  <2>1. hand[h] \in GatherOf /\ hand[h].pc = "gather" /\ suspended' = suspended /\ edits' = edits
    BY <1>1, <1>10, TaskKinds DEF Gather, In
  <2>2. PICK c \in Task : /\ Turn(h, c) /\ c.pc \in {"rest", "sweep", "restore"}
                          /\ \A x \in index' \ blurred : Hides(hand[h], x) => Hides(c, x)
    <3>1. OnShelf \subseteq Events /\ status \in [Events -> EventStatus]
      BY DEF OnShelf, CatalogueInv, CatalogueTypeOK
    <3>2. CASE OnShelf = {}
      BY <1>2, <1>4, <1>6, <1>10, <3>2 DEF Gather, Done
    <3>3. CASE OnShelf # {} /\ hand[h].lift
      <4> DEFINE r == [pc |-> "restore", todo |-> OnShelf, seen |-> status]
      <4>1. r \in Task /\ r.pc = "restore"
        BY <3>1, KindsAreTasks DEF RestoreOf
      <4>2. Turn(h, r)
        BY <1>10, <3>3 DEF Gather
      <4>3. \A x : ~Hides(hand[h], x)
        BY <2>1, <3>3 DEF Hides
      <4> HIDE DEF r
      <4> QED BY <4>1, <4>2, <4>3
    <3>4. CASE OnShelf # {} /\ ~hand[h].lift
      <4> DEFINE s == [pc |-> "sweep", todo |-> OnShelf]
      <4>1. s \in Task /\ s.pc = "sweep"
        BY <3>1, KindsAreTasks DEF SweepOf
      <4>2. Turn(h, s)
        BY <1>10, <3>4 DEF Gather
      <4>3. \A x \in index' \ blurred : Hides(s, x)
        BY <1>2, <1>4 DEF Hides
      <4> HIDE DEF s
      <4> QED BY <4>1, <4>2, <4>3
    <3> QED BY <3>2, <3>3, <3>4
  <2> QED BY <1>2, <1>5, <1>6, <1>7, <2>1, <2>2, IndexProceeds
<1>11. ASSUME NEW b \in BOOLEAN, SuspendOrganisation(h, b) PROVE CatalogueInv'
  <2> DEFINE c == [pc |-> "gather", lift |-> b]
  <2>1. /\ Turn(h, c) /\ hand[h].pc = "rest" /\ suspended' = ~b /\ suspended' \in BOOLEAN
        /\ edits' \in 0..MaxEdits /\ index' = index
    BY <1>11, CatalogueAssumption DEF SuspendOrganisation, Edit, In, CatalogueInv, CatalogueTypeOK
  <2>2. c \in Task
    BY KindsAreTasks DEF GatherOf
  <2>3. c.pc = "gather" /\ \A e : Hides(c, e) <=> ~b
    BY DEF Hides
  <2> HIDE DEF c
  <2>4. \A g \in Hands : hand'[g] = IF g = h THEN c ELSE hand[g]
    BY <2>1, TurnAt DEF CatalogueInv
  <2>5. \A e : ~Hides(hand[h], e)
    BY <2>1 DEF Hides
  <2>6. IndexFollows'
    BY <1>2, <1>3, <2>1, <2>3, <2>4, <2>5, IndexLeft
  <2> QED BY <1>2, <1>7, <2>1, <2>2, <2>3, <2>6, IndexProceeds
<1> QED BY <1>8, <1>9, <1>10, <1>11

LEMMA HaltKeeps == ASSUME CatalogueInv, NEW h \in Hands, Halt(h) PROVE CatalogueInv'
<1>1. /\ Turn(h, Rest) /\ Rest \in Task /\ Rest.pc = "rest"
      /\ UNCHANGED <<shelf, files, stock, sales, index, suspended, stored, edits, overruled, skewed>>
  BY KindsAreTasks DEF Halt, Done, Rest
<1>2. \A g \in Hands : hand'[g] = IF g = h THEN Rest ELSE hand[g]
  BY <1>1, TurnAt DEF CatalogueInv
<1>3. hand[h] \in Task
  BY DEF CatalogueInv, CatalogueTypeOK
<1>4. blurred' = IF hand[h].pc = "unlist" THEN blurred \cup {hand[h].event}
                 ELSE IF hand[h].pc = "gather" THEN Events
                 ELSE IF hand[h].pc = "sweep" THEN blurred \cup hand[h].todo
                 ELSE blurred
  BY DEF Halt, In
<1>5. torn' = IF hand[h].pc \in {"clear", "save", "unlist", "drop"}
              THEN torn \cup {hand[h].event} ELSE torn
  BY DEF Halt
<1>6. /\ hand[h].pc \in {"clear", "save", "unlist", "drop"} => hand[h].event \in Events
      /\ hand[h].pc = "sweep" => hand[h].todo \subseteq Events
  BY <1>3, TaskFields DEF AtEvents
<1>7. blurred \subseteq blurred' /\ blurred' \subseteq Events
  BY <1>4, <1>6 DEF CatalogueInv, CatalogueTypeOK
<1>8. torn \subseteq torn' /\ torn' \subseteq Events
  BY <1>5, <1>6 DEF CatalogueInv, CatalogueTypeOK
<1>9. \A e \in index' \ blurred' : ~Hides(hand[h], e) /\ ~(hand[h].pc = "unlist" /\ hand[h].event = e)
  <2>1. index' \subseteq Events
    BY <1>1 DEF CatalogueInv, CatalogueTypeOK
  <2> QED BY <1>4, <2>1 DEF Hides
<1>10. status' = status /\ OnShelf' = OnShelf
  BY <1>1 DEF shelf, OnShelf
<1>11. IndexFollows'
  BY <1>1, <1>2, <1>7, <1>9, <1>10, IndexLeft
<1>12. Writer(hand[h]) /\ hand[h].pc \in {"save", "unlist", "drop"} => hand[h].event \in torn'
  BY <1>5
<1>13. index' \subseteq Events /\ suspended' \in BOOLEAN /\ edits' \in 0..MaxEdits
  BY <1>1 DEF CatalogueInv, CatalogueTypeOK
<1> QED BY <1>1, <1>7, <1>8, <1>11, <1>12, <1>13, IndexProceeds

(* Storage *)

\* A file that is nobody else's is stored, or a request goes on without one.
LEMMA StoresKeep ==
  ASSUME CatalogueInv, NEW h \in Hands,
         StoreFlyer(h) \/ \E b \in BOOLEAN : StoreNew(h, b)
  PROVE  CatalogueInv'
<1>1. /\ hand[h] \in Task /\ stored \in Nat /\ stored \in 0..MaxFiles
      /\ files \subseteq 1..MaxFiles /\ MaxFiles \in Nat
  BY CatalogueAssumption DEF CatalogueInv, CatalogueTypeOK
<1>2. PICK c \in Task :
        /\ Turn(h, c)
        /\ \/ c.pc = "insert" /\ hand[h].pc = "rest"
           \/ /\ c.pc = "clear" /\ hand[h].pc = "edit"
              /\ c.event = hand[h].event /\ c.old = hand[h].old
        /\ \/ c.new = 0 /\ stored' = stored /\ files' = files
           \/ /\ c.new = stored + 1 /\ stored' = stored + 1 /\ files' = files \cup {stored + 1}
              /\ stored < MaxFiles
        /\ edits' \in 0..MaxEdits
        /\ UNCHANGED <<shelf, stock, sales, index, suspended, notes>>
  <2>1. CASE StoreFlyer(h)
    <3> DEFINE c == [pc |-> "clear", event |-> hand[h].event, old |-> hand[h].old, new |-> stored + 1]
    <3>1. hand[h] \in EditOf /\ stored + 1 \in 0..MaxFiles
      BY <1>1, <2>1, TaskKinds, CatalogueAssumption DEF StoreFlyer, In
    <3>2. c \in Task
      BY <3>1, KindsAreTasks DEF EditOf, SaveOf
    <3>3. /\ Turn(h, c) /\ hand[h].pc = "edit" /\ edits' = edits
          /\ stored' = stored + 1 /\ files' = files \cup {stored + 1} /\ stored < MaxFiles
          /\ UNCHANGED <<shelf, stock, sales, index, suspended, notes>>
      BY <2>1 DEF StoreFlyer, In
    <3>4. edits' \in 0..MaxEdits
      BY <3>3 DEF CatalogueInv, CatalogueTypeOK
    <3>5. c.pc = "clear" /\ c.event = hand[h].event /\ c.old = hand[h].old /\ c.new = stored + 1
      OBVIOUS
    <3> HIDE DEF c
    <3> QED BY <3>2, <3>3, <3>4, <3>5
  <2>2. ASSUME NEW b \in BOOLEAN, StoreNew(h, b)
        PROVE  \E c \in Task :
                 /\ Turn(h, c) /\ c.pc = "insert" /\ hand[h].pc = "rest"
                 /\ \/ c.new = 0 /\ stored' = stored /\ files' = files
                    \/ /\ c.new = stored + 1 /\ stored' = stored + 1
                       /\ files' = files \cup {stored + 1} /\ stored < MaxFiles
                 /\ edits' \in 0..MaxEdits
                 /\ UNCHANGED <<shelf, stock, sales, index, suspended, notes>>
    <3>1. /\ hand[h].pc = "rest" /\ edits' \in 0..MaxEdits
          /\ UNCHANGED <<shelf, stock, sales, index, suspended, notes>>
      BY <2>2, CatalogueAssumption DEF StoreNew, Edit, In, CatalogueInv, CatalogueTypeOK
    <3>2. \A n \in 0..MaxFiles : [pc |-> "insert", new |-> n] \in Task
      BY KindsAreTasks DEF InsertOf
    <3>3. CASE b
      <4>1. stored + 1 \in 0..MaxFiles
        BY <1>1, <2>2, <3>3, CatalogueAssumption DEF StoreNew
      <4> DEFINE c == [pc |-> "insert", new |-> stored + 1]
      <4>2. c \in Task /\ c.pc = "insert" /\ c.new = stored + 1
        BY <3>2, <4>1
      <4>3. /\ Turn(h, c) /\ stored' = stored + 1 /\ files' = files \cup {stored + 1}
            /\ stored < MaxFiles
        BY <2>2, <3>3 DEF StoreNew
      <4> HIDE DEF c
      <4> QED BY <3>1, <4>2, <4>3
    <3>4. CASE ~b
      <4> DEFINE c == [pc |-> "insert", new |-> 0]
      <4>1. 0 \in 0..MaxFiles
        BY CatalogueAssumption
      <4>2. c \in Task /\ c.pc = "insert" /\ c.new = 0
        BY <3>2, <4>1
      <4>3. Turn(h, c) /\ stored' = stored /\ files' = files
        BY <2>2, <3>4 DEF StoreNew
      <4> HIDE DEF c
      <4> QED BY <3>1, <4>2, <4>3
    <3> QED BY <2>2, <3>3, <3>4
  <2> QED BY <2>1, <2>2
<1>3. \A g \in Hands : hand'[g] = IF g = h THEN c ELSE hand[g]
  BY <1>2, TurnAt DEF CatalogueInv
<1>4. /\ status' = status /\ over' = over /\ flyer' = flyer /\ eventsCount' = eventsCount
      /\ typeOf' = typeOf /\ capped' = capped /\ bought' = bought /\ count' = count
      /\ pending' = pending /\ sold' = sold /\ ordered' = ordered /\ late' = late
      /\ index' = index /\ suspended' = suspended
      /\ overruled' = overruled /\ skewed' = skewed /\ blurred' = blurred /\ torn' = torn
      /\ OnShelf' = OnShelf
  BY <1>2 DEF shelf, stock, sales, notes, OnShelf
<1>5. files \subseteq files' /\ c.new \in files' \cup {0} /\ stored <= stored'
  BY <1>1, <1>2
<1>6. CatalogueTypeOK'
  <2>1. hand' \in [Hands -> Task]
    BY <1>2 DEF CatalogueInv, CatalogueTypeOK, Turn
  <2>2. files' \subseteq 1..MaxFiles /\ stored' \in 0..MaxFiles
    <3>1. CASE stored' = stored /\ files' = files
      BY <1>1, <3>1
    <3>2. CASE stored' = stored + 1 /\ files' = files \cup {stored + 1} /\ stored < MaxFiles
      <4>1. stored + 1 \in 1..MaxFiles /\ stored + 1 \in 0..MaxFiles
        BY <1>1, <3>2
      <4> QED BY <1>1, <3>2, <4>1
    <3> QED BY <1>2, <3>1, <3>2
  <2> QED BY <1>2, <1>4, <2>1, <2>2 DEF CatalogueInv, CatalogueTypeOK
<1>7. /\ c.pc \notin TakingDown /\ c.pc # "recount" /\ c.pc # "unlist"
      /\ Recalls(c) => Recalls(hand[h]) /\ c.old = hand[h].old /\ c.event = hand[h].event
      /\ Writer(c) => Writer(hand[h]) /\ c.event = hand[h].event
      /\ c.pc \in AtEvents => hand[h].pc \in AtEvents /\ c.event = hand[h].event
      /\ hand[h].pc \notin {"save", "unlist", "drop"} /\ \A e : ~Hides(hand[h], e)
  BY <1>2 DEF TakingDown, Recalls, Writer, AtEvents, Hides
<1>8. UnbornBare'
  <2>1. \A g \in Hands : hand'[g].pc \in AtEvents =>
          hand'[g] = hand[g] \/ status'[hand'[g].event] # "none"
    BY <1>3, <1>4, <1>7 DEF CatalogueInv, UnbornBare
  <2>2. \A t \in Types : typeOf'[t] \in Events => typeOf'[t] \in OnShelf'
    BY <1>4 DEF CatalogueInv, UnbornBare
  <2> QED BY <1>4, <2>1, <2>2, UnbornLeft
<1>9. EventsCountExact'
  BY <1>4 DEF CatalogueInv, EventsCountExact
<1>10. SalesSeen'
  BY <1>3, <1>4, <1>7, SalesLeft
<1>11. FlyersApart'
  BY <1>2, <1>3, <1>4, <1>5, <1>6, <1>7, ApartLeft
<1>12. FlyersFollow'
  BY <1>3, <1>4, <1>5, <1>7, FollowLeft DEF CatalogueInv, FlyersFollow
<1>13. IndexFollows'
  BY <1>3, <1>4, <1>7, IndexLeft
<1>14. TypesCounted'
  BY <1>3, <1>4, <1>7, TypesLeft
<1> QED BY <1>6, <1>8, <1>9, <1>10, <1>11, <1>12, <1>13, <1>14 DEF CatalogueInv

\* The file that goes is the one the event's row names, if nobody changes it.
LEMMA DeletesKeep ==
  ASSUME CatalogueInv, NEW h \in Hands, DeleteOldFlyer(h) \/ Purge(h)
  PROVE  CatalogueInv'
<1> DEFINE e == hand[h].event
<1>1. hand[h] \in Task
  BY DEF CatalogueInv, CatalogueTypeOK
<1>2. PICK c \in Task :
        /\ Turn(h, c) /\ c.event = e
        /\ \/ c.pc = "save" /\ hand[h].pc = "clear" /\ c.new = hand[h].new
           \/ c.pc = "unlist" /\ c.drop /\ hand[h].pc = "purge"
        /\ files' = files \ {hand[h].old}
        /\ UNCHANGED <<shelf, stock, sales, index, suspended, stored, edits, notes>>
  <2>1. CASE DeleteOldFlyer(h)
    <3> DEFINE c == [hand[h] EXCEPT !.pc = "save"]
    <3>1. hand[h] \in SaveOf /\ hand[h].pc = "clear"
      BY <1>1, <2>1, TaskKinds DEF DeleteOldFlyer, In
    <3>2. c \in SaveOf /\ c.pc = "save" /\ c.event = e /\ c.new = hand[h].new
      BY <3>1 DEF SaveOf
    <3>3. /\ Turn(h, c) /\ files' = files \ {hand[h].old}
          /\ UNCHANGED <<shelf, stock, sales, index, suspended, stored, edits, notes>>
      BY <2>1 DEF DeleteOldFlyer
    <3> HIDE DEF c
    <3> QED BY <3>1, <3>2, <3>3, KindsAreTasks
  <2>2. CASE Purge(h)
    <3> DEFINE c == [pc |-> "unlist", event |-> e, drop |-> TRUE]
    <3>1. hand[h].pc = "purge" /\ e \in Events
      BY <1>1, <2>2, TaskFields DEF Purge, In, AtEvents
    <3>2. c \in UnlistOf /\ c.pc = "unlist" /\ c.event = e /\ c.drop
      BY <3>1 DEF UnlistOf
    <3>3. /\ Turn(h, c) /\ files' = files \ {hand[h].old}
          /\ UNCHANGED <<shelf, stock, sales, index, suspended, stored, edits, notes>>
      BY <2>2 DEF Purge
    <3> HIDE DEF c
    <3> QED BY <3>1, <3>2, <3>3, KindsAreTasks
  <2> QED BY <2>1, <2>2
<1>3. \A g \in Hands : hand'[g] = IF g = h THEN c ELSE hand[g]
  BY <1>2, TurnAt DEF CatalogueInv
<1>4. /\ status' = status /\ over' = over /\ flyer' = flyer /\ eventsCount' = eventsCount
      /\ typeOf' = typeOf /\ capped' = capped /\ bought' = bought /\ count' = count
      /\ pending' = pending /\ sold' = sold /\ ordered' = ordered /\ late' = late
      /\ index' = index /\ suspended' = suspended /\ stored' = stored /\ edits' = edits
      /\ overruled' = overruled /\ skewed' = skewed /\ blurred' = blurred /\ torn' = torn
      /\ OnShelf' = OnShelf
  BY <1>2 DEF shelf, stock, sales, notes, OnShelf
<1>5. CatalogueTypeOK'
  <2>1. hand' \in [Hands -> Task]
    BY <1>2 DEF CatalogueInv, CatalogueTypeOK, Turn
  <2> QED BY <1>2, <1>4, <2>1 DEF CatalogueInv, CatalogueTypeOK
<1>6. /\ Recalls(hand[h]) /\ Writer(hand[h]) /\ Writer(c) /\ c.pc \in {"save", "unlist", "drop"}
      /\ ~Recalls(c) /\ c.pc # "recount"
      /\ hand[h].pc \in AtEvents /\ hand[h].pc \notin {"unlist", "gather", "sweep"}
      /\ Brings(c) => Brings(hand[h]) /\ c.new = hand[h].new
      /\ c.pc \in TakingDown => hand[h].pc \in TakingDown
  BY <1>2 DEF Recalls, Writer, Brings, TakingDown, AtEvents
<1>7. UnbornBare'
  <2>1. \A g \in Hands : hand'[g].pc \in AtEvents =>
          hand'[g] = hand[g] \/ status'[hand'[g].event] # "none"
    BY <1>2, <1>3, <1>4, <1>6 DEF CatalogueInv, UnbornBare
  <2>2. \A t \in Types : typeOf'[t] \in Events => typeOf'[t] \in OnShelf'
    BY <1>4 DEF CatalogueInv, UnbornBare
  <2> QED BY <1>4, <2>1, <2>2, UnbornLeft
<1>8. EventsCountExact'
  BY <1>4 DEF CatalogueInv, EventsCountExact
<1>9. SalesSeen'
  BY <1>2, <1>3, <1>4, <1>6, SalesLeft
<1>10. FlyersApart'
  <2>1. stored <= stored'
    BY <1>4, CatalogueAssumption DEF CatalogueInv, CatalogueTypeOK
  <2> QED BY <1>3, <1>4, <1>5, <1>6, <2>1, ApartLeft
<1>11. FlyersFollow'
  <2> USE DEF CatalogueInv, FlyersApart, FlyersFollow
  <2>1. \A g \in Hands : Brings(hand[g]) => hand[g].new # hand[h].old \/ hand[g].new = 0
    BY <1>6
  <2>2. \A g \in Hands : Brings(hand'[g]) => hand'[g].new \in files' \cup {0}
    BY <1>2, <1>3, <1>6, <2>1
  <2>3. \A f, g \in Hands :
          Writer(hand'[f]) /\ Writer(hand'[g]) /\ hand'[f].event = hand'[g].event =>
            f = g \/ hand'[f].event \in torn'
    BY <1>2, <1>3, <1>4, <1>6
  <2>4. \A g \in Hands : Recalls(hand'[g]) /\ hand'[g].event \notin torn' =>
          hand'[g].old = flyer'[hand'[g].event]
    BY <1>3, <1>4, <1>6
  <2>5. ASSUME NEW d \in OnShelf' \ torn'
        PROVE  \/ flyer'[d] \in files' \cup {0}
               \/ \E g \in Hands : Writer(hand'[g]) /\ hand'[g].pc \in {"save", "unlist", "drop"}
                                     /\ hand'[g].event = d
    <3>1. CASE d = e
      BY <1>2, <1>3, <1>6, <3>1
    <3>2. CASE d # e
      <4>1. d \in Events /\ (hand[h].old # flyer[d] \/ flyer[d] = 0)
        BY <1>4, <1>6, <3>2 DEF OnShelf
      <4>2. \/ flyer[d] \in files \cup {0}
            \/ \E g \in Hands : Writer(hand[g]) /\ hand[g].pc \in {"save", "unlist", "drop"}
                                  /\ hand[g].event = d
        BY <1>4
      <4> QED BY <1>2, <1>3, <1>4, <3>2, <4>1, <4>2
    <3> QED BY <3>1, <3>2
  <2> QED BY <2>2, <2>3, <2>4, <2>5
<1>12. IndexFollows'
  <2>1. /\ blurred \subseteq blurred'
        /\ \A d \in index \ blurred' : d \in OnShelf =>
             d \in OnShelf' /\ (Shown(status[d]) => Shown(status'[d]) \/ (c.pc = "unlist" /\ c.event = d))
    BY <1>4
  <2> QED BY <1>2, <1>4, <1>6, <2>1, IndexAsIs
<1>13. TypesCounted'
  BY <1>3, <1>4, <1>6, TypesLeft
<1> QED BY <1>5, <1>7, <1>8, <1>9, <1>10, <1>11, <1>12, <1>13 DEF CatalogueInv

\* A row gets the file its request stored.
LEMMA FlyerSet ==
  ASSUME CatalogueInv, NEW h \in Hands, NEW c, Turn(h, c), NEW e \in Events,
         Brings(hand[h]), ~Brings(c), ~Recalls(c), ~Writer(c),
         flyer' = [flyer EXCEPT ![e] = hand[h].new],
         stored' = stored, files' = files, torn' = torn, OnShelf' \subseteq OnShelf \cup {e},
         Writer(hand[h]) => hand[h].event = e,
         \A g \in Hands \ {h} : Recalls(hand[g]) /\ hand[g].event = e => e \in torn
  PROVE  FlyersApart' /\ FlyersFollow'
<1> USE DEF CatalogueInv, FlyersApart, FlyersFollow
<1>1. \A g \in Hands : hand'[g] = IF g = h THEN c ELSE hand[g]
  BY TurnAt
<1>2. \A d \in Events : flyer'[d] = IF d = e THEN hand[h].new ELSE flyer[d]
  BY DEF CatalogueTypeOK
<1>3. \A g \in Hands : Recalls(hand'[g]) \/ Writer(hand'[g]) \/ Brings(hand'[g]) =>
        g # h /\ hand'[g] = hand[g]
  BY <1>1
<1>4. FlyersApart'
  <2>1. \A d \in Events : flyer'[d] <= stored'
    BY <1>2
  <2>2. \A g \in Hands : /\ Brings(hand'[g]) => hand'[g].new <= stored'
                         /\ Recalls(hand'[g]) => hand'[g].old <= stored'
    BY <1>3
  <2>3. \A d, x \in Events : d # x => flyer'[d] # flyer'[x] \/ flyer'[d] = 0
    BY <1>2
  <2>4. \A g \in Hands, d \in Events :
          /\ Brings(hand'[g]) => hand'[g].new # flyer'[d] \/ flyer'[d] = 0
          /\ Recalls(hand'[g]) /\ hand'[g].event # d => hand'[g].old # flyer'[d] \/ flyer'[d] = 0
    BY <1>2, <1>3
  <2>5. \A f, g \in Hands : Brings(hand'[f]) =>
          /\ Recalls(hand'[g]) => hand'[f].new # hand'[g].old \/ hand'[f].new = 0
          /\ Brings(hand'[g]) /\ f # g => hand'[f].new # hand'[g].new \/ hand'[f].new = 0
    BY <1>3
  <2> QED BY <2>1, <2>2, <2>3, <2>4, <2>5
<1>5. FlyersFollow'
  <2>1. \A g \in Hands : Brings(hand'[g]) => hand'[g].new \in files' \cup {0}
    BY <1>3
  <2>2. \A f, g \in Hands :
          Writer(hand'[f]) /\ Writer(hand'[g]) /\ hand'[f].event = hand'[g].event =>
            f = g \/ hand'[f].event \in torn'
    BY <1>3
  <2>3. ASSUME NEW g \in Hands, Recalls(hand'[g]), hand'[g].event \notin torn'
        PROVE  hand'[g].old = flyer'[hand'[g].event]
    <3>1. g # h /\ hand'[g] = hand[g] /\ hand[g].event # e
      BY <1>3, <2>3
    <3>2. hand[g] \in Task
      BY DEF CatalogueTypeOK
    <3>3. hand[g].event \in Events
      BY <2>3, <3>1, <3>2, TaskFields, Roles
    <3> QED BY <1>2, <2>3, <3>1, <3>3
  <2>4. ASSUME NEW d \in OnShelf' \ torn'
        PROVE  \/ flyer'[d] \in files' \cup {0}
               \/ \E g \in Hands : Writer(hand'[g]) /\ hand'[g].pc \in {"save", "unlist", "drop"}
                                     /\ hand'[g].event = d
    <3>1. CASE d = e
      BY <1>2, <3>1
    <3>2. CASE d # e
      <4>1. d \in Events /\ d \in OnShelf \ torn
        BY <3>2 DEF OnShelf
      <4>2. \/ flyer[d] \in files \cup {0}
            \/ \E g \in Hands \ {h} : Writer(hand[g]) /\ hand[g].pc \in {"save", "unlist", "drop"}
                                        /\ hand[g].event = d
        BY <3>2, <4>1
      <4> QED BY <1>1, <1>2, <3>2, <4>1, <4>2
    <3> QED BY <3>1, <3>2
  <2> QED BY <2>1, <2>2, <2>3, <2>4
<1> QED BY <1>4, <1>5

LEMMA SaveEventKeeps ==
  ASSUME CatalogueInv, NEW h \in Hands, NEW d \in {"kept", "past", "ahead"}, SaveEvent(h, d)
  PROVE  CatalogueInv'
<1> DEFINE e == hand[h].event
           c == [pc |-> "index", event |-> e, seen |-> status[e]]
<1>1. /\ hand[h] \in Task /\ hand[h].pc \in {"edit", "save"} /\ e \in OnShelf /\ Turn(h, c)
      /\ over' \subseteq over \cup {e}
      /\ flyer' = IF hand[h].pc = "save" THEN [flyer EXCEPT ![e] = hand[h].new] ELSE flyer
      /\ UNCHANGED <<status, eventsCount, files, stock, sales, index, suspended, stored, edits, notes>>
  BY DEF SaveEvent, In, CatalogueInv, CatalogueTypeOK
<1>2. e \in Events /\ status[e] \in EventStatus
  BY <1>1 DEF OnShelf, CatalogueInv, CatalogueTypeOK
<1>3. c \in Task /\ c.pc = "index" /\ c.event = e
  BY <1>2, KindsAreTasks DEF IndexOf
<1>4. /\ Writer(hand[h]) /\ hand[h].pc \notin {"unlist", "gather", "sweep"}
      /\ hand[h].pc = "save" => Brings(hand[h])
      /\ ~Brings(c) /\ ~Recalls(c) /\ ~Writer(c) /\ c.pc \notin TakingDown
  BY <1>1 DEF Writer, Brings, Recalls, TakingDown
<1> HIDE DEF c
<1>5. \A g \in Hands : hand'[g] = IF g = h THEN c ELSE hand[g]
  BY <1>1, TurnAt DEF CatalogueInv
<1>6. /\ typeOf' = typeOf /\ capped' = capped /\ bought' = bought /\ count' = count
      /\ pending' = pending /\ sold' = sold /\ ordered' = ordered /\ late' = late
      /\ overruled' = overruled /\ skewed' = skewed /\ blurred' = blurred /\ torn' = torn
      /\ OnShelf' = OnShelf
  BY <1>1 DEF stock, sales, notes, OnShelf
<1>7. CatalogueTypeOK'
  <2>1. hand' \in [Hands -> Task]
    BY <1>1, <1>3 DEF CatalogueInv, CatalogueTypeOK, Turn
  <2>2. hand[h].pc = "save" => hand[h].new \in 0..MaxFiles
    BY <1>1, <1>4, TaskFields
  <2>3. flyer' \in [Events -> 0..MaxFiles]
    BY <1>1, <2>2 DEF CatalogueInv, CatalogueTypeOK
  <2>4. over' \subseteq Events
    BY <1>1, <1>2 DEF CatalogueInv, CatalogueTypeOK
  <2> QED BY <1>1, <1>6, <2>1, <2>3, <2>4 DEF CatalogueInv, CatalogueTypeOK
<1>8. UnbornBare'
  <2>1. \A x \in Events : x # e => flyer'[x] = flyer[x]
    BY <1>1 DEF CatalogueInv, CatalogueTypeOK
  <2>2. status[e] # "none"
    BY <1>1 DEF OnShelf
  <2>3. \A t \in Types : typeOf'[t] \in Events => typeOf'[t] \in OnShelf'
    BY <1>6 DEF CatalogueInv, UnbornBare
  <2> QED BY <1>1, <1>3, <1>5, <1>6, <2>1, <2>2, <2>3, UnbornLeft
<1>9. EventsCountExact'
  BY <1>1, <1>6 DEF CatalogueInv, EventsCountExact
<1>10. SalesSeen'
  BY <1>1, <1>4, <1>5, <1>6, SalesLeft
<1>11. FlyersApart' /\ FlyersFollow'
  <2>1. CASE hand[h].pc = "save"
    <3>1. \A g \in Hands \ {h} : Recalls(hand[g]) /\ hand[g].event = e => e \in torn
      <4>1. \A g \in Hands : Recalls(hand[g]) => Writer(hand[g])
        BY DEF Recalls, Writer
      <4> QED BY <1>4, <4>1 DEF CatalogueInv, FlyersFollow
    <3>2. /\ flyer' = [flyer EXCEPT ![e] = hand[h].new] /\ stored' = stored /\ files' = files
          /\ torn' = torn /\ OnShelf' \subseteq OnShelf \cup {e}
      BY <1>1, <1>6, <2>1
    <3> QED BY <1>1, <1>2, <1>4, <2>1, <3>1, <3>2, FlyerSet
  <2>2. CASE hand[h].pc = "edit"
    <3>1. flyer' = flyer /\ stored <= stored' /\ files' = files
      BY <1>1, <2>2, CatalogueAssumption DEF CatalogueInv, CatalogueTypeOK
    <3>2. FlyersApart'
      BY <1>4, <1>5, <1>7, <3>1, ApartLeft
    <3>3. FlyersFollow'
      BY <1>4, <1>5, <1>6, <2>2, <3>1, FollowLeft DEF CatalogueInv
    <3> QED BY <3>2, <3>3
  <2> QED BY <1>1, <2>1, <2>2
<1>12. IndexFollows'
  <2>1. /\ blurred \subseteq blurred' /\ index' = index /\ suspended' = suspended
        /\ \A x \in index \ blurred' : x \in OnShelf =>
             x \in OnShelf' /\ (Shown(status[x]) => Shown(status'[x]) \/ (c.pc = "unlist" /\ c.event = x))
    BY <1>1, <1>6
  <2> QED BY <1>1, <1>4, <2>1, IndexAsIs
<1>13. TypesCounted'
  BY <1>3, <1>5, <1>6, TypesLeft
<1> QED BY <1>7, <1>8, <1>9, <1>10, <1>11, <1>12, <1>13 DEF CatalogueInv

\* A request sets the status of an event that is there.
LEMMA StatusSetKeeps ==
  ASSUME CatalogueInv, NEW h \in Hands, SetPublished(h) \/ SetDraft(h) \/ AdminSets(h)
  PROVE  CatalogueInv'
<1> DEFINE e == hand[h].event
<1>1. /\ hand[h] \in Task
      /\ hand[h].pc \in {"publish", "unpublish", "takeDown", "close"}
      /\ UNCHANGED <<over, flyer, eventsCount, files, stock, sales, index, suspended, stored,
                     edits, skewed, torn>>
  BY DEF SetPublished, SetDraft, AdminSets, SetStatus, In, notes, CatalogueInv, CatalogueTypeOK
<1>2. e \in Events
  BY <1>1, TaskFields DEF AtEvents
<1>3. PICK s \in {"draft", "published", "past"} :
        /\ SetStatus(e, s)
        /\ \/ s # "draft" /\ overruled' = overruled /\ blurred' = blurred
           \/ s = "draft" /\ hand[h].pc = "unpublish" /\ overruled' = overruled /\ blurred' = blurred
           \/ s = "draft" /\ overruled' = overruled \cup {e} /\ blurred' = blurred \cup {e}
  <2>1. CASE SetPublished(h)
    BY <2>1 DEF SetPublished, notes
  <2>2. CASE SetDraft(h)
    BY <2>2 DEF SetDraft, notes, In
  <2>3. CASE AdminSets(h)
    <3>1. CASE hand[h].pc = "close"
      BY <2>3, <3>1 DEF AdminSets, In, Marked
    <3>2. CASE hand[h].pc = "takeDown"
      BY <2>3, <3>2 DEF AdminSets, In, Marked
    <3> QED BY <2>3, <3>1, <3>2 DEF AdminSets
  <2> QED BY <2>1, <2>2, <2>3
<1>4. PICK c \in Task :
        /\ Turn(h, c)
        /\ \/ c.pc \in {"index", "rest"}
           \/ c.pc = "unlist" /\ ~c.drop /\ hand[h].pc = "unpublish"
        /\ c.pc # "rest" => c.event = e
        /\ hand[h].pc = "unpublish" => c.pc = "unlist"
  <2>1. CASE SetPublished(h)
    <3> DEFINE c == [pc |-> "index", event |-> e, seen |-> "published"]
    <3>1. c \in Task /\ c.pc = "index" /\ c.event = e
      BY <1>2, KindsAreTasks DEF IndexOf, EventStatus
    <3>2. Turn(h, c) /\ hand[h].pc = "publish"
      BY <2>1 DEF SetPublished, In
    <3> HIDE DEF c
    <3> QED BY <3>1, <3>2
  <2>2. CASE SetDraft(h)
    <3> DEFINE c == [pc |-> "unlist", event |-> e, drop |-> FALSE]
    <3>1. c \in Task /\ c.pc = "unlist" /\ c.event = e /\ ~c.drop
      BY <1>2, KindsAreTasks DEF UnlistOf
    <3>2. Turn(h, c) /\ hand[h].pc = "unpublish"
      BY <2>2 DEF SetDraft, In
    <3> HIDE DEF c
    <3> QED BY <3>1, <3>2
  <2>3. CASE AdminSets(h)
    <3>1. Rest \in Task /\ Rest.pc = "rest" /\ Turn(h, Rest) /\ hand[h].pc \in {"takeDown", "close"}
      BY <2>3, KindsAreTasks DEF AdminSets, Done, Rest
    <3> QED BY <3>1
  <2> QED BY <2>1, <2>2, <2>3
<1>5. \A g \in Hands : hand'[g] = IF g = h THEN c ELSE hand[g]
  BY <1>4, TurnAt DEF CatalogueInv
<1>6. /\ \A x \in Events : status'[x] = IF x = e THEN s ELSE status[x]
      /\ status' \in [Events -> EventStatus] /\ e \in OnShelf /\ OnShelf' = OnShelf
  <2>1. status \in [Events -> EventStatus] /\ status' = [status EXCEPT ![e] = s] /\ e \in OnShelf
    BY <1>3 DEF SetStatus, CatalogueInv, CatalogueTypeOK
  <2>2. \A x \in Events : status'[x] = IF x = e THEN s ELSE status[x]
    BY <2>1
  <2>3. status' \in [Events -> EventStatus]
    BY <2>1 DEF EventStatus
  <2>4. OnShelf' = OnShelf
    BY <2>1, <2>2 DEF OnShelf
  <2> QED BY <2>1, <2>2, <2>3, <2>4
<1>7. /\ typeOf' = typeOf /\ capped' = capped /\ bought' = bought /\ count' = count
      /\ pending' = pending /\ sold' = sold /\ ordered' = ordered /\ late' = late
      /\ over' = over /\ flyer' = flyer /\ eventsCount' = eventsCount /\ files' = files
      /\ index' = index /\ suspended' = suspended /\ stored' = stored /\ edits' = edits
      /\ skewed' = skewed /\ torn' = torn
  BY <1>1 DEF stock, sales
<1>8. /\ overruled \subseteq overruled' /\ overruled' \subseteq Events
      /\ blurred \subseteq blurred' /\ blurred' \subseteq Events
  BY <1>2, <1>3 DEF CatalogueInv, CatalogueTypeOK
<1>9. /\ ~Writer(hand[h]) /\ ~Writer(c) /\ ~Brings(c) /\ ~Recalls(c) /\ c.pc # "recount"
      /\ c.pc \in TakingDown => hand[h].pc \in TakingDown /\ c.event = e
      /\ c.pc \in AtEvents => c.event = e
      /\ hand[h].pc = "unpublish" => hand[h].pc \in TakingDown
      /\ hand[h].pc \notin {"unlist", "gather", "sweep", "save", "drop"}
  BY <1>1, <1>4 DEF Writer, Brings, Recalls, TakingDown, AtEvents
<1>10. CatalogueTypeOK'
  <2>1. hand' \in [Hands -> Task]
    BY <1>4 DEF CatalogueInv, CatalogueTypeOK, Turn
  <2> QED BY <1>6, <1>7, <1>8, <2>1 DEF CatalogueInv, CatalogueTypeOK
<1>11. UnbornBare'
  <2>1. \A t \in Types : typeOf'[t] \in Events => typeOf'[t] \in OnShelf'
    BY <1>6, <1>7 DEF CatalogueInv, UnbornBare
  <2>2. status'[e] # "none" /\ \A x \in Events : status'[x] = "none" => status[x] = "none"
    BY <1>2, <1>6
  <2>3. \A g \in Hands : hand'[g].pc \in AtEvents =>
          hand'[g] = hand[g] \/ status'[hand'[g].event] # "none"
    BY <1>5, <1>9, <2>2
  <2> QED BY <1>7, <2>1, <2>2, <2>3, UnbornLeft
<1>12. EventsCountExact'
  BY <1>6, <1>7 DEF CatalogueInv, EventsCountExact
<1>13. SalesSeen'
  <2>1. \A x \in Events : Shown(status[x]) =>
          Shown(status'[x]) \/ sold[x] = 0 \/ x \in late' \cup overruled'
    <3>1. hand[h].pc = "unpublish" => sold[e] = 0 \/ e \in late \cup overruled
      BY <1>9 DEF CatalogueInv, SalesSeen
    <3>2. Shown(s) \/ sold[e] = 0 \/ e \in late' \cup overruled'
      BY <1>3, <1>7, <1>8, <3>1 DEF Shown
    <3> QED BY <1>6, <3>2
  <2> QED BY <1>5, <1>6, <1>7, <1>8, <1>9, <2>1, SalesLeft
<1>14. FlyersApart'
  <2>1. stored <= stored'
    BY <1>7, CatalogueAssumption DEF CatalogueInv, CatalogueTypeOK
  <2> QED BY <1>5, <1>7, <1>9, <1>10, <2>1, ApartLeft
<1>15. FlyersFollow'
  BY <1>5, <1>6, <1>7, <1>9, FollowLeft
<1>16. IndexFollows'
  <2>1. \A x \in index \ blurred' : x \in OnShelf =>
          x \in OnShelf' /\ (Shown(status[x]) => Shown(status'[x]) \/ (c.pc = "unlist" /\ c.event = x))
    <3>1. Shown(s) \/ e \in blurred' \/ (c.pc = "unlist" /\ c.event = e)
      BY <1>3, <1>4 DEF Shown
    <3> QED BY <1>6, <3>1 DEF OnShelf
  <2> QED BY <1>4, <1>7, <1>8, <1>9, <2>1, IndexAsIs
<1>17. TypesCounted'
  BY <1>5, <1>6, <1>7, <1>9, TypesLeft
<1> QED BY <1>10, <1>11, <1>12, <1>13, <1>14, <1>15, <1>16, <1>17 DEF CatalogueInv

\* An event is born on the shelf, and nobody was at it.
LEMMA Born ==
  ASSUME CatalogueInv, NEW e \in Events, NEW f, NewEvent(e, f)
  PROVE  /\ EventsCountExact' /\ status' \in [Events -> EventStatus] /\ OnShelf' = OnShelf \cup {e}
         /\ status[e] = "none" /\ e \notin OnShelf
         /\ \A x \in Events : status'[x] = IF x = e THEN "draft" ELSE status[x]
         /\ count[e] = 0 /\ sold[e] = 0 /\ pending[e] = 0 /\ flyer[e] = 0
         /\ \A t \in Types : typeOf[t] # e
         /\ \A h \in Hands : hand[h].pc \in AtEvents => hand[h].event # e
         /\ e \notin index \ blurred
<1>1. /\ status \in [Events -> EventStatus] /\ eventsCount \in Int /\ status[e] = "none"
      /\ status' = [status EXCEPT ![e] = "draft"] /\ eventsCount' = eventsCount + 1
  BY DEF NewEvent, CatalogueInv, CatalogueTypeOK
<1>2. \A x \in Events : status'[x] = IF x = e THEN "draft" ELSE status[x]
  BY <1>1
<1>3. e \notin OnShelf /\ OnShelf' = OnShelf \cup {e}
  BY <1>1, <1>2 DEF OnShelf
<1>4. EventsCountExact'
  <2>1. IsFiniteSet(OnShelf)
    BY CatalogueAssumption, FS_Subset DEF OnShelf
  <2>2. Cardinality(OnShelf \cup {e}) = Cardinality(OnShelf) + 1
    BY <1>3, <2>1, FS_AddElement
  <2> QED BY <1>1, <1>3, <2>2 DEF EventsCountExact, CatalogueInv
<1>5. /\ count[e] = 0 /\ sold[e] = 0 /\ pending[e] = 0 /\ flyer[e] = 0
      /\ \A t \in Types : typeOf[t] # e
      /\ \A h \in Hands : hand[h].pc \in AtEvents => hand[h].event # e
  BY <1>1, <1>3 DEF CatalogueInv, UnbornBare
<1>6. e \notin index \ blurred
  BY <1>3 DEF CatalogueInv, IndexFollows
<1>7. status' \in [Events -> EventStatus]
  BY <1>1 DEF EventStatus
<1> QED BY <1>1, <1>2, <1>3, <1>4, <1>5, <1>6, <1>7

LEMMA CreateEventKeeps ==
  ASSUME CatalogueInv, NEW h \in Hands, NEW e \in Events, CreateEvent(h, e)
  PROVE  CatalogueInv'
<1> DEFINE c == [pc |-> "index", event |-> e, seen |-> "draft"]
<1>1. /\ hand[h] \in Task /\ hand[h].pc = "insert" /\ NewEvent(e, hand[h].new) /\ Turn(h, c)
      /\ UNCHANGED <<files, stock, sales, index, suspended, stored, edits, notes>>
  BY DEF CreateEvent, In, CatalogueInv, CatalogueTypeOK
<1>2. c \in Task /\ c.pc = "index" /\ c.event = e
  BY KindsAreTasks DEF IndexOf, EventStatus
<1>3. /\ Brings(hand[h]) /\ ~Writer(hand[h]) /\ ~Recalls(hand[h])
      /\ ~Brings(c) /\ ~Recalls(c) /\ ~Writer(c) /\ c.pc \notin TakingDown
  BY <1>1 DEF Writer, Brings, Recalls, TakingDown
<1> HIDE DEF c
<1>4. \A g \in Hands : hand'[g] = IF g = h THEN c ELSE hand[g]
  BY <1>1, TurnAt DEF CatalogueInv
<1>5. /\ typeOf' = typeOf /\ capped' = capped /\ bought' = bought /\ count' = count
      /\ pending' = pending /\ sold' = sold /\ ordered' = ordered /\ late' = late
      /\ index' = index /\ suspended' = suspended /\ stored' = stored /\ edits' = edits
      /\ overruled' = overruled /\ skewed' = skewed /\ blurred' = blurred /\ torn' = torn
      /\ over' = over /\ files' = files
      /\ flyer' = [flyer EXCEPT ![e] = hand[h].new] /\ eventsCount' = eventsCount + 1
  BY <1>1 DEF stock, sales, notes, NewEvent
<1>6. /\ EventsCountExact' /\ status' \in [Events -> EventStatus] /\ OnShelf' = OnShelf \cup {e}
      /\ status[e] = "none" /\ e \notin OnShelf
      /\ \A x \in Events : status'[x] = IF x = e THEN "draft" ELSE status[x]
      /\ \A g \in Hands : hand[g].pc \in AtEvents => hand[g].event # e
      /\ e \notin index \ blurred
  BY <1>1, Born
<1>7. CatalogueTypeOK'
  <2>1. hand' \in [Hands -> Task]
    BY <1>1, <1>2 DEF CatalogueInv, CatalogueTypeOK, Turn
  <2>2. hand[h].new \in 0..MaxFiles
    BY <1>1, <1>3, TaskFields
  <2>3. flyer' \in [Events -> 0..MaxFiles] /\ eventsCount' \in Int
    BY <1>5, <2>2 DEF CatalogueInv, CatalogueTypeOK
  <2> QED BY <1>5, <1>6, <2>1, <2>3 DEF CatalogueInv, CatalogueTypeOK
<1>8. UnbornBare'
  <2>1. \A x \in Events : x # e => flyer'[x] = flyer[x]
    BY <1>5 DEF CatalogueInv, CatalogueTypeOK
  <2>2. \A t \in Types : typeOf'[t] \in Events => typeOf'[t] \in OnShelf'
    BY <1>5, <1>6 DEF CatalogueInv, UnbornBare
  <2>3. \A x \in Events : status'[x] = "none" => x # e /\ status[x] = "none"
    BY <1>6
  <2>4. status'[e] # "none"
    BY <1>6
  <2> QED BY <1>2, <1>4, <1>5, <2>1, <2>2, <2>3, <2>4, UnbornLeft
<1>9. SalesSeen'
  <2>1. \A x \in Events : Shown(status[x]) =>
          Shown(status'[x]) \/ sold[x] = 0 \/ x \in late' \cup overruled'
    BY <1>6 DEF Shown
  <2> QED BY <1>3, <1>4, <1>5, <1>6, <2>1, SalesLeft
<1>10. FlyersApart' /\ FlyersFollow'
  <2>1. \A g \in Hands \ {h} : Recalls(hand[g]) /\ hand[g].event = e => e \in torn
    <3>1. \A g \in Hands : Recalls(hand[g]) => hand[g].pc \in AtEvents
      BY DEF Recalls, AtEvents
    <3> QED BY <1>6, <3>1
  <2> QED BY <1>1, <1>3, <1>5, <1>6, <2>1, FlyerSet
<1>11. IndexFollows'
  <2>1. \A x \in index \ blurred' : x \in OnShelf =>
          x \in OnShelf' /\ (Shown(status[x]) => Shown(status'[x]) \/ (c.pc = "unlist" /\ c.event = x))
    BY <1>6 DEF OnShelf
  <2>2. /\ hand[h].pc \notin {"unlist", "gather", "sweep"} /\ blurred \subseteq blurred'
        /\ index' = index /\ suspended' = suspended
    BY <1>1, <1>5
  <2> QED BY <1>1, <2>1, <2>2, IndexAsIs
<1>12. TypesCounted'
  BY <1>2, <1>4, <1>5, <1>6, TypesLeft
<1> QED BY <1>6, <1>7, <1>8, <1>9, <1>10, <1>11, <1>12 DEF CatalogueInv

\* A copy has the types it was given, which no request was adding.
LEMMA CloneKeeps ==
  ASSUME CatalogueInv, NEW h \in Hands, NEW e \in Events, NEW copies \in SUBSET Types,
         Clone(h, e, copies)
  PROVE  CatalogueInv'
<1>1. /\ hand[h].pc = "clone" /\ NewEvent(e, 0) /\ Turn(h, Rest) /\ copies \subseteq NewTypes
      /\ typeOf' = [t \in Types |-> IF t \in copies THEN e ELSE typeOf[t]]
      /\ count' = [count EXCEPT ![e] = Cardinality(copies)]
      /\ UNCHANGED <<files, capped, bought, sales, index, suspended, stored, edits, notes>>
  BY DEF Clone, Done, In
<1>2. Rest \in Task /\ Rest.pc = "rest" /\ ~Brings(Rest) /\ ~Recalls(Rest) /\ ~Writer(Rest)
  BY KindsAreTasks DEF Rest, Brings, Recalls, Writer
<1>3. ~Writer(hand[h]) /\ \A x : ~Hides(hand[h], x)
  BY <1>1 DEF Writer, Hides
<1>4. \A g \in Hands : hand'[g] = IF g = h THEN Rest ELSE hand[g]
  BY <1>1, TurnAt DEF CatalogueInv
<1>5. /\ EventsCountExact' /\ status' \in [Events -> EventStatus] /\ OnShelf' = OnShelf \cup {e}
      /\ status[e] = "none" /\ e \notin OnShelf
      /\ \A x \in Events : status'[x] = IF x = e THEN "draft" ELSE status[x]
      /\ flyer[e] = 0
      /\ \A t \in Types : typeOf[t] # e
      /\ \A g \in Hands : hand[g].pc \in AtEvents => hand[g].event # e
      /\ e \notin index \ blurred
  BY <1>1, Born
<1>6. /\ pending' = pending /\ sold' = sold /\ ordered' = ordered /\ late' = late
      /\ overruled' = overruled /\ skewed' = skewed /\ blurred' = blurred /\ torn' = torn
      /\ over' = over /\ eventsCount' = eventsCount + 1 /\ flyer' = flyer
  <2>1. flyer' = [flyer EXCEPT ![e] = 0] /\ flyer \in [Events -> 0..MaxFiles]
    BY <1>1 DEF NewEvent, CatalogueInv, CatalogueTypeOK
  <2>2. flyer' = flyer
    BY <1>5, <2>1
  <2> QED BY <1>1, <2>2 DEF sales, notes, NewEvent
<1>7. /\ IsFiniteSet(copies) /\ Cardinality(copies) \in Nat
  BY CatalogueAssumption, FS_Subset, FS_CardinalityType
<1>8. /\ \A x \in Events : count'[x] = IF x = e THEN Cardinality(copies) ELSE count[x]
      /\ \A t \in Types : typeOf'[t] = IF t \in copies THEN e ELSE typeOf[t]
  BY <1>1 DEF CatalogueInv, CatalogueTypeOK
<1>9. \A t \in copies : typeOf[t] = "none" /\ \A g \in Hands : hand[g].pc = "recount" => hand[g].type # t
  BY <1>1 DEF NewTypes, In
<1>10. CatalogueTypeOK'
  <2>1. hand' \in [Hands -> Task]
    BY <1>1, <1>2 DEF CatalogueInv, CatalogueTypeOK, Turn
  <2>2. typeOf' \in [Types -> Events \cup {"none", "deleted"}] /\ count' \in [Events -> Int]
    BY <1>1, <1>7 DEF CatalogueInv, CatalogueTypeOK
  <2>3. eventsCount' \in Int
    BY <1>6 DEF CatalogueInv, CatalogueTypeOK
  <2> QED BY <1>1, <1>5, <1>6, <2>1, <2>2, <2>3 DEF CatalogueInv, CatalogueTypeOK
<1>11. UnbornBare'
  <2>1. \A t \in Types : typeOf'[t] \in Events => typeOf'[t] \in OnShelf'
    BY <1>5, <1>8 DEF CatalogueInv, UnbornBare
  <2>2. \A x \in Events : status'[x] = "none" => x # e /\ status[x] = "none"
    BY <1>5
  <2>3. Rest.pc \notin AtEvents
    BY <1>2 DEF AtEvents
  <2> QED BY <1>4, <1>6, <1>8, <2>1, <2>2, <2>3, UnbornLeft
<1>12. SalesSeen'
  <2>1. \A x \in Events : Shown(status[x]) =>
          Shown(status'[x]) \/ sold[x] = 0 \/ x \in late' \cup overruled'
    BY <1>5 DEF Shown
  <2>2. Rest.pc \notin TakingDown
    BY <1>2 DEF TakingDown
  <2> QED BY <1>4, <1>5, <1>6, <2>1, <2>2, SalesLeft
<1>13. FlyersApart'
  <2>1. stored <= stored'
    BY <1>1, CatalogueAssumption DEF CatalogueInv, CatalogueTypeOK
  <2> QED BY <1>2, <1>4, <1>6, <1>10, <2>1, ApartLeft
<1>14. FlyersFollow'
  <2>1. files \subseteq files' /\ torn \subseteq torn' /\ \A x \in OnShelf' : x \in OnShelf \/ flyer[x] = 0
    BY <1>1, <1>5, <1>6
  <2> QED BY <1>2, <1>3, <1>4, <1>6, <2>1, FollowLeft
<1>15. IndexFollows'
  <2>1. \A x \in index \ blurred' : x \in OnShelf =>
          x \in OnShelf' /\ (Shown(status[x]) => Shown(status'[x]) \/ (Rest.pc = "unlist" /\ Rest.event = x))
    BY <1>5 DEF OnShelf
  <2>2. /\ hand[h].pc \notin {"unlist", "gather", "sweep"} /\ blurred \subseteq blurred'
        /\ index' = index /\ suspended' = suspended
    BY <1>1, <1>6
  <2> QED BY <1>1, <2>1, <2>2, IndexAsIs
<1>16. TypesCounted'
  <2>1. \A x \in Events : {t \in Types : typeOf'[t] = x} = IF x = e THEN copies ELSE TypesOf(x)
    <3>1. {t \in Types : typeOf'[t] = e} = copies
      BY <1>5, <1>8
    <3>2. ASSUME NEW x \in Events, x # e PROVE {t \in Types : typeOf'[t] = x} = TypesOf(x)
      BY <1>8, <1>9, <3>2, CatalogueAssumption DEF TypesOf
    <3> QED BY <3>1, <3>2
  <2> USE DEF CatalogueInv, TypesCounted, In
  <2>2. \A g \in Hands : hand'[g].pc = "recount" =>
          /\ hand'[g] = hand[g] /\ hand[g].event # e /\ hand[g].event \in Events
          /\ hand[g].type \in Types \ copies
    <3>1. \A g \in Hands : hand[g] \in Task
      BY DEF CatalogueTypeOK
    <3> QED BY <1>2, <1>4, <1>5, <1>9, <3>1, TaskFields DEF AtEvents
  <2>3. \A f, g \in Hands :
          hand'[f].pc = "recount" /\ hand'[g].pc = "recount" /\ f # g =>
            /\ hand'[f].event = hand'[g].event => hand'[f].event \in skewed'
            /\ hand'[f].op = "add" => hand'[f].type # hand'[g].type
    BY <1>6, <2>2
  <2>4. \A g \in Hands : hand'[g].pc = "recount" /\ hand'[g].op = "add" =>
          typeOf'[hand'[g].type] = "none"
    BY <1>8, <2>2
  <2>5. \A g \in Hands : hand'[g].pc = "recount" /\ hand'[g].event \in OnShelf' \ skewed' =>
          hand'[g].n = Cardinality({s \in Types : typeOf'[s] = hand'[g].event})
            + (IF hand'[g].op = "add" THEN 1 ELSE IF hand'[g].op = "delete" THEN -1 ELSE 0)
    <3>1. \A g \in Hands : hand'[g].pc = "recount" =>
            {s \in Types : typeOf'[s] = hand'[g].event} = TypesOf(hand[g].event)
      BY <2>1, <2>2
    <3>2. \A g \in Hands : hand'[g].pc = "recount" /\ hand'[g].event \in OnShelf' \ skewed' =>
            hand[g].event \in OnShelf \ skewed
      BY <1>5, <1>6, <2>2
    <3>3. \A g \in Hands : hand'[g].pc = "recount" => hand'[g] = hand[g]
      BY <2>2
    <3>4. \A g \in Hands : hand[g].pc = "recount" /\ hand[g].event \in OnShelf \ skewed =>
            hand[g].n = Cardinality(TypesOf(hand[g].event))
              + (IF hand[g].op = "add" THEN 1 ELSE IF hand[g].op = "delete" THEN -1 ELSE 0)
      OBVIOUS
    <3> HIDE DEF CatalogueInv, TypesCounted
    <3> QED BY <3>1, <3>2, <3>3, <3>4
  <2>6. AggregatesExplained'
    <3>1. \A x \in OnShelf' \ skewed' : x \in Events /\ (x = e \/ x \in OnShelf \ skewed)
      BY <1>5, <1>6 DEF OnShelf
    <3>2. ASSUME NEW x \in OnShelf' \ skewed'
          PROVE  count'[x] = Cardinality({s \in Types : typeOf'[s] = x})
      <4>1. CASE x = e
        BY <1>8, <2>1, <3>1, <4>1
      <4>2. CASE x # e
        <5>1. x \in Events /\ count[x] = Cardinality(TypesOf(x))
          BY <3>1, <4>2 DEF AggregatesExplained
        <5>2. {s \in Types : typeOf'[s] = x} = TypesOf(x)
          BY <2>1, <4>2, <5>1
        <5> QED BY <1>8, <4>2, <5>1, <5>2
      <4> QED BY <4>1, <4>2
    <3> QED BY <3>2 DEF AggregatesExplained, TypesOf
  <2> QED BY <2>3, <2>4, <2>5, <2>6 DEF TypesOf
<1> QED BY <1>5, <1>10, <1>11, <1>12, <1>13, <1>14, <1>15, <1>16 DEF CatalogueInv

LEMMA DropKeeps == ASSUME CatalogueInv, NEW h \in Hands, DropEvent(h) PROVE CatalogueInv'
<1> DEFINE e == hand[h].event
<1>1. /\ hand[h] \in Task /\ hand[h].pc = "drop" /\ e \in OnShelf /\ Turn(h, Rest)
      /\ status' = [status EXCEPT ![e] = "deleted"] /\ eventsCount' = eventsCount - 1
      /\ pending' = [pending EXCEPT ![e] = 0]
      /\ typeOf' = [t \in Types |-> IF typeOf[t] = e THEN "deleted" ELSE typeOf[t]]
      /\ blurred' = IF e \in index THEN blurred \cup {e} ELSE blurred
      /\ UNCHANGED <<over, flyer, files, capped, bought, count, sold, ordered, late, index,
                     suspended, stored, edits, overruled, skewed, torn>>
  BY DEF DropEvent, Done, In, Marked, CatalogueInv, CatalogueTypeOK
<1>2. Rest \in Task /\ Rest.pc = "rest" /\ ~Brings(Rest) /\ ~Recalls(Rest) /\ ~Writer(Rest)
  BY KindsAreTasks DEF Rest, Brings, Recalls, Writer
<1>3. e \in Events /\ e # "deleted" /\ e # "none" /\ Writer(hand[h])
  BY <1>1, CatalogueAssumption DEF OnShelf, Writer
<1>4. \A g \in Hands : hand'[g] = IF g = h THEN Rest ELSE hand[g]
  BY <1>1, TurnAt DEF CatalogueInv
<1>5. /\ \A x \in Events : status'[x] = IF x = e THEN "deleted" ELSE status[x]
      /\ \A x \in Events : pending'[x] = IF x = e THEN 0 ELSE pending[x]
      /\ \A t \in Types : typeOf'[t] = IF typeOf[t] = e THEN "deleted" ELSE typeOf[t]
  BY <1>1 DEF CatalogueInv, CatalogueTypeOK
<1>6. OnShelf' = OnShelf \ {e}
  BY <1>3, <1>5 DEF OnShelf
<1>7. CatalogueTypeOK'
  <2>1. hand' \in [Hands -> Task]
    BY <1>1, <1>2 DEF CatalogueInv, CatalogueTypeOK, Turn
  <2>2. status' \in [Events -> EventStatus] /\ pending' \in [Events -> Nat]
    BY <1>1 DEF CatalogueInv, CatalogueTypeOK, EventStatus
  <2>3. typeOf' \in [Types -> Events \cup {"none", "deleted"}]
    BY <1>1 DEF CatalogueInv, CatalogueTypeOK
  <2>4. eventsCount' \in Int /\ blurred' \subseteq Events
    BY <1>1, <1>3 DEF CatalogueInv, CatalogueTypeOK
  <2> QED BY <1>1, <2>1, <2>2, <2>3, <2>4 DEF CatalogueInv, CatalogueTypeOK
<1>8. UnbornBare'
  <2>1. \A t \in Types : typeOf'[t] \in Events => typeOf'[t] \in OnShelf'
    BY <1>5, <1>6, CatalogueAssumption DEF CatalogueInv, UnbornBare
  <2>2. \A x \in Events : status'[x] = "none" => x # e /\ status[x] = "none"
    BY <1>5
  <2>3. Rest.pc \notin AtEvents
    BY <1>2 DEF AtEvents
  <2> QED BY <1>1, <1>4, <1>5, <2>1, <2>2, <2>3, UnbornLeft
<1>9. EventsCountExact'
  <2>1. IsFiniteSet(OnShelf)
    BY CatalogueAssumption, FS_Subset DEF OnShelf
  <2>2. Cardinality(OnShelf \ {e}) = Cardinality(OnShelf) - 1
    BY <1>1, <2>1, FS_RemoveElement
  <2> QED BY <1>1, <1>6, <2>2 DEF EventsCountExact, CatalogueInv
<1>10. SalesSeen'
  <2>1. sold[e] = 0 \/ e \in late \cup overruled
    BY <1>1 DEF CatalogueInv, SalesSeen, TakingDown
  <2>2. \A x \in Events : Shown(status[x]) =>
          Shown(status'[x]) \/ sold[x] = 0 \/ x \in late' \cup overruled'
    BY <1>1, <1>5, <2>1
  <2>3. \A x \in Events : pending'[x] > 0 => pending[x] > 0 /\ (x \in OnShelf => x \in OnShelf')
    BY <1>5, <1>6
  <2>4. Rest.pc \notin TakingDown
    BY <1>2 DEF TakingDown
  <2> QED BY <1>1, <1>4, <2>2, <2>3, <2>4, SalesLeft
<1>11. FlyersApart'
  <2>1. stored <= stored'
    BY <1>1, CatalogueAssumption DEF CatalogueInv, CatalogueTypeOK
  <2> QED BY <1>1, <1>2, <1>4, <1>7, <2>1, ApartLeft
<1>12. FlyersFollow'
  <2>1. /\ files \subseteq files' /\ torn \subseteq torn' /\ e \notin OnShelf'
        /\ \A x \in OnShelf' : x \in OnShelf \/ flyer[x] = 0
    BY <1>1, <1>6
  <2> QED BY <1>1, <1>2, <1>4, <2>1, FollowLeft
<1>13. IndexFollows'
  <2>1. \A x \in index \ blurred' : x \in OnShelf =>
          x \in OnShelf' /\ (Shown(status[x]) => Shown(status'[x]) \/ (Rest.pc = "unlist" /\ Rest.event = x))
    BY <1>1, <1>5, <1>6 DEF OnShelf
  <2>2. /\ hand[h].pc \notin {"unlist", "gather", "sweep"} /\ blurred \subseteq blurred'
        /\ index' = index /\ suspended' = suspended
    BY <1>1
  <2> QED BY <1>1, <2>1, <2>2, IndexAsIs
<1>14. TypesCounted'
  <2>1. \A x \in Events : x # e => {t \in Types : typeOf'[t] = x} = TypesOf(x)
    BY <1>5, CatalogueAssumption DEF TypesOf
  <2> USE DEF CatalogueInv, TypesCounted, In
  <2>2. \A g \in Hands : hand'[g].pc = "recount" =>
          hand'[g] = hand[g] /\ hand[g].event \in Events /\ hand[g].type \in Types
    <3>1. \A g \in Hands : hand[g] \in Task
      BY DEF CatalogueTypeOK
    <3> QED BY <1>2, <1>4, <3>1, TaskFields DEF AtEvents
  <2>3. \A f, g \in Hands :
          hand'[f].pc = "recount" /\ hand'[g].pc = "recount" /\ f # g =>
            /\ hand'[f].event = hand'[g].event => hand'[f].event \in skewed'
            /\ hand'[f].op = "add" => hand'[f].type # hand'[g].type
    BY <1>1, <2>2
  <2>4. \A g \in Hands : hand'[g].pc = "recount" /\ hand'[g].op = "add" =>
          typeOf'[hand'[g].type] = "none"
    BY <1>3, <1>5, <2>2
  <2>5. ASSUME NEW g \in Hands, hand'[g].pc = "recount", hand'[g].event \in OnShelf' \ skewed'
        PROVE  hand'[g].n = Cardinality({s \in Types : typeOf'[s] = hand'[g].event})
            + (IF hand'[g].op = "add" THEN 1 ELSE IF hand'[g].op = "delete" THEN -1 ELSE 0)
    <3>1. /\ hand'[g] = hand[g] /\ hand[g].event \in OnShelf \ skewed
          /\ {s \in Types : typeOf'[s] = hand'[g].event} = TypesOf(hand[g].event)
      <4>1. hand'[g] = hand[g]
        BY <2>2, <2>5
      <4>2. hand'[g].event \in OnShelf' /\ hand'[g].event \notin skewed'
        BY <2>5
      <4>3. hand[g].event \in OnShelf /\ hand[g].event # e /\ hand[g].event \notin skewed
        BY <1>1, <1>6, <4>1, <4>2
      <4>4. hand[g].event \in Events
        BY <2>2, <2>5
      <4> QED BY <2>1, <4>1, <4>3, <4>4
    <3>2. hand[g].n = Cardinality(TypesOf(hand[g].event))
              + (IF hand[g].op = "add" THEN 1 ELSE IF hand[g].op = "delete" THEN -1 ELSE 0)
      BY <2>5, <3>1
    <3> QED BY <3>1, <3>2
  <2>6. AggregatesExplained'
    <3>1. ASSUME NEW x \in OnShelf' \ skewed'
          PROVE  count'[x] = Cardinality({s \in Types : typeOf'[s] = x})
      <4>1. x \in Events /\ x # e /\ count[x] = Cardinality(TypesOf(x))
        BY <1>1, <1>6 DEF AggregatesExplained, OnShelf
      <4>2. {s \in Types : typeOf'[s] = x} = TypesOf(x)
        BY <2>1, <4>1
      <4> QED BY <1>1, <4>1, <4>2
    <3> QED BY <3>1 DEF AggregatesExplained, TypesOf
  <2> QED BY <2>3, <2>4, <2>5, <2>6 DEF TypesOf
<1> QED BY <1>7, <1>8, <1>9, <1>10, <1>11, <1>12, <1>13, <1>14 DEF CatalogueInv

\* What a request counted, its own type counted in or out, is what there is.
LEMMA CommitKeeps ==
  ASSUME CatalogueInv, NEW h \in Hands, NEW cap \in BOOLEAN, CommitTypes(h, cap)
  PROVE  CatalogueInv'
<1> DEFINE e == hand[h].event
           t == hand[h].type
           op == hand[h].op
<1>1. /\ hand[h] \in Task /\ hand[h].pc = "recount" /\ e \in OnShelf /\ Turn(h, Rest)
      /\ op # "add" => typeOf[t] = e
      /\ typeOf' = IF op = "edit" THEN typeOf
                   ELSE [typeOf EXCEPT ![t] = IF op = "add" THEN e ELSE "deleted"]
      /\ capped' = IF cap THEN capped \cup {t} ELSE capped \ {t}
      /\ count' = [count EXCEPT ![e] = hand[h].n]
      /\ UNCHANGED <<shelf, files, bought, sales, index, suspended, stored, edits, notes>>
  BY DEF CommitTypes, Done, Recount, In, CatalogueInv, CatalogueTypeOK
<1>2. Rest \in Task /\ Rest.pc = "rest" /\ ~Brings(Rest) /\ ~Recalls(Rest) /\ ~Writer(Rest)
  BY KindsAreTasks DEF Rest, Brings, Recalls, Writer
<1>3. /\ e \in Events /\ e # "deleted" /\ e # "none" /\ ~Writer(hand[h])
      /\ t \in Types /\ op \in {"add", "edit", "delete"} /\ hand[h].n \in Int
  <2>1. t \in Types /\ op \in {"add", "edit", "delete"} /\ hand[h].n \in Int
    BY <1>1, TaskFields
  <2> QED BY <1>1, <2>1, CatalogueAssumption DEF OnShelf, Writer
<1>4. \A g \in Hands : hand'[g] = IF g = h THEN Rest ELSE hand[g]
  BY <1>1, TurnAt DEF CatalogueInv
<1>5. op = "add" => typeOf[t] = "none"
  BY <1>1 DEF CatalogueInv, TypesCounted, In
<1>6. /\ \A s \in Types : typeOf'[s] = IF s = t /\ op = "add" THEN e
                                       ELSE IF s = t /\ op = "delete" THEN "deleted" ELSE typeOf[s]
      /\ \A x \in Events : count'[x] = IF x = e THEN hand[h].n ELSE count[x]
  BY <1>1, <1>3 DEF CatalogueInv, CatalogueTypeOK
<1>7. /\ status' = status /\ over' = over /\ flyer' = flyer /\ eventsCount' = eventsCount
      /\ pending' = pending /\ sold' = sold /\ ordered' = ordered /\ late' = late
      /\ overruled' = overruled /\ skewed' = skewed /\ blurred' = blurred /\ torn' = torn
      /\ OnShelf' = OnShelf
  BY <1>1 DEF shelf, sales, notes, OnShelf
<1>8. CatalogueTypeOK'
  <2>1. hand' \in [Hands -> Task]
    BY <1>1, <1>2 DEF CatalogueInv, CatalogueTypeOK, Turn
  <2>2. typeOf' \in [Types -> Events \cup {"none", "deleted"}]
    BY <1>1, <1>3 DEF CatalogueInv, CatalogueTypeOK
  <2>3. count' \in [Events -> Int] /\ capped' \subseteq Types
    BY <1>1, <1>3 DEF CatalogueInv, CatalogueTypeOK
  <2> QED BY <1>1, <1>7, <2>1, <2>2, <2>3 DEF CatalogueInv, CatalogueTypeOK
<1>9. UnbornBare'
  <2>1. \A s \in Types : typeOf'[s] \in Events => typeOf'[s] \in OnShelf'
    BY <1>1, <1>6, <1>7, CatalogueAssumption DEF CatalogueInv, UnbornBare
  <2>2. \A x \in Events : status[x] = "none" => x # e
    BY <1>1 DEF OnShelf
  <2>3. Rest.pc \notin AtEvents
    BY <1>2 DEF AtEvents
  <2> QED BY <1>4, <1>6, <1>7, <2>1, <2>2, <2>3, UnbornLeft
<1>10. EventsCountExact'
  BY <1>7 DEF CatalogueInv, EventsCountExact
<1>11. SalesSeen'
  <2>1. Rest.pc \notin TakingDown
    BY <1>2 DEF TakingDown
  <2> QED BY <1>4, <1>7, <2>1, SalesLeft
<1>12. FlyersApart'
  <2>1. stored <= stored'
    BY <1>1, CatalogueAssumption DEF CatalogueInv, CatalogueTypeOK
  <2> QED BY <1>2, <1>4, <1>7, <1>8, <2>1, ApartLeft
<1>13. FlyersFollow'
  <2>1. files \subseteq files'
    BY <1>1
  <2> QED BY <1>2, <1>3, <1>4, <1>7, <2>1, FollowLeft
<1>14. IndexFollows'
  <2>1. \A x \in index \ blurred' : x \in OnShelf =>
          x \in OnShelf' /\ (Shown(status[x]) => Shown(status'[x]) \/ (Rest.pc = "unlist" /\ Rest.event = x))
    BY <1>7
  <2>2. /\ hand[h].pc \notin {"unlist", "gather", "sweep"} /\ blurred \subseteq blurred'
        /\ index' = index /\ suspended' = suspended
    BY <1>1, <1>7
  <2> QED BY <1>1, <2>1, <2>2, IndexAsIs
<1>15. TypesCounted'
  <2>1. \A x \in Events : x # e => {s \in Types : typeOf'[s] = x} = TypesOf(x)
    BY <1>1, <1>5, <1>6, CatalogueAssumption DEF TypesOf
  <2>2. {s \in Types : typeOf'[s] = e} =
          IF op = "add" THEN TypesOf(e) \cup {t}
          ELSE IF op = "delete" THEN TypesOf(e) \ {t} ELSE TypesOf(e)
    BY <1>3, <1>6 DEF TypesOf
  <2>3. Cardinality({s \in Types : typeOf'[s] = e}) = Cardinality(TypesOf(e))
          + (IF op = "add" THEN 1 ELSE IF op = "delete" THEN -1 ELSE 0)
    <3>1. IsFiniteSet(TypesOf(e)) /\ Cardinality(TypesOf(e)) \in Nat
      BY TypesFinite
    <3>2. CASE op = "add"
      <4>1. t \notin TypesOf(e)
        BY <1>3, <1>5, <3>2 DEF TypesOf
      <4>2. Cardinality(TypesOf(e) \cup {t}) = Cardinality(TypesOf(e)) + 1
        BY <3>1, <4>1, FS_AddElement
      <4> QED BY <2>2, <3>2, <4>2
    <3>3. CASE op = "delete"
      <4>1. t \in TypesOf(e)
        BY <1>1, <1>3, <3>3 DEF TypesOf
      <4>2. Cardinality(TypesOf(e) \ {t}) = Cardinality(TypesOf(e)) - 1
        BY <3>1, <4>1, FS_RemoveElement
      <4> QED BY <2>2, <3>1, <3>3, <4>2
    <3>4. CASE op = "edit"
      BY <2>2, <3>1, <3>4
    <3> QED BY <1>3, <3>2, <3>3, <3>4
  <2> USE DEF CatalogueInv, TypesCounted, In
  <2>4. \A g \in Hands : hand'[g].pc = "recount" =>
          /\ g # h /\ hand'[g] = hand[g] /\ hand[g].event \in Events /\ hand[g].type \in Types
          /\ hand[g].event = e => e \in skewed
          /\ hand[g].op = "add" => hand[g].type # t
    <3>1. \A g \in Hands : hand[g] \in Task
      BY DEF CatalogueTypeOK
    <3> QED BY <1>1, <1>2, <1>4, <3>1, TaskFields DEF AtEvents
  <2>5. \A f, g \in Hands :
          hand'[f].pc = "recount" /\ hand'[g].pc = "recount" /\ f # g =>
            /\ hand'[f].event = hand'[g].event => hand'[f].event \in skewed'
            /\ hand'[f].op = "add" => hand'[f].type # hand'[g].type
    BY <1>7, <2>4
  <2>6. \A g \in Hands : hand'[g].pc = "recount" /\ hand'[g].op = "add" =>
          typeOf'[hand'[g].type] = "none"
    BY <1>6, <2>4
  <2>7. ASSUME NEW g \in Hands, hand'[g].pc = "recount", hand'[g].event \in OnShelf' \ skewed'
        PROVE  hand'[g].n = Cardinality({s \in Types : typeOf'[s] = hand'[g].event})
            + (IF hand'[g].op = "add" THEN 1 ELSE IF hand'[g].op = "delete" THEN -1 ELSE 0)
    <3>1. /\ hand'[g] = hand[g] /\ hand[g].event \in OnShelf \ skewed
          /\ {s \in Types : typeOf'[s] = hand'[g].event} = TypesOf(hand[g].event)
      BY <1>7, <2>1, <2>4, <2>7
    <3>2. hand[g].n = Cardinality(TypesOf(hand[g].event))
              + (IF hand[g].op = "add" THEN 1 ELSE IF hand[g].op = "delete" THEN -1 ELSE 0)
      BY <2>7, <3>1
    <3> QED BY <3>1, <3>2
  <2>8. AggregatesExplained'
    <3>1. ASSUME NEW x \in OnShelf' \ skewed'
          PROVE  count'[x] = Cardinality({s \in Types : typeOf'[s] = x})
      <4>1. x \in Events /\ x \in OnShelf \ skewed
        BY <1>7 DEF OnShelf
      <4>2. CASE x = e
        <5>1. hand[h].n = Cardinality(TypesOf(e))
                + (IF op = "add" THEN 1 ELSE IF op = "delete" THEN -1 ELSE 0)
          BY <1>1, <4>1, <4>2
        <5> QED BY <1>6, <2>3, <4>1, <4>2, <5>1
      <4>3. CASE x # e
        <5>1. count[x] = Cardinality(TypesOf(x))
          BY <4>1 DEF AggregatesExplained
        <5> QED BY <1>6, <2>1, <4>1, <4>3, <5>1
      <4> QED BY <4>2, <4>3
    <3> QED BY <3>1 DEF AggregatesExplained, TypesOf
  <2> QED BY <2>5, <2>6, <2>7, <2>8 DEF TypesOf
<1> QED BY <1>8, <1>9, <1>10, <1>11, <1>12, <1>13, <1>14, <1>15 DEF CatalogueInv

\* Buyers, payments and time turn no request.
LEMMA OutsideKeeps ==
  ASSUME CatalogueInv, CatalogueTypeOK', OnShelf' = OnShelf, SalesSeen',
         UNCHANGED <<flyer, eventsCount, files, typeOf, count, index, suspended, hand, stored, notes>>,
         \A e \in Events : /\ status'[e] = "none" <=> status[e] = "none"
                           /\ Shown(status[e]) => Shown(status'[e])
                           /\ status[e] = "none" => sold'[e] = sold[e] /\ pending'[e] = pending[e]
  PROVE  CatalogueInv'
<1>1. overruled' = overruled /\ skewed' = skewed /\ blurred' = blurred /\ torn' = torn
  BY DEF notes
<1>2. UnbornBare'
  <2>1. \A t \in Types : typeOf'[t] \in Events => typeOf'[t] \in OnShelf'
    BY DEF CatalogueInv, UnbornBare
  <2> QED BY <2>1, UnbornLeft
<1>3. EventsCountExact'
  BY DEF CatalogueInv, EventsCountExact
<1>4. FlyersApart'
  <2>1. stored <= stored'
    BY CatalogueAssumption DEF CatalogueInv, CatalogueTypeOK
  <2> QED BY <2>1, ApartLeft
<1>5. FlyersFollow'
  BY <1>1 DEF CatalogueInv, FlyersFollow
<1>6. IndexFollows'
  <2>1. \A e \in index : e \in Events
    BY DEF CatalogueInv, CatalogueTypeOK
  <2> QED BY <1>1, <2>1, IndexLeft
<1>7. TypesCounted'
  BY <1>1, TypesLeft
<1> QED BY <1>2, <1>3, <1>4, <1>5, <1>6, <1>7 DEF CatalogueInv

LEMMA OrdersAndTime ==
  ASSUME CatalogueInv,
         \/ \E t \in Types : PlaceOrder(t)
         \/ \E e \in Events : Fulfill(e) \/ End(e)
         \/ MarkPastEvents
  PROVE  CatalogueInv'
<1> USE DEF CatalogueInv
<1>1. ASSUME NEW t \in Types, PlaceOrder(t) PROVE CatalogueInv'
  <2> DEFINE e == typeOf[t]
  <2>1. /\ e \in Events /\ ordered < MaxOrders /\ status[e] = "published"
        /\ ordered' = ordered + 1 /\ bought' = bought \cup {t}
        /\ pending' = [pending EXCEPT ![e] = @ + 1]
        /\ UNCHANGED <<shelf, files, typeOf, capped, count, sold, late, index, suspended, hand,
                       stored, edits, notes>>
    BY <1>1 DEF PlaceOrder
  <2>2. /\ status' = status /\ over' = over /\ flyer' = flyer /\ eventsCount' = eventsCount
        /\ overruled' = overruled /\ skewed' = skewed /\ blurred' = blurred /\ torn' = torn
        /\ OnShelf' = OnShelf /\ e \in OnShelf
    BY <2>1 DEF shelf, notes, OnShelf
  <2>3. CatalogueTypeOK'
    <3>1. pending' \in [Events -> Nat]
      BY <2>1 DEF CatalogueTypeOK
    <3>2. ordered' \in 0..MaxOrders /\ bought' \subseteq Types
      BY <2>1, CatalogueAssumption DEF CatalogueTypeOK
    <3> QED BY <2>1, <2>2, <3>1, <3>2 DEF CatalogueTypeOK
  <2>4. SalesSeen'
    <3>1. \A x \in Events : x # e => pending'[x] = pending[x]
      BY <2>1 DEF CatalogueTypeOK
    <3> QED BY <2>1, <2>2, <3>1 DEF SalesSeen, SoldStaysUp
  <2>5. \A x \in Events : status[x] = "none" => sold'[x] = sold[x] /\ pending'[x] = pending[x]
    BY <2>1 DEF CatalogueTypeOK
  <2> HIDE DEF CatalogueInv
  <2> QED BY <2>1, <2>2, <2>3, <2>4, <2>5, OutsideKeeps
<1>2. ASSUME NEW e \in Events, Fulfill(e) PROVE CatalogueInv'
  <2>1. /\ pending[e] > 0 /\ pending' = [pending EXCEPT ![e] = @ - 1]
        /\ sold' = [sold EXCEPT ![e] = @ + 1]
        /\ late' = Marked(late, e, \/ status[e] = "draft"
                                   \/ \E h \in Hands : hand[h].pc \in TakingDown /\ hand[h].event = e)
        /\ UNCHANGED <<shelf, files, stock, ordered, index, suspended, hand, stored, edits, notes>>
    BY <1>2 DEF Fulfill
  <2>2. /\ status' = status /\ over' = over /\ flyer' = flyer /\ eventsCount' = eventsCount
        /\ typeOf' = typeOf /\ capped' = capped /\ bought' = bought /\ count' = count
        /\ overruled' = overruled /\ skewed' = skewed /\ blurred' = blurred /\ torn' = torn
        /\ OnShelf' = OnShelf /\ e \in OnShelf
    BY <2>1 DEF shelf, stock, notes, OnShelf, SalesSeen
  <2>3. /\ \A x \in Events : /\ pending'[x] = IF x = e THEN pending[e] - 1 ELSE pending[x]
                             /\ sold'[x] = IF x = e THEN sold[e] + 1 ELSE sold[x]
        /\ pending[e] \in Nat /\ late \subseteq late' /\ late' \subseteq late \cup {e}
    BY <2>1 DEF CatalogueTypeOK, Marked
  <2>4. CatalogueTypeOK'
    <3>1. sold' \in [Events -> Nat]
      BY <2>1 DEF CatalogueTypeOK
    <3>2. pending' \in [Events -> Nat]
      BY <2>1 DEF CatalogueTypeOK
    <3>3. late' \subseteq Events
      BY <2>3 DEF CatalogueTypeOK
    <3> QED BY <2>1, <2>2, <3>1, <3>2, <3>3 DEF CatalogueTypeOK
  <2>5. SalesSeen'
    <3>1. \A x \in Events : pending'[x] > 0 => x \in OnShelf'
      BY <2>2, <2>3 DEF SalesSeen
    <3>2. ASSUME NEW h \in Hands, hand'[h].pc \in TakingDown
          PROVE  sold'[hand'[h].event] = 0 \/ hand'[h].event \in late' \cup overruled'
      <4>1. hand[h].event \in Events /\ hand'[h] = hand[h]
        <5>1. hand[h] \in Task /\ hand'[h] = hand[h]
          BY <2>1 DEF CatalogueTypeOK
        <5> QED BY <3>2, <5>1, TaskFields, Roles
      <4>2. CASE hand[h].event = e
        BY <2>1, <3>2, <4>1, <4>2 DEF Marked
      <4>3. CASE hand[h].event # e
        BY <2>2, <2>3, <3>2, <4>1, <4>3 DEF SalesSeen
      <4> QED BY <4>2, <4>3
    <3>3. SoldStaysUp'
      <4>1. e \in late' \/ Shown(status[e])
        BY <2>1, <2>2 DEF Marked, OnShelf, Shown
      <4> QED BY <2>2, <2>3, <4>1 DEF SalesSeen, SoldStaysUp, Shown
    <3> QED BY <3>1, <3>2, <3>3 DEF SalesSeen
  <2>6. \A x \in Events : status[x] = "none" => sold'[x] = sold[x] /\ pending'[x] = pending[x]
    BY <2>2, <2>3 DEF OnShelf
  <2> HIDE DEF CatalogueInv
  <2> QED BY <2>1, <2>2, <2>4, <2>5, <2>6, OutsideKeeps
<1>3. ASSUME NEW e \in Events, End(e) PROVE CatalogueInv'
  <2>1. /\ over' = over \cup {e}
        /\ UNCHANGED <<status, flyer, eventsCount, files, stock, sales, index, suspended, hand,
                       stored, edits, notes>>
    BY <1>3 DEF End
  <2>2. /\ typeOf' = typeOf /\ capped' = capped /\ bought' = bought /\ count' = count
        /\ pending' = pending /\ sold' = sold /\ ordered' = ordered /\ late' = late
        /\ overruled' = overruled /\ skewed' = skewed /\ blurred' = blurred /\ torn' = torn
        /\ OnShelf' = OnShelf
    BY <2>1 DEF stock, sales, notes, OnShelf
  <2>3. CatalogueTypeOK'
    BY <2>1, <2>2 DEF CatalogueTypeOK
  <2>4. SalesSeen'
    BY <2>1, <2>2 DEF SalesSeen, SoldStaysUp
  <2> HIDE DEF CatalogueInv
  <2> QED BY <2>1, <2>2, <2>3, <2>4, OutsideKeeps
<1>4. CASE MarkPastEvents
  <2>1. /\ status' = [e \in Events |-> IF status[e] = "published" /\ e \in over THEN "past"
                                       ELSE status[e]]
        /\ UNCHANGED <<over, flyer, eventsCount, files, stock, sales, index, suspended, hand, stored,
                       edits, notes>>
    BY <1>4 DEF MarkPastEvents
  <2>2. \A e \in Events : status'[e] = status[e] \/ (status[e] = "published" /\ status'[e] = "past")
    BY <2>1
  <2>3. /\ typeOf' = typeOf /\ capped' = capped /\ bought' = bought /\ count' = count
        /\ pending' = pending /\ sold' = sold /\ ordered' = ordered /\ late' = late
        /\ overruled' = overruled /\ skewed' = skewed /\ blurred' = blurred /\ torn' = torn
        /\ OnShelf' = OnShelf
    BY <2>1, <2>2 DEF stock, sales, notes, OnShelf
  <2>4. CatalogueTypeOK'
    <3>1. status' \in [Events -> EventStatus]
      BY <2>1 DEF CatalogueTypeOK, EventStatus
    <3> QED BY <2>1, <2>3, <3>1 DEF CatalogueTypeOK
  <2>5. SalesSeen'
    BY <2>1, <2>2, <2>3 DEF SalesSeen, SoldStaysUp
  <2>6. \A e \in Events : /\ status'[e] = "none" <=> status[e] = "none"
                          /\ Shown(status[e]) => Shown(status'[e])
    BY <2>2 DEF Shown
  <2> HIDE DEF CatalogueInv
  <2> QED BY <2>1, <2>3, <2>4, <2>5, <2>6, OutsideKeeps
<1> QED BY <1>1, <1>2, <1>3, <1>4

LEMMA CatalogueStep == CatalogueInv /\ [CatalogueNext]_catalogueVars => CatalogueInv'
<1> SUFFICES ASSUME CatalogueInv, [CatalogueNext]_catalogueVars PROVE CatalogueInv'
  OBVIOUS
<1>1. CASE EventsController
  BY <1>1, StoresKeep, SaveEventKeeps, CreateEventKeeps, LoadsKeep, StatusAskedKeeps, CloneKeeps,
     DeletesKeep, DropKeeps, StatusSetKeeps, WritesKeep, HidingKeeps DEF EventsController
<1>2. CASE TicketsController
  BY <1>2, BeginTypesKeeps, CommitKeeps DEF TicketsController
<1>3. CASE AdminEventsController
  BY <1>3, StatusAskedKeeps, LoadsKeep, StatusSetKeeps DEF AdminEventsController
<1>4. CASE OrganisationModeration
  BY <1>4, HidingKeeps, WritesKeep, ReindexKeeps DEF OrganisationModeration
<1>5. CASE \/ \E t \in Types : PlaceOrder(t)
           \/ \E e \in Events : Fulfill(e) \/ End(e)
           \/ MarkPastEvents
  BY <1>5, OrdersAndTime
<1>6. CASE \E h \in Hands : Halt(h)
  BY <1>6, HaltKeeps
<1>7. CASE UNCHANGED catalogueVars
  <2>1. /\ UNCHANGED <<shelf, files, stock, sales, index, suspended, hand, stored, edits, notes>>
    BY <1>7 DEF catalogueVars
  <2>2. /\ status' = status /\ over' = over /\ flyer' = flyer /\ eventsCount' = eventsCount
        /\ typeOf' = typeOf /\ capped' = capped /\ bought' = bought /\ count' = count
        /\ pending' = pending /\ sold' = sold /\ ordered' = ordered /\ late' = late
        /\ overruled' = overruled /\ skewed' = skewed /\ blurred' = blurred /\ torn' = torn
        /\ OnShelf' = OnShelf
    BY <2>1 DEF shelf, stock, sales, notes, OnShelf
  <2>3. CatalogueTypeOK'
    BY <2>1, <2>2 DEF CatalogueInv, CatalogueTypeOK
  <2>4. SalesSeen'
    BY <2>1, <2>2 DEF CatalogueInv, SalesSeen, SoldStaysUp
  <2> QED BY <2>1, <2>2, <2>3, <2>4, OutsideKeeps
<1> QED BY <1>1, <1>2, <1>3, <1>4, <1>5, <1>6, <1>7 DEF CatalogueNext

LEMMA CatalogueInitInv == CatalogueInit => CatalogueInv
<1> SUFFICES ASSUME CatalogueInit PROVE CatalogueInv
  OBVIOUS
<1> USE DEF CatalogueInit
<1>1. OnShelf = {} /\ Cardinality({}) = 0
  BY FS_EmptySet DEF OnShelf
<1>2. \A h \in Hands : hand[h] = Rest /\ Rest.pc = "rest"
  BY DEF Rest
<1>3. Rest \in Task
  BY KindsAreTasks
<1>4. CatalogueTypeOK
  <2>1. status \in [Events -> EventStatus] /\ over \subseteq Events
    BY DEF EventStatus
  <2>2. /\ flyer \in [Events -> 0..MaxFiles] /\ files \subseteq 1..MaxFiles
        /\ stored \in 0..MaxFiles /\ edits \in 0..MaxEdits /\ ordered \in 0..MaxOrders
    BY CatalogueAssumption
  <2>3. hand \in [Hands -> Task]
    BY <1>3
  <2>4. /\ typeOf \in [Types -> Events \cup {"none", "deleted"}]
        /\ count \in [Events -> Int] /\ pending \in [Events -> Nat] /\ sold \in [Events -> Nat]
    OBVIOUS
  <2>5. /\ capped \subseteq Types /\ bought \subseteq Types /\ eventsCount \in Int
        /\ index \subseteq Events
        /\ late \subseteq Events /\ overruled \subseteq Events /\ skewed \subseteq Events
        /\ blurred \subseteq Events /\ torn \subseteq Events
    OBVIOUS
  <2>6. suspended \in BOOLEAN
    OBVIOUS
  <2> HIDE DEF CatalogueInit
  <2> QED BY <2>1, <2>2, <2>3, <2>4, <2>5, <2>6 DEF CatalogueTypeOK
<1>5. /\ \A h \in Hands : /\ hand[h].pc \notin AtEvents /\ hand[h].pc \notin TakingDown
                          /\ hand[h].pc # "recount"
                          /\ ~Brings(hand[h]) /\ ~Recalls(hand[h]) /\ ~Writer(hand[h])
  BY <1>2 DEF AtEvents, TakingDown, Brings, Recalls, Writer
<1>6. UnbornBare
  BY <1>5, CatalogueAssumption DEF UnbornBare
<1>7. EventsCountExact
  BY <1>1 DEF EventsCountExact
<1>8. TypesCounted
  BY <1>1, <1>5 DEF TypesCounted, AggregatesExplained, In
<1>9. SalesSeen
  BY <1>5 DEF SalesSeen, SoldStaysUp
<1>10. FlyersApart
  BY <1>5 DEF FlyersApart
<1>11. FlyersFollow
  BY <1>1, <1>5 DEF FlyersFollow
<1>12. IndexFollows
  BY DEF IndexFollows
<1> HIDE DEF CatalogueInit
<1> QED BY <1>4, <1>6, <1>7, <1>8, <1>9, <1>10, <1>11, <1>12 DEF CatalogueInv

LEMMA CatalogueInvShows == CatalogueInv => CatalogueTypeOK /\ CatalogueExplained
<1> SUFFICES ASSUME CatalogueInv PROVE CatalogueExplained
  BY DEF CatalogueInv
<1>1. IndexExplained
  BY DEF CatalogueInv, IndexFollows, IndexExplained, Hides, In
<1>2. FlyerStored
  BY DEF CatalogueInv, FlyersFollow, FlyerStored
<1> QED BY <1>1, <1>2 DEF CatalogueInv, TypesCounted, SalesSeen, CatalogueExplained, DerivedExplained

\* What is derived from an event's row or stored beside it agrees with it, and
\* an event with sales stays up, however the requests of the organiser, the
\* admins, the buyers and the index interleave or end, but in the cases the
\* properties name.
THEOREM CatalogueAlwaysExplained ==
  CatalogueSpec => [](CatalogueTypeOK /\ CatalogueExplained)
<1>1. CatalogueInit => CatalogueInv
  BY CatalogueInitInv
<1>2. CatalogueInv /\ [CatalogueNext]_catalogueVars => CatalogueInv'
  BY CatalogueStep
<1>3. CatalogueInv => CatalogueTypeOK /\ CatalogueExplained
  BY CatalogueInvShows
<1> QED BY <1>1, <1>2, <1>3, PTL DEF CatalogueSpec

----------------------------------------------------------------------------
(* Gallery *)

\* A request that holds a file of its own, one that holds a row's, and one
\* that is at a row.
New(c) == c.pc \in {"place", "create", "show"}
Old(c) == c.pc \in {"unlink", "renew", "erase", "store"}
OnRow(c) == c.pc \in {"unlink", "renew", "erase", "store", "show"}
AtRowOf == [pc : {"unlink", "renew", "erase", "store"}, row : Pictures, file : Nat]

RowsInOrder ==
  /\ IsFiniteSet(DOMAIN pictures)
  /\ \A p \in DOMAIN pictures : pictures[p] \in [file : Nat, sort : Nat]
  /\ \A q \in Curators : OnRow(curator[q]) => curator[q].row \in pasts

\* Files are numbered; a new one is stored, and one of a row that was deleted
\* never comes back.
FilesNumbered ==
  \A q \in Curators :
    /\ New(curator[q]) \/ Old(curator[q]) => curator[q].file <= photoNo
    /\ New(curator[q]) => curator[q].file \in photos \cup {0}
    /\ curator[q].pc = "show" => curator[q].file # 0
    /\ curator[q].pc \in {"erase", "store"} => curator[q].file \notin photos

\* No file is two rows' or two requests', nor a row's and another request's.
FilesApart ==
  /\ \A p, r \in DOMAIN pictures :
       p # r => pictures[p].file # pictures[r].file \/ pictures[p].file = 0
  /\ \A q \in Curators, p \in DOMAIN pictures :
       /\ New(curator[q]) => pictures[p].file # curator[q].file \/ pictures[p].file = 0
       /\ Old(curator[q]) /\ curator[q].row # p
            => pictures[p].file # curator[q].file \/ pictures[p].file = 0
  /\ \A q, s \in Curators :
       New(curator[q]) /\ (Old(curator[s]) \/ (New(curator[s]) /\ q # s))
         => curator[q].file # curator[s].file \/ curator[q].file = 0

\* Two requests at a row trouble it; the only one finds what it loaded.
OneAtRow ==
  \A q, s \in Curators :
    OnRow(curator[q]) /\ OnRow(curator[s]) /\ curator[q].row = curator[s].row
      => q = s \/ curator[q].row \in troubled
RowAsFound ==
  \A q \in Curators : OnRow(curator[q]) /\ curator[q].row \notin troubled =>
    /\ curator[q].row \in DOMAIN pictures
    /\ Old(curator[q]) => pictures[curator[q].row].file = curator[q].file
    /\ curator[q].pc = "show" => pictures[curator[q].row].file \notin photos

\* What a row shows is stored unless a request got past deleting it; what is
\* stored is shown or about to be.
Drops(c, p) == c.pc \in {"erase", "store", "show"} /\ c.row = p
PhotosHeld ==
  \A p \in DOMAIN pictures \ troubled :
    (\E q \in Curators : Drops(curator[q], p)) \/ pictures[p].file \in photos \cup {0}
NoneLost ==
  \A f \in photos :
    \/ f \in spilt
    \/ \E q \in Curators : New(curator[q]) /\ curator[q].file = f
    \/ \E p \in DOMAIN pictures : pictures[p].file = f

\* One place is given at a time, after those of all rows.
NextApart ==
  crossed \/
    /\ \A q, s \in Curators : Curates(q, "create") /\ Curates(s, "create") => q = s
    /\ \A q \in Curators, p \in DOMAIN pictures :
         Curates(q, "create") => pictures[p].sort < curator[q].sort

GalleryInv ==
  /\ GalleryTypeOK /\ RowsInOrder /\ FilesNumbered /\ FilesApart /\ OneAtRow /\ RowAsFound
  /\ PhotosHeld /\ NoneLost /\ NextApart /\ PlacesDistinct

LEMMA CurationKinds ==
  ASSUME NEW c \in Curation
  PROVE  /\ c.pc = "free" => c = Absent
         /\ c.pc = "place" => c \in [pc : {"place"}, file : Nat]
         /\ c.pc = "create" => c \in [pc : {"create"}, file : Nat, sort : Nat]
         /\ Old(c) => c \in AtRowOf
         /\ c.pc = "show" => c \in [pc : {"show"}, row : Pictures, file : Nat]
<1>1. c \in {Absent} \cup [pc : {"put"}] \cup [pc : {"place"}, file : Nat]
           \cup [pc : {"create"}, file : Nat, sort : Nat] \cup AtRowOf
           \cup [pc : {"show"}, row : Pictures, file : Nat]
  BY DEF Curation, AtRowOf
<1>2. CASE c = Absent
  BY <1>2 DEF Absent, Old
<1>3. CASE c \in [pc : {"put"}]
  BY <1>3 DEF Old
<1>4. CASE c \in [pc : {"place"}, file : Nat]
  BY <1>4 DEF Old
<1>5. CASE c \in [pc : {"create"}, file : Nat, sort : Nat]
  BY <1>5 DEF Old
<1>6. CASE c \in AtRowOf
  BY <1>6 DEF AtRowOf
<1>7. CASE c \in [pc : {"show"}, row : Pictures, file : Nat]
  BY <1>7 DEF Old
<1> QED BY <1>1, <1>2, <1>3, <1>4, <1>5, <1>6, <1>7

LEMMA KindsAreCurations ==
  /\ Absent \in Curation /\ [pc : {"put"}] \subseteq Curation
  /\ [pc : {"place"}, file : Nat] \subseteq Curation
  /\ [pc : {"create"}, file : Nat, sort : Nat] \subseteq Curation
  /\ AtRowOf \subseteq Curation /\ [pc : {"show"}, row : Pictures, file : Nat] \subseteq Curation
  BY DEF Curation, AtRowOf

LEMMA CurationFields ==
  ASSUME NEW c \in Curation
  PROVE  /\ New(c) \/ Old(c) => c.file \in Nat
         /\ OnRow(c) => c.row \in Pictures
         /\ c.pc = "create" => c.sort \in Nat
<1>1. CASE Old(c)
  <2>1. c \in AtRowOf
    BY <1>1, CurationKinds
  <2> QED BY <1>1, <2>1 DEF AtRowOf, Old, New, OnRow
<1>2. CASE c.pc = "place"
  BY <1>2, CurationKinds DEF OnRow
<1>3. CASE c.pc = "create"
  BY <1>3, CurationKinds DEF OnRow
<1>4. CASE c.pc = "show"
  BY <1>4, CurationKinds
<1>5. New(c) \/ Old(c) \/ OnRow(c) \/ c.pc = "create"
        => Old(c) \/ c.pc = "place" \/ c.pc = "create" \/ c.pc = "show"
  BY DEF New, Old, OnRow
<1> QED BY <1>1, <1>2, <1>3, <1>4, <1>5

LEMMA ThenAt ==
  ASSUME GalleryTypeOK, NEW q \in Curators, NEW c, Then(q, c)
  PROVE  \A s \in Curators : curator'[s] = IF s = q THEN c ELSE curator[s]
  BY DEF GalleryTypeOK, Then

\* Among finitely many rows one has the last place.
LEMMA LastPlace ==
  ASSUME NEW D, IsFiniteSet(D), NEW f \in [D -> Nat]
  PROVE  LET m == Max({0} \cup {f[p] : p \in D})
         IN  m \in Nat /\ \A p \in D : f[p] <= m
<1> DEFINE Places(U) == {0} \cup {f[p] : p \in U}
           Bounded(U) == \E m \in Places(U) : \A y \in Places(U) : m >= y
           A == {U \in SUBSET D : Bounded(U)}
<1>1. ASSUME NEW U \in SUBSET D, \A V \in SUBSET U : V # U => V \in A PROVE U \in A
  <2>1. CASE U = {}
    BY <2>1
  <2>2. CASE U # {}
    <3>1. PICK p \in U : TRUE
      BY <2>2
    <3>2. U \ {p} \in A
      BY <1>1, <3>1
    <3>3. PICK m \in Places(U \ {p}) : \A y \in Places(U \ {p}) : m >= y
      BY <3>2
    <3>4. Places(U) = Places(U \ {p}) \cup {f[p]}
      BY <3>1
    <3>5. m \in Nat /\ f[p] \in Nat /\ \A y \in Places(U \ {p}) : y \in Nat
      BY <3>1, <3>3
    <3>6. CASE f[p] <= m
      BY <3>3, <3>4, <3>5, <3>6
    <3>7. CASE m < f[p]
      <4>1. f[p] \in Places(U) /\ \A y \in Places(U) : f[p] >= y
        BY <3>3, <3>4, <3>5, <3>7
      <4> QED BY <4>1
    <3> QED BY <3>5, <3>6, <3>7
  <2> QED BY <2>1, <2>2
<1>2. A = SUBSET D
  <2>1. A \in SUBSET SUBSET D
    OBVIOUS
  <2> HIDE DEF A
  <2> QED BY <1>1, <2>1, SubsetInduction
<1>3. PICK m \in Places(D) : \A y \in Places(D) : m >= y
  BY <1>2
<1>4. LET n == Max(Places(D)) IN n \in Places(D) /\ \A y \in Places(D) : n >= y
  BY <1>3 DEF Max
<1> QED BY <1>4

\* A request that adds no row: places are given as before.
LEMMA PlacesLeft ==
  ASSUME GalleryInv, NEW q \in Curators, NEW c, Then(q, c), c.pc # "create", crossed => crossed',
         DOMAIN pictures' \subseteq DOMAIN pictures,
         \A p \in DOMAIN pictures' : pictures'[p].sort = pictures[p].sort
  PROVE  NextApart' /\ PlacesDistinct'
<1> USE DEF GalleryInv
<1>1. \A s \in Curators : curator'[s] = IF s = q THEN c ELSE curator[s]
  BY ThenAt
<1>2. \A s \in Curators : Curates(s, "create")' => Curates(s, "create") /\ curator'[s] = curator[s]
  BY <1>1 DEF Curates
<1>3. NextApart'
  BY <1>2 DEF NextApart
<1>4. PlacesDistinct'
  BY DEF PlacesDistinct
<1> QED BY <1>3, <1>4

\* A request that leaves rows and files alone.
LEMMA RowsLeft ==
  ASSUME GalleryInv, NEW q \in Curators, NEW c \in Curation, Then(q, c),
         UNCHANGED <<rowVars, pasts, photoNo>>, curations' \in 0..MaxCurations,
         crossed' \in BOOLEAN, NextApart', PlacesDistinct',
         troubled \subseteq troubled', troubled' \subseteq Pictures,
         spilt \subseteq spilt', spilt' \subseteq 1..photoNo,
         New(c) => c.file = 0 \/ (New(curator[q]) /\ c.file = curator[q].file),
         New(curator[q]) => \/ New(c) /\ c.file = curator[q].file
                            \/ curator[q].file \in spilt' \cup {0},
         OnRow(c) =>
           /\ c.pc \in {"unlink", "renew"} /\ c.row \in DOMAIN pictures
           /\ c.file = pictures[c.row].file
           /\ c.row \in troubled' \/ \A s \in Curators \ {q} : OnRow(curator[s]) => curator[s].row # c.row,
         curator[q].pc \in {"erase", "store", "show"} =>
           \/ curator[q].row \in troubled'
           \/ curator[q].pc = "store" /\ curator[q].file = 0
  PROVE  GalleryInv'
<1> USE DEF GalleryInv
<1>1. /\ \A s \in Curators : curator'[s] = IF s = q THEN c ELSE curator[s]
      /\ album' = album /\ pictures' = pictures /\ photos' = photos /\ pasts' = pasts
      /\ photoNo' = photoNo
  BY ThenAt DEF rowVars
<1>2. GalleryTypeOK'
  BY <1>1 DEF GalleryTypeOK, Then
<1>3. \A p \in DOMAIN pictures : /\ pictures[p].file \in Nat /\ pictures[p].file <= photoNo
                                 /\ p \in pasts
  BY DEF GalleryTypeOK
<1>4. photoNo \in Nat /\ photos \subseteq 1..photoNo
  BY DEF GalleryTypeOK
<1>5. Old(c) => OnRow(c)
  BY DEF Old, OnRow
<1>6. RowsInOrder'
  BY <1>1, <1>3 DEF RowsInOrder
<1>7. FilesNumbered'
  <2>1. /\ New(c) \/ Old(c) => c.file <= photoNo
        /\ New(c) => c.file \in photos \cup {0}
        /\ c.pc \notin {"erase", "store", "show"}
    BY <1>3, <1>4, <1>5 DEF FilesNumbered, OnRow
  <2> QED BY <1>1, <2>1 DEF FilesNumbered
<1>8. FilesApart'
  <2>1. ASSUME NEW p \in DOMAIN pictures
        PROVE  /\ New(c) => pictures[p].file # c.file \/ pictures[p].file = 0
               /\ Old(c) /\ c.row # p => pictures[p].file # c.file \/ pictures[p].file = 0
    BY <1>5 DEF FilesApart
  <2>2. ASSUME NEW s \in Curators \ {q}
        PROVE  /\ New(c) /\ (Old(curator[s]) \/ New(curator[s]))
                    => c.file # curator[s].file \/ c.file = 0
               /\ New(curator[s]) /\ (Old(c) \/ New(c))
                    => curator[s].file # c.file \/ curator[s].file = 0
    BY <1>5 DEF FilesApart
  <2>3. ~(New(c) /\ Old(c))
    BY DEF New, Old
  <2> QED BY <1>1, <2>1, <2>2, <2>3 DEF FilesApart
<1>9. OneAtRow'
  BY <1>1 DEF OneAtRow
<1>10. RowAsFound'
  BY <1>1, <1>5 DEF RowAsFound
<1>11. PhotosHeld'
  <2> SUFFICES ASSUME NEW p \in DOMAIN pictures \ troubled',
                      \A s \in Curators : ~Drops(curator'[s], p)
               PROVE  pictures[p].file \in photos \cup {0}
    BY <1>1 DEF PhotosHeld
  <2>1. CASE \E s \in Curators : Drops(curator[s], p)
    <3>1. Drops(curator[q], p)
      BY <1>1, <2>1
    <3>2. curator[q].pc = "store" /\ curator[q].file = 0 /\ curator[q].row = p
      BY <3>1 DEF Drops
    <3>3. OnRow(curator[q]) /\ Old(curator[q])
      BY <3>2 DEF OnRow, Old
    <3> QED BY <3>2, <3>3 DEF RowAsFound
  <2>2. CASE ~\E s \in Curators : Drops(curator[s], p)
    BY <2>2 DEF PhotosHeld
  <2> QED BY <2>1, <2>2
<1>12. NoneLost'
  <2> SUFFICES ASSUME NEW f \in photos, f \notin spilt', \A p \in DOMAIN pictures : pictures[p].file # f
               PROVE  \E s \in Curators : New(curator'[s]) /\ curator'[s].file = f
    BY <1>1 DEF NoneLost
  <2>1. PICK s \in Curators : New(curator[s]) /\ curator[s].file = f
    BY DEF NoneLost
  <2>2. f # 0
    BY <1>4
  <2> QED BY <1>1, <2>1, <2>2
<1> QED BY <1>2, <1>6, <1>7, <1>8, <1>9, <1>10, <1>11, <1>12

LEMMA AskKeeps ==
  ASSUME GalleryInv, NEW q \in Curators,
         \/ AskAdd(q)
         \/ \E p \in Pictures : AskRemove(q, p) \/ AskRenew(q, p)
  PROVE  GalleryInv'
<1> USE GalleryAssumption DEF GalleryInv
<1>1. /\ Curates(q, "free") /\ ~New(curator[q]) /\ curations' \in 0..MaxCurations
      /\ curator[q].pc \notin {"erase", "store", "show"}
      /\ UNCHANGED <<rowVars, pasts, photoNo, spilt, crossed>>
      /\ troubled \subseteq troubled'
      /\ troubled' \subseteq Pictures
      /\ crossed' \in BOOLEAN /\ spilt' \subseteq 1..photoNo
  <2>1. CASE AskAdd(q)
    BY <2>1 DEF AskAdd, Another, Curates, New, GalleryTypeOK
  <2>2. ASSUME NEW p \in Pictures, AskRemove(q, p) \/ AskRenew(q, p)
        PROVE  /\ Curates(q, "free") /\ Another
               /\ UNCHANGED <<rowVars, pasts, photoNo, spilt, crossed>>
               /\ troubled' = IF AtRow(p) = {} THEN troubled ELSE troubled \cup {p}
    BY <2>2 DEF AskRemove, AskRenew, LoadRow
  <2>3. CASE \E p \in Pictures : AskRemove(q, p) \/ AskRenew(q, p)
    BY <2>2, <2>3 DEF Another, Curates, New, GalleryTypeOK
  <2> QED BY <2>1, <2>3
<1>2. ASSUME NEW c \in Curation, Then(q, c), c.pc # "create"
      PROVE  NextApart' /\ PlacesDistinct'
  BY <1>1, <1>2, PlacesLeft DEF rowVars
<1>3. CASE AskAdd(q)
  <2>1. PICK c \in {[pc |-> "put"], [pc |-> "place", file |-> 0]} : Then(q, c)
    BY <1>3 DEF AskAdd
  <2>2. c \in Curation /\ c.pc # "create" /\ ~OnRow(c) /\ (New(c) => c.file = 0)
    BY <2>1, KindsAreCurations DEF OnRow, New
  <2> QED BY <1>1, <1>2, <2>1, <2>2, RowsLeft
<1>4. ASSUME NEW p \in Pictures, AskRemove(q, p) \/ AskRenew(q, p)
      PROVE  GalleryInv'
  <2>1. PICK pc \in {"unlink", "renew"} : Then(q, [pc |-> pc, row |-> p, file |-> pictures[p].file])
    BY <1>4 DEF AskRemove, AskRenew, LoadRow
  <2>2. /\ p \in DOMAIN pictures
        /\ troubled' = IF AtRow(p) = {} THEN troubled ELSE troubled \cup {p}
    BY <1>4 DEF AskRemove, AskRenew, LoadRow
  <2> DEFINE c == [pc |-> pc, row |-> p, file |-> pictures[p].file]
  <2>3. pictures[p].file \in Nat
    BY <2>2 DEF GalleryTypeOK
  <2>4. /\ c \in AtRowOf /\ c.pc \in {"unlink", "renew"} /\ c.row = p /\ c.file = pictures[p].file
        /\ Then(q, c)
    BY <2>1, <2>3 DEF AtRowOf
  <2> HIDE DEF c
  <2>5. c \in Curation /\ c.pc # "create" /\ ~New(c)
    BY <2>4, KindsAreCurations DEF New
  <2>6. p \in troubled' \/ \A s \in Curators \ {q} : OnRow(curator[s]) => curator[s].row # p
    BY <2>2 DEF AtRow, OnRow
  <2> QED BY <1>1, <1>2, <2>2, <2>4, <2>5, <2>6, RowsLeft
<1> QED BY <1>3, <1>4

LEMMA CutKeeps ==
  ASSUME GalleryInv, NEW q \in Curators, RefuseRenewal(q) \/ CuratorCrash(q)
  PROVE  GalleryInv'
<1> USE GalleryAssumption DEF GalleryInv
<1> DEFINE c == curator[q]
<1>1. c \in Curation /\ (New(c) \/ Old(c) => c.file \in Nat) /\ (OnRow(c) => c.row \in Pictures)
  BY CurationFields DEF GalleryTypeOK
<1>2. /\ Then(q, Absent) /\ curations' \in 0..MaxCurations
      /\ UNCHANGED <<rowVars, pasts, photoNo, crossed>>
  BY DEF RefuseRenewal, CuratorCrash, Another, GalleryTypeOK
<1>3. Absent \in Curation /\ Absent.pc # "create" /\ ~New(Absent) /\ ~OnRow(Absent)
  BY KindsAreCurations DEF Absent, New, OnRow
<1>4. /\ troubled \subseteq troubled' /\ troubled' \subseteq Pictures
      /\ c.pc \in {"erase", "store", "show"} =>
           c.row \in troubled' \/ (c.pc = "store" /\ c.file = 0)
  BY <1>1 DEF RefuseRenewal, CuratorCrash, Curates, OnRow, GalleryTypeOK
<1>5. /\ spilt \subseteq spilt'
      /\ New(c) => c.file \in spilt' \cup {0}
      /\ spilt' \subseteq 1..photoNo
  <2>1. CASE RefuseRenewal(q)
    BY <2>1 DEF RefuseRenewal, Curates, New, GalleryTypeOK
  <2>2. CASE CuratorCrash(q)
    <3>1. spilt' = IF New(c) /\ c.file # 0 THEN spilt \cup {c.file} ELSE spilt
      BY <2>2 DEF CuratorCrash, New
    <3>2. New(c) => c.file \in photos \cup {0}
      BY DEF FilesNumbered
    <3>3. photos \subseteq 1..photoNo /\ spilt \subseteq 1..photoNo
      BY DEF GalleryTypeOK
    <3>4. CASE New(c) /\ c.file # 0
      <4>1. c.file \in photos /\ spilt' = spilt \cup {c.file}
        BY <3>1, <3>2, <3>4
      <4> QED BY <1>2, <3>3, <4>1 DEF rowVars
    <3>5. CASE ~(New(c) /\ c.file # 0)
      <4>1. spilt' = spilt
        BY <3>1, <3>5
      <4> QED BY <1>2, <3>3, <3>5, <4>1 DEF rowVars
    <3> QED BY <3>4, <3>5
  <2> QED BY <2>1, <2>2
<1> HIDE DEF c
<1>6. NextApart' /\ PlacesDistinct' /\ crossed' \in BOOLEAN
  <2>1. pictures' = pictures /\ crossed' = crossed /\ crossed \in BOOLEAN
    BY <1>2 DEF rowVars, GalleryTypeOK
  <2> QED BY <1>2, <1>3, <2>1, PlacesLeft
<1>7. New(curator[q]) => \/ New(Absent) /\ Absent.file = curator[q].file
                         \/ curator[q].file \in spilt' \cup {0}
  BY <1>5 DEF c
<1>8. curator[q].pc \in {"erase", "store", "show"} =>
           \/ curator[q].row \in troubled'
           \/ curator[q].pc = "store" /\ curator[q].file = 0
  BY <1>4 DEF c
<1>9. /\ spilt \subseteq spilt' /\ spilt' \subseteq 1..photoNo
      /\ troubled \subseteq troubled' /\ troubled' \subseteq Pictures
  BY <1>4, <1>5
<1>10. /\ UNCHANGED <<rowVars, pasts, photoNo>> /\ curations' \in 0..MaxCurations
       /\ Then(q, Absent)
  BY <1>2
<1> QED BY <1>3, <1>6, <1>7, <1>8, <1>9, <1>10, RowsLeft

\* The place read is after those of all rows.
LEMMA ReadPlaceKeeps ==
  ASSUME GalleryInv, NEW q \in Curators, ReadPlace(q)
  PROVE  GalleryInv'
<1> USE GalleryAssumption DEF GalleryInv
<1> DEFINE f == curator[q].file
           n == NextPlace
           c == [pc |-> "create", file |-> f, sort |-> n]
<1>1. n \in Nat /\ \A p \in DOMAIN pictures : pictures[p].sort < n
  <2> DEFINE D == DOMAIN pictures
             g == [p \in D |-> pictures[p].sort]
  <2>1. \A p \in D : pictures[p].sort \in Nat
    BY DEF GalleryTypeOK
  <2>2. g \in [D -> Nat] /\ IsFiniteSet(D)
    BY <2>1 DEF RowsInOrder
  <2>3. \A p \in D : g[p] = pictures[p].sort
    OBVIOUS
  <2>4. {0} \cup {g[p] : p \in D} = {0} \cup {pictures[p].sort : p \in D}
    BY <2>3
  <2> HIDE DEF g
  <2> DEFINE m == Max({0} \cup {g[p] : p \in D})
  <2>5. m \in Nat /\ \A p \in D : g[p] <= m
    BY <2>2, LastPlace
  <2>6. n = m + 1
    BY <2>4 DEF NextPlace
  <2> HIDE DEF m, n
  <2> QED BY <2>1, <2>3, <2>5, <2>6
<1>2. /\ curator[q] \in Curation /\ f \in Nat /\ New(curator[q])
      /\ curator[q].pc \notin {"erase", "store", "show"}
  <2>1. curator[q] \in Curation /\ curator[q].pc = "place"
    BY DEF GalleryTypeOK, ReadPlace, Curates
  <2> QED BY <2>1, CurationFields DEF New
<1>3. /\ Then(q, c) /\ UNCHANGED <<rowVars, curations, pasts, photoNo, troubled, spilt>>
      /\ crossed' = (crossed \/ \E r \in Curators \ {q} : Curates(r, "create"))
  BY DEF ReadPlace
<1> HIDE DEF n
<1>4. c \in [pc : {"create"}, file : Nat, sort : Nat] /\ c.sort = n /\ c.file = f /\ c.pc = "create"
  BY <1>1, <1>2
<1> HIDE DEF c
<1>5. c \in Curation /\ New(c) /\ ~OnRow(c)
  BY <1>4, KindsAreCurations DEF New, OnRow
<1>6. \A s \in Curators : curator'[s] = IF s = q THEN c ELSE curator[s]
  BY <1>3, ThenAt
<1>7. NextApart'
  <2> SUFFICES ASSUME ~crossed' PROVE NextApart'
    BY DEF NextApart
  <2>1. ~crossed /\ \A r \in Curators \ {q} : ~Curates(r, "create")
    BY <1>3
  <2> QED BY <1>1, <1>3, <1>4, <1>6, <2>1 DEF NextApart, Curates, rowVars
<1>8. PlacesDistinct' /\ crossed' \in BOOLEAN
  BY <1>3 DEF PlacesDistinct, rowVars
<1> QED BY <1>2, <1>3, <1>4, <1>5, <1>7, <1>8, RowsLeft DEF GalleryTypeOK

\* A file is stored for a row to come or a row that is there.
LEMMA StoreKeeps ==
  ASSUME GalleryInv, NEW q \in Curators, PutPhoto(q) \/ RenewPhoto(q)
  PROVE  GalleryInv'
<1> USE GalleryAssumption DEF GalleryInv
<1> DEFINE n == photoNo + 1
           o == curator[q]
<1>1. PICK c \in Curation :
        /\ Then(q, c) /\ New(c) /\ ~Old(c) /\ c.pc # "create" /\ c.file = n
        /\ \/ ~OnRow(c) /\ o.pc = "put"
           \/ c.pc = "show" /\ OnRow(c) /\ o.pc = "store" /\ c.row = o.row
  <2>1. CASE PutPhoto(q)
    <3> DEFINE c == [pc |-> "place", file |-> n]
    <3>1. Then(q, c) /\ o.pc = "put"
      BY <2>1 DEF PutPhoto, Curates
    <3>2. c \in [pc : {"place"}, file : Nat] /\ c.pc = "place" /\ c.file = n
      BY DEF GalleryTypeOK
    <3> HIDE DEF c
    <3> QED BY <3>1, <3>2, KindsAreCurations DEF New, Old, OnRow
  <2>2. CASE RenewPhoto(q)
    <3> DEFINE c == [pc |-> "show", row |-> o.row, file |-> n]
    <3>1. Then(q, c) /\ o.pc = "store" /\ o \in Curation
      BY <2>2 DEF RenewPhoto, Curates, GalleryTypeOK
    <3>2. o.row \in Pictures
      BY <3>1, CurationFields DEF OnRow
    <3>3. c \in [pc : {"show"}, row : Pictures, file : Nat] /\ c.pc = "show" /\ c.file = n
          /\ c.row = o.row
      BY <3>2 DEF GalleryTypeOK
    <3> HIDE DEF c
    <3> QED BY <3>1, <3>3, KindsAreCurations DEF New, Old, OnRow
  <2> QED BY <2>1, <2>2
<1>2. /\ photoNo' = n /\ photos' = photos \cup {n}
      /\ UNCHANGED <<album, pictures, curations, pasts, troubled, spilt, crossed>>
      /\ n \in Nat /\ n > photoNo /\ photoNo \in Nat
  BY DEF PutPhoto, RenewPhoto, GalleryTypeOK
<1>3. \A s \in Curators : curator'[s] = IF s = q THEN c ELSE curator[s]
  BY <1>1, ThenAt
<1>4. /\ \A p \in DOMAIN pictures : pictures[p].file \in 0..photoNo /\ p \in pasts
      /\ photos \subseteq 1..photoNo /\ spilt \subseteq 1..photoNo
  BY DEF GalleryTypeOK
<1>5. \A s \in Curators : New(curator[s]) \/ Old(curator[s]) => curator[s].file \in 0..photoNo
  <2> SUFFICES ASSUME NEW s \in Curators, New(curator[s]) \/ Old(curator[s])
               PROVE  curator[s].file \in 0..photoNo
    OBVIOUS
  <2>1. curator[s].file \in Nat /\ curator[s].file <= photoNo
    BY CurationFields DEF GalleryTypeOK, FilesNumbered
  <2> QED BY <1>2, <2>1
<1> HIDE DEF n
<1>6. GalleryTypeOK'
  <2>1. photos' \subseteq 1..n /\ spilt \subseteq 1..n
        /\ \A p \in DOMAIN pictures : pictures[p].file \in 0..n
    <3>1. 1..photoNo \subseteq 1..n /\ 0..photoNo \subseteq 0..n /\ n \in 1..n
      BY <1>2
    <3>2. photos' = photos \cup {n}
      BY <1>2
    <3> QED BY <1>4, <3>1, <3>2
  <2>2. curator' \in [Curators -> Curation]
    BY <1>1 DEF GalleryTypeOK, Then
  <2> QED BY <1>2, <2>1, <2>2 DEF GalleryTypeOK
<1>7. RowsInOrder'
  <2>1. OnRow(c) => c.row \in pasts
    BY <1>1 DEF RowsInOrder, OnRow
  <2> QED BY <1>2, <1>3, <2>1 DEF RowsInOrder
<1>8. FilesNumbered'
  <2>1. ASSUME NEW s \in Curators
        PROVE /\ New(curator'[s]) \/ Old(curator'[s]) => curator'[s].file <= n
              /\ New(curator'[s]) => curator'[s].file \in photos' \cup {0}
              /\ curator'[s].pc = "show" => curator'[s].file # 0
              /\ curator'[s].pc \in {"erase", "store"} => curator'[s].file \notin photos'
    <3>1. CASE s = q
      BY <1>1, <1>2, <1>3, <3>1 DEF Old
    <3>2. CASE s # q
      <4>1. curator'[s] = curator[s]
        BY <1>3, <3>2
      <4>2. curator[s].pc \in {"erase", "store"} => Old(curator[s])
        BY DEF Old
      <4> QED BY <1>2, <1>5, <4>1, <4>2 DEF FilesNumbered
    <3> QED BY <3>1, <3>2
  <2> QED BY <1>2, <2>1 DEF FilesNumbered
<1>9. FilesApart'
  <2>1. \A p \in DOMAIN pictures : pictures[p].file # n
    BY <1>2, <1>4
  <2>2. \A s \in Curators : New(curator[s]) \/ Old(curator[s]) => curator[s].file # n
    BY <1>2, <1>5
  <2>3. \A p \in DOMAIN pictures, s \in Curators :
           /\ New(curator'[s]) => pictures[p].file # curator'[s].file \/ pictures[p].file = 0
           /\ Old(curator'[s]) /\ curator'[s].row # p
                => pictures[p].file # curator'[s].file \/ pictures[p].file = 0
    BY <1>1, <1>3, <2>1 DEF FilesApart
  <2>4. \A s, r \in Curators :
          New(curator'[s]) /\ (Old(curator'[r]) \/ (New(curator'[r]) /\ s # r))
            => curator'[s].file # curator'[r].file \/ curator'[s].file = 0
    BY <1>1, <1>3, <2>2 DEF FilesApart
  <2> QED BY <1>2, <2>3, <2>4 DEF FilesApart
<1>10. OneAtRow'
  <2>1. OnRow(c) => OnRow(o) /\ c.row = o.row
    BY <1>1 DEF OnRow
  <2> QED BY <1>2, <1>3, <2>1 DEF OneAtRow
<1>11. RowAsFound'
  <2> SUFFICES ASSUME NEW s \in Curators, OnRow(curator'[s]), curator'[s].row \notin troubled
               PROVE  /\ curator'[s].row \in DOMAIN pictures
                      /\ Old(curator'[s]) => pictures[curator'[s].row].file = curator'[s].file
                      /\ curator'[s].pc = "show" => pictures[curator'[s].row].file \notin photos'
    BY <1>2 DEF RowAsFound
  <2>1. CASE s # q
    BY <1>2, <1>3, <1>4, <2>1 DEF RowAsFound
  <2>2. CASE s = q
    <3>1. curator'[s] = c /\ o.pc = "store" /\ c.row = o.row /\ c.pc = "show"
      BY <1>1, <1>3, <2>2
    <3>2. o.row \in DOMAIN pictures /\ pictures[o.row].file = o.file
      BY <3>1 DEF RowAsFound, OnRow, Old
    <3>3. o.file \notin photos /\ o.file # n
      BY <1>2, <1>5, <3>1 DEF FilesNumbered, Old
    <3> QED BY <1>1, <1>2, <3>1, <3>2, <3>3
  <2> QED BY <2>1, <2>2
<1>12. PhotosHeld'
  <2> SUFFICES ASSUME NEW p \in DOMAIN pictures \ troubled,
                      \A s \in Curators : ~Drops(curator'[s], p)
               PROVE  pictures[p].file \in photos \cup {0}
    BY <1>2 DEF PhotosHeld
  <2>1. Drops(o, p) => Drops(c, p)
    BY <1>1 DEF Drops
  <2> QED BY <1>3, <2>1 DEF PhotosHeld
<1>13. NoneLost'
  <2>1. ~New(o)
    BY <1>1 DEF New
  <2> QED BY <1>1, <1>2, <1>3, <2>1 DEF NoneLost
<1>14. NextApart' /\ PlacesDistinct'
  BY <1>1, <1>2, PlacesLeft
<1> QED BY <1>6, <1>7, <1>8, <1>9, <1>10, <1>11, <1>12, <1>13, <1>14

\* The file of a row is deleted: it is no other row's and no new one.
LEMMA UnlinkKeeps ==
  ASSUME GalleryInv, NEW q \in Curators, UnlinkPhoto(q)
  PROVE  GalleryInv'
<1> USE GalleryAssumption DEF GalleryInv
<1> DEFINE o == curator[q]
<1>1. o \in Curation /\ o.pc \in {"unlink", "renew"} /\ Old(o) /\ OnRow(o)
  BY DEF UnlinkPhoto, GalleryTypeOK, Old, OnRow
<1>2. o.file \in Nat /\ o.row \in Pictures
  BY <1>1, CurationFields
<1>3. PICK c \in Curation : /\ Then(q, c) /\ c.pc \in {"erase", "store"} /\ Old(c) /\ OnRow(c)
                            /\ ~New(c) /\ c.row = o.row /\ c.file = o.file
  <2> DEFINE c == [pc |-> IF o.pc = "unlink" THEN "erase" ELSE "store", row |-> o.row,
                   file |-> o.file]
  <2>1. Then(q, c)
    BY DEF UnlinkPhoto
  <2>2. c \in AtRowOf /\ c.pc \in {"erase", "store"} /\ c.row = o.row /\ c.file = o.file
    BY <1>2 DEF AtRowOf
  <2> HIDE DEF c
  <2> QED BY <2>1, <2>2, KindsAreCurations DEF Old, OnRow, New
<1>4. /\ photos' = photos \ {o.file}
      /\ UNCHANGED <<album, pictures, curations, pasts, photoNo, troubled, spilt, crossed>>
  BY DEF UnlinkPhoto
<1>5. \A s \in Curators : curator'[s] = IF s = q THEN c ELSE curator[s]
  BY <1>3, ThenAt
<1>6. GalleryTypeOK'
  BY <1>3, <1>4 DEF GalleryTypeOK, Then
<1>7. RowsInOrder'
  BY <1>1, <1>3, <1>4, <1>5 DEF RowsInOrder
<1>8. FilesNumbered'
  <2>1. \A s \in Curators : New(curator[s]) => curator[s].file # o.file \/ curator[s].file = 0
    BY <1>1 DEF FilesApart
  <2> QED BY <1>1, <1>3, <1>4, <1>5, <2>1 DEF FilesNumbered
<1>9. FilesApart'
  <2>1. \A s \in Curators : /\ New(curator'[s]) <=> New(curator[s])
                            /\ Old(curator'[s]) <=> Old(curator[s])
                            /\ curator'[s].file = curator[s].file
                            /\ Old(curator[s]) => curator'[s].row = curator[s].row
    BY <1>1, <1>3, <1>5 DEF New
  <2> QED BY <1>4, <2>1 DEF FilesApart
<1>10. OneAtRow'
  BY <1>1, <1>3, <1>4, <1>5 DEF OneAtRow
<1>11. RowAsFound'
  BY <1>1, <1>3, <1>4, <1>5 DEF RowAsFound
<1>12. PhotosHeld'
  <2> SUFFICES ASSUME NEW p \in DOMAIN pictures \ troubled,
                      \A s \in Curators : ~Drops(curator'[s], p)
               PROVE  pictures[p].file \in photos' \cup {0}
    BY <1>4 DEF PhotosHeld
  <2>1. ~Drops(c, p) /\ o.row # p
    BY <1>3, <1>5 DEF Drops
  <2>2. pictures[p].file # o.file \/ pictures[p].file = 0
    BY <1>1, <2>1 DEF FilesApart
  <2>3. \A s \in Curators : ~Drops(curator[s], p)
    BY <1>5, <2>1 DEF Drops
  <2> QED BY <1>4, <2>2, <2>3 DEF PhotosHeld
<1>13. NoneLost'
  <2>1. ~New(o)
    BY <1>1 DEF New
  <2> QED BY <1>4, <1>5, <2>1 DEF NoneLost
<1>14. NextApart' /\ PlacesDistinct'
  BY <1>3, <1>4, PlacesLeft
<1> QED BY <1>6, <1>7, <1>8, <1>9, <1>10, <1>11, <1>12, <1>13, <1>14

\* A row is written with a file and a place of its own.
LEMMA CreateKeeps ==
  ASSUME GalleryInv, NEW q \in Curators, NEW p \in Pictures, CreatePicture(q, p)
  PROVE  GalleryInv'
<1> USE GalleryAssumption DEF GalleryInv
<1> DEFINE o == curator[q]
           r == [file |-> o.file, sort |-> o.sort]
<1>1. /\ o.pc = "create" /\ New(o) /\ ~OnRow(o) /\ ~Old(o)
      /\ o.file \in Nat /\ o.sort \in Nat /\ o.file <= photoNo
  <2>1. o \in Curation /\ o.pc = "create"
    BY DEF CreatePicture, Curates, GalleryTypeOK
  <2> QED BY <2>1, CurationFields DEF New, OnRow, Old, FilesNumbered
<1>2. /\ p \notin pasts /\ pasts' = pasts \cup {p} /\ Then(q, Absent)
      /\ pictures' = [x \in DOMAIN pictures \cup {p} |-> IF x = p THEN r ELSE pictures[x]]
      /\ UNCHANGED <<album, photos, curations, photoNo, troubled, spilt, crossed>>
  BY DEF CreatePicture
<1>3. \A s \in Curators : curator'[s] = IF s = q THEN Absent ELSE curator[s]
  BY <1>2, ThenAt
<1>4. /\ Absent \in Curation /\ Absent.pc = "free" /\ ~New(Absent) /\ ~Old(Absent) /\ ~OnRow(Absent)
      /\ \A x : ~Drops(Absent, x)
  BY KindsAreCurations DEF Absent, New, Old, OnRow, Drops
<1>5. /\ p \notin DOMAIN pictures /\ DOMAIN pictures' = DOMAIN pictures \cup {p}
      /\ pictures'[p].file = o.file /\ pictures'[p].sort = o.sort
      /\ pictures'[p] \in [file : Nat, sort : Nat]
      /\ \A x \in DOMAIN pictures : pictures'[x] = pictures[x] /\ x \in pasts /\ x # p
  BY <1>1, <1>2 DEF GalleryTypeOK
<1> HIDE DEF r
<1>6. GalleryTypeOK'
  BY <1>1, <1>2, <1>4, <1>5 DEF GalleryTypeOK, Then
<1>7. RowsInOrder'
  <2>1. IsFiniteSet(DOMAIN pictures')
    BY <1>5, FS_AddElement DEF RowsInOrder
  <2> QED BY <1>2, <1>3, <1>4, <1>5, <2>1 DEF RowsInOrder
<1>8. FilesNumbered'
  BY <1>2, <1>3, <1>4 DEF FilesNumbered
<1>9. FilesApart'
  <2>1. \A x \in DOMAIN pictures : pictures[x].file # o.file \/ pictures[x].file = 0
    BY <1>1 DEF FilesApart
  <2>2. \A s \in Curators \ {q} : New(curator[s]) \/ Old(curator[s]) =>
          o.file # curator[s].file \/ o.file = 0
    BY <1>1 DEF FilesApart
  <2>3. \A x, y \in DOMAIN pictures' :
           x # y => pictures'[x].file # pictures'[y].file \/ pictures'[x].file = 0
    BY <1>5, <2>1 DEF FilesApart
  <2>4. \A s \in Curators, x \in DOMAIN pictures' :
           /\ New(curator'[s]) => pictures'[x].file # curator'[s].file \/ pictures'[x].file = 0
           /\ Old(curator'[s]) /\ curator'[s].row # x
                => pictures'[x].file # curator'[s].file \/ pictures'[x].file = 0
    BY <1>3, <1>4, <1>5, <2>2 DEF FilesApart
  <2>5. \A s, t \in Curators :
           New(curator'[s]) /\ (Old(curator'[t]) \/ (New(curator'[t]) /\ s # t))
             => curator'[s].file # curator'[t].file \/ curator'[s].file = 0
    BY <1>3, <1>4 DEF FilesApart
  <2> QED BY <2>3, <2>4, <2>5 DEF FilesApart
<1>10. OneAtRow'
  BY <1>2, <1>3, <1>4 DEF OneAtRow
<1>11. RowAsFound'
  BY <1>2, <1>3, <1>4, <1>5 DEF RowAsFound
<1>12. PhotosHeld'
  <2> SUFFICES ASSUME NEW x \in DOMAIN pictures' \ troubled,
                      \A s \in Curators : ~Drops(curator'[s], x)
               PROVE  pictures'[x].file \in photos \cup {0}
    BY <1>2 DEF PhotosHeld
  <2>1. CASE x = p
    BY <1>1, <1>5, <2>1 DEF FilesNumbered
  <2>2. CASE x # p
    <3>1. \A s \in Curators : ~Drops(curator[s], x)
      BY <1>1, <1>3 DEF Drops
    <3> QED BY <1>5, <2>2, <3>1 DEF PhotosHeld
  <2> QED BY <2>1, <2>2
<1>13. NoneLost'
  <2> SUFFICES ASSUME NEW f \in photos, f \notin spilt
               PROVE  \/ \E s \in Curators : New(curator'[s]) /\ curator'[s].file = f
                      \/ \E x \in DOMAIN pictures' : pictures'[x].file = f
    BY <1>2 DEF NoneLost
  <2>1. CASE \E s \in Curators : New(curator[s]) /\ curator[s].file = f
    BY <1>3, <1>5, <2>1
  <2>2. CASE \E x \in DOMAIN pictures : pictures[x].file = f
    BY <1>5, <2>2
  <2> QED BY <2>1, <2>2 DEF NoneLost
<1>14. NextApart' /\ PlacesDistinct'
  <2>1. CASE crossed
    BY <1>2, <2>1 DEF NextApart, PlacesDistinct
  <2>2. CASE ~crossed
    <3>1. \A s \in Curators : ~Curates(s, "create")'
      BY <1>1, <1>3, <1>4, <2>2 DEF NextApart, Curates
    <3>2. \A x \in DOMAIN pictures : pictures[x].sort < o.sort /\ pictures[x].sort \in Nat
      BY <1>1, <2>2 DEF NextApart, Curates, GalleryTypeOK
    <3>3. PlacesDistinct'
      BY <1>1, <1>5, <2>2, <3>2 DEF PlacesDistinct
    <3> QED BY <3>1, <3>3 DEF NextApart
  <2> QED BY <2>1, <2>2
<1> QED BY <1>6, <1>7, <1>8, <1>9, <1>10, <1>11, <1>12, <1>13, <1>14

\* A row goes; what it showed was deleted before or is left behind.
LEMMA EraseKeeps ==
  ASSUME GalleryInv, NEW q \in Curators, ErasePicture(q)
  PROVE  GalleryInv'
<1> USE GalleryAssumption DEF GalleryInv
<1> DEFINE o == curator[q]
           p == o.row
<1>1. /\ o.pc = "erase" /\ Old(o) /\ ~New(o) /\ OnRow(o) /\ Drops(o, p)
  BY DEF ErasePicture, Curates, Old, New, OnRow, Drops
<1>2. /\ Then(q, Absent) /\ pictures' = [x \in DOMAIN pictures \ {p} |-> pictures[x]]
      /\ spilt' = spilt \cup LeftBehind(p)
      /\ UNCHANGED <<album, photos, curations, pasts, photoNo, troubled, crossed>>
  BY DEF ErasePicture
<1>3. \A s \in Curators : curator'[s] = IF s = q THEN Absent ELSE curator[s]
  BY <1>2, ThenAt
<1>4. /\ Absent \in Curation /\ Absent.pc = "free" /\ ~New(Absent) /\ ~Old(Absent) /\ ~OnRow(Absent)
      /\ \A x : ~Drops(Absent, x)
  BY KindsAreCurations DEF Absent, New, Old, OnRow, Drops
<1>5. /\ DOMAIN pictures' = DOMAIN pictures \ {p}
      /\ \A x \in DOMAIN pictures' : pictures'[x] = pictures[x] /\ x \in DOMAIN pictures
  BY <1>2
<1> HIDE DEF p
<1>6. GalleryTypeOK'
  <2>1. spilt' \subseteq 1..photoNo
    BY <1>2 DEF LeftBehind, GalleryTypeOK
  <2> QED BY <1>2, <1>4, <1>5, <2>1 DEF GalleryTypeOK, Then
<1>7. RowsInOrder'
  <2>1. IsFiniteSet(DOMAIN pictures')
    BY <1>5, FS_RemoveElement DEF RowsInOrder
  <2> QED BY <1>2, <1>3, <1>4, <1>5, <2>1 DEF RowsInOrder
<1>8. FilesNumbered'
  BY <1>2, <1>3, <1>4 DEF FilesNumbered
<1>9. FilesApart'
  BY <1>3, <1>4, <1>5 DEF FilesApart
<1>10. OneAtRow'
  BY <1>2, <1>3, <1>4 DEF OneAtRow
<1>11. RowAsFound'
  <2>1. \A s \in Curators \ {q} : OnRow(curator[s]) /\ curator[s].row \notin troubled
          => curator[s].row # p
    BY <1>1 DEF OneAtRow, p
  <2> QED BY <1>2, <1>3, <1>4, <1>5, <2>1 DEF RowAsFound
<1>12. PhotosHeld'
  <2> SUFFICES ASSUME NEW x \in DOMAIN pictures' \ troubled,
                      \A s \in Curators : ~Drops(curator'[s], x)
               PROVE  pictures'[x].file \in photos \cup {0}
    BY <1>2 DEF PhotosHeld
  <2>1. \A s \in Curators : ~Drops(curator[s], x)
    BY <1>3, <1>5 DEF Drops, p
  <2> QED BY <1>5, <2>1 DEF PhotosHeld
<1>13. NoneLost'
  <2> SUFFICES ASSUME NEW f \in photos, f \notin spilt'
               PROVE  \/ \E s \in Curators : New(curator'[s]) /\ curator'[s].file = f
                      \/ \E x \in DOMAIN pictures' : pictures'[x].file = f
    BY <1>2 DEF NoneLost
  <2>1. CASE \E s \in Curators : New(curator[s]) /\ curator[s].file = f
    BY <1>1, <1>3, <2>1
  <2>2. CASE \E x \in DOMAIN pictures \ {p} : pictures[x].file = f
    BY <1>5, <2>2
  <2>3. CASE p \in DOMAIN pictures /\ pictures[p].file = f
    <3>1. p \notin troubled
      BY <1>2, <2>3 DEF LeftBehind
    <3>2. f = o.file
      BY <1>1, <2>3, <3>1 DEF RowAsFound, p
    <3> QED BY <1>1, <3>2 DEF FilesNumbered
  <2> QED BY <1>2, <2>1, <2>2, <2>3 DEF NoneLost
<1>14. NextApart' /\ PlacesDistinct'
  BY <1>2, <1>4, <1>5, PlacesLeft
<1> QED BY <1>6, <1>7, <1>8, <1>9, <1>10, <1>11, <1>12, <1>13, <1>14

\* A row shows its new file, or is gone and the file is spilt.
LEMMA ShowKeeps ==
  ASSUME GalleryInv, NEW q \in Curators, ShowRenewed(q)
  PROVE  GalleryInv'
<1> USE GalleryAssumption DEF GalleryInv
<1> DEFINE o == curator[q]
           p == o.row
<1>1. /\ o.pc = "show" /\ ~Old(o) /\ New(o) /\ OnRow(o)
      /\ o.file \in Nat /\ o.file <= photoNo /\ o.file \in photos \cup {0}
  <2>1. o \in Curation /\ o.pc = "show"
    BY DEF ShowRenewed, Curates, GalleryTypeOK
  <2> QED BY <2>1, CurationFields DEF Old, New, OnRow, FilesNumbered
<1>2. /\ Then(q, Absent)
      /\ IF p \in DOMAIN pictures
         THEN /\ pictures' = [pictures EXCEPT ![p].file = o.file]
              /\ spilt' = spilt \cup LeftBehind(p)
         ELSE spilt' = spilt \cup {o.file} /\ UNCHANGED pictures
      /\ UNCHANGED <<album, photos, curations, pasts, photoNo, troubled, crossed>>
  BY DEF ShowRenewed
<1>3. \A s \in Curators : curator'[s] = IF s = q THEN Absent ELSE curator[s]
  BY <1>2, ThenAt
<1>4. /\ Absent \in Curation /\ Absent.pc = "free" /\ ~New(Absent) /\ ~Old(Absent) /\ ~OnRow(Absent)
      /\ \A x : ~Drops(Absent, x)
  BY KindsAreCurations DEF Absent, New, Old, OnRow, Drops
<1>5. /\ DOMAIN pictures' = DOMAIN pictures
      /\ \A x \in DOMAIN pictures : x # p => pictures'[x] = pictures[x]
      /\ p \in DOMAIN pictures =>
           /\ pictures'[p].file = o.file /\ pictures'[p].sort = pictures[p].sort
           /\ pictures'[p] \in [file : Nat, sort : Nat]
  <2>1. p \in DOMAIN pictures => pictures[p] \in [file : Nat, sort : Nat]
    BY DEF RowsInOrder
  <2> QED BY <1>1, <1>2, <2>1
<1>6. o.file # 0
  BY <1>1 DEF FilesNumbered
<1> HIDE DEF p
<1>7. GalleryTypeOK'
  <2>1. spilt' \subseteq 1..photoNo
    BY <1>1, <1>2, <1>6 DEF LeftBehind, GalleryTypeOK
  <2>2. \A x \in DOMAIN pictures' : pictures'[x].file \in 0..photoNo /\ pictures'[x].sort \in Nat
    BY <1>1, <1>5 DEF GalleryTypeOK
  <2> QED BY <1>2, <1>4, <1>5, <2>1, <2>2 DEF GalleryTypeOK, Then
<1>8. RowsInOrder'
  BY <1>2, <1>3, <1>4, <1>5 DEF RowsInOrder
<1>9. FilesNumbered'
  BY <1>2, <1>3, <1>4 DEF FilesNumbered
<1>10. FilesApart'
  <2>1. \A x \in DOMAIN pictures : pictures[x].file # o.file \/ pictures[x].file = 0
    BY <1>1 DEF FilesApart
  <2>2. \A s \in Curators \ {q} : New(curator[s]) \/ Old(curator[s]) => o.file # curator[s].file
    BY <1>1, <1>6 DEF FilesApart
  <2>3. \A x, y \in DOMAIN pictures' :
           x # y => pictures'[x].file # pictures'[y].file \/ pictures'[x].file = 0
    BY <1>5, <2>1 DEF FilesApart
  <2>4. \A s \in Curators, x \in DOMAIN pictures' :
           /\ New(curator'[s]) => pictures'[x].file # curator'[s].file \/ pictures'[x].file = 0
           /\ Old(curator'[s]) /\ curator'[s].row # x
                => pictures'[x].file # curator'[s].file \/ pictures'[x].file = 0
    BY <1>3, <1>4, <1>5, <2>2 DEF FilesApart
  <2>5. \A s, t \in Curators :
           New(curator'[s]) /\ (Old(curator'[t]) \/ (New(curator'[t]) /\ s # t))
             => curator'[s].file # curator'[t].file \/ curator'[s].file = 0
    BY <1>3, <1>4 DEF FilesApart
  <2> QED BY <2>3, <2>4, <2>5 DEF FilesApart
<1>11. OneAtRow'
  BY <1>2, <1>3, <1>4 DEF OneAtRow
<1>12. RowAsFound'
  <2>1. \A s \in Curators \ {q} : OnRow(curator[s]) /\ curator[s].row \notin troubled
          => curator[s].row # p
    BY <1>1 DEF OneAtRow, p
  <2> QED BY <1>2, <1>3, <1>4, <1>5, <2>1 DEF RowAsFound
<1>13. PhotosHeld'
  <2> SUFFICES ASSUME NEW x \in DOMAIN pictures \ troubled,
                      \A s \in Curators : ~Drops(curator'[s], x)
               PROVE  pictures'[x].file \in photos \cup {0}
    BY <1>2, <1>5 DEF PhotosHeld
  <2>1. CASE x = p
    BY <1>1, <1>5, <2>1
  <2>2. CASE x # p
    <3>1. \A s \in Curators : ~Drops(curator[s], x)
      BY <1>3, <2>2 DEF Drops, p
    <3> QED BY <1>5, <2>2, <3>1 DEF PhotosHeld
  <2> QED BY <2>1, <2>2
<1>14. NoneLost'
  <2> SUFFICES ASSUME NEW f \in photos, f \notin spilt'
               PROVE  \/ \E s \in Curators : New(curator'[s]) /\ curator'[s].file = f
                      \/ \E x \in DOMAIN pictures' : pictures'[x].file = f
    BY <1>2 DEF NoneLost
  <2>1. CASE f = o.file
    BY <1>2, <1>5, <2>1
  <2>2. CASE f # o.file /\ \E s \in Curators : New(curator[s]) /\ curator[s].file = f
    BY <1>3, <2>2
  <2>3. CASE \E x \in DOMAIN pictures \ {p} : pictures[x].file = f
    BY <1>5, <2>3
  <2>4. CASE p \in DOMAIN pictures /\ pictures[p].file = f
    <3>1. p \notin troubled
      BY <1>2, <2>4 DEF LeftBehind
    <3> QED BY <1>1, <2>4, <3>1 DEF RowAsFound, p
  <2>5. f \notin spilt
    BY <1>2
  <2> QED BY <2>1, <2>2, <2>3, <2>4, <2>5 DEF NoneLost
<1>15. NextApart' /\ PlacesDistinct'
  BY <1>2, <1>4, <1>5, PlacesLeft
<1> QED BY <1>7, <1>8, <1>9, <1>10, <1>11, <1>12, <1>13, <1>14, <1>15

\* Rows are put in a new order.
LEMMA ReorderKeeps ==
  ASSUME GalleryInv, NEW q \in Curators, Reorder(q)
  PROVE  GalleryInv'
<1> USE GalleryAssumption DEF GalleryInv
<1>0. PICK ids \in SUBSET DOMAIN pictures \ {{}} : \E places \in [ids -> 1..Cardinality(ids)] :
         /\ \A p, r \in ids : places[p] = places[r] => p = r
         /\ pictures' = [p \in DOMAIN pictures |->
              IF p \in ids THEN [pictures[p] EXCEPT !.sort = places[p]]
              ELSE pictures[p]]
         /\ crossed' = (ids # DOMAIN pictures \/ \E r \in Curators : Curates(r, "create"))
  BY DEF Reorder
<1>1. PICK places \in [ids -> 1..Cardinality(ids)] :
         /\ \A p, r \in ids : places[p] = places[r] => p = r
         /\ pictures' = [p \in DOMAIN pictures |->
              IF p \in ids THEN [pictures[p] EXCEPT !.sort = places[p]]
              ELSE pictures[p]]
         /\ crossed' = (ids # DOMAIN pictures \/ \E r \in Curators : Curates(r, "create"))
  BY <1>0
<1>2. /\ UNCHANGED <<album, photos, curator, pasts, photoNo, troubled, spilt>>
      /\ curations' \in 0..MaxCurations
  BY DEF Reorder, Another, GalleryTypeOK
<1>3. /\ DOMAIN pictures' = DOMAIN pictures
      /\ \A p \in DOMAIN pictures : /\ pictures'[p] \in [file : Nat, sort : Nat]
                                    /\ pictures'[p].file = pictures[p].file
                                    /\ p \in ids => pictures'[p].sort = places[p]
  <2>1. Cardinality(ids) \in Nat
    BY FS_Subset, FS_CardinalityType DEF RowsInOrder
  <2>2. \A p \in ids : places[p] \in Nat
    BY <2>1
  <2> QED BY <1>1, <2>2 DEF RowsInOrder
<1>4. GalleryTypeOK'
  <2>1. crossed' \in BOOLEAN
    BY <1>1
  <2>2. \A p \in DOMAIN pictures' : pictures'[p].file \in 0..photoNo /\ pictures'[p].sort \in Nat
    BY <1>3 DEF GalleryTypeOK
  <2> QED BY <1>2, <1>3, <2>1, <2>2 DEF GalleryTypeOK
<1>5. RowsInOrder' /\ FilesNumbered' /\ OneAtRow'
  BY <1>2, <1>3 DEF RowsInOrder, FilesNumbered, OneAtRow
<1>6. FilesApart'
  BY <1>2, <1>3 DEF FilesApart
<1>7. RowAsFound' /\ PhotosHeld' /\ NoneLost'
  BY <1>2, <1>3 DEF RowAsFound, PhotosHeld, NoneLost
<1>8. NextApart' /\ PlacesDistinct'
  <2>1. CASE crossed'
    BY <2>1 DEF NextApart, PlacesDistinct
  <2>2. CASE ~crossed'
    <3>1. ids = DOMAIN pictures /\ \A r \in Curators : ~Curates(r, "create")
      BY <1>1, <2>2
    <3>2. NextApart'
      BY <1>2, <3>1 DEF NextApart, Curates
    <3>3. PlacesDistinct'
      BY <1>1, <1>3, <3>1 DEF PlacesDistinct
    <3> QED BY <3>2, <3>3
  <2> QED BY <2>1, <2>2
<1> QED BY <1>4, <1>5, <1>6, <1>7, <1>8

LEMMA GalleryStep == GalleryInv /\ [GalleryNext]_galleryVars => GalleryInv'
<1> SUFFICES ASSUME GalleryInv, [GalleryNext]_galleryVars PROVE GalleryInv'
  OBVIOUS
<1>1. CASE GalleryNext
  <2>1. PICK q \in Curators :
    \/ ImagesController(q) \/ FeaturesController(q)
    \/ PutPhoto(q) \/ ReadPlace(q) \/ \E p \in Pictures : CreatePicture(q, p)
    \/ UnlinkPhoto(q) \/ ErasePicture(q)
    \/ RefuseRenewal(q) \/ RenewPhoto(q) \/ ShowRenewed(q)
    \/ CuratorCrash(q)
    BY <1>1 DEF GalleryNext
  <2> QED BY <2>1, AskKeeps, ReorderKeeps, StoreKeeps, ReadPlaceKeeps, CreateKeeps, UnlinkKeeps,
             EraseKeeps, CutKeeps, ShowKeeps DEF ImagesController, FeaturesController
<1>2. CASE UNCHANGED galleryVars
  <2> USE <1>2 DEF GalleryInv, galleryVars, rowVars
  <2>1. GalleryTypeOK' /\ RowsInOrder' /\ FilesNumbered' /\ OneAtRow'
    BY DEF GalleryTypeOK, RowsInOrder, FilesNumbered, OneAtRow
  <2>2. FilesApart' /\ RowAsFound'
    BY DEF FilesApart, RowAsFound
  <2>3. PhotosHeld' /\ NoneLost' /\ NextApart' /\ PlacesDistinct'
    BY DEF PhotosHeld, NoneLost, NextApart, PlacesDistinct, Curates
  <2> QED BY <2>1, <2>2, <2>3
<1> QED BY <1>1, <1>2

LEMMA GalleryInitInv == GalleryInit => GalleryInv
<1> SUFFICES ASSUME GalleryInit PROVE GalleryInv
  OBVIOUS
<1> USE GalleryAssumption DEF GalleryInit
<1>1. DOMAIN pictures = {} /\ \A q \in Curators : curator[q] = Absent
  OBVIOUS
<1>2. Absent \in Curation /\ ~New(Absent) /\ ~Old(Absent) /\ ~OnRow(Absent) /\ Absent.pc = "free"
  BY KindsAreCurations DEF Absent, New, Old, OnRow
<1>3. GalleryTypeOK
  <2>1. album \in {"images", "features"} /\ crossed \in BOOLEAN
    BY DEF GalleryAssumption
  <2>2. curations \in 0..MaxCurations
    <3>1. curations = 0
      OBVIOUS
    <3> HIDE DEF GalleryInit
    <3> QED BY <3>1 DEF GalleryAssumption
  <2>3. curator \in [Curators -> Curation]
    BY <1>2
  <2>4. DOMAIN pictures \subseteq pasts /\ photos \subseteq 1..photoNo /\ photoNo \in Nat
        /\ pasts \subseteq Pictures /\ troubled \subseteq Pictures /\ spilt \subseteq 1..photoNo
    BY <1>1
  <2>5. \A p \in DOMAIN pictures : pictures[p].file \in 0..photoNo /\ pictures[p].sort \in Nat
    BY <1>1
  <2> HIDE DEF GalleryInit
  <2> QED BY <2>1, <2>2, <2>3, <2>4, <2>5 DEF GalleryTypeOK
<1>4. RowsInOrder
  BY <1>1, <1>2, FS_EmptySet DEF RowsInOrder
<1>5. FilesNumbered /\ FilesApart /\ OneAtRow /\ RowAsFound
  BY <1>1, <1>2 DEF FilesNumbered, FilesApart, OneAtRow, RowAsFound
<1>6. PhotosHeld /\ NoneLost /\ NextApart /\ PlacesDistinct
  BY <1>1, <1>2 DEF PhotosHeld, NoneLost, NextApart, PlacesDistinct, Curates
<1> QED BY <1>3, <1>4, <1>5, <1>6 DEF GalleryInv

LEMMA GalleryInvShows == GalleryInv => GalleryTypeOK /\ GalleryExplained
<1> SUFFICES ASSUME GalleryInv PROVE GalleryTypeOK /\ GalleryExplained
  OBVIOUS
<1>1. PhotosKept
  BY DEF GalleryInv, PhotosHeld, PhotosKept, AtRow, Drops
<1>2. NoPhotoLost
  BY DEF GalleryInv, NoneLost, NoPhotoLost, New
<1> QED BY <1>1, <1>2 DEF GalleryInv, GalleryExplained

\* Whatever requests add, remove, renew or put in order the images of an
\* event, and whichever of them end halfway: a row shows a stored file, no
\* stored file is lost and no place is given twice, but for the overlaps and
\* the refusals the histories name.  (EventMediaService)
THEOREM GalleryAlwaysExplained == GallerySpec => [](GalleryTypeOK /\ GalleryExplained)
  BY GalleryInitInv, GalleryStep, GalleryInvShows, PTL DEF GallerySpec

----------------------------------------------------------------------------
(* Reports *)

\* A payment is of the past, and an event's counters are what the paid orders
\* of it come to.
PaidInPast == \A o \in OrderIds : paidAt[o] <= now
CountersExact ==
  \A e \in EventIds :
    /\ ticketsSold[e] = SumOver(Quantity, OfEvent(e))
    /\ revenueMinor[e] = SumOver(Subtotal, OfEvent(e))

ReportsInv == ReportsTypeOK /\ PaidInPast /\ CountersExact

LEMMA SumOfIsSumOver ==
  ASSUME NEW f, NEW S
  PROVE  SumOf(f, S) = SumOver(f, S)
  BY DEF SumOf, SumOver

\* Sums over any of the orders.
LEMMA OrderSums ==
  ASSUME NEW S \in SUBSET OrderIds
  PROVE  /\ IsFiniteSet(S)
         /\ SumOver(Quantity, S) \in Nat /\ SumOver(Subtotal, S) \in Nat
         /\ \A o \in OrderIds \ S :
              /\ SumOver(Quantity, S \cup {o}) = SumOver(Quantity, S) + Quantity[o]
              /\ SumOver(Subtotal, S \cup {o}) = SumOver(Subtotal, S) + Subtotal[o]
<1> USE ReportsAssumption
<1>1. IsFiniteSet(S)
  BY FS_Subset
<1>2. (\A o \in S : Quantity[o] \in Nat) /\ (\A o \in S : Subtotal[o] \in Nat)
  OBVIOUS
<1>3. SumOver(Quantity, S) \in Nat /\ SumOver(Subtotal, S) \in Nat
  BY <1>1, <1>2, SumNat
<1>4. ASSUME NEW o \in OrderIds \ S
      PROVE  /\ SumOver(Quantity, S \cup {o}) = SumOver(Quantity, S) + Quantity[o]
             /\ SumOver(Subtotal, S \cup {o}) = SumOver(Subtotal, S) + Subtotal[o]
  <2>1. (\A x \in S \cup {o} : Quantity[x] \in Int) /\ (\A x \in S \cup {o} : Subtotal[x] \in Int)
    OBVIOUS
  <2> QED BY <1>1, <2>1, SumAdd
<1> QED BY <1>1, <1>3, <1>4

LEMMA ReportsStep == ReportsInv /\ [ReportsNext]_reportVars => ReportsInv'
<1> SUFFICES ASSUME ReportsInv, [ReportsNext]_reportVars PROVE ReportsInv'
  OBVIOUS
<1> USE ReportsAssumption DEF ReportsInv
<1>0. EndOfTime \in Int
  BY DEF EndOfTime, DayTicks
<1>1. ASSUME Passes \/ (\E o \in OrderIds : Placed(o)) \/ UNCHANGED reportVars
      PROVE  ReportsInv'
  <2>1. /\ ReportsTypeOK'
        /\ PaidInPast'
        /\ UNCHANGED <<orderEvent, paidAt, ticketsSold, revenueMinor>>
    <3>1. CASE Passes
      BY <1>0, <3>1 DEF Passes, ReportsTypeOK, PaidInPast
    <3>2. CASE \E o \in OrderIds : Placed(o)
      BY <1>0, <3>2 DEF Placed, ReportsTypeOK, PaidInPast
    <3>3. CASE UNCHANGED reportVars
      BY <3>3 DEF reportVars, ReportsTypeOK, PaidInPast
    <3> QED BY <1>1, <3>1, <3>2, <3>3
  <2>2. \A e \in EventIds : OfEvent(e)' = OfEvent(e)
    BY <1>1 DEF OfEvent, Passes, Placed, ReportsTypeOK, reportVars
  <2>3. \A e \in EventIds : /\ SumOver(Quantity, OfEvent(e)') = SumOver(Quantity, OfEvent(e))
                            /\ SumOver(Subtotal, OfEvent(e)') = SumOver(Subtotal, OfEvent(e))
    BY <2>2, Zenon
  <2>4. CountersExact'
    BY <2>1, <2>3 DEF CountersExact
  <2> QED BY <2>1, <2>4
<1>2. ASSUME NEW o \in OrderIds, Paid(o) \/ Refunded(o)
      PROVE  ReportsInv'
  <2>0. PICK d \in EventIds : d = orderEvent[o]
    BY DEF ReportsTypeOK
  <2> DEFINE Kin == IF Paid(o) THEN OfEvent(d) ELSE OfEvent(d) \ {o}
  <2>1. d \in EventIds /\ d = orderEvent[o] /\ Quantity[o] \in Nat /\ Subtotal[o] \in Nat
    BY <2>0
  <2>2. Kin \in SUBSET OrderIds /\ o \notin Kin
    BY <1>2 DEF OfEvent, Paid, Refunded
  <2>3. \/ OfEvent(d) = Kin /\ OfEvent(d)' = Kin \cup {o} /\ Paid(o)
        \/ OfEvent(d) = Kin \cup {o} /\ OfEvent(d)' = Kin /\ Refunded(o)
    <3>1. CASE Paid(o)
      BY <2>1, <3>1 DEF OfEvent, Paid, ReportsTypeOK
    <3>2. CASE Refunded(o)
      <4>1. ~Paid(o)
        BY <3>2 DEF Paid, Refunded
      <4> QED BY <2>1, <3>2, <4>1 DEF OfEvent, Refunded, ReportsTypeOK
    <3> QED BY <1>2, <3>1, <3>2
  <2>4. \A e \in EventIds \ {d} : OfEvent(e)' = OfEvent(e)
    BY <1>2, <2>1 DEF OfEvent, Paid, Refunded, ReportsTypeOK
  <2> HIDE DEF Kin
  <2>5. /\ orderStatus' \in [OrderIds -> {"none", "pending", "paid", "refunded"}]
        /\ orderEvent' \in [OrderIds -> EventIds] /\ now' \in 0..EndOfTime
        /\ paidAt' \in [OrderIds -> 0..EndOfTime] /\ PaidInPast'
    BY <1>0, <1>2, SMTT(20) DEF Paid, Refunded, ReportsTypeOK, PaidInPast
  <2>6. /\ SumOver(Quantity, Kin) \in Nat /\ SumOver(Subtotal, Kin) \in Nat
        /\ SumOver(Quantity, Kin \cup {o}) = SumOver(Quantity, Kin) + Quantity[o]
        /\ SumOver(Subtotal, Kin \cup {o}) = SumOver(Subtotal, Kin) + Subtotal[o]
    BY <2>2, OrderSums
  <2>7. ticketsSold[d] = SumOver(Quantity, OfEvent(d)) /\ revenueMinor[d] = SumOver(Subtotal, OfEvent(d))
    BY <2>1 DEF CountersExact
  <2>8. /\ ticketsSold' \in [EventIds -> Nat] /\ revenueMinor' \in [EventIds -> Nat]
        /\ ticketsSold'[d] = SumOver(Quantity, OfEvent(d)')
        /\ revenueMinor'[d] = SumOver(Subtotal, OfEvent(d)')
    <3>1. CASE OfEvent(d) = Kin /\ OfEvent(d)' = Kin \cup {o} /\ Paid(o)
      <4>1. ticketsSold[d] = SumOver(Quantity, Kin) /\ revenueMinor[d] = SumOver(Subtotal, Kin)
        BY <2>7, <3>1, Zenon
      <4>2. /\ ticketsSold' = [ticketsSold EXCEPT ![d] = @ + Quantity[o]]
            /\ revenueMinor' = [revenueMinor EXCEPT ![d] = @ + Subtotal[o]]
        BY <2>1, <3>1 DEF Paid
      <4>3. /\ ticketsSold' \in [EventIds -> Nat] /\ revenueMinor' \in [EventIds -> Nat]
            /\ ticketsSold'[d] = SumOver(Quantity, Kin \cup {o})
            /\ revenueMinor'[d] = SumOver(Subtotal, Kin \cup {o})
        BY <2>1, <2>6, <4>1, <4>2 DEF ReportsTypeOK
      <4> QED BY <3>1, <4>3, Zenon
    <3>2. CASE OfEvent(d) = Kin \cup {o} /\ OfEvent(d)' = Kin /\ Refunded(o)
      <4>1. ticketsSold[d] = SumOver(Quantity, Kin \cup {o})
            /\ revenueMinor[d] = SumOver(Subtotal, Kin \cup {o})
        BY <2>7, <3>2, Zenon
      <4>2. /\ ticketsSold' = [ticketsSold EXCEPT ![d] = @ - Quantity[o]]
            /\ revenueMinor' = [revenueMinor EXCEPT ![d] = @ - Subtotal[o]]
        BY <2>1, <3>2 DEF Refunded
      <4>3. ticketsSold[d] - Quantity[o] = SumOver(Quantity, Kin)
            /\ revenueMinor[d] - Subtotal[o] = SumOver(Subtotal, Kin)
        BY <2>1, <2>6, <4>1
      <4>4. /\ ticketsSold' \in [EventIds -> Nat] /\ revenueMinor' \in [EventIds -> Nat]
            /\ ticketsSold'[d] = SumOver(Quantity, Kin)
            /\ revenueMinor'[d] = SumOver(Subtotal, Kin)
        BY <2>1, <2>6, <4>2, <4>3 DEF ReportsTypeOK
      <4> QED BY <3>2, <4>4, Zenon
    <3> QED BY <2>3, <3>1, <3>2
  <2>9. \A e \in EventIds \ {d} :
          /\ ticketsSold'[e] = ticketsSold[e] /\ revenueMinor'[e] = revenueMinor[e]
          /\ SumOver(Quantity, OfEvent(e)') = SumOver(Quantity, OfEvent(e))
          /\ SumOver(Subtotal, OfEvent(e)') = SumOver(Subtotal, OfEvent(e))
    <3>1. \A e \in EventIds \ {d} : ticketsSold'[e] = ticketsSold[e] /\ revenueMinor'[e] = revenueMinor[e]
      <4>1. CASE Paid(o)
        BY <2>1, <4>1 DEF Paid, ReportsTypeOK
      <4>2. CASE Refunded(o)
        BY <2>1, <4>2 DEF Refunded, ReportsTypeOK
      <4> QED BY <1>2, <4>1, <4>2
    <3> QED BY <2>4, <3>1, Zenon
  <2>10. CountersExact'
    <3> SUFFICES ASSUME NEW e \in EventIds
                 PROVE  /\ ticketsSold'[e] = SumOver(Quantity, OfEvent(e)')
                        /\ revenueMinor'[e] = SumOver(Subtotal, OfEvent(e)')
      BY DEF CountersExact
    <3>1. CASE e = d
      BY <2>8, <3>1, Zenon
    <3>2. CASE e # d
      BY <2>9, <3>2 DEF CountersExact
    <3> QED BY <3>1, <3>2
  <2> QED BY <2>5, <2>8, <2>10 DEF ReportsTypeOK
<1> QED BY <1>1, <1>2 DEF ReportsNext

LEMMA ReportsInitInv == ReportsInit => ReportsInv
<1> SUFFICES ASSUME ReportsInit PROVE ReportsInv
  OBVIOUS
<1> USE ReportsAssumption DEF ReportsInit
<1>1. EndOfTime \in Nat
  BY DEF EndOfTime, DayTicks
<1>2. ReportsTypeOK /\ PaidInPast
  BY <1>1 DEF ReportsTypeOK, PaidInPast
<1>3. \A e \in EventIds : OfEvent(e) = {}
  BY DEF OfEvent
<1>4. \A e \in EventIds : SumOver(Quantity, OfEvent(e)) = 0 /\ SumOver(Subtotal, OfEvent(e)) = 0
  BY <1>3, SumEmpty, Zenon
<1>5. CountersExact
  BY <1>4 DEF CountersExact
<1> QED BY <1>2, <1>5 DEF ReportsInv

----------------------------------------------------------------------------

\* Orders put into groups that hold them all: what the groups come to adds up
\* to what the orders come to.
LEMMA GroupsAddUp ==
  ASSUME NEW S \in SUBSET OrderIds, NEW f, \A o \in S : f[o] \in Int,
         NEW K, IsFiniteSet(K), NEW key, \A o \in S : key[o] \in K,
         NEW group, \A k \in K : group[k] = {o \in S : key[o] = k},
         NEW g, \A k \in K : g[k] = SumOf(f, group[k])
  PROVE  SumOf(g, K) = SumOf(f, S)
<1> USE ReportsAssumption
<1>1. IsFiniteSet(S)
  BY FS_Subset
<1>2. /\ \A k \in K : group[k] \in SUBSET S
      /\ \A j, k \in K : j # k => group[j] \cap group[k] = {}
      /\ \A o \in S : \E k \in K : o \in group[k]
  OBVIOUS
<1>3. \A k \in K : g[k] = SumOver(f, group[k])
  BY SumOfIsSumOver
<1>4. SumOver(g, K) = SumOver(f, S)
  <2>1. /\ IsFiniteSet(S) /\ IsFiniteSet(K)
        /\ \A x \in S : f[x] \in Int
        /\ \A k \in K : group[k] \in SUBSET S
        /\ \A j, k \in K : j # k => group[j] \cap group[k] = {}
        /\ \A x \in S : \E k \in K : x \in group[k]
        /\ \A k \in K : g[k] = SumOver(f, group[k])
    BY <1>1, <1>2, <1>3
  <2> QED BY ONLY <2>1, SumOfParts
<1> QED BY <1>4, SumOfIsSumOver

\* The groups of a key, by themselves or a few of them.
LEMMA GroupedAddsUp ==
  ASSUME NEW S \in SUBSET OrderIds, NEW f, \A o \in S : f[o] \in Int, NEW key,
         NEW g, \A k \in DOMAIN Grouped(key, S) : g[k] = SumOf(f, Grouped(key, S)[k])
  PROVE  SumOf(g, DOMAIN Grouped(key, S)) = SumOf(f, S)
<1> DEFINE K == {key[o] : o \in S}
           group == Grouped(key, S)
<1>1. K = DOMAIN group /\ IsFiniteSet(K)
  <2>1. IsFiniteSet(S)
    BY FS_Subset, ReportsAssumption
  <2>2. IsFiniteSet(K)
    <3> DEFINE image == [o \in S |-> key[o]]
    <3>1. image \in Surjection(S, K)
      BY DEF Surjection
    <3> QED BY <2>1, <3>1, FS_Surjection
  <2> QED BY <2>2 DEF Grouped
<1>2. /\ \A o \in S : key[o] \in K
      /\ \A k \in K : group[k] = {o \in S : key[o] = k}
      /\ \A k \in K : g[k] = SumOf(f, group[k])
  BY <1>1 DEF Grouped
<1> HIDE DEF K, group
<1>3. SumOf(g, K) = SumOf(f, S)
  BY <1>1, <1>2, GroupsAddUp
<1> QED BY <1>1, <1>3 DEF group

\* What orders come to.
LEMMA OrderValues ==
  ASSUME NEW S \in SUBSET OrderIds
  PROVE  /\ SumOf(Total, S) = SumOf(Subtotal, S) + SumOf(Fees, S)
         /\ SumOf(Profit, S) = SumOf(Fees, S) - SumOf(Processing, S)
         /\ \A T \in SUBSET S : /\ SumOf(Total, T) <= SumOf(Total, S)
                              /\ SumOf(Subtotal, T) <= SumOf(Subtotal, S)
<1> USE ReportsAssumption
<1>1. IsFiniteSet(S)
  BY FS_Subset
<1>2. /\ \A o \in S : Subtotal[o] \in Nat
      /\ \A o \in S : Fees[o] \in Nat
      /\ \A o \in S : Processing[o] \in Nat
      /\ \A o \in S : Total[o] = Subtotal[o] + Fees[o]
      /\ \A o \in S : Fees[o] = Profit[o] + Processing[o]
      /\ \A o \in S : Profit[o] \in Int
      /\ \A o \in S : Total[o] \in Nat
  BY DEF Total, Profit
<1>3. SumOver(Total, S) = SumOver(Subtotal, S) + SumOver(Fees, S)
  BY <1>1, <1>2, SumPlus
<1>4. SumOver(Fees, S) = SumOver(Profit, S) + SumOver(Processing, S)
  <2>1. \A o \in S : Processing[o] \in Int
    BY <1>2
  <2> QED BY <1>1, <1>2, <2>1, SumPlus
<1>5. SumOver(Profit, S) \in Int /\ SumOver(Processing, S) \in Int
  <2>1. \A o \in S : Processing[o] \in Int
    BY <1>2
  <2> QED BY <1>1, <1>2, <2>1, SumInt
<1>6. \A T \in SUBSET S : /\ SumOver(Total, T) <= SumOver(Total, S)
                       /\ SumOver(Subtotal, T) <= SumOver(Subtotal, S)
  BY <1>1, <1>2, SumSubset
<1> QED BY <1>3, <1>4, <1>5, <1>6, SumOfIsSumOver

----------------------------------------------------------------------------
(* Days *)

LEMMA Days ==
  ASSUME NEW t \in Int, NEW u \in Int
  PROVE  /\ DayOf(t) \in Int /\ (t >= 0 => DayOf(t) >= 0)
         /\ t <= u => DayOf(t) <= DayOf(u)
         /\ DayOf(t) * DayTicks <= t
         /\ DayOf(t) <= LastDay <=> t <= EndOfTime
         /\ t * DayTicks <= u <=> t <= DayOf(u)
  BY ReportsAssumption DEF DayOf, DayTicks, EndOfTime

\* The days of a series hold every order paid in its range.
LEMMA SeriesHold ==
  ASSUME ReportsInv, NEW S \in SUBSET OrderIds, NEW from \in Int,
         \A o \in S : from <= paidAt[o]
  PROVE  /\ IsFiniteSet(SeriesDays(from, now))
         /\ \A o \in S : DayOf(paidAt[o]) \in SeriesDays(from, now)
<1> DEFINE K == SeriesDays(from, now)
<1>1. IsFiniteSet(K)
  <2>1. K \in SUBSET (0..LastDay) /\ IsFiniteSet(0..LastDay)
    BY FS_Interval, ReportsAssumption DEF SeriesDays
  <2> QED BY <2>1, FS_Subset
<1>2. ASSUME NEW o \in S PROVE DayOf(paidAt[o]) \in K
  <2>1. paidAt[o] \in Int /\ paidAt[o] >= 0 /\ paidAt[o] <= EndOfTime /\ now \in Int
        /\ paidAt[o] <= now /\ from <= paidAt[o]
    BY ReportsAssumption DEF ReportsInv, ReportsTypeOK, PaidInPast, EndOfTime, DayTicks
  <2>2. DayOf(paidAt[o]) \in 0..LastDay
    BY <2>1, Days, ReportsAssumption
  <2>3. DayOf(paidAt[o]) >= DayOf(from)
    BY <2>1, Days
  <2>4. DayOf(paidAt[o]) * DayTicks <= now
    BY <2>1, Days DEF DayTicks
  <2> QED BY <2>2, <2>3, <2>4 DEF SeriesDays
<1> QED BY <1>1, <1>2

\* What the days of a series come to adds up to what its orders come to.
LEMMA SeriesAddUp ==
  ASSUME ReportsInv, NEW S \in SUBSET OrderIds, NEW K, IsFiniteSet(K),
         \A o \in S : DayOf(paidAt[o]) \in K
  PROVE  /\ Added([d \in K |-> Series(S, K)[d].revenue]) = SumOf(Subtotal, S)
         /\ Added([d \in K |-> Series(S, K)[d].tickets]) = SumOf(Quantity, S)
         /\ Added([d \in K |-> Series(S, K)[d].orders]) = Cardinality(S)
<1> USE ReportsAssumption
<1> DEFINE key == [o \in S |-> DayOf(paidAt[o])]
           one == [o \in S |-> 1]
           revenue == [d \in K |-> Series(S, K)[d].revenue]
           tickets == [d \in K |-> Series(S, K)[d].tickets]
           orders == [d \in K |-> Series(S, K)[d].orders]
           group == ByDay(S, K)
<1>1. /\ \A o \in S : key[o] \in K
      /\ \A d \in K : group[d] = {o \in S : key[o] = d}
  BY DEF ByDay
<1>2. \A d \in K : /\ revenue[d] = SumOf(Subtotal, group[d])
                  /\ tickets[d] = SumOf(Quantity, group[d])
                  /\ orders[d] = Cardinality(group[d])
  BY DEF Series, TotalsOf
<1>3. \A T \in SUBSET S : SumOf(one, T) = Cardinality(T)
  <2> TAKE T \in SUBSET S
  <2>1. IsFiniteSet(T) /\ \A x \in T : one[x] = 1
    BY FS_Subset
  <2> HIDE DEF one
  <2>2. SumOver(one, T) = Cardinality(T)
    BY <2>1, SumOfOnes
  <2> QED BY <2>2, SumOfIsSumOver
<1>4. \A d \in K : orders[d] = SumOf(one, group[d])
  <2>1. \A d \in K : group[d] \in SUBSET S
    BY <1>1
  <2> HIDE DEF one, orders
  <2> QED BY <1>2, <1>3, <2>1
<1>5. /\ \A o \in S : Subtotal[o] \in Int
      /\ \A o \in S : Quantity[o] \in Int
      /\ \A o \in S : one[o] \in Int
  OBVIOUS
<1>6. DOMAIN revenue = K /\ DOMAIN tickets = K /\ DOMAIN orders = K
  OBVIOUS
<1> HIDE DEF key, one, revenue, tickets, orders, group
<1>7. SumOf(revenue, K) = SumOf(Subtotal, S)
  <2>1. /\ S \in SUBSET OrderIds /\ IsFiniteSet(K)
        /\ \A o \in S : Subtotal[o] \in Int
        /\ \A o \in S : key[o] \in K
        /\ \A k \in K : group[k] = {o \in S : key[o] = k}
        /\ \A k \in K : revenue[k] = SumOf(Subtotal, group[k])
    BY <1>1, <1>2, <1>5
  <2> QED BY ONLY <2>1, GroupsAddUp
<1>8. SumOf(tickets, K) = SumOf(Quantity, S)
  <2>1. /\ S \in SUBSET OrderIds /\ IsFiniteSet(K)
        /\ \A o \in S : Quantity[o] \in Int
        /\ \A o \in S : key[o] \in K
        /\ \A k \in K : group[k] = {o \in S : key[o] = k}
        /\ \A k \in K : tickets[k] = SumOf(Quantity, group[k])
    BY <1>1, <1>2, <1>5
  <2> QED BY ONLY <2>1, GroupsAddUp
<1>9. SumOf(orders, K) = SumOf(one, S)
  <2>1. /\ S \in SUBSET OrderIds /\ IsFiniteSet(K)
        /\ \A o \in S : one[o] \in Int
        /\ \A o \in S : key[o] \in K
        /\ \A k \in K : group[k] = {o \in S : key[o] = k}
        /\ \A k \in K : orders[k] = SumOf(one, group[k])
    BY <1>1, <1>4, <1>5
  <2> QED BY ONLY <2>1, GroupsAddUp
<1>10. Added(revenue) = SumOf(Subtotal, S) /\ Added(tickets) = SumOf(Quantity, S)
       /\ Added(orders) = Cardinality(S)
  BY <1>3, <1>6, <1>7, <1>8, <1>9 DEF Added
<1> QED BY <1>10 DEF revenue, tickets, orders

----------------------------------------------------------------------------
(* The reports *)

\* The first payment of an event that has one.
LEMMA FirstOfEvent ==
  ASSUME ReportsInv, NEW e \in EventIds, OfEvent(e) # {}
  PROVE  /\ FirstPaid(e) \in Int /\ FirstPaid(e) <= now
         /\ \A o \in OfEvent(e) : FirstPaid(e) <= paidAt[o]
<1> DEFINE P == OfEvent(e)
<1>1. P \in SUBSET OrderIds
  BY DEF OfEvent
<1>2. \A o \in P : paidAt[o] \in Int /\ paidAt[o] <= now
  BY <1>1 DEF ReportsInv, ReportsTypeOK, PaidInPast, EndOfTime, DayTicks
<1>3. \E m \in P : \A o \in P : paidAt[m] <= paidAt[o]
  <2>1. IsFiniteSet(P) /\ \A o \in P : paidAt[o] \in Int
    BY <1>1, <1>2, FS_Subset, ReportsAssumption
  <2> HIDE DEF P
  <2>2. P # {}
    BY DEF P
  <2> QED BY <2>1, <2>2, LeastValue
<1>4. FirstPaid(e) \in {paidAt[o] : o \in P} /\ \A o \in P : FirstPaid(e) <= paidAt[o]
  <2>1. \E t \in {paidAt[o] : o \in P} : \A o \in P : t <= paidAt[o]
    BY <1>3
  <2> QED BY <2>1 DEF FirstPaid
<1> QED BY <1>2, <1>4

LEMMA SalesShown == ReportsInv => SalesAgree
<1> SUFFICES ASSUME ReportsInv, NEW e \in EventIds
             PROVE  /\ EventSales(e).gross = EventSales(e).revenue + EventSales(e).fees
                    /\ OfEvent(e) # {} =>
                         /\ CumulativeSeries(e)[DayOf(now)].revenue = EventSales(e).revenue
                         /\ CumulativeSeries(e)[DayOf(now)].tickets = EventSales(e).tickets
  BY DEF SalesAgree
<1> DEFINE P == OfEvent(e)
<1>1. P \in SUBSET OrderIds
  BY DEF OfEvent
<1>2. /\ EventSales(e).gross = SumOf(Total, P) /\ EventSales(e).fees = SumOf(Fees, P)
      /\ EventSales(e).revenue = revenueMinor[e] /\ EventSales(e).tickets = ticketsSold[e]
  BY DEF EventSales
<1>3. revenueMinor[e] = SumOf(Subtotal, P) /\ ticketsSold[e] = SumOf(Quantity, P)
  BY SumOfIsSumOver DEF ReportsInv, CountersExact
<1>4. EventSales(e).gross = EventSales(e).revenue + EventSales(e).fees
  <2> HIDE DEF P
  <2> QED BY <1>1, <1>2, <1>3, OrderValues
<1>5. ASSUME P # {}
      PROVE  /\ CumulativeSeries(e)[DayOf(now)].revenue = EventSales(e).revenue
             /\ CumulativeSeries(e)[DayOf(now)].tickets = EventSales(e).tickets
  <2> DEFINE K == SeriesDays(FirstPaid(e), now)
             until == {x \in K : x <= DayOf(now)}
  <2>1. FirstPaid(e) \in Int /\ FirstPaid(e) <= now /\ \A o \in P : FirstPaid(e) <= paidAt[o]
    BY <1>5, FirstOfEvent
  <2>2. IsFiniteSet(K) /\ \A o \in P : DayOf(paidAt[o]) \in K
    <3> HIDE DEF P, K
    <3> QED BY <1>1, <2>1, SeriesHold DEF K
  <2>3. now \in Int /\ now >= 0 /\ now <= EndOfTime
    BY ReportsAssumption DEF ReportsInv, ReportsTypeOK, EndOfTime, DayTicks
  <2>4. DayOf(now) \in K
    <3>1. DayOf(now) \in 0..LastDay
      BY <2>3, Days, ReportsAssumption
    <3>2. DayOf(now) >= DayOf(FirstPaid(e))
      BY <2>1, <2>3, Days
    <3>3. DayOf(now) * DayTicks <= now
      BY <2>3, Days
    <3> QED BY <3>1, <3>2, <3>3 DEF SeriesDays
  <2>5. until = K
    <3>1. \A d \in K : d \in Int /\ d * DayTicks <= now
      BY DEF SeriesDays
    <3>2. \A d \in K : d <= DayOf(now)
      BY <2>3, <3>1, Days
    <3> QED BY <3>2
  <2>6. DailySeries(e) = Series(P, K)
    BY <1>5 DEF DailySeries
  <2>7. DOMAIN Series(P, K) = K
    BY DEF Series
  <2> DEFINE revenue == [d \in K |-> Series(P, K)[d].revenue]
             tickets == [d \in K |-> Series(P, K)[d].tickets]
  <2>8. /\ CumulativeSeries(e)[DayOf(now)].revenue = SumOf(revenue, K)
        /\ CumulativeSeries(e)[DayOf(now)].tickets = SumOf(tickets, K)
    <3>1. {x \in DOMAIN DailySeries(e) : x <= DayOf(now)} = K
      BY <2>5, <2>6, <2>7
    <3>2. /\ [x \in K |-> DailySeries(e)[x].revenue] = revenue
          /\ [x \in K |-> DailySeries(e)[x].tickets] = tickets
      BY <2>6
    <3>3. DayOf(now) \in DOMAIN DailySeries(e)
      BY <2>4, <2>6, <2>7
    <3> DEFINE shown == CumulativeSeries(e)[DayOf(now)]
    <3>4. shown =
            LET sofar == {x \in DOMAIN DailySeries(e) : x <= DayOf(now)}
            IN [tickets |-> SumOf([x \in sofar |-> DailySeries(e)[x].tickets], sofar),
                revenue |-> SumOf([x \in sofar |-> DailySeries(e)[x].revenue], sofar)]
      <4> HIDE DEF P, K
      <4> QED BY <3>3 DEF CumulativeSeries
    <3> HIDE DEF K, P, revenue, tickets, until
    <3>5. shown = [tickets |-> SumOf(tickets, K), revenue |-> SumOf(revenue, K)]
      BY <3>1, <3>2, <3>4, Zenon
    <3> QED BY <3>5
  <2>9. Added(revenue) = SumOf(Subtotal, P) /\ Added(tickets) = SumOf(Quantity, P)
    <3> HIDE DEF P, K
    <3> QED BY <1>1, <2>2, SeriesAddUp
  <2>10. Added(revenue) = SumOf(revenue, K) /\ Added(tickets) = SumOf(tickets, K)
    BY DEF Added
  <2> HIDE DEF P, K, revenue, tickets
  <2> QED BY <1>2, <1>3, <2>8, <2>9, <2>10
<1> QED BY <1>4, <1>5

\* A ranking adds up to the money of the orders ranked.
LEMMA RankingAddsUp ==
  ASSUME NEW S \in SUBSET OrderIds, NEW key
  PROVE  Added(Ranked(key, S)) = SumOf(Total, S)
<1> DEFINE g == Ranked(key, S)
           K == DOMAIN Grouped(key, S)
<1>1. \A k \in K : g[k] = SumOf(Total, Grouped(key, S)[k])
  BY DEF Ranked
<1>2. DOMAIN g = K
  BY DEF Ranked
<1>3. \A o \in S : Total[o] \in Int
  BY ReportsAssumption DEF Total
<1> HIDE DEF g
<1>4. SumOf(g, K) = SumOf(Total, S)
  BY <1>1, <1>3, GroupedAddsUp
<1>5. Added(g) = SumOf(Total, S)
  BY <1>2, <1>4 DEF Added
<1> QED BY <1>5 DEF g

LEMMA PlatformShown == ReportsInv => PlatformAgrees
<1> SUFFICES ASSUME ReportsInv PROVE PlatformAgrees
  OBVIOUS
<1> USE ReportsAssumption
<1> DEFINE days == LastDay + 1
           rows == Since(days)
<1>1. rows = AllPaid /\ AllPaid \in SUBSET OrderIds
  BY DEF Since, AllPaid, PaidBetween, ReportsInv, ReportsTypeOK, EndOfTime, DayTicks
<1>2. /\ Overview.gmv = SumOf(Total, AllPaid) /\ Overview.earnings = SumOf(Subtotal, AllPaid)
      /\ Overview.fees = SumOf(Fees, AllPaid)
      /\ Overview.profit = SumOf(Fees, AllPaid) - SumOf(Processing, AllPaid)
  BY DEF Overview
<1>3. /\ SumOf(Total, AllPaid) = SumOf(Subtotal, AllPaid) + SumOf(Fees, AllPaid)
      /\ SumOf(Profit, AllPaid) = SumOf(Fees, AllPaid) - SumOf(Processing, AllPaid)
      /\ \A T \in SUBSET AllPaid : SumOf(Total, T) <= SumOf(Total, AllPaid)
  BY <1>1, OrderValues
<1>4. ASSUME NEW interval \in {"day", "week", "month"}
      PROVE  /\ Column(Revenue(interval, days), LAMBDA b : b.gmv) = Overview.gmv
             /\ Column(Revenue(interval, days), LAMBDA b : b.profit) = Overview.profit
  <2> DEFINE key == BucketOf(interval)
             K == DOMAIN Grouped(key, rows)
             gmv == [k \in K |-> Revenue(interval, days)[k].gmv]
             profit == [k \in K |-> Revenue(interval, days)[k].profit]
  <2>1. /\ \A k \in K : gmv[k] = SumOf(Total, Grouped(key, rows)[k])
        /\ \A k \in K : profit[k] = SumOf(Profit, Grouped(key, rows)[k])
        /\ DOMAIN Revenue(interval, days) = K
    BY DEF Revenue
  <2>2. (\A o \in rows : Total[o] \in Int) /\ (\A o \in rows : Profit[o] \in Int)
    BY <1>1 DEF Total, Profit
  <2>3. DOMAIN gmv = K /\ DOMAIN profit = K
    OBVIOUS
  <2>4. SumOf(gmv, K) = SumOf(Total, rows) /\ SumOf(profit, K) = SumOf(Profit, rows)
    <3> HIDE DEF gmv, profit, key, rows
    <3> QED BY <1>1, <2>1, <2>2, GroupedAddsUp
  <2>5. /\ Column(Revenue(interval, days), LAMBDA b : b.gmv) = Added(gmv)
        /\ Column(Revenue(interval, days), LAMBDA b : b.profit) = Added(profit)
    <3>1. /\ Column(Revenue(interval, days), LAMBDA b : b.gmv)
               = Added([k \in DOMAIN Revenue(interval, days) |-> Revenue(interval, days)[k].gmv])
          /\ Column(Revenue(interval, days), LAMBDA b : b.profit)
               = Added([k \in DOMAIN Revenue(interval, days) |-> Revenue(interval, days)[k].profit])
      BY DEF Column
    <3> QED BY <2>1, <3>1, Zenon
  <2>6. SumOf(Total, rows) = SumOf(Total, AllPaid) /\ SumOf(Profit, rows) = SumOf(Profit, AllPaid)
    BY <1>1, Zenon
  <2>7. Added(gmv) = SumOf(gmv, K) /\ Added(profit) = SumOf(profit, K)
    BY <2>3 DEF Added
  <2> HIDE DEF gmv, profit, K
  <2> QED BY <1>2, <1>3, <2>4, <2>5, <2>6, <2>7
<1>5. /\ Added(Leaderboards(days).events) = Overview.gmv
      /\ Added(Leaderboards(days).organisers) = Overview.gmv
      /\ Added(Leaderboards(days).categories) = Overview.gmv
      /\ Added(Leaderboards(days).cities) <= Overview.gmv
  <2> DEFINE known == {o \in rows : City[o] # NoCity}
  <2>1. /\ Leaderboards(days).events = Ranked(orderEvent, rows)
        /\ Leaderboards(days).organisers = Ranked(OrganiserOf, rows)
        /\ Leaderboards(days).categories = Ranked(CategoryOf, rows)
        /\ Leaderboards(days).cities = Ranked(City, known)
    BY DEF Leaderboards
  <2>2. known \in SUBSET AllPaid
    BY <1>1
  <2> HIDE DEF rows, known
  <2>3. /\ Added(Leaderboards(days).events) = SumOf(Total, rows)
        /\ Added(Leaderboards(days).organisers) = SumOf(Total, rows)
        /\ Added(Leaderboards(days).categories) = SumOf(Total, rows)
        /\ Added(Leaderboards(days).cities) = SumOf(Total, known)
    BY <1>1, <2>1, <2>2, RankingAddsUp
  <2>4. SumOf(Total, rows) = SumOf(Total, AllPaid)
    BY <1>1, Zenon
  <2> QED BY <1>2, <1>3, <2>2, <2>3, <2>4
<1>6. Overview.gmv = Overview.earnings + Overview.fees
  BY <1>2, <1>3
<1> QED BY <1>4, <1>5, <1>6 DEF PlatformAgrees

\* A quotient of zero is of no negative number.
LEMMA QuotientZero ==
  ASSUME NEW x \in Int, NEW d \in Nat, d > 0, x \div d = 0
  PROVE  x >= 0
  OBVIOUS

\* A change that is shown as none is a loss of less than a tenth of a percent.
LEMMA NoChangeShown ==
  ASSUME NEW p \in Nat, NEW c \in Nat, p > 0, Delta(p, c) = 0
  PROVE  p * 999 <= c * 1000
<1>1. (2 * ((c - p) * 1000) + p) \div (2 * p) = 0
  BY DEF Delta, Round
<1>2. 2 * ((c - p) * 1000) + p >= 0
  <2>1. 2 * ((c - p) * 1000) + p \in Int /\ 2 * p \in Nat /\ 2 * p > 0
    OBVIOUS
  <2> QED BY ONLY <1>1, <2>1, QuotientZero
<1> QED BY <1>2

\* The events a dashboard lists are some of those with orders.
LEMMA TopIsTop ==
  ASSUME NEW S \in SUBSET OrderIds,
         NEW top, top = CHOOSE t \in SUBSET DOMAIN PerEvent(S) : IsTop(t, PerEvent(S))
  PROVE  top \in SUBSET DOMAIN PerEvent(S) /\ IsTop(top, PerEvent(S))
<1> USE ReportsAssumption
<1> DEFINE K == DOMAIN PerEvent(S)
           v == [e \in K |-> SumOf(Subtotal, PerEvent(S)[e])]
           n == IF Cardinality(K) < TopLimit THEN Cardinality(K) ELSE TopLimit
<1>1. IsFiniteSet(K)
  <2> DEFINE J == {orderEvent[o] : o \in S}
             image == [o \in S |-> orderEvent[o]]
  <2>1. image \in Surjection(S, J)
    BY DEF Surjection
  <2>2. IsFiniteSet(S)
    BY FS_Subset
  <2>3. IsFiniteSet(J)
    BY <2>1, <2>2, FS_Surjection
  <2>4. J = K
    BY DEF PerEvent, Grouped
  <2> QED BY <2>3, <2>4
<1>2. \A e \in K : v[e] \in Int
  <2> SUFFICES ASSUME NEW e \in K PROVE SumOf(Subtotal, PerEvent(S)[e]) \in Int
    OBVIOUS
  <2>1. PerEvent(S)[e] \in SUBSET OrderIds
    BY DEF PerEvent, Grouped
  <2>2. SumOver(Subtotal, PerEvent(S)[e]) \in Nat
    BY <2>1, OrderSums
  <2> QED BY <2>2, SumOfIsSumOver
<1>3. n \in Nat /\ n <= Cardinality(K)
  BY <1>1, FS_CardinalityType
<1> HIDE DEF K, v, n
<1>4. \E t \in SUBSET K : Cardinality(t) = n /\ \A x \in t, y \in K \ t : v[x] >= v[y]
  BY <1>1, <1>2, <1>3, GreatestValues
<1>5. \E t \in SUBSET K : IsTop(t, PerEvent(S))
  BY <1>4 DEF IsTop, K, v, n
<1> QED BY <1>5 DEF K

LEMMA DashboardShown == ReportsInv => DashboardCovers
<1> SUFFICES ASSUME ReportsInv PROVE DashboardCovers
  OBVIOUS
<1> USE ReportsAssumption
<1>1. ASSUME NEW org \in {Organiser[e] : e \in EventIds}
      PROVE  LET all == OfOrganisation(org, PaidBetween(PreviousFrom, now))
                 gap == {o \in all : paidAt[o] > PreviousTo /\ paidAt[o] < CurrentFrom}
                 previous == BucketTotals(org, PreviousFrom, PreviousTo)
                 current == BucketTotals(org, CurrentFrom, now)
                 series == TimeSeries(org, CurrentFrom, now)
                 top == TopEvents(org, CurrentFrom, now)
             IN /\ previous.orders + current.orders = Cardinality(all \ gap)
                /\ Column(series, LAMBDA r : r.revenue) = current.revenue
                /\ Column(series, LAMBDA r : r.orders) = current.orders
                /\ Column(top, LAMBDA r : r.revenue) <= current.revenue
                /\ (Delta(previous.revenue, current.revenue) = 0 /\ previous.revenue > 0) =>
                     previous.revenue * 999 <= current.revenue * 1000
  <2> DEFINE all == OfOrganisation(org, PaidBetween(PreviousFrom, now))
             gap == {o \in all : paidAt[o] > PreviousTo /\ paidAt[o] < CurrentFrom}
             P == OfOrganisation(org, PaidBetween(PreviousFrom, PreviousTo))
             C == OfOrganisation(org, PaidBetween(CurrentFrom, now))
             previous == BucketTotals(org, PreviousFrom, PreviousTo)
             current == BucketTotals(org, CurrentFrom, now)
             series == TimeSeries(org, CurrentFrom, now)
             top == TopEvents(org, CurrentFrom, now)
  <2>1. /\ previous.orders = Cardinality(P) /\ previous.revenue = SumOf(Subtotal, P)
        /\ current.orders = Cardinality(C) /\ current.revenue = SumOf(Subtotal, C)
    BY DEF BucketTotals, TotalsOf
  <2>2. /\ now \in Int /\ CurrentFrom \in Int /\ CurrentFrom <= now
        /\ PreviousFrom \in Int /\ PreviousFrom <= CurrentFrom
        /\ PreviousTo \in Int /\ PreviousTo < CurrentFrom
    <3>1. now \in Int /\ now \in 0..EndOfTime
      BY DEF ReportsInv, ReportsTypeOK, EndOfTime, DayTicks
    <3>2. DayOf(now) \in Int /\ DayOf(now) * DayTicks <= now
      BY <3>1, Days
    <3> QED BY <3>1, <3>2 DEF CurrentFrom, PreviousFrom, PreviousTo, DayTicks, Second
  <2>3. \A o \in OrderIds : paidAt[o] \in Int
    BY DEF ReportsInv, ReportsTypeOK, EndOfTime, DayTicks
  <2>4. /\ P \in SUBSET OrderIds /\ C \in SUBSET OrderIds /\ P \cap C = {} /\ P \cup C = all \ gap
        /\ \A o \in C : CurrentFrom <= paidAt[o]
    BY <2>2, <2>3 DEF OfOrganisation, PaidBetween
  <2>5. IsFiniteSet(P) /\ IsFiniteSet(C)
    BY <2>4, FS_Subset
  <2>6. previous.orders + current.orders = Cardinality(all \ gap)
    <3> HIDE DEF all, gap, P, C, previous, current
    <3>1. Cardinality(P \cup C) = Cardinality(P) + Cardinality(C)
      <4>1. Cardinality(P \cup C) = Cardinality(P) + Cardinality(C) - Cardinality(P \cap C)
        BY <2>5, FS_Union
      <4>2. Cardinality(P \cap C) = 0
        BY <2>4, FS_EmptySet
      <4>3. Cardinality(P) \in Nat /\ Cardinality(C) \in Nat
        BY <2>5, FS_CardinalityType
      <4> QED BY <4>1, <4>2, <4>3
    <3>2. Cardinality(P \cup C) = Cardinality(all \ gap)
      BY <2>4, Zenon
    <3> QED BY <2>1, <3>1, <3>2
  <2>7. /\ Column(series, LAMBDA r : r.revenue) = current.revenue
        /\ Column(series, LAMBDA r : r.orders) = current.orders
    <3> DEFINE K == SeriesDays(CurrentFrom, now)
    <3>1. series = Series(C, K) /\ DOMAIN Series(C, K) = K
      BY DEF TimeSeries, Series
    <3> HIDE DEF C, K, series, current
    <3>2. IsFiniteSet(K) /\ \A o \in C : DayOf(paidAt[o]) \in K
      BY <2>2, <2>4, SeriesHold DEF K
    <3>3. /\ Added([d \in K |-> Series(C, K)[d].revenue]) = SumOf(Subtotal, C)
          /\ Added([d \in K |-> Series(C, K)[d].orders]) = Cardinality(C)
      BY <2>4, <3>2, SeriesAddUp
    <3>4. /\ Column(series, LAMBDA r : r.revenue)
               = Added([d \in DOMAIN series |-> series[d].revenue])
          /\ Column(series, LAMBDA r : r.orders)
               = Added([d \in DOMAIN series |-> series[d].orders])
      BY DEF Column
    <3>5. /\ Added([d \in DOMAIN series |-> series[d].revenue])
               = Added([d \in K |-> Series(C, K)[d].revenue])
          /\ Added([d \in DOMAIN series |-> series[d].orders])
               = Added([d \in K |-> Series(C, K)[d].orders])
      BY <3>1, Zenon
    <3> QED BY <2>1, <3>3, <3>4, <3>5
  <2>8. Column(top, LAMBDA r : r.revenue) <= current.revenue
    <3> DEFINE perEvent == PerEvent(C)
               listed == CHOOSE t \in SUBSET DOMAIN perEvent : IsTop(t, perEvent)
               T == {o \in C : orderEvent[o] \in listed}
               g == [e \in listed |-> SumOf(Subtotal, perEvent[e])]
    <3>1. listed \in SUBSET DOMAIN perEvent /\ IsTop(listed, perEvent)
      <4> HIDE DEF C
      <4> QED BY <2>4, TopIsTop
    <3>2. DOMAIN top = listed /\ \A e \in listed : top[e].revenue = SumOf(Subtotal, perEvent[e])
      BY DEF TopEvents
    <3>3. Column(top, LAMBDA r : r.revenue) = Added([e \in DOMAIN top |-> top[e].revenue])
      BY DEF Column
    <3> HIDE DEF top, listed, C, current
    <3>4. [e \in DOMAIN top |-> top[e].revenue] = g
      BY <3>2
    <3>5. IsFiniteSet(listed)
      <4> DEFINE J == {orderEvent[o] : o \in C}
                 image == [o \in C |-> orderEvent[o]]
      <4>1. image \in Surjection(C, J)
        BY DEF Surjection
      <4>2. IsFiniteSet(J)
        BY <2>5, <4>1, FS_Surjection
      <4>3. listed \in SUBSET J
        BY <3>1 DEF PerEvent, Grouped
      <4> QED BY <4>2, <4>3, FS_Subset
    <3>6. /\ T \in SUBSET OrderIds /\ T \in SUBSET C
          /\ \A o \in T : Subtotal[o] \in Int
          /\ \A o \in T : orderEvent[o] \in listed
          /\ \A k \in listed : perEvent[k] = {o \in T : orderEvent[o] = k}
          /\ \A k \in listed : g[k] = SumOf(Subtotal, perEvent[k])
          /\ DOMAIN g = listed
      <4>1. \A k \in listed : perEvent[k] = {o \in C : orderEvent[o] = k}
        BY <3>1 DEF PerEvent, Grouped
      <4>2. \A k \in listed : perEvent[k] = {o \in T : orderEvent[o] = k}
        BY <4>1
      <4> QED BY <2>4, <4>2
    <3> HIDE DEF T, g, perEvent
    <3>7. SumOf(g, listed) = SumOf(Subtotal, T)
      BY ONLY <3>5, <3>6, GroupsAddUp
    <3>8. Added(g) = SumOf(Subtotal, T)
      BY <3>6, <3>7 DEF Added
    <3>9. SumOf(Subtotal, T) <= SumOf(Subtotal, C)
      BY <2>4, <3>6, OrderValues
    <3>10. Added([e \in DOMAIN top |-> top[e].revenue]) = Added(g)
      BY <3>4, Zenon
    <3> QED BY <2>1, <3>3, <3>8, <3>9, <3>10
  <2>9. (Delta(previous.revenue, current.revenue) = 0 /\ previous.revenue > 0) =>
          previous.revenue * 999 <= current.revenue * 1000
    <3>1. SumOver(Subtotal, P) \in Nat /\ SumOver(Subtotal, C) \in Nat
      BY <2>4, OrderSums
    <3>2. previous.revenue \in Nat /\ current.revenue \in Nat
      BY <2>1, <3>1, SumOfIsSumOver
    <3> HIDE DEF previous, current
    <3> QED BY <3>2, NoChangeShown
  <2> QED BY <2>6, <2>7, <2>8, <2>9
<1> QED BY <1>1 DEF DashboardCovers

\* Whatever orders are placed, paid and refunded, and for ranges, intervals,
\* prices and fees of any size: the dashboard counts every order once but for
\* the second between its ranges, its series and the events it lists add up, an
\* event's sales are its counters, and the platform's series and leaderboards
\* are its overview.  (DashboardService, EventAnalyticsService,
\* EventSalesService, PlatformAnalyticsService)
THEOREM ReportsAlwaysAgree ==
  ReportsSpec => [](/\ ReportsTypeOK /\ ReportsAgree
                    /\ DashboardCovers /\ SalesAgree /\ PlatformAgrees)
<1>1. ReportsInv => /\ ReportsTypeOK /\ ReportsAgree
                    /\ DashboardCovers /\ SalesAgree /\ PlatformAgrees
  BY SalesShown, PlatformShown, DashboardShown DEF ReportsInv, ReportsAgree
<1> QED BY <1>1, ReportsInitInv, ReportsStep, PTL DEF ReportsSpec

=============================================================================
