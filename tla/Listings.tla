------------------------------ MODULE Listings ------------------------------
(***************************************************************************)
(* Long lists read piece by piece while their rows change: the exports of  *)
(* EventExportsService and the sheets ExportEngineService makes of them,   *)
(* the pages of TicketListingService, CommentListingService, BlocksService,*)
(* and the counts that are put together from two queries.                  *)
(*                                                                         *)
(* Nothing keeps the rows still between two queries, nor between the count *)
(* of a page and its rows: the database reads what is committed by then.   *)
(* One list is read once, to its end; what a row says is left out.         *)
(***************************************************************************)
EXTENDS Integers, Sequences, FiniteSets, SequencesExt, FiniteSetsExt

CONSTANTS MaxRow,     \* rows are numbered 1..MaxRow in the order of the list
          Chunk,      \* rows to a batch or a page
          Kinds,      \* TicketTypes, or events: row r is of kind KindOf(r)
          MaxUpdates  \* bound on the changes of the rows

ASSUME ListingsAssumption ==
  MaxRow \in Nat \ {0} /\ Chunk \in Nat \ {0} /\ Kinds \in Nat \ {0} /\ MaxUpdates \in Nat

VARIABLES listing,  \* which list is read
          present,  \* the rows that belong to it now
          known,    \* kinds there are
          reader,   \* what the reader does next, and from where on
          given,    \* rows read so far, in order
          sheet,    \* the lines of the document, Heading for one that is not a row
          updates,  \* changes so far
          passed,   \* history: rows that once belonged to it
          steady,   \* history: rows that belonged to it all the time
          gained,   \* history: rows that came since the reading began
          dwindled,     \* history: rows that left since
          squeezed,  \* history: rows that came between a count and its rows
          shaken    \* history: what a page, a cursor or a sum rests on was removed, or added

listVars == <<listing, present, known, passed>>
readVars == <<reader, given, sheet>>
listHistory == <<steady, gained, dwindled, squeezed, shaken>>
listingVars == <<listVars, readVars, updates, listHistory>>

ByCursor == {"orders", "tickets"}
Exports == ByCursor \cup {"rsvps"}
Pages == {"held tickets", "event tickets", "comments", "user comments", "replies", "blocked"}
Sums == {"check-in", "held events"}
Listed == 1..MaxRow
KindOf(r) == r % Kinds

Heading == 0
ListingsTypeOK ==
  /\ listing \in Exports \cup Pages \cup Sums
  /\ present \subseteq passed /\ passed \subseteq Listed /\ known \subseteq 0..(Kinds - 1)
  /\ reader \in [pc : {"batch", "render", "count", "rows", "sum", "counts", "kinds", "done"},
                 from : Nat, total : Nat]
  /\ given \in Seq(Listed) /\ sheet \in Seq(Nat)
  /\ updates \in 0..MaxUpdates /\ steady \subseteq present
  /\ gained \in Nat /\ dwindled \in Nat /\ squeezed \in Nat /\ shaken \in BOOLEAN

Reads(pc) == reader.pc = pc
ListingsInit ==
  /\ listing \in Exports \cup Pages \cup Sums
  /\ present \in {1..n : n \in 0..(MaxRow - 1)} /\ passed = present /\ steady = present
  /\ known = {KindOf(r) : r \in present}
  /\ reader = [pc |-> IF listing \in Exports THEN "batch"
                      ELSE IF listing \in Pages THEN "count" ELSE "sum",
               from |-> 0, total |-> 0]
  /\ given = <<>> /\ sheet = <<>> /\ updates = 0
  /\ gained = 0 /\ dwindled = 0 /\ squeezed = 0 /\ shaken = FALSE

----------------------------------------------------------------------------
(* What changes the rows *)

Update == updates < MaxUpdates /\ updates' = updates + 1 /\ UNCHANGED <<listing, readVars>>

Comes(r) ==
  /\ present' = present \cup {r} /\ passed' = passed \cup {r} /\ gained' = gained + 1
  /\ squeezed' = IF Reads("rows") THEN squeezed + 1 ELSE squeezed
  /\ UNCHANGED <<known, steady, dwindled>>

\* A new row is the newest; among held tickets the event's date comes first.
Join(r) ==
  /\ Update /\ r \notin passed /\ KindOf(r) \in known
  /\ listing = "held tickets" \/ \A s \in passed : s < r
  /\ Comes(r) /\ UNCHANGED shaken

\* A flag is lifted, a ticket is sent back or reissued.
Return(r) ==
  /\ Update /\ listing \in Pages \ {"blocked"} /\ r \in passed \ present
  /\ Comes(r) /\ UNCHANGED shaken

\* An RSVP is withdrawn, a comment flagged, a ticket transferred or scanned, a block lifted.
\* Nothing takes an order or a ticket out of its event.
DropOut(r) ==
  /\ Update /\ r \in present /\ listing \in Pages \cup {"rsvps"}
  /\ present' = present \ {r} /\ steady' = steady \ {r} /\ dwindled' = dwindled + 1
  /\ UNCHANGED <<known, passed, gained, squeezed, shaken>>

\* A ticket type is added; between the two queries its tickets may be sold.
AddKind ==
  /\ Update /\ listing = "check-in"
  /\ \E k \in 0..(Kinds - 1) \ known : known' = known \cup {k}
  /\ shaken' = (shaken \/ Reads("counts"))
  /\ UNCHANGED <<present, passed, steady, gained, dwindled, squeezed>>

\* EventsService.purge: an event goes with all its rows.
Purge ==
  /\ Update
  /\ IF listing \in Exports \cup {"event tickets", "comments", "replies"}
     THEN /\ present' = {} /\ steady' = {} /\ dwindled' = dwindled + Cardinality(present)
          /\ shaken' = TRUE /\ UNCHANGED known
     ELSE /\ listing = "held events"
          /\ \E k \in known :
               LET its == {r \in present : KindOf(r) = k}
               IN /\ known' = known \ {k}
                  /\ present' = present \ its /\ steady' = steady \ its
                  /\ dwindled' = dwindled + Cardinality(its)
                  /\ shaken' = (shaken \/ Reads("kinds"))
  /\ UNCHANGED <<passed, gained, squeezed>>

----------------------------------------------------------------------------
(* The queries *)

\* ORDER BY: the n-th row is the one with n rows up to and including itself.
Newest(S) == [n \in 1..Cardinality(S) |-> CHOOSE r \in S : Cardinality({s \in S : s >= r}) = n]
Oldest(S) == [n \in 1..Cardinality(S) |-> CHOOSE r \in S : Cardinality({s \in S : s <= r}) = n]
From(s, n) == SubSeq(s, n + 1, IF n + Chunk < Len(s) THEN n + Chunk ELSE Len(s))

\* Mutant of OrderBatch: the row of the cursor is not skipped.
OrderBatchWith(cursor) == From(Newest({r \in present : cursor = 0 \/ r <= cursor}), 0)
\* Where the cursor's row is gone the database finds no place to go on from.
OrderBatch(cursor) ==
  IF cursor = 0 THEN From(Newest(present), 0)
  ELSE IF cursor \in present THEN From(Newest({r \in present : r < cursor}), 0) ELSE <<>>
TicketBatch(cursor) == OrderBatch(cursor)
RsvpBatch(skip) == From(Newest(present), skip)

HeldPage(skip) == From(Newest(present), skip)
EventPage(skip) == From(Newest(present), skip)
CommentPage(skip) == From(Newest(present), skip)
UserCommentsPage(skip) == From(Newest(present), skip)
BlockedPage(skip) == From(Newest(present), skip)
ReplyPage(skip) == From(Oldest(present), skip)

Piece ==
  CASE listing = "orders" -> OrderBatch(reader.from)
    [] listing = "tickets" -> TicketBatch(reader.from)
    [] listing = "rsvps" -> RsvpBatch(reader.from)
    [] listing = "held tickets" -> HeldPage(reader.from)
    [] listing = "event tickets" -> EventPage(reader.from)
    [] listing = "comments" -> CommentPage(reader.from)
    [] listing = "user comments" -> UserCommentsPage(reader.from)
    [] listing = "blocked" -> BlockedPage(reader.from)
    [] listing = "replies" -> ReplyPage(reader.from)

\* The export goes on until a batch is short.
NextBatch ==
  /\ Reads("batch")
  /\ given' = given \o Piece
  /\ reader' = IF Len(Piece) < Chunk THEN [reader EXCEPT !.pc = "render"]
               ELSE [reader EXCEPT !.from = IF listing \in ByCursor THEN Piece[Chunk]
                                            ELSE @ + Chunk]
  /\ UNCHANGED <<listVars, sheet, updates, listHistory>>

\* A page: first how many rows there are, then the rows.
CountRows ==
  /\ Reads("count")
  /\ reader' = [reader EXCEPT !.pc = "rows", !.total = Cardinality(present)]
  /\ UNCHANGED <<listVars, given, sheet, updates, listHistory>>

LastPage == Max({(reader.total + Chunk - 1) \div Chunk, 1})

\* The reader turns the pages up to the last one it has been told of.
ReadRows ==
  /\ Reads("rows")
  /\ given' = given \o Piece
  /\ reader' = IF reader.from + Chunk < LastPage * Chunk
               THEN [pc |-> "count", from |-> reader.from + Chunk, total |-> 0]
               ELSE [reader EXCEPT !.pc = "done"]
  /\ UNCHANGED <<listVars, sheet, updates, listHistory>>

----------------------------------------------------------------------------
(* The sheets *)

Csv(rows) == <<Heading>> \o rows
Xlsx(rows) == <<Heading, Heading, Heading>> \o rows
Pdf(rows) == <<Heading, Heading>> \o rows

Render ==
  /\ Reads("render")
  /\ sheet' \in {Csv(given), Xlsx(given), Pdf(given)}
  /\ reader' = [reader EXCEPT !.pc = "done"]
  /\ UNCHANGED <<listVars, given, updates, listHistory>>

----------------------------------------------------------------------------
(* Counts from two queries: reader.from tells whether the kinds are read, *)
(* given holds the tickets counted, sheet the kinds (k as k + 1).         *)

Kinded(S) == {k + 1 : k \in S}

\* checkInSummary sends both queries at once: either may be answered first.
CheckInSummary ==
  /\ listing = "check-in"
  /\ \/ /\ Reads("sum") /\ given' = Newest(present) /\ UNCHANGED sheet
        /\ reader' = [reader EXCEPT !.pc = "kinds"]
     \/ /\ Reads("sum") /\ sheet' = Oldest(Kinded(known)) /\ UNCHANGED given
        /\ reader' = [reader EXCEPT !.pc = "counts"]
     \/ /\ Reads("kinds") /\ sheet' = Oldest(Kinded(known)) /\ UNCHANGED given
        /\ reader' = [reader EXCEPT !.pc = "done"]
     \/ /\ Reads("counts") /\ given' = Newest(present) /\ UNCHANGED sheet
        /\ reader' = [reader EXCEPT !.pc = "done"]
  /\ UNCHANGED <<listVars, updates, listHistory>>

\* eventsHeldBy counts the tickets, then loads their events.
EventsHeldBy ==
  /\ listing = "held events"
  /\ \/ /\ Reads("sum") /\ given' = Newest(present) /\ UNCHANGED sheet
        /\ reader' = [reader EXCEPT !.pc = "kinds"]
     \/ /\ Reads("kinds")
        /\ sheet' = Oldest(Kinded({KindOf(r) : r \in ToSet(given)} \cap known))
        /\ UNCHANGED given
        /\ reader' = [reader EXCEPT !.pc = "done"]
  /\ UNCHANGED <<listVars, updates, listHistory>>

----------------------------------------------------------------------------

ExportsController == NextBatch \/ Render
ListsControllers == CountRows \/ ReadRows \/ CheckInSummary \/ EventsHeldBy

ListingsNext ==
  \/ ExportsController \/ ListsControllers
  \/ \E r \in Listed : Join(r) \/ Return(r) \/ DropOut(r)
  \/ AddKind \/ Purge

ListingsSpec == ListingsInit /\ [][ListingsNext]_listingVars

----------------------------------------------------------------------------
(* Properties *)

\* The lines that are rows, how many of them are repeated, and the rows left out.
Lines(s) == {i \in DOMAIN s : s[i] # Heading}
Twice(s) == Cardinality(Lines(s)) - Cardinality(ToSet(s) \ {Heading})
Missed(s) == Cardinality(steady \ ToSet(s))

\* An export by cursor holds every row once, newest first, and all that were
\* there when it began, whatever is sold meanwhile; only a deletion of the
\* event cuts it off.  (EventExportsService.orders, issuedTickets)
CursorExact ==
  listing \in ByCursor /\ Reads("done") =>
    /\ \A i, j \in Lines(sheet) : i < j => sheet[i] > sheet[j]
    /\ Missed(sheet) = 0

\* An export by offset repeats at most as many rows as came meanwhile and
\* skips at most as many as left.  (EventExportsService.rsvps)
OffsetBounded ==
  listing = "rsvps" /\ Reads("done") =>
    Twice(sheet) <= gained /\ Missed(sheet) <= dwindled

\* So do the pages, and they may end early for rows that came between a count
\* and its rows; a page of replies repeats none for new ones.
\* (TicketListingService, CommentListingService)
PagesBounded ==
  listing \in Pages /\ Reads("done") =>
    /\ Missed(given) <= dwindled + squeezed
    /\ Twice(given) <= gained
    /\ (listing = "replies" /\ dwindled = 0) => Twice(given) = 0

\* The kinds shown account for all the tickets counted, unless a type was
\* added between the two queries, or an event deleted.
\* (checkInSummary, eventsHeldBy)
SumsExact ==
  listing \in Sums /\ Reads("done") /\ ~shaken =>
    {KindOf(r) + 1 : r \in ToSet(given)} \subseteq ToSet(sheet)

\* A list read piece by piece differs from the rows that were there only by
\* what came or left meanwhile.
ListingsExplained == CursorExact /\ OffsetBounded /\ PagesBounded /\ SumsExact
=============================================================================
