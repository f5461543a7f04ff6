----------------------------- MODULE Catalogue -----------------------------
(***************************************************************************)
(* The events of one organisation: creation, update, publication,          *)
(* duplication and deletion, ticket types and the event's aggregates over  *)
(* them, the flyer in storage, the entry in the search index, and what the *)
(* hourly task, the admins and the organisation's suspension do to them.   *)
(*                                                                         *)
(* A request works on the event its controller loaded.  Files are stored   *)
(* and deleted, and the index written, outside the transactions.           *)
(* An event starts and ends in one step; what publishing asks for besides  *)
(* a flyer and a start ahead is taken as given.                            *)
(***************************************************************************)
EXTENDS Integers, FiniteSets, FiniteSetsExt

CONSTANTS Events,    \* event ids a run may create
          Types,     \* ticket type ids a run may create
          Hands,     \* requests running at the same time
          MaxFiles,  \* bound on the files stored
          MaxOrders, \* bound on the orders
          MaxEdits   \* bound on the requests

ASSUME CatalogueAssumption ==
  /\ MaxFiles \in Nat /\ MaxOrders \in Nat /\ MaxEdits \in Nat
  /\ IsFiniteSet(Events) /\ IsFiniteSet(Types)
  /\ "none" \notin Events /\ "deleted" \notin Events

VARIABLES status,      \* [Events -> EventStatus]
          over,        \* events whose dates have passed
          flyer,       \* [Events -> 0..MaxFiles]: flyer_path, 0 when null
          files,       \* files in storage
          typeOf,      \* [Types -> Events \cup {"none", "deleted"}]: event_tickets
          capped,      \* ticket types with max_per_user
          bought,      \* ticket types with order items
          count,       \* [Events -> Nat]: tickets_count
          eventsCount, \* events_count of the organisation
          pending,     \* [Events -> Nat]: orders waiting for their payment
          sold,        \* [Events -> Nat]: tickets_sold
          index,       \* events in the search index
          suspended,   \* the organisation's suspension
          hand,        \* [Hands -> Task] (volatile)
          stored, edits, ordered,  \* files, requests and orders so far
          late,        \* history: events sold after a request had counted their sales
          overruled,   \* history: events an admin took down or deleted
          skewed,      \* history: events whose types were changed side by side
          blurred,     \* history: events indexed on stale news, or left half done
          torn         \* history: events whose flyer two requests changed, or one left half done

shelf == <<status, over, flyer, eventsCount>>
stock == <<typeOf, capped, bought, count>>
sales == <<pending, sold, ordered, late>>
notes == <<overruled, skewed, blurred, torn>>
catalogueVars == <<shelf, files, stock, sales, index, suspended, hand, stored, edits, notes>>

EventStatus == {"none", "draft", "published", "past", "deleted"}
OnShelf == {e \in Events : status[e] \in {"draft", "published", "past"}}
TypesOf(e) == {t \in Types : typeOf[t] = e}
Shown(s) == s \in {"published", "past"}

Rest == [pc |-> "rest"]
Task ==
  {Rest}
    \cup [pc : {"edit"}, event : Events, old : 0..MaxFiles]
    \cup [pc : {"clear", "save"}, event : Events, old : 0..MaxFiles, new : 0..MaxFiles]
    \cup [pc : {"insert"}, new : 0..MaxFiles]
    \cup [pc : {"index"}, event : Events, seen : EventStatus]
    \cup [pc : {"publish", "unpublish", "takeDown", "close"}, event : Events]
    \cup [pc : {"clone"}, event : Events, n : Nat]
    \cup [pc : {"purge"}, event : Events, old : 0..MaxFiles]
    \cup [pc : {"unlist"}, event : Events, drop : BOOLEAN]
    \cup [pc : {"drop"}, event : Events]
    \cup [pc : {"recount"}, event : Events, type : Types, op : {"add", "edit", "delete"}, n : Int]
    \cup [pc : {"sweep"}, todo : SUBSET Events]
    \cup [pc : {"restore"}, todo : SUBSET Events, seen : [Events -> EventStatus]]
    \cup [pc : {"gather"}, lift : BOOLEAN]

CatalogueTypeOK ==
  /\ status \in [Events -> EventStatus]
  /\ over \subseteq Events
  /\ flyer \in [Events -> 0..MaxFiles] /\ files \subseteq 1..MaxFiles
  /\ typeOf \in [Types -> Events \cup {"none", "deleted"}]
  /\ capped \subseteq Types /\ bought \subseteq Types
  /\ count \in [Events -> Int] /\ eventsCount \in Int
  /\ pending \in [Events -> Nat] /\ sold \in [Events -> Nat]
  /\ index \subseteq Events /\ suspended \in BOOLEAN
  /\ hand \in [Hands -> Task]
  /\ stored \in 0..MaxFiles /\ edits \in 0..MaxEdits /\ ordered \in 0..MaxOrders
  /\ late \subseteq Events /\ overruled \subseteq Events /\ skewed \subseteq Events
  /\ blurred \subseteq Events /\ torn \subseteq Events

CatalogueInit ==
  /\ status = [e \in Events |-> "none"]
  /\ flyer = [e \in Events |-> 0] /\ files = {} /\ over = {}
  /\ typeOf = [t \in Types |-> "none"] /\ capped = {} /\ bought = {}
  /\ count = [e \in Events |-> 0] /\ eventsCount = 0
  /\ pending = [e \in Events |-> 0] /\ sold = [e \in Events |-> 0]
  /\ index = {} /\ suspended = FALSE
  /\ hand = [h \in Hands |-> Rest]
  /\ stored = 0 /\ edits = 0 /\ ordered = 0
  /\ late = {} /\ overruled = {} /\ skewed = {} /\ blurred = {} /\ torn = {}

In(h, pc) == hand[h].pc = pc
Turn(h, t) == hand' = [hand EXCEPT ![h] = t]
Done(h) == Turn(h, Rest)
Edit(h) == In(h, "rest") /\ edits < MaxEdits /\ edits' = edits + 1
NewTypes == {t \in Types : /\ typeOf[t] = "none"
                           /\ \A h \in Hands : In(h, "recount") => hand[h].type # t}
OthersAt(h, pcs, e) == \E g \in Hands \ {h} : hand[g].pc \in pcs /\ hand[g].event = e
Marked(set, e, cond) == IF cond THEN set \cup {e} ELSE set

\* The process ends between two steps of a request; a transaction leaves nothing.
Halt(h) ==
  /\ hand[h] # Rest /\ Done(h)
  /\ blurred' = CASE In(h, "unlist") -> blurred \cup {hand[h].event}
                   [] In(h, "gather") -> Events
                   [] In(h, "sweep") -> blurred \cup hand[h].todo
                   [] OTHER -> blurred
  /\ torn' = IF hand[h].pc \in {"clear", "save", "unlist", "drop"}
             THEN torn \cup {hand[h].event} ELSE torn
  /\ UNCHANGED <<shelf, files, stock, sales, index, suspended, stored, edits, overruled, skewed>>

----------------------------------------------------------------------------
(* Storage and the index *)

\* Another request that holds a flyer path of the event it loaded.
FlyerWriters == {"edit", "clear", "save", "purge", "unlist", "drop"}

\* indexEvent looks at the status that was loaded, and at no suspension.
Write(e, seen) ==
  /\ index' = IF Shown(seen) THEN index \cup {e} ELSE index \ {e}
  /\ blurred' = Marked(blurred, e, seen # status[e] \/ suspended)

Index(h) ==
  /\ In(h, "index") /\ Write(hand[h].event, hand[h].seen) /\ Done(h)
  /\ UNCHANGED <<shelf, files, stock, sales, suspended, stored, edits, overruled, skewed, torn>>

Unlist(h) ==
  /\ In(h, "unlist")
  /\ index' = index \ {hand[h].event}
  /\ IF hand[h].drop THEN Turn(h, [pc |-> "drop", event |-> hand[h].event]) ELSE Done(h)
  /\ UNCHANGED <<shelf, files, stock, sales, suspended, stored, edits, notes>>

----------------------------------------------------------------------------
(* EventManagerService *)

\* The flyer is stored before the row that names it.
StoreNew(h, with) ==
  /\ Edit(h)
  /\ IF with THEN /\ stored < MaxFiles /\ stored' = stored + 1
                  /\ files' = files \cup {stored + 1}
                  /\ Turn(h, [pc |-> "insert", new |-> stored + 1])
     ELSE Turn(h, [pc |-> "insert", new |-> 0]) /\ UNCHANGED <<stored, files>>
  /\ UNCHANGED <<shelf, stock, sales, index, suspended, notes>>

NewEvent(e, f) ==
  /\ status[e] = "none"
  /\ status' = [status EXCEPT ![e] = "draft"]
  /\ flyer' = [flyer EXCEPT ![e] = f]
  /\ eventsCount' = eventsCount + 1
  /\ UNCHANGED over

CreateEvent(h, e) ==
  /\ In(h, "insert") /\ NewEvent(e, hand[h].new)
  /\ Turn(h, [pc |-> "index", event |-> e, seen |-> "draft"])
  /\ UNCHANGED <<files, stock, sales, index, suspended, stored, edits, notes>>

LoadForUpdate(h, e) ==
  /\ Edit(h) /\ status[e] \in {"draft", "published"}
  /\ Turn(h, [pc |-> "edit", event |-> e, old |-> flyer[e]])
  /\ torn' = Marked(torn, e, OthersAt(h, FlyerWriters, e))
  /\ UNCHANGED <<shelf, files, stock, sales, index, suspended, stored, overruled, skewed, blurred>>

StoreFlyer(h) ==
  /\ In(h, "edit") /\ stored < MaxFiles
  /\ stored' = stored + 1 /\ files' = files \cup {stored + 1}
  /\ Turn(h, [pc |-> "clear", event |-> hand[h].event, old |-> hand[h].old, new |-> stored + 1])
  /\ UNCHANGED <<shelf, stock, sales, index, suspended, edits, notes>>

\* The old file goes before the row is updated.
DeleteOldFlyer(h) ==
  /\ In(h, "clear")
  /\ files' = files \ {hand[h].old}
  /\ Turn(h, [hand[h] EXCEPT !.pc = "save"])
  /\ UNCHANGED <<shelf, stock, sales, index, suspended, stored, edits, notes>>

\* The update sets what the request names, the dates among them, and then
\* loads the event for the index.
SaveEvent(h, dates) ==
  LET e == hand[h].event
  IN /\ hand[h].pc \in {"edit", "save"} /\ e \in OnShelf
     /\ flyer' = IF In(h, "save") THEN [flyer EXCEPT ![e] = hand[h].new] ELSE flyer
     /\ over' = IF dates = "past" THEN over \cup {e}
                ELSE IF dates = "ahead" THEN over \ {e} ELSE over
     /\ Turn(h, [pc |-> "index", event |-> e, seen |-> status[e]])
     /\ UNCHANGED <<status, eventsCount, files, stock, sales, index, suspended, stored, edits, notes>>

\* Only an event without sales is deleted.
DeleteEvent(h, e) ==
  /\ Edit(h) /\ e \in OnShelf /\ sold[e] = 0
  /\ Turn(h, [pc |-> "purge", event |-> e, old |-> flyer[e]])
  /\ torn' = Marked(torn, e, OthersAt(h, FlyerWriters, e))
  /\ UNCHANGED <<shelf, files, stock, sales, index, suspended, stored, overruled, skewed, blurred>>

\* purge: the files, then the index, then orders, tickets and the event.
Purge(h) ==
  /\ In(h, "purge")
  /\ files' = files \ {hand[h].old}
  /\ Turn(h, [pc |-> "unlist", event |-> hand[h].event, drop |-> TRUE])
  /\ UNCHANGED <<shelf, stock, sales, index, suspended, stored, edits, notes>>

DropEvent(h) ==
  LET e == hand[h].event
  IN /\ In(h, "drop") /\ e \in OnShelf
     /\ status' = [status EXCEPT ![e] = "deleted"]
     /\ eventsCount' = eventsCount - 1
     /\ pending' = [pending EXCEPT ![e] = 0]
     /\ typeOf' = [t \in Types |-> IF typeOf[t] = e THEN "deleted" ELSE typeOf[t]]
     /\ blurred' = Marked(blurred, e, e \in index)
     /\ Done(h)
     /\ UNCHANGED <<over, flyer, files, capped, bought, count, sold, ordered, late, index,
                    suspended, stored, edits, overruled, skewed, torn>>

----------------------------------------------------------------------------
(* EventPublisherService and EventDuplicatorService *)

\* A flyer and a start ahead; the status is not looked at.
Publishable(e) == e \in OnShelf /\ flyer[e] # 0 /\ e \notin over

Publish(h, e) ==
  /\ Edit(h) /\ Publishable(e)
  /\ Turn(h, [pc |-> "publish", event |-> e])
  /\ UNCHANGED <<shelf, files, stock, sales, index, suspended, stored, notes>>

SetStatus(e, s) ==
  /\ e \in OnShelf /\ status' = [status EXCEPT ![e] = s]
  /\ UNCHANGED <<over, flyer, eventsCount>>

SetPublished(h) ==
  LET e == hand[h].event
  IN /\ In(h, "publish") /\ SetStatus(e, "published")
     /\ Turn(h, [pc |-> "index", event |-> e, seen |-> "published"])
     /\ UNCHANGED <<files, stock, sales, index, suspended, stored, edits, notes>>

\* Mutant of Unpublish: the sales are not looked at.
UnpublishSold(h, e) ==
  /\ Edit(h) /\ status[e] = "published"
  /\ Turn(h, [pc |-> "unpublish", event |-> e])
  /\ UNCHANGED <<shelf, files, stock, sales, index, suspended, stored, notes>>
\* Only a published event without sales is taken back.
Unpublish(h, e) ==
  /\ Edit(h) /\ status[e] = "published" /\ sold[e] = 0
  /\ Turn(h, [pc |-> "unpublish", event |-> e])
  /\ UNCHANGED <<shelf, files, stock, sales, index, suspended, stored, notes>>

SetDraft(h) ==
  LET e == hand[h].event
  IN /\ In(h, "unpublish") /\ SetStatus(e, "draft")
     /\ Turn(h, [pc |-> "unlist", event |-> e, drop |-> FALSE])
     /\ UNCHANGED <<files, stock, sales, index, suspended, stored, edits, notes>>

\* A copy has the ticket types without their cap per user, and no flyer.
Duplicate(h, e) ==
  /\ Edit(h) /\ e \in OnShelf
  /\ Turn(h, [pc |-> "clone", event |-> e, n |-> Cardinality(TypesOf(e))])
  /\ UNCHANGED <<shelf, files, stock, sales, index, suspended, stored, notes>>

Clone(h, e, copies) ==
  /\ In(h, "clone") /\ NewEvent(e, 0)
  /\ copies \subseteq NewTypes /\ Cardinality(copies) = hand[h].n
  /\ typeOf' = [t \in Types |-> IF t \in copies THEN e ELSE typeOf[t]]
  /\ count' = [count EXCEPT ![e] = Cardinality(copies)]
  /\ Done(h)
  /\ UNCHANGED <<files, capped, bought, sales, index, suspended, stored, edits, notes>>

----------------------------------------------------------------------------
(* TicketsService: the row, then the event's aggregates as one transaction  *)
(* sees them, which is without the rows of one that has not committed.      *)

BeginTypes(h, e, t, op, n) ==
  /\ Edit(h) /\ status[e] \in {"draft", "published"}
  /\ Turn(h, [pc |-> "recount", event |-> e, type |-> t, op |-> op, n |-> n])
  /\ skewed' = Marked(skewed, e, OthersAt(h, {"recount"}, e))
  /\ UNCHANGED <<shelf, files, stock, sales, index, suspended, stored, overruled, blurred, torn>>

AddType(h, e, t) ==
  /\ t \in NewTypes
  /\ BeginTypes(h, e, t, "add", Cardinality(TypesOf(e)) + 1)
EditType(h, e, t) ==
  t \in TypesOf(e) /\ BeginTypes(h, e, t, "edit", Cardinality(TypesOf(e)))
DeleteType(h, e, t) ==
  t \in TypesOf(e) /\ BeginTypes(h, e, t, "delete", Cardinality(TypesOf(e)) - 1)

Recount(e, n) == count' = [count EXCEPT ![e] = n]

\* Order items keep a type from being deleted.
CommitTypes(h, cap) ==
  LET r == hand[h]
  IN /\ In(h, "recount") /\ r.event \in OnShelf
     /\ r.op # "add" => typeOf[r.type] = r.event
     /\ r.op = "delete" => r.type \notin bought /\ cap = FALSE
     /\ typeOf' = IF r.op = "edit" THEN typeOf
                  ELSE [typeOf EXCEPT ![r.type] = IF r.op = "add" THEN r.event ELSE "deleted"]
     /\ capped' = IF cap THEN capped \cup {r.type} ELSE capped \ {r.type}
     /\ Recount(r.event, r.n)
     /\ Done(h)
     /\ UNCHANGED <<shelf, files, bought, sales, index, suspended, stored, edits, notes>>

----------------------------------------------------------------------------
(* Orders, as far as an event sees them: placed while it is published,      *)
(* fulfilled whenever the payment comes.                                    *)

PlaceOrder(t) ==
  LET e == typeOf[t]
  IN /\ e \in Events /\ ordered < MaxOrders /\ status[e] = "published" /\ ~suspended
     /\ ordered' = ordered + 1
     /\ bought' = bought \cup {t}
     /\ pending' = [pending EXCEPT ![e] = @ + 1]
     /\ UNCHANGED <<shelf, files, typeOf, capped, count, sold, late, index, suspended, hand,
                    stored, edits, notes>>

TakingDown == {"unpublish", "purge", "unlist", "drop"}
Fulfill(e) ==
  /\ pending[e] > 0
  /\ pending' = [pending EXCEPT ![e] = @ - 1]
  /\ sold' = [sold EXCEPT ![e] = @ + 1]
  /\ late' = Marked(late, e, status[e] = "draft"
                             \/ \E h \in Hands : hand[h].pc \in TakingDown /\ hand[h].event = e)
  /\ UNCHANGED <<shelf, files, stock, ordered, index, suspended, hand, stored, edits, notes>>

----------------------------------------------------------------------------
(* Time, the hourly task and the admins *)

End(e) ==
  /\ e \in OnShelf \ over /\ over' = over \cup {e}
  /\ UNCHANGED <<status, flyer, eventsCount, files, stock, sales, index, suspended, hand,
                 stored, edits, notes>>

MarkPastEvents ==
  /\ \E e \in over : status[e] = "published"
  /\ status' = [e \in Events |-> IF status[e] = "published" /\ e \in over THEN "past"
                                 ELSE status[e]]
  /\ UNCHANGED <<over, flyer, eventsCount, files, stock, sales, index, suspended, hand, stored,
                 edits, notes>>

AdminLoads(h, e, pc) ==
  /\ Edit(h) /\ e \in OnShelf
  /\ \/ pc = "takeDown" /\ status[e] = "published"
     \/ pc = "close" /\ status[e] # "past"
  /\ Turn(h, [pc |-> pc, event |-> e])
  /\ UNCHANGED <<shelf, files, stock, sales, index, suspended, stored, notes>>

\* The admin's unpublish looks at no sales and leaves the index alone.
AdminSets(h) ==
  LET e == hand[h].event
  IN /\ hand[h].pc \in {"takeDown", "close"}
     /\ SetStatus(e, IF In(h, "close") THEN "past" ELSE "draft")
     /\ overruled' = Marked(overruled, e, In(h, "takeDown"))
     /\ blurred' = Marked(blurred, e, In(h, "takeDown"))
     /\ Done(h)
     /\ UNCHANGED <<files, stock, sales, index, suspended, stored, edits, skewed, torn>>

AdminDelete(h, e) ==
  /\ Edit(h) /\ e \in OnShelf
  /\ Turn(h, [pc |-> "purge", event |-> e, old |-> flyer[e]])
  /\ overruled' = overruled \cup {e}
  /\ torn' = Marked(torn, e, OthersAt(h, FlyerWriters, e))
  /\ UNCHANGED <<shelf, files, stock, sales, index, suspended, stored, skewed, blurred>>

\* The organisation's suspension, lifted or not, and then its events.
SuspendOrganisation(h, lift) ==
  /\ Edit(h)
  /\ lift => suspended
  /\ suspended' = ~lift
  /\ Turn(h, [pc |-> "gather", lift |-> lift])
  /\ UNCHANGED <<shelf, files, stock, sales, index, stored, notes>>

Gather(h) ==
  /\ In(h, "gather")
  /\ IF OnShelf = {} THEN Done(h)
     ELSE IF hand[h].lift THEN Turn(h, [pc |-> "restore", todo |-> OnShelf, seen |-> status])
     ELSE Turn(h, [pc |-> "sweep", todo |-> OnShelf])
  /\ UNCHANGED <<shelf, files, stock, sales, index, suspended, stored, edits, notes>>

\* The whole index is rebuilt from the events shown when it began.
ReindexAll(h) ==
  LET shown == {e \in Events : Shown(status[e])}
  IN /\ Edit(h) /\ shown # {}
     /\ Turn(h, [pc |-> "restore", todo |-> shown, seen |-> status])
     /\ UNCHANGED <<shelf, files, stock, sales, index, suspended, stored, notes>>

Onward(h, e) == IF hand[h].todo = {e} THEN Done(h) ELSE Turn(h, [hand[h] EXCEPT !.todo = @ \ {e}])

Restore(h) ==
  /\ In(h, "restore")
  /\ \E e \in hand[h].todo : Write(e, hand[h].seen[e]) /\ Onward(h, e)
  /\ UNCHANGED <<shelf, files, stock, sales, suspended, stored, edits, overruled, skewed, torn>>

Sweep(h) ==
  /\ In(h, "sweep")
  /\ \E e \in hand[h].todo : index' = index \ {e} /\ Onward(h, e)
  /\ UNCHANGED <<shelf, files, stock, sales, suspended, stored, edits, notes>>

----------------------------------------------------------------------------
(* The routes *)

EventsController ==
  \E h \in Hands :
    \/ \E b \in BOOLEAN : StoreNew(h, b)
    \/ \E d \in {"kept", "past", "ahead"} : SaveEvent(h, d)
    \/ \E e \in Events :
         \/ CreateEvent(h, e) \/ LoadForUpdate(h, e) \/ DeleteEvent(h, e)
         \/ Publish(h, e) \/ Unpublish(h, e) \/ Duplicate(h, e)
         \/ \E copies \in SUBSET Types : Clone(h, e, copies)
    \/ StoreFlyer(h) \/ DeleteOldFlyer(h) \/ Purge(h) \/ DropEvent(h)
    \/ SetPublished(h) \/ SetDraft(h) \/ Index(h) \/ Unlist(h)

TicketsController ==
  \E h \in Hands :
    \/ \E e \in Events, t \in Types : AddType(h, e, t) \/ EditType(h, e, t) \/ DeleteType(h, e, t)
    \/ \E b \in BOOLEAN : CommitTypes(h, b)

AdminEventsController ==
  \E h \in Hands :
    \/ \E e \in Events : AdminLoads(h, e, "takeDown") \/ AdminLoads(h, e, "close")
                           \/ AdminDelete(h, e)
    \/ AdminSets(h)

OrganisationModeration ==
  \E h \in Hands :
    \/ \E b \in BOOLEAN : SuspendOrganisation(h, b)
    \/ Gather(h) \/ Restore(h) \/ Sweep(h) \/ ReindexAll(h)

CatalogueNext ==
  \/ EventsController \/ TicketsController \/ AdminEventsController \/ OrganisationModeration
  \/ \E t \in Types : PlaceOrder(t)
  \/ \E e \in Events : Fulfill(e) \/ End(e)
  \/ MarkPastEvents
  \/ \E h \in Hands : Halt(h)

CatalogueSpec == CatalogueInit /\ [][CatalogueNext]_catalogueVars

----------------------------------------------------------------------------
(* Properties *)

\* An event with sales stays up: it is a draft or deleted only when an admin
\* took it down, or when the sale came after the organiser's request had
\* looked at the count, or from an order of before.
SoldStaysUp ==
  \A e \in Events \ (late \cup overruled) :
    sold[e] > 0 => status[e] \in {"published", "past"}

\* Search shows no draft, no deleted event and no event of a suspended
\* organisation, but while the request that hides it is still at it, or after
\* somebody indexed what it had loaded before, indexed beside a suspension,
\* died in between, or an admin took the event down.
IndexExplained ==
  \A e \in index \ blurred :
    \/ Shown(status[e]) /\ ~suspended
    \/ \E h \in Hands : \/ In(h, "unlist") /\ hand[h].event = e
                        \/ In(h, "gather")
                        \/ In(h, "sweep") /\ e \in hand[h].todo

\* An event's tickets_count is the number of its types, unless two requests
\* changed its types side by side.
AggregatesExplained ==
  \A e \in OnShelf \ skewed : count[e] = Cardinality(TypesOf(e))

\* The flyer an event names is in storage, but between the deletion of the old
\* one and the update, and after two requests changed it side by side or one
\* died in between.
FlyerStored ==
  \A e \in OnShelf \ torn :
    \/ flyer[e] \in files \cup {0}
    \/ \E h \in Hands : hand[h].pc \in {"save", "unlist", "drop"} /\ hand[h].event = e

\* The organisation's events_count is the number of its events.
EventsCountExact == eventsCount = Cardinality(OnShelf)

\* What is derived from an event's row, or stored beside it, agrees with it.
DerivedExplained == IndexExplained /\ AggregatesExplained /\ FlyerStored /\ EventsCountExact

\* The catalogue shows what its events are.
CatalogueExplained == SoldStaysUp /\ DerivedExplained

=============================================================================
