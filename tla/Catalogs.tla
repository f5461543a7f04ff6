------------------------------ MODULE Catalogs ------------------------------
(***************************************************************************)
(* The catalogues an admin keeps and the rows that name their entries:     *)
(* interests of profiles and of events, categories and social platforms of *)
(* organisations, reasons of reports.  They are kept alike and share no    *)
(* state, so catalogue says which one a behaviour is about.                *)
(*                                                                         *)
(* A request checks the entries it names and stores them in a later        *)
(* transaction, where only the foreign keys look again: an entry that went *)
(* takes the rows naming it along, or is kept by them if it is a reason.   *)
(* A list is replaced by deleting the rows a statement sees and inserting  *)
(* the new ones; a request that also changes the row the list belongs to   *)
(* holds that row from before until it commits.                            *)
(***************************************************************************)
EXTENDS Integers, FiniteSets

CONSTANTS Entries,   \* entries an admin may create
          Pickers,   \* accounts, events, organisations or reporters
          Forms,     \* requests running at the same time
          MaxUpserts \* bound on the requests

ASSUME CatalogsAssumption == MaxUpserts \in Nat

VARIABLES catalogue, \* the catalogue looked at
          entry,     \* [Entries -> EntryState]
          terms,     \* [Entries -> Terms]: whom a reason is for
          linked,    \* [Pickers -> SUBSET Entries]: the entries each names
          filed,     \* reports
          form,      \* [Forms -> Form] (volatile)
          upserts,   \* requests so far
          offered,   \* history: [Pickers -> SUBSET SUBSET Entries], lists accepted
          jumbled    \* history: owners whose lists two requests replaced at once

entryRows == <<entry, terms>>
notesTaken == <<offered, jumbled>>
catalogVars == <<catalogue, entryRows, linked, filed, form, upserts, notesTaken>>

Catalogues == {"interests", "event interests", "categories", "platforms", "reasons"}
EntryState == {"unborn", "active", "inactive", "gone"}
ScopeTypes == {"event", "comment"}
TargetTypes == {"event", "event_comment"}
Terms == [scope : SUBSET ScopeTypes, details : BOOLEAN]
Report == [by : Pickers, on : TargetTypes, reason : Entries, scope : SUBSET ScopeTypes]

Blank == [pc |-> "free"]
Form ==
  {Blank}
    \cup [pc : {"check", "begin", "delete"}, by : Pickers, want : SUBSET Entries,
          touch : BOOLEAN, held : BOOLEAN]
    \cup [pc : {"insert"}, by : Pickers, want : SUBSET Entries,
          touch : BOOLEAN, held : BOOLEAN, seen : SUBSET Entries]
    \cup [pc : {"file"}, report : Report]
    \cup [pc : {"remove"}, reason : Entries]

CatalogsTypeOK ==
  /\ catalogue \in Catalogues
  /\ entry \in [Entries -> EntryState] /\ terms \in [Entries -> Terms]
  /\ linked \in [Pickers -> SUBSET Entries] /\ filed \subseteq Report
  /\ form \in [Forms -> Form] /\ upserts \in 0..MaxUpserts
  /\ offered \in [Pickers -> SUBSET SUBSET Entries] /\ jumbled \subseteq Pickers

CatalogsInit ==
  /\ catalogue \in Catalogues
  /\ entry \in [Entries -> {"unborn", "active"}]
  /\ terms = [i \in Entries |-> [scope |-> {}, details |-> FALSE]]
  /\ linked = [o \in Pickers |-> {}] /\ filed = {}
  /\ form = [d \in Forms |-> Blank] /\ upserts = 0
  /\ offered = [o \in Pickers |-> {{}}] /\ jumbled = {}

InStock(i) == entry[i] \in {"active", "inactive"}
Filling(d, pc) == form[d].pc = pc
Fill(d, j) == form' = [form EXCEPT ![d] = j]
Submit == upserts < MaxUpserts /\ upserts' = upserts + 1
Replaces(d) == form[d].pc \in {"check", "begin", "delete", "insert"}

\* Refused by a rule or a key, or the process dies: the transaction is undone.
Retract(d) ==
  /\ form[d] # Blank /\ Fill(d, Blank)
  /\ UNCHANGED <<catalogue, entryRows, linked, filed, upserts, notesTaken>>

----------------------------------------------------------------------------
(* CatalogService: the entries *)

CreateEntry(i) ==
  /\ Submit /\ entry[i] = "unborn"
  /\ entry' = [entry EXCEPT ![i] = "active"]
  /\ UNCHANGED <<catalogue, terms, linked, filed, form, notesTaken>>

UpdateEntry(i, active) ==
  /\ Submit /\ InStock(i)
  /\ entry' = [entry EXCEPT ![i] = IF active THEN "active" ELSE "inactive"]
  /\ UNCHANGED <<catalogue, terms, linked, filed, form, notesTaken>>

\* The rows naming it go, or the column naming it is emptied.
DeleteEntry(i) ==
  /\ Submit /\ InStock(i)
  /\ entry' = [entry EXCEPT ![i] = "gone"]
  /\ linked' = [o \in Pickers |-> linked[o] \ {i}]
  /\ UNCHANGED <<catalogue, terms, filed, form, notesTaken>>

InterestCatalog ==
  /\ catalogue \in {"interests", "event interests"}
  /\ \E i \in Entries :
       CreateEntry(i) \/ DeleteEntry(i) \/ \E b \in BOOLEAN : UpdateEntry(i, b)

CategoryCatalog ==
  /\ catalogue = "categories"
  /\ \E i \in Entries :
       CreateEntry(i) \/ DeleteEntry(i) \/ \E b \in BOOLEAN : UpdateEntry(i, b)

PlatformCatalog ==
  /\ catalogue = "platforms"
  /\ \E i \in Entries :
       CreateEntry(i) \/ DeleteEntry(i) \/ \E b \in BOOLEAN : UpdateEntry(i, b)

UpdateTerms(i, t) ==
  /\ Submit /\ InStock(i)
  /\ terms' = [terms EXCEPT ![i] = t]
  /\ UNCHANGED <<catalogue, entry, linked, filed, form, notesTaken>>

InUse(i) == \E r \in filed : r.reason = i

CountReports(d, i) ==
  /\ Submit /\ Filling(d, "free") /\ InStock(i) /\ ~InUse(i)
  /\ Fill(d, [pc |-> "remove", reason |-> i])
  /\ UNCHANGED <<catalogue, entryRows, linked, filed, notesTaken>>

\* A report filed since the count is refused by the foreign key.
DeleteReportReason(d) ==
  LET i == form[d].reason
  IN /\ Filling(d, "remove") /\ InStock(i) /\ ~InUse(i)
     /\ entry' = [entry EXCEPT ![i] = "gone"]
     /\ Fill(d, Blank)
     /\ UNCHANGED <<catalogue, terms, linked, filed, upserts, notesTaken>>

ReasonCatalog ==
  /\ catalogue = "reasons"
  /\ \/ \E i \in Entries :
          \/ CreateEntry(i)
          \/ \E b \in BOOLEAN : UpdateEntry(i, b)
          \/ \E t \in Terms : UpdateTerms(i, t)
     \/ \E d \in Forms : DeleteReportReason(d) \/ \E i \in Entries : CountReports(d, i)

----------------------------------------------------------------------------
(* Those who name entries *)

EnsureCategoryActive(want) == Cardinality(want) = 1 /\ \A i \in want : entry[i] = "active"
EnsureSocialPlatformsActive(want) == \A i \in want : entry[i] = "active"
EnsureActive(want) == want # {} /\ \A i \in want : entry[i] = "active"
ResolveSlugs(want) == \A i \in want : InStock(i)

Accepted(want) ==
  \/ catalogue = "interests" /\ EnsureActive(want)
  \/ catalogue = "event interests" /\ ResolveSlugs(want)
  \/ catalogue = "categories" /\ EnsureCategoryActive(want)
  \/ catalogue = "platforms" /\ EnsureSocialPlatformsActive(want)

\* Interests of a profile change nothing else, and a category is a column.
Touches ==
  CASE catalogue = "interests" -> {FALSE}
    [] catalogue = "categories" -> {TRUE}
    [] OTHER -> BOOLEAN

\* An event is changed before its interests are looked up.
Choose(d, o, want, touch) ==
  /\ Submit /\ catalogue # "reasons" /\ Filling(d, "free") /\ touch \in Touches
  /\ Fill(d, [pc |-> IF catalogue = "event interests" THEN "begin" ELSE "check",
              by |-> o, want |-> want, touch |-> touch, held |-> FALSE])
  /\ jumbled' = IF \E e \in Forms : /\ Replaces(e) /\ form[e].by = o
                                 /\ ~(touch /\ form[e].touch)
             THEN jumbled \cup {o} ELSE jumbled
  /\ UNCHANGED <<catalogue, entryRows, linked, filed, offered>>

CheckEntries(d) ==
  LET o == form[d].by  want == form[d].want
  IN /\ Filling(d, "check") /\ Accepted(want)
     /\ Fill(d, [form[d] EXCEPT !.pc =
                   IF catalogue = "event interests" THEN "delete" ELSE "begin"])
     /\ offered' = [offered EXCEPT ![o] = @ \cup {want}]
     /\ UNCHANGED <<catalogue, entryRows, linked, filed, upserts, jumbled>>

Held(o) == \E e \in Forms : Replaces(e) /\ form[e].by = o /\ form[e].held

\* Mutant of BeginSave: the transaction writes the lists first, the row last.
BeginSaveUnheld(d) ==
  /\ Filling(d, "begin") /\ catalogue # "categories"
  /\ Fill(d, [form[d] EXCEPT !.pc = IF catalogue = "event interests" THEN "check" ELSE "delete"])
  /\ UNCHANGED <<catalogue, entryRows, linked, filed, upserts, notesTaken>>
\* The transaction begins, with the row the list belongs to if that changes.
BeginSave(d) ==
  /\ Filling(d, "begin") /\ catalogue # "categories"
  /\ form[d].touch => ~Held(form[d].by)
  /\ Fill(d, [form[d] EXCEPT !.held = form[d].touch,
                             !.pc = IF catalogue = "event interests" THEN "check" ELSE "delete"])
  /\ UNCHANGED <<catalogue, entryRows, linked, filed, upserts, notesTaken>>

SetCategory(d) ==
  /\ Filling(d, "begin") /\ catalogue = "categories"
  /\ \A i \in form[d].want : InStock(i)
  /\ linked' = [linked EXCEPT ![form[d].by] = form[d].want]
  /\ Fill(d, Blank)
  /\ UNCHANGED <<catalogue, entryRows, filed, upserts, notesTaken>>

\* The rows the deletion sees are those committed when it begins.
DeleteLinked(d) ==
  /\ Filling(d, "delete")
  /\ Fill(d, [pc |-> "insert", by |-> form[d].by, want |-> form[d].want,
              touch |-> form[d].touch, held |-> form[d].held, seen |-> linked[form[d].by]])
  /\ UNCHANGED <<catalogue, entryRows, linked, filed, upserts, notesTaken>>

\* The keys refuse an entry that went and a row committed in between; rows
\* another deletion saw and this one replaced are gone for that one too.
InsertLinked(d) ==
  LET o == form[d].by  kept == linked[o] \ form[d].seen
  IN /\ Filling(d, "insert")
     /\ \A i \in form[d].want : InStock(i)
     /\ form[d].want \cap kept = {}
     /\ linked' = [linked EXCEPT ![o] = kept \cup form[d].want]
     /\ form' = [e \in Forms |->
          IF e = d THEN Blank
          ELSE IF Filling(e, "insert") /\ form[e].by = o
               THEN [form[e] EXCEPT !.seen = @ \cap kept]
          ELSE form[e]]
     /\ UNCHANGED <<catalogue, entryRows, filed, upserts, notesTaken>>

\* An empty scope is any, and the reason may ask for details.
ResolveReason(d, o, t, i, details) ==
  /\ Submit /\ catalogue = "reasons" /\ Filling(d, "free")
  /\ entry[i] = "active" /\ (terms[i].scope = {} \/ t \in terms[i].scope)
  /\ terms[i].details => details
  /\ Fill(d, [pc |-> "file",
              report |-> [by |-> o, on |-> t, reason |-> i, scope |-> terms[i].scope]])
  /\ UNCHANGED <<catalogue, entryRows, linked, filed, notesTaken>>

CreateReport(d) ==
  LET r == form[d].report
  IN /\ Filling(d, "file") /\ InStock(r.reason)
     /\ ~\E s \in filed : s.by = r.by /\ s.on = r.on
     /\ filed' = filed \cup {r}
     /\ Fill(d, Blank)
     /\ UNCHANGED <<catalogue, entryRows, linked, upserts, notesTaken>>

CatalogsNext ==
  \/ InterestCatalog \/ CategoryCatalog \/ PlatformCatalog \/ ReasonCatalog
  \/ \E d \in Forms :
       \/ CheckEntries(d) \/ BeginSave(d) \/ SetCategory(d) \/ DeleteLinked(d)
       \/ InsertLinked(d) \/ CreateReport(d) \/ Retract(d)
       \/ \E o \in Pickers :
            \/ \E want \in SUBSET Entries, touch \in BOOLEAN : Choose(d, o, want, touch)
            \/ \E t \in TargetTypes, i \in Entries, details \in BOOLEAN :
                 ResolveReason(d, o, t, i, details)

CatalogsSpec == CatalogsInit /\ [][CatalogsNext]_catalogVars

----------------------------------------------------------------------------
(* Properties *)

\* A reason that was counted free of reports and deleted left none behind.
ReasonsKept == \A r \in filed : InStock(r.reason)

\* An admin scopes a reason by names of which "comment" is no target type, so
\* a report on a comment always gave a reason that was for everything.
CommentsUnscoped == \A r \in filed : r.on = "event_comment" => r.scope = {}

\* What an owner names is one accepted list, less the entries that went, unless
\* two requests replaced it at once and one did not hold the owner's row.
OneList ==
  \A o \in Pickers \ jumbled :
    \E want \in offered[o] : linked[o] = {i \in want : entry[i] # "gone"}

\* The rows that name entries are what their owners asked for.
CatalogsExplained == ReasonsKept /\ CommentsUnscoped /\ OneList

=============================================================================
