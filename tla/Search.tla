------------------------------- MODULE Search -------------------------------
(***************************************************************************)
(* A search by one viewer: SearchController, SearchQueryService.           *)
(*                                                                         *)
(* The index says which rows match and how well; the rows themselves and   *)
(* the viewer's blocks are read afterwards, in queries of their own, while *)
(* the index, the rows and the blocks change.  "all" shows the best rows   *)
(* of a kind, "byType" pages through them.  The order of rows that score   *)
(* alike is the database's choice, made anew by every query.               *)
(***************************************************************************)
EXTENDS Integers, Sequences, FiniteSets, SequencesExt, FiniteSetsExt

CONSTANTS MaxHit,     \* rows of the kind searched for: 1..MaxHit
          MaxScore,   \* ts_rank, on a scale of its own
          PerPage,    \* search.per_page_default, search.results_per_group_limit
          FirstBlocks, \* bound on the blocks there are at first
          MaxTurns    \* bound on the changes of index, rows and blocks

ASSUME SearchAssumption ==
  /\ MaxHit \in Nat \ {0} /\ MaxScore \in Nat \ {0} /\ PerPage \in Nat \ {0}
  /\ FirstBlocks \in Nat /\ MaxTurns \in Nat

VARIABLES sought,     \* the kind of row, and the form of the search
          indexed,    \* rows the index holds a match for
          score,      \* how well each matches
          extant,     \* rows that are still in their own table
          mine,       \* whom the viewer blocks
          theirs,     \* users who block the viewer
          search,     \* how far the request is, and what it has read
          found,      \* pages shown, in order
          turns,      \* changes so far
          calm,       \* history: nothing has changed since the first request
          shunned      \* history: blocked at least since this request

searchedVars == <<indexed, score, extant, mine, theirs>>
searchVars == <<sought, searchedVars, search, found, turns, calm, shunned>>

Hits == 1..MaxHit
\* An event is hidden with its organisation, of which each has two.
Host(r) == IF sought.kind = "event" THEN (r + 1) \div 2 ELSE r
Hosts == {Host(r) : r \in Hits}

SearchTypeOK ==
  /\ sought \in [kind : {"event", "organisation", "user"}, form : {"all", "byType"}]
  /\ indexed \subseteq Hits /\ extant \subseteq Hits /\ score \in [Hits -> 1..MaxScore]
  /\ mine \subseteq Hosts /\ theirs \subseteq Hosts /\ shunned \subseteq mine \cup theirs
  /\ search \in [pc : {"ask", "match", "blocks", "rows", "done"}, page : Nat \ {0},
                 ids : Seq(Hits), total : Nat, hidden : SUBSET Hosts,
                 awaits : SUBSET {"ids", "total", "mine", "theirs"}]
  /\ found \in Seq(Seq(Hits)) /\ turns \in 0..MaxTurns /\ calm \in BOOLEAN

SearchInit ==
  /\ sought \in [kind : {"event", "organisation", "user"}, form : {"all", "byType"}]
  /\ indexed \in {1..n : n \in 0..MaxHit} /\ extant = Hits
  /\ score \in {s \in [Hits -> 1..MaxScore] : \A r \in Hits \ {1} : s[r - 1] <= s[r]}
  /\ mine \in SUBSET Hosts /\ theirs \in SUBSET Hosts /\ shunned = {}
  /\ Cardinality(mine) + Cardinality(theirs) <= FirstBlocks
  /\ sought.kind # "user" => theirs = {}
  /\ search = [pc |-> "ask", page |-> 1, ids |-> <<>>, total |-> 0, hidden |-> {},
               awaits |-> {}]
  /\ found = <<>> /\ turns = 0 /\ calm = TRUE

----------------------------------------------------------------------------
(* What changes meanwhile *)

Shift ==
  /\ turns < MaxTurns /\ turns' = turns + 1
  /\ calm' = (calm /\ search.pc = "ask" /\ search.page = 1)
  /\ UNCHANGED <<sought, search, found>>

\* A row is published, completed or edited; a rebuild may bring back one that is gone.
IndexRow(r) ==
  /\ Shift /\ indexed' = indexed \cup {r}
  /\ \E n \in 1..MaxScore :
       (r \in indexed => n # score[r]) /\ score' = [score EXCEPT ![r] = n]
  /\ UNCHANGED <<extant, mine, theirs, shunned>>

Deindex(r) ==
  /\ Shift /\ r \in indexed /\ indexed' = indexed \ {r}
  /\ UNCHANGED <<score, extant, mine, theirs, shunned>>

\* Events and organisations leave the index first; a deleted account stays in it.
DropHit(r) ==
  /\ Shift /\ r \in extant
  /\ sought.kind = "user" \/ r \notin indexed
  /\ extant' = extant \ {r}
  /\ UNCHANGED <<indexed, score, mine, theirs, shunned>>

BlockHost(h) ==
  /\ Shift /\ h \notin mine /\ mine' = mine \cup {h}
  /\ UNCHANGED <<indexed, score, extant, theirs, shunned>>
UnblockHost(h) ==
  /\ Shift /\ h \in mine /\ mine' = mine \ {h} /\ shunned' = shunned \ {h}
  /\ UNCHANGED <<indexed, score, extant, theirs>>
BlockedByUser(h) ==
  /\ Shift /\ sought.kind = "user" /\ h \notin theirs /\ theirs' = theirs \cup {h}
  /\ UNCHANGED <<indexed, score, extant, mine, shunned>>

----------------------------------------------------------------------------
(* The queries *)

Ranked(s) == \A i, j \in DOMAIN s : i < j => score[s[i]] >= score[s[j]]
\* searchByType: any order that respects the scores.
SearchByType(skip) ==
  {SubSeq(s, skip + 1, IF skip + PerPage < Len(s) THEN skip + PerPage ELSE Len(s)) :
     s \in {t \in SetToSeqs(indexed) : Ranked(t)}}

Gets(what) == what \in search.awaits
Got(what) == search.awaits \ {what}

\* Mutant of MutuallyBlockedUserIds: only the viewer's own blocks count.
BlockedOneWay(what) == mine
\* What is blocked when the query that reads it runs.
BlockedOrganisationIds == mine
MutuallyBlockedUserIds(what) == IF what = "mine" THEN mine ELSE theirs

\* A query of nothing but punctuation has no terms and matches nothing.
NoTerms ==
  /\ search.pc = "ask" /\ search.page = 1
  /\ search' = [search EXCEPT !.pc = "done"]
  /\ found' = Append(found, <<>>) /\ shunned' = mine \cup theirs
  /\ UNCHANGED <<sought, searchedVars, turns, calm>>

AskPage ==
  /\ search.pc = "ask"
  /\ search' = [search EXCEPT !.pc = "match", !.hidden = {},
                 !.awaits = IF sought.form = "all" THEN {"ids"} ELSE {"ids", "total"}]
  /\ shunned' = mine \cup theirs
  /\ UNCHANGED <<sought, searchedVars, found, turns, calm>>

\* pageIds sends both queries at once: either may be answered first.
MatchIds ==
  /\ search.pc = "match" /\ Gets("ids")
  /\ \E ids \in SearchByType((search.page - 1) * PerPage) :
       search' = [search EXCEPT !.ids = ids, !.awaits = Got("ids")]
  /\ UNCHANGED <<sought, searchedVars, found, turns, calm, shunned>>

CountByType ==
  /\ search.pc = "match" /\ Gets("total")
  /\ search' = [search EXCEPT !.total = Cardinality(indexed), !.awaits = Got("total")]
  /\ UNCHANGED <<sought, searchedVars, found, turns, calm, shunned>>

Matched == search.pc = "match" /\ search.awaits = {}

LastSearched == search.page * PerPage >= search.total
Show(page) ==
  /\ found' = Append(found, page)
  /\ search' = IF sought.form = "all" \/ LastSearched THEN [search EXCEPT !.pc = "done"]
               ELSE [search EXCEPT !.pc = "ask", !.page = @ + 1]

ShowNothing ==
  /\ Matched /\ search.ids = <<>> /\ Show(<<>>)
  /\ UNCHANGED <<sought, searchedVars, turns, calm, shunned>>

AskBlocks ==
  /\ Matched /\ search.ids # <<>>
  /\ search' = [search EXCEPT !.pc = "blocks",
                 !.awaits = IF sought.kind = "user" THEN {"mine", "theirs"} ELSE {"mine"}]
  /\ UNCHANGED <<sought, searchedVars, found, turns, calm, shunned>>

ReadBlocks(what) ==
  /\ search.pc = "blocks" /\ Gets(what)
  /\ search' = [search EXCEPT
       !.hidden = @ \cup (IF sought.kind = "user" THEN MutuallyBlockedUserIds(what)
                          ELSE BlockedOrganisationIds),
       !.awaits = Got(what), !.pc = IF Got(what) = {} THEN "rows" ELSE @]
  /\ UNCHANGED <<sought, searchedVars, found, turns, calm, shunned>>

\* inOrder: the rows there still are, in the order of the ids.
Kept(ids) == {i \in DOMAIN ids : ids[i] \in extant /\ Host(ids[i]) \notin search.hidden}
InOrder(ids) ==
  [n \in 1..Cardinality(Kept(ids)) |->
     ids[CHOOSE i \in Kept(ids) : Cardinality({j \in Kept(ids) : j <= i}) = n]]
HydratePage ==
  /\ search.pc = "rows" /\ Show(InOrder(search.ids))
  /\ UNCHANGED <<sought, searchedVars, turns, calm, shunned>>

SearchController ==
  \/ NoTerms \/ AskPage \/ MatchIds \/ CountByType \/ ShowNothing \/ AskBlocks
  \/ ReadBlocks("mine") \/ ReadBlocks("theirs") \/ HydratePage

SearchNext ==
  \/ SearchController
  \/ \E r \in Hits : IndexRow(r) \/ Deindex(r) \/ DropHit(r)
  \/ \E h \in Hosts : BlockHost(h) \/ UnblockHost(h) \/ BlockedByUser(h)

SearchSpec == SearchInit /\ [][SearchNext]_searchVars

----------------------------------------------------------------------------
(* Properties *)

\* Nobody is shown whom the viewer blocked, or who blocked the viewer, before
\* the request was made, unless that block is lifted.  (hydratePage, topUsers)
BlocksRespected ==
  found # <<>> /\ search.pc \in {"ask", "done"} =>
    \A r \in ToSet(found[Len(found)]) : Host(r) \notin shunned

\* A request never shows a row twice, nor more than a page.
PagesFit ==
  \A i \in DOMAIN found : Len(found[i]) <= PerPage /\ IsInjective(found[i])

Visible(r) == r \in extant /\ Host(r) \notin mine \cup theirs
Above(r) == {s \in indexed : score[s] > score[r]}
Untied(r) == \A s \in indexed \ {r} : score[s] # score[r]
\* The pages that show it; PagesFit: none shows it twice.
Times(r) == Cardinality({i \in DOMAIN found : r \in ToSet(found[i])})

\* If nothing changes, a row that ties with none is shown exactly once, and
\* among the best of a kind if fewer than a page are above it: hidden rows
\* take their place on the page all the same.  Rows that tie may be shown
\* twice or not at all.  (topEvents, pageIds)
UntiedShownOnce ==
  search.pc = "done" /\ calm /\ search.total + Len(search.ids) > 0 =>
    \A r \in indexed : Untied(r) /\ Visible(r) =>
      Times(r) = IF sought.form = "byType" \/ Cardinality(Above(r)) < PerPage THEN 1 ELSE 0

SearchExplained == BlocksRespected /\ PagesFit /\ UntiedShownOnce
=============================================================================
