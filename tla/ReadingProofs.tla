--------------------------- MODULE ReadingProofs ---------------------------
(***************************************************************************)
(* Theorems about what is read in several queries while it changes, each   *)
(* about one module that shares no state with the other: Listings, for any *)
(* number of rows, any sizes of pages and pieces and any number of changes *)
(* (ListingsInv), and Search, for any number of rows, scores, blocks and   *)
(* changes (SearchInv).                                                    *)
(***************************************************************************)
EXTENDS Listings, Search, SumLemmas, FiniteSetTheorems, SequenceTheorems, TLAPS

----------------------------------------------------------------------------
(* Lists (module Listings) *)

\* Places given to the rows of a finite set, each its own, from 1 to as many
\* as there are, are all taken.
LEMMA PlacesTaken ==
  ASSUME NEW S, IsFiniteSet(S), NEW f \in [S -> 1..Cardinality(S)],
         \A x, y \in S : f[x] = f[y] => x = y
  PROVE  \A n \in 1..Cardinality(S) : \E x \in S : f[x] = n
<1>1. Cardinality(S) \in Nat
  BY FS_CardinalityType
<1>2. IsFiniteSet(1..Cardinality(S)) /\ Cardinality(1..Cardinality(S)) = Cardinality(S)
  <2>1. /\ IsFiniteSet(1..Cardinality(S))
        /\ Cardinality(1..Cardinality(S)) = IF 1 > Cardinality(S) THEN 0 ELSE Cardinality(S) - 1 + 1
    BY <1>1, FS_Interval
  <2> QED BY <1>1, <2>1
<1>3. f \in Injection(S, 1..Cardinality(S))
  BY DEF Injection, IsInjective
<1>4. f \in Surjection(S, 1..Cardinality(S))
  BY <1>2, <1>3, FS_Injection
<1> QED BY <1>4 DEF Surjection

\* How many rows come up to and including a row, in either order.
Place(way, S, x) == Cardinality({y \in S : IF way = "up" THEN y <= x ELSE y >= x})
Row(way, S) == [n \in 1..Cardinality(S) |-> CHOOSE x \in S : Place(way, S, x) = n]
Ahead(way, x, y) == IF way = "up" THEN x < y ELSE x > y

\* Every row has a place of its own.
LEMMA Places ==
  ASSUME NEW way \in {"up", "down"}, NEW S \in SUBSET Int, IsFiniteSet(S)
  PROVE  /\ Cardinality(S) \in Nat
         /\ \A x \in S : Place(way, S, x) \in 1..Cardinality(S)
         /\ \A x, y \in S : Ahead(way, x, y) => Place(way, S, x) < Place(way, S, y)
         /\ \A n \in 1..Cardinality(S) : \E x \in S : Place(way, S, x) = n
<1> DEFINE To(x) == {y \in S : IF way = "up" THEN y <= x ELSE y >= x}
<1>a. \A x : Place(way, S, x) = Cardinality(To(x))
  BY DEF Place
<1>0. Cardinality(S) \in Nat
  BY FS_CardinalityType
<1>1. ASSUME NEW x \in S
      PROVE  /\ To(x) \in SUBSET S /\ IsFiniteSet(To(x)) /\ x \in To(x)
             /\ Place(way, S, x) \in 1..Cardinality(S)
  <2>1. To(x) \in SUBSET S /\ x \in To(x)
    OBVIOUS
  <2> HIDE DEF To
  <2>2. IsFiniteSet(To(x)) /\ Cardinality(To(x)) <= Cardinality(S)
    BY <2>1, FS_Subset
  <2>3. Cardinality(To(x)) \in Nat /\ Cardinality(To(x)) # 0
    BY <2>1, <2>2, FS_CardinalityType, FS_EmptySet
  <2> QED BY <1>a, <1>0, <2>1, <2>2, <2>3
<1>2. ASSUME NEW x \in S, NEW y \in S, Ahead(way, x, y)
      PROVE  Place(way, S, x) < Place(way, S, y)
  <2>1. To(x) \in SUBSET To(y)
    <3> SUFFICES ASSUME NEW z \in S, IF way = "up" THEN z <= x ELSE z >= x
                 PROVE  IF way = "up" THEN z <= y ELSE z >= y
      OBVIOUS
    <3> QED BY <1>2 DEF Ahead
  <2>2. y \notin To(x) /\ y \in To(y)
    BY <1>2 DEF Ahead
  <2>3. IsFiniteSet(To(y)) /\ Cardinality(To(x)) \in Nat /\ Cardinality(To(y)) \in Nat
    BY <1>1, FS_CardinalityType
  <2> HIDE DEF To
  <2>4. Cardinality(To(x)) <= Cardinality(To(y)) /\ Cardinality(To(x)) # Cardinality(To(y))
    BY <2>1, <2>2, <2>3, FS_Subset
  <2> QED BY <1>a, <2>3, <2>4
<1>3. ASSUME NEW n \in 1..Cardinality(S) PROVE \E x \in S : Place(way, S, x) = n
  <2> DEFINE f == [x \in S |-> Place(way, S, x)]
  <2>1. f \in [S -> 1..Cardinality(S)]
    BY <1>1
  <2>2. \A x, y \in S : f[x] = f[y] => x = y
    <3> SUFFICES ASSUME NEW x \in S, NEW y \in S, Place(way, S, x) = Place(way, S, y), x # y
                 PROVE  FALSE
      OBVIOUS
    <3>1. Place(way, S, x) \in 1..Cardinality(S) /\ Place(way, S, y) \in 1..Cardinality(S)
      BY <1>1
    <3> HIDE DEF f, To
    <3>2. Ahead(way, x, y) \/ Ahead(way, y, x)
      BY DEF Ahead
    <3> QED BY <1>2, <3>1, <3>2
  <2>3. \E x \in S : f[x] = n
    <3> HIDE DEF f
    <3> QED BY <2>1, <2>2, PlacesTaken
  <2> QED BY <2>3
<1> QED BY <1>0, <1>1, <1>2, <1>3

\* The rows in order: each of them once, at its place.
LEMMA RowsInOrder ==
  ASSUME NEW way \in {"up", "down"}, NEW S \in SUBSET Int, IsFiniteSet(S)
  PROVE  /\ Cardinality(S) \in Nat
         /\ Row(way, S) \in [1..Cardinality(S) -> S]
         /\ Row(way, S) \in Seq(S) /\ Len(Row(way, S)) = Cardinality(S)
         /\ \A n \in 1..Cardinality(S) : Place(way, S, Row(way, S)[n]) = n
         /\ \A x \in S : Row(way, S)[Place(way, S, x)] = x
         /\ ToSet(Row(way, S)) = S
<1> DEFINE s == Row(way, S)
           N == Cardinality(S)
<1>1. /\ N \in Nat
      /\ \A x \in S : Place(way, S, x) \in 1..N
      /\ \A x, y \in S : Ahead(way, x, y) => Place(way, S, x) < Place(way, S, y)
      /\ \A n \in 1..N : \E x \in S : Place(way, S, x) = n
  BY Places
<1>2. \A n \in 1..N : s[n] \in S /\ Place(way, S, s[n]) = n
  BY <1>1 DEF Row
<1>3. s \in [1..N -> S]
  BY <1>2 DEF Row
<1>4. s \in Seq(S) /\ Len(s) = N
  BY <1>1, <1>3
<1>5. ASSUME NEW x \in S PROVE s[Place(way, S, x)] = x
  <2> DEFINE z == s[Place(way, S, x)]
  <2>1. Place(way, S, x) \in 1..N
    BY <1>1
  <2>2. z \in S /\ Place(way, S, z) = Place(way, S, x)
    BY <1>2, <2>1
  <2> HIDE DEF z
  <2>3. ~Ahead(way, x, z) /\ ~Ahead(way, z, x)
    <3>1. \A p, q \in S : Ahead(way, p, q) => Place(way, S, p) < Place(way, S, q)
      BY <1>1
    <3>2. Place(way, S, x) \in Int /\ Place(way, S, z) = Place(way, S, x)
      BY <1>1, <2>1, <2>2
    <3> QED BY <2>2, <3>1, <3>2
  <2>4. x \in Int /\ z \in Int
    BY <2>2
  <2>5. z = x
    BY <2>3, <2>4 DEF Ahead
  <2> QED BY <2>5 DEF z
<1>6. ToSet(s) = S
  <2>1. \A x \in S : \E n \in 1..N : s[n] = x
    BY <1>1, <1>5
  <2> QED BY <1>3, <2>1 DEF ToSet
<1> QED BY <1>1, <1>2, <1>3, <1>4, <1>5, <1>6

LEMMA NewestRow == ASSUME NEW S PROVE Newest(S) = Row("down", S)
  BY DEF Newest, Row, Place
LEMMA OldestRow == ASSUME NEW S PROVE Oldest(S) = Row("up", S)
  BY DEF Oldest, Row, Place

\* A batch of a sequence: Chunk elements after the first k, or those that are left.
LEMMA BatchOf ==
  ASSUME NEW T, NEW f \in Seq(T), NEW k \in Nat
  PROVE  /\ From(f, k) \in Seq(T)
         /\ Len(From(f, k)) = IF k + Chunk < Len(f) THEN Chunk
                              ELSE IF k < Len(f) THEN Len(f) - k ELSE 0
         /\ \A i \in 1..Len(From(f, k)) :
              k + i \in 1..Len(f) /\ i <= Chunk /\ From(f, k)[i] = f[k + i]
<1> DEFINE n == Len(f)
           m == IF k + Chunk < n THEN k + Chunk ELSE n
<1>1. Chunk \in Nat \ {0} /\ n \in Nat /\ DOMAIN f = 1..n
  BY ListingsAssumption
<1>3. From(f, k) = SubSeq(f, k + 1, m)
  BY DEF From
<1>4. m \in Int /\ m <= n /\ k + 1 \in Int
  BY <1>1
<1>5. \A i \in (k + 1)..m : f[i] \in T
  BY <1>1, <1>4, ElementOfSeq
<1> HIDE DEF m
<1>6. /\ SubSeq(f, k + 1, m) \in Seq(T)
      /\ Len(SubSeq(f, k + 1, m)) = IF k + 1 <= m THEN m - (k + 1) + 1 ELSE 0
      /\ \A i \in 1..(m - (k + 1) + 1) : SubSeq(f, k + 1, m)[i] = f[k + 1 + i - 1]
  BY <1>4, <1>5, SubSeqProperties
<1>7. Len(From(f, k)) = IF k + Chunk < n THEN Chunk ELSE IF k < n THEN n - k ELSE 0
  BY <1>1, <1>3, <1>4, <1>6 DEF m
<1>8. ASSUME NEW i \in 1..Len(From(f, k))
      PROVE  k + i \in 1..n /\ i <= Chunk /\ From(f, k)[i] = f[k + i]
  <2>1. i \in 1..(m - (k + 1) + 1) /\ k + 1 + i - 1 = k + i
    BY <1>3, <1>4, <1>6
  <2>2. k + i \in 1..n /\ i <= Chunk
    BY <1>1, <1>4, <2>1 DEF m
  <2> QED BY <1>3, <1>6, <2>1, <2>2
<1> QED BY <1>3, <1>6, <1>7, <1>8

----------------------------------------------------------------------------

\* How far the reading of each kind of list may be, and what it has produced.
Sequel(l) ==
  IF l \in Exports THEN {"batch", "render", "done"}
  ELSE IF l \in Pages THEN {"count", "rows", "done"}
  ELSE {"sum", "counts", "kinds", "done"}

ReadingOK ==
  /\ reader.pc \in Sequel(listing)
  /\ ToSet(given) \subseteq passed
  /\ listing \in Exports /\ Reads("done") => sheet \in {Csv(given), Xlsx(given), Pdf(given)}

\* By cursor: everything above the cursor that has been there all the time is
\* given, and the cursor's row is lost only with all of them.
CursorInv ==
  listing \in ByCursor =>
    /\ \A i, j \in DOMAIN given : i < j => given[i] > given[j]
    /\ Reads("batch") /\ reader.from = 0 => given = <<>>
    /\ Reads("batch") /\ reader.from # 0 =>
         /\ \A i \in DOMAIN given : given[i] >= reader.from
         /\ \A r \in steady : r >= reader.from => r \in ToSet(given)
         /\ reader.from \notin present => steady = {}
    /\ ~Reads("batch") => steady \subseteq ToSet(given)

Offset == (Exports \cup Pages) \ ByCursor
Reading == reader.pc \in {"batch", "count", "rows"}
Way == IF listing = "replies" THEN "up" ELSE "down"
Rank(x) == Place(Way, present, x)

\* By offset: rows given that will come up again, and rows passed over.
Again == {r \in present \cap ToSet(given) : Reading /\ Rank(r) > reader.from}
Over == {r \in steady \ ToSet(given) : Reading => Rank(r) <= reader.from}
Excess == Twice(given) + Cardinality(Again)

OffsetInv ==
  listing \in Offset =>
    /\ Excess <= gained
    /\ Reading \/ listing \in Exports => Cardinality(Over) <= dwindled
    /\ ~Reading /\ listing \in Pages => Cardinality(Over) <= dwindled + squeezed
    /\ Reads("rows") => Cardinality(present) <= reader.total + squeezed
    /\ listing = "replies" /\ dwindled = 0 => present = passed /\ Excess = 0

\* Sums: no ticket is of a kind unknown; what is read of the two still agrees.
SumsInv ==
  listing \in Sums =>
    /\ \A r \in present : KindOf(r) \in known
    /\ Reads("kinds") /\ ~shaken => \A r \in ToSet(given) : KindOf(r) \in known
    /\ Reads("counts") => listing = "check-in"
    /\ Reads("counts") /\ ~shaken => ToSet(sheet) = Kinded(known)
    /\ SumsExact

ListingsInv == ListingsTypeOK /\ ReadingOK /\ CursorInv /\ OffsetInv /\ SumsInv

----------------------------------------------------------------------------

LEMMA ListFacts ==
  ASSUME ListingsTypeOK
  PROVE  /\ present \in SUBSET Int /\ IsFiniteSet(present)
         /\ passed \in SUBSET Int /\ IsFiniteSet(passed)
         /\ steady \in SUBSET present /\ IsFiniteSet(steady)
         /\ Chunk \in Nat \ {0} /\ reader.from \in Nat /\ Listed \in SUBSET (Nat \ {0})
<1>1. IsFiniteSet(Listed) /\ Listed \in SUBSET (Nat \ {0})
  BY FS_Interval, ListingsAssumption DEF Listed
<1>2. present \in SUBSET Listed /\ passed \in SUBSET Listed /\ steady \in SUBSET present
  BY DEF ListingsTypeOK
<1>3. IsFiniteSet(present) /\ IsFiniteSet(passed) /\ IsFiniteSet(steady)
  BY <1>1, <1>2, FS_Subset
<1>4. reader.from \in Nat
  BY DEF ListingsTypeOK
<1> QED BY <1>1, <1>2, <1>3, <1>4, ListingsAssumption

\* A batch or page by offset holds the rows of the next Chunk places, each once.
LEMMA PieceByOffset ==
  ASSUME ListingsTypeOK, listing \in Offset
  PROVE  /\ Piece \in Seq(Listed) /\ Piece \in Seq(present)
         /\ ToSet(Piece) = {x \in present : reader.from < Rank(x) /\ Rank(x) <= reader.from + Chunk}
         /\ \A i, j \in DOMAIN Piece : Piece[i] = Piece[j] => i = j
         /\ Len(Piece) < Chunk => \A x \in present : Rank(x) <= reader.from + Chunk
<1> DEFINE way == Way
           s == Row(way, present)
<1>1. /\ present \in SUBSET Int /\ IsFiniteSet(present) /\ present \in SUBSET Listed
      /\ Chunk \in Nat \ {0} /\ reader.from \in Nat /\ way \in {"up", "down"}
  BY ListFacts DEF ListingsTypeOK, Way
<1>2. Piece = From(s, reader.from)
  BY NewestRow, OldestRow
  DEF Way, Piece, Offset, Exports, Pages, ByCursor, RsvpBatch, HeldPage, EventPage, CommentPage,
      UserCommentsPage, BlockedPage, ReplyPage
<1>3. \A x : Rank(x) = Place(way, present, x)
  BY DEF Rank
<1> HIDE DEF way
<1>4. /\ Cardinality(present) \in Nat /\ s \in Seq(present) /\ Len(s) = Cardinality(present)
      /\ \A i \in 1..Cardinality(present) : Rank(s[i]) = i
      /\ \A x \in present : s[Rank(x)] = x
      /\ \A x \in present : Rank(x) \in 1..Cardinality(present)
  <2>1. /\ Cardinality(present) \in Nat /\ s \in Seq(present) /\ Len(s) = Cardinality(present)
        /\ \A i \in 1..Cardinality(present) : Place(way, present, s[i]) = i
        /\ \A x \in present : s[Place(way, present, x)] = x
    BY <1>1, RowsInOrder
  <2>2. \A x \in present : Place(way, present, x) \in 1..Cardinality(present)
    BY <1>1, Places
  <2> HIDE DEF s
  <2> QED BY <1>3, <2>1, <2>2
<1> HIDE DEF s
<1> DEFINE n == Len(s)
           k == reader.from
           p == From(s, k)
<1>5. /\ p \in Seq(present)
      /\ Len(p) = IF k + Chunk < n THEN Chunk ELSE IF k < n THEN n - k ELSE 0
      /\ \A i \in 1..Len(p) : k + i \in 1..n /\ i <= Chunk /\ p[i] = s[k + i]
  BY <1>1, <1>4, BatchOf
<1>6. n \in Nat /\ k \in Nat /\ Chunk \in Nat
  BY <1>1, <1>4
<1>6a. /\ \A x \in present : Rank(x) \in 1..n /\ s[Rank(x)] = x
       /\ \A i \in 1..n : Rank(s[i]) = i
  BY <1>4
<1> HIDE DEF n, k, p
<1>6b. DOMAIN p = 1..Len(p) /\ Len(p) \in Nat
  BY <1>5
<1>7. ASSUME NEW i \in 1..Len(p)
      PROVE  p[i] \in present /\ Rank(p[i]) = k + i /\ i <= Chunk
  <2>1. p[i] \in present
    BY <1>5, <1>6b, ElementOfSeq
  <2> QED BY <1>5, <1>6a, <2>1
<1>8. ASSUME NEW i \in 1..Len(p), NEW j \in 1..Len(p), p[i] = p[j] PROVE i = j
  <2>1. k + i = k + j
    BY <1>7, <1>8
  <2> QED BY <1>6, <1>6b, <2>1
<1>9. ToSet(p) = {x \in present : k < Rank(x) /\ Rank(x) <= k + Chunk}
  <2>1. ASSUME NEW x \in ToSet(p) PROVE x \in present /\ k < Rank(x) /\ Rank(x) <= k + Chunk
    <3>1. PICK i \in 1..Len(p) : x = p[i]
      BY <1>6b, <2>1 DEF ToSet
    <3>2. i \in Nat /\ i >= 1
      BY <1>6b
    <3> QED BY <1>6, <1>7, <3>1, <3>2
  <2>2. ASSUME NEW x \in present, k < Rank(x), Rank(x) <= k + Chunk PROVE x \in ToSet(p)
    <3>1. Rank(x) \in 1..n /\ s[Rank(x)] = x
      BY <1>6a
    <3>2. PICK i \in Int : i = Rank(x) - k
      BY <1>6, <3>1
    <3>3. i \in 1..Len(p) /\ k + i = Rank(x)
      <4>1. i >= 1 /\ i <= Chunk /\ k + i <= n /\ k + i = Rank(x)
        BY <1>6, <2>2, <3>1, <3>2
      <4>2. Len(p) = IF k + Chunk < n THEN Chunk ELSE IF k < n THEN n - k ELSE 0
        BY <1>5
      <4>3. i <= Len(p)
        BY <1>6, <4>1, <4>2
      <4> QED BY <1>6b, <4>1, <4>3
    <3>4. p[i] = x
      BY <1>5, <3>1, <3>3
    <3> QED BY <1>6b, <3>3, <3>4 DEF ToSet
  <2> QED BY <2>1, <2>2
<1>10. ASSUME Len(p) < Chunk, NEW x \in present PROVE Rank(x) <= k + Chunk
  <2>1. Rank(x) \in 1..n
    BY <1>6a
  <2> QED BY <1>6, <1>5, <1>6b, <1>10, <2>1
<1>11. p \in Seq(Listed)
  <2>1. \A i \in 1..Len(p) : p[i] \in Listed
    BY <1>1, <1>7
  <2> QED BY <1>5, <2>1
<1> QED BY <1>2, <1>5, <1>6b, <1>8, <1>9, <1>10, <1>11 DEF p, k

\* A batch by cursor: the next rows below it, none of those in between left out.
Below(c) == IF c = 0 THEN present ELSE IF c \in present THEN {r \in present : r < c} ELSE {}

LEMMA PieceByCursor ==
  ASSUME ListingsTypeOK, listing \in ByCursor
  PROVE  LET S == Below(reader.from)
         IN  /\ Piece \in Seq(S) /\ Len(Piece) <= Chunk
             /\ \A i, j \in DOMAIN Piece : i < j => Piece[i] > Piece[j]
             /\ Len(Piece) < Chunk => ToSet(Piece) = S
             /\ Len(Piece) = Chunk => \A r \in S : r >= Piece[Chunk] => r \in ToSet(Piece)
<1> DEFINE c == reader.from
           S == Below(c)
           s == Row("down", S)
           n == Len(s)
<1>1. /\ S \in SUBSET Int /\ IsFiniteSet(S) /\ S \in SUBSET present
      /\ Chunk \in Nat \ {0} /\ "down" \in {"up", "down"}
  <2>1. S \in SUBSET present
    BY DEF Below
  <2> HIDE DEF S
  <2> QED BY <2>1, ListFacts, FS_Subset
<1>2. Piece = IF c = 0 \/ c \in present THEN From(s, 0) ELSE <<>>
  BY NewestRow DEF Piece, ByCursor, OrderBatch, TicketBatch, Below
<1>a. c = 0 \/ c \in present \/ S = {}
  BY DEF Below
<1> HIDE DEF S, c
<1>3. /\ n \in Nat /\ s \in Seq(S)
      /\ \A i \in 1..n : Place("down", S, s[i]) = i
      /\ \A x \in S : s[Place("down", S, x)] = x /\ Place("down", S, x) \in 1..n
      /\ \A x, y \in S : x > y => Place("down", S, x) < Place("down", S, y)
  BY <1>1, RowsInOrder, Places DEF Ahead
<1>4. CASE ~(c = 0 \/ c \in present)
  <2>1. S = {} /\ Piece = <<>>
    BY <1>2, <1>4, <1>a
  <2>2. ToSet(Piece) = {} /\ Piece \in Seq(S) /\ Len(Piece) = 0 /\ DOMAIN Piece = {}
    BY <2>1 DEF ToSet
  <2> QED BY <1>1, <2>1, <2>2 DEF S, c
<1>5. CASE c = 0 \/ c \in present
  <2> DEFINE p == From(s, 0)
  <2>1. Piece = p
    BY <1>2, <1>5
  <2>0. n \in Nat /\ \A x \in S : Place("down", S, x) \in 1..n
    BY <1>3
  <2> HIDE DEF n, s
  <2>2. /\ p \in Seq(S)
        /\ Len(p) = IF 0 + Chunk < n THEN Chunk ELSE IF 0 < n THEN n - 0 ELSE 0
        /\ \A i \in 1..Len(p) : 0 + i \in 1..n /\ i <= Chunk /\ p[i] = s[0 + i]
    BY <1>1, <1>3, BatchOf DEF n
  <2> HIDE DEF p
  <2>3. /\ DOMAIN p = 1..Len(p) /\ Len(p) \in Nat /\ Len(p) <= Chunk /\ Len(p) <= n
        /\ Len(p) < Chunk => Len(p) = n
    BY <1>1, <1>3, <2>2
  <2>4. ASSUME NEW i \in 1..Len(p)
        PROVE  p[i] \in S /\ Place("down", S, p[i]) = i /\ p[i] = s[i] /\ i \in Int
    <3>1. i \in 1..n /\ 0 + i = i /\ i \in Int
      BY <1>3, <2>2, <2>3
    <3>2. p[i] \in S
      BY <2>2, <2>3, ElementOfSeq
    <3> QED BY <1>3, <2>2, <3>1, <3>2
  <2>5. ASSUME NEW i \in 1..Len(p), NEW j \in 1..Len(p), i < j PROVE p[i] > p[j]
    <3>1. p[i] \in Int /\ p[j] \in Int /\ p[i] \in S /\ p[j] \in S
      BY <1>1, <2>4
    <3>2. /\ Place("down", S, p[i]) = i /\ Place("down", S, p[j]) = j
          /\ p[j] > p[i] => Place("down", S, p[j]) < Place("down", S, p[i])
      BY <1>3, <2>4, <3>1
    <3>3. i \in Int /\ j \in Int /\ p[i] # p[j]
      BY <2>4, <2>5, <3>2
    <3> QED BY <2>5, <3>1, <3>2, <3>3
  <2>6. ASSUME NEW x \in S, Place("down", S, x) <= Len(p) PROVE x \in ToSet(p)
    <3>a. x \in S
      OBVIOUS
    <3>b. Place("down", S, x) \in 1..n
      BY <2>0, <3>a
    <3>c. Place("down", S, x) <= Len(p)
      BY <2>6
    <3>d. Len(p) \in Nat /\ n \in Nat
      BY <2>0, <2>3
    <3>e. Place("down", S, x) \in Int /\ Place("down", S, x) >= 1
      BY <3>b, <3>d
    <3>1. Place("down", S, x) \in 1..Len(p)
      BY <3>c, <3>d, <3>e
    <3>2. p[Place("down", S, x)] = x
      BY <1>3, <2>4, <3>1
    <3> QED BY <2>3, <3>1, <3>2 DEF ToSet
  <2>7. ASSUME Len(p) < Chunk PROVE ToSet(p) = S
    <3>1. \A x \in S : Place("down", S, x) <= Len(p)
      BY <2>0, <2>3, <2>7
    <3>1a. \A x \in S : x \in ToSet(p)
      BY <2>6, <3>1
    <3> QED BY <2>3, <2>4, <3>1a DEF ToSet
  <2>8. ASSUME Len(p) = Chunk, NEW x \in S, x >= p[Chunk] PROVE x \in ToSet(p)
    <3>1. Chunk \in 1..Len(p) /\ p[Chunk] \in S /\ Place("down", S, p[Chunk]) = Chunk
      BY <1>1, <2>3, <2>4, <2>8
    <3>2. x \in S /\ x >= p[Chunk] /\ Len(p) = Chunk
      BY <2>8
    <3>3. x \in Int /\ p[Chunk] \in Int
      BY <1>1, <3>1, <3>2
    <3>4. x = p[Chunk] \/ x > p[Chunk]
      BY <3>2, <3>3
    <3>5. /\ Place("down", S, x) \in 1..n /\ n \in Nat
          /\ x > p[Chunk] => Place("down", S, x) < Place("down", S, p[Chunk])
      BY <1>3, <2>0, <3>1, <3>2
    <3>6. Place("down", S, x) \in Int
      BY <3>5
    <3>7. Place("down", S, x) <= Len(p)
      BY <1>1, <3>1, <3>2, <3>4, <3>5, <3>6
    <3> QED BY <2>6, <3>2, <3>7
  <2> QED BY <2>1, <2>2, <2>3, <2>5, <2>7, <2>8 DEF c, S
<1> QED BY <1>4, <1>5

----------------------------------------------------------------------------

\* One row more in front of x moves it one place on.
LEMMA PlaceMore ==
  ASSUME NEW way \in {"up", "down"}, NEW S \in SUBSET Int, IsFiniteSet(S),
         NEW r \in Int, r \notin S, NEW x \in Int
  PROVE  /\ Place(way, S, x) \in Nat
         /\ Place(way, S \cup {r}, x) =
              IF x = r \/ Ahead(way, r, x) THEN Place(way, S, x) + 1 ELSE Place(way, S, x)
<1> DEFINE In(T) == {y \in T : IF way = "up" THEN y <= x ELSE y >= x}
<1>1. Place(way, S, x) = Cardinality(In(S)) /\ Place(way, S \cup {r}, x) = Cardinality(In(S \cup {r}))
  BY DEF Place
<1>2. In(S) \in SUBSET S /\ r \notin In(S)
  OBVIOUS
<1>3. In(S \cup {r}) = IF x = r \/ Ahead(way, r, x) THEN In(S) \cup {r} ELSE In(S)
  <2>1. (IF way = "up" THEN r <= x ELSE r >= x) <=> (x = r \/ Ahead(way, r, x))
    BY DEF Ahead
  <2> QED BY <2>1
<1> HIDE DEF In
<1>4. IsFiniteSet(In(S)) /\ Cardinality(In(S)) \in Nat
  BY <1>2, FS_Subset, FS_CardinalityType
<1>5. Cardinality(In(S) \cup {r}) = Cardinality(In(S)) + 1
  BY <1>2, <1>4, FS_AddElement
<1> QED BY <1>1, <1>3, <1>4, <1>5

LEMMA OneMore ==
  ASSUME NEW A, IsFiniteSet(A), NEW B, IsFiniteSet(B), \A x, y \in A \ B : x = y
  PROVE  Cardinality(A) \in Nat /\ Cardinality(B) \in Nat /\ Cardinality(A) <= Cardinality(B) + 1
<1>1. Cardinality(A) \in Nat /\ Cardinality(B) \in Nat
  BY FS_CardinalityType
<1>2. CASE A \ B = {}
  <2>1. A \in SUBSET B
    BY <1>2
  <2>2. Cardinality(A) <= Cardinality(B)
    BY <2>1, FS_Subset
  <2> QED BY <1>1, <2>2
<1>3. CASE A \ B # {}
  <2>1. PICK x \in A \ B : TRUE
    BY <1>3
  <2>2. A \in SUBSET (B \cup {x})
    BY <2>1
  <2>3. IsFiniteSet(B \cup {x}) /\ Cardinality(B \cup {x}) = Cardinality(B) + 1
    BY <2>1, FS_AddElement
  <2>4. Cardinality(A) <= Cardinality(B \cup {x})
    BY <2>2, <2>3, FS_Subset
  <2> QED BY <1>1, <2>3, <2>4
<1> QED BY <1>2, <1>3

\* Of the rows behind a place, one more may come up when a row comes.
LEMMA BehindMore ==
  ASSUME NEW way \in {"up", "down"}, NEW S \in SUBSET Int, IsFiniteSet(S),
         NEW r \in Int, r \notin S, NEW G, NEW k \in Nat
  PROVE  \A X, Y :
           /\ \A y : y \in X <=> y \in S /\ y \in G /\ Place(way, S, y) > k
           /\ \A y : y \in Y <=> y \in S \cup {r} /\ y \in G /\ Place(way, S \cup {r}, y) > k
           => /\ Cardinality(X) \in Nat /\ Cardinality(Y) \in Nat
              /\ Cardinality(Y) <= Cardinality(X) + 1
<1> DEFINE P(y) == Place(way, S, y)
           Q(y) == Place(way, S \cup {r}, y)
           A == {y \in S \cap G : P(y) > k}
           B == {y \in (S \cup {r}) \cap G : Q(y) > k}
<1>1. S \cup {r} \in SUBSET Int /\ IsFiniteSet(S \cup {r})
  BY FS_AddElement
<1>2. IsFiniteSet(A) /\ IsFiniteSet(B)
  <2>1. A \in SUBSET S /\ B \in SUBSET (S \cup {r})
    OBVIOUS
  <2> HIDE DEF A, B
  <2> QED BY <1>1, <2>1, FS_Subset
<1>3. ASSUME NEW x \in S \cup {r} PROVE x \in Int /\ P(x) \in Int /\ Q(x) \in Int
  <2>1. x \in Int
    BY <1>1
  <2>2. Place(way, S, x) \in Nat
    BY <2>1, PlaceMore
  <2>3. \/ Place(way, S \cup {r}, x) = Place(way, S, x)
        \/ Place(way, S \cup {r}, x) = Place(way, S, x) + 1
    BY <2>1, PlaceMore
  <2> QED BY <2>1, <2>2, <2>3
<1>4. ASSUME NEW x \in S \cup {r} PROVE Q(x) = IF x = r \/ Ahead(way, r, x) THEN P(x) + 1 ELSE P(x)
  BY <1>1, PlaceMore
<1>5. ASSUME NEW x \in S \cup {r}, NEW y \in S \cup {r}, Ahead(way, x, y) PROVE Q(x) < Q(y)
  <2>1. PICK T : T = S \cup {r}
    OBVIOUS
  <2>2. \A p, q \in T : Ahead(way, p, q) => Place(way, T, p) < Place(way, T, q)
    BY <1>1, <2>1, Places
  <2> QED BY <1>5, <2>1, <2>2
<1>6. ASSUME NEW x \in S, NEW y \in S, Ahead(way, x, y) PROVE P(x) < P(y)
  BY <1>6, Places
<1>7. ASSUME NEW x \in B \ A, NEW y \in B \ A, x # y PROVE FALSE
  <2> HIDE DEF P, Q
  <2>1. /\ x \in S \cup {r} /\ Q(x) > k /\ (x \in S => ~(P(x) > k))
        /\ y \in S \cup {r} /\ Q(y) > k /\ (y \in S => ~(P(y) > k))
    BY <1>7
  <2>2. x \in Int /\ P(x) \in Int /\ Q(x) \in Int /\ y \in Int /\ P(y) \in Int /\ Q(y) \in Int
    BY <1>3, <2>1
  <2>3. ASSUME NEW z \in S, Q(z) > k, ~(P(z) > k)
        PROVE  Ahead(way, r, z) /\ P(z) = k
    <3>1. z \in Int /\ P(z) \in Int /\ z # r
      BY <1>3
    <3>2. Q(z) = IF z = r \/ Ahead(way, r, z) THEN P(z) + 1 ELSE P(z)
      BY <1>4
    <3>3. Q(z) > k /\ ~(P(z) > k)
      BY <2>3
    <3> QED BY <3>1, <3>2, <3>3
  <2>4. CASE x \in S /\ y \in S
    <3>1. P(x) = P(y)
      BY <2>1, <2>3, <2>4
    <3>2. Ahead(way, x, y) \/ Ahead(way, y, x)
      BY <1>7, <2>2 DEF Ahead
    <3> QED BY <1>6, <2>2, <2>4, <3>1, <3>2
  <2>5. ASSUME NEW z \in S, Q(z) > k, ~(P(z) > k), Q(r) > k PROVE FALSE
    <3>1. Ahead(way, r, z) /\ P(z) = k
      BY <2>3, <2>5
    <3>2. Q(r) < Q(z) /\ Q(z) = P(z) + 1
      BY <1>4, <1>5, <3>1
    <3>3. Q(r) \in Int /\ Q(r) > k
      BY <1>3, <2>5
    <3> QED BY <3>1, <3>2, <3>3
  <2>6. CASE x \in S /\ y = r
    BY <2>1, <2>5, <2>6
  <2>7. CASE x = r /\ y \in S
    BY <2>1, <2>5, <2>7
  <2> QED BY <1>7, <2>1, <2>4, <2>6, <2>7
<1> HIDE DEF A, B
<1>8. Cardinality(B) \in Nat /\ Cardinality(A) \in Nat /\ Cardinality(B) <= Cardinality(A) + 1
  BY <1>2, <1>7, OneMore
<1>9. /\ \A y : y \in A <=> y \in S /\ y \in G /\ Place(way, S, y) > k
      /\ \A y : y \in B <=> y \in S \cup {r} /\ y \in G /\ Place(way, S \cup {r}, y) > k
  BY DEF A, B
<1> QED
  <2> SUFFICES ASSUME NEW X, NEW Y,
                      \A y : y \in X <=> y \in S /\ y \in G /\ Place(way, S, y) > k,
                      \A y : y \in Y <=> y \in S \cup {r} /\ y \in G /\ Place(way, S \cup {r}, y) > k
               PROVE  /\ Cardinality(X) \in Nat /\ Cardinality(Y) \in Nat
                      /\ Cardinality(Y) <= Cardinality(X) + 1
    OBVIOUS
  <2>1. X = A /\ Y = B
    BY <1>9, Zenon
  <2> QED BY <1>8, <2>1

\* Of the rows in front of a place, one more may be passed over when a row goes.
LEMMA BeforeFewer ==
  ASSUME NEW way \in {"up", "down"}, NEW R \in SUBSET Int, IsFiniteSet(R),
         NEW r \in Int, r \notin R, NEW G, NEW k \in Nat
  PROVE  \A X, Y :
           /\ \A y : y \in X <=> y \in R \cup {r} /\ y \in G /\ Place(way, R \cup {r}, y) <= k
           /\ \A y : y \in Y <=> y \in R /\ y \in G /\ Place(way, R, y) <= k
           => /\ Cardinality(X) \in Nat /\ Cardinality(Y) \in Nat
              /\ Cardinality(Y) <= Cardinality(X) + 1
<1> DEFINE S == R \cup {r}
           P(y) == Place(way, S, y)
           Q(y) == Place(way, R, y)
           A == {y \in S \cap G : P(y) <= k}
           B == {y \in R \cap G : Q(y) <= k}
<1>1. S \in SUBSET Int /\ IsFiniteSet(S) /\ R \in SUBSET S
  BY FS_AddElement
<1>2. IsFiniteSet(A) /\ IsFiniteSet(B)
  <2>1. A \in SUBSET S /\ B \in SUBSET S
    OBVIOUS
  <2> HIDE DEF A, B, S
  <2> QED BY <1>1, <2>1, FS_Subset
<1>3. ASSUME NEW x \in R
      PROVE  Q(x) \in Nat /\ (P(x) = Q(x) \/ P(x) = Q(x) + 1)
  <2>1. x \in Int
    OBVIOUS
  <2>2. /\ Place(way, R, x) \in Nat
        /\ Place(way, R \cup {r}, x) =
             IF x = r \/ Ahead(way, r, x) THEN Place(way, R, x) + 1 ELSE Place(way, R, x)
    BY <2>1, PlaceMore
  <2> QED BY <2>2
<1>4. ASSUME NEW x \in S, NEW y \in S, Ahead(way, x, y) PROVE P(x) < P(y)
  <2> HIDE DEF S
  <2> QED BY <1>1, <1>4, Places
<1>5. ASSUME NEW x \in B \ A, NEW y \in B \ A, x # y PROVE FALSE
  <2> HIDE DEF P, Q
  <2>1. /\ x \in R /\ Q(x) <= k /\ ~(P(x) <= k)
        /\ y \in R /\ Q(y) <= k /\ ~(P(y) <= k)
    BY <1>5
  <2>2. ASSUME NEW z \in R, Q(z) <= k, ~(P(z) <= k) PROVE P(z) = k + 1
    <3>1. Q(z) \in Nat /\ (P(z) = Q(z) + 1 \/ P(z) = Q(z))
      BY <1>3
    <3>2. Q(z) <= k /\ ~(P(z) <= k)
      BY <2>2
    <3> QED BY <3>1, <3>2
  <2>3. Ahead(way, x, y) \/ Ahead(way, y, x)
    BY <1>5, <2>1 DEF Ahead
  <2>4. P(x) = k + 1 /\ P(y) = k + 1
    BY <2>1, <2>2
  <2> QED BY <1>1, <1>4, <2>1, <2>3, <2>4
<1> HIDE DEF A, B
<1>6. Cardinality(B) \in Nat /\ Cardinality(A) \in Nat /\ Cardinality(B) <= Cardinality(A) + 1
  BY <1>2, <1>5, OneMore
<1>7. /\ \A y : y \in A <=> y \in R \cup {r} /\ y \in G /\ Place(way, R \cup {r}, y) <= k
      /\ \A y : y \in B <=> y \in R /\ y \in G /\ Place(way, R, y) <= k
  BY DEF A, B
<1> QED
  <2> SUFFICES ASSUME NEW X, NEW Y,
                      \A y : y \in X <=> y \in R \cup {r} /\ y \in G
                                         /\ Place(way, R \cup {r}, y) <= k,
                      \A y : y \in Y <=> y \in R /\ y \in G /\ Place(way, R, y) <= k
               PROVE  /\ Cardinality(X) \in Nat /\ Cardinality(Y) \in Nat
                      /\ Cardinality(Y) <= Cardinality(X) + 1
    OBVIOUS
  <2>1. X = A /\ Y = B
    BY <1>7, Zenon
  <2> QED BY <1>6, <2>1

----------------------------------------------------------------------------

\* What is read so far: how often a row is repeated, and how reading on adds to it.
LEMMA TwiceRows ==
  ASSUME NEW s \in Seq(Listed)
  PROVE  /\ Lines(s) = 1..Len(s) /\ Len(s) \in Nat
         /\ ToSet(s) \in SUBSET Listed /\ IsFiniteSet(ToSet(s))
         /\ Cardinality(ToSet(s)) \in Nat
         /\ Twice(s) = Len(s) - Cardinality(ToSet(s)) /\ Twice(s) \in Nat
<1>1. Len(s) \in Nat /\ DOMAIN s = 1..Len(s) /\ \A i \in 1..Len(s) : s[i] \in Listed
  BY ElementOfSeq
<1>2. \A r \in Listed : r # Heading
  BY DEF Listed, Heading
<1>3. Lines(s) = 1..Len(s) /\ ToSet(s) \in SUBSET Listed /\ ToSet(s) \ {Heading} = ToSet(s)
  BY <1>1, <1>2 DEF Lines, ToSet
<1>4. IsFiniteSet(ToSet(s)) /\ Cardinality(ToSet(s)) \in Nat
  <2>1. IsFiniteSet(Listed)
    BY FS_Interval, ListingsAssumption DEF Listed
  <2> QED BY <1>3, <2>1, FS_Subset, FS_CardinalityType
<1>5. Cardinality(1..Len(s)) = Len(s)
  <2>1. Cardinality(1..Len(s)) = IF 1 > Len(s) THEN 0 ELSE Len(s) - 1 + 1
    BY <1>1, FS_Interval
  <2> QED BY <1>1, <2>1
<1>6. Cardinality(ToSet(s)) <= Len(s)
  <2>1. s \in Surjection(1..Len(s), ToSet(s))
    BY <1>1 DEF Surjection, ToSet
  <2>2. ExistsSurjection(1..Len(s), ToSet(s))
    BY <2>1 DEF ExistsSurjection
  <2> QED BY <1>1, <2>2, FS_SurjCardinalityBound
<1>7. Twice(s) = Len(s) - Cardinality(ToSet(s))
  BY <1>3, <1>5 DEF Twice
<1>8. Twice(s) \in Nat
  BY <1>1, <1>4, <1>6, <1>7
<1> QED BY <1>1, <1>3, <1>4, <1>7, <1>8

LEMMA TwiceMore ==
  ASSUME NEW s \in Seq(Listed), NEW p \in Seq(Listed),
         \A i, j \in DOMAIN p : p[i] = p[j] => i = j
  PROVE  /\ s \o p \in Seq(Listed) /\ ToSet(s \o p) = ToSet(s) \cup ToSet(p)
         /\ Cardinality(ToSet(s) \cap ToSet(p)) \in Nat /\ Twice(s) \in Int
         /\ Twice(s \o p) = Twice(s) + Cardinality(ToSet(s) \cap ToSet(p))
<1>1. /\ s \o p \in Seq(Listed) /\ Len(s \o p) = Len(s) + Len(p)
      /\ \A i \in 1..(Len(s) + Len(p)) : (s \o p)[i] = IF i <= Len(s) THEN s[i] ELSE p[i - Len(s)]
  BY ConcatProperties
<1>2. /\ Len(s) \in Nat /\ Len(p) \in Nat /\ DOMAIN s = 1..Len(s) /\ DOMAIN p = 1..Len(p)
      /\ DOMAIN (s \o p) = 1..(Len(s) + Len(p))
  BY <1>1
<1>3. ToSet(s \o p) = ToSet(s) \cup ToSet(p)
  <2>1. ASSUME NEW x \in ToSet(s \o p) PROVE x \in ToSet(s) \cup ToSet(p)
    <3>1. PICK i \in 1..(Len(s) + Len(p)) : x = (s \o p)[i]
      BY <1>2, <2>1 DEF ToSet
    <3>2. CASE i <= Len(s)
      <4>1. i \in 1..Len(s) /\ x = s[i]
        BY <1>1, <1>2, <3>1, <3>2
      <4> QED BY <1>2, <4>1 DEF ToSet
    <3>3. CASE ~(i <= Len(s))
      <4>1. i - Len(s) \in 1..Len(p) /\ x = p[i - Len(s)]
        BY <1>1, <1>2, <3>1, <3>3
      <4> QED BY <1>2, <4>1 DEF ToSet
    <3> QED BY <3>2, <3>3
  <2>2. ASSUME NEW i \in 1..Len(s) PROVE s[i] \in ToSet(s \o p)
    <3>1. i \in 1..(Len(s) + Len(p)) /\ (s \o p)[i] = s[i]
      BY <1>1, <1>2
    <3> QED BY <1>2, <3>1 DEF ToSet
  <2>3. ASSUME NEW i \in 1..Len(p) PROVE p[i] \in ToSet(s \o p)
    <3>1. Len(s) + i \in 1..(Len(s) + Len(p)) /\ ~(Len(s) + i <= Len(s)) /\ Len(s) + i - Len(s) = i
      BY <1>2
    <3>2. (s \o p)[Len(s) + i] = p[i]
      BY <1>1, <3>1
    <3> QED BY <1>2, <3>1, <3>2 DEF ToSet
  <2> QED BY <1>2, <2>1, <2>2, <2>3 DEF ToSet
<1>4. Cardinality(ToSet(p)) = Len(p)
  <2>1. p \in Injection(1..Len(p), ToSet(p)) /\ p \in Surjection(1..Len(p), ToSet(p))
    BY <1>2 DEF Injection, Surjection, IsInjective, ToSet
  <2>2. p \in Bijection(1..Len(p), ToSet(p))
    BY <2>1 DEF Bijection
  <2>3. ExistsBijection(1..Len(p), ToSet(p))
    BY <2>2 DEF ExistsBijection
  <2> QED BY <1>2, <2>3, FS_CountingElements
<1>5. /\ IsFiniteSet(ToSet(s)) /\ Cardinality(ToSet(s)) \in Nat
      /\ Twice(s) = Len(s) - Cardinality(ToSet(s))
      /\ IsFiniteSet(ToSet(p)) /\ Cardinality(ToSet(p)) \in Nat
      /\ Twice(s \o p) = Len(s \o p) - Cardinality(ToSet(s \o p))
  BY <1>1, TwiceRows
<1>6. /\ Cardinality(ToSet(s) \cup ToSet(p)) =
           Cardinality(ToSet(s)) + Cardinality(ToSet(p)) - Cardinality(ToSet(s) \cap ToSet(p))
  BY <1>5, FS_Union
<1>7. Cardinality(ToSet(s) \cap ToSet(p)) \in Nat
  <2>1. ToSet(s) \cap ToSet(p) \in SUBSET ToSet(s)
    OBVIOUS
  <2> QED BY <1>5, <2>1, FS_Subset, FS_CardinalityType
<1> QED BY <1>1, <1>2, <1>3, <1>4, <1>5, <1>6, <1>7

\* A sheet is some headings and the rows.
LEMMA SheetRows ==
  ASSUME NEW s \in Seq(Listed), NEW t \in {Csv(s), Xlsx(s), Pdf(s)}
  PROVE  /\ t \in Seq(Listed \cup {Heading})
         /\ Twice(t) = Twice(s) /\ ToSet(t) \ {Heading} = ToSet(s)
         /\ (\A i, j \in DOMAIN s : i < j => s[i] > s[j]) =>
              \A i, j \in Lines(t) : i < j => t[i] > t[j]
<1> DEFINE U == Listed \cup {Heading}
<1>1. s \in Seq(U) /\ Len(s) \in Nat /\ DOMAIN s = 1..Len(s)
  BY ElementOfSeq
<1>2. PICK b \in Seq(U) : /\ t = b \o s /\ Len(b) \in 1..3
                          /\ \A i \in 1..Len(b) : b[i] = Heading
  <2>1. t = <<Heading>> \o s \/ t = <<Heading, Heading, Heading>> \o s \/ t = <<Heading, Heading>> \o s
    BY DEF Csv, Xlsx, Pdf
  <2>2. /\ <<Heading>> \in Seq(U) /\ Len(<<Heading>>) = 1
        /\ \A i \in 1..1 : <<Heading>>[i] = Heading
    OBVIOUS
  <2>3. /\ <<Heading, Heading>> \in Seq(U) /\ Len(<<Heading, Heading>>) = 2
        /\ \A i \in 1..2 : <<Heading, Heading>>[i] = Heading
    <3>1. \A i \in 1..2 : i = 1 \/ i = 2
      OBVIOUS
    <3> QED BY <3>1
  <2>4. /\ <<Heading, Heading, Heading>> \in Seq(U) /\ Len(<<Heading, Heading, Heading>>) = 3
        /\ \A i \in 1..3 : <<Heading, Heading, Heading>>[i] = Heading
    <3>1. \A i \in 1..3 : i = 1 \/ i = 2 \/ i = 3
      OBVIOUS
    <3> QED BY <3>1
  <2>5. ASSUME NEW b \in Seq(U), Len(b) \in 1..3, t = b \o s, \A i \in 1..Len(b) : b[i] = Heading
        PROVE  \E c \in Seq(U) : t = c \o s /\ Len(c) \in 1..3 /\ \A i \in 1..Len(c) : c[i] = Heading
    BY <2>5
  <2>6. CASE t = <<Heading>> \o s
    <3> DEFINE b == <<Heading>>
    <3>1. b \in Seq(U) /\ Len(b) = 1 /\ \A i \in 1..1 : b[i] = Heading
      BY <2>2
    <3> HIDE DEF b
    <3>2. Len(b) \in 1..3 /\ \A i \in 1..Len(b) : b[i] = Heading
      BY <3>1
    <3>3. t = b \o s
      BY <2>6 DEF b
    <3> QED BY <2>5, <3>1, <3>2, <3>3
  <2>7. CASE t = <<Heading, Heading>> \o s
    <3> DEFINE b == <<Heading, Heading>>
    <3>1. b \in Seq(U) /\ Len(b) = 2 /\ \A i \in 1..2 : b[i] = Heading
      BY <2>3
    <3> HIDE DEF b
    <3>2. Len(b) \in 1..3 /\ \A i \in 1..Len(b) : b[i] = Heading
      BY <3>1
    <3>3. t = b \o s
      BY <2>7 DEF b
    <3> QED BY <2>5, <3>1, <3>2, <3>3
  <2>8. CASE t = <<Heading, Heading, Heading>> \o s
    <3> DEFINE b == <<Heading, Heading, Heading>>
    <3>1. b \in Seq(U) /\ Len(b) = 3 /\ \A i \in 1..3 : b[i] = Heading
      BY <2>4
    <3> HIDE DEF b
    <3>2. Len(b) \in 1..3 /\ \A i \in 1..Len(b) : b[i] = Heading
      BY <3>1
    <3>3. t = b \o s
      BY <2>8 DEF b
    <3> QED BY <2>5, <3>1, <3>2, <3>3
  <2> QED BY <2>1, <2>6, <2>7, <2>8
<1> DEFINE h == Len(b)
           n == Len(s)
<1>3. h \in Nat /\ n \in Nat
  BY <1>1, <1>2
<1>4. /\ t \in Seq(U) /\ Len(t) = h + n
      /\ \A i \in 1..(h + n) : t[i] = IF i <= h THEN b[i] ELSE s[i - h]
  BY <1>1, <1>2, ConcatProperties
<1>5. DOMAIN t = 1..(h + n)
  BY <1>4
<1>6. \A i \in 1..n : s[i] \in Listed /\ s[i] # Heading
  <2>1. \A i \in 1..n : s[i] \in Listed
    BY <1>1, ElementOfSeq
  <2>2. \A r \in Listed : r # Heading
    BY DEF Listed, Heading
  <2> QED BY <2>1, <2>2
<1> HIDE DEF h, n
<1>7. ASSUME NEW i \in 1..(h + n)
      PROVE  /\ i <= h => t[i] = Heading
             /\ ~(i <= h) => i - h \in 1..n /\ t[i] = s[i - h]
  <2>1. i <= h => i \in 1..h
    BY <1>3
  <2>2. ~(i <= h) => i - h \in 1..n
    BY <1>3
  <2> QED BY <1>2, <1>4, <2>1, <2>2 DEF h
<1>8. ASSUME NEW i \in 1..n PROVE h + i \in 1..(h + n) /\ t[h + i] = s[i]
  <2>1. PICK j \in 1..(h + n) : j = h + i /\ ~(j <= h) /\ j - h = i
    BY <1>3
  <2>2. t[j] = s[j - h]
    BY <1>4, <2>1
  <2> QED BY <2>1, <2>2
<1>9. Lines(t) = (h + 1)..(h + n)
  <2>1. ASSUME NEW i \in (h + 1)..(h + n) PROVE i \in Lines(t)
    <3>1. i \in 1..(h + n) /\ ~(i <= h)
      BY <1>3
    <3> QED BY <1>5, <1>6, <1>7, <3>1 DEF Lines
  <2>2. ASSUME NEW i \in Lines(t) PROVE i \in (h + 1)..(h + n)
    <3>1. i \in 1..(h + n) /\ t[i] # Heading
      BY <1>5 DEF Lines
    <3>2. ~(i <= h)
      BY <1>7, <3>1
    <3> QED BY <1>3, <3>1, <3>2
  <2> QED BY <2>1, <2>2
<1>10. Cardinality(Lines(t)) = n
  <2>1. Cardinality((h + 1)..(h + n)) = IF h + 1 > h + n THEN 0 ELSE (h + n) - (h + 1) + 1
    BY <1>3, FS_Interval
  <2> QED BY <1>3, <1>9, <2>1
<1>11. ToSet(t) \ {Heading} = ToSet(s)
  <2>1. ASSUME NEW x \in ToSet(t), x # Heading PROVE x \in ToSet(s)
    <3>1. PICK i \in 1..(h + n) : x = t[i]
      BY <1>5 DEF ToSet
    <3>2. i - h \in 1..n /\ x = s[i - h]
      BY <1>7, <2>1, <3>1
    <3> QED BY <1>1, <3>2 DEF ToSet, n
  <2>2. ASSUME NEW x \in ToSet(s) PROVE x \in ToSet(t) /\ x # Heading
    <3>1. PICK i \in 1..n : x = s[i]
      BY <1>1 DEF ToSet, n
    <3> QED BY <1>5, <1>6, <1>8, <3>1 DEF ToSet
  <2> QED BY <2>1, <2>2
<1>12. Twice(t) = Twice(s)
  <2>1. Twice(s) = Len(s) - Cardinality(ToSet(s))
    BY TwiceRows
  <2> QED BY <1>10, <1>11, <2>1 DEF Twice, n
<1>13. ASSUME \A i, j \in DOMAIN s : i < j => s[i] > s[j],
              NEW i \in Lines(t), NEW j \in Lines(t), i < j
       PROVE  t[i] > t[j]
  <2>1. i \in (h + 1)..(h + n) /\ j \in (h + 1)..(h + n)
    BY <1>9
  <2>2. /\ i \in 1..(h + n) /\ ~(i <= h) /\ j \in 1..(h + n) /\ ~(j <= h)
        /\ i \in Int /\ j \in Int
    BY <1>3, <2>1
  <2>3. i - h \in 1..n /\ t[i] = s[i - h] /\ j - h \in 1..n /\ t[j] = s[j - h]
    BY <1>7, <2>2
  <2>4. i - h < j - h /\ i - h \in DOMAIN s /\ j - h \in DOMAIN s
    BY <1>1, <1>3, <1>13, <2>2, <2>3 DEF n
  <2> QED BY <1>13, <2>3, <2>4
<1> QED BY <1>4, <1>11, <1>12, <1>13

----------------------------------------------------------------------------

LEMMA KindsOfLists ==
  /\ listing \in Offset => listing \notin ByCursor /\ listing \notin Sums
  /\ listing \in ByCursor => listing \in Exports /\ listing \notin Pages /\ listing \notin Sums
  /\ listing \in Exports => listing \notin Pages /\ (listing \in ByCursor \/ listing = "rsvps")
  /\ listing \in Pages \cup {"rsvps"} <=> listing \in Offset
  /\ listing = "replies" => listing \in Pages
  /\ listing = "rsvps" => listing \in Exports
  /\ listing \in {"check-in", "held events"} <=> listing \in Sums
  BY DEF Offset, ByCursor, Exports, Pages, Sums

\* How many rows stand behind a place.
LEMMA BehindCount ==
  ASSUME NEW way \in {"up", "down"}, NEW S \in SUBSET Int, IsFiniteSet(S), NEW k \in Nat,
         NEW A \in SUBSET S, \A x \in A : Place(way, S, x) > k
  PROVE  /\ Cardinality(A) \in Nat /\ Cardinality(S) \in Nat
         /\ Cardinality(A) <= IF Cardinality(S) > k THEN Cardinality(S) - k ELSE 0
<1> DEFINE n == Cardinality(S)
           T == (k + 1)..n
           f == [x \in A |-> Place(way, S, x)]
<1>1. /\ n \in Nat
      /\ \A x \in S : Place(way, S, x) \in 1..n
      /\ \A x, y \in S : Ahead(way, x, y) => Place(way, S, x) < Place(way, S, y)
  BY Places
<1>2. f \in Injection(A, T)
  <2>1. \A x \in A : Place(way, S, x) \in T
    BY <1>1
  <2>2. ASSUME NEW x \in A, NEW y \in A, Place(way, S, x) = Place(way, S, y), x # y PROVE FALSE
    <3>1. Ahead(way, x, y) \/ Ahead(way, y, x)
      BY <2>2 DEF Ahead
    <3> QED BY <1>1, <2>2, <3>1
  <2> QED BY <2>1, <2>2 DEF Injection, IsInjective
<1>3. IsFiniteSet(T) /\ Cardinality(T) = IF k + 1 > n THEN 0 ELSE n - (k + 1) + 1
  <2>1. k + 1 \in Int /\ n \in Int
    BY <1>1
  <2> HIDE DEF n
  <2> QED BY <2>1, FS_Interval
<1>4. IsFiniteSet(A) /\ Cardinality(A) \in Nat
  BY FS_Subset, FS_CardinalityType
<1> HIDE DEF f, T
<1>5. Cardinality(A) <= Cardinality(T)
  BY <1>2, <1>3, FS_Injection
<1> QED BY <1>1, <1>3, <1>4, <1>5

\* The counts the invariant compares are numbers.
LEMMA OffsetCounts ==
  ASSUME ListingsTypeOK
  PROVE  /\ IsFiniteSet(Again) /\ Cardinality(Again) \in Nat
         /\ IsFiniteSet(Over) /\ Cardinality(Over) \in Nat
         /\ IsFiniteSet(ToSet(given)) /\ Twice(given) \in Nat
         /\ Cardinality(present) \in Nat
<1>1. Again \in SUBSET present /\ Over \in SUBSET steady
  BY DEF Again, Over
<1>2. given \in Seq(Listed)
  BY DEF ListingsTypeOK
<1> QED BY <1>1, <1>2, ListFacts, TwiceRows, FS_Subset, FS_CardinalityType

----------------------------------------------------------------------------

\* A row comes.
LEMMA ComesKeeps ==
  ASSUME ListingsInv, NEW r \in Listed, r \notin present, Comes(r),
         UNCHANGED <<listing, readVars, shaken>>, updates' \in 0..MaxUpdates,
         listing = "replies" /\ dwindled = 0 => r \notin passed /\ \A s \in passed : s < r,
         listing \in Sums => KindOf(r) \in known
  PROVE  ListingsInv'
<1> USE DEF Comes, readVars
<1>0. ListingsTypeOK /\ ReadingOK /\ CursorInv /\ OffsetInv /\ SumsInv
  BY DEF ListingsInv
<1>1. ListingsTypeOK'
  BY <1>0 DEF ListingsTypeOK
<1>2. ReadingOK'
  BY <1>0 DEF ReadingOK, Reads, Sequel, Csv, Xlsx, Pdf
<1>3. CursorInv'
  BY <1>0 DEF CursorInv, Reads
<1>4. SumsInv'
  BY <1>0 DEF SumsInv, SumsExact, Reads, Kinded
<1>5. ASSUME listing \in Offset PROVE OffsetInv'
  <2>1. /\ present \in SUBSET Int /\ IsFiniteSet(present) /\ r \in Int
        /\ reader.from \in Nat /\ steady \in SUBSET present /\ Way \in {"up", "down"}
    BY <1>0, ListFacts DEF Way
  <2>2. Way' = Way /\ present' = present \cup {r}
    BY DEF Way
  <2>3. /\ Cardinality(Again) \in Nat /\ Cardinality(Again') \in Nat
        /\ Cardinality(Again') <= Cardinality(Again) + 1
    <3>1. CASE Reading
      <4>1. /\ Again = {y \in present \cap ToSet(given) : Place(Way, present, y) > reader.from}
            /\ Again' = {y \in (present \cup {r}) \cap ToSet(given) :
                           Place(Way, present \cup {r}, y) > reader.from}
        BY <2>2, <3>1 DEF Again, Rank, Reading
      <4>2. /\ \A y : y \in Again <=> y \in present /\ y \in ToSet(given)
                                       /\ Place(Way, present, y) > reader.from
            /\ \A y : y \in Again' <=> y \in present \cup {r} /\ y \in ToSet(given)
                                        /\ Place(Way, present \cup {r}, y) > reader.from
        BY <4>1
      <4> QED BY <2>1, <4>2, BehindMore
    <3>2. CASE ~Reading
      <4>1. Again = {} /\ Again' = {}
        BY <3>2 DEF Again, Reading
      <4> QED BY <4>1, FS_EmptySet
    <3> QED BY <3>1, <3>2
  <2>4. Twice(given)' = Twice(given) /\ Twice(given) \in Nat
    BY <1>0, OffsetCounts DEF Twice, Lines
  <2>5. /\ Cardinality(Over) \in Nat /\ Cardinality(Over') \in Nat
        /\ Cardinality(Over') <= Cardinality(Over)
    <3>1. Over' \in SUBSET Over
      <4> SUFFICES ASSUME NEW y \in steady \ ToSet(given), Reading,
                          Place(Way, present \cup {r}, y) <= reader.from
                   PROVE  Place(Way, present, y) <= reader.from
        BY <2>2 DEF Over, Rank, Reading
      <4>1. y \in Int
        BY <2>1
      <4>2. Place(Way, present, y) \in Nat
        BY <2>1, <4>1, PlaceMore
      <4>3. \/ Place(Way, present \cup {r}, y) = Place(Way, present, y)
            \/ Place(Way, present \cup {r}, y) = Place(Way, present, y) + 1
        BY <2>1, <4>1, PlaceMore
      <4> QED BY <2>1, <4>2, <4>3
    <3>2. IsFiniteSet(Over) /\ Cardinality(Over) \in Nat
      BY <1>0, OffsetCounts
    <3> QED BY <3>1, <3>2, FS_Subset, FS_CardinalityType
  <2>6. Cardinality(present') = Cardinality(present) + 1 /\ Cardinality(present) \in Nat
    <3>1. Cardinality(present \cup {r}) = Cardinality(present) + 1
      BY <2>1, FS_AddElement
    <3>2. Cardinality(present) \in Nat
      BY <2>1, FS_CardinalityType
    <3> QED BY <2>2, <3>1, <3>2
  <2>7. ASSUME listing = "replies", dwindled = 0 PROVE present' = passed' /\ Excess' = 0
    <3>1. present = passed /\ Excess = 0
      BY <1>0, <1>5, <2>7 DEF OffsetInv
    <3>2. r \notin ToSet(given) /\ \A y \in present : y < r /\ y \in Int
      BY <1>0, <2>1, <2>7, <3>1 DEF ReadingOK
    <3>3. Again' \in SUBSET Again
      <4> SUFFICES ASSUME NEW y \in present \cap ToSet(given), Reading,
                          Place(Way, present \cup {r}, y) > reader.from
                   PROVE  Place(Way, present, y) > reader.from
        BY <2>2, <3>2 DEF Again, Rank, Reading
      <4>1. y \in Int /\ ~Ahead(Way, r, y) /\ y # r
        BY <2>1, <2>7, <3>2 DEF Ahead, Way
      <4>2. Place(Way, present \cup {r}, y) = Place(Way, present, y)
        BY <2>1, <4>1, PlaceMore
      <4> QED BY <4>2
    <3>4. Cardinality(Again) = 0
      BY <2>3, <2>4, <3>1 DEF Excess
    <3>5. Again = {}
      BY <1>0, <3>4, OffsetCounts, FS_EmptySet
    <3>6. Again' = {}
      BY <3>3, <3>5
    <3>7. Excess' = Excess
      BY <2>4, <3>5, <3>6 DEF Excess
    <3> QED BY <3>1, <3>7
  <2>8. /\ gained \in Nat /\ dwindled \in Nat /\ squeezed \in Nat /\ reader.total \in Nat
    BY <1>0 DEF ListingsTypeOK
  <2>9. Excess' <= gained'
    <3>1. Excess <= gained
      BY <1>0, <1>5 DEF OffsetInv
    <3> QED BY <2>3, <2>4, <2>8, <3>1 DEF Excess
  <2>10. squeezed' \in Nat /\ squeezed' >= squeezed /\ (Reads("rows") => squeezed' = squeezed + 1)
    BY <2>8
  <2>11. Reading' = Reading /\ \A pc : Reads(pc)' = Reads(pc)
    BY DEF Reading, Reads
  <2>12. Reading \/ listing \in Exports => Cardinality(Over') <= dwindled
    BY <1>0, <1>5, <2>5, <2>8 DEF OffsetInv
  <2>13. ~Reading /\ listing \in Pages => Cardinality(Over') <= dwindled + squeezed'
    BY <1>0, <1>5, <2>5, <2>8, <2>10 DEF OffsetInv
  <2>14. Reads("rows") => Cardinality(present') <= reader.total + squeezed'
    BY <1>0, <1>5, <2>6, <2>8, <2>10 DEF OffsetInv
  <2> QED BY <2>7, <2>9, <2>11, <2>12, <2>13, <2>14 DEF OffsetInv
<1>6. OffsetInv'
  BY <1>5 DEF OffsetInv
<1> QED BY <1>1, <1>2, <1>3, <1>4, <1>6 DEF ListingsInv

LEMMA UpdateCounted ==
  ASSUME ListingsTypeOK, Update PROVE updates' \in 0..MaxUpdates
<1>1. updates \in 0..MaxUpdates /\ MaxUpdates \in Nat
  BY ListingsAssumption DEF ListingsTypeOK
<1>2. updates < MaxUpdates /\ updates' = updates + 1
  BY DEF Update
<1> QED BY <1>1, <1>2

LEMMA JoinKeeps == ASSUME ListingsInv, NEW r \in Listed, Join(r) PROVE ListingsInv'
<1>1. ListingsTypeOK
  BY DEF ListingsInv
<1>2. r \notin present /\ updates' \in 0..MaxUpdates
  <2>1. r \notin passed /\ present \subseteq passed
    BY <1>1 DEF Join, ListingsTypeOK
  <2> QED BY <1>1, <2>1, UpdateCounted DEF Join
<1>3. Comes(r) /\ UNCHANGED <<listing, readVars, shaken>>
  BY DEF Join, Update
<1>4. listing = "replies" /\ dwindled = 0 => r \notin passed /\ \A s \in passed : s < r
  BY DEF Join
<1>5. KindOf(r) \in known
  BY DEF Join
<1> QED BY <1>2, <1>3, <1>4, <1>5, ComesKeeps

LEMMA ReturnKeeps == ASSUME ListingsInv, NEW r \in Listed, Return(r) PROVE ListingsInv'
<1>1. ListingsTypeOK /\ OffsetInv
  BY DEF ListingsInv
<1>2. r \in passed /\ r \notin present /\ updates' \in 0..MaxUpdates
  BY <1>1, UpdateCounted DEF Return
<1>3. Comes(r) /\ UNCHANGED <<listing, readVars, shaken>>
  BY DEF Return, Update
<1>4. listing \in Offset /\ listing \notin Sums
  BY KindsOfLists DEF Return
<1>5. ~(listing = "replies" /\ dwindled = 0)
  BY <1>1, <1>2, <1>4 DEF OffsetInv
<1> QED BY <1>2, <1>3, <1>4, <1>5, ComesKeeps

\* A row leaves.
LEMMA DropOutKeeps == ASSUME ListingsInv, NEW r \in Listed, DropOut(r) PROVE ListingsInv'
<1> USE DEF DropOut, Update, readVars
<1>0. ListingsTypeOK /\ ReadingOK /\ CursorInv /\ OffsetInv /\ SumsInv
  BY DEF ListingsInv
<1>1. ListingsTypeOK'
  BY <1>0, ListingsAssumption DEF ListingsTypeOK
<1>2. ReadingOK'
  BY <1>0 DEF ReadingOK, Reads, Sequel, Csv, Xlsx, Pdf
<1>3. listing \in Offset /\ listing \notin ByCursor /\ listing \notin Sums
  BY KindsOfLists
<1>4. CursorInv' /\ SumsInv'
  BY <1>3 DEF CursorInv, SumsInv
<1>5. OffsetInv'
  <2>1. /\ present \in SUBSET Int /\ IsFiniteSet(present) /\ r \in Int /\ r \in present
        /\ reader.from \in Nat /\ steady \in SUBSET present /\ Way \in {"up", "down"}
    BY <1>0, ListFacts DEF Way
  <2> DEFINE R == present \ {r}
  <2>2. /\ Way' = Way /\ present' = R /\ R \in SUBSET Int /\ IsFiniteSet(R)
        /\ r \notin R /\ R \cup {r} = present
    BY <2>1, FS_RemoveElement DEF Way
  <2>3. ASSUME NEW y \in Int
        PROVE  /\ Place(Way, R, y) \in Nat
               /\ \/ Place(Way, present, y) = Place(Way, R, y)
                  \/ Place(Way, present, y) = Place(Way, R, y) + 1
    <3> HIDE DEF R
    <3>1. Place(Way, R, y) \in Nat
      BY <2>1, <2>2, PlaceMore
    <3>2. Place(Way, R \cup {r}, y) =
            IF y = r \/ Ahead(Way, r, y) THEN Place(Way, R, y) + 1 ELSE Place(Way, R, y)
      BY <2>1, <2>2, PlaceMore
    <3> QED BY <2>2, <3>1, <3>2
  <2>4. Again' \in SUBSET Again
    <3> SUFFICES ASSUME NEW y \in R \cap ToSet(given), Reading, Place(Way, R, y) > reader.from
                 PROVE  Place(Way, present, y) > reader.from
      BY <2>2 DEF Again, Rank, Reading
    <3>1. y \in Int
      BY <2>2
    <3> HIDE DEF R
    <3> QED BY <2>1, <2>3, <3>1
  <2>5. /\ IsFiniteSet(Again) /\ Cardinality(Again) \in Nat
        /\ IsFiniteSet(Over) /\ Cardinality(Over) \in Nat
        /\ Twice(given) \in Nat /\ Cardinality(present) \in Nat
    BY <1>0, OffsetCounts
  <2>6. Cardinality(Again') <= Cardinality(Again) /\ Cardinality(Again') \in Nat
    BY <2>4, <2>5, FS_Subset, FS_CardinalityType
  <2>7. /\ Cardinality(Over') \in Nat /\ Cardinality(Over') <= Cardinality(Over) + 1
    <3>1. CASE Reading
      <4> DEFINE D == steady \ ToSet(given)
      <4>1. \A y : y \in D => y \in present
        BY <2>1
      <4>2. \A y : y \in Over <=> y \in D /\ Place(Way, present, y) <= reader.from
        BY <3>1 DEF Over, Rank, Reading
      <4>3. \A y : y \in Over' <=> y \in D /\ y # r /\ Place(Way, present \ {r}, y) <= reader.from
        BY <2>2, <3>1 DEF Over, Rank, Reading
      <4> HIDE DEF D
      <4>4. /\ \A y : y \in Over <=> y \in R \cup {r} /\ y \in D
                                     /\ Place(Way, R \cup {r}, y) <= reader.from
            /\ \A y : y \in Over' <=> y \in R /\ y \in D /\ Place(Way, R, y) <= reader.from
        BY <2>2, <4>1, <4>2, <4>3
      <4>5. /\ Way \in {"up", "down"} /\ R \in SUBSET Int /\ IsFiniteSet(R)
            /\ r \in Int /\ r \notin R /\ reader.from \in Nat
        BY <2>1, <2>2
      <4> HIDE DEF R, DropOut, Update
      <4>6. \A X, Y :
              /\ \A y : y \in X <=> y \in R \cup {r} /\ y \in D
                                       /\ Place(Way, R \cup {r}, y) <= reader.from
              /\ \A y : y \in Y <=> y \in R /\ y \in D /\ Place(Way, R, y) <= reader.from
              => /\ Cardinality(X) \in Nat /\ Cardinality(Y) \in Nat
                 /\ Cardinality(Y) <= Cardinality(X) + 1
        BY <4>5, BeforeFewer
      <4> QED BY <4>4, <4>6, Zenon
    <3>2. CASE ~Reading
      <4>1. Over' \in SUBSET Over
        BY <3>2 DEF Over, Reading
      <4> QED BY <2>5, <4>1, FS_Subset, FS_CardinalityType
    <3> QED BY <3>1, <3>2
  <2>8. gained \in Nat /\ dwindled \in Nat /\ squeezed \in Nat /\ reader.total \in Nat
    BY <1>0 DEF ListingsTypeOK
  <2>9. Twice(given)' = Twice(given) /\ Reading' = Reading /\ \A pc : Reads(pc)' = Reads(pc)
    BY DEF Twice, Lines, Reading, Reads
  <2>10. Cardinality(present') <= Cardinality(present) /\ Cardinality(present') \in Nat
    BY <2>1, <2>2, <2>5, FS_Subset, FS_CardinalityType
  <2>11. Excess' <= gained'
    <3>1. Excess <= gained
      BY <1>0, <1>3 DEF OffsetInv
    <3> QED BY <2>5, <2>6, <2>8, <2>9, <3>1 DEF Excess
  <2>12. Reading \/ listing \in Exports => Cardinality(Over') <= dwindled'
    BY <1>0, <1>3, <2>5, <2>7, <2>8 DEF OffsetInv
  <2>13. ~Reading /\ listing \in Pages => Cardinality(Over') <= dwindled' + squeezed
    BY <1>0, <1>3, <2>5, <2>7, <2>8 DEF OffsetInv
  <2>14. Reads("rows") => Cardinality(present') <= reader.total + squeezed
    BY <1>0, <1>3, <2>5, <2>8, <2>10 DEF OffsetInv
  <2>15. dwindled' # 0
    BY <2>8
  <2> QED BY <2>9, <2>11, <2>12, <2>13, <2>14, <2>15 DEF OffsetInv
<1> QED BY <1>1, <1>2, <1>4, <1>5 DEF ListingsInv

LEMMA AddKindKeeps == ASSUME ListingsInv, AddKind PROVE ListingsInv'
<1> USE DEF AddKind, Update, readVars
<1>0. ListingsTypeOK /\ ReadingOK /\ CursorInv /\ OffsetInv /\ SumsInv
  BY DEF ListingsInv
<1>1. ListingsTypeOK'
  BY <1>0, ListingsAssumption DEF ListingsTypeOK
<1>2. ReadingOK'
  BY <1>0 DEF ReadingOK, Reads, Sequel, Csv, Xlsx, Pdf
<1>3. listing \notin Offset /\ listing \notin ByCursor /\ listing \in Sums
  BY KindsOfLists
<1>4. CursorInv' /\ OffsetInv'
  BY <1>3 DEF CursorInv, OffsetInv
<1>5. SumsInv'
  BY <1>0, <1>3 DEF SumsInv, SumsExact, Reads, Kinded
<1> QED BY <1>1, <1>2, <1>4, <1>5 DEF ListingsInv

\* An event goes with all its rows.
LEMMA PurgeKeeps == ASSUME ListingsInv, Purge PROVE ListingsInv'
<1>0. ListingsTypeOK /\ ReadingOK /\ CursorInv /\ OffsetInv /\ SumsInv
  BY DEF ListingsInv
<1>a. /\ UNCHANGED <<listing, reader, given, sheet, passed, gained, squeezed>>
      /\ updates' \in 0..MaxUpdates
  BY <1>0, UpdateCounted DEF Purge, Update, readVars
<1>b. \/ /\ listing \notin Sums
         /\ present' = {} /\ steady' = {} /\ dwindled' = dwindled + Cardinality(present)
         /\ shaken' = TRUE /\ UNCHANGED known
      \/ /\ listing = "held events" /\ shaken' = (shaken \/ Reads("kinds"))
         /\ \E k \in known :
              LET its == {r \in present : KindOf(r) = k}
              IN /\ known' = known \ {k}
                 /\ present' = present \ its /\ steady' = steady \ its
                 /\ dwindled' = dwindled + Cardinality(its)
  <2>1. CASE listing \in Exports \cup {"event tickets", "comments", "replies"}
    BY <2>1 DEF Purge, Exports, ByCursor, Sums
  <2>2. CASE listing \notin Exports \cup {"event tickets", "comments", "replies"}
    BY <2>2 DEF Purge
  <2> QED BY <2>1, <2>2
<1>c. dwindled' \in Nat /\ present' \subseteq present /\ steady' \subseteq present' /\ known' \subseteq known
      /\ steady' \subseteq steady /\ shaken' \in BOOLEAN
  <2>1. \A k : LET its == {r \in present : KindOf(r) = k} IN Cardinality(its) \in Nat
    <3> SUFFICES ASSUME NEW k PROVE Cardinality({r \in present : KindOf(r) = k}) \in Nat
      OBVIOUS
    <3> DEFINE its == {r \in present : KindOf(r) = k}
    <3>1. its \in SUBSET present
      OBVIOUS
    <3> HIDE DEF its
    <3>2. Cardinality(its) \in Nat
      BY <1>0, <3>1, ListFacts, FS_Subset, FS_CardinalityType
    <3> QED BY <3>2 DEF its
  <2>2. Cardinality(present) \in Nat
    BY <1>0, ListFacts, FS_CardinalityType
  <2>3. dwindled \in Nat /\ steady \subseteq present /\ shaken \in BOOLEAN
    BY <1>0 DEF ListingsTypeOK
  <2>4. CASE /\ present' = {} /\ steady' = {} /\ dwindled' = dwindled + Cardinality(present)
             /\ shaken' = TRUE /\ UNCHANGED known
    BY <2>2, <2>3, <2>4
  <2>5. CASE /\ shaken' = (shaken \/ Reads("kinds"))
             /\ \E k \in known :
                  LET its == {r \in present : KindOf(r) = k}
                  IN /\ known' = known \ {k}
                     /\ present' = present \ its /\ steady' = steady \ its
                     /\ dwindled' = dwindled + Cardinality(its)
    <3>1. PICK k \in known : LET its == {r \in present : KindOf(r) = k}
                             IN /\ known' = known \ {k}
                                /\ present' = present \ its /\ steady' = steady \ its
                                /\ dwindled' = dwindled + Cardinality(its)
      BY <2>5
    <3> DEFINE its == {r \in present : KindOf(r) = k}
    <3>2. /\ known' = known \ {k} /\ present' = present \ its /\ steady' = steady \ its
          /\ dwindled' = dwindled + Cardinality(its) /\ Cardinality(its) \in Nat
      BY <2>1, <3>1
    <3> HIDE DEF its
    <3>3. dwindled' \in Nat
      BY <2>3, <3>2
    <3>4. shaken' \in BOOLEAN
      <4>1. Reads("kinds") \in BOOLEAN
        BY DEF Reads
      <4> QED BY <2>3, <2>5, <4>1
    <3> QED BY <2>3, <3>2, <3>3, <3>4
  <2> QED BY <1>b, <2>4, <2>5
<1>1. ListingsTypeOK'
  BY <1>0, <1>a, <1>c DEF ListingsTypeOK
<1>2. ReadingOK'
  BY <1>0, <1>a DEF ReadingOK, Reads, Sequel, Csv, Xlsx, Pdf
<1>3. CursorInv'
  <2> SUFFICES ASSUME listing \in ByCursor PROVE CursorInv'
    BY <1>a DEF CursorInv
  <2>1. steady' = {}
    BY <1>b, KindsOfLists
  <2> QED BY <1>0, <1>a, <2>1 DEF CursorInv, Reads
<1>4. SumsInv'
  <2> SUFFICES ASSUME listing \in Sums PROVE SumsInv'
    BY <1>a DEF SumsInv
  <2>1. PICK k \in known : /\ known' = known \ {k} /\ shaken' = (shaken \/ Reads("kinds"))
                           /\ present' = present \ {r \in present : KindOf(r) = k}
    BY <1>b
  <2>2. listing = "held events" /\ ~Reads("counts")
    BY <1>0, <1>b DEF SumsInv
  <2>3. \A r \in present' : KindOf(r) \in known'
    BY <1>0, <2>1 DEF SumsInv
  <2>4. SumsExact'
    BY <1>0, <1>a, <2>1 DEF SumsInv, SumsExact, Reads
  <2> QED BY <1>0, <1>a, <2>1, <2>2, <2>3, <2>4 DEF SumsInv, Reads
<1>5. OffsetInv'
  <2> SUFFICES ASSUME listing \in Offset PROVE OffsetInv'
    BY <1>a DEF OffsetInv
  <2>1. present' = {} /\ steady' = {} /\ dwindled' = dwindled + Cardinality(present)
    BY <1>b, KindsOfLists
  <2>2. Again' = {} /\ Over' = {}
    BY <2>1 DEF Again, Over
  <2>3. Cardinality({}) = 0
    BY FS_EmptySet
  <2>4. /\ Twice(given) \in Nat /\ Cardinality(Again) \in Nat /\ Cardinality(present) \in Nat
        /\ (Cardinality(present) = 0 => present = {})
    BY <1>0, OffsetCounts, ListFacts, FS_EmptySet
  <2>5. gained \in Nat /\ dwindled \in Nat /\ squeezed \in Nat /\ reader.total \in Nat
    BY <1>0 DEF ListingsTypeOK
  <2>6. Twice(given)' = Twice(given) /\ Reading' = Reading /\ \A pc : Reads(pc)' = Reads(pc)
    BY <1>a DEF Twice, Lines, Reading, Reads
  <2>7. Excess' = Twice(given) /\ Excess' <= Excess
    BY <2>2, <2>3, <2>4, <2>6 DEF Excess
  <2>8. Excess' <= gained'
    <3>1. Excess <= gained /\ Excess \in Int
      BY <1>0, <2>4 DEF OffsetInv, Excess
    <3> QED BY <1>a, <2>4, <2>5, <2>7, <3>1
  <2>9. listing = "replies" /\ dwindled' = 0 => present' = passed' /\ Excess' = 0
    <3> SUFFICES ASSUME listing = "replies", dwindled' = 0 PROVE present' = passed' /\ Excess' = 0
      OBVIOUS
    <3>1. dwindled = 0 /\ present = {}
      BY <2>1, <2>4, <2>5
    <3>2. present = passed /\ Excess = 0
      BY <1>0, <3>1 DEF OffsetInv
    <3> QED BY <1>a, <2>1, <2>4, <2>7, <3>1, <3>2
  <2>10. Cardinality(Over') <= dwindled' /\ Cardinality(Over') <= dwindled' + squeezed'
    BY <1>a, <1>c, <2>2, <2>3, <2>5
  <2>11. Reads("rows") => Cardinality(present') <= reader.total + squeezed
    BY <2>1, <2>3, <2>5
  <2> QED BY <1>a, <2>6, <2>8, <2>9, <2>10, <2>11 DEF OffsetInv
<1> QED BY <1>1, <1>2, <1>3, <1>4, <1>5 DEF ListingsInv

----------------------------------------------------------------------------

\* The reader's record after a step.
LEMMA ReaderMoves ==
  ASSUME ListingsTypeOK
  PROVE  /\ \A n \in Nat : LET m == [reader EXCEPT !.pc = "rows", !.total = n]
                           IN  m.pc = "rows" /\ m.from = reader.from /\ m.total = n
         /\ \A l \in {"batch", "render", "count", "rows", "sum", "counts", "kinds", "done"} :
              LET m == [reader EXCEPT !.pc = l]
              IN  m.pc = l /\ m.from = reader.from /\ m.total = reader.total
         /\ \A n \in Nat : LET m == [reader EXCEPT !.from = n]
                           IN  m.pc = reader.pc /\ m.from = n /\ m.total = reader.total
  BY DEF ListingsTypeOK

LEMMA ReaderTyped ==
  ASSUME ListingsTypeOK
  PROVE  /\ \A n \in Nat : [reader EXCEPT !.pc = "rows", !.total = n] \in
              [pc : {"batch", "render", "count", "rows", "sum", "counts", "kinds", "done"},
               from : Nat, total : Nat]
         /\ \A l \in {"batch", "render", "count", "rows", "sum", "counts", "kinds", "done"} :
              [reader EXCEPT !.pc = l] \in
              [pc : {"batch", "render", "count", "rows", "sum", "counts", "kinds", "done"},
               from : Nat, total : Nat]
         /\ \A n \in Nat : [reader EXCEPT !.from = n] \in
              [pc : {"batch", "render", "count", "rows", "sum", "counts", "kinds", "done"},
               from : Nat, total : Nat]
  BY DEF ListingsTypeOK

LEMMA CountRowsKeeps == ASSUME ListingsInv, CountRows PROVE ListingsInv'
<1>0. ListingsTypeOK /\ ReadingOK /\ CursorInv /\ OffsetInv /\ SumsInv
  BY DEF ListingsInv
<1>1. UNCHANGED <<listing, present, known, passed, given, sheet, updates,
                  steady, gained, dwindled, squeezed, shaken>>
  BY DEF CountRows, listVars, listHistory
<1>2. Cardinality(present) \in Nat /\ squeezed \in Nat
  BY <1>0, OffsetCounts DEF ListingsTypeOK
<1>3. reader' = [reader EXCEPT !.pc = "rows", !.total = Cardinality(present)] /\ Reads("count")
  BY DEF CountRows
<1>4. /\ reader'.pc = "rows" /\ reader'.from = reader.from /\ reader'.total = Cardinality(present)
      /\ reader' \in [pc : {"batch", "render", "count", "rows", "sum", "counts", "kinds", "done"},
                      from : Nat, total : Nat]
  BY <1>0, <1>2, <1>3, ReaderMoves, ReaderTyped
<1>5. ListingsTypeOK'
  BY <1>0, <1>1, <1>4 DEF ListingsTypeOK
<1>6. listing \in Pages /\ listing \in Offset /\ listing \notin ByCursor /\ listing \notin Sums
  BY <1>0, <1>3, KindsOfLists DEF ReadingOK, Sequel, Reads
<1>7. ReadingOK'
  BY <1>0, <1>1, <1>4, <1>6, KindsOfLists DEF ReadingOK, Reads, Sequel
<1>8. CursorInv' /\ SumsInv'
  BY <1>1, <1>6 DEF CursorInv, SumsInv
<1>9. OffsetInv'
  <2>1. Reading /\ Reading'
    BY <1>3, <1>4 DEF Reading, Reads
  <2>2. Again' = Again /\ Over' = Over
    BY <1>1, <1>4, <2>1 DEF Again, Over, Rank, Way
  <2>3. Excess' = Excess
    BY <1>1, <2>2 DEF Excess, Twice, Lines
  <2>4. Cardinality(present') <= reader'.total + squeezed'
    BY <1>1, <1>2, <1>4
  <2>5. /\ Excess <= gained /\ Cardinality(Over) <= dwindled
        /\ listing = "replies" /\ dwindled = 0 => present = passed /\ Excess = 0
    BY <1>0, <1>6, <2>1 DEF OffsetInv
  <2> QED BY <1>1, <2>1, <2>2, <2>3, <2>4, <2>5 DEF OffsetInv
<1> QED BY <1>5, <1>7, <1>8, <1>9 DEF ListingsInv

\* Reading one piece more by offset: a row of it was given before or is new.
Left == {x \in present \cap ToSet(given) : Rank(x) > reader.from + Chunk}

LEMMA PieceGiven ==
  ASSUME ListingsTypeOK, listing \in Offset, Reading, NEW g, g = given \o Piece,
         ToSet(given) \subseteq passed
  PROVE  /\ g \in Seq(Listed) /\ ToSet(g) \subseteq passed
         /\ Twice(g) \in Nat /\ Cardinality(Left) \in Nat
         /\ Twice(g) + Cardinality(Left) = Excess
         /\ {x \in present \cap ToSet(g) : Rank(x) > reader.from + Chunk} = Left
         /\ {x \in steady \ ToSet(g) : Rank(x) <= reader.from + Chunk} \subseteq Over
<1> DEFINE k == reader.from
           c == Chunk
           G == ToSet(given)
           P == ToSet(Piece)
<1>1. /\ k \in Nat /\ c \in Nat \ {0} /\ present \in SUBSET Int /\ steady \in SUBSET present
      /\ present \subseteq passed /\ given \in Seq(Listed) /\ IsFiniteSet(present)
  BY ListFacts DEF ListingsTypeOK
<1>2. /\ Piece \in Seq(Listed)
      /\ P = {x \in present : k < Rank(x) /\ Rank(x) <= k + c}
      /\ \A i, j \in DOMAIN Piece : Piece[i] = Piece[j] => i = j
  BY PieceByOffset
<1>3. /\ g \in Seq(Listed) /\ ToSet(g) = G \cup P
      /\ Twice(g) = Twice(given) + Cardinality(G \cap P) /\ Twice(given) \in Int
  BY <1>1, <1>2, TwiceMore
<1>4. \A x \in present : Rank(x) \in Int
  <2>1. Way \in {"up", "down"}
    BY DEF Way
  <2>2. Cardinality(present) \in Nat /\ \A x \in present : Place(Way, present, x) \in 1..Cardinality(present)
    BY <1>1, <2>1, Places
  <2> QED BY <2>2 DEF Rank
<1>5. Again = {x \in present \cap G : Rank(x) > k} /\ Over = {x \in steady \ G : Rank(x) <= k}
  BY DEF Again, Over
<1>6. Left = {x \in present \cap G : Rank(x) > k + c}
  BY DEF Left
<1>7. Twice(g) \in Nat
  BY <1>3, TwiceRows
<1> HIDE DEF k, c, G, P
<1>8. Again = (G \cap P) \cup Left /\ (G \cap P) \cap Left = {}
  <2>1. ASSUME NEW x \in present
        PROVE  /\ Rank(x) > k <=> (k < Rank(x) /\ Rank(x) <= k + c) \/ Rank(x) > k + c
               /\ ~((k < Rank(x) /\ Rank(x) <= k + c) /\ Rank(x) > k + c)
    <3>1. Rank(x) \in Int
      BY <1>4
    <3> QED BY <1>1, <3>1
  <2> QED BY <1>2, <1>5, <1>6, <2>1
<1>9. /\ Cardinality(G \cap P) \in Nat /\ Cardinality(Left) \in Nat
      /\ Cardinality(Again) = Cardinality(G \cap P) + Cardinality(Left)
  <2>1. G \cap P \in SUBSET present /\ Left \in SUBSET present
    BY <1>2, <1>6
  <2>2. IsFiniteSet(G \cap P) /\ IsFiniteSet(Left)
    BY <1>1, <2>1, FS_Subset
  <2>3. /\ Cardinality((G \cap P) \cup Left) =
             Cardinality(G \cap P) + Cardinality(Left) - Cardinality((G \cap P) \cap Left)
        /\ Cardinality((G \cap P) \cap Left) = 0
    BY <1>8, <2>2, FS_Union, FS_EmptySet
  <2>4. Cardinality(G \cap P) \in Nat /\ Cardinality(Left) \in Nat
    BY <2>2, FS_CardinalityType
  <2> QED BY <1>8, <2>3, <2>4
<1>10. Twice(g) + Cardinality(Left) = Excess
  BY <1>3, <1>9 DEF Excess
<1>11. {x \in present \cap ToSet(g) : Rank(x) > k + c} = Left
  <2>1. ASSUME NEW x \in P PROVE ~(Rank(x) > k + c)
    <3>1. x \in present /\ Rank(x) <= k + c
      BY <1>2
    <3>2. Rank(x) \in Int
      BY <1>4, <3>1
    <3> QED BY <1>1, <3>1, <3>2
  <2> QED BY <1>3, <1>6, <2>1
<1>12. {x \in steady \ ToSet(g) : Rank(x) <= k + c} \subseteq Over
  <2> SUFFICES ASSUME NEW x \in steady, x \notin ToSet(g), Rank(x) <= k + c PROVE x \in Over
    OBVIOUS
  <2>1. x \in present /\ x \notin G /\ x \notin P
    BY <1>1, <1>3
  <2>2. ~(k < Rank(x))
    BY <1>2, <2>1
  <2>3. Rank(x) \in Int
    BY <1>4, <2>1
  <2>4. Rank(x) <= k
    BY <1>1, <2>2, <2>3
  <2> QED BY <1>5, <2>1, <2>4
<1>13. ToSet(g) \subseteq passed
  BY <1>1, <1>2, <1>3 DEF G
<1> QED BY <1>3, <1>7, <1>9, <1>10, <1>11, <1>12, <1>13 DEF k, c

\* Reading one piece more by cursor.
LEMMA PieceBelow ==
  ASSUME ListingsTypeOK, CursorInv, listing \in ByCursor, Reads("batch"),
         NEW g, g = given \o Piece, ToSet(given) \subseteq passed
  PROVE  /\ g \in Seq(Listed) /\ ToSet(g) \subseteq passed
         /\ \A i, j \in DOMAIN g : i < j => g[i] > g[j]
         /\ Len(Piece) \in Nat /\ Len(Piece) <= Chunk
         /\ Len(Piece) < Chunk => steady \subseteq ToSet(g)
         /\ Len(Piece) = Chunk =>
              /\ Piece[Chunk] \in present /\ Piece[Chunk] \in Nat \ {0}
              /\ \A i \in DOMAIN g : g[i] >= Piece[Chunk]
              /\ \A r \in steady : r >= Piece[Chunk] => r \in ToSet(g)
<1> DEFINE c == reader.from
           S == Below(c)
           p == Piece
           n == Len(given)
           m == Len(p)
<1>1. /\ Chunk \in Nat \ {0} /\ c \in Nat /\ present \in SUBSET Int /\ steady \in SUBSET present
      /\ present \subseteq passed /\ present \subseteq Listed /\ given \in Seq(Listed)
      /\ Listed \in SUBSET (Nat \ {0})
  BY ListFacts DEF ListingsTypeOK
<1>2. /\ p \in Seq(S) /\ Len(p) <= Chunk
      /\ \A i, j \in DOMAIN p : i < j => p[i] > p[j]
      /\ Len(p) < Chunk => ToSet(p) = S
      /\ Len(p) = Chunk => \A r \in S : r >= p[Chunk] => r \in ToSet(p)
  BY PieceByCursor
<1>3. /\ \A i, j \in DOMAIN given : i < j => given[i] > given[j]
      /\ c = 0 => given = <<>>
      /\ c # 0 => /\ \A i \in DOMAIN given : given[i] >= c
                  /\ \A r \in steady : r >= c => r \in ToSet(given)
                  /\ c \notin present => steady = {}
  BY DEF CursorInv
<1>4. /\ S \in SUBSET present
      /\ c = 0 => S = present
      /\ c # 0 => \A r \in S : r < c
      /\ \A r \in steady : c = 0 \/ (c \in present /\ r < c) => r \in S
  BY <1>1 DEF Below
<1> HIDE DEF S, c, p
<1>5. p \in Seq(Listed) /\ m \in Nat /\ n \in Nat /\ DOMAIN p = 1..m /\ DOMAIN given = 1..n
  <2>1. \A i \in 1..Len(p) : p[i] \in Listed
    BY <1>1, <1>2, <1>4, ElementOfSeq
  <2> QED BY <1>1, <1>2, <2>1, SMTT(20)
<1>6. /\ g \in Seq(Listed) /\ Len(g) = n + m
      /\ \A i \in 1..(n + m) : g[i] = IF i <= n THEN given[i] ELSE p[i - n]
  BY <1>1, <1>5, ConcatProperties DEF p
<1>7. /\ DOMAIN g = 1..(n + m)
      /\ \A i \in 1..n : given[i] \in Listed /\ given[i] \in Int
      /\ \A i \in 1..m : p[i] \in S /\ p[i] \in Listed /\ p[i] \in Int
  <2>1. \A i \in 1..n : given[i] \in Listed
    BY <1>1, ElementOfSeq
  <2>2. \A i \in 1..m : p[i] \in S /\ p[i] \in Listed
    BY <1>2, <1>5, ElementOfSeq
  <2>3. DOMAIN g = 1..(n + m)
    BY <1>5, <1>6
  <2>4. \A r \in Listed : r \in Int
    BY <1>1
  <2> QED BY <2>1, <2>2, <2>3, <2>4
<1> HIDE DEF n, m
<1>8. ASSUME NEW i \in 1..(n + m)
      PROVE  /\ i <= n => i \in 1..n /\ g[i] = given[i]
             /\ ~(i <= n) => i - n \in 1..m /\ g[i] = p[i - n]
  BY <1>5, <1>6
<1>9. ToSet(g) = ToSet(given) \cup ToSet(p)
  <2>1. ASSUME NEW x \in ToSet(g) PROVE x \in ToSet(given) \cup ToSet(p)
    <3>1. PICK i \in 1..(n + m) : x = g[i]
      BY <1>7, <2>1 DEF ToSet
    <3>2. CASE i <= n
      <4>1. i \in 1..n /\ g[i] = given[i]
        BY <1>8, <3>2
      <4> QED BY <1>5, <3>1, <4>1 DEF ToSet
    <3>3. CASE ~(i <= n)
      <4>1. i - n \in 1..m /\ g[i] = p[i - n]
        BY <1>8, <3>3
      <4> QED BY <1>5, <3>1, <4>1 DEF ToSet
    <3> QED BY <3>2, <3>3
  <2>2. ASSUME NEW i \in 1..n PROVE given[i] \in ToSet(g)
    <3>1. i \in 1..(n + m) /\ i <= n
      BY <1>5
    <3>2. g[i] = given[i]
      BY <1>8, <3>1
    <3> QED BY <1>7, <3>1, <3>2 DEF ToSet
  <2>3. ASSUME NEW i \in 1..m PROVE p[i] \in ToSet(g)
    <3>1. PICK j \in 1..(n + m) : j = n + i /\ ~(j <= n) /\ j - n = i
      BY <1>5
    <3> QED BY <1>7, <1>8, <3>1 DEF ToSet
  <2>4. ToSet(given) \subseteq ToSet(g)
    BY <1>5, <2>2 DEF ToSet
  <2>5. ToSet(p) \subseteq ToSet(g)
    BY <1>5, <2>3 DEF ToSet
  <2> QED BY <2>1, <2>4, <2>5
<1>10. ToSet(g) \subseteq passed
  <2>1. ToSet(p) \subseteq present
    BY <1>4, <1>5, <1>7 DEF ToSet
  <2> QED BY <1>1, <1>9, <2>1
<1>11. ASSUME NEW i \in 1..n, NEW j \in 1..m PROVE given[i] > p[j] /\ given[i] >= c /\ c # 0
  <2>1. c # 0
    <3>1. n = Len(given)
      BY DEF n
    <3>2. given # <<>>
      BY <1>5, <3>1
    <3> QED BY <1>3, <3>2
  <2>2. given[i] >= c /\ p[j] < c /\ given[i] \in Int /\ p[j] \in Int
    BY <1>3, <1>4, <1>5, <1>7, <2>1
  <2> QED BY <1>1, <2>1, <2>2
<1>12. ASSUME NEW i \in DOMAIN g, NEW j \in DOMAIN g, i < j PROVE g[i] > g[j]
  <2>0. i \in Int /\ j \in Int /\ i \in 1..(n + m) /\ j \in 1..(n + m)
    BY <1>5, <1>7
  <2>1. CASE j <= n
    <3>1. i <= n
      BY <1>5, <1>12, <2>0, <2>1
    <3> QED BY <1>3, <1>5, <1>8, <1>12, <2>0, <2>1, <3>1
  <2>2. CASE ~(j <= n) /\ i <= n
    BY <1>8, <1>11, <2>0, <2>2
  <2>3. CASE ~(j <= n) /\ ~(i <= n)
    <3>1. i - n \in 1..m /\ j - n \in 1..m /\ g[i] = p[i - n] /\ g[j] = p[j - n]
      BY <1>8, <2>0, <2>3
    <3>2. i - n < j - n
      BY <1>5, <1>12, <2>0
    <3> QED BY <1>2, <1>5, <3>1, <3>2
  <2> QED BY <2>1, <2>2, <2>3
<1>13. ASSUME m < Chunk, NEW r \in steady PROVE r \in ToSet(g)
  <2>1. ToSet(p) = S
    BY <1>2, <1>13 DEF m
  <2>2. r \in Int
    BY <1>1
  <2>3. CASE c = 0
    BY <1>4, <1>9, <2>1, <2>3
  <2>4. CASE c # 0
    <3>1. c \in present /\ (r >= c => r \in ToSet(given))
      BY <1>3, <2>4
    <3>2. r >= c \/ r < c
      BY <1>1, <2>2
    <3> QED BY <1>4, <1>9, <2>1, <3>1, <3>2
  <2> QED BY <2>3, <2>4
<1>14. ASSUME m = Chunk
       PROVE  /\ p[Chunk] \in present /\ p[Chunk] \in Nat \ {0}
              /\ \A i \in DOMAIN g : g[i] >= p[Chunk]
              /\ \A r \in steady : r >= p[Chunk] => r \in ToSet(g)
  <2>1. Chunk \in 1..m /\ p[Chunk] \in S /\ p[Chunk] \in Int
    BY <1>1, <1>5, <1>7, <1>14
  <2>2. p[Chunk] \in present /\ p[Chunk] \in Nat \ {0}
    BY <1>1, <1>4, <2>1
  <2>3. ASSUME NEW i \in DOMAIN g PROVE g[i] >= p[Chunk]
    <3>0. i \in 1..(n + m) /\ i \in Int
      BY <1>5, <1>7
    <3>1. CASE i <= n
      <4>1. i \in 1..n /\ g[i] = given[i]
        BY <1>8, <3>0, <3>1
      <4>2. given[i] > p[Chunk] /\ given[i] \in Int
        BY <1>7, <1>11, <2>1, <4>1
      <4> QED BY <2>1, <4>1, <4>2
    <3>2. CASE ~(i <= n)
      <4>1. i - n \in 1..m /\ g[i] = p[i - n] /\ i - n \in Int
        BY <1>5, <1>8, <3>0, <3>2
      <4>2. i - n = Chunk \/ i - n < Chunk
        BY <1>1, <1>14, <4>1
      <4>3. p[i - n] \in Int
        BY <1>7, <4>1
      <4>4. i - n < Chunk => p[i - n] > p[Chunk]
        BY <1>2, <1>5, <2>1, <4>1
      <4> QED BY <2>1, <4>1, <4>2, <4>3, <4>4
    <3> QED BY <3>1, <3>2
  <2>4. ASSUME NEW r \in steady, r >= p[Chunk] PROVE r \in ToSet(g)
    <3>1. r \in Int
      BY <1>1
    <3>2. r \in S => r \in ToSet(p)
      BY <1>2, <1>14, <2>4 DEF m
    <3>3. c = 0 \/ c \in present
      BY <1>3, <1>1
    <3>4. c # 0 => r < c \/ r \in ToSet(given)
      BY <1>1, <1>3, <3>1
    <3> QED BY <1>4, <1>9, <3>2, <3>3, <3>4
  <2> QED BY <2>2, <2>3, <2>4
<1>15. Len(p) = m
  BY DEF m
<1> QED BY <1>2, <1>5, <1>6, <1>10, <1>12, <1>13, <1>14, <1>15 DEF p

LEMMA NextBatchKeeps == ASSUME ListingsInv, NextBatch PROVE ListingsInv'
<1>0. ListingsTypeOK /\ ReadingOK /\ CursorInv /\ OffsetInv /\ SumsInv
  BY DEF ListingsInv
<1>1. UNCHANGED <<listing, present, known, passed, sheet, updates,
                  steady, gained, dwindled, squeezed, shaken>>
  BY DEF NextBatch, listVars, listHistory
<1>2. /\ Reads("batch") /\ given' = given \o Piece
      /\ reader' = IF Len(Piece) < Chunk THEN [reader EXCEPT !.pc = "render"]
                   ELSE [reader EXCEPT !.from = IF listing \in ByCursor THEN Piece[Chunk]
                                                ELSE reader.from + Chunk]
  BY DEF NextBatch
<1>3. /\ listing \in Exports /\ listing \notin Pages /\ listing \notin Sums
      /\ listing \in ByCursor \/ (listing \in Offset /\ listing = "rsvps" /\ listing \notin ByCursor)
  BY <1>0, <1>2, KindsOfLists DEF ReadingOK, Sequel, Reads
<1>4. ToSet(given) \subseteq passed /\ Reading /\ Chunk \in Nat \ {0} /\ reader.from \in Nat
  BY <1>0, <1>2, ListFacts DEF ReadingOK, Reading, Reads
<1>5. ASSUME /\ given' \in Seq(Listed) /\ ToSet(given') \subseteq passed
             /\ reader' \in [pc : {"batch", "render", "count", "rows", "sum", "counts", "kinds", "done"},
                             from : Nat, total : Nat]
             /\ reader'.pc \in {"batch", "render"}
      PROVE  ListingsTypeOK' /\ ReadingOK'
  BY <1>0, <1>1, <1>3, <1>5 DEF ListingsTypeOK, ReadingOK, Reads, Sequel
<1>6. SumsInv'
  BY <1>1, <1>3 DEF SumsInv
<1>7. CASE listing \in ByCursor
  <2>1. /\ given' \in Seq(Listed) /\ ToSet(given') \subseteq passed
        /\ \A i, j \in DOMAIN given' : i < j => given'[i] > given'[j]
        /\ Len(Piece) \in Nat /\ Len(Piece) <= Chunk
        /\ Len(Piece) < Chunk => steady \subseteq ToSet(given')
        /\ Len(Piece) = Chunk =>
             /\ Piece[Chunk] \in present /\ Piece[Chunk] \in Nat \ {0}
             /\ \A i \in DOMAIN given' : given'[i] >= Piece[Chunk]
             /\ \A r \in steady : r >= Piece[Chunk] => r \in ToSet(given')
    BY <1>0, <1>2, <1>4, <1>7, PieceBelow
  <2>2. OffsetInv'
    BY <1>1, <1>7 DEF OffsetInv, Offset
  <2>3. CASE Len(Piece) < Chunk
    <3>1. /\ reader'.pc = "render"
          /\ reader' \in [pc : {"batch", "render", "count", "rows", "sum", "counts", "kinds", "done"},
                          from : Nat, total : Nat]
      BY <1>0, <1>2, <2>3, ReaderMoves, ReaderTyped
    <3>2. CursorInv'
      BY <1>1, <2>1, <2>3, <3>1 DEF CursorInv, Reads
    <3> QED BY <1>5, <1>6, <2>1, <2>2, <3>1, <3>2 DEF ListingsInv
  <2>4. CASE ~(Len(Piece) < Chunk)
    <3>1. Len(Piece) = Chunk
      BY <1>4, <2>1, <2>4
    <3>2. reader' = [reader EXCEPT !.from = Piece[Chunk]] /\ Piece[Chunk] \in Nat \ {0}
      BY <1>2, <1>7, <2>1, <2>4, <3>1
    <3>3. /\ reader'.pc = reader.pc /\ reader'.from = Piece[Chunk]
          /\ reader' \in [pc : {"batch", "render", "count", "rows", "sum", "counts", "kinds", "done"},
                          from : Nat, total : Nat]
      BY <1>0, <3>2, ReaderMoves, ReaderTyped
    <3>4. reader'.pc = "batch"
      BY <1>2, <3>3 DEF Reads
    <3>5. CursorInv'
      BY <1>1, <2>1, <3>1, <3>2, <3>3, <3>4 DEF CursorInv, Reads
    <3> QED BY <1>5, <1>6, <2>1, <2>2, <3>3, <3>4, <3>5 DEF ListingsInv
  <2> QED BY <2>3, <2>4
<1>8. CASE listing \in Offset /\ listing = "rsvps" /\ listing \notin ByCursor
  <2>1. /\ given' \in Seq(Listed) /\ ToSet(given') \subseteq passed
        /\ Twice(given') \in Nat /\ Cardinality(Left) \in Nat
        /\ Twice(given') + Cardinality(Left) = Excess
        /\ {x \in present \cap ToSet(given') : Rank(x) > reader.from + Chunk} = Left
        /\ {x \in steady \ ToSet(given') : Rank(x) <= reader.from + Chunk} \subseteq Over
    BY <1>0, <1>2, <1>4, <1>8, PieceGiven
  <2>2. CursorInv'
    BY <1>1, <1>8 DEF CursorInv
  <2>3. /\ Excess <= gained /\ Cardinality(Over) <= dwindled
        /\ gained \in Nat /\ dwindled \in Nat
    BY <1>0, <1>4, <1>8 DEF OffsetInv, ListingsTypeOK
  <2>4. Twice(given)' = Twice(given')
    BY DEF Twice, Lines
  <2>4a. \A x : Rank(x)' = Rank(x)
    BY <1>1 DEF Rank, Way
  <2>5. ASSUME Over' \subseteq Over PROVE Cardinality(Over') <= dwindled
    <3>1. IsFiniteSet(Over) /\ Cardinality(Over) \in Nat
      BY <1>0, OffsetCounts
    <3>2. Cardinality(Over') <= Cardinality(Over) /\ Cardinality(Over') \in Nat
      BY <2>5, <3>1, FS_Subset, FS_CardinalityType
    <3> QED BY <2>3, <3>1, <3>2
  <2>6. CASE Len(Piece) < Chunk
    <3>1. /\ reader'.pc = "render"
          /\ reader' \in [pc : {"batch", "render", "count", "rows", "sum", "counts", "kinds", "done"},
                          from : Nat, total : Nat]
      BY <1>0, <1>2, <2>6, ReaderMoves, ReaderTyped
    <3>2. ~Reading' /\ ~Reads("rows")'
      BY <3>1 DEF Reading, Reads
    <3>3. Again' = {}
      BY <3>2 DEF Again
    <3>4. Excess' <= gained'
      <4>1. Excess' = Twice(given')
        BY <2>1, <2>4, <3>3, FS_EmptySet DEF Excess
      <4> QED BY <1>1, <2>1, <2>3, <4>1
    <3>5. Over' \subseteq Over
      <4>1. \A x \in present : Rank(x) <= reader.from + Chunk
        BY <1>0, <1>8, <2>6, PieceByOffset
      <4>2. steady \subseteq present
        BY <1>0, ListFacts
      <4> QED BY <1>1, <2>1, <4>1, <4>2 DEF Over
    <3>6. OffsetInv'
      BY <1>1, <1>3, <1>8, <2>5, <3>2, <3>4, <3>5 DEF OffsetInv
    <3> QED BY <1>5, <1>6, <2>1, <2>2, <3>1, <3>6 DEF ListingsInv
  <2>7. CASE ~(Len(Piece) < Chunk)
    <3>1. reader' = [reader EXCEPT !.from = reader.from + Chunk] /\ reader.from + Chunk \in Nat
      BY <1>2, <1>4, <1>8, <2>7
    <3>2. /\ reader'.pc = reader.pc /\ reader'.from = reader.from + Chunk
          /\ reader' \in [pc : {"batch", "render", "count", "rows", "sum", "counts", "kinds", "done"},
                          from : Nat, total : Nat]
      BY <1>0, <3>1, ReaderMoves, ReaderTyped
    <3>3. reader'.pc = "batch" /\ Reading' /\ ~Reads("rows")'
      BY <1>2, <3>2 DEF Reads, Reading
    <3>4. Again' = Left
      BY <1>1, <2>1, <2>4a, <3>2, <3>3 DEF Again
    <3>5. Over' \subseteq Over
      <4>1. Over' = {x \in steady \ ToSet(given') : Rank(x) <= reader.from + Chunk}
        BY <1>1, <2>4a, <3>2, <3>3 DEF Over
      <4> QED BY <2>1, <4>1
    <3>6. Excess' <= gained'
      BY <1>1, <2>1, <2>3, <2>4, <3>4 DEF Excess
    <3>7. OffsetInv'
      BY <1>1, <1>3, <1>8, <2>5, <3>3, <3>5, <3>6 DEF OffsetInv
    <3> QED BY <1>5, <1>6, <2>1, <2>2, <3>2, <3>3, <3>7 DEF ListingsInv
  <2> QED BY <2>6, <2>7
<1> QED BY <1>3, <1>7, <1>8

\* The last page ends behind as many rows as were counted.
LEMMA LastPageEnds ==
  ASSUME ListingsTypeOK PROVE LastPage \in Nat /\ LastPage * Chunk >= reader.total
<1> DEFINE n == reader.total
           d == (n + Chunk - 1) \div Chunk
<1>1. n \in Nat /\ Chunk \in Nat \ {0}
  BY ListingsAssumption DEF ListingsTypeOK
<1>2. LastPage = Max({d, 1})
  BY DEF LastPage
<1> HIDE DEF n
<1>3. PICK x \in Nat : x = n + Chunk - 1
  BY <1>1
<1>4. d = x \div Chunk
  BY <1>3
<1> HIDE DEF d
<1>5. /\ d \in Nat /\ x < d * Chunk + Chunk
  BY <1>1, <1>4
<1>6. d * Chunk \in Nat
  BY <1>1, <1>5
<1>7. d * Chunk >= n
  <2> DEFINE e == d * Chunk
  <2>1. e \in Nat /\ x < e + Chunk
    BY <1>5, <1>6
  <2> HIDE DEF e
  <2>2. e >= n
    BY <1>1, <1>3, <2>1
  <2> QED BY <2>2 DEF e
<1>8. LastPage \in {d, 1} /\ LastPage >= d /\ LastPage >= 1
  <2>1. \E y \in {d, 1} : \A z \in {d, 1} : y >= z
    BY <1>5
  <2> QED BY <1>2, <2>1 DEF Max
<1>9. LastPage \in Nat
  BY <1>5, <1>8
<1>10. LastPage * Chunk >= d * Chunk
  BY <1>1, <1>5, <1>8, <1>9
<1>11. LastPage * Chunk \in Nat
  BY <1>1, <1>9
<1>12. LastPage * Chunk >= n
  <2> DEFINE e == d * Chunk
             f == LastPage * Chunk
  <2>1. e \in Nat /\ f \in Nat /\ f >= e /\ e >= n
    BY <1>6, <1>7, <1>10, <1>11
  <2> HIDE DEF e, f
  <2>2. f >= n
    BY <1>1, <2>1
  <2> QED BY <2>2 DEF f
<1> QED BY <1>9, <1>12 DEF n

LEMMA ReadRowsKeeps == ASSUME ListingsInv, ReadRows PROVE ListingsInv'
<1>0. ListingsTypeOK /\ ReadingOK /\ CursorInv /\ OffsetInv /\ SumsInv
  BY DEF ListingsInv
<1>1. UNCHANGED <<listing, present, known, passed, sheet, updates,
                  steady, gained, dwindled, squeezed, shaken>>
  BY DEF ReadRows, listVars, listHistory
<1>2. /\ Reads("rows") /\ given' = given \o Piece
      /\ reader' = IF reader.from + Chunk < LastPage * Chunk
                   THEN [pc |-> "count", from |-> reader.from + Chunk, total |-> 0]
                   ELSE [reader EXCEPT !.pc = "done"]
  BY DEF ReadRows
<1>3. /\ listing \in Pages /\ listing \in Offset /\ listing \notin ByCursor
      /\ listing \notin Exports /\ listing \notin Sums
  BY <1>0, <1>2, KindsOfLists DEF ReadingOK, Sequel, Reads
<1>4. /\ ToSet(given) \subseteq passed /\ Reading /\ Chunk \in Nat \ {0} /\ reader.from \in Nat
      /\ present \in SUBSET Int /\ IsFiniteSet(present) /\ steady \in SUBSET present
  BY <1>0, <1>2, ListFacts DEF ReadingOK, Reading, Reads
<1>5. /\ given' \in Seq(Listed) /\ ToSet(given') \subseteq passed
      /\ Twice(given') \in Nat /\ Cardinality(Left) \in Nat
      /\ Twice(given') + Cardinality(Left) = Excess
      /\ {x \in present \cap ToSet(given') : Rank(x) > reader.from + Chunk} = Left
      /\ {x \in steady \ ToSet(given') : Rank(x) <= reader.from + Chunk} \subseteq Over
  BY <1>0, <1>2, <1>3, <1>4, PieceGiven
<1>6. ASSUME /\ reader' \in [pc : {"batch", "render", "count", "rows", "sum", "counts", "kinds", "done"},
                             from : Nat, total : Nat]
             /\ reader'.pc \in {"count", "done"}
      PROVE  ListingsTypeOK' /\ ReadingOK'
  BY <1>0, <1>1, <1>3, <1>5, <1>6 DEF ListingsTypeOK, ReadingOK, Reads, Sequel
<1>7. CursorInv' /\ SumsInv'
  BY <1>1, <1>3 DEF CursorInv, SumsInv
<1>8. /\ Excess <= gained /\ Cardinality(Over) <= dwindled
      /\ Cardinality(present) <= reader.total + squeezed
      /\ listing = "replies" /\ dwindled = 0 => present = passed /\ Excess = 0
      /\ gained \in Nat /\ dwindled \in Nat /\ squeezed \in Nat /\ reader.total \in Nat
  BY <1>0, <1>2, <1>3, <1>4 DEF OffsetInv, ListingsTypeOK
<1>9. Twice(given)' = Twice(given')
  BY DEF Twice, Lines
<1>10. \A x : Rank(x)' = Rank(x)
  BY <1>1 DEF Rank, Way
<1>11. IsFiniteSet(Over) /\ Cardinality(Over) \in Nat
  BY <1>0, OffsetCounts
<1>12. CASE reader.from + Chunk < LastPage * Chunk
  <2>1. /\ reader' = [pc |-> "count", from |-> reader.from + Chunk, total |-> 0]
        /\ reader.from + Chunk \in Nat
    BY <1>2, <1>4, <1>12
  <2>2. /\ reader'.pc = "count" /\ reader'.from = reader.from + Chunk
        /\ reader' \in [pc : {"batch", "render", "count", "rows", "sum", "counts", "kinds", "done"},
                        from : Nat, total : Nat]
    BY <2>1
  <2>3. Reading' /\ ~Reads("rows")'
    BY <2>2 DEF Reads, Reading
  <2>4. Again' = Left
    BY <1>1, <1>5, <1>10, <2>2, <2>3 DEF Again
  <2>5. Over' \subseteq Over
    <3>1. Over' = {x \in steady \ ToSet(given') : Rank(x) <= reader.from + Chunk}
      BY <1>1, <1>10, <2>2, <2>3 DEF Over
    <3> QED BY <1>5, <3>1
  <2>6. Excess' = Excess
    BY <1>5, <1>9, <2>4 DEF Excess
  <2>7. Cardinality(Over') <= dwindled
    <3>1. Cardinality(Over') <= Cardinality(Over) /\ Cardinality(Over') \in Nat
      BY <1>11, <2>5, FS_Subset, FS_CardinalityType
    <3> QED BY <1>8, <1>11, <3>1
  <2>8. OffsetInv'
    BY <1>1, <1>8, <2>3, <2>6, <2>7 DEF OffsetInv
  <2> QED BY <1>6, <1>7, <2>2, <2>8 DEF ListingsInv
<1>13. CASE ~(reader.from + Chunk < LastPage * Chunk)
  <2>1. /\ reader'.pc = "done"
        /\ reader' \in [pc : {"batch", "render", "count", "rows", "sum", "counts", "kinds", "done"},
                        from : Nat, total : Nat]
    BY <1>0, <1>2, <1>13, ReaderMoves, ReaderTyped
  <2>2. ~Reading' /\ ~Reads("rows")'
    BY <2>1 DEF Reading, Reads
  <2>3. Again' = {}
    BY <2>2 DEF Again
  <2>4. Excess' = Twice(given') /\ Excess' \in Nat
    BY <1>5, <1>9, <2>3, FS_EmptySet DEF Excess
  <2>5. Excess' <= gained' /\ (Excess = 0 => Excess' = 0)
    BY <1>1, <1>5, <1>8, <2>4
  <2> DEFINE k == reader.from + Chunk
             B == {x \in present : Rank(x) > k}
  <2>6. k \in Nat /\ k >= reader.total
    <3>1. PICK e \in Int : e = LastPage * Chunk /\ e >= reader.total
      BY <1>0, <1>4, LastPageEnds
    <3> QED BY <1>4, <1>8, <1>13, <3>1
  <2>7. B \in SUBSET present /\ \A x \in B : Place(Way, present, x) > k
    BY DEF Rank
  <2>8. \A x \in present : Rank(x) \in Int
    <3>1. Way \in {"up", "down"}
      BY DEF Way
    <3>2. /\ Cardinality(present) \in Nat
          /\ \A x \in present : Place(Way, present, x) \in 1..Cardinality(present)
      BY <1>4, <3>1, Places
    <3> QED BY <3>2 DEF Rank
  <2>9. Over' \subseteq Over \cup B
    <3> SUFFICES ASSUME NEW x \in steady, x \notin ToSet(given'), ~(Rank(x) > k) PROVE x \in Over
      BY <1>1, <1>4 DEF Over
    <3>1. Rank(x) \in Int
      BY <1>4, <2>8
    <3>2. Rank(x) <= k
      BY <2>6, <3>1
    <3> QED BY <1>5, <3>2
  <2> HIDE DEF B, k
  <2>10. /\ Cardinality(B) \in Nat /\ IsFiniteSet(B)
         /\ Cardinality(B) <= IF Cardinality(present) > k THEN Cardinality(present) - k ELSE 0
    <3>1. Way \in {"up", "down"}
      BY DEF Way
    <3> QED BY <1>4, <2>6, <2>7, <3>1, BehindCount, FS_Subset
  <2>11. Cardinality(B) <= squeezed
    <3>1. Cardinality(present) \in Nat
      BY <1>4, FS_CardinalityType
    <3> QED BY <1>8, <2>6, <2>10, <3>1
  <2>12. /\ IsFiniteSet(Over \cup B)
         /\ Cardinality(Over \cup B) = Cardinality(Over) + Cardinality(B) - Cardinality(Over \cap B)
    BY <1>11, <2>10, FS_Union
  <2>13. Cardinality(Over \cap B) \in Nat
    <3>1. Over \cap B \in SUBSET B
      OBVIOUS
    <3> QED BY <2>10, <3>1, FS_Subset, FS_CardinalityType
  <2>14. /\ Cardinality(Over') \in Nat /\ Cardinality(Over \cup B) \in Nat
         /\ Cardinality(Over') <= Cardinality(Over \cup B)
    BY <2>9, <2>12, FS_Subset, FS_CardinalityType
  <2>15. Cardinality(Over') <= dwindled + squeezed
    BY <1>8, <1>11, <2>10, <2>11, <2>12, <2>13, <2>14
  <2>16. OffsetInv'
    BY <1>1, <1>3, <1>8, <2>2, <2>5, <2>15 DEF OffsetInv
  <2> QED BY <1>6, <1>7, <2>1, <2>16 DEF ListingsInv
<1> QED BY <1>12, <1>13

LEMMA RenderKeeps == ASSUME ListingsInv, Render PROVE ListingsInv'
<1>0. ListingsTypeOK /\ ReadingOK /\ CursorInv /\ OffsetInv /\ SumsInv
  BY DEF ListingsInv
<1>1. UNCHANGED <<listing, present, known, passed, given, updates,
                  steady, gained, dwindled, squeezed, shaken>>
  BY DEF Render, listVars, listHistory
<1>2. /\ Reads("render") /\ sheet' \in {Csv(given), Xlsx(given), Pdf(given)}
      /\ reader' = [reader EXCEPT !.pc = "done"]
  BY DEF Render
<1>3. /\ reader'.pc = "done"
      /\ reader' \in [pc : {"batch", "render", "count", "rows", "sum", "counts", "kinds", "done"},
                      from : Nat, total : Nat]
  BY <1>0, <1>2, ReaderMoves, ReaderTyped
<1>4. listing \in Exports /\ listing \notin Pages /\ listing \notin Sums
  BY <1>0, <1>2, KindsOfLists DEF ReadingOK, Sequel, Reads
<1>5. sheet' \in Seq(Nat)
  <2>1. PICK t \in {Csv(given), Xlsx(given), Pdf(given)} : t = sheet'
    BY <1>2
  <2>2. given \in Seq(Listed)
    BY <1>0 DEF ListingsTypeOK
  <2>3. t \in Seq(Listed \cup {Heading})
    BY <2>1, <2>2, SheetRows
  <2>4. Listed \cup {Heading} \in SUBSET Nat
    BY <1>0, ListFacts DEF Heading
  <2> HIDE DEF Heading, Listed
  <2>5. t \in Seq(Nat)
    <3>1. \A i \in 1..Len(t) : t[i] \in Nat
      BY <2>3, <2>4, ElementOfSeq
    <3> QED BY <2>3, <3>1
  <2> QED BY <2>1, <2>5
<1>6. ListingsTypeOK'
  BY <1>0, <1>1, <1>3, <1>5 DEF ListingsTypeOK
<1>7. ReadingOK'
  BY <1>0, <1>1, <1>2, <1>3, <1>4 DEF ReadingOK, Sequel, Reads, Csv, Xlsx, Pdf
<1>8. ~Reads("batch") /\ ~Reads("batch")' /\ ~Reading /\ ~Reading' /\ ~Reads("rows") /\ ~Reads("rows")'
  BY <1>2, <1>3 DEF Reads, Reading
<1>9. CursorInv'
  BY <1>0, <1>1, <1>8 DEF CursorInv
<1>10. SumsInv'
  BY <1>1, <1>4 DEF SumsInv
<1>11. OffsetInv'
  <2>1. Again' = Again /\ Over' = Over
    BY <1>1, <1>8 DEF Again, Over
  <2>2. Excess' = Excess
    BY <1>1, <2>1 DEF Excess, Twice, Lines
  <2> QED BY <1>0, <1>1, <1>4, <1>8, <2>1, <2>2 DEF OffsetInv
<1> QED BY <1>6, <1>7, <1>9, <1>10, <1>11 DEF ListingsInv

\* The tickets counted are those there are; the kinds shown are those known.
LEMMA SumFacts ==
  ASSUME ListingsTypeOK
  PROVE  /\ Newest(present) \in Seq(Listed) /\ ToSet(Newest(present)) = present
         /\ \A K \in SUBSET (0..(Kinds - 1)) :
              Oldest(Kinded(K)) \in Seq(Nat) /\ ToSet(Oldest(Kinded(K))) = Kinded(K)
<1>1. present \in SUBSET Int /\ IsFiniteSet(present) /\ present \in SUBSET Listed
  BY ListFacts DEF ListingsTypeOK
<1>2. /\ Newest(present) = Row("down", present) /\ "down" \in {"up", "down"}
      /\ Row("down", present) \in Seq(present) /\ ToSet(Row("down", present)) = present
  BY <1>1, NewestRow, RowsInOrder
<1>3. Newest(present) \in Seq(Listed)
  <2> DEFINE s == Newest(present)
  <2>1. s \in Seq(present)
    BY <1>2
  <2> HIDE DEF s
  <2>2. \A i \in 1..Len(s) : s[i] \in Listed
    BY <1>1, <2>1, ElementOfSeq
  <2>3. s \in Seq(Listed)
    BY <2>1, <2>2
  <2> QED BY <2>3 DEF s
<1>4. ASSUME NEW K \in SUBSET (0..(Kinds - 1))
      PROVE  Oldest(Kinded(K)) \in Seq(Nat) /\ ToSet(Oldest(Kinded(K))) = Kinded(K)
  <2> DEFINE T == Kinded(K)
             s == Oldest(T)
  <2>1. Kinds \in Nat
    BY ListingsAssumption
  <2>2. T \in SUBSET Nat /\ T \in SUBSET (1..Kinds)
    <3> SUFFICES ASSUME NEW x \in T PROVE x \in Nat /\ x \in 1..Kinds
      OBVIOUS
    <3>1. PICK y \in K : x = y + 1
      BY DEF Kinded
    <3>2. y \in 0..(Kinds - 1)
      BY <1>4
    <3> QED BY <2>1, <3>1, <3>2
  <2> HIDE DEF T
  <2>3. T \in SUBSET Int /\ IsFiniteSet(T)
    <3>1. Kinds \in Int /\ 1 \in Int
      BY <2>1
    <3>2. IsFiniteSet(1..Kinds)
      BY <3>1, FS_Interval
    <3>3. IsFiniteSet(T)
      BY <2>2, <3>2, FS_Subset
    <3> QED BY <2>2, <3>3
  <2>4. s = Row("up", T) /\ Row("up", T) \in Seq(T) /\ ToSet(Row("up", T)) = T
    BY <2>3, OldestRow, RowsInOrder
  <2>5. s \in Seq(T) /\ ToSet(s) = T
    BY <2>4
  <2> HIDE DEF s
  <2>6. \A i \in 1..Len(s) : s[i] \in Nat
    BY <2>2, <2>5, ElementOfSeq
  <2>7. s \in Seq(Nat)
    BY <2>5, <2>6
  <2> QED BY <2>5, <2>7 DEF s, T
<1> QED BY <1>2, <1>3, <1>4

LEMMA SumKeeps ==
  ASSUME ListingsInv, listing \in Sums,
         UNCHANGED <<listing, present, known, passed, updates,
                     steady, gained, dwindled, squeezed, shaken>>,
         NEW l \in {"counts", "kinds", "done"}, reader' = [reader EXCEPT !.pc = l],
         given' \in Seq(Listed), ToSet(given') \subseteq passed, sheet' \in Seq(Nat),
         SumsInv'
  PROVE  ListingsInv'
<1>0. ListingsTypeOK /\ ReadingOK /\ CursorInv /\ OffsetInv /\ SumsInv
  BY DEF ListingsInv
<1>1. l \in {"batch", "render", "count", "rows", "sum", "counts", "kinds", "done"}
  OBVIOUS
<1>2. /\ reader'.pc = l
      /\ reader' \in [pc : {"batch", "render", "count", "rows", "sum", "counts", "kinds", "done"},
                      from : Nat, total : Nat]
  BY <1>0, <1>1, ReaderMoves, ReaderTyped
<1>3. listing \notin Exports /\ listing \notin Pages /\ listing \notin Offset /\ listing \notin ByCursor
  BY DEF Exports, Pages, Offset, ByCursor, Sums
<1>4. ListingsTypeOK'
  BY <1>0, <1>2 DEF ListingsTypeOK
<1>5. ReadingOK'
  BY <1>2, <1>3 DEF ReadingOK, Sequel
<1>6. CursorInv' /\ OffsetInv'
  BY <1>3 DEF CursorInv, OffsetInv
<1> QED BY <1>4, <1>5, <1>6 DEF ListingsInv

LEMMA CheckInSummaryKeeps == ASSUME ListingsInv, CheckInSummary PROVE ListingsInv'
<1>0. ListingsTypeOK /\ ReadingOK /\ SumsInv
  BY DEF ListingsInv
<1>1. /\ UNCHANGED <<listing, present, known, passed, updates,
                     steady, gained, dwindled, squeezed, shaken>>
      /\ listing = "check-in" /\ listing \in Sums
  BY DEF CheckInSummary, listVars, listHistory, Sums
<1>2. /\ given \in Seq(Listed) /\ ToSet(given) \subseteq passed /\ present \subseteq passed
      /\ sheet \in Seq(Nat) /\ known \in SUBSET (0..(Kinds - 1))
      /\ \A r \in present : KindOf(r) \in known
  BY <1>0, <1>1 DEF ListingsTypeOK, ReadingOK, SumsInv
<1> DEFINE counted == Newest(present)
           kinds == Oldest(Kinded(known))
<1>3. /\ counted \in Seq(Listed) /\ ToSet(counted) = present
      /\ kinds \in Seq(Nat) /\ ToSet(kinds) = Kinded(known)
  BY <1>0, <1>2, SumFacts
<1>4. /\ \A r \in present : KindOf(r) + 1 \in Kinded(known)
      /\ \A r \in Listed : KindOf(r) \in known => KindOf(r) + 1 \in Kinded(known)
  BY <1>2 DEF Kinded
<1>5. \A l \in {"batch", "render", "count", "rows", "sum", "counts", "kinds", "done"} :
        reader' = [reader EXCEPT !.pc = l] => reader'.pc = l
  BY <1>0, ReaderMoves
<1> HIDE DEF counted, kinds
<1>6. CASE Reads("sum") /\ given' = counted /\ UNCHANGED sheet /\ reader' = [reader EXCEPT !.pc = "kinds"]
  <2>1. SumsInv'
    BY <1>1, <1>2, <1>3, <1>5, <1>6 DEF SumsInv, SumsExact, Reads
  <2> QED BY <1>1, <1>2, <1>3, <1>6, <2>1, SumKeeps
<1>7. CASE Reads("sum") /\ sheet' = kinds /\ UNCHANGED given /\ reader' = [reader EXCEPT !.pc = "counts"]
  <2>1. SumsInv'
    BY <1>1, <1>2, <1>3, <1>5, <1>7 DEF SumsInv, SumsExact, Reads, Kinded
  <2> QED BY <1>1, <1>2, <1>3, <1>7, <2>1, SumKeeps
<1>8. CASE Reads("kinds") /\ sheet' = kinds /\ UNCHANGED given /\ reader' = [reader EXCEPT !.pc = "done"]
  <2>1. ~shaken => \A r \in ToSet(given) : KindOf(r) \in known /\ r \in Listed
    BY <1>0, <1>1, <1>2, <1>8 DEF SumsInv, ListingsTypeOK
  <2>2. SumsInv'
    BY <1>1, <1>2, <1>3, <1>4, <1>5, <1>8, <2>1 DEF SumsInv, SumsExact, Reads
  <2> QED BY <1>1, <1>2, <1>3, <1>8, <2>2, SumKeeps
<1>9. CASE Reads("counts") /\ given' = counted /\ UNCHANGED sheet /\ reader' = [reader EXCEPT !.pc = "done"]
  <2>1. ~shaken => ToSet(sheet) = Kinded(known)
    BY <1>0, <1>1, <1>9 DEF SumsInv
  <2>2. SumsInv'
    BY <1>1, <1>2, <1>3, <1>4, <1>5, <1>9, <2>1 DEF SumsInv, SumsExact, Reads
  <2> QED BY <1>1, <1>2, <1>3, <1>9, <2>2, SumKeeps
<1> QED BY <1>6, <1>7, <1>8, <1>9 DEF CheckInSummary, counted, kinds

LEMMA EventsHeldByKeeps == ASSUME ListingsInv, EventsHeldBy PROVE ListingsInv'
<1>0. ListingsTypeOK /\ ReadingOK /\ SumsInv
  BY DEF ListingsInv
<1>1. /\ UNCHANGED <<listing, present, known, passed, updates,
                     steady, gained, dwindled, squeezed, shaken>>
      /\ listing = "held events" /\ listing \in Sums
  BY DEF EventsHeldBy, listVars, listHistory, Sums
<1>2. /\ given \in Seq(Listed) /\ ToSet(given) \subseteq passed /\ present \subseteq passed
      /\ sheet \in Seq(Nat) /\ known \in SUBSET (0..(Kinds - 1))
      /\ \A r \in present : KindOf(r) \in known
  BY <1>0, <1>1 DEF ListingsTypeOK, ReadingOK, SumsInv
<1> DEFINE counted == Newest(present)
           classed == {KindOf(r) : r \in ToSet(given)} \cap known
           kinds == Oldest(Kinded(classed))
<1>3. /\ counted \in Seq(Listed) /\ ToSet(counted) = present
      /\ kinds \in Seq(Nat) /\ ToSet(kinds) = Kinded(classed)
  <2>1. classed \in SUBSET (0..(Kinds - 1))
    BY <1>2
  <2> HIDE DEF classed
  <2> QED BY <1>0, <2>1, SumFacts
<1>5. \A l \in {"batch", "render", "count", "rows", "sum", "counts", "kinds", "done"} :
        reader' = [reader EXCEPT !.pc = l] => reader'.pc = l
  BY <1>0, ReaderMoves
<1> HIDE DEF counted, kinds
<1>6. CASE Reads("sum") /\ given' = counted /\ UNCHANGED sheet /\ reader' = [reader EXCEPT !.pc = "kinds"]
  <2>1. SumsInv'
    BY <1>1, <1>2, <1>3, <1>5, <1>6 DEF SumsInv, SumsExact, Reads
  <2> QED BY <1>1, <1>2, <1>3, <1>6, <2>1, SumKeeps
<1>7. CASE Reads("kinds") /\ sheet' = kinds /\ UNCHANGED given /\ reader' = [reader EXCEPT !.pc = "done"]
  <2>1. ~shaken => \A r \in ToSet(given) : KindOf(r) \in classed
    BY <1>0, <1>1, <1>7 DEF SumsInv
  <2>2. ~shaken => \A r \in ToSet(given) : KindOf(r) + 1 \in Kinded(classed)
    BY <2>1 DEF Kinded
  <2> HIDE DEF classed
  <2>3. SumsInv'
    BY <1>1, <1>2, <1>3, <1>5, <1>7, <2>2 DEF SumsInv, SumsExact, Reads
  <2> QED BY <1>1, <1>2, <1>3, <1>7, <2>3, SumKeeps
<1> QED BY <1>6, <1>7 DEF EventsHeldBy, counted, kinds

LEMMA InitListingsInv == ASSUME ListingsInit PROVE ListingsInv
<1>1. PICK n \in 0..(MaxRow - 1) : present = 1..n
  BY DEF ListingsInit
<1>2. /\ MaxRow \in Nat \ {0} /\ Chunk \in Nat \ {0} /\ Kinds \in Nat \ {0} /\ MaxUpdates \in Nat
  BY ListingsAssumption
<1>3. /\ listing \in Exports \cup Pages \cup Sums
      /\ passed = present /\ steady = present /\ known = {KindOf(r) : r \in present}
      /\ given = <<>> /\ sheet = <<>> /\ updates = 0
      /\ gained = 0 /\ dwindled = 0 /\ squeezed = 0 /\ shaken = FALSE
      /\ reader = [pc |-> IF listing \in Exports THEN "batch"
                          ELSE IF listing \in Pages THEN "count" ELSE "sum",
                   from |-> 0, total |-> 0]
  BY DEF ListingsInit
<1>4. /\ reader.from = 0 /\ reader.total = 0
      /\ reader.pc = IF listing \in Exports THEN "batch"
                     ELSE IF listing \in Pages THEN "count" ELSE "sum"
      /\ reader \in [pc : {"batch", "render", "count", "rows", "sum", "counts", "kinds", "done"},
                     from : Nat, total : Nat]
  BY <1>3
<1>5. present \subseteq Listed /\ present \in SUBSET Int
  BY <1>1, <1>2 DEF Listed
<1>6. known \subseteq 0..(Kinds - 1)
  <2>1. \A r \in Int : r % Kinds \in 0..(Kinds - 1)
    BY <1>2
  <2> QED BY <1>3, <1>5, <2>1 DEF KindOf
<1>7. ListingsTypeOK
  <2>1. given \in Seq(Listed) /\ sheet \in Seq(Nat)
    BY <1>3
  <2>2. updates \in 0..MaxUpdates
    BY <1>2, <1>3
  <2> QED BY <1>3, <1>4, <1>5, <1>6, <2>1, <2>2 DEF ListingsTypeOK
<1>8. ToSet(given) = {} /\ ~Reads("done") /\ ~Reads("rows")
  BY <1>3, <1>4 DEF ToSet, Reads
<1>9. ReadingOK
  BY <1>3, <1>4, <1>8 DEF ReadingOK, Sequel
<1>10. CursorInv
  <2> SUFFICES ASSUME listing \in ByCursor PROVE CursorInv
    BY DEF CursorInv
  <2>1. Reads("batch") /\ reader.from = 0
    BY <1>4, KindsOfLists DEF Reads
  <2>2. DOMAIN given = {}
    BY <1>3
  <2> QED BY <1>3, <2>1, <2>2 DEF CursorInv
<1>11. SumsInv
  <2>1. \A r \in present : KindOf(r) \in known
    BY <1>3
  <2>2. ASSUME listing \in Sums PROVE ~Reads("kinds") /\ ~Reads("counts")
    BY <1>4, <2>2 DEF Reads
  <2> QED BY <1>8, <2>1, <2>2 DEF SumsInv, SumsExact
<1>12. OffsetInv
  <2>1. Again = {}
    BY <1>8 DEF Again
  <2>2. ASSUME listing \in Offset PROVE Over = {}
    <3>1. Reading
      BY <1>4, <2>2 DEF Reading, Offset
    <3>2. Way \in {"up", "down"} /\ IsFiniteSet(present)
      BY <1>7, ListFacts DEF Way
    <3>3. /\ Cardinality(present) \in Nat
          /\ \A x \in present : Place(Way, present, x) \in 1..Cardinality(present)
      BY <1>5, <3>2, Places
    <3>4. \A x \in present : ~(Rank(x) <= 0)
      BY <3>3 DEF Rank
    <3> QED BY <1>3, <1>4, <3>1, <3>4 DEF Over
  <2>3. Twice(given) = 0
    <3>1. DOMAIN given = {}
      BY <1>3
    <3>2. Lines(given) = {}
      BY <3>1 DEF Lines
    <3> QED BY <1>8, <3>2, FS_EmptySet DEF Twice
  <2>4. Excess = 0
    BY <2>1, <2>3, FS_EmptySet DEF Excess
  <2>5. listing \in Offset => Cardinality(Over) = 0
    BY <2>2, FS_EmptySet
  <2>6. listing \in Offset => (Reading \/ listing \in Exports)
    BY <1>4 DEF Reading, Offset
  <2>7. listing \in Offset /\ ~Reading /\ listing \in Pages => FALSE
    BY <2>6, KindsOfLists
  <2> QED BY <1>3, <1>8, <2>4, <2>5, <2>7 DEF OffsetInv
<1> QED BY <1>7, <1>9, <1>10, <1>11, <1>12 DEF ListingsInv

\* Whatever is sold, withdrawn or deleted between two queries: what the reader
\* holds and what is yet to come account for every row that stayed.
THEOREM ListingsInvariant == ListingsSpec => []ListingsInv
<1>1. ListingsInit => ListingsInv
  BY InitListingsInv
<1>2. ListingsInv /\ [ListingsNext]_listingVars => ListingsInv'
  <2> SUFFICES ASSUME ListingsInv, [ListingsNext]_listingVars PROVE ListingsInv'
    OBVIOUS
  <2>1. CASE ExportsController
    BY <2>1, NextBatchKeeps, RenderKeeps DEF ExportsController
  <2>2. CASE ListsControllers
    BY <2>2, CountRowsKeeps, ReadRowsKeeps, CheckInSummaryKeeps, EventsHeldByKeeps
    DEF ListsControllers
  <2>3. ASSUME NEW r \in Listed, Join(r) \/ Return(r) \/ DropOut(r) PROVE ListingsInv'
    BY <2>3, JoinKeeps, ReturnKeeps, DropOutKeeps
  <2>4. CASE AddKind \/ Purge
    BY <2>4, AddKindKeeps, PurgeKeeps
  <2>5. CASE UNCHANGED listingVars
    <3>1. UNCHANGED <<listing, present, known, passed, reader, given, sheet, updates,
                      steady, gained, dwindled, squeezed, shaken>>
      BY <2>5 DEF listingVars, listVars, readVars, listHistory
    <3>2. /\ ListingsTypeOK' = ListingsTypeOK /\ ReadingOK' = ReadingOK /\ CursorInv' = CursorInv
      BY <3>1 DEF ListingsTypeOK, ReadingOK, CursorInv, Reads, Sequel, Csv, Xlsx, Pdf
    <3>3. SumsInv' = SumsInv
      BY <3>1 DEF SumsInv, SumsExact, Reads, Kinded
    <3>4. Again' = Again /\ Over' = Over
      BY <3>1 DEF Again, Over, Rank, Way, Reading
    <3>5. OffsetInv' = OffsetInv
      BY <3>1, <3>4 DEF OffsetInv, Excess, Twice, Lines, Reading, Reads
    <3> QED BY <3>2, <3>3, <3>5 DEF ListingsInv
  <2> QED BY <2>1, <2>2, <2>3, <2>4, <2>5 DEF ListingsNext
<1> QED BY <1>1, <1>2, PTL DEF ListingsSpec

\* A list read piece by piece differs from the rows that were there only by what
\* came or left meanwhile, for every number of rows, piece size and update.
THEOREM ListingsAreExplained == ListingsSpec => []ListingsExplained
<1>1. ListingsInv => ListingsExplained
  <2> SUFFICES ASSUME ListingsInv PROVE ListingsExplained
    OBVIOUS
  <2>0. ListingsTypeOK /\ ReadingOK /\ CursorInv /\ OffsetInv /\ SumsInv
    BY DEF ListingsInv
  <2>1. ASSUME listing \in Exports, Reads("done")
        PROVE  /\ Twice(sheet) = Twice(given) /\ Missed(sheet) = Missed(given)
               /\ (\A i, j \in DOMAIN given : i < j => given[i] > given[j]) =>
                    \A i, j \in Lines(sheet) : i < j => sheet[i] > sheet[j]
    <3>1. sheet \in {Csv(given), Xlsx(given), Pdf(given)} /\ given \in Seq(Listed)
      BY <2>0, <2>1 DEF ReadingOK, ListingsTypeOK
    <3>2. /\ Twice(sheet) = Twice(given) /\ ToSet(sheet) \ {Heading} = ToSet(given)
          /\ (\A i, j \in DOMAIN given : i < j => given[i] > given[j]) =>
               \A i, j \in Lines(sheet) : i < j => sheet[i] > sheet[j]
      BY <3>1, SheetRows
    <3>3. \A r \in steady : r # Heading
      BY <2>0, ListFacts DEF Heading, ListingsTypeOK
    <3>4. steady \ ToSet(sheet) = steady \ ToSet(given)
      BY <3>2, <3>3
    <3> QED BY <3>2, <3>4 DEF Missed
  <2>2. ASSUME listing \in Offset, Reads("done")
        PROVE  Over = steady \ ToSet(given) /\ Excess = Twice(given) /\ ~Reading
    <3>1. ~Reading
      BY <2>2 DEF Reads, Reading
    <3>2. Again = {} /\ Over = steady \ ToSet(given)
      BY <3>1 DEF Again, Over
    <3> QED BY <2>0, <3>1, <3>2, OffsetCounts, FS_EmptySet DEF Excess
  <2>3. CursorExact
    <3> SUFFICES ASSUME listing \in ByCursor, Reads("done")
                 PROVE  /\ \A i, j \in Lines(sheet) : i < j => sheet[i] > sheet[j]
                        /\ Missed(sheet) = 0
      BY DEF CursorExact
    <3>1. /\ \A i, j \in DOMAIN given : i < j => given[i] > given[j]
          /\ steady \subseteq ToSet(given)
      BY <2>0 DEF CursorInv, Reads
    <3>2. steady \ ToSet(given) = {}
      BY <3>1
    <3>3. Missed(given) = 0
      BY <3>2, FS_EmptySet DEF Missed
    <3> QED BY <2>1, <3>1, <3>3, KindsOfLists
  <2>4. OffsetBounded
    <3> SUFFICES ASSUME listing = "rsvps", Reads("done")
                 PROVE  Twice(sheet) <= gained /\ Missed(sheet) <= dwindled
      BY DEF OffsetBounded
    <3>1. listing \in Offset /\ listing \in Exports
      BY KindsOfLists
    <3> QED BY <2>0, <2>1, <2>2, <3>1 DEF OffsetInv, Missed
  <2>5. PagesBounded
    <3> SUFFICES ASSUME listing \in Pages, Reads("done")
                 PROVE  /\ Missed(given) <= dwindled + squeezed
                        /\ Twice(given) <= gained
                        /\ (listing = "replies" /\ dwindled = 0) => Twice(given) = 0
      BY DEF PagesBounded
    <3>1. listing \in Offset
      BY KindsOfLists
    <3> QED BY <2>0, <2>2, <3>1 DEF OffsetInv, Missed
  <2>6. SumsExact
    BY <2>0 DEF SumsInv, SumsExact
  <2> QED BY <2>3, <2>4, <2>5, <2>6 DEF ListingsExplained
<1> QED BY <1>1, ListingsInvariant, PTL

----------------------------------------------------------------------------
(* Searches (module Search) *)

\* How far the request is.
Progress ==
  /\ search.pc = "ask" /\ search.page = 1 =>
       search.total = 0 /\ search.ids = <<>> /\ found = <<>>
  /\ Len(found) = IF search.pc = "done" THEN search.page ELSE search.page - 1
  /\ sought.form = "all" => search.page = 1
  /\ sought.kind # "user" => theirs = {} /\ "theirs" \notin search.awaits
  /\ search.pc = "match" => search.hidden = {}

\* Whom the request may not show is hidden, or about to be read.
Avoided ==
  /\ search.pc = "blocks" =>
       \A h \in shunned : \/ h \in search.hidden
                          \/ "mine" \in search.awaits /\ h \in mine
                          \/ "theirs" \in search.awaits /\ h \in theirs
  /\ search.pc = "rows" => shunned \subseteq search.hidden
  /\ BlocksRespected

Fits == Len(search.ids) <= PerPage /\ IsInjective(search.ids) /\ PagesFit

\* While nothing changes, an untied row has its page.
Falls(r, k) == (k - 1) * PerPage <= Cardinality(Above(r)) /\ Cardinality(Above(r)) < k * PerPage
IdsRead == search.pc \in {"blocks", "rows"} \/ (search.pc = "match" /\ "ids" \notin search.awaits)
TotalRead ==
  search.pc \in {"blocks", "rows"} \/ (search.pc = "match" /\ "total" \notin search.awaits)
Answered == search.total + Len(search.ids) > 0

Undisturbed ==
  calm =>
    /\ search.pc \in {"blocks", "rows"} => search.hidden \subseteq mine \cup theirs
    /\ IdsRead => \A r \in indexed : Untied(r) => (r \in ToSet(search.ids) <=> Falls(r, search.page))
    /\ sought.form = "byType" /\ TotalRead => search.total = Cardinality(indexed)
    /\ (search.pc = "done" => Answered) =>
         \A i \in DOMAIN found : \A r \in indexed :
           Untied(r) /\ Visible(r) => (r \in ToSet(found[i]) <=> Falls(r, i))
    /\ search.pc = "done" /\ Answered /\ sought.form = "byType" =>
         search.total = Cardinality(indexed) /\ search.page * PerPage >= search.total

SearchInv == SearchTypeOK /\ Progress /\ Avoided /\ Fits /\ Undisturbed

----------------------------------------------------------------------------

\* The rows kept of a page: those there still are and may be shown, each at most once.
LEMMA InOrderKeeps ==
  ASSUME NEW ids \in Seq(Hits)
  PROVE  /\ InOrder(ids) \in Seq(Hits) /\ Len(InOrder(ids)) <= Len(ids)
         /\ Len(InOrder(ids)) \in Nat /\ Len(ids) \in Nat
         /\ ToSet(InOrder(ids)) = {r \in ToSet(ids) : r \in extant /\ Host(r) \notin search.hidden}
         /\ IsInjective(ids) => IsInjective(InOrder(ids))
<1> DEFINE K == Kept(ids)
           s == Row("up", K)
           n == Cardinality(K)
<1>1. Len(ids) \in Nat /\ DOMAIN ids = 1..Len(ids) /\ \A i \in 1..Len(ids) : ids[i] \in Hits
  BY ElementOfSeq
<1>2. K \in SUBSET (1..Len(ids)) /\ K = {i \in 1..Len(ids) : ids[i] \in extant /\ Host(ids[i]) \notin search.hidden}
  BY <1>1 DEF Kept
<1>3. InOrder(ids) = [m \in 1..n |-> ids[s[m]]]
  BY DEF InOrder, Row, Place
<1> HIDE DEF K
<1>4. K \in SUBSET Int /\ IsFiniteSet(K) /\ n <= Len(ids)
  <2>1. IsFiniteSet(1..Len(ids)) /\ Cardinality(1..Len(ids)) = IF 1 > Len(ids) THEN 0 ELSE Len(ids) - 1 + 1
    BY <1>1, FS_Interval
  <2>2. IsFiniteSet(K) /\ n <= Cardinality(1..Len(ids))
    BY <1>2, <2>1, FS_Subset
  <2>3. \A i \in 1..Len(ids) : i \in Int
    BY <1>1
  <2> QED BY <1>1, <1>2, <2>1, <2>2, <2>3
<1>5. /\ n \in Nat /\ s \in [1..n -> K] /\ ToSet(s) = K
      /\ \A m \in 1..n : Place("up", K, s[m]) = m
  <2>1. "up" \in {"up", "down"}
    OBVIOUS
  <2> QED BY <1>4, <2>1, RowsInOrder
<1> HIDE DEF s, n
<1> DEFINE o == [m \in 1..n |-> ids[s[m]]]
<1>6. \A m \in 1..n : s[m] \in K /\ ids[s[m]] \in Hits
  BY <1>1, <1>2, <1>5
<1>7. o \in Seq(Hits) /\ Len(o) = n /\ DOMAIN o = 1..n /\ \A m \in 1..n : o[m] = ids[s[m]]
  BY <1>5, <1>6
<1> HIDE DEF o
<1>8. ToSet(o) = {r \in ToSet(ids) : r \in extant /\ Host(r) \notin search.hidden}
  <2>1. ASSUME NEW r \in ToSet(o) PROVE r \in ToSet(ids) /\ r \in extant /\ Host(r) \notin search.hidden
    <3>1. PICK m \in 1..n : r = ids[s[m]]
      BY <1>7, <2>1 DEF ToSet
    <3>2. s[m] \in K
      BY <1>6
    <3> QED BY <1>1, <1>2, <3>1, <3>2 DEF ToSet
  <2>2. ASSUME NEW r \in ToSet(ids), r \in extant, Host(r) \notin search.hidden PROVE r \in ToSet(o)
    <3>1. PICK i \in 1..Len(ids) : r = ids[i]
      BY <1>1 DEF ToSet
    <3>2. i \in ToSet(s)
      BY <1>2, <1>5, <2>2, <3>1
    <3>3. PICK m \in 1..n : i = s[m]
      BY <1>5, <3>2 DEF ToSet
    <3> QED BY <1>7, <3>1, <3>3 DEF ToSet
  <2> QED BY <2>1, <2>2
<1>9. ASSUME IsInjective(ids), NEW l \in 1..n, NEW m \in 1..n, o[l] = o[m] PROVE l = m
  <2>1. ids[s[l]] = ids[s[m]] /\ s[l] \in DOMAIN ids /\ s[m] \in DOMAIN ids
    BY <1>1, <1>2, <1>6, <1>7, <1>9
  <2>2. s[l] = s[m]
    BY <1>9, <2>1 DEF IsInjective
  <2> QED BY <1>5, <2>2
<1>10. InOrder(ids) = o
  BY <1>3 DEF o, n
<1>11. IsInjective(ids) => IsInjective(o)
  BY <1>7, <1>9 DEF IsInjective
<1> QED BY <1>1, <1>4, <1>5, <1>7, <1>8, <1>10, <1>11

\* In any order that respects the scores an untied row stands right behind those above it.
LEMMA UntiedPlace ==
  ASSUME SearchTypeOK, NEW s \in SetToSeqs(indexed), Ranked(s)
  PROVE  /\ s \in Seq(Hits) /\ IsInjective(s)
         /\ Cardinality(indexed) \in Nat /\ Len(s) = Cardinality(indexed)
         /\ \A r \in indexed : Untied(r) =>
              /\ Cardinality(Above(r)) \in 0..(Len(s) - 1)
              /\ s[Cardinality(Above(r)) + 1] = r
<1> DEFINE n == Cardinality(indexed)
<1>1. indexed \in SUBSET Hits /\ score \in [Hits -> 1..MaxScore]
  BY DEF SearchTypeOK
<1>2. IsFiniteSet(indexed) /\ n \in Nat
  <2>1. IsFiniteSet(Hits)
    BY FS_Interval, SearchAssumption DEF Hits
  <2> QED BY <1>1, <2>1, FS_Subset, FS_CardinalityType
<1>3. s \in [1..n -> indexed] /\ \A i, j \in 1..n : i # j => s[i] # s[j]
  BY DEF SetToSeqs
<1>4. s \in Seq(indexed) /\ Len(s) = n /\ DOMAIN s = 1..n
  BY <1>2, <1>3
<1>5. \A r \in indexed : \E i \in 1..n : s[i] = r
  <2>1. IsFiniteSet(1..n) /\ Cardinality(1..n) = n
    <3>1. IsFiniteSet(1..n) /\ Cardinality(1..n) = IF 1 > n THEN 0 ELSE n - 1 + 1
      <4>1. 1 \in Int /\ n \in Int
        BY <1>2
      <4> HIDE DEF n
      <4> QED BY <4>1, FS_Interval
    <3> QED BY <1>2, <3>1
  <2>2. s \in Injection(1..n, indexed)
    BY <1>3 DEF Injection, IsInjective
  <2>3. s \in Surjection(1..n, indexed)
    BY <1>2, <2>1, <2>2, FS_Injection
  <2> QED BY <2>3 DEF Surjection
<1>6. ASSUME NEW r \in indexed, Untied(r)
      PROVE  Cardinality(Above(r)) \in 0..(n - 1) /\ s[Cardinality(Above(r)) + 1] = r
  <2>1. PICK p \in 1..n : s[p] = r
    BY <1>5
  <2>2. p \in Nat /\ p >= 1 /\ p - 1 \in Nat
    BY <1>2
  <2> DEFINE A == Above(r)
             f == [i \in 1..(p - 1) |-> s[i]]
  <2>3. \A x \in indexed : score[x] \in Int
    BY <1>1, SearchAssumption
  <2>4. A = {x \in indexed : score[x] > score[r]}
    BY DEF Above
  <2>5. \A x \in indexed : x # r => score[x] # score[r]
    BY <1>6 DEF Untied
  <2>6. ASSUME NEW i \in 1..n
        PROVE  /\ i < p => s[i] \in A
               /\ s[i] \in A => i < p
    <3>1. s[i] \in indexed /\ score[s[i]] \in Int /\ score[r] \in Int /\ i \in Int
      BY <1>2, <1>3, <2>3
    <3>2. CASE i < p
      <4>1. score[s[i]] >= score[r] /\ s[i] # r
        BY <1>3, <1>4, <2>1, <2>2, <3>1, <3>2 DEF Ranked
      <4>2. score[s[i]] > score[r]
        BY <2>5, <3>1, <4>1
      <4> QED BY <2>4, <3>1, <3>2, <4>2
    <3>3. CASE i = p
      BY <2>1, <2>2, <2>4, <3>1, <3>3
    <3>4. CASE i > p
      <4>1. score[r] >= score[s[i]]
        BY <1>4, <2>1, <3>4 DEF Ranked
      <4>2. ~(score[s[i]] > score[r])
        BY <3>1, <4>1
      <4> QED BY <2>2, <2>4, <3>1, <3>4, <4>2
    <3> QED BY <2>2, <3>1, <3>2, <3>3, <3>4
  <2>7. \A i \in 1..(p - 1) : i \in 1..n /\ i < p
    BY <1>2, <2>2
  <2>8. f \in Bijection(1..(p - 1), A)
    <3>1. f \in [1..(p - 1) -> A]
      BY <2>6, <2>7
    <3>2. \A i, j \in 1..(p - 1) : f[i] = f[j] => i = j
      BY <1>3, <2>7
    <3>3. \A x \in A : \E i \in 1..(p - 1) : f[i] = x
      <4> SUFFICES ASSUME NEW x \in A PROVE \E i \in 1..(p - 1) : s[i] = x
        OBVIOUS
      <4>1. PICK i \in 1..n : s[i] = x
        BY <1>5, <2>4
      <4>2. i < p /\ i \in Int /\ i >= 1
        BY <1>2, <2>6, <4>1
      <4> QED BY <2>2, <4>1, <4>2
    <3> HIDE DEF f, A
    <3> QED BY <3>1, <3>2, <3>3 DEF Bijection, Injection, Surjection, IsInjective
  <2> HIDE DEF A, f
  <2>9. Cardinality(A) = p - 1
    <3>1. ExistsBijection(1..(p - 1), A)
      BY <2>8 DEF ExistsBijection
    <3> QED BY <2>2, <3>1, FS_CountingElements
  <2>10. p - 1 \in 0..(n - 1) /\ p - 1 + 1 = p
    BY <1>2, <2>2
  <2> QED BY <2>1, <2>9, <2>10 DEF A
<1>7. IsInjective(s)
  BY <1>3, <1>4 DEF IsInjective
<1>8. s \in Seq(Hits)
  <2>1. \A i \in 1..n : s[i] \in Hits
    BY <1>1, <1>3
  <2> QED BY <1>2, <1>4, <2>1
<1> QED BY <1>2, <1>4, <1>6, <1>7, <1>8

\* A page of the index: no more rows than fit, each once, and the untied ones in their places.
LEMMA PageOfIndex ==
  ASSUME SearchTypeOK, NEW skip \in Nat, NEW ids \in SearchByType(skip)
  PROVE  /\ ids \in Seq(Hits) /\ Len(ids) <= PerPage /\ IsInjective(ids)
         /\ \A r \in indexed : Untied(r) =>
              (r \in ToSet(ids) <=> skip <= Cardinality(Above(r)) /\ Cardinality(Above(r)) < skip + PerPage)
<1>1. PICK s \in SetToSeqs(indexed) :
        /\ Ranked(s)
        /\ ids = SubSeq(s, skip + 1, IF skip + PerPage < Len(s) THEN skip + PerPage ELSE Len(s))
  BY DEF SearchByType
<1> DEFINE n == Len(s)
           m == IF skip + PerPage < n THEN skip + PerPage ELSE n
<1>2. /\ s \in Seq(Hits) /\ IsInjective(s) /\ n \in Nat
      /\ \A r \in indexed : Untied(r) =>
           Cardinality(Above(r)) \in 0..(n - 1) /\ s[Cardinality(Above(r)) + 1] = r
  BY <1>1, UntiedPlace
<1>3. /\ PerPage \in Nat \ {0} /\ ids = SubSeq(s, skip + 1, m) /\ DOMAIN s = 1..n
  BY <1>1, <1>2, SearchAssumption
<1> HIDE DEF n
<1>4. m \in Int /\ m <= n /\ m <= skip + PerPage /\ skip + 1 \in Int
  BY <1>2, <1>3
<1>4a. \A i \in Int : skip < i /\ i <= skip + PerPage /\ i <= n <=> skip < i /\ i <= m
  BY <1>2, <1>3
<1> HIDE DEF m
<1>5. \A i \in (skip + 1)..m : s[i] \in Hits
  <2>1. \A i \in 1..n : s[i] \in Hits
    BY <1>2, ElementOfSeq DEF n
  <2> QED BY <1>2, <1>4, <2>1
<1>6. /\ SubSeq(s, skip + 1, m) \in Seq(Hits)
      /\ Len(SubSeq(s, skip + 1, m)) = IF skip + 1 <= m THEN m - (skip + 1) + 1 ELSE 0
      /\ \A i \in 1..(m - (skip + 1) + 1) : SubSeq(s, skip + 1, m)[i] = s[skip + 1 + i - 1]
  BY <1>4, <1>5, SubSeqProperties
<1>7. Len(ids) = IF skip < m THEN m - skip ELSE 0
  BY <1>3, <1>4, <1>6
<1>8. DOMAIN ids = 1..Len(ids) /\ Len(ids) \in Nat /\ Len(ids) <= PerPage
  BY <1>3, <1>4, <1>6, <1>7
<1>9. ASSUME NEW i \in 1..Len(ids) PROVE ids[i] = s[skip + i] /\ skip + i \in 1..n /\ skip + i <= m
  <2>1. i \in 1..(m - (skip + 1) + 1) /\ skip + 1 + i - 1 = skip + i
    BY <1>4, <1>7, <1>8
  <2>2. skip + i \in 1..n /\ skip + i <= m
    BY <1>2, <1>4, <1>7, <1>8
  <2> QED BY <1>3, <1>6, <2>1, <2>2
<1>10. IsInjective(ids)
  <2> SUFFICES ASSUME NEW i \in 1..Len(ids), NEW j \in 1..Len(ids), ids[i] = ids[j] PROVE i = j
    BY <1>8 DEF IsInjective
  <2>1. s[skip + i] = s[skip + j] /\ skip + i \in DOMAIN s /\ skip + j \in DOMAIN s
    BY <1>3, <1>9
  <2>2. skip + i = skip + j
    BY <1>2, <2>1 DEF IsInjective
  <2> QED BY <1>8, <2>2
<1>11. ASSUME NEW r \in indexed, Untied(r)
       PROVE  r \in ToSet(ids) <=> skip <= Cardinality(Above(r)) /\ Cardinality(Above(r)) < skip + PerPage
  <2> DEFINE a == Cardinality(Above(r))
  <2>1. a \in 0..(n - 1) /\ s[a + 1] = r
    BY <1>2, <1>11
  <2> HIDE DEF a
  <2>2. a \in Nat /\ a + 1 \in 1..n
    BY <1>2, <2>1
  <2>3. ASSUME r \in ToSet(ids) PROVE skip <= a /\ a < skip + PerPage
    <3>1. PICK i \in 1..Len(ids) : r = ids[i]
      BY <1>8, <2>3 DEF ToSet
    <3>2. s[skip + i] = s[a + 1] /\ skip + i \in DOMAIN s /\ a + 1 \in DOMAIN s
      BY <1>3, <1>9, <2>1, <2>2, <3>1
    <3>3. skip + i = a + 1
      BY <1>2, <3>2 DEF IsInjective
    <3>4. skip + i <= m /\ i >= 1
      BY <1>8, <1>9
    <3> QED BY <1>3, <1>4, <1>8, <2>2, <3>3, <3>4
  <2>4. ASSUME skip <= a, a < skip + PerPage PROVE r \in ToSet(ids)
    <3>1. PICK i \in Int : i = a + 1 - skip
      BY <2>2
    <3>2. a + 1 <= m
      BY <1>3, <1>4a, <2>2, <2>4
    <3>3. i \in 1..Len(ids) /\ skip + i = a + 1
      BY <1>4, <1>7, <2>2, <2>4, <3>1, <3>2
    <3>4. ids[i] = r
      BY <1>9, <2>1, <3>3
    <3> QED BY <1>8, <3>3, <3>4 DEF ToSet
  <2> QED BY <2>3, <2>4 DEF a
<1> QED BY <1>3, <1>6, <1>8, <1>10, <1>11

\* The request's record.
SearchRecords ==
  [pc : {"ask", "match", "blocks", "rows", "done"}, page : Nat \ {0},
   ids : Seq(Hits), total : Nat, hidden : SUBSET Hosts,
   awaits : SUBSET {"ids", "total", "mine", "theirs"}]

LEMMA SearchFacts ==
  ASSUME SearchTypeOK
  PROVE  /\ search \in SearchRecords
         /\ search.pc \in {"ask", "match", "blocks", "rows", "done"}
         /\ search.page \in Nat \ {0} /\ search.ids \in Seq(Hits) /\ Len(search.ids) \in Nat
         /\ search.total \in Nat /\ search.hidden \in SUBSET Hosts
         /\ search.awaits \in SUBSET {"ids", "total", "mine", "theirs"}
         /\ PerPage \in Nat \ {0} /\ found \in Seq(Seq(Hits)) /\ Len(found) \in Nat
         /\ DOMAIN found = 1..Len(found) /\ indexed \in SUBSET Hits /\ IsFiniteSet(indexed)
         /\ Cardinality(indexed) \in Nat
<1>1. IsFiniteSet(indexed) /\ indexed \in SUBSET Hits
  <2>1. IsFiniteSet(Hits)
    BY FS_Interval, SearchAssumption DEF Hits
  <2>2. indexed \in SUBSET Hits
    BY DEF SearchTypeOK
  <2> QED BY <2>1, <2>2, FS_Subset
<1>2. search \in SearchRecords /\ found \in Seq(Seq(Hits))
  BY DEF SearchTypeOK, SearchRecords
<1>3. /\ search.pc \in {"ask", "match", "blocks", "rows", "done"}
      /\ search.page \in Nat \ {0} /\ search.ids \in Seq(Hits)
      /\ search.total \in Nat /\ search.hidden \in SUBSET Hosts
      /\ search.awaits \in SUBSET {"ids", "total", "mine", "theirs"}
  BY <1>2 DEF SearchRecords
<1>4. Len(search.ids) \in Nat /\ Len(found) \in Nat /\ DOMAIN found = 1..Len(found)
  BY <1>2, <1>3
<1> QED BY <1>1, <1>2, <1>3, <1>4, SearchAssumption, FS_CardinalityType

\* Another page shown: what was shown stays.
LEMMA FoundMore ==
  ASSUME found \in Seq(Seq(Hits)), NEW p \in Seq(Hits), found' = Append(found, p)
  PROVE  /\ found' \in Seq(Seq(Hits)) /\ Len(found) \in Nat /\ Len(found') = Len(found) + 1
         /\ found' # <<>> /\ DOMAIN found = 1..Len(found) /\ DOMAIN found' = 1..(Len(found) + 1)
         /\ found'[Len(found')] = p /\ found'[Len(found) + 1] = p
         /\ \A i \in 1..Len(found) : found'[i] = found[i]
<1> HIDE DEF Hits
<1>1. PICK f, g : f = found /\ g = found'
  OBVIOUS
<1>2. /\ g \in Seq(Seq(Hits)) /\ Len(f) \in Nat /\ Len(g) = Len(f) + 1
      /\ \A i \in 1..Len(f) : g[i] = f[i] /\ g[Len(f) + 1] = p
      /\ g[Len(f) + 1] = p
  BY <1>1, AppendProperties
<1>3. /\ g # <<>> /\ DOMAIN f = 1..Len(f) /\ DOMAIN g = 1..(Len(f) + 1)
      /\ g[Len(g)] = p
      /\ \A i \in 1..Len(f) : g[i] = f[i]
  <2>1. \A i \in 1..Len(f) : g[i] = f[i]
    BY <1>2
  <2>2. f \in Seq(Seq(Hits))
    BY <1>1
  <2> QED BY <1>2, <2>1, <2>2
<1> QED BY <1>1, <1>2, <1>3

----------------------------------------------------------------------------

\* What changes meanwhile: a search under way is no longer undisturbed.
LEMMA ShiftKeeps ==
  ASSUME SearchInv, Shift,
         indexed' \subseteq Hits, extant' \subseteq Hits, score' \in [Hits -> 1..MaxScore],
         mine' \subseteq Hosts, theirs' \subseteq Hosts, shunned' \subseteq shunned,
         \A h \in shunned' : (h \in mine => h \in mine') /\ (h \in theirs => h \in theirs'),
         sought.kind # "user" => theirs' = {}
  PROVE  SearchInv'
<1>0. SearchTypeOK /\ Progress /\ Avoided /\ Fits /\ Undisturbed
  BY DEF SearchInv
<1>1. /\ turns < MaxTurns /\ turns' = turns + 1 /\ UNCHANGED <<sought, search, found>>
      /\ calm' = (calm /\ search.pc = "ask" /\ search.page = 1)
  BY DEF Shift
<1>2. SearchTypeOK'
  <2>1. turns' \in 0..MaxTurns
    BY <1>0, <1>1, SearchAssumption DEF SearchTypeOK
  <2>2. calm' \in BOOLEAN
    BY <1>1
  <2>3. Hosts' = Hosts
    BY <1>1 DEF Hosts, Host
  <2>4. shunned' \subseteq mine' \cup theirs'
    BY <1>0 DEF SearchTypeOK
  <2> HIDE DEF Hosts, Hits
  <2> QED BY <1>0, <1>1, <2>1, <2>2, <2>3, <2>4 DEF SearchTypeOK
<1>3. Progress'
  BY <1>0, <1>1 DEF Progress
<1>4. Avoided'
  BY <1>0, <1>1 DEF Avoided, BlocksRespected, Host
<1>5. Fits'
  BY <1>0, <1>1 DEF Fits, PagesFit
<1>6. Undisturbed'
  <2> SUFFICES ASSUME calm' PROVE Undisturbed'
    BY DEF Undisturbed
  <2>1. search'.pc = "ask" /\ found' = <<>>
    BY <1>0, <1>1 DEF Progress
  <2>2. DOMAIN found' = {}
    BY <2>1
  <2> QED BY <2>1, <2>2 DEF Undisturbed, IdsRead, TotalRead
<1> QED BY <1>2, <1>3, <1>4, <1>5, <1>6 DEF SearchInv

LEMMA ChangesKeep ==
  ASSUME SearchInv,
         \/ \E r \in Hits : IndexRow(r) \/ Deindex(r) \/ DropHit(r)
         \/ \E h \in Hosts : BlockHost(h) \/ UnblockHost(h) \/ BlockedByUser(h)
  PROVE  SearchInv'
<1>0. /\ indexed \subseteq Hits /\ extant \subseteq Hits /\ score \in [Hits -> 1..MaxScore]
      /\ mine \subseteq Hosts /\ theirs \subseteq Hosts /\ shunned \subseteq mine \cup theirs
      /\ sought.kind # "user" => theirs = {}
  BY DEF SearchInv, SearchTypeOK, Progress
<1> HIDE DEF Hits, Hosts
<1>1. ASSUME NEW r \in Hits, IndexRow(r) PROVE SearchInv'
  <2>1. score' \in [Hits -> 1..MaxScore]
    BY <1>0, <1>1 DEF IndexRow
  <2> QED BY <1>0, <1>1, <2>1, ShiftKeeps DEF IndexRow
<1>2. ASSUME NEW r \in Hits, Deindex(r) PROVE SearchInv'
  BY <1>0, <1>2, ShiftKeeps DEF Deindex
<1>3. ASSUME NEW r \in Hits, DropHit(r) PROVE SearchInv'
  BY <1>0, <1>3, ShiftKeeps DEF DropHit
<1>4. ASSUME NEW h \in Hosts, BlockHost(h) PROVE SearchInv'
  BY <1>0, <1>4, ShiftKeeps DEF BlockHost
<1>5. ASSUME NEW h \in Hosts, UnblockHost(h) PROVE SearchInv'
  BY <1>0, <1>5, ShiftKeeps DEF UnblockHost
<1>6. ASSUME NEW h \in Hosts, BlockedByUser(h) PROVE SearchInv'
  BY <1>0, <1>6, ShiftKeeps DEF BlockedByUser
<1> QED BY <1>1, <1>2, <1>3, <1>4, <1>5, <1>6

\* The request goes on: what it reads stays the same.
LEMMA RequestStays ==
  ASSUME SearchInv, UNCHANGED <<sought, searchedVars, turns, calm>>,
         search' \in SearchRecords, found' \in Seq(Seq(Hits)),
         shunned' \subseteq mine \cup theirs
  PROVE  /\ SearchTypeOK' /\ UNCHANGED <<sought, indexed, score, extant, mine, theirs, calm>>
         /\ \A r : /\ Above(r)' = Above(r) /\ Visible(r)' = Visible(r)
                   /\ Untied(r)' = Untied(r) /\ Host(r)' = Host(r)
         /\ \A r, k : Falls(r, k)' = Falls(r, k)
<1>1. UNCHANGED <<sought, indexed, score, extant, mine, theirs, turns, calm>>
  BY DEF searchedVars
<1>2. Hosts' = Hosts
  BY <1>1 DEF Hosts, Host
<1>3. \A r : /\ Above(r)' = Above(r) /\ Visible(r)' = Visible(r)
             /\ Untied(r)' = Untied(r) /\ Host(r)' = Host(r)
  BY <1>1 DEF Above, Visible, Untied, Host
<1>4. \A r, k : Falls(r, k)' = Falls(r, k)
  BY <1>3 DEF Falls
<1>5. SearchTypeOK'
  <2> HIDE DEF Hosts, Hits
  <2> QED BY <1>1, <1>2 DEF SearchInv, SearchTypeOK, SearchRecords
<1> QED BY <1>1, <1>3, <1>4, <1>5

\* A page is shown.
LEMMA ShowKeeps ==
  ASSUME SearchInv, NEW page \in Seq(Hits), Show(page), Matched \/ search.pc = "rows",
         UNCHANGED <<sought, searchedVars, turns, calm, shunned>>,
         Len(page) <= PerPage, IsInjective(page), \A r \in ToSet(page) : Host(r) \notin shunned,
         calm => \A r \in indexed : Untied(r) /\ Visible(r) =>
                   (r \in ToSet(page) <=> Falls(r, search.page))
  PROVE  SearchInv'
<1>0. SearchTypeOK /\ Progress /\ Avoided /\ Fits /\ Undisturbed
  BY DEF SearchInv
<1>1. /\ search \in SearchRecords /\ search.page \in Nat \ {0} /\ search.total \in Nat
      /\ PerPage \in Nat \ {0} /\ found \in Seq(Seq(Hits)) /\ search.pc \in {"match", "rows"}
      /\ search.pc = "match" => search.awaits = {}
      /\ shunned \subseteq mine \cup theirs
  BY <1>0, SearchFacts DEF Matched, SearchTypeOK
<1>2. found' = Append(found, page)
  BY DEF Show
<1>3. /\ found' \in Seq(Seq(Hits)) /\ Len(found) \in Nat /\ Len(found') = Len(found) + 1
      /\ found' # <<>> /\ DOMAIN found = 1..Len(found) /\ DOMAIN found' = 1..(Len(found) + 1)
      /\ found'[Len(found')] = page /\ found'[Len(found) + 1] = page
      /\ \A i \in 1..Len(found) : found'[i] = found[i]
  BY <1>1, <1>2, FoundMore
<1> DEFINE over == sought.form = "all" \/ LastSearched
<1>4. /\ search' \in SearchRecords
      /\ search'.ids = search.ids /\ search'.total = search.total /\ search'.awaits = search.awaits
      /\ search'.hidden = search.hidden
      /\ search'.pc = IF over THEN "done" ELSE "ask"
      /\ search'.page = IF over THEN search.page ELSE search.page + 1
  <2> HIDE DEF Hits, Hosts, over
  <2>1. search' = IF over THEN [search EXCEPT !.pc = "done"]
                  ELSE [search EXCEPT !.pc = "ask", !.page = search.page + 1]
    BY DEF Show, over
  <2>2. search.page + 1 \in Nat \ {0}
    BY <1>1
  <2> QED BY <1>1, <2>1, <2>2 DEF SearchRecords
<1>5. /\ SearchTypeOK' /\ UNCHANGED <<sought, indexed, score, extant, mine, theirs, calm, shunned>>
      /\ \A r : /\ Above(r)' = Above(r) /\ Visible(r)' = Visible(r)
                /\ Untied(r)' = Untied(r) /\ Host(r)' = Host(r)
      /\ \A r, k : Falls(r, k)' = Falls(r, k)
  BY <1>1, <1>3, <1>4, RequestStays
<1>6. Len(found) = search.page - 1
  BY <1>0, <1>1 DEF Progress
<1>7. Progress'
  <2>1. search'.pc = "ask" => search'.page # 1 /\ sought.form # "all"
    BY <1>1, <1>4
  <2>2. Len(found') = IF search'.pc = "done" THEN search'.page ELSE search'.page - 1
    BY <1>1, <1>3, <1>4, <1>6
  <2> QED BY <1>0, <1>4, <1>5, <2>1, <2>2 DEF Progress
<1>8. Avoided'
  BY <1>3, <1>4, <1>5 DEF Avoided, BlocksRespected
<1>9. Fits'
  <2>1. \A i \in 1..(Len(found) + 1) : i \in 1..Len(found) \/ i = Len(found) + 1
    BY <1>3
  <2>2. \A i \in 1..Len(found) : Len(found[i]) <= PerPage /\ IsInjective(found[i])
    BY <1>0, <1>3 DEF Fits, PagesFit
  <2>3. \A i \in 1..(Len(found) + 1) : Len(found'[i]) <= PerPage /\ IsInjective(found'[i])
    BY <1>3, <2>1, <2>2
  <2> QED BY <1>0, <1>3, <1>4, <2>3 DEF Fits, PagesFit
<1>10. Undisturbed'
  <2> SUFFICES ASSUME calm PROVE Undisturbed'
    BY <1>5 DEF Undisturbed
  <2>1. sought.form = "byType" => search.total = Cardinality(indexed)
    BY <1>0, <1>1 DEF Undisturbed, TotalRead
  <2>2. \A i \in 1..Len(found) : \A r \in indexed :
          Untied(r) /\ Visible(r) => (r \in ToSet(found[i]) <=> Falls(r, i))
    BY <1>0, <1>1, <1>3 DEF Undisturbed
  <2>3. \A r \in indexed : Untied(r) /\ Visible(r) => (r \in ToSet(page) <=> Falls(r, Len(found) + 1))
    <3>1. Len(found) + 1 = search.page
      BY <1>1, <1>6
    <3> QED BY <3>1
  <2>4. \A i \in 1..(Len(found) + 1) : \A r \in indexed :
          Untied(r) /\ Visible(r) => (r \in ToSet(found'[i]) <=> Falls(r, i))
    <3>1. \A i \in 1..(Len(found) + 1) : i \in 1..Len(found) \/ i = Len(found) + 1
      BY <1>3
    <3> QED BY <1>3, <2>2, <2>3, <3>1
  <2>5. search'.pc = "done" /\ sought.form = "byType" => search'.page * PerPage >= search'.total
    BY <1>4 DEF LastSearched
  <2>6. ~IdsRead' /\ ~TotalRead' /\ search'.pc \notin {"blocks", "rows"}
    BY <1>4 DEF IdsRead, TotalRead
  <2>7. \A i \in DOMAIN found' : \A r \in indexed' :
          Untied(r)' /\ Visible(r)' => (r \in ToSet(found'[i]) <=> Falls(r, i)')
    BY <1>3, <1>5, <2>4
  <2>8. sought'.form = "byType" => search'.total = Cardinality(indexed')
    BY <1>4, <1>5, <2>1
  <2> QED BY <1>5, <2>5, <2>6, <2>7, <2>8 DEF Undisturbed
<1> QED BY <1>5, <1>7, <1>8, <1>9, <1>10 DEF SearchInv

\* Nothing is shown in between: what was found and is shunned stays.
LEMMA ReadingOnKeeps ==
  ASSUME SearchInv, UNCHANGED <<sought, searchedVars, found, turns, calm, shunned>>,
         search' \in SearchRecords, search.pc # "done",
         search'.pc \in {"match", "blocks", "rows"}, search'.page = search.page,
         search.pc # "ask", search'.pc = "match" => search'.hidden = {},
         sought.kind # "user" => "theirs" \notin search'.awaits,
         search'.pc = "blocks" =>
           \A h \in shunned : \/ h \in search'.hidden
                              \/ "mine" \in search'.awaits /\ h \in mine
                              \/ "theirs" \in search'.awaits /\ h \in theirs,
         search'.pc = "rows" => shunned \subseteq search'.hidden,
         Len(search'.ids) <= PerPage, IsInjective(search'.ids),
         calm /\ search'.pc \in {"blocks", "rows"} => search'.hidden \subseteq mine \cup theirs,
         calm /\ IdsRead' =>
           \A r \in indexed : Untied(r) => (r \in ToSet(search'.ids) <=> Falls(r, search.page)),
         calm /\ sought.form = "byType" /\ TotalRead' => search'.total = Cardinality(indexed)
  PROVE  SearchInv'
<1>0. SearchTypeOK /\ Progress /\ Avoided /\ Fits /\ Undisturbed
  BY DEF SearchInv
<1>1. found \in Seq(Seq(Hits)) /\ shunned \subseteq mine \cup theirs
  BY <1>0 DEF SearchTypeOK
<1>2. /\ SearchTypeOK' /\ UNCHANGED <<sought, indexed, score, extant, mine, theirs, calm, shunned, found>>
      /\ \A r : /\ Above(r)' = Above(r) /\ Visible(r)' = Visible(r)
                /\ Untied(r)' = Untied(r) /\ Host(r)' = Host(r)
      /\ \A r, k : Falls(r, k)' = Falls(r, k)
  BY <1>1, RequestStays
<1>3. Progress'
  BY <1>0, <1>2 DEF Progress
<1>4. Avoided'
  BY <1>2 DEF Avoided, BlocksRespected
<1>5. Fits'
  BY <1>0, <1>2 DEF Fits, PagesFit
<1>6. Undisturbed'
  <2> SUFFICES ASSUME calm PROVE Undisturbed'
    BY <1>2 DEF Undisturbed
  <2>1. \A i \in DOMAIN found : \A r \in indexed :
          Untied(r) /\ Visible(r) => (r \in ToSet(found[i]) <=> Falls(r, i))
    BY <1>0 DEF Undisturbed
  <2>2. \A i \in DOMAIN found' : \A r \in indexed' :
          Untied(r)' /\ Visible(r)' => (r \in ToSet(found'[i]) <=> Falls(r, i)')
    BY <1>2, <2>1
  <2>3. IdsRead' => \A r \in indexed' :
          Untied(r)' => (r \in ToSet(search'.ids) <=> Falls(r, search.page)')
    BY <1>2
  <2> QED BY <1>2, <2>2, <2>3 DEF Undisturbed
<1> QED BY <1>2, <1>3, <1>4, <1>5, <1>6 DEF SearchInv

LEMMA EmptyPage ==
  \E p \in Seq(Hits) : /\ p = <<>> /\ Len(p) = 0 /\ ToSet(p) = {} /\ IsInjective(p)
                        /\ Len(p) <= PerPage
<1>1. <<>> \in Seq(Hits) /\ Len(<<>>) = 0 /\ DOMAIN <<>> = {}
  <2> HIDE DEF Hits
  <2> QED OBVIOUS
<1>2. ToSet(<<>>) = {} /\ IsInjective(<<>>)
  BY <1>1 DEF ToSet, IsInjective
<1>3. Len(<<>>) <= PerPage
  BY <1>1, SearchAssumption
<1> QED BY <1>1, <1>2, <1>3

LEMMA NoTermsKeeps == ASSUME SearchInv, NoTerms PROVE SearchInv'
<1>0. SearchTypeOK /\ Progress /\ Avoided /\ Fits /\ Undisturbed
  BY DEF SearchInv
<1>1. /\ search.pc = "ask" /\ search.page = 1 /\ search' = [search EXCEPT !.pc = "done"]
      /\ found' = Append(found, <<>>) /\ shunned' = mine \cup theirs
      /\ UNCHANGED <<sought, searchedVars, turns, calm>>
  BY DEF NoTerms
<1>2. /\ search \in SearchRecords /\ found \in Seq(Seq(Hits))
      /\ found = <<>> /\ search.total = 0 /\ search.ids = <<>>
  BY <1>0, <1>1, SearchFacts DEF Progress
<1>3. /\ search' \in SearchRecords /\ search'.pc = "done" /\ search'.page = 1
      /\ search'.total = 0 /\ search'.ids = <<>> /\ search'.awaits = search.awaits
  <2> HIDE DEF Hits, Hosts
  <2> QED BY <1>1, <1>2 DEF SearchRecords
<1>4. PICK p \in Seq(Hits) : /\ p = <<>> /\ Len(p) = 0 /\ ToSet(p) = {} /\ IsInjective(p)
                             /\ Len(p) <= PerPage
  BY EmptyPage
<1>6. /\ found' \in Seq(Seq(Hits)) /\ Len(found) \in Nat /\ Len(found') = Len(found) + 1
      /\ DOMAIN found = 1..Len(found) /\ DOMAIN found' = 1..(Len(found) + 1)
      /\ found'[Len(found')] = p /\ found'[Len(found) + 1] = p
  BY <1>1, <1>2, <1>4, FoundMore
<1>7. /\ Len(found) = 0 /\ Len(found') = 1 /\ DOMAIN found' = 1..1 /\ found'[1] = p
  BY <1>2, <1>6
<1>9. SearchTypeOK' /\ UNCHANGED <<sought, indexed, score, extant, mine, theirs, calm>>
  BY <1>1, <1>3, <1>6, RequestStays
<1>10. Progress'
  BY <1>0, <1>3, <1>7, <1>9 DEF Progress
<1>11. Avoided'
  BY <1>3, <1>4, <1>7 DEF Avoided, BlocksRespected
<1>12. Fits'
  BY <1>3, <1>4, <1>7 DEF Fits, PagesFit
<1>13. Undisturbed'
  BY <1>3, <1>4 DEF Undisturbed, Answered, IdsRead, TotalRead
<1> QED BY <1>9, <1>10, <1>11, <1>12, <1>13 DEF SearchInv

LEMMA AskPageKeeps == ASSUME SearchInv, AskPage PROVE SearchInv'
<1>0. SearchTypeOK /\ Progress /\ Avoided /\ Fits /\ Undisturbed
  BY DEF SearchInv
<1> DEFINE first == IF sought.form = "all" THEN {"ids"} ELSE {"ids", "total"}
<1>1. /\ search.pc = "ask" /\ shunned' = mine \cup theirs
      /\ search' = [search EXCEPT !.pc = "match", !.hidden = {}, !.awaits = first]
      /\ UNCHANGED <<sought, searchedVars, found, turns, calm>>
  BY DEF AskPage
<1>2. search \in SearchRecords /\ found \in Seq(Seq(Hits))
  BY <1>0, SearchFacts
<1>3. first \in SUBSET {"ids", "total", "mine", "theirs"} /\ "ids" \in first /\ "theirs" \notin first
      /\ (sought.form = "byType" => "total" \in first)
  BY <1>0 DEF SearchTypeOK
<1> HIDE DEF first
<1>4. /\ search' \in SearchRecords /\ search'.pc = "match" /\ search'.page = search.page
      /\ search'.ids = search.ids /\ search'.awaits = first /\ search'.hidden = {}
  <2> HIDE DEF Hits, Hosts
  <2> QED BY <1>1, <1>2, <1>3 DEF SearchRecords
<1>5. /\ SearchTypeOK' /\ UNCHANGED <<sought, indexed, score, extant, mine, theirs, calm>>
      /\ \A r : /\ Above(r)' = Above(r) /\ Visible(r)' = Visible(r)
                /\ Untied(r)' = Untied(r) /\ Host(r)' = Host(r)
      /\ \A r, k : Falls(r, k)' = Falls(r, k)
  BY <1>1, <1>2, <1>4, RequestStays
<1>6. Progress'
  BY <1>0, <1>1, <1>3, <1>4, <1>5 DEF Progress
<1>7. Avoided'
  BY <1>4 DEF Avoided, BlocksRespected
<1>8. Fits'
  BY <1>0, <1>1, <1>4 DEF Fits, PagesFit
<1>9. Undisturbed'
  <2> SUFFICES ASSUME calm PROVE Undisturbed'
    BY <1>5 DEF Undisturbed
  <2>1. ~IdsRead' /\ (sought.form = "byType" => ~TotalRead')
    BY <1>3, <1>4 DEF IdsRead, TotalRead
  <2>2. \A i \in DOMAIN found : \A r \in indexed :
          Untied(r) /\ Visible(r) => (r \in ToSet(found[i]) <=> Falls(r, i))
    BY <1>0, <1>1 DEF Undisturbed
  <2>3. \A i \in DOMAIN found' : \A r \in indexed' :
          Untied(r)' /\ Visible(r)' => (r \in ToSet(found'[i]) <=> Falls(r, i)')
    BY <1>1, <1>5, <2>2
  <2> QED BY <1>4, <1>5, <2>1, <2>3 DEF Undisturbed
<1> QED BY <1>5, <1>6, <1>7, <1>8, <1>9 DEF SearchInv

LEMMA MatchIdsKeeps == ASSUME SearchInv, MatchIds PROVE SearchInv'
<1>0. SearchTypeOK /\ Progress /\ Avoided /\ Fits /\ Undisturbed
  BY DEF SearchInv
<1>1. /\ search.pc = "match" /\ "ids" \in search.awaits
      /\ UNCHANGED <<sought, searchedVars, found, turns, calm, shunned>>
  BY DEF MatchIds, Gets
<1>2. PICK ids \in SearchByType((search.page - 1) * PerPage) :
        search' = [search EXCEPT !.ids = ids, !.awaits = search.awaits \ {"ids"}]
  BY DEF MatchIds, Got
<1>3. search \in SearchRecords /\ search.page \in Nat \ {0} /\ PerPage \in Nat \ {0}
  BY <1>0, SearchFacts
<1> DEFINE skip == (search.page - 1) * PerPage
<1>4. skip \in Nat /\ skip + PerPage = search.page * PerPage
  <2>1. PICK k \in Nat : k = search.page - 1 /\ search.page = k + 1
    BY <1>3
  <2>2. k * PerPage \in Nat /\ k * PerPage + PerPage = (k + 1) * PerPage
    BY <1>3
  <2> QED BY <2>1, <2>2
<1>5. /\ ids \in Seq(Hits) /\ Len(ids) <= PerPage /\ IsInjective(ids)
      /\ \A r \in indexed : Untied(r) =>
           (r \in ToSet(ids) <=> skip <= Cardinality(Above(r)) /\ Cardinality(Above(r)) < skip + PerPage)
  <2> HIDE DEF skip
  <2>1. ids \in SearchByType(skip)
    BY DEF skip
  <2> QED BY <1>0, <1>4, <2>1, PageOfIndex
<1>6. /\ search' \in SearchRecords /\ search'.pc = "match" /\ search'.page = search.page
      /\ search'.ids = ids /\ search'.awaits = search.awaits \ {"ids"}
      /\ search'.total = search.total /\ search'.hidden = search.hidden
  <2> HIDE DEF Hits, Hosts
  <2> QED BY <1>1, <1>2, <1>3, <1>5 DEF SearchRecords
<1>7. \A r \in indexed : Untied(r) => (r \in ToSet(search'.ids) <=> Falls(r, search.page))
  BY <1>4, <1>5, <1>6 DEF Falls
<1>8. search'.hidden = {} /\ (sought.kind # "user" => "theirs" \notin search'.awaits)
  BY <1>0, <1>1, <1>6 DEF Progress
<1>9. calm /\ sought.form = "byType" /\ TotalRead' => search'.total = Cardinality(indexed)
  BY <1>0, <1>1, <1>6 DEF Undisturbed, TotalRead
<1> QED BY <1>1, <1>5, <1>6, <1>7, <1>8, <1>9, ReadingOnKeeps

LEMMA CountByTypeKeeps == ASSUME SearchInv, CountByType PROVE SearchInv'
<1>0. SearchTypeOK /\ Progress /\ Avoided /\ Fits /\ Undisturbed
  BY DEF SearchInv
<1>1. /\ search.pc = "match" /\ "total" \in search.awaits
      /\ UNCHANGED <<sought, searchedVars, found, turns, calm, shunned>>
      /\ search' = [search EXCEPT !.total = Cardinality(indexed), !.awaits = search.awaits \ {"total"}]
  BY DEF CountByType, Gets, Got
<1>2. search \in SearchRecords /\ Cardinality(indexed) \in Nat
  BY <1>0, SearchFacts
<1>3. /\ search' \in SearchRecords /\ search'.pc = "match" /\ search'.page = search.page
      /\ search'.ids = search.ids /\ search'.awaits = search.awaits \ {"total"}
      /\ search'.total = Cardinality(indexed) /\ search'.hidden = search.hidden
  <2> HIDE DEF Hits, Hosts
  <2> QED BY <1>1, <1>2 DEF SearchRecords
<1>4. search'.hidden = {} /\ (sought.kind # "user" => "theirs" \notin search'.awaits)
  BY <1>0, <1>1, <1>3 DEF Progress
<1>5. Len(search'.ids) <= PerPage /\ IsInjective(search'.ids)
  BY <1>0, <1>3 DEF Fits
<1>6. calm /\ IdsRead' =>
        \A r \in indexed : Untied(r) => (r \in ToSet(search'.ids) <=> Falls(r, search.page))
  BY <1>0, <1>1, <1>3 DEF Undisturbed, IdsRead
<1> QED BY <1>1, <1>3, <1>4, <1>5, <1>6, ReadingOnKeeps

LEMMA ShowNothingKeeps == ASSUME SearchInv, ShowNothing PROVE SearchInv'
<1>0. SearchTypeOK /\ Progress /\ Avoided /\ Fits /\ Undisturbed
  BY DEF SearchInv
<1>1. /\ Matched /\ search.ids = <<>> /\ Show(<<>>)
      /\ UNCHANGED <<sought, searchedVars, turns, calm, shunned>>
  BY DEF ShowNothing
<1>2. PICK p \in Seq(Hits) : /\ p = <<>> /\ Len(p) = 0 /\ ToSet(p) = {} /\ IsInjective(p)
                             /\ Len(p) <= PerPage
  BY EmptyPage
<1>3. \A r \in ToSet(p) : Host(r) \notin shunned
  BY <1>2
<1>4. ASSUME calm PROVE \A r \in indexed : Untied(r) /\ Visible(r) =>
                          (r \in ToSet(p) <=> Falls(r, search.page))
  <2>1. IdsRead
    BY <1>1 DEF IdsRead, Matched
  <2> QED BY <1>0, <1>1, <1>2, <1>4, <2>1 DEF Undisturbed
<1> QED BY <1>1, <1>2, <1>3, <1>4, ShowKeeps

LEMMA AskBlocksKeeps == ASSUME SearchInv, AskBlocks PROVE SearchInv'
<1>0. SearchTypeOK /\ Progress /\ Avoided /\ Fits /\ Undisturbed
  BY DEF SearchInv
<1> DEFINE both == IF sought.kind = "user" THEN {"mine", "theirs"} ELSE {"mine"}
<1>1. /\ search.pc = "match" /\ search.awaits = {}
      /\ UNCHANGED <<sought, searchedVars, found, turns, calm, shunned>>
      /\ search' = [search EXCEPT !.pc = "blocks", !.awaits = both]
  BY DEF AskBlocks, Matched
<1>2. search \in SearchRecords /\ shunned \subseteq mine \cup theirs
  BY <1>0, SearchFacts DEF SearchTypeOK
<1>3. /\ both \in SUBSET {"ids", "total", "mine", "theirs"} /\ "mine" \in both
      /\ sought.kind = "user" => "theirs" \in both
      /\ sought.kind # "user" => "theirs" \notin both /\ theirs = {}
  BY <1>0 DEF Progress
<1> HIDE DEF both
<1>4. /\ search' \in SearchRecords /\ search'.pc = "blocks" /\ search'.page = search.page
      /\ search'.ids = search.ids /\ search'.awaits = both /\ search'.total = search.total
      /\ search'.hidden = search.hidden
  <2> HIDE DEF Hits, Hosts
  <2> QED BY <1>1, <1>2, <1>3 DEF SearchRecords
<1>5. \A h \in shunned : \/ "mine" \in search'.awaits /\ h \in mine
                         \/ "theirs" \in search'.awaits /\ h \in theirs
  BY <1>2, <1>3, <1>4
<1>6. Len(search'.ids) <= PerPage /\ IsInjective(search'.ids)
  BY <1>0, <1>4 DEF Fits
<1>7. calm => \A r \in indexed : Untied(r) => (r \in ToSet(search'.ids) <=> Falls(r, search.page))
  BY <1>0, <1>1, <1>4 DEF Undisturbed, IdsRead
<1>8. calm /\ sought.form = "byType" => search'.total = Cardinality(indexed)
  BY <1>0, <1>1, <1>4 DEF Undisturbed, TotalRead
<1>9. search'.hidden = {}
  BY <1>0, <1>1, <1>4 DEF Progress
<1> QED BY <1>1, <1>3, <1>4, <1>5, <1>6, <1>7, <1>8, <1>9, ReadingOnKeeps

LEMMA ReadBlocksKeeps ==
  ASSUME SearchInv, NEW what \in {"mine", "theirs"}, ReadBlocks(what) PROVE SearchInv'
<1>0. SearchTypeOK /\ Progress /\ Avoided /\ Fits /\ Undisturbed
  BY DEF SearchInv
<1> DEFINE read == IF sought.kind = "user" THEN MutuallyBlockedUserIds(what) ELSE BlockedOrganisationIds
           rest == search.awaits \ {what}
<1>1. /\ search.pc = "blocks" /\ what \in search.awaits
      /\ UNCHANGED <<sought, searchedVars, found, turns, calm, shunned>>
      /\ search' = [search EXCEPT !.hidden = search.hidden \cup read, !.awaits = rest,
                                  !.pc = IF rest = {} THEN "rows" ELSE search.pc]
  BY DEF ReadBlocks, Gets, Got
<1>2. /\ search \in SearchRecords /\ mine \subseteq Hosts /\ theirs \subseteq Hosts
      /\ search.hidden \subseteq Hosts
      /\ search.awaits \in SUBSET {"ids", "total", "mine", "theirs"}
  BY <1>0, SearchFacts DEF SearchTypeOK
<1>3. read = IF what = "mine" THEN mine ELSE theirs
  BY <1>0, <1>1 DEF MutuallyBlockedUserIds, BlockedOrganisationIds, Progress
<1> HIDE DEF read
<1>4. /\ search' \in SearchRecords /\ search'.page = search.page
      /\ search'.ids = search.ids /\ search'.awaits = rest /\ search'.total = search.total
      /\ search'.hidden = search.hidden \cup read
      /\ search'.pc = IF rest = {} THEN "rows" ELSE "blocks"
  <2>1. search.hidden \cup read \in SUBSET Hosts
    BY <1>2, <1>3
  <2>2. rest \in SUBSET {"ids", "total", "mine", "theirs"}
    BY <1>2
  <2> HIDE DEF Hits, Hosts, rest
  <2> QED BY <1>1, <1>2, <2>1, <2>2 DEF SearchRecords
<1>5. \A h \in shunned : \/ h \in search'.hidden
                         \/ "mine" \in rest /\ h \in mine
                         \/ "theirs" \in rest /\ h \in theirs
  BY <1>0, <1>1, <1>3, <1>4 DEF Avoided
<1>6. search'.pc = "rows" => shunned \subseteq search'.hidden
  BY <1>4, <1>5
<1>7. sought.kind # "user" => "theirs" \notin search'.awaits
  BY <1>0, <1>4 DEF Progress
<1>8. Len(search'.ids) <= PerPage /\ IsInjective(search'.ids)
  BY <1>0, <1>4 DEF Fits
<1>9. calm => search'.hidden \subseteq mine \cup theirs
  BY <1>0, <1>1, <1>3, <1>4 DEF Undisturbed
<1>10. calm => \A r \in indexed : Untied(r) => (r \in ToSet(search'.ids) <=> Falls(r, search.page))
  BY <1>0, <1>1, <1>4 DEF Undisturbed, IdsRead
<1>11. calm /\ sought.form = "byType" => search'.total = Cardinality(indexed)
  BY <1>0, <1>1, <1>4 DEF Undisturbed, TotalRead
<1> QED BY <1>1, <1>4, <1>5, <1>6, <1>7, <1>8, <1>9, <1>10, <1>11, ReadingOnKeeps

LEMMA HydratePageKeeps == ASSUME SearchInv, HydratePage PROVE SearchInv'
<1>0. SearchTypeOK /\ Progress /\ Avoided /\ Fits /\ Undisturbed
  BY DEF SearchInv
<1> DEFINE p == InOrder(search.ids)
<1>1. /\ search.pc = "rows" /\ Show(p)
      /\ UNCHANGED <<sought, searchedVars, turns, calm, shunned>>
  BY DEF HydratePage
<1>2. search.ids \in Seq(Hits) /\ PerPage \in Nat
  BY <1>0, SearchFacts
<1>3. /\ p \in Seq(Hits) /\ Len(p) <= Len(search.ids)
      /\ Len(p) \in Nat /\ Len(search.ids) \in Nat
      /\ ToSet(p) = {r \in ToSet(search.ids) : r \in extant /\ Host(r) \notin search.hidden}
      /\ IsInjective(search.ids) => IsInjective(p)
  BY <1>2, InOrderKeeps
<1> HIDE DEF p
<1>4. Len(p) <= PerPage /\ IsInjective(p)
  BY <1>0, <1>2, <1>3 DEF Fits
<1>5. \A r \in ToSet(p) : Host(r) \notin shunned
  BY <1>0, <1>1, <1>3 DEF Avoided
<1>6. ASSUME calm, NEW r \in indexed, Untied(r), Visible(r)
      PROVE  r \in ToSet(p) <=> Falls(r, search.page)
  <2>1. r \in ToSet(search.ids) <=> Falls(r, search.page)
    BY <1>0, <1>1, <1>6 DEF Undisturbed, IdsRead
  <2>2. r \in extant /\ Host(r) \notin search.hidden
    BY <1>0, <1>1, <1>6 DEF Undisturbed, Visible
  <2> QED BY <1>3, <2>1, <2>2
<1> QED BY <1>1, <1>3, <1>4, <1>5, <1>6, ShowKeeps

LEMMA InitSearchInv == ASSUME SearchInit PROVE SearchInv
<1>1. /\ sought \in [kind : {"event", "organisation", "user"}, form : {"all", "byType"}]
      /\ indexed \in {1..n : n \in 0..MaxHit} /\ extant = Hits
      /\ score \in [Hits -> 1..MaxScore] /\ mine \in SUBSET Hosts /\ theirs \in SUBSET Hosts
      /\ shunned = {} /\ (sought.kind # "user" => theirs = {})
      /\ search = [pc |-> "ask", page |-> 1, ids |-> <<>>, total |-> 0, hidden |-> {}, awaits |-> {}]
      /\ found = <<>> /\ turns = 0 /\ calm = TRUE
  BY DEF SearchInit
<1>2. indexed \subseteq Hits
  <2>1. PICK n \in 0..MaxHit : indexed = 1..n
    BY <1>1
  <2> QED BY <2>1, SearchAssumption DEF Hits
<1>3. PICK p \in Seq(Hits) : /\ p = <<>> /\ Len(p) = 0 /\ ToSet(p) = {} /\ IsInjective(p)
                             /\ Len(p) <= PerPage
  BY EmptyPage
<1>4. /\ search \in SearchRecords /\ search.pc = "ask" /\ search.page = 1 /\ search.ids = p
      /\ search.total = 0 /\ search.hidden = {} /\ search.awaits = {}
  <2> HIDE DEF Hits, Hosts
  <2> QED BY <1>1, <1>3 DEF SearchRecords
<1>5. found \in Seq(Seq(Hits)) /\ Len(found) = 0 /\ DOMAIN found = {}
  <2> HIDE DEF Hits
  <2> QED BY <1>1
<1>6. SearchTypeOK
  <2>1. turns \in 0..MaxTurns
    BY <1>1, SearchAssumption
  <2> HIDE DEF Hits, Hosts
  <2> QED BY <1>1, <1>2, <1>4, <1>5, <2>1 DEF SearchTypeOK, SearchRecords
<1>7. Progress
  BY <1>1, <1>4, <1>5 DEF Progress
<1>8. Avoided
  BY <1>1, <1>4 DEF Avoided, BlocksRespected
<1>9. Fits
  BY <1>3, <1>4, <1>5 DEF Fits, PagesFit
<1>10. Undisturbed
  BY <1>4, <1>5 DEF Undisturbed, IdsRead, TotalRead
<1> QED BY <1>6, <1>7, <1>8, <1>9, <1>10 DEF SearchInv

\* Whatever is reindexed, dropped, blocked or unblocked between the queries of a
\* search, what it has read still says what it may show.
THEOREM SearchInvariant == SearchSpec => []SearchInv
<1>1. SearchInit => SearchInv
  BY InitSearchInv
<1>2. SearchInv /\ [SearchNext]_searchVars => SearchInv'
  <2> SUFFICES ASSUME SearchInv, [SearchNext]_searchVars PROVE SearchInv'
    OBVIOUS
  <2>1. CASE SearchController
    <3>1. "mine" \in {"mine", "theirs"} /\ "theirs" \in {"mine", "theirs"}
      OBVIOUS
    <3> QED BY <2>1, <3>1, NoTermsKeeps, AskPageKeeps, MatchIdsKeeps, CountByTypeKeeps,
               ShowNothingKeeps, AskBlocksKeeps, ReadBlocksKeeps, HydratePageKeeps
        DEF SearchController
  <2>2. CASE \/ \E r \in Hits : IndexRow(r) \/ Deindex(r) \/ DropHit(r)
             \/ \E h \in Hosts : BlockHost(h) \/ UnblockHost(h) \/ BlockedByUser(h)
    BY <2>2, ChangesKeep
  <2>3. CASE UNCHANGED searchVars
    <3>1. UNCHANGED <<sought, indexed, score, extant, mine, theirs, search, found, turns, calm, shunned>>
      BY <2>3 DEF searchVars, searchedVars
    <3>2. \A r : /\ Above(r)' = Above(r) /\ Visible(r)' = Visible(r)
                 /\ Untied(r)' = Untied(r) /\ Host(r)' = Host(r)
      BY <3>1 DEF Above, Visible, Untied, Host
    <3>3. \A r, k : Falls(r, k)' = Falls(r, k)
      BY <3>2 DEF Falls
    <3>4. Hosts' = Hosts
      BY <3>1 DEF Hosts, Host
    <3>5. SearchTypeOK'
      BY <3>1, <3>4 DEF SearchInv, SearchTypeOK
    <3>6. Progress' /\ Fits'
      BY <3>1 DEF SearchInv, Progress, Fits, PagesFit
    <3>7. Avoided'
      BY <3>1, <3>2 DEF SearchInv, Avoided, BlocksRespected
    <3>8. Undisturbed'
      BY <3>1, <3>2, <3>3 DEF SearchInv, Undisturbed, IdsRead, TotalRead, Answered
    <3> QED BY <3>5, <3>6, <3>7, <3>8 DEF SearchInv
  <2> QED BY <2>1, <2>2, <2>3 DEF SearchNext
<1> QED BY <1>1, <1>2, PTL DEF SearchSpec

LEMMA Quotient ==
  ASSUME NEW a \in Nat, NEW d \in Nat \ {0}
  PROVE  \E q \in Nat : q * d <= a /\ a < q * d + d
<1> DEFINE q == a \div d
<1>1. q \in Nat /\ a < q * d + d
  OBVIOUS
<1>2. q * d <= a
  OBVIOUS
<1> QED BY <1>1, <1>2

LEMMA NextMultiple ==
  ASSUME NEW q \in Nat, NEW d \in Nat
  PROVE  (q + 1) * d = q * d + d
OBVIOUS

\* A number below n times d is in one of the first n spans of d.
LEMMA OneSpan ==
  ASSUME NEW a \in Nat, NEW d \in Nat \ {0}, NEW n \in Nat, a < n * d
  PROVE  \A S : (\A i : i \in S <=> i \in 1..n /\ (i - 1) * d <= a /\ a < i * d) => Cardinality(S) = 1
<1>1. PICK q \in Nat : q * d <= a /\ a < q * d + d
  BY Quotient
<1>2. (q + 1 - 1) * d <= a /\ a < (q + 1) * d
  <2>1. (q + 1) * d = q * d + d
    BY NextMultiple
  <2>2. q + 1 - 1 = q
    BY <1>1
  <2> QED BY <1>1, <2>1, <2>2
<1>3. \A i, j \in Nat : i <= j => i * d <= j * d
  OBVIOUS
<1>4. \A i \in Nat : i * d \in Nat
  OBVIOUS
<1>5. q + 1 \in 1..n
  <2>1. CASE q >= n
    <3>1. n * d <= q * d /\ n * d \in Nat /\ q * d \in Nat
      BY <1>1, <1>3, <1>4, <2>1
    <3>2. q * d <= a /\ a < n * d
      BY <1>1, <3>1
    <3> DEFINE u == q * d
               v == n * d
    <3>3. u \in Nat /\ v \in Nat /\ v <= u /\ u <= a /\ a < v
      BY <3>1, <3>2
    <3> HIDE DEF u, v
    <3>4. FALSE
      BY <3>3
    <3> QED BY <3>4
  <2>2. CASE ~(q >= n)
    BY <1>1, <2>2
  <2> QED BY <2>1, <2>2
<1>6. ASSUME NEW i \in 1..n, NEW j \in 1..n, i < j, a < i * d, (j - 1) * d <= a PROVE FALSE
  <2>1. PICK k \in Nat : k = j - 1 /\ i <= k /\ i \in Nat
    BY <1>6
  <2>2. i * d <= k * d /\ i * d \in Nat /\ k * d \in Nat /\ k * d <= a
    BY <1>3, <1>4, <1>6, <2>1
  <2> DEFINE u == i * d
             v == k * d
  <2>3. u \in Nat /\ v \in Nat /\ u <= v /\ v <= a /\ a < u
    BY <1>6, <2>2
  <2> HIDE DEF u, v
  <2> QED BY <2>3
<1> SUFFICES ASSUME NEW S, \A i : i \in S <=> i \in 1..n /\ (i - 1) * d <= a /\ a < i * d
             PROVE  Cardinality(S) = 1
  OBVIOUS
<1>7. q + 1 \in S
  BY <1>2, <1>5
<1>8. ASSUME NEW i \in S PROVE i = q + 1
  <2>1. i \in 1..n /\ (i - 1) * d <= a /\ a < i * d /\ i \in Int
    BY <1>8
  <2>2. i < q + 1 \/ q + 1 < i \/ i = q + 1
    BY <1>1, <2>1
  <2> QED BY <1>2, <1>5, <1>6, <2>1, <2>2
<1>9. S = {q + 1}
  BY <1>7, <1>8
<1> QED BY <1>9, FS_Singleton

\* Whoever is blocked, dropped or reindexed while a search runs, it shows no blocked
\* row and none twice on a page; if nothing changes, each untied row exactly once.
THEOREM SearchIsExplained == SearchSpec => []SearchExplained
<1>1. SearchInv => SearchExplained
  <2> SUFFICES ASSUME SearchInv PROVE SearchExplained
    OBVIOUS
  <2>0. SearchTypeOK /\ Progress /\ Avoided /\ Fits /\ Undisturbed
    BY DEF SearchInv
  <2>1. BlocksRespected /\ PagesFit
    BY <2>0 DEF Avoided, Fits
  <2>2. UntiedShownOnce
    <3> SUFFICES ASSUME search.pc = "done", calm, Answered,
                        NEW r \in indexed, Untied(r), Visible(r)
                 PROVE  Times(r) = IF sought.form = "byType" \/ Cardinality(Above(r)) < PerPage
                                   THEN 1 ELSE 0
      BY DEF UntiedShownOnce, Answered
    <3> DEFINE a == Cardinality(Above(r))
               n == search.page
               S == {i \in DOMAIN found : r \in ToSet(found[i])}
    <3>1. /\ n \in Nat \ {0} /\ PerPage \in Nat \ {0} /\ Len(found) = n /\ DOMAIN found = 1..n
          /\ Cardinality(indexed) \in Nat /\ IsFiniteSet(indexed) /\ indexed \in SUBSET Hits
      BY <2>0, SearchFacts DEF Progress
    <3>2. \A i : i \in S <=> i \in 1..n /\ Falls(r, i)
      BY <2>0, <3>1 DEF Undisturbed
    <3>3. a \in Nat /\ a < Cardinality(indexed)
      <4>1. /\ score \in [Hits -> 1..MaxScore] /\ r \notin Above(r) /\ Above(r) \in SUBSET indexed
        <5>1. score \in [Hits -> 1..MaxScore]
          BY <2>0 DEF SearchTypeOK
        <5>2. score[r] \in Int
          BY <3>1, <5>1, SearchAssumption
        <5> QED BY <5>1, <5>2 DEF Above
      <4>2. IsFiniteSet(Above(r)) /\ a <= Cardinality(indexed) /\ a # Cardinality(indexed)
        BY <3>1, <4>1, FS_Subset
      <4>3. a \in Nat
        BY <4>2, FS_CardinalityType
      <4> QED BY <3>1, <4>2, <4>3
    <3>4. \A i : Falls(r, i) <=> (i - 1) * PerPage <= a /\ a < i * PerPage
      BY DEF Falls
    <3>5. Times(r) = Cardinality(S)
      BY DEF Times
    <3> HIDE DEF a, S
    <3>6. CASE a < n * PerPage
      <4>1. \A i : i \in S <=> i \in 1..n /\ (i - 1) * PerPage <= a /\ a < i * PerPage
        BY <3>2, <3>4
      <4>2. Cardinality(S) = 1
        BY <3>1, <3>3, <3>6, <4>1, OneSpan
      <4>3. sought.form = "byType" \/ a < PerPage
        <5>1. CASE sought.form = "byType"
          BY <5>1
        <5>2. CASE sought.form = "all"
          <6>1. n = 1 /\ 1 * PerPage = PerPage
            BY <2>0, <3>1, <5>2 DEF Progress
          <6> QED BY <3>6, <6>1
        <5> QED BY <2>0, <5>1, <5>2 DEF SearchTypeOK
      <4> QED BY <3>5, <4>2, <4>3 DEF a
    <3>7. CASE ~(a < n * PerPage)
      <4>1. sought.form # "byType"
        <5> SUFFICES ASSUME sought.form = "byType" PROVE FALSE
          OBVIOUS
        <5>1. n * PerPage >= Cardinality(indexed)
          BY <2>0 DEF Undisturbed
        <5>2. PICK v \in Nat : v = n * PerPage
          BY <3>1
        <5> QED BY <3>1, <3>3, <3>7, <5>1, <5>2
      <4>2. n = 1 /\ 1 * PerPage = PerPage
        BY <2>0, <3>1, <4>1 DEF Progress, SearchTypeOK
      <4>3. ~(a < PerPage)
        BY <3>7, <4>2
      <4>4. S = {}
        <5> SUFFICES ASSUME NEW i \in S PROVE FALSE
          OBVIOUS
        <5>1. i = 1 /\ a < i * PerPage
          BY <3>2, <3>4, <4>2
        <5> QED BY <4>2, <4>3, <5>1
      <4> QED BY <3>5, <4>1, <4>3, <4>4, FS_EmptySet DEF a
    <3> QED BY <3>6, <3>7
  <2> QED BY <2>1, <2>2 DEF SearchExplained
<1> QED BY <1>1, SearchInvariant, PTL
=============================================================================
