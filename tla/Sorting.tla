------------------------------- MODULE Sorting -------------------------------
(***************************************************************************)
(* Orders of a listing (internal/engine/sortlimit.go): SortEntries for     *)
(* aifr_list, SortFindEntries for aifr_find.  A text that is only compared *)
(* is its rank.  A name is also the sequence of its version segments: a    *)
(* text, or digits with their value.                                       *)
(***************************************************************************)
EXTENDS Integers, Sequences, FiniteSets, SequencesExt

CONSTANTS
  SortCalls,
  maxNumber   \* the largest value ParseInt takes

Text(rank) == [digits |-> FALSE, value |-> 0, rank |-> rank]
Digits(value, rank) == [digits |-> TRUE, value |-> value, rank |-> rank]
ListEntry(path, name, version, size, mtime) ==
  [path |-> path, name |-> name, version |-> version, size |-> size, mtime |-> mtime]

NameSegments == [digits : BOOLEAN, value : Nat, rank : Int]
ListedFiles == [path : Int, name : Int, version : Seq(NameSegments), size : Int, mtime : Int]

\* versionSegments: a segment is what its text says, and no other segment than
\* one of digits begins with a digit.
SegmentsOf(c) == UNION {ToSet(c.entries[n].version) : n \in DOMAIN c.entries}
OfTexts(segments) ==
  /\ \A x, y \in segments : x.rank = y.rank => x = y
  /\ \A t, x, y \in segments : ~t.digits /\ x.digits /\ y.digits => (t.rank < x.rank <=> t.rank < y.rank)

SortOrders == {"", "name", "path", "size", "mtime", "version"}
ASSUME SortCallsAssumption ==
  /\ maxNumber \in Nat
  /\ \A c \in SortCalls :
       /\ c.order \in SortOrders /\ c.descending \in BOOLEAN /\ c.of \in {"list", "find"}
       /\ c.entries \in Seq(ListedFiles) /\ OfTexts(SegmentsOf(c))

-----------------------------------------------------------------------------
Compare64(a, b) == IF a < b THEN -1 ELSE IF a > b THEN 1 ELSE 0

ParsesAsInt(segment) == segment.digits /\ segment.value <= maxNumber

CompareSegments(a, b) ==
  IF ParsesAsInt(a) /\ ParsesAsInt(b) THEN Compare64(a.value, b.value) ELSE Compare64(a.rank, b.rank)

\* compareVersions: the first segments that differ decide, then the number of them.
CompareVersions(a, b) ==
  LET differ == {n \in 1..(IF Len(a) < Len(b) THEN Len(a) ELSE Len(b)) : CompareSegments(a[n], b[n]) # 0}
  IN IF differ = {} THEN Compare64(Len(a), Len(b))
     ELSE LET n == CHOOSE n \in differ : \A m \in differ : n <= m IN CompareSegments(a[n], b[n])

\* SortFindEntries has no case for mtime: that is an order by path.
CompareListed(c, a, b) ==
  CASE c.order = "name" -> Compare64(a.name, b.name)
    [] c.order = "size" -> Compare64(a.size, b.size)
    [] c.order = "version" -> CompareVersions(a.version, b.version)
    [] c.order = "mtime" /\ c.of = "list" -> Compare64(a.mtime, b.mtime)
    [] OTHER -> Compare64(a.path, b.path)

\* slices.SortStableFunc on a short slice: each entry moves back while it is
\* less.  What it does with a long one ends the same: a weak order has one stable result.
Placed(c, sorted, entry) ==
  LET less(n) == (IF c.descending THEN -1 ELSE 1) * CompareListed(c, entry, sorted[n]) < 0
      stay == {n \in DOMAIN sorted : ~less(n)}
      at == CHOOSE n \in stay \cup {0} : \A m \in stay : m <= n
  IN SubSeq(sorted, 1, at) \o <<entry>> \o SubSeq(sorted, at + 1, Len(sorted))

\* One entry after another is taken up.
StablySorted(c) ==
  LET sorted[n \in 0..Len(c.entries)] == IF n = 0 THEN <<>> ELSE Placed(c, sorted[n - 1], c.entries[n])
  IN sorted[Len(c.entries)]

\* Mutant: a descending order is an ascending one turned round.
SortEntriesReversed(c) ==
  LET up == StablySorted([c EXCEPT !.descending = FALSE])
  IN IF c.order = "" THEN c.entries ELSE IF c.descending THEN Reverse(up) ELSE up

\* SortEntries and SortFindEntries.
SortEntries(c) == IF c.order = "" \/ Len(c.entries) < 2 THEN c.entries ELSE StablySorted(c)

-----------------------------------------------------------------------------
\* An order that needs no comparison of pairs: what an entry is sorted by.
Numeric(a, b, n) == a[n].digits /\ b[n].digits
SameUpTo(a, b, n) == \A m \in 1..n : a[m].rank = b[m].rank \/ (Numeric(a, b, m) /\ a[m].value = b[m].value)
VersionBefore(a, b) ==
  \/ Len(a) < Len(b) /\ SameUpTo(a, b, Len(a))
  \/ \E n \in DOMAIN a \cap DOMAIN b :
       /\ SameUpTo(a, b, n - 1) /\ ~SameUpTo(a, b, n)
       /\ IF Numeric(a, b, n) THEN a[n].value < b[n].value ELSE a[n].rank < b[n].rank
Before(c, a, b) ==
  CASE c.order = "name" -> a.name < b.name
    [] c.order = "size" -> a.size < b.size
    [] c.order = "version" -> VersionBefore(a.version, b.version)
    [] c.order = "mtime" /\ c.of = "list" -> a.mtime < b.mtime
    [] OTHER -> a.path < b.path

WithinNumbers(c) ==
  c.order = "version" =>
    \A n \in DOMAIN c.entries : \A k \in DOMAIN c.entries[n].version : c.entries[n].version[k].value <= maxNumber

\* A sorted listing, up or down, has every entry as often as the listing found
\* it, none before one it should follow, and entries that compare equal as they
\* were found, which is what makes a page offset mean the same entry on every
\* call (SortEntries, SortFindEntries, compareVersions); numbers that do not
\* fit an int64 are left out.
SortedAndWhole(c, sorted) ==
  c.order # "" /\ WithinNumbers(c) =>
    \E p \in [DOMAIN sorted -> DOMAIN c.entries] :
      /\ Len(sorted) = Len(c.entries) /\ \A m, n \in DOMAIN sorted : m # n => p[m] # p[n]
      /\ \A n \in DOMAIN sorted : sorted[n] = c.entries[p[n]]
      /\ \A m, n \in DOMAIN sorted : m < n =>
           LET a == sorted[m]
               b == sorted[n]
           IN /\ ~(IF c.descending THEN Before(c, a, b) ELSE Before(c, b, a))
              /\ ~Before(c, a, b) /\ ~Before(c, b, a) => p[m] < p[n]
=============================================================================
