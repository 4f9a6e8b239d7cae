------------------------- MODULE PagedTools_proofs -------------------------
(***************************************************************************)
(* Theorems about PagedTools, for any number of names, every set of tools, *)
(* limits and access rules, and any number of edits and reloads.           *)
(***************************************************************************)
EXTENDS PagedTools, SequenceTheorems, FiniteSetTheorems, TLAPS

Facts == INSTANCE SequenceFacts

-----------------------------------------------------------------------------
\* Ranks in a finite set of names.

LEMMA NamesAreFinite ==
  ASSUME NEW S \in SUBSET Names
  PROVE  /\ IsFiniteSet(S) /\ Cardinality(S) \in Nat
         /\ \A T \in SUBSET S :
              IsFiniteSet(T) /\ Cardinality(T) \in Nat /\ Cardinality(T) <= Cardinality(S)
         /\ \A T \in SUBSET S : Cardinality(T) = Cardinality(S) => T = S
<1>1. IsFiniteSet(Names)
  BY NamesAssumption, FS_Interval DEF Names
<1>2. IsFiniteSet(S)
  BY <1>1, FS_Subset
<1>3. Cardinality(S) \in Nat
  BY <1>2, FS_CardinalityType
<1>4. ASSUME NEW T \in SUBSET S
      PROVE  /\ IsFiniteSet(T) /\ Cardinality(T) \in Nat /\ Cardinality(T) <= Cardinality(S)
             /\ Cardinality(T) = Cardinality(S) => T = S
  <2>1. IsFiniteSet(T) /\ Cardinality(T) <= Cardinality(S) /\ (Cardinality(S) = Cardinality(T) => S = T)
    BY <1>2, FS_Subset
  <2>2. Cardinality(T) \in Nat
    BY <2>1, FS_CardinalityType
  <2>3. QED BY <2>1, <2>2
<1>5. QED BY <1>2, <1>3, <1>4

LEMMA NamesAreNumbers == \A e \in Names : e \in Nat /\ e \in Int /\ e <= MaxName
BY NamesAssumption DEF Names

Below(S, e) == {d \in S : d < e}

LEMMA RankIsBelow == \A S, e : Rank(S, e) = Cardinality(Below(S, e))
BY DEF Rank, Below

LEMMA RankType ==
  ASSUME NEW S \in SUBSET Names, NEW e
  PROVE  /\ Rank(S, e) \in Nat /\ Rank(S, e) <= Cardinality(S)
         /\ e \in S => Rank(S, e) < Cardinality(S)
<1>1. Below(S, e) \in SUBSET S
  BY DEF Below
<1>2. Rank(S, e) \in Nat /\ Rank(S, e) <= Cardinality(S)
  BY <1>1, NamesAreFinite, RankIsBelow
<1>3. ASSUME e \in S PROVE Below(S, e) # S
  BY <1>3, NamesAssumption DEF Below, Names
<1>4. e \in S => Rank(S, e) # Cardinality(S)
  BY <1>1, <1>3, NamesAreFinite, RankIsBelow
<1>5. QED BY <1>2, <1>4, NamesAreFinite

\* More names below, or a larger name: a rank that is no smaller.
LEMMA RankMonotone ==
  ASSUME NEW S \in SUBSET Names, NEW T \in SUBSET S, NEW d \in Names, NEW e \in Names, d <= e
  PROVE  Rank(T, d) <= Rank(S, e)
<1>1. \A x \in T : x \in S /\ (x < d => x < e)
  BY NamesAreNumbers
<1>2. Below(T, d) \in SUBSET Below(S, e) /\ Below(S, e) \in SUBSET Names
  BY <1>1 DEF Below
<1>3. QED BY <1>2, NamesAreFinite, RankIsBelow

LEMMA RankIncreases ==
  ASSUME NEW S \in SUBSET Names, NEW d \in S, NEW e \in Names, d < e
  PROVE  Rank(S, d) < Rank(S, e)
<1>1. Below(S, d) \in SUBSET Below(S, e) /\ Below(S, e) \in SUBSET Names
  <2>1. \A x \in S : x < d => x < e
    BY NamesAreNumbers
  <2>2. QED BY <2>1 DEF Below
<1>2. d \in Below(S, e) /\ d \notin Below(S, d)
  BY NamesAreNumbers DEF Below
<1>3. /\ Cardinality(Below(S, d)) \in Nat /\ Cardinality(Below(S, e)) \in Nat
      /\ Cardinality(Below(S, d)) <= Cardinality(Below(S, e))
      /\ Cardinality(Below(S, d)) # Cardinality(Below(S, e))
  BY <1>1, <1>2, NamesAreFinite
<1>4. QED BY <1>3, RankIsBelow

LEMMA RankOrders ==
  ASSUME NEW S \in SUBSET Names, NEW d \in Names, NEW e \in Names, Rank(S, d) < Rank(S, e)
  PROVE  d < e
<1>1. CASE e <= d
  <2>1. Rank(S, e) <= Rank(S, d)
    BY <1>1, RankMonotone
  <2>2. QED BY <2>1, RankType
<1>2. QED BY <1>1 DEF Names

-----------------------------------------------------------------------------
\* The first n names of a set, and the rest of them.

LEMMA TakeCount ==
  ASSUME NEW S \in SUBSET Names, NEW n \in Nat
  PROVE  /\ Take(S, n) \in SUBSET S
         /\ Cardinality(Take(S, n)) \in Nat /\ Cardinality(Take(S, n)) <= n
         /\ Take(S, n) = S \/ Cardinality(Take(S, n)) = n
<1> DEFINE T == Take(S, n)
<1>1. T \in SUBSET S /\ T \in SUBSET Names /\ \A e \in S : e \in T <=> Rank(S, e) < n
  BY DEF Take
<1>2. \A e \in S : e \in Nat /\ e <= MaxName
  BY NamesAssumption DEF Names
<1> HIDE DEF T
<1>3. Cardinality(T) \in Nat /\ IsFiniteSet(T)
  BY <1>1, NamesAreFinite
<1>4. Cardinality(T) <= n
  <2>1. CASE T = {}
    <3>1. Cardinality(T) = 0
      BY <1>3, <2>1, FS_EmptySet
    <3>2. QED BY <3>1
  <2>2. CASE T # {}
    <3>1. PICK m \in T : \A j \in T : j <= m
      BY <1>1, <1>2, <2>2, NamesAssumption, Facts!LargestOfNat
    <3>2. Below(S, m) \in SUBSET Names /\ IsFiniteSet(Below(S, m))
      <4>1. Below(S, m) \in SUBSET Names
        BY DEF Below
      <4>2. QED BY <4>1, NamesAreFinite
    <3>3. /\ IsFiniteSet(Below(S, m) \cup {m})
          /\ Cardinality(Below(S, m) \cup {m}) =
               IF m \in Below(S, m) THEN Cardinality(Below(S, m)) ELSE Cardinality(Below(S, m)) + 1
      BY <3>2, FS_AddElement
    <3>4. m \notin Below(S, m) /\ T \in SUBSET (Below(S, m) \cup {m})
      BY <1>1, <1>2, <3>1 DEF Below
    <3>5. Cardinality(T) <= Rank(S, m) + 1
      BY <3>3, <3>4, FS_Subset, RankIsBelow
    <3>6. Rank(S, m) < n /\ Rank(S, m) \in Nat
      BY <1>1, RankType
    <3>7. QED BY <1>3, <3>5, <3>6
  <2>3. QED BY <2>1, <2>2
<1>5. ASSUME T # S PROVE n <= Cardinality(T)
  <2> DEFINE R == S \ T
  <2>1. R # {} /\ \A i \in R : i \in Nat
    BY <1>1, <1>2, <1>5
  <2>2. PICK e \in R : \A j \in R : e <= j
    <3> HIDE DEF R
    <3> QED BY <2>1, Facts!SmallestOfNat
  <2>3. Below(S, e) \in SUBSET T
    BY <1>2, <2>2 DEF Below
  <2>4. n <= Rank(S, e)
    BY <1>1, <2>2, RankType
  <2>5. Rank(S, e) <= Cardinality(T) /\ Rank(S, e) \in Nat
    BY <1>1, <2>3, NamesAreFinite, RankIsBelow
  <2>6. QED BY <1>3, <2>4, <2>5
<1>6. T = S \/ Cardinality(T) = n
  BY <1>3, <1>4, <1>5
<1>7. QED BY <1>1, <1>3, <1>4, <1>6 DEF T

\* A name behind the first o is ranked o higher than among those behind them.
LEMMA DropRank ==
  ASSUME NEW S \in SUBSET Names, NEW o \in Nat, NEW e \in Drop(S, o)
  PROVE  /\ Drop(S, o) \in SUBSET S /\ e \in Names
         /\ Rank(S, e) = o + Rank(Drop(S, o), e)
<1> DEFINE T == Take(S, o)
           D == Drop(S, o)
           B == Below(D, e)
<1>1. D \in SUBSET S /\ T \in SUBSET S /\ e \in S /\ e \in Names
  BY DEF Drop, Take
<1>2. Rank(S, e) \in Nat /\ Rank(S, e) >= o
  BY RankType DEF Drop
<1>3. e \notin T
  BY <1>2 DEF Take
<1>4. \A d \in S : (d \in T <=> Rank(S, d) < o) /\ (d \in D <=> Rank(S, d) >= o) /\ Rank(S, d) \in Nat
  BY RankType DEF Take, Drop
<1> HIDE DEF T, D
<1>5. \A d \in T : d < e
  BY <1>1, <1>2, <1>4, RankOrders
<1>6. Below(S, e) = T \cup B
  BY <1>1, <1>4, <1>5 DEF Below
<1>7. T \cap B = {}
  BY <1>1, <1>4 DEF Below
<1>8. B \in SUBSET Names /\ T \in SUBSET Names
  BY <1>1 DEF Below
<1> HIDE DEF B
<1>9. /\ IsFiniteSet(B) /\ IsFiniteSet(T)
      /\ Cardinality(T) \in Nat /\ Cardinality(B) \in Nat /\ Cardinality({}) = 0
  BY <1>8, NamesAreFinite, FS_EmptySet
<1>10. Cardinality(T \cup B) = Cardinality(T) + Cardinality(B) - Cardinality(T \cap B)
  BY <1>9, FS_Union
<1>11. Cardinality(T \cap B) = 0
  BY <1>7, <1>9, Zenon
<1>12. Cardinality(Below(S, e)) = Cardinality(T \cup B)
  BY <1>6, Zenon
<1>13. Cardinality(T) = o
  BY <1>1, <1>3, TakeCount DEF T
<1>14. Rank(S, e) = o + Cardinality(B)
  BY <1>9, <1>10, <1>11, <1>12, <1>13, RankIsBelow
<1>15. QED BY <1>1, <1>14, RankIsBelow DEF B, D


\* The names of S that rank from o on, c of them at most: what a page holds.
Window(S, o, c) == {e \in S : o <= Rank(S, e) /\ Rank(S, e) < o + c}

LEMMA WindowIsTaken ==
  ASSUME NEW S \in SUBSET Names, NEW o \in Nat, NEW c \in Nat
  PROVE  /\ Take(Drop(S, o), c) = Window(S, o, c)
         /\ Take(Drop(Take(S, o + c), o), c) = Window(S, o, c)
         /\ Drop(S, o) = Window(S, o, Cardinality(S))
<1>1. \A e \in S : e \in Names /\ Rank(S, e) \in Nat /\ Rank(S, e) < Cardinality(S)
  BY RankType
<1>2. Take(Drop(S, o), c) = Window(S, o, c)
  <2>1. ASSUME NEW e \in Drop(S, o) PROVE Rank(Drop(S, o), e) < c <=> Rank(S, e) < o + c
    <3>1. Drop(S, o) \in SUBSET Names
      BY DEF Drop
    <3>2. Rank(S, e) = o + Rank(Drop(S, o), e) /\ Rank(Drop(S, o), e) \in Nat
      BY <3>1, DropRank, RankType
    <3>3. QED BY <3>2
  <2>2. \A e \in S : e \in Drop(S, o) <=> o <= Rank(S, e)
    BY <1>1 DEF Drop
  <2>3. Drop(S, o) \in SUBSET S
    BY DEF Drop
  <2>4. QED BY <2>1, <2>2, <2>3 DEF Take, Window
<1>3. Take(Drop(Take(S, o + c), o), c) = Window(S, o, c)
  <2> DEFINE P == Take(S, o + c)
             W == Drop(P, o)
  <2>1. P \in SUBSET S /\ P \in SUBSET Names /\ \A e \in S : e \in P <=> Rank(S, e) < o + c
    BY DEF Take
  <2> HIDE DEF P
  <2>2. ASSUME NEW e \in P PROVE Rank(P, e) = Rank(S, e)
    <3>1. \A d \in S : d < e => Rank(S, d) < Rank(S, e)
      BY <2>1, RankIncreases
    <3>2. Below(P, e) = Below(S, e)
      BY <1>1, <2>1, <2>2, <3>1 DEF Below
    <3>3. Cardinality(Below(P, e)) = Cardinality(Below(S, e))
      BY <3>2, Zenon
    <3>4. QED BY <3>3, RankIsBelow
  <2>3. W \in SUBSET P /\ W \in SUBSET Names /\ \A e \in P : e \in W <=> o <= Rank(S, e)
    BY <1>1, <2>1, <2>2 DEF Drop
  <2>4. ASSUME NEW e \in W PROVE Rank(W, e) < c
    <3>1. Rank(P, e) = o + Rank(W, e) /\ Rank(W, e) \in Nat
      BY <2>1, <2>3, DropRank, RankType
    <3>2. Rank(P, e) = Rank(S, e) /\ Rank(S, e) < o + c
      BY <2>1, <2>2, <2>3
    <3>3. QED BY <3>1, <3>2
  <2> HIDE DEF W
  <2>5. Take(W, c) = W
    BY <2>4 DEF Take
  <2>6. W = Window(S, o, c)
    BY <2>1, <2>3 DEF Window
  <2>7. QED BY <2>5, <2>6 DEF W, P
<1>4. Drop(S, o) = Window(S, o, Cardinality(S))
  <2>1. Cardinality(S) \in Nat
    BY NamesAreFinite
  <2>2. \A e \in S : Rank(S, e) < o + Cardinality(S) /\ (o <= Rank(S, e) <=> Rank(S, e) >= o)
    BY <1>1, <2>1
  <2>3. QED BY <2>2 DEF Drop, Window
<1>5. QED BY <1>2, <1>3, <1>4

\* A window holds the ranks from o up to o and its size; it is only smaller than it may be
\* when it is the end of S.
LEMMA WindowRanks ==
  ASSUME NEW S \in SUBSET Names, NEW o \in Nat, NEW c \in Nat
  PROVE  LET W == Window(S, o, c)
         IN /\ W \in SUBSET S /\ Cardinality(W) \in Nat /\ Cardinality(S) \in Nat
            /\ \A e \in S : Rank(S, e) \in Nat
            /\ \A e \in W : o <= Rank(S, e) /\ Rank(S, e) < o + Cardinality(W)
            /\ \A e \in S \ W :
                 \/ Rank(S, e) < o
                 \/ o + Cardinality(W) <= Rank(S, e) /\ o + Cardinality(W) < Cardinality(S)
<1> DEFINE D == Drop(S, o)
           W == Window(S, o, c)
<1>1. /\ D \in SUBSET S /\ D \in SUBSET Names /\ W = Take(D, c)
      /\ \A e \in S : e \in D <=> Rank(S, e) >= o
  BY WindowIsTaken DEF Drop
<1>2. \A e \in S : e \in W <=> (o <= Rank(S, e) /\ Rank(S, e) < o + c)
  BY DEF Window
<1>3. W \in SUBSET S
  BY DEF Window
<1>4. \A e \in D : Rank(S, e) = o + Rank(D, e)
  BY DropRank
<1> HIDE DEF D, W
<1>5. \A e \in S : e \in Names /\ Rank(S, e) \in Nat /\ Rank(S, e) < Cardinality(S)
  BY RankType
<1>6. \A e \in D : Rank(D, e) \in Nat /\ Rank(D, e) < Cardinality(D)
  BY <1>1, RankType
<1>7. Cardinality(W) \in Nat /\ Cardinality(S) \in Nat
  BY <1>3, NamesAreFinite
<1>8. W = D \/ Cardinality(W) = c
  BY <1>1, TakeCount
<1>9. ASSUME NEW e \in W PROVE o <= Rank(S, e) /\ Rank(S, e) < o + Cardinality(W)
  <2>1. e \in D /\ o <= Rank(S, e) /\ Rank(S, e) < o + c
    BY <1>1, <1>2, <1>3, <1>5
  <2>2. CASE W = D
    <3>1. Cardinality(W) = Cardinality(D)
      BY <2>2, Zenon
    <3>2. QED BY <1>4, <1>6, <1>7, <2>1, <3>1
  <2>3. CASE Cardinality(W) = c
    BY <2>1, <2>3
  <2>4. QED BY <1>8, <2>2, <2>3
<1>10. ASSUME NEW e \in S \ W, ~(Rank(S, e) < o)
       PROVE  o + Cardinality(W) <= Rank(S, e) /\ o + Cardinality(W) < Cardinality(S)
  <2>1. e \in D /\ e \notin W
    BY <1>1, <1>5, <1>10
  <2>2. Cardinality(W) = c
    BY <1>8, <2>1
  <2>3. Rank(S, e) >= o + c
    BY <1>2, <1>5, <1>10, <2>1
  <2>4. QED BY <1>5, <1>7, <2>2, <2>3
<1>11. QED BY <1>3, <1>5, <1>7, <1>9, <1>10 DEF W

-----------------------------------------------------------------------------
\* The pages.

OffsetTools == {"list", "find", "reflog", "stash_list"}

LEMMA CountType == \A l \in Nat : CountOf(l) \in Nat \ {0}
BY ArgumentsAssumption DEF CountOf

\* The tools whose token carries an offset cut windows.
LEMMA OffsetPages ==
  ASSUME NEW S \in SUBSET Names, NEW r \in Requests, r.tool \in OffsetTools
  PROVE  LET page == PageOf(S, r)
         IN /\ \E c \in Nat : page.entries = Window(S, r.offset, c)
            /\ page.complete = (r.offset + Cardinality(page.entries) >= Cardinality(S))
            /\ page.offset = r.offset + Cardinality(page.entries)
            /\ page.hash = 0 /\ page.limit \in Nat
<1>1. r.limit \in Nat /\ r.offset \in Nat /\ CountOf(r.limit) \in Nat \ {0} /\ Cardinality(S) \in Nat
  BY CountType, NamesAreFinite DEF Requests
<1> DEFINE Cut(page) ==
             /\ \E c \in Nat : page.entries = Window(S, r.offset, c)
             /\ page.complete = (r.offset + Cardinality(page.entries) >= Cardinality(S))
             /\ page.offset = r.offset + Cardinality(page.entries)
             /\ page.hash = 0 /\ page.limit \in Nat
<1>2. ASSUME NEW c \in Nat, NEW l \in Nat
      PROVE  Cut(OffsetPage(S, r.offset, Window(S, r.offset, c), l))
  BY <1>2 DEF OffsetPage, NextOffset
<1>3. CASE r.tool \in {"list", "find"}
  <2>1. PageOf(S, r) = ListPage(S, r) \/ PageOf(S, r) = FindPage(S, r)
    BY <1>3 DEF PageOf
  <2>2. ListPage(S, r) = FindPage(S, r)
    BY DEF ListPage, FindPage
  <2>3. \E c \in Nat : ListPage(S, r) = OffsetPage(S, r.offset, Window(S, r.offset, c), r.limit)
    <3>1. CASE r.limit > 0
      BY <1>1, <3>1, WindowIsTaken DEF ListPage
    <3>2. CASE ~(r.limit > 0)
      BY <1>1, <3>2, WindowIsTaken DEF ListPage
    <3>3. QED BY <3>1, <3>2
  <2> HIDE DEF Cut
  <2>4. Cut(PageOf(S, r))
    BY <1>1, <1>2, <2>1, <2>2, <2>3
  <2>5. QED BY <2>4 DEF Cut
<1>4. CASE r.tool \in {"reflog", "stash_list"}
  <2>1. PageOf(S, r) = ReflogPage(S, r) \/ PageOf(S, r) = StashPage(S, r)
    BY <1>4 DEF PageOf
  <2>2. ReflogPage(S, r) = StashPage(S, r)
    BY DEF ReflogPage, StashPage
  <2>3. ReflogPage(S, r) =
          OffsetPage(S, r.offset, Window(S, r.offset, CountOf(r.limit)), CountOf(r.limit))
    BY <1>1, WindowIsTaken DEF ReflogPage, ParseReflogFile
  <2> HIDE DEF Cut
  <2>4. Cut(PageOf(S, r))
    BY <1>1, <1>2, <2>1, <2>2, <2>3
  <2>5. QED BY <2>4 DEF Cut
<1>5. QED BY <1>3, <1>4 DEF OffsetTools

LEMMA AfterHashNames ==
  ASSUME NEW S \in SUBSET Names, NEW h \in Nat, NEW k \in Nat
  PROVE  LET kept == Drop(AfterHash(S, h), k)
         IN kept \in SUBSET S /\ kept \in SUBSET Names /\ (h \in S => \A e \in kept : e > h)
BY DEF AfterHash, Drop

\* Engine.Log delivers the first of the commits behind the token's; only with its last one.
LEMMA LogPages ==
  ASSUME NEW S \in SUBSET Names, NEW r \in Requests, r.tool = "log"
  PROVE  LET page == PageOf(S, r)
             kept == Drop(AfterHash(S, r.hash), r.skip)
         IN /\ page.entries \in SUBSET kept
            /\ page.complete \in BOOLEAN
            /\ page.complete => page.entries = kept
            /\ ~page.complete => /\ page.hash \in page.entries
                                 /\ \A e \in page.entries : e <= page.hash
                                 /\ \A e \in kept \ page.entries : page.hash < e
            /\ page.hash \in Nat /\ page.offset = 0 /\ page.limit \in Nat
<1> DEFINE page == PageOf(S, r)
           kept == Drop(AfterHash(S, r.hash), r.skip)
           count == CountOf(r.limit)
           entries == Take(kept, count)
<1>1. /\ r.hash \in Nat /\ r.skip \in Nat /\ count \in Nat \ {0} /\ count \in Nat
  BY CountType DEF Requests
<1>2. kept \in SUBSET Names
  BY <1>1, AfterHashNames
<1>3. /\ page = [entries |-> entries, complete |-> Cardinality(kept) <= count, offset |-> 0,
                 hash |-> IF entries = {} THEN 0 ELSE Largest(entries), limit |-> count]
  BY DEF PageOf, LogPage
<1>4. /\ page.entries = entries /\ page.complete = (Cardinality(kept) <= count)
      /\ page.offset = 0 /\ page.limit = count
      /\ page.hash = IF entries = {} THEN 0 ELSE Largest(entries)
  BY <1>3
<1> HIDE DEF kept, count, page
<1>5. /\ entries \in SUBSET kept /\ Cardinality(entries) \in Nat /\ Cardinality(entries) <= count
      /\ entries = kept \/ Cardinality(entries) = count
      /\ \A e \in kept : e \in entries <=> Rank(kept, e) < count
  BY <1>1, <1>2, TakeCount DEF Take
<1>6. /\ Cardinality(kept) \in Nat /\ IsFiniteSet(entries)
      /\ Cardinality(entries) = Cardinality(kept) => entries = kept
      /\ Cardinality(entries) <= Cardinality(kept)
      /\ entries = {} => Cardinality(entries) = 0
  BY <1>2, <1>5, NamesAreFinite, FS_EmptySet
<1> HIDE DEF entries
<1>7. ASSUME Cardinality(kept) <= count PROVE entries = kept
  BY <1>1, <1>5, <1>6, <1>7
<1>8. entries # {} => Largest(entries) \in entries /\ \A e \in entries : e <= Largest(entries)
  <2>1. \A e \in entries : e \in Nat /\ e <= MaxName
    BY <1>2, <1>5, NamesAssumption DEF Names
  <2>2. entries # {} => \E e \in entries : \A d \in entries : d <= e
    BY <2>1, NamesAssumption, Facts!LargestOfNat
  <2>3. QED BY <2>2 DEF Largest
<1>9. ASSUME ~(Cardinality(kept) <= count) PROVE entries # {}
  <2>1. ~(Cardinality(kept) = 0) /\ Cardinality(entries) # 0
    <3>1. entries = kept => Cardinality(entries) = Cardinality(kept)
      BY Zenon
    <3>2. QED BY <1>1, <1>5, <1>6, <1>9, <3>1
  <2>2. QED BY <1>6, <2>1
<1>10. ASSUME entries # {}, NEW e \in kept \ entries PROVE Largest(entries) < e
  <2>1. Rank(kept, Largest(entries)) < count /\ Rank(kept, e) >= count
    BY <1>1, <1>2, <1>5, <1>8, <1>10, RankType
  <2>2. /\ Rank(kept, Largest(entries)) \in Nat /\ Rank(kept, e) \in Nat
        /\ Largest(entries) \in Names /\ e \in Names
    BY <1>2, <1>5, <1>8, <1>10, RankType
  <2>3. Rank(kept, Largest(entries)) < Rank(kept, e)
    BY <1>1, <2>1, <2>2
  <2>4. QED BY <1>2, <2>2, <2>3, RankOrders
<1>11. page.hash \in Nat
  <2>1. \A e \in entries : e \in Nat
    BY <1>2, <1>5, NamesAreNumbers
  <2>2. QED BY <1>4, <1>8, <2>1
<1>12. /\ page.entries \in SUBSET kept
       /\ page.complete \in BOOLEAN
       /\ page.complete => page.entries = kept
       /\ ~page.complete => /\ page.hash \in page.entries
                            /\ \A e \in page.entries : e <= page.hash
                            /\ \A e \in kept \ page.entries : page.hash < e
       /\ page.hash \in Nat /\ page.offset = 0 /\ page.limit \in Nat
  <2>1. page.complete => page.entries = kept
    BY <1>4, <1>7
  <2>2. ASSUME ~page.complete
        PROVE  /\ page.hash \in page.entries
               /\ \A e \in page.entries : e <= page.hash
               /\ \A e \in kept \ page.entries : page.hash < e
    <3>1. entries # {} /\ page.hash = Largest(entries)
      BY <1>4, <1>9, <2>2
    <3>2. QED BY <1>4, <1>8, <1>10, <3>1
  <2>3. QED BY <1>1, <1>4, <1>5, <1>11, <2>1, <2>2
<1>13. QED BY <1>12 DEF page, kept

\* Engine.Search returns the first matches, and says so of all.
LEMMA SearchPages ==
  ASSUME NEW S \in SUBSET Names, NEW r \in Requests, r.tool = "search"
  PROVE  LET page == PageOf(S, r)
         IN /\ page.entries \in SUBSET S /\ page.complete \in BOOLEAN
            /\ page.complete => page.entries = S
            /\ page.offset \in Nat /\ page.hash = 0 /\ page.limit \in Nat
<1> DEFINE count == CountOf(r.limit)
           entries == Take(S, count)
<1>1. r.offset \in Nat /\ count \in Nat
  BY CountType DEF Requests
<1>2. PageOf(S, r) = [entries |-> entries, complete |-> Cardinality(entries) < count,
                      offset |-> r.offset + Cardinality(entries), hash |-> 0, limit |-> count]
  BY DEF PageOf, SearchPage, SearchDir
<1> HIDE DEF count
<1>3. /\ entries \in SUBSET S /\ Cardinality(entries) \in Nat
      /\ entries = S \/ Cardinality(entries) = count
  BY <1>1, TakeCount
<1> DEFINE page == PageOf(S, r)
<1> HIDE DEF entries, page
<1>4. /\ page.entries = entries /\ page.complete = (Cardinality(entries) < count)
      /\ page.offset = r.offset + Cardinality(entries) /\ page.hash = 0 /\ page.limit = count
  BY <1>2 DEF page
<1>5. ASSUME page.complete PROVE entries = S
  <2>1. Cardinality(entries) < count
    BY <1>4, <1>5
  <2>2. Cardinality(entries) # count
    BY <1>1, <1>3, <2>1
  <2>3. QED BY <1>3, <2>2
<1>6. QED BY <1>1, <1>3, <1>4, <1>5 DEF page


\* What every page has.
LEMMA PageTypes ==
  ASSUME NEW S \in SUBSET Names, NEW r \in Requests
  PROVE  LET page == PageOf(S, r)
         IN /\ page.entries \in SUBSET S /\ page.complete \in BOOLEAN
            /\ page.offset \in Nat /\ page.hash \in Nat /\ page.limit \in Nat
<1>1. r.tool \in AllTools /\ r.offset \in Nat /\ r.hash \in Nat /\ r.skip \in Nat
  BY ToolsAssumption DEF Requests
<1>2. CASE r.tool \in OffsetTools
  <2> DEFINE page == PageOf(S, r)
  <2>1. /\ \E c \in Nat : page.entries = Window(S, r.offset, c)
        /\ page.complete = (r.offset + Cardinality(page.entries) >= Cardinality(S))
        /\ page.offset = r.offset + Cardinality(page.entries)
        /\ page.hash = 0 /\ page.limit \in Nat
    BY <1>2, OffsetPages
  <2> HIDE DEF page
  <2>2. page.entries \in SUBSET S /\ Cardinality(page.entries) \in Nat
    <3>1. PICK c \in Nat : page.entries = Window(S, r.offset, c)
      BY <2>1
    <3>2. Window(S, r.offset, c) \in SUBSET S /\ Cardinality(Window(S, r.offset, c)) \in Nat
      BY <1>1, WindowRanks
    <3>3. QED BY <3>1, <3>2, Zenon
  <2>3. page.complete \in BOOLEAN /\ page.offset \in Nat
    BY <1>1, <2>1, <2>2
  <2>4. QED BY <2>1, <2>2, <2>3 DEF page
<1>3. CASE r.tool = "log"
  <2>1. Drop(AfterHash(S, r.hash), r.skip) \in SUBSET S
    BY <1>1, AfterHashNames
  <2>2. QED BY <1>3, <2>1, LogPages
<1>4. CASE r.tool = "search"
  BY <1>4, SearchPages
<1>5. QED BY <1>1, <1>2, <1>3, <1>4 DEF AllTools, OffsetTools

-----------------------------------------------------------------------------
\* Type correctness.

Pages(n) == [tool : Tools, entries : SUBSET Names, engine : 1..n]

LEMMA RequestKinds ==
  ASSUME TypeOK, request.phase \in {"decode", "serve"}
  PROVE  /\ request # NoRequest /\ request \in Requests
         /\ EnginesSeen \subseteq 1..Len(engines) /\ Len(engines) \in Nat \ {0}
<1>1. request # NoRequest /\ request \in Requests /\ request.seen \in 1..Len(engines)
  BY DEF TypeOK, NoRequest
<1>2. Len(engines) \in Nat \ {0}
  BY EmptySeq, LenProperties DEF TypeOK
<1>3. QED BY <1>1, <1>2 DEF EnginesSeen

LEMMA ListingIsNames == \A t, e : Listing(t, e) \in SUBSET Names
BY DEF Listing

\* What the page of a served request is, and what the client then holds.
Page(e) == PageOf(Listing(request.tool, e), request)

LEMMA ServePage ==
  ASSUME TypeOK, NEW e, Serve(e), RootAnswers(request.tool, e)
  PROVE  /\ request \in Requests /\ request.phase = "serve" /\ request # NoRequest
         /\ e \in 1..Len(engines)
         /\ Page(e).entries \in SUBSET Names /\ Page(e).complete \in BOOLEAN
         /\ Page(e).offset \in Nat /\ Page(e).hash \in Nat /\ Page(e).limit \in Nat
         /\ Page(e).entries \in SUBSET Listing(request.tool, e)
         /\ chain' = Append(chain, [tool |-> request.tool, entries |-> Page(e).entries, engine |-> e])
         /\ token' = IF Page(e).complete THEN NoToken
                     ELSE [signed |-> e, tool |-> request.tool, offset |-> Page(e).offset,
                           limit |-> Page(e).limit, hash |-> Page(e).hash]
         /\ outcome' = IF Page(e).complete THEN "done" ELSE "reading"
         /\ request' = NoRequest
         /\ IF chain = <<>>
            THEN original' = Drop(Listing(request.tool, e), request.skip) /\ drift' = NoDrift
            ELSE UNCHANGED <<original, drift>>
         /\ UNCHANGED <<tree, edits, disk, engines, reload>>
<1>1. /\ request \in Requests /\ request.phase = "serve" /\ request # NoRequest
      /\ e \in 1..Len(engines)
  BY RequestKinds DEF Serve
<1>2. Listing(request.tool, e) \in SUBSET Names
  BY ListingIsNames
<1>3. /\ Page(e).entries \in SUBSET Listing(request.tool, e) /\ Page(e).complete \in BOOLEAN
      /\ Page(e).offset \in Nat /\ Page(e).hash \in Nat /\ Page(e).limit \in Nat
  BY <1>1, <1>2, PageTypes DEF Page
<1>4. QED BY <1>1, <1>2, <1>3 DEF Serve, Page, server

LEMMA RefuseType ==
  ASSUME TypeOK, NEW how \in {"stale", "failed"}, Refuse(how)
  PROVE  TypeOK'
<1>1. /\ UNCHANGED <<tree, edits, disk, engines, reload, chain, original, drift>>
      /\ token' = NoToken /\ request' = NoRequest /\ outcome' \in {"stale", "failed"}
  BY DEF Refuse, server
<1>2. request'.phase # "decode"
  BY <1>1 DEF NoRequest
<1>3. QED BY <1>1, <1>2 DEF TypeOK

LEMMA ServeType ==
  ASSUME TypeOK, NEW e, Serve(e)
  PROVE  TypeOK'
<1>1. CASE ~RootAnswers(request.tool, e)
  BY <1>1, RefuseType DEF Serve
<1>2. CASE RootAnswers(request.tool, e)
  <2> DEFINE p == [tool |-> request.tool, entries |-> Page(e).entries, engine |-> e]
             t == [signed |-> e, tool |-> request.tool, offset |-> Page(e).offset,
                   limit |-> Page(e).limit, hash |-> Page(e).hash]
  <2>1. /\ request \in Requests /\ e \in 1..Len(engines)
        /\ Page(e).entries \in SUBSET Names /\ Page(e).complete \in BOOLEAN
        /\ Page(e).offset \in Nat /\ Page(e).hash \in Nat /\ Page(e).limit \in Nat
        /\ chain' = Append(chain, p)
        /\ token' = IF Page(e).complete THEN NoToken ELSE t
        /\ outcome' = IF Page(e).complete THEN "done" ELSE "reading"
        /\ request' = NoRequest
        /\ IF chain = <<>>
           THEN original' = Drop(Listing(request.tool, e), request.skip) /\ drift' = NoDrift
           ELSE UNCHANGED <<original, drift>>
        /\ UNCHANGED <<tree, edits, disk, engines, reload>>
    BY <1>2, ServePage
  <2>2. request.tool \in Tools /\ Len(engines) \in Nat
    BY <2>1, LenProperties DEF Requests, TypeOK
  <2>3. p \in Pages(Len(engines))
    BY <2>1, <2>2 DEF Pages
  <2>4. t \in Tokens /\ t.signed <= Len(engines)
    BY <2>1, <2>2 DEF Tokens
  <2> HIDE DEF p, t
  <2>5. chain' \in Seq(Pages(Len(engines)))
    <3>1. chain \in Seq(Pages(Len(engines)))
      BY DEF TypeOK, Pages
    <3>2. QED BY <2>1, <2>3, <3>1, AppendProperties
  <2>6. original' \in SUBSET Names /\ drift' \in [grown : BOOLEAN, shrunk : BOOLEAN, reskipped : BOOLEAN]
    <3>1. Drop(Listing(request.tool, e), request.skip) \in SUBSET Names
      BY ListingIsNames DEF Drop
    <3>2. NoDrift \in [grown : BOOLEAN, shrunk : BOOLEAN, reskipped : BOOLEAN]
      BY DEF NoDrift
    <3>3. QED BY <2>1, <3>1, <3>2 DEF TypeOK
  <2>7. token' = NoToken \/ (token' \in Tokens /\ token'.signed <= Len(engines))
    BY <2>1, <2>4
  <2>8. QED BY <2>1, <2>5, <2>6, <2>7 DEF TypeOK, Pages, NoRequest
<1>3. QED BY <1>1, <1>2

LEMMA DecodeType ==
  ASSUME TypeOK, NEW e, Decode(e)
  PROVE  TypeOK'
<1>1. CASE ~SignedBy(token, e)
  BY <1>1, RefuseType DEF Decode
<1>2. CASE SignedBy(token, e)
  <2> DEFINE l == LimitOf(request.limit)
             r == [request EXCEPT !.phase = "serve", !.seen = e, !.offset = token.offset,
                                  !.hash = token.hash, !.limit = l]
  <2>1. request \in Requests /\ e \in 1..Len(engines) /\ token # NoToken
    BY RequestKinds DEF Decode, TypeOK
  <2>2. token.offset \in Nat /\ token.hash \in Nat /\ l \in Nat
    BY <2>1 DEF TypeOK, Tokens, Requests, LimitOf
  <2>3. request' = r /\ UNCHANGED <<tree, edits, disk, server, client, drift>>
    BY <1>2 DEF Decode
  <2> HIDE DEF l
  <2>4. r \in Requests /\ r.seen = e /\ r.phase = "serve"
    <3>1. e \in Nat
      BY <2>1
    <3>2. QED BY <2>1, <2>2, <3>1 DEF Requests
  <2> HIDE DEF r
  <2>5. QED BY <2>1, <2>3, <2>4 DEF TypeOK, server, client
<1>3. QED BY <1>1, <1>2

LEMMA CallType ==
  ASSUME TypeOK, NEW tool \in Tools, NEW limit \in Limits, NEW skip \in Skips, Call(tool, limit, skip)
  PROVE  TypeOK'
<1> DEFINE r == [phase |-> "serve", tool |-> tool, limit |-> limit, skip |-> skip,
                 offset |-> 0, hash |-> 0, seen |-> Len(engines)]
<1>1. Len(engines) \in Nat /\ Len(engines) \in 1..Len(engines)
  BY EmptySeq, LenProperties DEF TypeOK
<1>2. r \in Requests /\ r.seen \in 1..Len(engines) /\ r.phase = "serve"
  BY <1>1, ArgumentsAssumption DEF Requests
<1>3. /\ request' = r /\ chain' = <<>> /\ token' = NoToken /\ outcome' = "reading"
      /\ original' = {} /\ drift' = NoDrift /\ UNCHANGED <<tree, edits, disk, engines, reload>>
  BY DEF Call, server
<1> HIDE DEF r
<1>4. drift' \in [grown : BOOLEAN, shrunk : BOOLEAN, reskipped : BOOLEAN]
  BY <1>3 DEF NoDrift
<1>5. chain' \in Seq(Pages(Len(engines)))
  BY <1>3, EmptySeq
<1>6. QED BY <1>2, <1>3, <1>4, <1>5 DEF TypeOK, Pages

LEMMA FollowType ==
  ASSUME TypeOK, NEW limit \in Limits, NEW skip \in Skips, Follow(limit, skip)
  PROVE  TypeOK'
<1> DEFINE r == [phase |-> "decode", tool |-> token.tool, limit |-> limit, skip |-> skip,
                 offset |-> 0, hash |-> 0, seen |-> Len(engines)]
<1>1. Len(engines) \in Nat /\ Len(engines) \in 1..Len(engines)
  BY EmptySeq, LenProperties DEF TypeOK
<1>2. token # NoToken /\ token.tool \in Tools
  BY DEF Follow, TypeOK, Tokens
<1>3. r \in Requests /\ r.seen \in 1..Len(engines)
  BY <1>1, <1>2, ArgumentsAssumption DEF Requests
<1>4. /\ request' = r /\ drift' = [drift EXCEPT !.reskipped = @ \/ skip > 0]
      /\ UNCHANGED <<tree, edits, disk, server, client>>
  BY DEF Follow
<1> HIDE DEF r
<1>5. drift' \in [grown : BOOLEAN, shrunk : BOOLEAN, reskipped : BOOLEAN]
  BY <1>4 DEF TypeOK
<1>6. QED BY <1>2, <1>3, <1>4, <1>5 DEF TypeOK, server, client

LEMMA EnvironmentType ==
  ASSUME TypeOK, Environment
  PROVE  TypeOK'
<1>1. ASSUME NEW new, Edit(new), drift' \in [grown : BOOLEAN, shrunk : BOOLEAN, reskipped : BOOLEAN],
             (Root \in new => new \subseteq (Names \cup {Root})) /\ (Root \notin new => new = {})
      PROVE  TypeOK'
  <2>1. edits' \in 0..MaxTreeEdits
    BY <1>1, BoundsAssumption DEF Edit, TypeOK
  <2>2. QED BY <1>1, <2>1 DEF Edit, TypeOK, server, client
<1>2. ASSUME NEW e \in Names, Insert(e) PROVE TypeOK'
  <2>1. /\ Edit(tree \cup {e}) /\ Root \in tree /\ drift' = [drift EXCEPT !.grown = TRUE]
    BY <1>2 DEF Insert
  <2>2. drift' \in [grown : BOOLEAN, shrunk : BOOLEAN, reskipped : BOOLEAN]
    BY <2>1 DEF TypeOK
  <2>3. tree \cup {e} \subseteq Names \cup {Root}
    BY <2>1 DEF TypeOK
  <2>4. QED BY <1>1, <2>1, <2>2, <2>3
<1>3. ASSUME NEW e \in Names, Remove(e) PROVE TypeOK'
  <2>1. Edit(tree \ {e}) /\ e \in tree /\ e # Root /\ drift' = [drift EXCEPT !.shrunk = TRUE]
    BY <1>3 DEF Remove
  <2>2. drift' \in [grown : BOOLEAN, shrunk : BOOLEAN, reskipped : BOOLEAN]
    BY <2>1 DEF TypeOK
  <2>3. Root \in tree /\ Root \in tree \ {e} /\ tree \ {e} \subseteq Names \cup {Root}
    BY <2>1 DEF TypeOK
  <2>4. QED BY <1>1, <2>1, <2>2, <2>3
<1>4. ASSUME RemoveRoot PROVE TypeOK'
  <2>1. Edit({}) /\ drift' = [drift EXCEPT !.shrunk = TRUE]
    BY <1>4 DEF RemoveRoot
  <2>2. drift' \in [grown : BOOLEAN, shrunk : BOOLEAN, reskipped : BOOLEAN]
    BY <2>1 DEF TypeOK
  <2>3. QED BY <1>1, <2>1, <2>2
<1>5. ASSUME NEW r \in Rules, EditConfig(r) PROVE TypeOK'
  <2>1. disk' \in Editions
    BY <1>5 DEF EditConfig, TypeOK, Editions
  <2>2. QED BY <1>5, <2>1 DEF EditConfig, TypeOK, server, client
<1>6. ASSUME NEW o \in Operators, ReloadLoad(o) PROVE TypeOK'
  <2>1. reload' \in [Operators -> {Idle} \cup Built]
    BY <1>6 DEF ReloadLoad, TypeOK, Built
  <2>2. QED BY <1>6, <2>1 DEF ReloadLoad, TypeOK, client
<1>7. ASSUME NEW o \in Operators, ReloadInstall(o) PROVE TypeOK'
  <2>1. reload[o].engine \in Editions
    BY <1>7 DEF ReloadInstall, TypeOK, Built
  <2>2. reload' \in [Operators -> {Idle} \cup Built]
    BY <1>7 DEF ReloadInstall, TypeOK
  <2>3. /\ engines' \in Seq(Editions) /\ engines' # <<>> /\ Len(engines') = Len(engines) + 1
        /\ Len(engines) \in Nat
    <3>1. engines' = Append(engines, reload[o].engine) /\ engines \in Seq(Editions)
      BY <1>7 DEF ReloadInstall, TypeOK
    <3>2. QED BY <2>1, <3>1, AppendProperties, LenProperties
  <2>4. 1..Len(engines) \subseteq 1..Len(engines')
    BY <2>3
  <2>5. chain' \in Seq(Pages(Len(engines')))
    <3>1. Pages(Len(engines)) \subseteq Pages(Len(engines'))
      BY <2>4 DEF Pages
    <3>2. chain \in Seq(Pages(Len(engines))) /\ chain' = chain
      BY <1>7 DEF ReloadInstall, TypeOK, Pages, client
    <3>3. QED BY <3>1, <3>2, SeqMonotonic
  <2>6. UNCHANGED <<tree, edits, disk, request, token, outcome, original, drift>>
    BY <1>7 DEF ReloadInstall, client
  <2>7. request' = NoRequest \/ (request' \in Requests /\ request'.seen \in 1..Len(engines'))
    BY <2>4, <2>6 DEF TypeOK
  <2>8. token' = NoToken \/ (token' \in Tokens /\ token'.signed <= Len(engines'))
    BY <2>3, <2>6 DEF TypeOK, Tokens
  <2>9. QED BY <2>2, <2>3, <2>5, <2>6, <2>7, <2>8 DEF TypeOK, Pages
<1>8. QED BY <1>2, <1>3, <1>4, <1>5, <1>6, <1>7 DEF Environment

LEMMA StepType ==
  ASSUME TypeOK, [Next]_vars
  PROVE  TypeOK'
<1>1. CASE UNCHANGED vars
  BY <1>1 DEF vars, TypeOK, Idle, NoRequest, NoToken
<1>2. QED
  BY <1>1, EnvironmentType, CallType, FollowType, DecodeType, ServeType
     DEF Next, ClientFollows, Server

LEMMA InitType == Init => TypeOK
<1> SUFFICES ASSUME Init PROVE TypeOK
  OBVIOUS
<1>1. disk \in Editions
  BY DEF Init, Editions
<1>2. engines \in Seq(Editions) /\ engines # <<>> /\ Len(engines) = 1
  BY <1>1 DEF Init
<1>3. edits \in 0..MaxTreeEdits
  BY BoundsAssumption DEF Init
<1>4. chain \in Seq([tool : Tools, entries : SUBSET Names, engine : 1..Len(engines)])
  BY EmptySeq DEF Init
<1>5. tree \subseteq Names \cup {Root} /\ Root \in tree
  BY DEF Init
<1>6. QED BY <1>1, <1>2, <1>3, <1>4, <1>5 DEF Init, TypeOK, NoRequest, NoDrift

\* Every variable of PagedTools keeps its type; among the types, that a page and a token name
\* an engine the server has held, and that a token is decoded only by a client that has one.
THEOREM TypeCorrect == Spec => []TypeOK
<1>1. TypeOK /\ [Next]_vars => TypeOK'
  BY StepType
<1>2. QED BY <1>1, InitType, PTL DEF Spec


-----------------------------------------------------------------------------
\* What one more page is to a chain that delivered D so far and had G to deliver.

LEMMA DropNone == ASSUME NEW S \in SUBSET Names PROVE Drop(S, 0) = S
<1>1. \A e \in S : Rank(S, e) >= 0
  BY RankType
<1>2. QED BY <1>1 DEF Drop

LEMMA OffsetStep ==
  ASSUME NEW S \in SUBSET Names, NEW r \in Requests, r.tool \in OffsetTools, NEW D, NEW G
  PROVE  LET page == PageOf(S, r)
         IN /\ G \subseteq S /\ (\A x \in G \ D : Rank(S, x) >= r.offset) =>
                 /\ \A x \in G \ (D \cup page.entries) : Rank(S, x) >= page.offset
                 /\ page.complete => G \subseteq D \cup page.entries
            /\ (\A d \in D \cap S : Rank(S, d) < r.offset) =>
                 /\ page.entries \cap D = {}
                 /\ \A d \in (D \cup page.entries) \cap S : Rank(S, d) < page.offset
<1> DEFINE page == PageOf(S, r)
           E == page.entries
<1>1. /\ \E c \in Nat : E = Window(S, r.offset, c)
      /\ page.complete = (r.offset + Cardinality(E) >= Cardinality(S))
      /\ page.offset = r.offset + Cardinality(E)
  BY OffsetPages
<1>2. r.offset \in Nat
  BY DEF Requests
<1> HIDE DEF page
<1>3. /\ E \in SUBSET S /\ Cardinality(E) \in Nat /\ Cardinality(S) \in Nat
      /\ \A e \in S : Rank(S, e) \in Nat
      /\ \A e \in E : r.offset <= Rank(S, e) /\ Rank(S, e) < r.offset + Cardinality(E)
      /\ \A e \in S \ E :
           \/ Rank(S, e) < r.offset
           \/ /\ r.offset + Cardinality(E) <= Rank(S, e)
              /\ r.offset + Cardinality(E) < Cardinality(S)
  <2>1. PICK c \in Nat : E = Window(S, r.offset, c)
    BY <1>1
  <2> DEFINE W == Window(S, r.offset, c)
  <2>2. /\ W \in SUBSET S /\ Cardinality(W) \in Nat /\ Cardinality(S) \in Nat
        /\ \A e \in S : Rank(S, e) \in Nat
        /\ \A e \in W : r.offset <= Rank(S, e) /\ Rank(S, e) < r.offset + Cardinality(W)
        /\ \A e \in S \ W :
             \/ Rank(S, e) < r.offset
             \/ /\ r.offset + Cardinality(W) <= Rank(S, e)
                /\ r.offset + Cardinality(W) < Cardinality(S)
    BY <1>2, WindowRanks
  <2>3. E = W
    BY <2>1
  <2> HIDE DEF W, E
  <2>4. QED BY <2>2, <2>3, Zenon
<1> HIDE DEF E
<1>4. ASSUME G \subseteq S, \A x \in G \ D : Rank(S, x) >= r.offset
      PROVE  /\ \A x \in G \ (D \cup E) : Rank(S, x) >= page.offset
             /\ page.complete => G \subseteq D \cup E
  <2>1. ASSUME NEW x \in G \ (D \cup E)
        PROVE  Rank(S, x) >= page.offset /\ ~page.complete
    <3>1. x \in S \ E /\ Rank(S, x) \in Nat /\ Rank(S, x) >= r.offset
      BY <1>3, <1>4, <2>1
    <3>2. ~(Rank(S, x) < r.offset)
      BY <1>2, <3>1
    <3>3. r.offset + Cardinality(E) <= Rank(S, x) /\ r.offset + Cardinality(E) < Cardinality(S)
      BY <1>3, <3>1, <3>2
    <3>4. ~(r.offset + Cardinality(E) >= Cardinality(S))
      BY <1>2, <1>3, <3>3
    <3>5. QED BY <1>1, <1>2, <1>3, <3>1, <3>3, <3>4 DEF E
  <2>2. QED BY <2>1
<1>5. ASSUME \A d \in D \cap S : Rank(S, d) < r.offset
      PROVE  E \cap D = {} /\ \A d \in (D \cup E) \cap S : Rank(S, d) < page.offset
  <2>1. E \cap D = {}
    <3> SUFFICES ASSUME NEW x \in E, x \in D PROVE FALSE
      OBVIOUS
    <3>1. x \in S /\ Rank(S, x) \in Nat /\ r.offset <= Rank(S, x)
      BY <1>3
    <3>2. Rank(S, x) < r.offset
      BY <1>5, <3>1
    <3>3. QED BY <1>2, <3>1, <3>2
  <2>2. ASSUME NEW d \in S, d \in D \/ d \in E PROVE Rank(S, d) < page.offset
    <3>1. page.offset = r.offset + Cardinality(E) /\ Rank(S, d) \in Nat
      BY <1>1, <1>3 DEF E
    <3>2. CASE d \in D
      BY <1>2, <1>3, <1>5, <3>1, <3>2
    <3>3. CASE d \in E
      BY <1>3, <3>1, <3>3
    <3>4. QED BY <2>2, <3>2, <3>3
  <2>3. QED BY <2>1, <2>2
<1>6. QED BY <1>4, <1>5 DEF E, page

LEMMA LogStep ==
  ASSUME NEW S \in SUBSET Names, NEW r \in Requests, r.tool = "log",
         NEW D \in SUBSET Names, NEW G \in SUBSET Names
  PROVE  LET page == PageOf(S, r)
         IN /\ G \ D \subseteq Drop(AfterHash(S, r.hash), r.skip) =>
                 /\ page.complete => G \subseteq D \cup page.entries
                 /\ ~page.complete => \A x \in G \ (D \cup page.entries) : x > page.hash
            /\ D = {} \/ (r.hash \in S /\ \A d \in D : d <= r.hash) =>
                 /\ page.entries \cap D = {}
                 /\ ~page.complete => \A d \in D \cup page.entries : d <= page.hash
            /\ ~page.complete => page.hash \in S
<1> DEFINE page == PageOf(S, r)
           kept == Drop(AfterHash(S, r.hash), r.skip)
<1>1. /\ page.entries \in SUBSET kept
      /\ page.complete \in BOOLEAN
      /\ page.complete => page.entries = kept
      /\ ~page.complete => /\ page.hash \in page.entries
                           /\ \A e \in page.entries : e <= page.hash
                           /\ \A e \in kept \ page.entries : page.hash < e
  BY LogPages
<1>2. r.hash \in Nat /\ r.skip \in Nat
  BY DEF Requests
<1>3. kept \in SUBSET S /\ (r.hash \in S => \A e \in kept : e > r.hash)
  BY <1>2, AfterHashNames
<1> HIDE DEF page, kept
<1>4. \A e \in Names : e \in Int
  BY NamesAreNumbers
<1>5. ASSUME G \ D \subseteq kept
      PROVE  /\ page.complete => G \subseteq D \cup page.entries
             /\ ~page.complete => \A x \in G \ (D \cup page.entries) : x > page.hash
  <2>1. page.complete => G \subseteq D \cup page.entries
    BY <1>1, <1>5
  <2>2. ASSUME ~page.complete, NEW x \in G \ (D \cup page.entries)
        PROVE  x > page.hash
    <3>1. x \in kept \ page.entries
      BY <1>5, <2>2
    <3>2. page.hash < x /\ x \in Int /\ page.hash \in Int
      BY <1>1, <1>3, <1>4, <2>2, <3>1
    <3>3. QED BY <3>2
  <2>3. QED BY <2>1, <2>2
<1>6. ASSUME D = {} \/ (r.hash \in S /\ \A d \in D : d <= r.hash)
      PROVE  /\ page.entries \cap D = {}
             /\ ~page.complete => \A d \in D \cup page.entries : d <= page.hash
  <2>1. ASSUME NEW d \in D, NEW e \in page.entries PROVE d < e
    <3>1. r.hash \in S /\ d <= r.hash
      BY <1>6, <2>1
    <3>2. e > r.hash /\ e \in Int /\ d \in Int
      BY <1>1, <1>3, <1>4, <2>1, <3>1
    <3>3. QED BY <1>2, <3>1, <3>2
  <2>2. page.entries \cap D = {}
    <3> SUFFICES ASSUME NEW x \in D, x \in page.entries PROVE FALSE
      OBVIOUS
    <3>1. x < x /\ x \in Int
      BY <1>4, <2>1
    <3>2. QED BY <3>1
  <2>3. ASSUME ~page.complete, NEW d, d \in D \/ d \in page.entries
        PROVE  d <= page.hash
    <3>1. page.hash \in page.entries /\ page.hash \in Int /\ d \in Int
      BY <1>1, <1>3, <1>4, <2>3
    <3>2. CASE d \in D
      <4>1. d < page.hash
        BY <2>1, <3>1, <3>2
      <4>2. QED BY <3>1, <4>1
    <3>3. CASE d \in page.entries
      BY <1>1, <2>3, <3>3
    <3>4. QED BY <2>3, <3>2, <3>3
  <2>4. QED BY <2>2, <2>3
<1>7. ~page.complete => page.hash \in S
  BY <1>1, <1>3
<1>8. QED BY <1>5, <1>6, <1>7 DEF page, kept

-----------------------------------------------------------------------------
\* How the request, the token and the chain hang together.

LinkInv ==
  /\ chain = <<>> => token = NoToken
  /\ request # NoRequest =>
       /\ outcome = "reading"
       /\ chain = <<>> =>
            /\ request.phase = "serve" /\ request.offset = 0 /\ request.hash = 0
            /\ request.tool # "log" => request.skip = 0
       /\ chain # <<>> =>
            /\ token # NoToken /\ request.tool = token.tool
            /\ request.phase = "serve" => request.offset = token.offset /\ request.hash = token.hash
            /\ ~drift.reskipped => request.skip = 0
  /\ token # NoToken => token.tool = chain[1].tool
  /\ \A i \in 1..Len(chain) : chain[i].tool = chain[1].tool
  /\ outcome = "done" => chain # <<>> /\ request = NoRequest

\* What an answered page does to the chain.
LEMMA ChainGrows ==
  ASSUME TypeOK, NEW e, Serve(e), RootAnswers(request.tool, e)
  PROVE  /\ Len(chain') = Len(chain) + 1 /\ Len(chain) \in Nat /\ chain' # <<>>
         /\ \A i \in 1..Len(chain) : chain'[i] = chain[i]
         /\ chain'[Len(chain) + 1].tool = request.tool
         /\ chain'[Len(chain) + 1].entries = Page(e).entries
         /\ chain'[Len(chain) + 1].engine = e
         /\ chain = <<>> => Len(chain) = 0
         /\ chain # <<>> => 1 \in 1..Len(chain)
<1> DEFINE p == [tool |-> request.tool, entries |-> Page(e).entries, engine |-> e]
<1>1. chain' = Append(chain, p) /\ p \in Pages(Len(engines))
  <2>1. /\ chain' = Append(chain, p) /\ request \in Requests /\ e \in 1..Len(engines)
        /\ Page(e).entries \in SUBSET Names
    BY ServePage
  <2>2. QED BY <2>1 DEF Pages, Requests
<1>2. p.tool = request.tool /\ p.entries = Page(e).entries /\ p.engine = e
  OBVIOUS
<1>3. chain \in Seq(Pages(Len(engines)))
  BY DEF TypeOK, Pages
<1> HIDE DEF p
<1>4. /\ Len(chain') = Len(chain) + 1 /\ Len(chain) \in Nat /\ chain' # <<>>
      /\ \A i \in 1..Len(chain) : chain'[i] = chain[i]
      /\ chain'[Len(chain) + 1] = p
  BY <1>1, <1>3, AppendProperties, LenProperties
<1>5. (chain = <<>> => Len(chain) = 0) /\ (chain # <<>> => 1 \in 1..Len(chain))
  BY <1>3, <1>4, EmptySeq
<1>6. QED BY <1>2, <1>4, <1>5

LEMMA RefuseLink ==
  ASSUME LinkInv, NEW how \in {"stale", "failed"}, Refuse(how)
  PROVE  LinkInv'
BY DEF Refuse, LinkInv

LEMMA StepLink ==
  ASSUME TypeOK, LinkInv, [Next]_vars
  PROVE  LinkInv'
<1>1. ASSUME UNCHANGED <<request, client>>, drift'.reskipped = drift.reskipped
      PROVE  LinkInv'
  BY <1>1 DEF client, LinkInv
<1>2. CASE UNCHANGED vars
  BY <1>1, <1>2 DEF vars, client
<1>3. CASE Environment
  <2>1. UNCHANGED <<request, client>>
    BY <1>3 DEF Environment, Insert, Remove, RemoveRoot, Edit, EditConfig, ReloadLoad, ReloadInstall
  <2>2. \/ drift' = drift \/ drift' = [drift EXCEPT !.grown = TRUE]
        \/ drift' = [drift EXCEPT !.shrunk = TRUE]
    BY <1>3 DEF Environment, Insert, Remove, RemoveRoot, EditConfig, ReloadLoad, ReloadInstall
  <2>3. drift'.reskipped = drift.reskipped
    BY <2>2 DEF TypeOK
  <2>4. QED BY <1>1, <2>1, <2>3
<1>4. ASSUME NEW tool, NEW limit, NEW skip, Call(tool, limit, skip)
      PROVE  LinkInv'
  <2>1. /\ chain' = <<>> /\ Len(chain') = 0 /\ token' = NoToken /\ outcome' = "reading"
        /\ request'.phase = "serve" /\ request'.offset = 0 /\ request'.hash = 0
        /\ request'.tool = tool /\ request'.skip = skip /\ (tool # "log" => skip = 0)
    BY <1>4, EmptySeq DEF Call
  <2>2. \A i \in 1..Len(chain') : FALSE
    BY <2>1
  <2>3. QED BY <2>1, <2>2 DEF LinkInv
<1>5. ASSUME NEW limit, NEW skip \in Skips, Follow(limit, skip)
      PROVE  LinkInv'
  <2>1. /\ UNCHANGED <<chain, token, outcome>> /\ outcome = "reading" /\ token # NoToken
        /\ request'.phase = "decode" /\ request'.tool = token.tool /\ request'.skip = skip
        /\ drift' = [drift EXCEPT !.reskipped = @ \/ skip > 0]
    BY <1>5 DEF Follow, client
  <2>2. chain # <<>>
    BY <2>1 DEF LinkInv
  <2>3. ~drift'.reskipped => skip = 0
    <3>1. drift'.reskipped = (drift.reskipped \/ skip > 0)
      BY <2>1 DEF TypeOK
    <3>2. ~(skip > 0) => skip = 0
      BY ArgumentsAssumption
    <3>3. QED BY <3>1, <3>2, Zenon
  <2>4. QED BY <2>1, <2>2, <2>3 DEF LinkInv
<1>6. ASSUME NEW e, Decode(e)
      PROVE  LinkInv'
  <2>1. CASE ~SignedBy(token, e)
    BY <1>6, <2>1, RefuseLink DEF Decode
  <2>2. CASE SignedBy(token, e)
    <3>1. request \in Requests /\ request # NoRequest /\ request.phase = "decode"
      BY <1>6, RequestKinds DEF Decode
    <3>2. /\ UNCHANGED <<chain, token, outcome, drift>>
          /\ request' = [request EXCEPT !.phase = "serve", !.seen = e, !.offset = token.offset,
                                        !.hash = token.hash, !.limit = LimitOf(request.limit)]
      BY <1>6, <2>2 DEF Decode, client
    <3>3. /\ request'.phase = "serve" /\ request'.offset = token.offset
          /\ request'.hash = token.hash /\ request'.tool = request.tool
          /\ request'.skip = request.skip
      BY <3>1, <3>2 DEF Requests
    <3>4. chain # <<>>
      BY <3>1 DEF LinkInv
    <3>5. QED BY <3>1, <3>2, <3>3, <3>4 DEF LinkInv
  <2>3. QED BY <2>1, <2>2
<1>7. ASSUME NEW e, Serve(e)
      PROVE  LinkInv'
  <2>1. CASE ~RootAnswers(request.tool, e)
    BY <1>7, <2>1, RefuseLink DEF Serve
  <2>2. CASE RootAnswers(request.tool, e)
    <3>1. /\ request # NoRequest /\ request' = NoRequest
          /\ token' # NoToken => token'.tool = request.tool
      <4>1. /\ request # NoRequest /\ request' = NoRequest
            /\ token' = IF Page(e).complete THEN NoToken
                        ELSE [signed |-> e, tool |-> request.tool, offset |-> Page(e).offset,
                              limit |-> Page(e).limit, hash |-> Page(e).hash]
        BY <1>7, <2>2, ServePage
      <4>2. QED BY <4>1
    <3>2. /\ Len(chain') = Len(chain) + 1 /\ Len(chain) \in Nat /\ chain' # <<>>
          /\ \A i \in 1..Len(chain) : chain'[i] = chain[i]
          /\ chain'[Len(chain) + 1].tool = request.tool
          /\ chain = <<>> => Len(chain) = 0
          /\ chain # <<>> => 1 \in 1..Len(chain)
      BY <1>7, <2>2, ChainGrows
    <3>3. chain'[1].tool = request.tool
      BY <3>1, <3>2 DEF LinkInv
    <3>4. ASSUME NEW i \in 1..Len(chain') PROVE chain'[i].tool = chain'[1].tool
      <4>1. CASE i = Len(chain) + 1
        BY <3>2, <3>3, <4>1
      <4>2. CASE i # Len(chain) + 1
        <5>1. i \in 1..Len(chain) /\ chain # <<>>
          BY <3>2, <4>2
        <5>2. QED BY <3>1, <3>2, <3>3, <5>1 DEF LinkInv
      <4>3. QED BY <4>1, <4>2
    <3>5. QED BY <3>1, <3>2, <3>3, <3>4 DEF LinkInv
  <2>3. QED BY <2>1, <2>2
<1>8. QED
  BY <1>2, <1>3, <1>4, <1>5, <1>6, <1>7 DEF Next, ClientFollows, Server


-----------------------------------------------------------------------------
\* What of the chain's listing has been delivered.

ChainListing == Listing(chain[1].tool, chain[1].engine)

\* While nothing goes, what is still to be delivered ranks behind the token's offset; while
\* nothing comes, what was delivered ranks before it.
OffsetInv ==
  token # NoToken /\ chain[1].tool \in OffsetTools /\ SameRules =>
    /\ ~drift.shrunk => \A x \in original \ Delivered : Rank(ChainListing, x) >= token.offset
    /\ ~drift.grown => \A d \in Delivered \cap ChainListing : Rank(ChainListing, d) < token.offset

\* While nothing goes, the token's commit is there, behind what was delivered and before what
\* is still to be.
HashInv ==
  token # NoToken /\ chain[1].tool = "log" /\ ~drift.shrunk =>
    /\ token.hash \in tree \cap Names
    /\ \A d \in Delivered : d <= token.hash
    /\ ~drift.reskipped => \A x \in original \ Delivered : x > token.hash

FlowInv ==
  /\ chain # <<>> => /\ ~drift.shrunk => original \subseteq ChainListing
                     /\ OffsetInv /\ HashInv
  /\ GrowthNeverSkips /\ ShrinkingNeverRepeats /\ LogGrowthNeverRepeats

\* A step that leaves the chain as it is.
Drifts ==
  /\ UNCHANGED <<chain, original>>
  /\ token' = token \/ token' = NoToken
  /\ outcome' = "done" => outcome = "done"
  /\ ~drift'.shrunk => ~drift.shrunk /\ tree \subseteq tree'
  /\ ~drift'.grown => ~drift.grown /\ tree' \subseteq tree
  /\ ~drift'.reskipped => ~drift.reskipped
  /\ \A i \in 1..Len(engines) : engines'[i] = engines[i]

Restarts == chain' = <<>> /\ outcome' = "reading"

LEMMA StepKinds ==
  ASSUME TypeOK, [Next]_vars
  PROVE  \/ Drifts
         \/ Restarts
         \/ \E e : Serve(e) /\ RootAnswers(request.tool, e)
<1>1. ASSUME UNCHANGED <<tree, engines, chain, token, outcome, original, drift>>
      PROVE  Drifts
  BY <1>1 DEF Drifts
<1>2. CASE UNCHANGED vars
  BY <1>1, <1>2 DEF vars
<1>3. ASSUME NEW how \in {"stale", "failed"}, Refuse(how)
      PROVE  Drifts
  BY <1>3 DEF Refuse, server, Drifts
<1>4. CASE Environment
  <2>1. ASSUME NEW e \in Names, Insert(e) PROVE Drifts
    <3>1. tree' = tree \cup {e} /\ drift' = [drift EXCEPT !.grown = TRUE]
          /\ UNCHANGED <<engines, chain, token, outcome, original>>
      BY <2>1 DEF Insert, Edit, server, client
    <3>2. drift'.grown /\ drift'.shrunk = drift.shrunk /\ drift'.reskipped = drift.reskipped
      BY <3>1 DEF TypeOK
    <3>3. QED BY <3>1, <3>2 DEF Drifts
  <2>2. ASSUME NEW S, S \subseteq tree, Edit(S), drift' = [drift EXCEPT !.shrunk = TRUE]
        PROVE  Drifts
    <3>1. tree' = S /\ UNCHANGED <<engines, chain, token, outcome, original>>
      BY <2>2 DEF Edit, server, client
    <3>2. drift'.shrunk /\ drift'.grown = drift.grown /\ drift'.reskipped = drift.reskipped
      BY <2>2 DEF TypeOK
    <3>3. QED BY <2>2, <3>1, <3>2 DEF Drifts
  <2>3. ASSUME NEW e \in Names, Remove(e) PROVE Drifts
    BY <2>2, <2>3 DEF Remove
  <2>4. CASE RemoveRoot
    BY <2>2, <2>4 DEF RemoveRoot
  <2>5. ASSUME NEW r \in Rules, EditConfig(r) PROVE Drifts
    BY <1>1, <2>5 DEF EditConfig, server, client
  <2>6. ASSUME NEW o \in Operators, ReloadLoad(o) PROVE Drifts
    BY <1>1, <2>6 DEF ReloadLoad, client
  <2>7. ASSUME NEW o \in Operators, ReloadInstall(o) PROVE Drifts
    <3>1. engines' = Append(engines, reload[o].engine) /\ engines \in Seq(Editions)
          /\ UNCHANGED <<tree, chain, token, outcome, original, drift>>
      BY <2>7 DEF ReloadInstall, client, TypeOK
    <3>2. reload[o].engine \in Editions
      BY <2>7 DEF ReloadInstall, TypeOK, Built
    <3>3. \A i \in 1..Len(engines) : engines'[i] = engines[i]
      BY <3>1, <3>2, AppendProperties
    <3>4. QED BY <3>1, <3>3 DEF Drifts
  <2>8. QED BY <1>4, <2>1, <2>3, <2>4, <2>5, <2>6, <2>7 DEF Environment
<1>5. ASSUME NEW tool, NEW limit, NEW skip, Call(tool, limit, skip)
      PROVE  Restarts
  BY <1>5 DEF Call, Restarts
<1>6. ASSUME NEW limit, NEW skip, Follow(limit, skip)
      PROVE  Drifts
  <2>1. /\ UNCHANGED <<tree, engines, chain, token, outcome, original>>
        /\ drift' = [drift EXCEPT !.reskipped = @ \/ skip > 0]
    BY <1>6 DEF Follow, server, client
  <2>2. /\ drift'.grown = drift.grown /\ drift'.shrunk = drift.shrunk
        /\ drift'.reskipped = (drift.reskipped \/ skip > 0)
    BY <2>1 DEF TypeOK
  <2>3. QED BY <2>1, <2>2 DEF Drifts
<1>7. ASSUME NEW e, Decode(e)
      PROVE  Drifts
  <2>1. CASE ~SignedBy(token, e)
    BY <1>3, <1>7, <2>1 DEF Decode
  <2>2. CASE SignedBy(token, e)
    BY <1>1, <1>7, <2>2 DEF Decode, server, client
  <2>3. QED BY <2>1, <2>2
<1>8. ASSUME NEW e, Serve(e), ~RootAnswers(request.tool, e)
      PROVE  Drifts
  BY <1>3, <1>8 DEF Serve
<1>9. QED
  BY <1>2, <1>4, <1>5, <1>6, <1>7, <1>8 DEF Next, ClientFollows, Server

LEMMA DriftsFlow ==
  ASSUME TypeOK, FlowInv, Drifts
  PROVE  FlowInv'
<1> DEFINE L == ChainListing
<1>1. /\ chain' = chain /\ original' = original /\ (token' = token \/ token' = NoToken)
      /\ outcome' = "done" => outcome = "done"
      /\ ~drift'.shrunk => ~drift.shrunk /\ tree \subseteq tree'
      /\ ~drift'.grown => ~drift.grown /\ tree' \subseteq tree
      /\ ~drift'.reskipped => ~drift.reskipped
      /\ \A i \in 1..Len(engines) : engines'[i] = engines[i]
  BY DEF Drifts
<1>2. \A i \in 1..Len(chain) : engines'[chain[i].engine] = engines[chain[i].engine]
  <2>1. \A i \in 1..Len(chain) : chain[i] \in Pages(Len(engines))
    BY ElementOfSeq DEF TypeOK, Pages
  <2>2. QED BY <1>1, <2>1 DEF Pages
<1>3. Delivered' = Delivered /\ Disjoint' = Disjoint
  BY <1>1 DEF Delivered, Disjoint
<1>4. SameRules' <=> SameRules
  <2>1. chain' = chain
    BY <1>1
  <2>2. SameRules' <=> \A i, j \in 1..Len(chain) : engines'[chain[i].engine].rules = engines'[chain[j].engine].rules
    BY <2>1 DEF SameRules
  <2>3. (\A i, j \in 1..Len(chain) : engines'[chain[i].engine].rules = engines'[chain[j].engine].rules)
          <=> \A i, j \in 1..Len(chain) : engines[chain[i].engine].rules = engines[chain[j].engine].rules
    BY ONLY <1>2
  <2>4. QED BY <2>2, <2>3 DEF SameRules
<1>5. GrowthNeverSkips' /\ ShrinkingNeverRepeats' /\ LogGrowthNeverRepeats'
  <2>1. GrowthNeverSkips'
    BY <1>1, <1>3, <1>4 DEF FlowInv, GrowthNeverSkips
  <2>2. ShrinkingNeverRepeats'
    BY <1>1, <1>3, <1>4 DEF FlowInv, ShrinkingNeverRepeats
  <2>3. LogGrowthNeverRepeats'
    BY <1>1, <1>3, <1>4 DEF FlowInv, LogGrowthNeverRepeats
  <2>4. QED BY <2>1, <2>2, <2>3
<1>6. ASSUME chain # <<>>
      PROVE  (~drift'.shrunk => original' \subseteq ChainListing') /\ OffsetInv' /\ HashInv'
  <2>1. engines'[chain[1].engine] = engines[chain[1].engine]
    <3>1. 1 \in 1..Len(chain)
      BY <1>6, EmptySeq, LenProperties DEF TypeOK
    <3>2. QED BY <1>2, <3>1
  <2>2. L \in SUBSET Names /\ L' \in SUBSET Names
    BY DEF ChainListing, Listing
  <2>3. (~drift'.shrunk => L \subseteq L') /\ (~drift'.grown => L' \subseteq L)
    BY <1>1, <2>1 DEF ChainListing, Listing
  <2>4. ~drift.shrunk => original \subseteq L
    BY <1>6 DEF FlowInv
  <2>5. OffsetInv /\ HashInv
    BY <1>6 DEF FlowInv
  <2> HIDE DEF L
  <2>6. ASSUME token' # NoToken, chain'[1].tool \in OffsetTools, SameRules', ~drift'.shrunk,
               NEW x \in original' \ Delivered'
        PROVE  Rank(L', x) >= token'.offset
    <3>1. Rank(L, x) >= token.offset /\ token' = token
      BY <1>1, <1>3, <1>4, <2>5, <2>6 DEF OffsetInv, L
    <3>2. x \in L /\ L \in SUBSET L' /\ x \in Names
      BY <1>1, <2>2, <2>3, <2>4, <2>6
    <3>3. x <= x
      BY <3>2, NamesAreNumbers
    <3>4. Rank(L, x) <= Rank(L', x) /\ Rank(L, x) \in Nat /\ Rank(L', x) \in Nat
      BY <2>2, <3>2, <3>3, RankMonotone, RankType
    <3>5. token.offset \in Nat
      BY <2>6, <3>1 DEF TypeOK, Tokens
    <3>6. QED BY <3>1, <3>4, <3>5
  <2>7. ASSUME token' # NoToken, chain'[1].tool \in OffsetTools, SameRules', ~drift'.grown,
               NEW d \in Delivered' \cap L'
        PROVE  Rank(L', d) < token'.offset
    <3>1. d \in L /\ L' \in SUBSET L /\ d \in Names
      BY <1>1, <2>2, <2>3, <2>7
    <3>2. Rank(L, d) < token.offset /\ token' = token
      BY <1>1, <1>3, <1>4, <2>5, <2>7, <3>1 DEF OffsetInv, L
    <3>3. d <= d
      BY <3>1, NamesAreNumbers
    <3>4. Rank(L', d) <= Rank(L, d) /\ Rank(L, d) \in Nat /\ Rank(L', d) \in Nat
      BY <2>2, <3>1, <3>3, RankMonotone, RankType
    <3>5. token.offset \in Nat
      BY <2>7, <3>2 DEF TypeOK, Tokens
    <3>6. QED BY <3>2, <3>4, <3>5
  <2>8. OffsetInv'
    BY <2>6, <2>7 DEF OffsetInv, L
  <2>9. HashInv'
    BY <1>1, <1>3, <2>5 DEF HashInv
  <2>10. QED BY <1>1, <2>3, <2>4, <2>8, <2>9 DEF L
<1>7. QED BY <1>1, <1>5, <1>6 DEF FlowInv


\* An answered page adds its entries to what was delivered, and keeps the rules of the chain
\* only if it was cut under them.
LEMMA ServeDelivers ==
  ASSUME TypeOK, NEW e, Serve(e), RootAnswers(request.tool, e)
  PROVE  /\ Delivered' = Delivered \cup Page(e).entries
         /\ chain = <<>> => Delivered = {} /\ Disjoint
         /\ Disjoint /\ Page(e).entries \cap Delivered = {} => Disjoint'
         /\ chain' # <<>>
         /\ IF chain = <<>>
            THEN chain'[1].tool = request.tool /\ chain'[1].engine = e
            ELSE chain'[1] = chain[1]
         /\ SameRules' => SameRules /\ engines[e].rules = engines[chain'[1].engine].rules
<1> DEFINE n == Len(chain)
           E == Page(e).entries
<1>1. /\ Len(chain') = n + 1 /\ n \in Nat /\ chain' # <<>>
      /\ \A i \in 1..n : chain'[i] = chain[i]
      /\ chain'[n + 1].tool = request.tool
      /\ chain'[n + 1].entries = E
      /\ chain'[n + 1].engine = e
      /\ chain = <<>> => n = 0
      /\ chain # <<>> => 1 \in 1..n
  BY ChainGrows
<1>2. engines' = engines
  BY ServePage
<1> HIDE DEF n, E
<1>3. 1..Len(chain') = 1..n \cup {n + 1} /\ n + 1 \in 1..Len(chain') /\ 1 \in 1..Len(chain')
  BY <1>1
<1>4. Delivered' = Delivered \cup E
  BY <1>1, <1>3 DEF Delivered, n
<1>5. ASSUME chain = <<>> PROVE Delivered = {} /\ Disjoint
  <2>1. 1..n = {}
    BY <1>1, <1>5
  <2>2. QED BY <2>1 DEF Delivered, Disjoint, n
<1>6. ASSUME Disjoint, E \cap Delivered = {} PROVE Disjoint'
  <2>1. \A i \in 1..n : chain[i].entries \cap E = {}
    BY <1>6 DEF Delivered, n
  <2>2. \A i, j \in 1..n : i # j => chain[i].entries \cap chain[j].entries = {}
    BY <1>6 DEF Disjoint, n
  <2>3. ASSUME NEW i \in 1..Len(chain'), NEW j \in 1..Len(chain'), i # j
        PROVE  chain'[i].entries \cap chain'[j].entries = {}
    <3>1. CASE i \in 1..n /\ j \in 1..n
      BY <1>1, <2>2, <2>3, <3>1
    <3>2. CASE i \in 1..n /\ j = n + 1
      BY <1>1, <2>1, <3>2
    <3>3. CASE i = n + 1 /\ j \in 1..n
      BY <1>1, <2>1, <3>3
    <3>4. QED BY <1>3, <2>3, <3>1, <3>2, <3>3
  <2>4. QED BY <2>3 DEF Disjoint
<1>7. IF chain = <<>>
      THEN chain'[1].tool = request.tool /\ chain'[1].engine = e
      ELSE chain'[1] = chain[1]
  BY <1>1
<1>8. ASSUME SameRules'
      PROVE  SameRules /\ engines[e].rules = engines[chain'[1].engine].rules
  <2>1. \A i, j \in 1..Len(chain') :
           engines[chain'[i].engine].rules = engines[chain'[j].engine].rules
    BY <1>2, <1>8 DEF SameRules
  <2>2. SameRules
    BY <1>1, <1>3, <2>1 DEF SameRules, n
  <2>3. QED BY <1>1, <1>3, <2>1, <2>2
<1>9. QED BY <1>1, <1>4, <1>5, <1>6, <1>7, <1>8 DEF E

\* What a page is cut from, and what was delivered and is to be delivered before it.
LEMMA ServeReady ==
  ASSUME TypeOK, LinkInv, FlowInv, NEW e, Serve(e), RootAnswers(request.tool, e)
  PROVE  LET S == Listing(request.tool, e)
         IN /\ chain'[1].tool = request.tool
            /\ SameRules' \/ request.tool = "log" => S = ChainListing'
            /\ ~drift'.shrunk => original' \subseteq ChainListing'
            /\ request.tool \in OffsetTools /\ SameRules' =>
                 /\ ~drift'.shrunk => \A x \in original' \ Delivered : Rank(S, x) >= request.offset
                 /\ ~drift'.grown => \A d \in Delivered \cap S : Rank(S, d) < request.offset
            /\ request.tool = "log" /\ ~drift'.shrunk =>
                 /\ \/ Delivered = {}
                    \/ request.hash \in S /\ \A d \in Delivered : d <= request.hash
                 /\ ~drift'.reskipped =>
                      original' \ Delivered \subseteq Drop(AfterHash(S, request.hash), request.skip)
            /\ SameRules' /\ request.tool \in OffsetTools /\ ~drift'.grown => Disjoint
            /\ request.tool = "log" /\ ~drift'.shrunk => Disjoint
<1> DEFINE S == Listing(request.tool, e)
<1>1. /\ request \in Requests /\ request.phase = "serve" /\ request # NoRequest
      /\ tree' = tree /\ engines' = engines
      /\ IF chain = <<>>
         THEN original' = Drop(S, request.skip) /\ drift' = NoDrift
         ELSE original' = original /\ drift' = drift
  BY ServePage
<1>2. /\ chain = <<>> => Delivered = {} /\ Disjoint
      /\ IF chain = <<>>
         THEN chain'[1].tool = request.tool /\ chain'[1].engine = e
         ELSE chain'[1] = chain[1]
      /\ SameRules' => SameRules /\ engines[e].rules = engines[chain'[1].engine].rules
  BY ServeDelivers
<1>3. S \in SUBSET Names /\ request.skip \in Nat
  BY <1>1, ListingIsNames DEF Requests
<1>4. ChainListing' = IF chain'[1].tool \in FileTools
                      THEN tree \cap Names \cap engines[chain'[1].engine].rules
                      ELSE tree \cap Names
  BY <1>1 DEF ChainListing, Listing
<1>5. ASSUME chain'[1].tool = request.tool
      PROVE  SameRules' \/ request.tool = "log" => S = ChainListing'
  BY <1>2, <1>4, <1>5 DEF Listing, FileTools
<1>6. CASE chain = <<>>
  <2>1. /\ request.offset = 0 /\ request.hash = 0 /\ (request.tool # "log" => request.skip = 0)
        /\ original' = Drop(S, request.skip) /\ Delivered = {} /\ Disjoint
        /\ chain'[1].tool = request.tool /\ chain'[1].engine = e
    BY <1>1, <1>2, <1>6 DEF LinkInv
  <2>2. S = ChainListing'
    BY <1>4, <2>1 DEF Listing
  <2>3. original' \subseteq S
    BY <2>1 DEF Drop
  <2>4. \A x \in S : Rank(S, x) >= 0
    BY <1>3, RankType
  <2>5. AfterHash(S, 0) = S
    <3>1. 0 \notin S
      BY <1>3 DEF Names
    <3>2. QED BY <3>1 DEF AfterHash
  <2> HIDE DEF S
  <2>6. request.tool \in OffsetTools => \A x \in original' \ Delivered : Rank(S, x) >= request.offset
    BY <2>1, <2>3, <2>4
  <2>7. original' \ Delivered \subseteq Drop(AfterHash(S, request.hash), request.skip)
    BY <2>1, <2>5
  <2>8. \A d \in Delivered \cap S : Rank(S, d) < request.offset
    BY <2>1
  <2>9. QED BY <2>1, <2>2, <2>3, <2>6, <2>7, <2>8 DEF S
<1>7. CASE chain # <<>>
  <2>1. /\ token # NoToken /\ request.tool = chain[1].tool
        /\ request.offset = token.offset /\ request.hash = token.hash
        /\ ~drift.reskipped => request.skip = 0
    BY <1>1, <1>7 DEF LinkInv
  <2>2. original' = original /\ drift' = drift /\ chain'[1] = chain[1]
    BY <1>1, <1>2, <1>7
  <2>3. ChainListing' = ChainListing
    BY <1>4, <2>2 DEF ChainListing, Listing
  <2>4. (~drift.shrunk => original \subseteq ChainListing) /\ OffsetInv /\ HashInv
    BY <1>7 DEF FlowInv
  <2>5. SameRules' => SameRules
    BY <1>2
  <2>6. SameRules' \/ request.tool = "log" => S = ChainListing'
    BY <1>5, <2>1, <2>2
  <2> HIDE DEF S
  <2>7. ASSUME request.tool \in OffsetTools, SameRules'
        PROVE  /\ ~drift'.shrunk => \A x \in original' \ Delivered : Rank(S, x) >= request.offset
               /\ ~drift'.grown => \A d \in Delivered \cap S : Rank(S, d) < request.offset
    BY <2>1, <2>2, <2>3, <2>4, <2>5, <2>6, <2>7 DEF OffsetInv
  <2>8. ASSUME request.tool = "log", ~drift'.shrunk
        PROVE  /\ request.hash \in S /\ \A d \in Delivered : d <= request.hash
               /\ ~drift'.reskipped =>
                    original' \ Delivered \subseteq Drop(AfterHash(S, request.hash), request.skip)
    <3>1. /\ token.hash \in tree \cap Names
          /\ \A d \in Delivered : d <= token.hash
          /\ ~drift.reskipped => \A x \in original \ Delivered : x > token.hash
      BY <2>1, <2>2, <2>4, <2>8 DEF HashInv
    <3>2. S = tree \cap Names
      BY <2>8 DEF S, Listing, FileTools
    <3>3. S = ChainListing
      BY <2>3, <2>6, <2>8
    <3>4. ASSUME ~drift'.reskipped
          PROVE  original' \ Delivered \subseteq Drop(AfterHash(S, request.hash), request.skip)
      <4>1. request.skip = 0
        BY <2>1, <2>2, <3>4
      <4>2. AfterHash(S, request.hash) = {x \in S : x > request.hash}
        BY <2>1, <3>1, <3>2 DEF AfterHash
      <4>3. AfterHash(S, request.hash) \in SUBSET Names
        BY <1>3, <4>2
      <4>4. Drop(AfterHash(S, request.hash), request.skip) = {x \in S : x > request.hash}
        BY <4>1, <4>2, <4>3, DropNone
      <4>5. \A x \in original' \ Delivered : x \in S /\ x > request.hash
        BY <2>1, <2>2, <2>4, <2>8, <3>1, <3>3, <3>4
      <4>6. QED BY <4>4, <4>5
    <3>5. QED BY <2>1, <3>1, <3>2, <3>4
  <2>9. SameRules' /\ request.tool \in OffsetTools /\ ~drift'.grown => Disjoint
    BY <1>7, <2>1, <2>2, <2>5 DEF FlowInv, ShrinkingNeverRepeats, OffsetTools
  <2>10. request.tool = "log" /\ ~drift'.shrunk => Disjoint
    BY <1>7, <2>1, <2>2 DEF FlowInv, LogGrowthNeverRepeats
  <2>11. QED BY <2>1, <2>2, <2>3, <2>4, <2>6, <2>7, <2>8, <2>9, <2>10 DEF S
<1>8. QED BY <1>6, <1>7 DEF S

LEMMA ServesFlow ==
  ASSUME TypeOK, LinkInv, FlowInv, NEW e, Serve(e), RootAnswers(request.tool, e)
  PROVE  FlowInv'
<1> DEFINE S == Listing(request.tool, e)
           E == Page(e).entries
           D == Delivered
           G == original'
<1>1. /\ request \in Requests /\ request.tool \in AllTools
      /\ token' = IF Page(e).complete THEN NoToken
                  ELSE [signed |-> e, tool |-> request.tool, offset |-> Page(e).offset,
                        limit |-> Page(e).limit, hash |-> Page(e).hash]
      /\ outcome' = IF Page(e).complete THEN "done" ELSE "reading"
      /\ tree' = tree
      /\ E \in SUBSET S /\ S \in SUBSET Names
  <2>1. request \in Requests
    BY ServePage
  <2>2. request.tool \in AllTools
    BY <2>1, ToolsAssumption DEF Requests
  <2>3. QED BY <2>2, ServePage, ListingIsNames
<1>2. token' # NoToken => /\ ~Page(e).complete /\ token'.offset = Page(e).offset
                          /\ token'.hash = Page(e).hash
  BY <1>1
<1>3. outcome' = "done" => Page(e).complete
  BY <1>1
<1>4. /\ Delivered' = D \cup E
      /\ Disjoint /\ E \cap D = {} => Disjoint'
      /\ chain' # <<>>
  BY ServeDelivers
<1>5. /\ chain'[1].tool = request.tool
      /\ SameRules' \/ request.tool = "log" => S = ChainListing'
      /\ ~drift'.shrunk => G \subseteq ChainListing'
      /\ request.tool \in OffsetTools /\ SameRules' =>
           /\ ~drift'.shrunk => \A x \in G \ D : Rank(S, x) >= request.offset
           /\ ~drift'.grown => \A d \in D \cap S : Rank(S, d) < request.offset
      /\ request.tool = "log" /\ ~drift'.shrunk =>
           /\ D = {} \/ (request.hash \in S /\ \A d \in D : d <= request.hash)
           /\ ~drift'.reskipped => G \ D \subseteq Drop(AfterHash(S, request.hash), request.skip)
      /\ SameRules' /\ request.tool \in OffsetTools /\ ~drift'.grown => Disjoint
      /\ request.tool = "log" /\ ~drift'.shrunk => Disjoint
  BY ServeReady
<1>6. D \in SUBSET Names /\ G \in SUBSET Names
  <2>1. G \in SUBSET Names
    BY ServeType DEF TypeOK
  <2>2. \A i \in 1..Len(chain) : chain[i] \in Pages(Len(engines))
    BY ElementOfSeq DEF TypeOK, Pages
  <2>3. QED BY <2>1, <2>2 DEF Pages, Delivered
<1> HIDE DEF S, E, D, G
<1>7. ASSUME request.tool \in OffsetTools, SameRules'
      PROVE  /\ ~drift'.shrunk => /\ \A x \in G \ (D \cup E) : Rank(S, x) >= Page(e).offset
                                  /\ Page(e).complete => G \subseteq D \cup E
             /\ ~drift'.grown => /\ E \cap D = {}
                                 /\ \A d \in (D \cup E) \cap S : Rank(S, d) < Page(e).offset
  <2>1. G \subseteq S /\ (\A x \in G \ D : Rank(S, x) >= request.offset) =>
          /\ \A x \in G \ (D \cup E) : Rank(S, x) >= Page(e).offset
          /\ Page(e).complete => G \subseteq D \cup E
    BY <1>1, <1>7, OffsetStep DEF Page, S, E
  <2>2. (\A d \in D \cap S : Rank(S, d) < request.offset) =>
          /\ E \cap D = {}
          /\ \A d \in (D \cup E) \cap S : Rank(S, d) < Page(e).offset
    BY <1>1, <1>7, OffsetStep DEF Page, S, E
  <2>3. ~drift'.shrunk => G \subseteq S
    BY <1>5, <1>7
  <2>4. QED BY <1>5, <1>7, <2>1, <2>2, <2>3
<1>8. ASSUME request.tool = "log", ~drift'.shrunk
      PROVE  /\ E \cap D = {}
             /\ ~Page(e).complete => /\ Page(e).hash \in S
                                     /\ \A d \in D \cup E : d <= Page(e).hash
             /\ ~drift'.reskipped =>
                  /\ Page(e).complete => G \subseteq D \cup E
                  /\ ~Page(e).complete => \A x \in G \ (D \cup E) : x > Page(e).hash
  <2>1. /\ G \ D \subseteq Drop(AfterHash(S, request.hash), request.skip) =>
             /\ Page(e).complete => G \subseteq D \cup E
             /\ ~Page(e).complete => \A x \in G \ (D \cup E) : x > Page(e).hash
        /\ D = {} \/ (request.hash \in S /\ \A d \in D : d <= request.hash) =>
             /\ E \cap D = {}
             /\ ~Page(e).complete => \A d \in D \cup E : d <= Page(e).hash
        /\ ~Page(e).complete => Page(e).hash \in S
    BY <1>1, <1>6, <1>8, LogStep DEF Page, S, E
  <2>2. QED BY <1>5, <1>8, <2>1
<1>9. OffsetInv'
  <2> SUFFICES ASSUME token' # NoToken, chain'[1].tool \in OffsetTools, SameRules'
               PROVE  /\ ~drift'.shrunk => \A x \in original' \ Delivered' :
                                             Rank(ChainListing', x) >= token'.offset
                      /\ ~drift'.grown => \A d \in Delivered' \cap ChainListing' :
                                            Rank(ChainListing', d) < token'.offset
    BY DEF OffsetInv
  <2>1. S = ChainListing' /\ request.tool \in OffsetTools
    BY <1>5
  <2>2. QED BY <1>2, <1>4, <1>7, <2>1 DEF G
<1>10. HashInv'
  <2> SUFFICES ASSUME token' # NoToken, chain'[1].tool = "log", ~drift'.shrunk
               PROVE  /\ token'.hash \in tree' \cap Names
                      /\ \A d \in Delivered' : d <= token'.hash
                      /\ ~drift'.reskipped => \A x \in original' \ Delivered' : x > token'.hash
    BY DEF HashInv
  <2>1. request.tool = "log"
    BY <1>5
  <2>2. S = tree' \cap Names
    BY <1>1, <2>1 DEF S, Listing, FileTools
  <2>3. QED BY <1>2, <1>4, <1>8, <2>1, <2>2 DEF G
<1>11. GrowthNeverSkips'
  <2> SUFFICES ASSUME outcome' = "done", ~drift'.shrunk, ~drift'.reskipped, SameRules'
               PROVE  original' \subseteq Delivered'
    BY DEF GrowthNeverSkips
  <2>1. Page(e).complete
    BY <1>3
  <2>2. CASE request.tool \in OffsetTools
    BY <1>4, <1>7, <2>1, <2>2 DEF G
  <2>3. CASE request.tool = "log"
    BY <1>4, <1>8, <2>1, <2>3 DEF G
  <2>4. CASE request.tool = "search"
    <3>1. E = S
      BY <1>1, <2>1, <2>4, SearchPages DEF E, Page, S
    <3>2. G \subseteq S
      BY <1>5
    <3>3. QED BY <1>4, <3>1, <3>2 DEF G
  <2>5. QED BY <1>1, <2>2, <2>3, <2>4 DEF AllTools, OffsetTools
<1>12. ShrinkingNeverRepeats'
  <2> SUFFICES ASSUME chain'[1].tool \notin {"log", "search"}, ~drift'.grown, SameRules'
               PROVE  Disjoint'
    BY DEF ShrinkingNeverRepeats
  <2>1. request.tool \in OffsetTools
    BY <1>1, <1>5 DEF AllTools, OffsetTools
  <2>2. QED BY <1>4, <1>5, <1>7, <2>1
<1>13. LogGrowthNeverRepeats'
  <2> SUFFICES ASSUME chain'[1].tool = "log", ~drift'.shrunk
               PROVE  Disjoint'
    BY DEF LogGrowthNeverRepeats
  <2>1. QED BY <1>4, <1>5, <1>8
<1>14. QED BY <1>4, <1>5, <1>9, <1>10, <1>11, <1>12, <1>13 DEF FlowInv, G

LEMMA FlowCorrect == Spec => [](TypeOK /\ LinkInv /\ FlowInv)
<1>1. Init => LinkInv /\ FlowInv
  <2> SUFFICES ASSUME Init PROVE LinkInv /\ FlowInv
    OBVIOUS
  <2>1. chain = <<>> /\ token = NoToken /\ outcome = "none" /\ request = NoRequest
    BY DEF Init
  <2>2. \A i \in 1..Len(chain) : FALSE
    BY <2>1, EmptySeq
  <2>3. LinkInv
    BY <2>1, <2>2 DEF LinkInv
  <2>4. FlowInv
    BY <2>1 DEF FlowInv, GrowthNeverSkips, ShrinkingNeverRepeats, LogGrowthNeverRepeats
  <2>5. QED BY <2>3, <2>4
<1>2. ASSUME TypeOK, LinkInv, FlowInv, [Next]_vars
      PROVE  FlowInv'
  <2>1. ASSUME Restarts PROVE FlowInv'
    BY <2>1 DEF Restarts, FlowInv, GrowthNeverSkips, ShrinkingNeverRepeats, LogGrowthNeverRepeats
  <2>2. QED BY <1>2, <2>1, StepKinds, DriftsFlow, ServesFlow
<1>3. TypeOK /\ LinkInv /\ FlowInv /\ [Next]_vars => (TypeOK /\ LinkInv /\ FlowInv)'
  BY <1>2, StepType, StepLink
<1>4. QED BY <1>1, <1>3, InitType, PTL DEF Spec

\* Whatever is created between the pages of a chain, and whatever reloads of the same rules
\* happen, a chain that ends complete has delivered everything that was there at its start.
THEOREM GrowthKeepsAll == Spec => []GrowthNeverSkips
<1>1. FlowInv => GrowthNeverSkips
  BY DEF FlowInv
<1>2. QED BY <1>1, FlowCorrect, PTL

\* Whatever goes between the pages of aifr_list, aifr_find, aifr_reflog or aifr_stash_list,
\* none of them delivers an entry twice.
THEOREM ShrinkingRepeatsNothing == Spec => []ShrinkingNeverRepeats
<1>1. FlowInv => ShrinkingNeverRepeats
  BY DEF FlowInv
<1>2. QED BY <1>1, FlowCorrect, PTL

\* Whatever commits appear anywhere in the walk between the pages of aifr_log, and whatever its
\* client skips, it delivers no commit twice.
THEOREM LogRepeatsNothing == Spec => []LogGrowthNeverRepeats
<1>1. FlowInv => LogGrowthNeverRepeats
  BY DEF FlowInv
<1>2. QED BY <1>1, FlowCorrect, PTL
=============================================================================
