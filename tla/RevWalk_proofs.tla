---------------------------- MODULE RevWalk_proofs ----------------------------
(***************************************************************************)
(* Theorems about RevWalk, for every finite set of commits, every acyclic  *)
(* history over it with any objects missing and any committer times, every *)
(* revision spec and every cap.                                            *)
(*                                                                         *)
(* A step changes the state of the walk, never the repository; what a set  *)
(* of hashes reaches is therefore stated of a repository h and a flag f,   *)
(* and is the same before and after every step.                            *)
(***************************************************************************)
EXTENDS RevWalk, SequenceFacts, FiniteSetTheorems

FollowedIn(h, f, c) ==
  IF f /\ Len(h.parents[c]) > 1 THEN <<h.parents[c][1]>> ELSE h.parents[c]
ClosedIn(h, f, S) == \A c \in S : c \in h.present => ToSet(FollowedIn(h, f, c)) \subseteq S
ReachIn(h, f, S) ==
  {c \in Commits : \A T \in SUBSET Commits : (S \subseteq T /\ ClosedIn(h, f, T)) => c \in T}

LEMMA ReachIsReachIn == \A S : Reach(S) = ReachIn(history, firstParent, S)
BY DEF Reach, ReachIn, Closed, ClosedIn, Followed, FollowedIn, Present

-----------------------------------------------------------------------------
\* What a set of hashes reaches.

LEMMA FollowedAreParents ==
  ASSUME NEW h \in Histories, NEW f \in BOOLEAN, NEW c \in Commits
  PROVE  /\ FollowedIn(h, f, c) \in Seq(Commits)
         /\ ToSet(FollowedIn(h, f, c)) \subseteq ToSet(h.parents[c])
         /\ ToSet(h.parents[c]) \subseteq Commits
<1>1. h.parents[c] \in Seq(Commits)
  BY HistoriesAssumption
<1>2. QED BY <1>1 DEF FollowedIn, ToSet

LEMMA ReachContains ==
  ASSUME NEW h \in Histories, NEW f \in BOOLEAN, NEW S \in SUBSET Commits
  PROVE  S \subseteq ReachIn(h, f, S) /\ ReachIn(h, f, S) \subseteq Commits /\ ClosedIn(h, f, ReachIn(h, f, S))
<1>1. S \subseteq ReachIn(h, f, S) /\ ReachIn(h, f, S) \subseteq Commits
  BY DEF ReachIn
<1>2. ASSUME NEW c \in ReachIn(h, f, S), c \in h.present, NEW p \in ToSet(FollowedIn(h, f, c))
      PROVE  p \in ReachIn(h, f, S)
  <2>1. p \in Commits
    BY <1>1, <1>2, FollowedAreParents
  <2>2. ASSUME NEW T \in SUBSET Commits, S \subseteq T, ClosedIn(h, f, T) PROVE p \in T
    <3>1. c \in T
      BY <1>2, <2>2 DEF ReachIn
    <3>2. QED BY <1>2, <2>2, <3>1 DEF ClosedIn
  <2>3. QED BY <2>1, <2>2 DEF ReachIn
<1>3. QED BY <1>1, <1>2 DEF ClosedIn

LEMMA ReachIsLeast ==
  ASSUME NEW h, NEW f, NEW S, NEW T \in SUBSET Commits, S \subseteq T, ClosedIn(h, f, T)
  PROVE  ReachIn(h, f, S) \subseteq T
BY DEF ReachIn

LEMMA ReachOfMore ==
  ASSUME NEW h, NEW f, NEW S, NEW T, S \subseteq T
  PROVE  ReachIn(h, f, S) \subseteq ReachIn(h, f, T)
BY DEF ReachIn

\* What a set reaches is what its elements reach.
LEMMA ReachOfElements ==
  ASSUME NEW h \in Histories, NEW f \in BOOLEAN, NEW S \in SUBSET Commits
  PROVE  ReachIn(h, f, S) = UNION {ReachIn(h, f, {s}) : s \in S}
<1> DEFINE U == UNION {ReachIn(h, f, {s}) : s \in S}
<1>1. ASSUME NEW s \in S PROVE ReachIn(h, f, {s}) \subseteq ReachIn(h, f, S)
  BY ReachOfMore
<1>2. \A s \in S : s \in ReachIn(h, f, {s}) /\ ReachIn(h, f, {s}) \subseteq Commits
  BY ReachContains
<1>3. U \subseteq Commits /\ S \subseteq U
  BY <1>2
<1>4. ClosedIn(h, f, U)
  <2>1. ASSUME NEW s \in S, NEW c \in ReachIn(h, f, {s}), c \in h.present
        PROVE  ToSet(FollowedIn(h, f, c)) \subseteq U
    <3>1. ClosedIn(h, f, ReachIn(h, f, {s})) /\ ReachIn(h, f, {s}) \subseteq U
      BY ReachContains
    <3>2. QED BY <2>1, <3>1 DEF ClosedIn
  <2>2. QED BY <2>1 DEF ClosedIn
<1>5. ReachIn(h, f, S) \subseteq U
  <2> HIDE DEF U
  <2> QED BY <1>3, <1>4, ReachIsLeast
<1>6. QED BY <1>1, <1>5

\* A commit is not reached from its parents; from itself, it and what they reach.
LEMMA OnlyItself ==
  ASSUME NEW h \in Histories, NEW f \in BOOLEAN, NEW c \in Commits
  PROVE  ReachIn(h, f, {c}) \ ReachIn(h, f, ToSet(h.parents[c])) = {c}
<1> DEFINE P == ReachIn(h, f, ToSet(h.parents[c]))
<1>1. PICK older \in SUBSET (Commits \ {c}) : \A d \in older \cup {c} : ToSet(h.parents[d]) \subseteq older
  BY HistoriesAssumption
<1>2. ClosedIn(h, f, older)
  BY <1>1, FollowedAreParents DEF ClosedIn
<1>3. c \notin P
  BY <1>1, <1>2, ReachIsLeast
<1>4. P \subseteq Commits /\ ClosedIn(h, f, P) /\ ToSet(h.parents[c]) \subseteq P
  BY FollowedAreParents, ReachContains
<1>5. ClosedIn(h, f, P \cup {c})
  <2> HIDE DEF P
  <2> QED BY <1>4, FollowedAreParents DEF ClosedIn
<1>6. ReachIn(h, f, {c}) \subseteq P \cup {c}
  BY <1>4, <1>5, ReachIsLeast
<1>7. c \in ReachIn(h, f, {c})
  BY ReachContains
<1> HIDE DEF P
<1>8. QED BY <1>3, <1>6, <1>7 DEF P

-----------------------------------------------------------------------------
\* Type correctness.

\* The type invariant, with the lengths the loops over tokens, tips and cursors
\* keep in step.
TypeInv ==
  /\ TypeOK
  /\ phase = "parse" => at <= Len(spec) + 1
  /\ phase \in {"parse", "exclude"} => perTip = <<>>
  /\ phase = "tip" => at <= Len(tips) + 1 /\ Len(perTip) = at - 1
  /\ phase = "sort" => sorted <= Len(commits)
  /\ phase \in {"merge", "done"} => Len(pos) = Len(tips)
  /\ phase \notin {"merge", "done"} => result = <<>>

Tokens == [op : {"exclude", "symmetric", "range", "only", "parents", "minus", "plain"},
           from : Commits, rev : Commits, n : Nat \ {0}]

LEMMA TypeParts ==
  ASSUME TypeInv
  PROVE  /\ history \in Histories /\ spec \in Specs /\ firstParent \in BOOLEAN
         /\ history.parents \in [Commits -> Seq(Commits)] /\ history.time \in [Commits -> Nat]
         /\ history.head \in Commits
         /\ spec \in Seq(Tokens)
         /\ Len(spec) \in Nat /\ Len(tips) \in Nat /\ Len(commits) \in Nat /\ Len(perTip) \in Nat
         /\ \A c \in Commits : /\ Followed(c) \in Seq(Commits) /\ ParentsOf(c) \in Seq(Commits)
                               /\ Followed(c) = FollowedIn(history, firstParent, c)
<1>1. history \in Histories /\ spec \in Specs /\ firstParent \in BOOLEAN
  BY DEF TypeInv, TypeOK
<1>2. /\ history.parents \in [Commits -> Seq(Commits)] /\ history.time \in [Commits -> Nat]
      /\ history.head \in Commits
  BY <1>1, HistoriesAssumption
<1>3. spec \in Seq(Tokens)
  BY <1>1, SpecsAssumption DEF Tokens
<1>4. Len(spec) \in Nat /\ Len(tips) \in Nat /\ Len(commits) \in Nat /\ Len(perTip) \in Nat
  BY <1>3, LenProperties DEF TypeInv, TypeOK
<1>5. ASSUME NEW c \in Commits
      PROVE  /\ Followed(c) \in Seq(Commits) /\ ParentsOf(c) \in Seq(Commits)
             /\ Followed(c) = FollowedIn(history, firstParent, c)
  BY <1>1, <1>2, FollowedAreParents DEF Followed, FollowedIn, ParentsOf
<1>6. QED BY <1>1, <1>2, <1>3, <1>4, <1>5

LEMMA InitTyped == Init => TypeInv
<1> SUFFICES ASSUME Init PROVE TypeInv
  OBVIOUS
<1>1. \A S : <<>> \in Seq(S) /\ Len(<<>>) = 0
  BY EmptySeq
<1>2. Len(spec) \in Nat
  BY SpecsAssumption DEF Init
<1>3. QED BY <1>1, <1>2 DEF Init, TypeInv, TypeOK

-----------------------------------------------------------------------------
\* What a token adds, and what the tips it becomes stand for.

AddsIn(h, f, t) ==
  CASE t.op = "exclude"   -> {}
    [] t.op = "symmetric" -> (ReachIn(h, f, {t.from}) \ ReachIn(h, f, {t.rev}))
                               \cup (ReachIn(h, f, {t.rev}) \ ReachIn(h, f, {t.from}))
    [] t.op = "only"      -> {t.rev}
    [] t.op = "parents"   -> ReachIn(h, f, ToSet(h.parents[t.rev]))
    [] OTHER              -> ReachIn(h, f, {t.rev})
BansIn(h, t) ==
  CASE t.op = "exclude" -> {t.rev}
    [] t.op = "range"   -> {t.from}
    [] t.op = "minus"   -> {h.parents[t.rev][t.n]}
    [] OTHER            -> {}

TipAdds(h, f, tip) == ReachIn(h, f, {tip.hash}) \ ReachIn(h, f, ToSet(tip.locals))

\* Where a tip with its side comes from, among the tokens T.
Sided(h, f, tip, T) ==
  /\ tip.side = "left" => \E t \in T : t.op = "symmetric" /\ tip.hash = t.from /\ tip.locals = <<t.rev>>
  /\ tip.side = "right" => \E t \in T : t.op = "symmetric" /\ tip.hash = t.rev /\ tip.locals = <<t.from>>
  /\ tip.side = "none" => \E t \in T : t.op # "symmetric" /\ TipAdds(h, f, tip) \subseteq AddsIn(h, f, t)

\* New tips and excludes say what the token t says.
Says(newTips, newExcludes, t) ==
  /\ UNION {TipAdds(history, firstParent, x) : x \in ToSet(newTips)} = AddsIn(history, firstParent, t)
  /\ ToSet(newExcludes) = BansIn(history, t)
  /\ \A x \in ToSet(newTips) : Sided(history, firstParent, x, {t})

LEMMA ReachOfNothing ==
  ASSUME NEW h, NEW f
  PROVE  ReachIn(h, f, {}) = {}
<1>1. ClosedIn(h, f, {})
  BY DEF ClosedIn
<1>2. {} \in SUBSET Commits
  OBVIOUS
<1>3. ReachIn(h, f, {}) \subseteq {}
  BY <1>1, <1>2, ReachIsLeast
<1>4. QED BY <1>3

\* A tip without excludes of its own, made of the token t, adds what t adds.
LEMMA PlainTip ==
  ASSUME NEW h, NEW f, NEW c \in Commits, NEW t, t.op # "symmetric",
         ReachIn(h, f, {c}) = AddsIn(h, f, t)
  PROVE  LET x == Tip(c, "none", <<>>)
         IN /\ x \in Tips /\ <<x>> \in Seq(Tips)
            /\ UNION {TipAdds(h, f, y) : y \in ToSet(<<x>>)} = AddsIn(h, f, t)
            /\ \A y \in ToSet(<<x>>) : Sided(h, f, y, {t})
<1> DEFINE x == Tip(c, "none", <<>>)
<1>1. x.hash = c /\ x.side = "none" /\ x.locals = <<>>
  BY DEF Tip
<1>2. x \in Tips /\ <<x>> \in Seq(Tips)
  <2>1. x \in Tips
    BY EmptySeq DEF Tip, Tips, Sides
  <2> HIDE DEF x
  <2>2. QED BY <2>1
<1> HIDE DEF x
<1>3. TipAdds(h, f, x) = AddsIn(h, f, t)
  BY <1>1, SetOfFew, ReachOfNothing DEF TipAdds
<1>4. Sided(h, f, x, {t})
  BY <1>1, <1>3 DEF Sided
<1>5. UNION {TipAdds(h, f, y) : y \in ToSet(<<x>>)} = AddsIn(h, f, t)
  BY <1>3, SetOfFew
<1>6. QED BY <1>2, <1>4, <1>5, SetOfFew DEF x

LEMMA TokenMeans ==
  ASSUME TypeInv, phase = "parse", at <= Len(spec), Resolves(Token), ApplyToken(Token)
  PROVE  /\ Token \in ToSet(spec)
         /\ \E newTips \in Seq(Tips), newExcludes \in Seq(Commits) :
              Add(newTips, newExcludes) /\ Says(newTips, newExcludes, Token)
<1> DEFINE t == Token
           h == history
           f == firstParent
<1>1. t \in Tokens /\ t \in ToSet(spec)
  <2>1. at \in 1..Len(spec)
    BY TypeParts DEF TypeInv, TypeOK
  <2>2. QED BY <2>1, TypeParts, SetOfSeq DEF Token
<1>2. /\ t.rev \in Commits /\ t.from \in Commits /\ t.n \in Nat \ {0}
      /\ ParentsOf(t.rev) \in Seq(Commits) /\ ParentsOf(t.rev) = h.parents[t.rev] /\ h \in Histories /\ f \in BOOLEAN
      /\ t.op \in {"exclude", "symmetric", "range", "only", "parents", "minus", "plain"}
  BY <1>1, TypeParts DEF Tokens, ParentsOf
<1>3. \A c \in Commits : <<c>> \in Seq(Commits)
  OBVIOUS
<1>4. \A S : <<>> \in Seq(S)
  BY EmptySeq
<1> SUFFICES \E newTips \in Seq(Tips), newExcludes \in Seq(Commits) :
               Add(newTips, newExcludes) /\ Says(newTips, newExcludes, t)
  BY <1>1
<1>5. ApplyToken(t) /\ Resolves(t)
  OBVIOUS
<1> HIDE DEF t
<1>6. CASE t.op = "exclude"
  <2>1. Add(<<>>, <<t.rev>>)
    BY <1>5, <1>6 DEF ApplyToken
  <2>2. Says(<<>>, <<t.rev>>, t)
    BY <1>6, SetOfFew DEF Says, AddsIn, BansIn
  <2>3. QED BY <1>2, <1>3, <1>4, <2>1, <2>2
<1>7. CASE t.op = "symmetric"
  <2> DEFINE l == Tip(t.from, "left", <<t.rev>>)
             r == Tip(t.rev, "right", <<t.from>>)
  <2>1. Add(<<l, r>>, <<>>)
    BY <1>5, <1>7 DEF ApplyToken, SymmetricTips
  <2>2. /\ l.hash = t.from /\ l.side = "left" /\ l.locals = <<t.rev>>
        /\ r.hash = t.rev /\ r.side = "right" /\ r.locals = <<t.from>>
    BY DEF Tip
  <2>3. l \in Tips /\ r \in Tips
    BY <1>2, <1>3 DEF Tip, Tips, Sides
  <2> HIDE DEF l, r
  <2>4. <<l, r>> \in Seq(Tips)
    BY <2>3
  <2>5. /\ TipAdds(h, f, l) = ReachIn(h, f, {t.from}) \ ReachIn(h, f, {t.rev})
        /\ TipAdds(h, f, r) = ReachIn(h, f, {t.rev}) \ ReachIn(h, f, {t.from})
    BY <2>2, SetOfFew DEF TipAdds
  <2>6. UNION {TipAdds(h, f, x) : x \in {l, r}} = AddsIn(h, f, t)
    BY <1>7, <2>5 DEF AddsIn
  <2>7. Sided(h, f, l, {t}) /\ Sided(h, f, r, {t})
    BY <1>7, <2>2 DEF Sided
  <2>8. BansIn(h, t) = {}
    BY <1>7 DEF BansIn
  <2>9. Says(<<l, r>>, <<>>, t)
    BY <2>6, <2>7, <2>8, SetOfFew DEF Says
  <2>10. QED BY <1>4, <2>1, <2>4, <2>9
<1>8. CASE t.op = "range"
  <2> DEFINE x == Tip(t.rev, "none", <<>>)
  <2>1. Add(<<x>>, <<t.from>>)
    BY <1>5, <1>8 DEF ApplyToken
  <2>2. ReachIn(h, f, {t.rev}) = AddsIn(h, f, t) /\ BansIn(h, t) = {t.from}
    BY <1>8 DEF AddsIn, BansIn
  <2>3. /\ <<x>> \in Seq(Tips)
        /\ UNION {TipAdds(h, f, y) : y \in ToSet(<<x>>)} = AddsIn(h, f, t)
        /\ \A y \in ToSet(<<x>>) : Sided(h, f, y, {t})
    <3>1. t.op # "symmetric"
      BY <1>8
    <3>2. QED BY <1>2, <2>2, <3>1, PlainTip
  <2> HIDE DEF x
  <2>4. Says(<<x>>, <<t.from>>, t)
    BY <2>2, <2>3, SetOfFew DEF Says
  <2>5. QED BY <1>2, <1>3, <2>1, <2>3, <2>4
<1>9. CASE t.op = "only"
  <2> DEFINE x == Tip(t.rev, "none", ParentsOf(t.rev))
  <2>1. Add(<<x>>, <<>>)
    BY <1>5, <1>9 DEF ApplyToken
  <2>2. x \in Tips /\ x.hash = t.rev /\ x.side = "none" /\ x.locals = h.parents[t.rev]
    BY <1>2 DEF Tip, Tips, Sides
  <2> HIDE DEF x
  <2>3. AddsIn(h, f, t) = {t.rev} /\ BansIn(h, t) = {}
    BY <1>9 DEF AddsIn, BansIn
  <2>4. TipAdds(h, f, x) = {t.rev}
    BY <1>2, <2>2, OnlyItself DEF TipAdds
  <2>5. <<x>> \in Seq(Tips) /\ Sided(h, f, x, {t})
    BY <1>9, <2>2, <2>3, <2>4 DEF Sided
  <2>6. Says(<<x>>, <<>>, t)
    BY <2>3, <2>4, <2>5, SetOfFew DEF Says
  <2>7. QED BY <1>4, <2>1, <2>5, <2>6
<1>10. CASE t.op = "parents"
  <2> DEFINE ps == ParentsOf(t.rev)
             ts == [i \in DOMAIN ps |-> Tip(ps[i], "none", <<>>)]
  <2>1. Add(ts, <<>>)
    BY <1>5, <1>10 DEF ApplyToken
  <2>2. DOMAIN ps = 1..Len(ps) /\ Len(ps) \in Nat /\ \A i \in 1..Len(ps) : ps[i] \in Commits
    BY <1>2, ElementOfSeq, LenProperties
  <2>3. \A c \in Commits : Tip(c, "none", <<>>) \in Tips
    BY <1>4 DEF Tip, Tips, Sides
  <2>4. ToSet(ps) = {ps[i] : i \in 1..Len(ps)} /\ ToSet(ps) \subseteq Commits /\ ps = h.parents[t.rev]
    <3>1. ToSet(ps) = {ps[i] : i \in 1..Len(ps)} /\ ToSet(ps) \subseteq Commits
      BY <1>2, SetOfSeq
    <3>2. QED BY <1>2, <3>1
  <2> HIDE DEF ps
  <2>5. ts \in Seq(Tips)
    <3>1. ts = [i \in 1..Len(ps) |-> Tip(ps[i], "none", <<>>)]
      BY <2>2
    <3>2. QED BY <2>2, <2>3, <3>1, IsASeq
  <2>6. ToSet(ts) = {Tip(c, "none", <<>>) : c \in ToSet(ps)}
    <3>1. ToSet(ts) = {Tip(ps[i], "none", <<>>) : i \in 1..Len(ps)}
      BY <2>2 DEF ToSet
    <3>2. QED BY <2>4, <3>1
  <2> HIDE DEF ts
  <2>7. ASSUME NEW c PROVE TipAdds(h, f, Tip(c, "none", <<>>)) = ReachIn(h, f, {c})
    BY SetOfFew, ReachOfNothing DEF TipAdds, Tip
  <2>8. UNION {TipAdds(h, f, x) : x \in ToSet(ts)} = ReachIn(h, f, ToSet(ps))
    <3>1. UNION {TipAdds(h, f, x) : x \in ToSet(ts)} = UNION {ReachIn(h, f, {c}) : c \in ToSet(ps)}
      BY <2>6, <2>7
    <3>2. QED BY <1>2, <2>4, <3>1, ReachOfElements
  <2>9. AddsIn(h, f, t) = ReachIn(h, f, ToSet(ps)) /\ BansIn(h, t) = {}
    BY <1>10, <2>4 DEF AddsIn, BansIn
  <2>10. ASSUME NEW x \in ToSet(ts) PROVE Sided(h, f, x, {t})
    <3>1. PICK c \in ToSet(ps) : x = Tip(c, "none", <<>>)
      BY <2>6
    <3>2. x.side = "none" /\ TipAdds(h, f, x) \subseteq AddsIn(h, f, t)
      BY <2>7, <2>8, <2>9, <3>1 DEF Tip
    <3>3. QED BY <1>10, <3>2 DEF Sided
  <2>11. Says(ts, <<>>, t)
    BY <2>8, <2>9, <2>10, SetOfFew DEF Says
  <2>12. QED BY <1>4, <2>1, <2>5, <2>11
<1>11. CASE t.op = "minus"
  <2> DEFINE x == Tip(t.rev, "none", <<>>)
             p == ParentsOf(t.rev)[t.n]
  <2>1. Add(<<x>>, <<p>>)
    BY <1>5, <1>11 DEF ApplyToken
  <2>2. t.n \in 1..Len(ParentsOf(t.rev))
    BY <1>2, <1>5, <1>11 DEF Resolves
  <2>3. p \in Commits /\ p = h.parents[t.rev][t.n]
    BY <1>2, <2>2, ElementOfSeq
  <2>4. ReachIn(h, f, {t.rev}) = AddsIn(h, f, t) /\ BansIn(h, t) = {p}
    BY <1>11, <2>3 DEF AddsIn, BansIn
  <2> HIDE DEF p
  <2>5. /\ <<x>> \in Seq(Tips)
        /\ UNION {TipAdds(h, f, y) : y \in ToSet(<<x>>)} = AddsIn(h, f, t)
        /\ \A y \in ToSet(<<x>>) : Sided(h, f, y, {t})
    <3>1. t.op # "symmetric"
      BY <1>11
    <3>2. QED BY <1>2, <2>4, <3>1, PlainTip
  <2> HIDE DEF x
  <2>6. Says(<<x>>, <<p>>, t)
    BY <2>4, <2>5, SetOfFew DEF Says
  <2>7. QED BY <1>3, <2>1, <2>3, <2>5, <2>6
<1>12. CASE t.op = "plain"
  <2> DEFINE x == Tip(t.rev, "none", <<>>)
  <2>1. Add(<<x>>, <<>>)
    BY <1>5, <1>12 DEF ApplyToken
  <2>2. ReachIn(h, f, {t.rev}) = AddsIn(h, f, t) /\ BansIn(h, t) = {}
    BY <1>12 DEF AddsIn, BansIn
  <2>3. /\ <<x>> \in Seq(Tips)
        /\ UNION {TipAdds(h, f, y) : y \in ToSet(<<x>>)} = AddsIn(h, f, t)
        /\ \A y \in ToSet(<<x>>) : Sided(h, f, y, {t})
    <3>1. t.op # "symmetric"
      BY <1>12
    <3>2. QED BY <1>2, <2>2, <3>1, PlainTip
  <2> HIDE DEF x
  <2>4. Says(<<x>>, <<>>, t)
    BY <2>2, <2>3, SetOfFew DEF Says
  <2>5. QED BY <1>4, <2>1, <2>3, <2>4
<1>13. QED BY <1>2, <1>6, <1>7, <1>8, <1>9, <1>10, <1>11, <1>12

\* The slot of an insertion: behind the last of the sorted ones that is not older.
LEMMA SlotIsSlot ==
  ASSUME sorted \in Nat, NEW c
  PROVE  /\ Slot(c) \in 0..sorted
         /\ Slot(c) # 0 => Time(commits[Slot(c)]) >= Time(c)
         /\ \A j \in 1..sorted : j > Slot(c) => ~(Time(commits[j]) >= Time(c))
<1>1. CASE NotOlder(c) = {}
  BY <1>1 DEF Slot, NotOlder
<1>2. CASE NotOlder(c) # {}
  <2>1. \A j \in NotOlder(c) : j \in Nat /\ j <= sorted
    BY DEF NotOlder
  <2>2. \E j \in NotOlder(c) : \A k \in NotOlder(c) : k <= j
    BY <1>2, <2>1, LargestOfNat
  <2>3. Slot(c) \in NotOlder(c) /\ \A k \in NotOlder(c) : k <= Slot(c)
    BY <1>2, <2>2 DEF Slot
  <2>4. QED BY <2>3 DEF NotOlder
<1>3. QED BY <1>1, <1>2

LEMMA NextTyped == TypeInv /\ [Next]_vars => TypeInv'
<1> SUFFICES ASSUME TypeInv, [Next]_vars PROVE TypeInv'
  OBVIOUS
<1>0. \A how : Stop(how) => UNCHANGED <<input, at, revset, search, global, excl, commits, sorted, perTip, pos, result>>
  BY DEF Stop
<1>1. CASE ParseToken
  <2>1. CASE Resolves(Token) /\ ApplyToken(Token)
    <3>1. PICK newTips \in Seq(Tips), newExcludes \in Seq(Commits) : Add(newTips, newExcludes)
      BY <1>1, <2>1, TokenMeans DEF ParseToken
    <3>2. tips' \in Seq(Tips) /\ excludes' \in Seq(Commits) /\ at' = at + 1
      BY <3>1, ConcatProperties DEF Add, TypeInv, TypeOK
    <3>3. phase = "parse" /\ at <= Len(spec) /\ Len(spec) \in Nat
      BY <1>1, TypeParts DEF ParseToken
    <3>4. UNCHANGED <<input, phase, search, global, excl, commits, sorted, perTip, pos, result>>
      BY <3>1 DEF Add
    <3>5. TypeOK'
      BY <3>2, <3>3, <3>4 DEF TypeInv, TypeOK, input, search
    <3>6. at \in Nat
      BY DEF TypeInv, TypeOK
    <3>7. QED BY <3>2, <3>3, <3>4, <3>5, <3>6 DEF TypeInv, input
  <2>2. CASE Stop("invalid")
    BY <1>1, <2>2 DEF ParseToken, Stop, TypeInv, TypeOK, input, revset, search
  <2>3. QED BY <1>1, <2>1, <2>2 DEF ParseToken
<1>2. CASE Parsed
  <2>1. CASE Stop("invalid")
    BY <1>2, <2>1 DEF Parsed, Stop, TypeInv, TypeOK, input, revset, search
  <2>2. CASE /\ tips' = (IF spec = <<>> THEN <<Tip(history.head, "none", <<>>)>> ELSE tips)
             /\ phase' = "exclude" /\ Search(excludes)
             /\ UNCHANGED <<input, at, excludes, global, excl, commits, sorted, perTip, pos, result>>
    <3>1. Tip(history.head, "none", <<>>) \in Tips
      BY TypeParts, EmptySeq DEF Tip, Tips, Sides
    <3>2. tips' \in Seq(Tips)
      BY <2>2, <3>1 DEF TypeInv, TypeOK
    <3>3. queue' \in Seq(Commits) /\ parents' \in Seq(Commits) /\ found' \subseteq Commits
      BY <2>2, EmptySeq DEF Search, TypeInv, TypeOK
    <3>4. phase = "parse"
      BY <1>2 DEF Parsed
    <3>5. QED BY <2>2, <3>2, <3>3, <3>4 DEF TypeInv, TypeOK, input
  <2>3. QED BY <1>2, <2>1, <2>2 DEF Parsed
<1>3. CASE LookAtParent
  <2>1. /\ parents # <<>> /\ parents' = Tail(parents)
        /\ queue' \in {queue, Append(queue, Head(parents))} /\ found' = found \cup {Head(parents)}
        /\ UNCHANGED <<input, phase, at, revset, global, excl, commits, sorted, perTip, pos, result>>
    BY <1>3 DEF LookAtParent
  <2>2. Head(parents) \in Commits /\ parents' \in Seq(Commits)
    BY <2>1, SetOfTail DEF TypeInv, TypeOK
  <2>3. queue' \in Seq(Commits) /\ found' \subseteq Commits
    <3>1. queue \in Seq(Commits) /\ found \subseteq Commits
      BY DEF TypeInv, TypeOK
    <3>2. Append(queue, Head(parents)) \in Seq(Commits)
      BY <2>2, <3>1, SetOfAppend
    <3>3. QED BY <2>1, <2>2, <3>1, <3>2
  <2>4. QED BY <2>1, <2>2, <2>3 DEF TypeInv, TypeOK, input, revset
<1>4. CASE Visit
  <2>1. /\ queue # <<>> /\ queue' = Tail(queue) /\ phase \in {"exclude", "local", "walk"}
        /\ parents' \in {<<>>, Followed(Head(queue))}
        /\ commits' \in {commits, Append(commits, Head(queue))}
        /\ UNCHANGED <<input, phase, at, revset, found, global, excl, sorted, perTip, pos, result>>
    BY <1>4 DEF Visit, Searching
  <2>2. Head(queue) \in Commits /\ queue' \in Seq(Commits)
    BY <2>1, SetOfTail DEF TypeInv, TypeOK
  <2>3. parents' \in Seq(Commits) /\ commits' \in Seq(Commits)
    <3>1. commits \in Seq(Commits) /\ <<>> \in Seq(Commits) /\ Followed(Head(queue)) \in Seq(Commits)
      BY <2>2, TypeParts, EmptySeq DEF TypeInv, TypeOK
    <3>2. Append(commits, Head(queue)) \in Seq(Commits)
      BY <2>2, <3>1, SetOfAppend
    <3>3. QED BY <2>1, <3>1, <3>2
  <2>4. QED BY <2>1, <2>2, <2>3 DEF TypeInv, TypeOK, input, revset
<1>5. CASE RefuseCap
  BY <1>5 DEF RefuseCap, Searching, Stop, TypeInv, TypeOK, input, revset, search
<1>6. CASE GlobalDone
  <2>1. /\ phase = "exclude" /\ global' = found /\ phase' = "tip" /\ at' = 1
        /\ UNCHANGED <<input, revset, search, excl, commits, sorted, perTip, pos, result>>
    BY <1>6 DEF GlobalDone
  <2>2. Len(perTip') = 0
    BY <2>1, EmptySeq DEF TypeInv
  <2>3. QED BY <2>1, <2>2 DEF TypeInv, TypeOK, input, revset, search
<1>7. CASE StartTip
  <2>1. /\ phase = "tip" /\ at <= Len(tips) /\ phase' = "local" /\ Search(tips[at].locals)
        /\ UNCHANGED <<input, at, revset, global, excl, commits, sorted, perTip, pos, result>>
    BY <1>7 DEF StartTip
  <2>2. at \in 1..Len(tips) /\ tips \in Seq(Tips)
    BY <2>1, TypeParts DEF TypeInv, TypeOK
  <2>3. tips[at] \in Tips
    BY <2>2, ElementOfSeq
  <2>4. queue' \in Seq(Commits) /\ parents' \in Seq(Commits) /\ found' \subseteq Commits
    BY <2>1, <2>3, EmptySeq DEF Search, Tips
  <2>5. QED BY <2>1, <2>4 DEF TypeInv, TypeOK, input, revset
<1>8. CASE LocalDone
  <2>1. /\ phase = "local" /\ excl' = global \cup found /\ commits' = <<>> /\ phase' = "walk"
        /\ Search(<<tips[at].hash>>)
        /\ UNCHANGED <<input, at, revset, global, sorted, perTip, pos, result>>
    BY <1>8 DEF LocalDone
  <2>2. at \in 1..Len(tips) /\ tips \in Seq(Tips)
    BY <2>1, TypeParts DEF TypeInv, TypeOK
  <2>3. tips[at] \in Tips
    BY <2>2, ElementOfSeq
  <2>4. queue' \in Seq(Commits) /\ parents' \in Seq(Commits) /\ found' \subseteq Commits /\ commits' \in Seq(Commits)
    BY <2>1, <2>3, EmptySeq DEF Search, Tips
  <2>5. QED BY <2>1, <2>4 DEF TypeInv, TypeOK, input, revset
<1>9. CASE WalkDone
  <2>1. /\ phase = "walk" /\ phase' = "sort" /\ sorted' = 0
        /\ UNCHANGED <<input, at, revset, search, global, excl, commits, perTip, pos, result>>
    BY <1>9 DEF WalkDone
  <2>2. QED BY <2>1 DEF TypeInv, TypeOK, input, revset, search
<1>10. CASE Insert
  <2>1. /\ phase = "sort" /\ sorted < Len(commits) /\ sorted' = sorted + 1
        /\ commits' = Moved(commits, Slot(commits[sorted + 1]), sorted)
        /\ UNCHANGED <<input, phase, at, revset, search, global, excl, perTip, pos, result>>
    BY <1>10 DEF Insert, Moved
  <2>2. commits \in Seq(Commits) /\ sorted \in Nat /\ Len(commits) \in Nat
    BY TypeParts DEF TypeInv, TypeOK
  <2>3. Slot(commits[sorted + 1]) \in 0..sorted
    BY <2>2, SlotIsSlot
  <2>4. commits' \in Seq(Commits) /\ Len(commits') = Len(commits)
    BY <2>1, <2>2, <2>3, MovedElements
  <2>5. TypeOK'
    BY <2>1, <2>2, <2>4 DEF TypeInv, TypeOK, input, revset, search
  <2>6. QED BY <2>1, <2>2, <2>4, <2>5 DEF TypeInv, input, revset
<1>11. CASE SortDone
  <2>1. /\ phase = "sort" /\ perTip' = Append(perTip, commits) /\ at' = at + 1 /\ phase' = "tip"
        /\ UNCHANGED <<input, revset, search, global, excl, commits, sorted, pos, result>>
    BY <1>11 DEF SortDone
  <2>2. /\ perTip' \in Seq(Seq(Commits)) /\ Len(perTip') = Len(perTip) + 1
        /\ Len(perTip) = at - 1 /\ at <= Len(tips) /\ Len(tips) \in Nat /\ at \in Nat \ {0}
    BY <2>1, TypeParts, AppendProperties DEF TypeInv, TypeOK
  <2>3. TypeOK'
    BY <2>1, <2>2 DEF TypeInv, TypeOK, input, revset, search
  <2>4. at' <= Len(tips') + 1 /\ Len(perTip') = at' - 1
    BY <2>1, <2>2 DEF TypeInv, TypeOK, revset
  <2>5. QED BY <2>1, <2>3, <2>4 DEF TypeInv
<1>12. CASE StartMerge
  <2>1. /\ phase = "tip" /\ at > Len(tips) /\ phase' = "merge" /\ pos' = [i \in DOMAIN tips |-> 1]
        /\ UNCHANGED <<input, at, revset, search, global, excl, commits, sorted, perTip, result>>
    BY <1>12 DEF StartMerge
  <2>2. pos' = [i \in 1..Len(tips) |-> 1]
    BY <2>1, LenProperties DEF TypeInv, TypeOK
  <2>3. pos' \in Seq(Nat \ {0}) /\ Len(pos') = Len(tips)
    BY <2>2, IsASeq
  <2>4. QED BY <2>1, <2>3 DEF TypeInv, TypeOK, input, revset, search
<1>13. ASSUME NEW i \in DOMAIN pos, Merge(i) PROVE TypeInv'
  <2>1. /\ phase = "merge" /\ pos' = [pos EXCEPT ![i] = @ + 1] /\ pos[i] <= Len(perTip[i])
        /\ result' \in {result, Append(result, [commit |-> HeadOf(i), side |-> tips[i].side])}
        /\ UNCHANGED <<input, phase, at, revset, search, global, excl, commits, sorted, perTip>>
    BY <1>13 DEF Merge, Cursors
  <2>2. /\ i \in 1..Len(pos) /\ pos \in Seq(Nat \ {0}) /\ i \in 1..Len(tips) /\ i \in 1..Len(perTip)
        /\ tips \in Seq(Tips) /\ perTip \in Seq(Seq(Commits))
    BY <2>1, TypeParts, LenProperties DEF TypeInv, TypeOK
  <2>3. pos[i] \in Nat \ {0} /\ tips[i] \in Tips /\ perTip[i] \in Seq(Commits)
    BY <2>2, ElementOfSeq
  <2>4. HeadOf(i) \in Commits
    <3>1. pos[i] \in 1..Len(perTip[i])
      BY <2>1, <2>3
    <3>2. QED BY <2>3, <3>1, ElementOfSeq DEF HeadOf
  <2>5. pos' \in Seq(Nat \ {0}) /\ Len(pos') = Len(pos)
    BY <2>1, <2>2, <2>3, ExceptSeq
  <2>6. result' \in Seq([commit : Commits, side : Sides])
    <3>1. [commit |-> HeadOf(i), side |-> tips[i].side] \in [commit : Commits, side : Sides]
      BY <2>3, <2>4 DEF Tips
    <3>2. result \in Seq([commit : Commits, side : Sides])
      BY DEF TypeInv, TypeOK
    <3>3. Append(result, [commit |-> HeadOf(i), side |-> tips[i].side]) \in Seq([commit : Commits, side : Sides])
      BY <3>1, <3>2, SetOfAppend
    <3>4. QED BY <2>1, <3>2, <3>3
  <2>7. QED BY <2>1, <2>5, <2>6 DEF TypeInv, TypeOK, input, revset, search
<1>14. CASE MergeDone
  BY <1>14 DEF MergeDone, Stop, TypeInv, TypeOK, input, revset, search
<1>15. CASE UNCHANGED vars
  BY <1>15 DEF vars, TypeInv, TypeOK, input, revset, search
<1>16. QED
  BY <1>1, <1>2, <1>3, <1>4, <1>5, <1>6, <1>7, <1>8, <1>9, <1>10, <1>11, <1>12, <1>13, <1>14, <1>15 DEF Next

\* The type invariant, for every history and spec.
THEOREM TypeCorrect == Spec => []TypeOK
<1>1. TypeInv => TypeOK
  BY DEF TypeInv
<1>2. QED BY <1>1, InitTyped, NextTyped, PTL DEF Spec

-----------------------------------------------------------------------------
\* The invariants the theorems rest on, one for each stage of the walk.

Reached(S) == ReachIn(history, firstParent, S)
Excluded == Reached(ToSet(excludes))

\* Parsing: tips and excludes say what the tokens before this one say.
Parsing == phase = "parse"
TokensDone == IF Parsing THEN {spec[j] : j \in 1..(at - 1)} ELSE ToSet(spec)
TokenInv ==
  phase # "invalid" =>
    /\ UNION {TipAdds(history, firstParent, x) : x \in ToSet(tips)}
         = IF spec = <<>> /\ ~Parsing THEN Reached({history.head})
           ELSE UNION {AddsIn(history, firstParent, t) : t \in TokensDone}
    /\ ToSet(excludes) = UNION {BansIn(history, t) : t \in TokensDone}
    /\ \A x \in ToSet(tips) : \/ Sided(history, firstParent, x, TokensDone)
                              \/ x.side = "none" /\ spec = <<>>

\* Searching: what was found is reached from the hashes the search started from, and
\* whatever is reached from them and not found is behind a commit still to be looked at.
Starts ==
  CASE phase = "exclude" -> ToSet(excludes)
    [] phase = "local"   -> ToSet(tips[at].locals)
    [] phase = "walk"    -> {tips[at].hash}
    [] OTHER             -> {}
Opened == {c \in found : c \in history.present /\ c \notin Barrier /\ c \notin ToSet(queue)}
SearchInv ==
  Searching =>
    /\ Starts \subseteq found \cup ToSet(parents)
    /\ found \cup ToSet(parents) \subseteq Reached(Starts)
    /\ ToSet(queue) \subseteq found \ Barrier
    /\ \A c \in Opened : ToSet(FollowedIn(history, firstParent, c)) \subseteq found \cup ToSet(parents)

\* Walking the tips: what is excluded, what the walk of this tip found and what the walks
\* of the ones before it found.
ShowsIn(h, f, S, x) == (TipAdds(h, f, x) \ ReachIn(h, f, S)) \cap h.present
TipShows(x) == ShowsIn(history, firstParent, ToSet(excludes), x)
WalkInv ==
  /\ phase \in {"tip", "local", "walk", "sort", "merge", "done"} => global = Excluded
  /\ phase = "walk" =>
       /\ excl = Excluded \cup Reached(ToSet(tips[at].locals))
       /\ ToSet(commits) \subseteq (found \ excl) \cap history.present
       /\ (found \ excl) \cap history.present \subseteq ToSet(commits) \cup ToSet(queue)
  /\ phase = "sort" => ToSet(commits) = TipShows(tips[at])
  /\ \A i \in 1..Len(perTip) : ToSet(perTip[i]) = TipShows(tips[i])

\* Merging: the commits shown are those the cursors have passed.
Passed(lists, p) == {c \in Commits : \E i \in 1..Len(p) : \E k \in 1..(p[i] - 1) : lists[i][k] = c}
MergeInv ==
  /\ phase \in {"merge", "done"} =>
       /\ Shown = Passed(perTip, pos)
       /\ \A i \in 1..Len(pos) : pos[i] <= Len(perTip[i]) + 1
       /\ \A j \in 1..Len(result) : \E i \in 1..Len(pos) :
            result[j].side = tips[i].side /\ result[j].commit \in ToSet(perTip[i])
  /\ phase = "done" => Cursors = {}

\* Times: the part already sorted is in order, so is every list, and what is shown is no
\* older than what is still to come.
InOrder(h, s, n) == \A j, k \in 1..n : j < k => h.time[s[j]] >= h.time[s[k]]
OrderInv ==
  /\ phase = "sort" => InOrder(history, commits, sorted)
  /\ \A i \in 1..Len(perTip) : InOrder(history, perTip[i], Len(perTip[i]))
  /\ phase \in {"merge", "done"} =>
       \A j \in 1..Len(result), i \in Cursors :
         history.time[result[j].commit] >= history.time[perTip[i][pos[i]]]
  /\ NewestFirst

\* Caps: a set that is being enumerated for exclusion is within the cap or has commits to
\* visit, one that is complete is within it.
Fits(h, f, S) == Cardinality(ReachIn(h, f, S)) <= maxWalk
CapInv ==
  /\ phase \in {"exclude", "local"} => Cardinality(found) <= maxWalk \/ queue # <<>>
  /\ phase \in {"tip", "local", "walk", "sort", "merge", "done"} =>
       Fits(history, firstParent, ToSet(excludes))
  /\ phase \in {"walk", "sort"} => Fits(history, firstParent, ToSet(tips[at].locals))
  /\ \A i \in 1..Len(perTip) : Fits(history, firstParent, ToSet(tips[i].locals))
  /\ phase = "capped" =>
       \/ ~Fits(history, firstParent, ToSet(excludes))
       \/ \E i \in 1..Len(tips) : ~Fits(history, firstParent, ToSet(tips[i].locals))

LEMMA StepParts ==
  ASSUME TypeInv, [Next]_vars
  PROVE  /\ history' = history /\ spec' = spec /\ firstParent' = firstParent
         /\ \/ ParseToken
            \/ Parsed
            \/ /\ ~Parsing /\ phase # "invalid" /\ ~Parsing' /\ phase' # "invalid"
               /\ tips' = tips /\ excludes' = excludes
            \/ UNCHANGED vars
<1>1. CASE ParseToken
  <2>1. CASE Resolves(Token) /\ ApplyToken(Token)
    <3>1. PICK newTips \in Seq(Tips), newExcludes \in Seq(Commits) : Add(newTips, newExcludes)
      BY <1>1, <2>1, TokenMeans DEF ParseToken
    <3>2. QED BY <1>1, <3>1 DEF Add, input
  <2>2. QED BY <1>1, <2>1 DEF ParseToken, Stop, input
<1>2. CASE Parsed
  BY <1>2 DEF Parsed, Stop, input
<1>3. CASE LookAtParent
  BY <1>3 DEF LookAtParent, Searching, Parsing, input, revset
<1>4. CASE Visit
  BY <1>4 DEF Visit, Searching, Parsing, input, revset
<1>5. CASE RefuseCap
  BY <1>5 DEF RefuseCap, Searching, Stop, Parsing, input, revset
<1>6. CASE GlobalDone
  BY <1>6 DEF GlobalDone, Parsing, input, revset
<1>7. CASE StartTip
  BY <1>7 DEF StartTip, Parsing, input, revset
<1>8. CASE LocalDone
  BY <1>8 DEF LocalDone, Parsing, input, revset
<1>9. CASE WalkDone
  BY <1>9 DEF WalkDone, Parsing, input, revset
<1>10. CASE Insert
  BY <1>10 DEF Insert, Parsing, input, revset
<1>11. CASE SortDone
  BY <1>11 DEF SortDone, Parsing, input, revset
<1>12. CASE StartMerge
  BY <1>12 DEF StartMerge, Parsing, input, revset
<1>13. CASE \E i \in DOMAIN pos : Merge(i)
  BY <1>13 DEF Merge, Parsing, input, revset
<1>14. CASE MergeDone
  BY <1>14 DEF MergeDone, Stop, Parsing, input, revset
<1>15. CASE UNCHANGED vars
  BY <1>15 DEF vars, input
<1>16. QED
  BY <1>1, <1>2, <1>3, <1>4, <1>5, <1>6, <1>7, <1>8, <1>9, <1>10, <1>11, <1>12, <1>13, <1>14, <1>15 DEF Next

LEMMA InitTokens == Init => TokenInv
<1> SUFFICES ASSUME Init PROVE TokenInv
  OBVIOUS
<1>1. TokensDone = {} /\ Parsing
  BY DEF Init, TokensDone, Parsing
<1>2. ToSet(tips) = {} /\ ToSet(excludes) = {}
  BY SetOfFew DEF Init
<1>3. QED BY <1>1, <1>2 DEF TokenInv

LEMMA NextTokens == TypeInv /\ TokenInv /\ [Next]_vars => TokenInv'
<1> SUFFICES ASSUME TypeInv, TokenInv, [Next]_vars PROVE TokenInv'
  OBVIOUS
<1>1. history' = history /\ spec' = spec /\ firstParent' = firstParent
  BY StepParts
<1> DEFINE h == history
           f == firstParent
<1>2. CASE ParseToken /\ Resolves(Token) /\ ApplyToken(Token)
  <2>1. PICK newTips \in Seq(Tips), newExcludes \in Seq(Commits) :
          Add(newTips, newExcludes) /\ Says(newTips, newExcludes, Token)
    BY <1>2, TokenMeans DEF ParseToken
  <2>2. /\ phase = "parse" /\ phase' = "parse" /\ at' = at + 1 /\ at \in Nat \ {0}
        /\ tips' = tips \o newTips /\ excludes' = excludes \o newExcludes
    BY <1>2, <2>1 DEF ParseToken, Add, TypeInv, TypeOK
  <2>3. ToSet(tips') = ToSet(tips) \cup ToSet(newTips) /\ ToSet(excludes') = ToSet(excludes) \cup ToSet(newExcludes)
    BY <2>1, <2>2, SetOfConcat DEF TypeInv, TypeOK
  <2>4. TokensDone' = TokensDone \cup {Token}
    <3>1. 1..(at' - 1) = 1..(at - 1) \cup {at}
      BY <2>2
    <3>2. QED BY <1>1, <2>2, <3>1 DEF TokensDone, Parsing, Token
  <2>5. /\ UNION {TipAdds(h, f, x) : x \in ToSet(tips)} = UNION {AddsIn(h, f, t) : t \in TokensDone}
        /\ ToSet(excludes) = UNION {BansIn(h, t) : t \in TokensDone}
    BY <2>2 DEF TokenInv, Parsing
  <2>6. UNION {TipAdds(h, f, x) : x \in ToSet(tips')} = UNION {AddsIn(h, f, t) : t \in TokensDone'}
    BY <2>1, <2>3, <2>4, <2>5 DEF Says
  <2>7. ToSet(excludes') = UNION {BansIn(h, t) : t \in TokensDone'}
    BY <2>1, <2>3, <2>4, <2>5 DEF Says
  <2>8. ASSUME NEW x \in ToSet(tips')
        PROVE  Sided(h, f, x, TokensDone') \/ (x.side = "none" /\ spec = <<>>)
    <3>1. CASE x \in ToSet(tips)
      <4>1. Sided(h, f, x, TokensDone) \/ (x.side = "none" /\ spec = <<>>)
        BY <2>2, <3>1 DEF TokenInv
      <4>2. QED BY <2>4, <4>1 DEF Sided
    <3>2. CASE x \in ToSet(newTips)
      <4>1. Sided(h, f, x, {Token})
        BY <2>1, <3>2 DEF Says
      <4>2. QED BY <2>4, <4>1 DEF Sided
    <3>3. QED BY <2>3, <2>8, <3>1, <3>2
  <2>9. UNION {TipAdds(history', firstParent', x) : x \in ToSet(tips')}
          = UNION {AddsIn(history', firstParent', t) : t \in TokensDone'}
    BY <1>1, <2>6
  <2>10. ToSet(excludes') = UNION {BansIn(history', t) : t \in TokensDone'}
    BY <1>1, <2>7
  <2>11. \A x \in ToSet(tips') : Sided(history', firstParent', x, TokensDone') \/ (x.side = "none" /\ spec' = <<>>)
    BY <1>1, <2>8
  <2>12. QED BY <2>2, <2>9, <2>10, <2>11 DEF TokenInv, Parsing
<1>3. CASE Stop("invalid")
  BY <1>3 DEF Stop, TokenInv
<1>4. CASE Parsed /\ ~Stop("invalid")
  <2>1. /\ phase = "parse" /\ phase' = "exclude" /\ excludes' = excludes
        /\ tips' = (IF spec = <<>> THEN <<Tip(history.head, "none", <<>>)>> ELSE tips)
    BY <1>4 DEF Parsed
  <2>2. at - 1 = Len(spec) /\ spec \in Seq(Tokens)
    BY <1>4, TypeParts DEF Parsed, TypeInv, TypeOK
  <2>3. TokensDone = ToSet(spec) /\ TokensDone' = ToSet(spec)
    BY <1>1, <2>1, <2>2, SetOfSeq DEF TokensDone, Parsing
  <2>4. /\ UNION {TipAdds(h, f, x) : x \in ToSet(tips)} = UNION {AddsIn(h, f, t) : t \in ToSet(spec)}
        /\ ToSet(excludes) = UNION {BansIn(h, t) : t \in ToSet(spec)}
        /\ \A x \in ToSet(tips) : Sided(h, f, x, ToSet(spec)) \/ (x.side = "none" /\ spec = <<>>)
    BY <2>1, <2>3 DEF TokenInv, Parsing
  <2>5. CASE spec # <<>>
    BY <1>1, <2>1, <2>3, <2>4, <2>5 DEF TokenInv, Parsing
  <2>6. CASE spec = <<>>
    <3> DEFINE x == Tip(history.head, "none", <<>>)
    <3>1. x.hash = history.head /\ x.side = "none" /\ x.locals = <<>> /\ tips' = <<x>>
      BY <2>1, <2>6 DEF Tip
    <3> HIDE DEF x
    <3>2. ToSet(tips') = {x}
      BY <3>1, SetOfFew
    <3>3. TipAdds(h, f, x) = ReachIn(h, f, {history.head})
      BY <3>1, SetOfFew, ReachOfNothing DEF TipAdds
    <3>4. QED BY <1>1, <2>1, <2>3, <2>4, <2>6, <3>1, <3>2, <3>3 DEF TokenInv, Parsing, Reached
  <2>7. QED BY <2>5, <2>6
<1>5. CASE /\ ~Parsing /\ phase # "invalid" /\ ~Parsing' /\ phase' # "invalid"
           /\ tips' = tips /\ excludes' = excludes
  <2>1. TokensDone' = TokensDone
    BY <1>1, <1>5 DEF TokensDone
  <2>2. /\ UNION {TipAdds(history', firstParent', x) : x \in ToSet(tips')} = UNION {TipAdds(h, f, x) : x \in ToSet(tips)}
    BY <1>1, <1>5
  <2>3. UNION {AddsIn(history', firstParent', t) : t \in TokensDone'} = UNION {AddsIn(h, f, t) : t \in TokensDone}
    BY <1>1, <2>1
  <2>4. UNION {BansIn(history', t) : t \in TokensDone'} = UNION {BansIn(h, t) : t \in TokensDone}
    BY <1>1, <2>1
  <2>5. \A x : Sided(h, f, x, TokensDone) => Sided(history', firstParent', x, TokensDone')
    BY <1>1, <2>1
  <2>6. ReachIn(history', firstParent', {history'.head}) = ReachIn(h, f, {h.head})
    BY <1>1
  <2>7. QED BY <1>1, <1>5, <2>2, <2>3, <2>4, <2>5, <2>6 DEF TokenInv, Reached, Parsing
<1>6. CASE UNCHANGED vars
  <2>1. TokensDone' = TokensDone
    BY <1>6 DEF TokensDone, Parsing, vars, input
  <2>2. QED BY <1>1, <1>6, <2>1 DEF TokenInv, Reached, Parsing, vars, revset
<1>7. QED BY <1>2, <1>3, <1>4, <1>5, <1>6, StepParts DEF ParseToken

LEMMA FreshSearch ==
  ASSUME TypeInv, history' = history, firstParent' = firstParent,
         NEW starts \in Seq(Commits), Search(starts), Starts' = ToSet(starts)
  PROVE  SearchInv'
<1>1. ToSet(starts) \subseteq Reached(ToSet(starts))
  BY TypeParts, SetOfSeq, ReachContains DEF Reached
<1>2. Reached(Starts)' = Reached(ToSet(starts))
  BY DEF Reached
<1>3. ToSet(queue') = {} /\ ToSet(parents') = ToSet(starts) /\ found' = {}
  BY SetOfFew DEF Search
<1>4. Opened' = {}
  BY <1>3 DEF Opened
<1>5. QED BY <1>1, <1>2, <1>3, <1>4 DEF SearchInv

LEMMA TipAt ==
  ASSUME TypeInv, NEW i \in 1..Len(tips)
  PROVE  /\ tips[i] \in Tips /\ tips[i].hash \in Commits /\ tips[i].locals \in Seq(Commits)
         /\ ToSet(tips[i].locals) \subseteq Commits
<1>1. tips[i] \in Tips
  BY ElementOfSeq DEF TypeInv, TypeOK
<1>2. tips[i].hash \in Commits /\ tips[i].locals \in Seq(Commits)
  BY <1>1 DEF Tips
<1>3. QED BY <1>1, <1>2, SetOfSeq

LEMMA SearchParts ==
  ASSUME TypeInv, Searching
  PROVE  /\ Starts \subseteq Commits
         /\ ClosedIn(history, firstParent, Reached(Starts)) /\ Reached(Starts) \subseteq Commits
         /\ Starts \subseteq Reached(Starts)
<1>1. Starts \subseteq Commits
  <2>1. CASE phase = "exclude"
    BY <2>1, SetOfSeq DEF Starts, TypeInv, TypeOK
  <2>2. CASE phase \in {"local", "walk"}
    <3>1. at \in 1..Len(tips)
      BY <2>2, TypeParts DEF TypeInv, TypeOK
    <3>2. tips[at].hash \in Commits /\ ToSet(tips[at].locals) \subseteq Commits
      BY <3>1, TipAt
    <3>3. QED BY <2>2, <3>2 DEF Starts
  <2>3. QED BY <2>1, <2>2 DEF Searching
<1>2. QED BY <1>1, TypeParts, ReachContains DEF Reached

LEMMA LookKeepsSearch ==
  ASSUME TypeInv, SearchInv, LookAtParent
  PROVE  SearchInv'
<1> DEFINE p == Head(parents)
<1>1. /\ Searching /\ parents # <<>> /\ parents' = Tail(parents) /\ found' = found \cup {p}
      /\ queue' = IF p \in found \cup Barrier THEN queue ELSE Append(queue, p)
      /\ history' = history /\ firstParent' = firstParent /\ phase' = phase /\ at' = at
      /\ tips' = tips /\ excludes' = excludes /\ excl' = excl
  BY DEF LookAtParent, input, revset
<1>2. Starts' = Starts /\ Barrier' = Barrier
  BY <1>1 DEF Starts, Barrier
<1>3. p \in Commits /\ ToSet(parents) = {p} \cup ToSet(parents')
  BY <1>1, SetOfTail DEF TypeInv, TypeOK
<1>4. ToSet(queue') = IF p \in found \cup Barrier THEN ToSet(queue) ELSE ToSet(queue) \cup {p}
  <2>1. queue \in Seq(Commits)
    BY DEF TypeInv, TypeOK
  <2> HIDE DEF p
  <2>2. ToSet(Append(queue, p)) = ToSet(queue) \cup {p}
    BY <1>3, <2>1, SetOfAppend
  <2>3. QED BY <1>1, <2>2
<1> HIDE DEF p
<1>5. /\ Starts \subseteq found \cup ToSet(parents)
      /\ found \cup ToSet(parents) \subseteq Reached(Starts)
      /\ ToSet(queue) \subseteq found \ Barrier
      /\ \A c \in Opened : ToSet(FollowedIn(history, firstParent, c)) \subseteq found \cup ToSet(parents)
  BY <1>1 DEF SearchInv
<1>6. found' \cup ToSet(parents') = found \cup ToSet(parents)
  BY <1>1, <1>3
<1>7. ToSet(queue') \subseteq found' \ Barrier
  BY <1>1, <1>4, <1>5
<1>8. Opened' \subseteq Opened
  BY <1>1, <1>2, <1>4 DEF Opened
<1>9. Reached(Starts)' = Reached(Starts)
  BY <1>1, <1>2 DEF Reached
<1>10. \A c \in Opened' : ToSet(FollowedIn(history', firstParent', c)) \subseteq found' \cup ToSet(parents')
  BY <1>1, <1>5, <1>6, <1>8
<1>11. QED BY <1>2, <1>5, <1>6, <1>7, <1>9, <1>10 DEF SearchInv

LEMMA VisitKeepsSearch ==
  ASSUME TypeInv, SearchInv, Visit
  PROVE  SearchInv'
<1> DEFINE c0 == Head(queue)
<1>1. /\ Searching /\ parents = <<>> /\ queue # <<>> /\ queue' = Tail(queue) /\ found' = found
      /\ parents' = IF Present(c0) THEN Followed(c0) ELSE <<>>
      /\ history' = history /\ firstParent' = firstParent /\ phase' = phase /\ at' = at
      /\ tips' = tips /\ excludes' = excludes /\ excl' = excl
  BY DEF Visit, input, revset
<1>2. Starts' = Starts /\ Barrier' = Barrier
  BY <1>1 DEF Starts, Barrier
<1>3. c0 \in Commits /\ ToSet(queue) = {c0} \cup ToSet(queue')
  BY <1>1, SetOfTail DEF TypeInv, TypeOK
<1> HIDE DEF c0
<1>4. ToSet(parents) = {}
  BY <1>1, SetOfFew
<1>5. ToSet(parents') = IF c0 \in history.present THEN ToSet(FollowedIn(history, firstParent, c0)) ELSE {}
  BY <1>1, <1>3, TypeParts, SetOfFew DEF Present
<1>6. /\ Starts \subseteq found
      /\ found \subseteq Reached(Starts)
      /\ ToSet(queue) \subseteq found \ Barrier
      /\ \A c \in Opened : ToSet(FollowedIn(history, firstParent, c)) \subseteq found
  BY <1>1, <1>4 DEF SearchInv
<1>7. ToSet(parents') \subseteq Reached(Starts)
  BY <1>1, <1>3, <1>5, <1>6, SearchParts DEF ClosedIn
<1>8. \A c \in Opened' : c \in Opened \/ (c = c0 /\ c0 \in history.present)
  <2>1. Opened' = {c \in found : c \in history.present /\ c \notin Barrier /\ c \notin ToSet(queue')}
    BY <1>1, <1>2 DEF Opened
  <2>2. QED BY <1>3, <2>1 DEF Opened
<1>9. Reached(Starts)' = Reached(Starts)
  BY <1>1, <1>2 DEF Reached
<1>10. \A c \in Opened' : ToSet(FollowedIn(history', firstParent', c)) \subseteq found' \cup ToSet(parents')
  BY <1>1, <1>5, <1>6, <1>8
<1>11. QED BY <1>1, <1>2, <1>3, <1>6, <1>7, <1>9, <1>10 DEF SearchInv

LEMMA NextSearch == TypeInv /\ SearchInv /\ [Next]_vars => SearchInv'
<1> SUFFICES ASSUME TypeInv, SearchInv, [Next]_vars PROVE SearchInv'
  OBVIOUS
<1>0. history' = history /\ firstParent' = firstParent
  BY StepParts
<1>1. CASE ParseToken
  <2>1. phase' \in {"parse", "invalid"}
    <3>1. CASE Resolves(Token) /\ ApplyToken(Token)
      <4>1. PICK newTips \in Seq(Tips), newExcludes \in Seq(Commits) : Add(newTips, newExcludes)
        BY <1>1, <3>1, TokenMeans DEF ParseToken
      <4>2. QED BY <1>1, <4>1 DEF ParseToken, Add
    <3>2. QED BY <1>1, <3>1 DEF ParseToken, Stop
  <2>2. QED BY <2>1 DEF SearchInv, Searching
<1>2. CASE Parsed
  <2>1. CASE Stop("invalid")
    BY <2>1 DEF Stop, SearchInv, Searching
  <2>2. CASE ~Stop("invalid")
    <3>1. phase' = "exclude" /\ Search(excludes) /\ excludes' = excludes
      BY <1>2, <2>2 DEF Parsed
    <3>2. Starts' = ToSet(excludes) /\ excludes \in Seq(Commits)
      BY <3>1 DEF Starts, TypeInv, TypeOK
    <3>3. QED BY <1>0, <3>1, <3>2, FreshSearch
  <2>3. QED BY <2>1, <2>2
<1>3. CASE LookAtParent
  BY <1>3, LookKeepsSearch
<1>4. CASE Visit
  BY <1>4, VisitKeepsSearch
<1>5. CASE StartTip
  <2>1. phase' = "local" /\ at' = at /\ tips' = tips /\ Search(tips[at].locals) /\ at <= Len(tips)
    BY <1>5 DEF StartTip, revset
  <2>2. tips[at].locals \in Seq(Commits)
    BY <2>1, TipAt DEF TypeInv, TypeOK
  <2>3. Starts' = ToSet(tips[at].locals)
    BY <2>1 DEF Starts
  <2>4. QED BY <1>0, <2>1, <2>2, <2>3, FreshSearch
<1>6. CASE LocalDone
  <2>1. phase = "local" /\ phase' = "walk" /\ at' = at /\ tips' = tips /\ Search(<<tips[at].hash>>)
    BY <1>6 DEF LocalDone, revset
  <2>2. tips[at].hash \in Commits
    BY <2>1, TipAt DEF TypeInv, TypeOK
  <2>3. Starts' = ToSet(<<tips[at].hash>>) /\ <<tips[at].hash>> \in Seq(Commits)
    BY <2>1, <2>2, SetOfFew DEF Starts
  <2>4. QED BY <1>0, <2>1, <2>3, FreshSearch
<1>7. CASE UNCHANGED vars
  BY <1>7 DEF vars, input, revset, search, SearchInv, Searching, Starts, Opened, Barrier, Reached
<1>8. CASE RefuseCap \/ GlobalDone \/ WalkDone \/ Insert \/ SortDone \/ StartMerge
             \/ (\E i \in DOMAIN pos : Merge(i)) \/ MergeDone
  <2>1. phase' \notin {"exclude", "local", "walk"}
    BY <1>8 DEF RefuseCap, GlobalDone, WalkDone, Insert, SortDone, StartMerge, Merge, MergeDone, Stop
  <2>2. QED BY <2>1 DEF SearchInv, Searching
<1>9. QED BY <1>1, <1>2, <1>3, <1>4, <1>5, <1>6, <1>7, <1>8 DEF Next

LEMMA Exhausts ==
  ASSUME TypeInv, SearchInv, phase \in {"exclude", "local"}, Exhausted
  PROVE  found = Reached(Starts)
<1>1. Searching /\ Barrier = {} /\ ToSet(queue) = {} /\ ToSet(parents) = {}
  BY SetOfFew DEF Searching, Barrier, Exhausted
<1>2. /\ Starts \subseteq found /\ found \subseteq Reached(Starts)
      /\ \A c \in Opened : ToSet(FollowedIn(history, firstParent, c)) \subseteq found
  BY <1>1 DEF SearchInv
<1>3. ClosedIn(history, firstParent, found)
  BY <1>1, <1>2 DEF ClosedIn, Opened
<1>4. found \in SUBSET Commits
  BY DEF TypeInv, TypeOK
<1>5. Reached(Starts) \subseteq found
  BY <1>2, <1>3, <1>4, ReachIsLeast DEF Reached
<1>6. QED BY <1>2, <1>5

\* What the walk around the excluded set found, once it is exhausted: the tip reaches
\* nothing that is not behind an excluded commit, and what is behind one is excluded.
LEMMA WalkExhausts ==
  ASSUME TypeInv, SearchInv, WalkInv, phase = "walk", Exhausted
  PROVE  ToSet(commits) = TipShows(tips[at])
<1> DEFINE h == history
           f == firstParent
           locals == ToSet(tips[at].locals)
           hash == tips[at].hash
<1>1. Searching /\ Barrier = excl /\ ToSet(queue) = {} /\ ToSet(parents) = {} /\ Starts = {hash}
  BY SetOfFew DEF Searching, Barrier, Exhausted, Starts
<1>2. /\ {hash} \subseteq found /\ found \subseteq Reached({hash})
      /\ \A c \in Opened : ToSet(FollowedIn(h, f, c)) \subseteq found
  BY <1>1 DEF SearchInv
<1>3. /\ excl = Excluded \cup Reached(locals)
      /\ ToSet(commits) = (found \ excl) \cap h.present
  BY <1>1 DEF WalkInv
<1>4. ClosedIn(h, f, excl) /\ excl \subseteq Commits
  <2>1. locals \subseteq Commits
    <3>1. at \in 1..Len(tips)
      BY TypeParts DEF TypeInv, TypeOK
    <3>2. QED BY <3>1, TipAt
  <2>2. ToSet(excludes) \subseteq Commits
    BY SetOfSeq DEF TypeInv, TypeOK
  <2> HIDE DEF locals
  <2>3. /\ ClosedIn(h, f, Reached(locals)) /\ Reached(locals) \subseteq Commits
        /\ ClosedIn(h, f, Excluded) /\ Excluded \subseteq Commits
    BY <2>1, <2>2, TypeParts, ReachContains DEF Reached, Excluded
  <2>4. QED BY <1>3, <2>3 DEF ClosedIn
<1>5. ClosedIn(h, f, found \cup excl)
  <2>1. ASSUME NEW c \in found \cup excl, c \in h.present
        PROVE  ToSet(FollowedIn(h, f, c)) \subseteq found \cup excl
    <3>1. CASE c \in excl
      BY <1>4, <2>1, <3>1 DEF ClosedIn
    <3>2. CASE c \notin excl
      <4>1. c \in Opened
        BY <1>1, <2>1, <3>2 DEF Opened
      <4>2. QED BY <1>2, <4>1
    <3>3. QED BY <3>1, <3>2
  <2>2. QED BY <2>1 DEF ClosedIn
<1>6. Reached({hash}) \subseteq found \cup excl
  <2>1. found \cup excl \in SUBSET Commits /\ {hash} \subseteq found \cup excl
    BY <1>2, <1>4 DEF TypeInv, TypeOK
  <2>2. QED BY <1>5, <2>1, ReachIsLeast DEF Reached
<1>7. TipShows(tips[at]) = ((Reached({hash}) \ Reached(locals)) \ Excluded) \cap h.present
  BY DEF TipShows, ShowsIn, TipAdds, Reached, Excluded
<1> HIDE DEF locals, hash
<1>8. QED BY <1>2, <1>3, <1>6, <1>7

LEMMA LookKeepsWalk ==
  ASSUME TypeInv, WalkInv, LookAtParent
  PROVE  WalkInv'
<1> DEFINE p == Head(parents)
<1>1. /\ parents # <<>> /\ found' = found \cup {p}
      /\ queue' = IF p \in found \cup Barrier THEN queue ELSE Append(queue, p)
      /\ history' = history /\ firstParent' = firstParent /\ phase' = phase /\ at' = at
      /\ tips' = tips /\ excludes' = excludes /\ excl' = excl /\ global' = global
      /\ commits' = commits /\ perTip' = perTip
  BY DEF LookAtParent, input, revset
<1>2. p \in Commits /\ queue \in Seq(Commits)
  BY <1>1, SetOfTail DEF TypeInv, TypeOK
<1> HIDE DEF p
<1>3. ToSet(Append(queue, p)) = ToSet(queue) \cup {p}
  BY <1>2, SetOfAppend
<1>4. phase = "walk" => (found' \ excl) \cap history.present \subseteq ToSet(commits) \cup ToSet(queue')
  BY <1>1, <1>3 DEF WalkInv, Barrier
<1>5. phase = "walk" => ToSet(commits) \subseteq (found' \ excl) \cap history.present
  BY <1>1 DEF WalkInv
<1>6. QED BY <1>1, <1>4, <1>5 DEF WalkInv, TipShows, Reached, Excluded

LEMMA VisitKeepsWalk ==
  ASSUME TypeInv, SearchInv, WalkInv, Visit
  PROVE  WalkInv'
<1> DEFINE c == Head(queue)
<1>1. /\ Searching /\ queue # <<>> /\ queue' = Tail(queue) /\ found' = found
      /\ commits' = IF phase = "walk" /\ Present(c) THEN Append(commits, c) ELSE commits
      /\ history' = history /\ firstParent' = firstParent /\ phase' = phase /\ at' = at
      /\ tips' = tips /\ excludes' = excludes /\ excl' = excl /\ global' = global
      /\ perTip' = perTip
  BY DEF Visit, input, revset
<1>2. c \in Commits /\ ToSet(queue) = {c} \cup ToSet(queue') /\ commits \in Seq(Commits)
  BY <1>1, SetOfTail DEF TypeInv, TypeOK
<1> HIDE DEF c
<1>3. ToSet(Append(commits, c)) = ToSet(commits) \cup {c}
  BY <1>2, SetOfAppend
<1>4. phase = "walk" => c \in found \ excl
  BY <1>1, <1>2 DEF SearchInv, Barrier
<1>5. phase = "walk" => /\ ToSet(commits') \subseteq (found \ excl) \cap history.present
                        /\ (found \ excl) \cap history.present \subseteq ToSet(commits') \cup ToSet(queue')
  BY <1>1, <1>2, <1>3, <1>4 DEF WalkInv, Present
<1>6. phase # "sort"
  BY <1>1 DEF Searching
<1>7. QED BY <1>1, <1>5, <1>6 DEF WalkInv, TipShows, Reached, Excluded

LEMMA NextWalk == TypeInv /\ SearchInv /\ WalkInv /\ [Next]_vars => WalkInv'
<1> SUFFICES ASSUME TypeInv, SearchInv, WalkInv, [Next]_vars PROVE WalkInv'
  OBVIOUS
<1>0. history' = history /\ firstParent' = firstParent
  BY StepParts
<1>1. CASE ParseToken \/ Parsed
  <2>1. phase' \in {"parse", "exclude", "invalid"} /\ perTip' = perTip /\ phase = "parse"
    <3>1. CASE ParseToken /\ Resolves(Token) /\ ApplyToken(Token)
      <4>1. PICK newTips \in Seq(Tips), newExcludes \in Seq(Commits) : Add(newTips, newExcludes)
        BY <3>1, TokenMeans DEF ParseToken
      <4>2. QED BY <3>1, <4>1 DEF ParseToken, Add
    <3>2. CASE ParseToken /\ ~(Resolves(Token) /\ ApplyToken(Token))
      BY <3>2 DEF ParseToken, Stop
    <3>3. CASE Parsed
      BY <3>3 DEF Parsed, Stop
    <3>4. QED BY <1>1, <3>1, <3>2, <3>3
  <2>2. Len(perTip') = 0
    BY <2>1, EmptySeq DEF TypeInv
  <2>3. QED BY <2>1, <2>2 DEF WalkInv
<1>2. CASE LookAtParent
  BY <1>2, LookKeepsWalk
<1>3. CASE Visit
  BY <1>3, VisitKeepsWalk
<1>4. CASE RefuseCap
  <2>1. phase' = "capped" /\ perTip' = perTip /\ tips' = tips /\ excludes' = excludes
    BY <1>4 DEF RefuseCap, Stop, revset
  <2>2. QED BY <1>0, <2>1 DEF WalkInv, TipShows
<1>5. CASE GlobalDone
  <2>1. /\ phase = "exclude" /\ Exhausted /\ global' = found /\ phase' = "tip"
        /\ perTip' = perTip /\ tips' = tips /\ excludes' = excludes
    BY <1>5 DEF GlobalDone, revset
  <2>2. found = Excluded
    BY <2>1, Exhausts DEF Starts, Excluded
  <2>3. QED BY <1>0, <2>1, <2>2 DEF WalkInv, TipShows, Excluded, Reached
<1>6. CASE StartTip \/ StartMerge \/ MergeDone \/ \E i \in DOMAIN pos : Merge(i)
  <2>1. /\ phase \in {"tip", "merge"} /\ phase' \in {"local", "merge", "done"} /\ global' = global
        /\ perTip' = perTip /\ tips' = tips /\ excludes' = excludes
    BY <1>6 DEF StartTip, StartMerge, MergeDone, Merge, Stop, revset
  <2>2. QED BY <1>0, <2>1 DEF WalkInv, TipShows, Excluded, Reached
<1>7. CASE LocalDone
  <2>1. /\ phase = "local" /\ Exhausted /\ excl' = global \cup found /\ commits' = <<>> /\ phase' = "walk"
        /\ found' = {} /\ at' = at
        /\ global' = global /\ perTip' = perTip /\ tips' = tips /\ excludes' = excludes
    BY <1>7 DEF LocalDone, Search, revset
  <2>2. found = Reached(ToSet(tips[at].locals))
    BY <2>1, Exhausts DEF Starts
  <2>3. global = Excluded
    BY <2>1 DEF WalkInv
  <2>4. ToSet(commits') = {}
    BY <2>1, SetOfFew
  <2>5. QED BY <1>0, <2>1, <2>2, <2>3, <2>4 DEF WalkInv, TipShows, Excluded, Reached
<1>8. CASE WalkDone
  <2>1. /\ phase = "walk" /\ Exhausted /\ phase' = "sort" /\ commits' = commits /\ at' = at
        /\ global' = global /\ perTip' = perTip /\ tips' = tips /\ excludes' = excludes
    BY <1>8 DEF WalkDone, revset
  <2>2. ToSet(commits) = TipShows(tips[at])
    BY <2>1, WalkExhausts
  <2>3. QED BY <1>0, <2>1, <2>2 DEF WalkInv, TipShows, Excluded, Reached
<1>9. CASE Insert
  <2>1. /\ phase = "sort" /\ phase' = "sort" /\ sorted < Len(commits) /\ at' = at
        /\ commits' = Moved(commits, Slot(commits[sorted + 1]), sorted)
        /\ global' = global /\ perTip' = perTip /\ tips' = tips /\ excludes' = excludes
    BY <1>9 DEF Insert, Moved, revset
  <2>2. commits \in Seq(Commits) /\ sorted \in Nat
    BY DEF TypeInv, TypeOK
  <2>3. ToSet(commits') = ToSet(commits)
    <3>1. Slot(commits[sorted + 1]) \in 0..sorted
      BY <2>2, SlotIsSlot
    <3>2. QED BY <2>1, <2>2, <3>1, MovedElements
  <2>4. QED BY <1>0, <2>1, <2>3 DEF WalkInv, TipShows, Excluded, Reached
<1>10. CASE SortDone
  <2>1. /\ phase = "sort" /\ phase' = "tip" /\ perTip' = Append(perTip, commits)
        /\ global' = global /\ tips' = tips /\ excludes' = excludes
    BY <1>10 DEF SortDone, revset
  <2>2. perTip \in Seq(Seq(Commits)) /\ commits \in Seq(Commits) /\ Len(perTip) = at - 1 /\ at \in Nat
    BY <2>1 DEF TypeInv, TypeOK
  <2>3. /\ Len(perTip') = at /\ perTip'[at] = commits
        /\ \A i \in 1..(at - 1) : perTip'[i] = perTip[i]
    BY <2>1, <2>2, AppendProperties
  <2>4. \A i \in 1..Len(perTip') : i = at \/ i \in 1..Len(perTip)
    BY <2>2, <2>3
  <2>5. \A i \in 1..Len(perTip') : ToSet(perTip'[i]) = TipShows(tips[i])
    BY <2>1, <2>2, <2>3, <2>4 DEF WalkInv
  <2>6. QED BY <1>0, <2>1, <2>5 DEF WalkInv, TipShows, Excluded, Reached
<1>11. CASE UNCHANGED vars
  BY <1>11 DEF vars, input, revset, search, WalkInv, TipShows, Excluded, Reached
<1>12. QED BY <1>1, <1>2, <1>3, <1>4, <1>5, <1>6, <1>7, <1>8, <1>9, <1>10, <1>11 DEF Next

\* The cursors of the merge: which lists they are in, and where the heads are.
LEMMA MergeParts ==
  ASSUME TypeInv, NEW i \in DOMAIN pos, Merge(i)
  PROVE  /\ phase = "merge" /\ i \in 1..Len(pos) /\ Len(pos) \in Nat
         /\ Len(pos) = Len(tips) /\ Len(pos) = Len(perTip) /\ Len(pos') = Len(pos)
         /\ pos[i] \in 1..Len(perTip[i]) /\ pos'[i] = pos[i] + 1
         /\ \A j \in 1..Len(pos) : /\ perTip[j] \in Seq(Commits) /\ Len(perTip[j]) \in Nat
                                   /\ pos[j] \in Nat \ {0}
                                   /\ j # i => pos'[j] = pos[j]
         /\ HeadOf(i) \in ToSet(perTip[i]) /\ HeadOf(i) = perTip[i][pos[i]] /\ HeadOf(i) \in Commits
         /\ result \in Seq([commit : Commits, side : Sides])
         /\ [commit |-> HeadOf(i), side |-> tips[i].side] \in [commit : Commits, side : Sides]
         /\ UNCHANGED <<input, phase, tips, excludes, perTip>>
<1>1. /\ phase = "merge" /\ pos' = [pos EXCEPT ![i] = @ + 1] /\ pos[i] <= Len(perTip[i])
      /\ UNCHANGED <<input, phase, tips, excludes, perTip>>
  BY DEF Merge, Cursors, revset
<1>2. /\ pos \in Seq(Nat \ {0}) /\ Len(pos) = Len(tips) /\ Len(pos) = Len(perTip) /\ Len(pos) \in Nat
      /\ DOMAIN pos = 1..Len(pos) /\ perTip \in Seq(Seq(Commits))
      /\ result \in Seq([commit : Commits, side : Sides])
  BY <1>1, TypeParts, LenProperties DEF TypeInv, TypeOK
<1>3. \A j \in 1..Len(pos) : pos[j] \in Nat \ {0} /\ perTip[j] \in Seq(Commits)
  BY <1>2, ElementOfSeq
<1>4. \A j \in 1..Len(pos) : Len(perTip[j]) \in Nat
  BY <1>3, LenProperties
<1>5. pos' \in Seq(Nat \ {0}) /\ Len(pos') = Len(pos) /\ pos'[i] = pos[i] + 1
      /\ \A j \in 1..Len(pos) : j # i => pos'[j] = pos[j]
  BY <1>1, <1>2, <1>3, ExceptSeq
<1>6. pos[i] \in 1..Len(perTip[i])
  BY <1>1, <1>2, <1>3, <1>4
<1>7. HeadOf(i) \in Commits /\ HeadOf(i) \in ToSet(perTip[i])
  <2>1. perTip[i] \in Seq(Commits)
    BY <1>2, <1>3
  <2>2. perTip[i][pos[i]] \in Commits /\ perTip[i][pos[i]] \in ToSet(perTip[i])
    BY <1>6, <2>1, ElementOfSeq, SetOfSeq
  <2>3. QED BY <2>2 DEF HeadOf
<1>8. tips[i] \in Tips
  BY <1>2, TipAt
<1>9. QED BY <1>1, <1>2, <1>3, <1>4, <1>5, <1>6, <1>7, <1>8 DEF HeadOf, Tips

\* What is shown after a step of the merge.
LEMMA MergeShows ==
  ASSUME TypeInv, NEW i \in DOMAIN pos, Merge(i)
  PROVE  \/ HeadOf(i) \in Shown /\ result' = result
         \/ /\ HeadOf(i) \notin Shown /\ Len(result') = Len(result) + 1 /\ Len(result) \in Nat
            /\ result'[Len(result) + 1] = [commit |-> HeadOf(i), side |-> tips[i].side]
            /\ \A j \in 1..Len(result) : result'[j] = result[j]
            /\ Shown' = Shown \cup {HeadOf(i)}
<1> DEFINE new == [commit |-> HeadOf(i), side |-> tips[i].side]
           both == [commit : Commits, side : Sides]
<1>1. result' = IF HeadOf(i) \in Shown THEN result ELSE Append(result, new)
  BY DEF Merge
<1>2. result \in Seq(both) /\ new \in both /\ new.commit = HeadOf(i)
  BY MergeParts
<1> HIDE DEF new, both
<1>3. /\ Append(result, new) \in Seq(both) /\ Len(Append(result, new)) = Len(result) + 1
      /\ Append(result, new)[Len(result) + 1] = new
      /\ \A j \in 1..Len(result) : Append(result, new)[j] = result[j]
  BY <1>2, AppendProperties
<1>4. Len(result) \in Nat /\ DOMAIN result = 1..Len(result)
  BY <1>2, LenProperties
<1>5. CASE HeadOf(i) \in Shown
  BY <1>1, <1>5
<1>6. CASE HeadOf(i) \notin Shown
  <2>1. /\ result' \in Seq(both) /\ Len(result') = Len(result) + 1 /\ result'[Len(result) + 1] = new
        /\ \A j \in 1..Len(result) : result'[j] = result[j]
    BY <1>1, <1>3, <1>6
  <2>2. DOMAIN result' = 1..Len(result) \cup {Len(result) + 1}
    <3>1. DOMAIN result' = 1..(Len(result) + 1)
      BY <2>1, LenProperties
    <3>2. QED BY <1>4, <3>1
  <2>3. Shown' = {result'[j].commit : j \in 1..Len(result)} \cup {new.commit}
    BY <2>1, <2>2 DEF Shown
  <2>4. {result'[j].commit : j \in 1..Len(result)} = Shown
    BY <1>4, <2>1 DEF Shown
  <2>5. QED BY <1>2, <1>4, <1>6, <2>1, <2>3, <2>4 DEF new
<1>7. QED BY <1>5, <1>6

LEMMA NextMerge == TypeInv /\ MergeInv /\ [Next]_vars => MergeInv'
<1> SUFFICES ASSUME TypeInv, MergeInv, [Next]_vars PROVE MergeInv'
  OBVIOUS
<1>1. CASE StartMerge
  <2>1. /\ phase = "tip" /\ phase' = "merge" /\ pos' = [i \in DOMAIN tips |-> 1]
        /\ result' = result /\ perTip' = perTip /\ tips' = tips
    BY <1>1 DEF StartMerge, revset
  <2>2. result' = <<>> /\ pos' = [i \in 1..Len(tips) |-> 1] /\ Len(tips) \in Nat
    BY <2>1, LenProperties DEF TypeInv, TypeOK
  <2>3. Len(pos') = Len(tips) /\ Len(perTip) = Len(tips) /\ \A i \in 1..Len(tips) : pos'[i] = 1
    <3>1. pos' \in Seq({1}) /\ Len(pos') = Len(tips)
      BY <2>2, IsASeq
    <3>2. at <= Len(tips) + 1 /\ Len(perTip) = at - 1 /\ at > Len(tips) /\ at \in Nat
      BY <1>1, <2>1 DEF StartMerge, TypeInv, TypeOK
    <3>3. QED BY <2>2, <3>1, <3>2
  <2>4. Shown' = {} /\ Len(result') = 0
    BY <2>2, EmptySeq DEF Shown
  <2>5. Passed(perTip', pos') = {}
    <3>1. 1..(1 - 1) = {}
      OBVIOUS
    <3>2. QED BY <2>3, <3>1 DEF Passed
  <2>6. \A i \in 1..Len(tips) : Len(perTip[i]) \in Nat
    BY <2>3, ElementOfSeq, LenProperties DEF TypeInv, TypeOK
  <2>7. \A i \in 1..Len(pos') : pos'[i] <= Len(perTip'[i]) + 1
    BY <2>1, <2>3, <2>6
  <2>8. 1..Len(result') = {}
    BY <2>4
  <2>9. QED BY <2>1, <2>4, <2>5, <2>7, <2>8 DEF MergeInv
<1>2. ASSUME NEW i \in DOMAIN pos, Merge(i) PROVE MergeInv'
  <2>1. /\ phase = "merge" /\ phase' = "merge" /\ perTip' = perTip /\ tips' = tips
        /\ i \in 1..Len(pos) /\ Len(pos') = Len(pos) /\ pos'[i] = pos[i] + 1
        /\ pos[i] \in 1..Len(perTip[i]) /\ Len(perTip[i]) \in Nat
        /\ \A j \in 1..Len(pos) : j # i => pos'[j] = pos[j]
        /\ HeadOf(i) \in ToSet(perTip[i]) /\ HeadOf(i) = perTip[i][pos[i]] /\ HeadOf(i) \in Commits
    BY <1>2, MergeParts
  <2>2. /\ Shown = Passed(perTip, pos)
        /\ \A k \in 1..Len(pos) : pos[k] <= Len(perTip[k]) + 1
        /\ \A j \in 1..Len(result) : \E k \in 1..Len(pos) :
             result[j].side = tips[k].side /\ result[j].commit \in ToSet(perTip[k])
    BY <2>1 DEF MergeInv
  <2>3. Shown' = Shown \cup {HeadOf(i)}
    <3>1. result' = result => Shown' = Shown
      BY DEF Shown
    <3>2. QED BY <1>2, <3>1, MergeShows
  <2>4. 1..(pos'[i] - 1) = 1..(pos[i] - 1) \cup {pos[i]}
    BY <2>1
  <2>5. ASSUME NEW c \in Passed(perTip, pos') PROVE c \in Passed(perTip, pos) \cup {HeadOf(i)}
    <3>1. PICK k \in 1..Len(pos) : c \in Commits /\ \E l \in 1..(pos'[k] - 1) : perTip[k][l] = c
      BY <2>1 DEF Passed
    <3>2. CASE k = i
      BY <2>1, <2>4, <3>1, <3>2 DEF Passed
    <3>3. CASE k # i
      BY <2>1, <3>1, <3>3 DEF Passed
    <3>4. QED BY <3>2, <3>3
  <2>6. ASSUME NEW c \in Passed(perTip, pos) \cup {HeadOf(i)} PROVE c \in Passed(perTip, pos')
    <3>1. CASE c = HeadOf(i)
      <4>1. pos[i] \in 1..(pos'[i] - 1) /\ perTip[i][pos[i]] = c /\ c \in Commits
        BY <2>1, <2>4, <3>1
      <4>2. QED BY <2>1, <4>1 DEF Passed
    <3>2. CASE c \in Passed(perTip, pos)
      <4>1. PICK k \in 1..Len(pos) : c \in Commits /\ \E l \in 1..(pos[k] - 1) : perTip[k][l] = c
        BY <3>2 DEF Passed
      <4>2. \E l \in 1..(pos'[k] - 1) : perTip[k][l] = c
        BY <2>1, <2>4, <4>1
      <4>3. QED BY <2>1, <4>1, <4>2 DEF Passed
    <3>3. QED BY <2>6, <3>1, <3>2
  <2>7. Shown' = Passed(perTip', pos')
    <3>1. Passed(perTip, pos') = Passed(perTip, pos) \cup {HeadOf(i)}
      BY <2>5, <2>6
    <3>2. QED BY <2>1, <2>2, <2>3, <3>1
  <2>8. ASSUME NEW k \in 1..Len(pos') PROVE pos'[k] <= Len(perTip'[k]) + 1
    <3>1. CASE k = i
      <4>1. pos'[i] = pos[i] + 1 /\ pos[i] <= Len(perTip[i]) /\ pos[i] \in Nat
        BY <2>1
      <4>2. QED BY <2>1, <3>1, <4>1
    <3>2. CASE k # i
      BY <2>1, <2>2, <3>2
    <3>3. QED BY <3>1, <3>2
  <2>9. ASSUME NEW j \in 1..Len(result')
        PROVE  \E k \in 1..Len(pos') : result'[j].side = tips'[k].side /\ result'[j].commit \in ToSet(perTip'[k])
    <3>1. CASE result' = result
      BY <2>1, <2>2, <3>1
    <3>2. CASE result' # result
      <4>1. /\ Len(result') = Len(result) + 1 /\ Len(result) \in Nat
            /\ result'[Len(result) + 1] = [commit |-> HeadOf(i), side |-> tips[i].side]
            /\ \A l \in 1..Len(result) : result'[l] = result[l]
        BY <1>2, <3>2, MergeShows
      <4>2. CASE j \in 1..Len(result)
        BY <2>1, <2>2, <4>1, <4>2
      <4>3. CASE j = Len(result) + 1
        <5>1. result'[j].side = tips[i].side /\ result'[j].commit = HeadOf(i)
          BY <4>1, <4>3
        <5>2. QED BY <2>1, <5>1
      <4>4. QED BY <4>1, <4>2, <4>3
    <3>3. QED BY <3>1, <3>2
  <2>10. QED BY <2>1, <2>7, <2>8, <2>9 DEF MergeInv
<1>3. CASE MergeDone
  <2>1. /\ phase = "merge" /\ phase' = "done" /\ Cursors = {}
        /\ UNCHANGED <<revset, perTip, pos, result>>
    BY <1>3 DEF MergeDone, Stop
  <2>2. UNCHANGED <<Cursors, Shown>>
    BY <2>1 DEF Cursors, Shown
  <2>3. QED BY <2>1, <2>2 DEF MergeInv, revset
<1>4. CASE UNCHANGED vars
  <2>1. UNCHANGED <<Cursors, Shown, pos, tips, result, perTip, phase>>
    BY <1>4 DEF vars, revset, Cursors, Shown
  <2>2. QED BY <2>1 DEF MergeInv
<1>5. CASE ParseToken
  <2>1. phase' \in {"parse", "invalid"}
    <3>1. CASE Resolves(Token) /\ ApplyToken(Token)
      <4>1. PICK newTips \in Seq(Tips), newExcludes \in Seq(Commits) : Add(newTips, newExcludes)
        BY <1>5, <3>1, TokenMeans DEF ParseToken
      <4>2. QED BY <1>5, <4>1 DEF ParseToken, Add
    <3>2. QED BY <1>5, <3>1 DEF ParseToken, Stop
  <2>2. QED BY <2>1 DEF MergeInv
<1>6. CASE Parsed \/ LookAtParent \/ Visit \/ RefuseCap \/ GlobalDone \/ StartTip \/ LocalDone \/ WalkDone
             \/ Insert \/ SortDone
  <2>1. phase' \notin {"merge", "done"}
    BY <1>6 DEF Parsed, LookAtParent, Visit, RefuseCap, GlobalDone, StartTip, LocalDone, WalkDone, Insert,
                SortDone, Stop, Searching
  <2>2. QED BY <2>1 DEF MergeInv
<1>7. QED BY <1>1, <1>2, <1>3, <1>4, <1>5, <1>6 DEF Next

LEMMA InitWalk == Init => SearchInv /\ WalkInv /\ MergeInv
<1> SUFFICES ASSUME Init PROVE SearchInv /\ WalkInv /\ MergeInv
  OBVIOUS
<1>1. phase = "parse" /\ Len(perTip) = 0
  BY EmptySeq DEF Init
<1>2. QED BY <1>1 DEF SearchInv, Searching, WalkInv, MergeInv

WalkInvariant == TypeInv /\ TokenInv /\ SearchInv /\ WalkInv /\ MergeInv

LEMMA WalkIsInductive ==
  /\ Init => WalkInvariant
  /\ WalkInvariant /\ [Next]_vars => WalkInvariant'
BY InitTyped, InitTokens, InitWalk, NextTyped, NextTokens, NextSearch, NextWalk, NextMerge DEF WalkInvariant

\* Adds and Bans of the module, as the functions of the repository they are.
LEMMA AddsIsAddsIn ==
  ASSUME NEW t
  PROVE  Adds(t) = AddsIn(history, firstParent, t) /\ Bans(t) = BansIn(history, t)
<1>1. \A S : Reach(S) = ReachIn(history, firstParent, S)
  BY ReachIsReachIn
<1>2. Adds(t) = AddsIn(history, firstParent, t)
  BY <1>1 DEF Adds, AddsIn, ParentsOf
<1>3. Bans(t) = BansIn(history, t)
  BY DEF Bans, BansIn, ParentsOf
<1>4. QED BY <1>2, <1>3

\* When the merge is done, what it showed is what all the tips show.
LEMMA DoneShows ==
  ASSUME WalkInvariant, phase = "done"
  PROVE  Shown = UNION {TipShows(x) : x \in ToSet(tips)}
<1>1. /\ Len(pos) = Len(tips) /\ Len(perTip) = Len(tips) /\ Len(tips) \in Nat
      /\ pos \in Seq(Nat \ {0}) /\ perTip \in Seq(Seq(Commits)) /\ tips \in Seq(Tips) /\ DOMAIN pos = 1..Len(pos)
  BY TypeParts, LenProperties DEF WalkInvariant, TypeInv, TypeOK
<1>2. ASSUME NEW i \in 1..Len(tips)
      PROVE  perTip[i] \in Seq(Commits) /\ Len(perTip[i]) \in Nat /\ pos[i] - 1 = Len(perTip[i])
  <2>1. pos[i] \in Nat \ {0} /\ perTip[i] \in Seq(Commits) /\ Len(perTip[i]) \in Nat
    BY <1>1, ElementOfSeq, LenProperties
  <2>2. ~(pos[i] <= Len(perTip[i]))
    BY <1>1 DEF WalkInvariant, MergeInv, Cursors
  <2>3. pos[i] <= Len(perTip[i]) + 1
    BY <1>1 DEF WalkInvariant, MergeInv
  <2>4. QED BY <2>1, <2>2, <2>3
<1>3. \A i \in 1..Len(tips) : /\ ToSet(perTip[i]) = {perTip[i][k] : k \in 1..(pos[i] - 1)}
                              /\ ToSet(perTip[i]) \subseteq Commits
  BY <1>2, SetOfSeq
<1>4. Shown = UNION {ToSet(perTip[i]) : i \in 1..Len(tips)}
  <2>1. Shown = Passed(perTip, pos)
    BY DEF WalkInvariant, MergeInv
  <2>2. \A c : c \in Passed(perTip, pos) <=> \E i \in 1..Len(tips) : c \in ToSet(perTip[i])
    <3>1. ASSUME NEW i \in 1..Len(tips), NEW c
          PROVE  c \in ToSet(perTip[i]) <=> c \in Commits /\ \E k \in 1..(pos[i] - 1) : perTip[i][k] = c
      BY <1>3
    <3>2. QED BY <1>1, <3>1 DEF Passed
  <2>3. QED BY <2>1, <2>2
<1>5. \A i \in 1..Len(tips) : ToSet(perTip[i]) = TipShows(tips[i])
  BY <1>1 DEF WalkInvariant, WalkInv
<1>6. ToSet(tips) = {tips[i] : i \in 1..Len(tips)}
  BY <1>1, SetOfSeq
<1>7. QED BY <1>4, <1>5, <1>6

\* The log shows exactly the commits the tokens of the range together mean (revrange.go:57-66).
THEOREM RangeCorrect == Spec => []RangeIsExact
<1>1. WalkInvariant => RangeIsExact
  <2> SUFFICES ASSUME WalkInvariant, phase = "done" PROVE Shown = (Added \ Banned) \cap history.present
    BY DEF RangeIsExact
  <2> DEFINE adds == UNION {TipAdds(history, firstParent, x) : x \in ToSet(tips)}
  <2>1. Added = adds
    <3>1. adds = IF spec = <<>> THEN Reached({history.head})
                 ELSE UNION {AddsIn(history, firstParent, t) : t \in ToSet(spec)}
      BY DEF WalkInvariant, TokenInv, TokensDone, Parsing
    <3>2. UNION {Adds(t) : t \in ToSet(spec)} = UNION {AddsIn(history, firstParent, t) : t \in ToSet(spec)}
      BY AddsIsAddsIn
    <3>3. Reach({history.head}) = Reached({history.head})
      BY ReachIsReachIn DEF Reached
    <3>4. QED BY <3>1, <3>2, <3>3 DEF Added
  <2>2. Banned = Excluded
    <3>1. ToSet(excludes) = UNION {BansIn(history, t) : t \in ToSet(spec)}
      BY DEF WalkInvariant, TokenInv, TokensDone, Parsing
    <3>2. UNION {Bans(t) : t \in ToSet(spec)} = UNION {BansIn(history, t) : t \in ToSet(spec)}
      BY AddsIsAddsIn
    <3>3. QED BY <3>1, <3>2, ReachIsReachIn DEF Banned, Excluded, Reached
  <2>3. \A x : TipShows(x) = (TipAdds(history, firstParent, x) \ Excluded) \cap history.present
    BY DEF TipShows, ShowsIn, Excluded, Reached
  <2>4. UNION {TipShows(x) : x \in ToSet(tips)} = (adds \ Excluded) \cap history.present
    BY <2>3
  <2>5. QED BY <2>1, <2>2, <2>4, DoneShows
<1>2. QED BY <1>1, WalkIsInductive, PTL DEF Spec

\* A commit carries the side of a tip that reaches it, and with it the token the tip is from.
THEOREM SidesCorrect == Spec => []SidesAreExact
<1>1. WalkInvariant => SidesAreExact
  <2> SUFFICES ASSUME WalkInvariant, NEW i \in DOMAIN result
               PROVE  LET c == result[i].commit
                          From(this, other) == c \in Reach({this}) \ Reach({other})
                          symmetric == {t \in ToSet(spec) : t.op = "symmetric"}
                      IN /\ result[i].side = "left" => \E t \in symmetric : From(t.from, t.rev)
                         /\ result[i].side = "right" => \E t \in symmetric : From(t.rev, t.from)
                         /\ result[i].side = "none" =>
                              spec = <<>> \/ \E t \in ToSet(spec) \ symmetric : c \in Adds(t)
    BY DEF SidesAreExact
  <2>1. result \in Seq([commit : Commits, side : Sides]) /\ i \in 1..Len(result)
    BY LenProperties DEF WalkInvariant, TypeInv, TypeOK
  <2>2. phase \in {"merge", "done"}
    <3>1. result # <<>>
      BY <2>1, EmptySeq
    <3>2. QED BY <3>1 DEF WalkInvariant, TypeInv
  <2>3. PICK k \in 1..Len(pos) : result[i].side = tips[k].side /\ result[i].commit \in ToSet(perTip[k])
    BY <2>1, <2>2 DEF WalkInvariant, MergeInv
  <2> DEFINE x == tips[k]
             c == result[i].commit
  <2>4. Len(pos) = Len(tips) /\ Len(perTip) = Len(tips) /\ tips \in Seq(Tips)
    BY <2>2 DEF WalkInvariant, TypeInv, TypeOK
  <2>5. c \in TipAdds(history, firstParent, x)
    <3>1. ToSet(perTip[k]) = TipShows(x)
      BY <2>3, <2>4 DEF WalkInvariant, WalkInv
    <3>2. QED BY <2>3, <3>1 DEF TipShows, ShowsIn
  <2>6. Sided(history, firstParent, x, ToSet(spec)) \/ (x.side = "none" /\ spec = <<>>)
    <3>1. x \in ToSet(tips)
      BY <2>3, <2>4, SetOfSeq
    <3>2. QED BY <2>2, <3>1 DEF WalkInvariant, TokenInv, TokensDone, Parsing
  <2> HIDE DEF x, c
  <2>7. result[i].side = x.side
    BY <2>3 DEF x
  <2>8. CASE x.side = "left"
    <3>1. PICK t \in ToSet(spec) : t.op = "symmetric" /\ x.hash = t.from /\ x.locals = <<t.rev>>
      BY <2>6, <2>8 DEF Sided
    <3>2. c \in Reach({t.from}) \ Reach({t.rev})
      BY <2>5, <3>1, SetOfFew, ReachIsReachIn DEF TipAdds
    <3>3. QED BY <2>7, <2>8, <3>1, <3>2 DEF c
  <2>9. CASE x.side = "right"
    <3>1. PICK t \in ToSet(spec) : t.op = "symmetric" /\ x.hash = t.rev /\ x.locals = <<t.from>>
      BY <2>6, <2>9 DEF Sided
    <3>2. c \in Reach({t.rev}) \ Reach({t.from})
      BY <2>5, <3>1, SetOfFew, ReachIsReachIn DEF TipAdds
    <3>3. QED BY <2>7, <2>9, <3>1, <3>2 DEF c
  <2>10. CASE x.side = "none" /\ spec # <<>>
    <3>1. PICK t \in ToSet(spec) : t.op # "symmetric" /\ c \in AddsIn(history, firstParent, t)
      BY <2>5, <2>6, <2>10 DEF Sided
    <3>2. c \in Adds(t)
      BY <3>1, AddsIsAddsIn
    <3>3. QED BY <2>7, <2>10, <3>1, <3>2 DEF c
  <2>11. CASE x.side = "none" /\ spec = <<>>
    BY <2>7, <2>11
  <2>12. x.side \in Sides
    <3>1. tips[k] \in Tips
      BY <2>3, <2>4, ElementOfSeq
    <3>2. QED BY <3>1 DEF x, Tips
  <2>13. QED BY <2>8, <2>9, <2>10, <2>11, <2>12 DEF Sides
<1>2. QED BY <1>1, WalkIsInductive, PTL DEF Spec

-----------------------------------------------------------------------------
\* The order of the log.

LEMMA InsertKeepsOrder ==
  ASSUME TypeInv, OrderInv, Insert
  PROVE  InOrder(history, commits, sorted)'
<1> DEFINE c == commits[sorted + 1]
           k == Slot(c)
           T(i) == history.time[commits[i]]
<1>1. /\ phase = "sort" /\ sorted < Len(commits) /\ sorted' = sorted + 1
      /\ commits' = Moved(commits, k, sorted) /\ history' = history
  BY DEF Insert, Moved, input
<1>2. commits \in Seq(Commits) /\ sorted \in Nat /\ Len(commits) \in Nat
  BY TypeParts DEF TypeInv, TypeOK
<1>3. \A i \in 1..(sorted + 1) : i \in 1..Len(commits) /\ T(i) \in Nat
  <2>1. \A i \in 1..(sorted + 1) : i \in 1..Len(commits)
    BY <1>1, <1>2
  <2>2. \A i \in 1..Len(commits) : commits[i] \in Commits
    BY <1>2, ElementOfSeq
  <2>3. QED BY <2>1, <2>2, TypeParts
<1>4. /\ k \in 0..sorted
      /\ k # 0 => T(k) >= T(sorted + 1)
      /\ \A j \in 1..sorted : j > k => ~(T(j) >= T(sorted + 1))
  <2> HIDE DEF c, k, T
  <2>1. /\ k \in 0..sorted
        /\ k # 0 => Time(commits[k]) >= Time(c)
        /\ \A j \in 1..sorted : j > k => ~(Time(commits[j]) >= Time(c))
    BY <1>2, SlotIsSlot DEF k
  <2>2. QED BY <2>1 DEF Time, T, c
<1>5. \A i \in 1..Len(commits) :
        commits'[i] = IF i <= k THEN commits[i] ELSE IF i = k + 1 THEN commits[sorted + 1]
                      ELSE IF i <= sorted + 1 THEN commits[i - 1] ELSE commits[i]
  <2> HIDE DEF k
  <2> QED BY <1>1, <1>2, <1>4, MovedElements
<1>6. \A i, j \in 1..sorted : i < j => T(i) >= T(j)
  BY <1>1 DEF OrderInv, InOrder, Time
<1> HIDE DEF k, c
<1> DEFINE U(i) == history.time[commits'[i]]
<1>7. \A i \in 1..(sorted + 1) :
        U(i) = IF i <= k THEN T(i) ELSE IF i = k + 1 THEN T(sorted + 1) ELSE T(i - 1)
  <2> HIDE DEF T
  <2>1. ASSUME NEW i \in 1..(sorted + 1)
        PROVE  commits'[i] = IF i <= k THEN commits[i] ELSE IF i = k + 1 THEN commits[sorted + 1]
                             ELSE commits[i - 1]
    BY <1>3, <1>5
  <2>2. QED BY <2>1 DEF T
<1>8. \A j \in 1..k : T(j) >= T(sorted + 1)
  <2> HIDE DEF T
  <2>1. ASSUME NEW j \in 1..k PROVE T(j) >= T(sorted + 1)
    <3>1. k \in 1..sorted /\ j \in 1..sorted /\ sorted + 1 \in 1..(sorted + 1)
          /\ k \in 1..(sorted + 1) /\ j \in 1..(sorted + 1)
      BY <1>2, <1>4
    <3>2. T(k) \in Nat /\ T(j) \in Nat /\ T(sorted + 1) \in Nat
      BY <1>3, <3>1
    <3>3. T(j) >= T(k)
      BY <1>6, <3>1, <3>2
    <3>4. QED BY <1>4, <3>1, <3>2, <3>3
  <2>2. QED BY <2>1
<1>9. \A j \in 1..sorted : j > k => T(sorted + 1) >= T(j)
  <2> HIDE DEF T
  <2>1. sorted + 1 \in 1..(sorted + 1) /\ \A j \in 1..sorted : j \in 1..(sorted + 1)
    BY <1>2
  <2>2. QED BY <1>3, <1>4, <2>1
<1>10. ASSUME NEW i \in 1..(sorted + 1), NEW j \in 1..(sorted + 1), i < j
       PROVE  U(i) >= U(j)
  <2> HIDE DEF T, U
  <2>1. CASE j <= k
    <3>1. i \in 1..sorted /\ j \in 1..sorted /\ i <= k
      BY <1>2, <1>4, <1>10, <2>1
    <3>2. QED BY <1>6, <1>7, <1>10, <2>1, <3>1
  <2>2. CASE j = k + 1
    <3>1. i \in 1..k /\ ~(j <= k) /\ i <= k
      BY <1>2, <1>4, <1>10, <2>2
    <3>2. QED BY <1>7, <1>8, <2>2, <3>1
  <2>3. CASE j > k + 1
    <3>1. j - 1 \in 1..sorted /\ j - 1 > k /\ ~(j <= k) /\ j # k + 1
      BY <1>2, <1>4, <1>10, <2>3
    <3>2. U(j) = T(j - 1)
      BY <1>7, <3>1
    <3>3. CASE i <= k
      <4>1. i \in 1..sorted /\ i < j - 1
        BY <1>2, <1>4, <2>3, <3>3
      <4>2. QED BY <1>6, <1>7, <3>1, <3>2, <3>3, <4>1
    <3>4. CASE i = k + 1
      <4>1. U(i) = T(sorted + 1)
        BY <1>2, <1>4, <1>7, <3>4
      <4>2. QED BY <1>9, <3>1, <3>2, <4>1
    <3>5. CASE i > k + 1
      <4>1. i - 1 \in 1..sorted /\ i - 1 < j - 1 /\ ~(i <= k) /\ i # k + 1
        BY <1>2, <1>4, <1>10, <3>5
      <4>2. QED BY <1>6, <1>7, <3>1, <3>2, <4>1
    <3>6. QED BY <1>2, <1>4, <3>3, <3>4, <3>5
  <2>4. QED BY <1>2, <1>4, <2>1, <2>2, <2>3
<1>11. QED BY <1>1, <1>10 DEF InOrder, Time

\* After a step of the merge no head is newer than the one just taken.
LEMMA HeadsGetOlder ==
  ASSUME TypeInv, OrderInv, NEW i \in DOMAIN pos, Merge(i), NEW k \in Cursors'
  PROVE  /\ HeadOf(k)' \in Commits /\ Time(HeadOf(i)) >= Time(HeadOf(k)')
         /\ \A j \in 1..Len(result) : Time(result[j].commit) >= Time(HeadOf(k)')
<1>1. /\ phase = "merge" /\ i \in 1..Len(pos) /\ Len(pos) \in Nat
      /\ Len(pos) = Len(perTip) /\ Len(pos') = Len(pos)
      /\ pos[i] \in 1..Len(perTip[i]) /\ pos'[i] = pos[i] + 1
      /\ \A j \in 1..Len(pos) : /\ perTip[j] \in Seq(Commits) /\ Len(perTip[j]) \in Nat
                                /\ pos[j] \in Nat \ {0}
                                /\ j # i => pos'[j] = pos[j]
      /\ HeadOf(i) = perTip[i][pos[i]] /\ HeadOf(i) \in Commits
      /\ perTip' = perTip
  BY MergeParts
<1>2. i \in Cursors /\ \A j \in Cursors : Time(HeadOf(i)) >= Time(HeadOf(j))
  BY DEF Merge
<1>3. pos \in Seq(Nat \ {0}) /\ pos' \in Seq(Nat \ {0}) /\ DOMAIN pos = 1..Len(pos) /\ DOMAIN pos' = 1..Len(pos)
  <2>1. pos' = [pos EXCEPT ![i] = pos[i] + 1] /\ pos \in Seq(Nat \ {0})
    BY DEF Merge, TypeInv, TypeOK
  <2>2. pos' \in Seq(Nat \ {0})
    BY <1>1, <2>1, ExceptSeq
  <2>3. QED BY <1>1, <2>1, <2>2, LenProperties
<1>4. k \in 1..Len(pos) /\ pos'[k] <= Len(perTip[k]) /\ HeadOf(k)' = perTip[k][pos'[k]]
  BY <1>1, <1>3 DEF Cursors, HeadOf
<1>5. \A c \in Commits : Time(c) \in Nat
  BY TypeParts DEF Time
<1>6. \A j \in 1..Len(result) : result[j].commit \in Commits /\ Time(result[j].commit) \in Nat
  <2>1. \A j \in 1..Len(result) : result[j] \in [commit : Commits, side : Sides]
    BY ElementOfSeq DEF TypeInv, TypeOK
  <2>2. QED BY <1>5, <2>1
<1>7. \A j \in 1..Len(result), l \in Cursors : Time(result[j].commit) >= Time(HeadOf(l))
  BY <1>1 DEF OrderInv, Time, HeadOf
<1>8. CASE k # i
  <2>1. pos'[k] = pos[k] /\ HeadOf(k)' = HeadOf(k) /\ k \in Cursors
    BY <1>1, <1>3, <1>4, <1>8 DEF Cursors, HeadOf
  <2>2. HeadOf(k) \in Commits
    <3>1. pos[k] \in 1..Len(perTip[k])
      BY <1>1, <1>4, <2>1
    <3>2. QED BY <1>1, <1>4, <3>1, ElementOfSeq DEF HeadOf
  <2>3. QED BY <1>2, <1>7, <2>1, <2>2
<1>9. CASE k = i
  <2>1. /\ pos[i] + 1 \in 1..Len(perTip[i]) /\ pos[i] \in 1..Len(perTip[i]) /\ pos[i] < pos[i] + 1
        /\ HeadOf(k)' = perTip[i][pos[i] + 1]
    BY <1>1, <1>4, <1>9
  <2>2. HeadOf(k)' \in Commits
    BY <1>1, <2>1, ElementOfSeq
  <2>3. Time(HeadOf(i)) >= Time(HeadOf(k)')
    BY <1>1, <2>1 DEF OrderInv, InOrder, Time
  <2>4. Time(HeadOf(i)) \in Nat /\ Time(HeadOf(k)') \in Nat
    BY <1>1, <1>5, <2>2
  <2>5. ASSUME NEW j \in 1..Len(result) PROVE Time(result[j].commit) >= Time(HeadOf(k)')
    <3>1. Time(result[j].commit) >= Time(HeadOf(i)) /\ Time(result[j].commit) \in Nat
      BY <1>2, <1>6, <1>7
    <3>2. QED BY <2>3, <2>4, <3>1
  <2>6. QED BY <2>2, <2>3, <2>5
<1>10. QED BY <1>8, <1>9

LEMMA MergeKeepsOrder ==
  ASSUME TypeInv, OrderInv, NEW i \in DOMAIN pos, Merge(i)
  PROVE  OrderInv'
<1>1. /\ phase = "merge" /\ phase' = "merge" /\ perTip' = perTip /\ history' = history
      /\ result \in Seq([commit : Commits, side : Sides]) /\ i \in Cursors
  <2>1. UNCHANGED <<input, phase, perTip>>
    BY MergeParts
  <2>2. QED BY <2>1, MergeParts DEF Merge, input
<1>2. Len(result) \in Nat /\ DOMAIN result = 1..Len(result) /\ result' \in Seq([commit : Commits, side : Sides])
  BY <1>1, NextTyped, LenProperties DEF Next, TypeInv, TypeOK
<1>3. DOMAIN result' = 1..Len(result')
  BY <1>2, LenProperties
<1>4. \A k \in 1..Len(perTip') : InOrder(history', perTip'[k], Len(perTip'[k]))
  BY <1>1 DEF OrderInv
<1>5. \A k : HeadOf(k)' = perTip'[k][pos'[k]]
  BY DEF HeadOf
<1>6. CASE result' = result
  <2>1. \A j \in 1..Len(result'), k \in Cursors' :
          history'.time[result'[j].commit] >= history'.time[perTip'[k][pos'[k]]]
    <3>1. \A j \in 1..Len(result), k \in Cursors' : Time(result[j].commit) >= Time(HeadOf(k)')
      BY HeadsGetOlder
    <3>2. QED BY <1>1, <1>5, <1>6, <3>1 DEF Time
  <2>2. NewestFirst'
    BY <1>1, <1>6 DEF OrderInv, NewestFirst, Time
  <2>3. QED BY <1>1, <1>4, <2>1, <2>2 DEF OrderInv
<1>7. CASE result' # result
  <2>1. /\ HeadOf(i) \notin Shown /\ Len(result') = Len(result) + 1
        /\ result'[Len(result) + 1].commit = HeadOf(i)
        /\ \A j \in 1..Len(result) : result'[j] = result[j]
    <3>1. result'[Len(result) + 1] = [commit |-> HeadOf(i), side |-> tips[i].side]
      BY <1>7, MergeShows
    <3>2. QED BY <1>7, <3>1, MergeShows
  <2>2. \A j \in 1..Len(result') : j \in 1..Len(result) \/ j = Len(result) + 1
    BY <1>2, <2>1
  <2>3. \A j \in 1..Len(result'), k \in Cursors' : Time(result'[j].commit) >= Time(HeadOf(k)')
    <3>1. ASSUME NEW j \in 1..Len(result'), NEW k \in Cursors'
          PROVE  Time(result'[j].commit) >= Time(HeadOf(k)')
      <4>1. /\ Time(HeadOf(i)) >= Time(HeadOf(k)')
            /\ \A l \in 1..Len(result) : Time(result[l].commit) >= Time(HeadOf(k)')
        BY HeadsGetOlder
      <4>2. QED BY <2>1, <2>2, <4>1
    <3>2. QED BY <3>1
  <2>4. \A j \in 1..Len(result'), k \in Cursors' :
          history'.time[result'[j].commit] >= history'.time[perTip'[k][pos'[k]]]
    BY <1>1, <1>5, <2>3 DEF Time
  <2>5. ASSUME NEW j \in 1..Len(result'), NEW l \in 1..Len(result'), j < l
        PROVE  /\ Time(result'[j].commit) >= Time(result'[l].commit)
               /\ result'[j].commit # result'[l].commit
    <3>1. j \in 1..Len(result)
      BY <1>2, <2>1, <2>5
    <3>2. CASE l \in 1..Len(result)
      BY <1>2, <2>1, <2>5, <3>1, <3>2 DEF OrderInv, NewestFirst
    <3>3. CASE l = Len(result) + 1
      <4>1. Time(result[j].commit) >= Time(HeadOf(i))
        BY <1>1, <3>1 DEF OrderInv, Time, HeadOf
      <4>2. result[j].commit \in Shown
        BY <1>2, <3>1 DEF Shown
      <4>3. QED BY <2>1, <3>1, <3>3, <4>1, <4>2
    <3>4. QED BY <2>2, <3>2, <3>3
  <2>6. NewestFirst'
    BY <1>1, <1>3, <2>5 DEF NewestFirst, Time
  <2>7. QED BY <1>1, <1>4, <2>4, <2>6 DEF OrderInv
<1>8. QED BY <1>6, <1>7

LEMMA NextOrder == TypeInv /\ OrderInv /\ [Next]_vars => OrderInv'
<1> SUFFICES ASSUME TypeInv, OrderInv, [Next]_vars PROVE OrderInv'
  OBVIOUS
<1>0. history' = history
  BY StepParts
<1>1. CASE Insert
  <2>1. phase' = "sort" /\ perTip' = perTip /\ result' = result
    BY <1>1 DEF Insert
  <2>2. QED BY <1>0, <1>1, <2>1, InsertKeepsOrder DEF OrderInv, NewestFirst, Time
<1>2. CASE SortDone
  <2>1. /\ phase = "sort" /\ sorted = Len(commits) /\ phase' = "tip" /\ result' = result
        /\ perTip' = Append(perTip, commits)
    BY <1>2 DEF SortDone
  <2>2. perTip \in Seq(Seq(Commits)) /\ commits \in Seq(Commits) /\ Len(perTip) \in Nat
    BY TypeParts DEF TypeInv, TypeOK
  <2>3. /\ Len(perTip') = Len(perTip) + 1 /\ perTip'[Len(perTip) + 1] = commits
        /\ \A i \in 1..Len(perTip) : perTip'[i] = perTip[i]
    BY <2>1, <2>2, AppendProperties
  <2>4. ASSUME NEW i \in 1..Len(perTip') PROVE InOrder(history, perTip'[i], Len(perTip'[i]))
    <3>1. i \in 1..Len(perTip) \/ i = Len(perTip) + 1
      BY <2>2, <2>3
    <3>2. QED BY <2>1, <2>3, <3>1 DEF OrderInv
  <2>5. QED BY <1>0, <2>1, <2>4 DEF OrderInv, NewestFirst, Time
<1>3. CASE StartMerge
  <2>1. phase' = "merge" /\ result' = <<>> /\ result = <<>> /\ perTip' = perTip
    BY <1>3 DEF StartMerge, TypeInv
  <2>2. 1..Len(result') = {}
    BY <2>1, EmptySeq
  <2>3. QED BY <1>0, <2>1, <2>2 DEF OrderInv, NewestFirst, Time
<1>4. ASSUME NEW i \in DOMAIN pos, Merge(i) PROVE OrderInv'
  BY <1>4, MergeKeepsOrder
<1>5. CASE MergeDone
  <2>1. phase = "merge" /\ phase' = "done" /\ UNCHANGED <<input, perTip, pos, result>>
    BY <1>5 DEF MergeDone, Stop
  <2>2. UNCHANGED Cursors
    BY <2>1 DEF Cursors
  <2>3. QED BY <1>0, <2>1, <2>2 DEF OrderInv, NewestFirst, Time
<1>6. CASE UNCHANGED vars
  <2>1. UNCHANGED <<phase, history, perTip, pos, result, commits, sorted>>
    BY <1>6 DEF vars, input
  <2>2. UNCHANGED Cursors
    BY <2>1 DEF Cursors
  <2>3. QED BY <2>1, <2>2 DEF OrderInv, NewestFirst, Time
<1>7. CASE \/ ParseToken \/ Parsed \/ LookAtParent \/ Visit \/ RefuseCap \/ GlobalDone \/ StartTip
           \/ LocalDone \/ WalkDone
  <2>1. /\ perTip' = perTip /\ result' = result
        /\ phase' \notin {"merge", "done"} /\ (phase' = "sort" => sorted' = 0)
    <3>1. CASE ParseToken /\ Resolves(Token) /\ ApplyToken(Token)
      <4>1. PICK newTips \in Seq(Tips), newExcludes \in Seq(Commits) : Add(newTips, newExcludes)
        BY <3>1, TokenMeans DEF ParseToken
      <4>2. QED BY <3>1, <4>1 DEF ParseToken, Add
    <3>2. CASE ~(ParseToken /\ Resolves(Token) /\ ApplyToken(Token))
      BY <1>7, <3>2 DEF ParseToken, Parsed, LookAtParent, Visit, RefuseCap, GlobalDone, StartTip, LocalDone,
                        WalkDone, Stop, Searching
    <3>3. QED BY <3>1, <3>2
  <2>2. phase' = "sort" => InOrder(history, commits, sorted)'
    <3>1. 1..0 = {}
      OBVIOUS
    <3>2. QED BY <2>1, <3>1 DEF InOrder
  <2>3. QED BY <1>0, <2>1, <2>2 DEF OrderInv, NewestFirst, Time
<1>8. QED BY <1>1, <1>2, <1>3, <1>4, <1>5, <1>6, <1>7 DEF Next

LEMMA InitOrder == Init => OrderInv
<1> SUFFICES ASSUME Init PROVE OrderInv
  OBVIOUS
<1>1. phase = "parse" /\ Len(perTip) = 0 /\ DOMAIN result = {}
  BY EmptySeq DEF Init
<1>2. QED BY <1>1 DEF OrderInv, NewestFirst

\* Newest first and no commit twice, at every point of the merge and for any clocks.
THEOREM OrderCorrect == Spec => []NewestFirst
<1>1. Init => TypeInv /\ OrderInv
  BY InitTyped, InitOrder
<1>2. TypeInv /\ OrderInv /\ [Next]_vars => (TypeInv /\ OrderInv)'
  BY NextTyped, NextOrder
<1>3. OrderInv => NewestFirst
  BY DEF OrderInv
<1>4. QED BY <1>1, <1>2, <1>3, PTL DEF Spec

-----------------------------------------------------------------------------
\* The cap.

LEMMA CountOf ==
  ASSUME NEW S \in SUBSET Commits
  PROVE  Cardinality(S) \in Nat /\ \A T \in SUBSET S : Cardinality(T) \in Nat /\ Cardinality(T) <= Cardinality(S)
<1>1. IsFiniteSet(S)
  BY CommitsAssumption, FS_Subset
<1>2. Cardinality(S) \in Nat
  BY <1>1, FS_CardinalityType
<1>3. ASSUME NEW T \in SUBSET S PROVE Cardinality(T) \in Nat /\ Cardinality(T) <= Cardinality(S)
  <2>1. IsFiniteSet(T)
    BY <1>1, FS_Subset
  <2>2. Cardinality(T) \in Nat
    BY <2>1, FS_CardinalityType
  <2>3. Cardinality(T) <= Cardinality(S)
    BY <1>1, FS_Subset
  <2>4. QED BY <2>2, <2>3
<1>4. QED BY <1>2, <1>3

\* A search that goes over the cap is of a set that does, however far it has got.
LEMMA RefusedIsLarge ==
  ASSUME TypeInv, SearchInv, RefuseCap
  PROVE  phase \in {"exclude", "local"} /\ ~Fits(history, firstParent, Starts)
<1>1. Searching /\ phase # "walk" /\ Cardinality(found) > maxWalk
  BY DEF RefuseCap, OverCap
<1>2. Reached(Starts) \in SUBSET Commits /\ found \in SUBSET Reached(Starts)
  <2>1. Reached(Starts) \subseteq Commits
    BY <1>1, SearchParts
  <2>2. found \subseteq Reached(Starts)
    BY <1>1 DEF SearchInv
  <2>3. QED BY <2>1, <2>2
<1>3. /\ Cardinality(found) \in Nat /\ Cardinality(Reached(Starts)) \in Nat
      /\ Cardinality(found) <= Cardinality(Reached(Starts))
  BY <1>2, CountOf
<1>4. ~(Cardinality(Reached(Starts)) <= maxWalk)
  BY <1>1, <1>3, MaxWalkAssumption
<1>5. QED BY <1>1, <1>4 DEF Fits, Reached, Searching

LEMMA NextCap == TypeInv /\ SearchInv /\ CapInv /\ [Next]_vars => CapInv'
<1> SUFFICES ASSUME TypeInv, SearchInv, CapInv, [Next]_vars PROVE CapInv'
  OBVIOUS
<1>0. history' = history /\ firstParent' = firstParent
  BY StepParts
<1>1. Cardinality({}) <= maxWalk
  <2>1. Cardinality({}) = 0
    BY FS_EmptySet
  <2>2. QED BY <2>1, MaxWalkAssumption
<1>2. CASE ParseToken
  <2>1. phase = "parse" /\ phase' \in {"parse", "invalid"} /\ perTip' = perTip
    <3>1. CASE Resolves(Token) /\ ApplyToken(Token)
      <4>1. PICK newTips \in Seq(Tips), newExcludes \in Seq(Commits) : Add(newTips, newExcludes)
        BY <1>2, <3>1, TokenMeans DEF ParseToken
      <4>2. QED BY <1>2, <4>1 DEF ParseToken, Add
    <3>2. QED BY <1>2, <3>1 DEF ParseToken, Stop
  <2>2. 1..Len(perTip') = {}
    BY <2>1, EmptySeq DEF TypeInv
  <2>3. QED BY <2>1, <2>2 DEF CapInv
<1>3. CASE Parsed
  <2>1. /\ phase = "parse" /\ perTip' = perTip
        /\ phase' = "invalid" \/ (phase' = "exclude" /\ found' = {})
    BY <1>3 DEF Parsed, Stop, Search
  <2>2. 1..Len(perTip') = {}
    BY <2>1, EmptySeq DEF TypeInv
  <2>3. phase' = "exclude" => Cardinality(found') <= maxWalk
    BY <1>1, <2>1
  <2>4. QED BY <2>1, <2>2, <2>3 DEF CapInv
<1>4. CASE LookAtParent
  <2> DEFINE p == Head(parents)
  <2>1. /\ Searching /\ parents # <<>> /\ found' = found \cup {p}
        /\ queue' = IF p \in found \cup Barrier THEN queue ELSE Append(queue, p)
        /\ UNCHANGED <<phase, at, tips, excludes, perTip>>
    BY <1>4 DEF LookAtParent, revset
  <2>2. p \in Commits /\ queue \in Seq(Commits)
    BY <2>1, SetOfTail DEF TypeInv, TypeOK
  <2> HIDE DEF p
  <2>3. Append(queue, p) # <<>>
    <3>1. Append(queue, p) \in Seq(Commits) /\ p \in ToSet(Append(queue, p))
      BY <2>2, SetOfAppend
    <3>2. QED BY <3>1, SetOfFew
  <2>4. phase \in {"exclude", "local"} => Cardinality(found') <= maxWalk \/ queue' # <<>>
    <3>1. CASE p \in found \cup Barrier
      <4>1. phase \in {"exclude", "local"} => found' = found /\ queue' = queue
        BY <2>1, <3>1 DEF Barrier
      <4>2. QED BY <4>1 DEF CapInv
    <3>2. CASE p \notin found \cup Barrier
      BY <2>1, <2>3, <3>2
    <3>3. QED BY <3>1, <3>2
  <2>5. QED BY <1>0, <2>1, <2>4 DEF CapInv
<1>5. CASE Visit
  <2>1. /\ ~OverCap /\ found' = found /\ UNCHANGED <<phase, at, tips, excludes, perTip>>
    BY <1>5 DEF Visit, revset
  <2>2. Cardinality(found) \in Nat
    BY CountOf DEF TypeInv, TypeOK
  <2>3. phase \in {"exclude", "local"} => Cardinality(found) <= maxWalk
    BY <2>1, <2>2, MaxWalkAssumption DEF OverCap
  <2>4. QED BY <1>0, <2>1, <2>3 DEF CapInv
<1>6. CASE RefuseCap
  <2>1. phase' = "capped" /\ UNCHANGED <<tips, excludes, perTip>>
    BY <1>6 DEF RefuseCap, Stop, revset
  <2>2. \/ ~Fits(history, firstParent, ToSet(excludes))
        \/ \E i \in 1..Len(tips) : ~Fits(history, firstParent, ToSet(tips[i].locals))
    <3>1. CASE phase = "exclude"
      BY <1>6, <3>1, RefusedIsLarge DEF Starts
    <3>2. CASE phase = "local"
      <4>1. at \in 1..Len(tips)
        BY <3>2, TypeParts DEF TypeInv, TypeOK
      <4>2. QED BY <1>6, <3>2, <4>1, RefusedIsLarge DEF Starts
    <3>3. QED BY <1>6, <3>1, <3>2, RefusedIsLarge
  <2>3. QED BY <1>0, <2>1, <2>2 DEF CapInv
<1>7. CASE GlobalDone
  <2>1. /\ phase = "exclude" /\ Exhausted /\ phase' = "tip" /\ UNCHANGED <<tips, excludes, perTip>>
    BY <1>7 DEF GlobalDone, revset
  <2>2. Fits(history, firstParent, ToSet(excludes))
    <3>1. Cardinality(found) <= maxWalk
      BY <2>1 DEF CapInv, Exhausted
    <3>2. found = Reached(ToSet(excludes))
      BY <2>1, Exhausts DEF Starts
    <3>3. QED BY <3>1, <3>2 DEF Fits, Reached
  <2>3. QED BY <1>0, <2>1, <2>2 DEF CapInv
<1>8. CASE StartTip
  <2>1. phase = "tip" /\ phase' = "local" /\ found' = {} /\ UNCHANGED <<tips, excludes, perTip>>
    BY <1>8 DEF StartTip, Search, revset
  <2>2. Cardinality(found') <= maxWalk
    BY <1>1, <2>1
  <2>3. QED BY <1>0, <2>1, <2>2 DEF CapInv
<1>9. CASE LocalDone
  <2>1. phase = "local" /\ Exhausted /\ phase' = "walk" /\ UNCHANGED <<at, tips, excludes, perTip>>
    BY <1>9 DEF LocalDone, revset
  <2>2. Fits(history, firstParent, ToSet(tips[at].locals))
    <3>1. Cardinality(found) <= maxWalk
      BY <2>1 DEF CapInv, Exhausted
    <3>2. found = Reached(ToSet(tips[at].locals))
      BY <2>1, Exhausts DEF Starts
    <3>3. QED BY <3>1, <3>2 DEF Fits, Reached
  <2>3. QED BY <1>0, <2>1, <2>2 DEF CapInv
<1>10. CASE WalkDone \/ Insert
  <2>1. phase \in {"walk", "sort"} /\ phase' = "sort" /\ UNCHANGED <<at, tips, excludes, perTip>>
    BY <1>10 DEF WalkDone, Insert, revset
  <2>2. QED BY <1>0, <2>1 DEF CapInv
<1>11. CASE SortDone
  <2>1. /\ phase = "sort" /\ phase' = "tip" /\ perTip' = Append(perTip, commits)
        /\ UNCHANGED <<tips, excludes>>
    BY <1>11 DEF SortDone, revset
  <2>2. perTip \in Seq(Seq(Commits)) /\ commits \in Seq(Commits) /\ Len(perTip) = at - 1 /\ at \in Nat
    BY <2>1 DEF TypeInv, TypeOK
  <2>3. \A i \in 1..Len(perTip') : i = at \/ i \in 1..Len(perTip)
    <3>1. Len(perTip') = at
      BY <2>1, <2>2, AppendProperties
    <3>2. QED BY <2>2, <3>1
  <2>4. \A i \in 1..Len(perTip') : Fits(history, firstParent, ToSet(tips[i].locals))
    BY <2>1, <2>3 DEF CapInv
  <2>5. QED BY <1>0, <2>1, <2>4 DEF CapInv
<1>12. CASE StartMerge \/ (\E i \in DOMAIN pos : Merge(i)) \/ MergeDone
  <2>1. /\ phase \in {"tip", "merge"} /\ phase' \in {"merge", "done"}
        /\ UNCHANGED <<tips, excludes, perTip>>
    BY <1>12 DEF StartMerge, Merge, MergeDone, Stop, revset
  <2>2. QED BY <1>0, <2>1 DEF CapInv
<1>13. CASE UNCHANGED vars
  BY <1>13 DEF vars, input, revset, search, CapInv
<1>14. QED BY <1>2, <1>3, <1>4, <1>5, <1>6, <1>7, <1>8, <1>9, <1>10, <1>11, <1>12, <1>13 DEF Next

LEMMA InitCap == Init => CapInv
<1> SUFFICES ASSUME Init PROVE CapInv
  OBVIOUS
<1>1. phase = "parse" /\ 1..Len(perTip) = {}
  BY EmptySeq DEF Init
<1>2. QED BY <1>1 DEF CapInv

\* A walk is refused when, and only when, a set it enumerates for exclusion is larger than
\* the cap (walker.go:28).
THEOREM CapCorrect == Spec => []CapIsExact
<1>1. Init => TypeInv /\ SearchInv /\ CapInv
  BY InitTyped, InitWalk, InitCap
<1>2. TypeInv /\ SearchInv /\ CapInv /\ [Next]_vars => (TypeInv /\ SearchInv /\ CapInv)'
  BY NextTyped, NextSearch, NextCap
<1>3. TypeInv /\ CapInv => CapIsExact
  <2> SUFFICES ASSUME TypeInv, CapInv PROVE CapIsExact
    OBVIOUS
  <2>1. ASSUME NEW S, S \subseteq Commits
        PROVE  Cardinality(Reach(S)) > maxWalk <=> ~Fits(history, firstParent, S)
    <3>1. Reach(S) = ReachIn(history, firstParent, S)
      BY ReachIsReachIn
    <3>2. Cardinality(Reach(S)) \in Nat
      BY <3>1, CountOf DEF ReachIn
    <3>3. QED BY <3>1, <3>2, MaxWalkAssumption DEF Fits
  <2>2. ToSet(excludes) \subseteq Commits /\ DOMAIN tips = 1..Len(tips)
    BY SetOfSeq, LenProperties DEF TypeInv, TypeOK
  <2>3. \A i \in 1..Len(tips) : ToSet(tips[i].locals) \subseteq Commits
    BY TipAt
  <2>4. phase = "capped" => \/ Cardinality(Reach(ToSet(excludes))) > maxWalk
                            \/ \E S \in {ToSet(tips[i].locals) : i \in DOMAIN tips} : Cardinality(Reach(S)) > maxWalk
    BY <2>1, <2>2, <2>3 DEF CapInv
  <2>5. phase = "done" => /\ ~(Cardinality(Reach(ToSet(excludes))) > maxWalk)
                          /\ \A S \in {ToSet(tips[i].locals) : i \in DOMAIN tips} : ~(Cardinality(Reach(S)) > maxWalk)
    <3> SUFFICES ASSUME phase = "done" PROVE /\ ~(Cardinality(Reach(ToSet(excludes))) > maxWalk)
                          /\ \A S \in {ToSet(tips[i].locals) : i \in DOMAIN tips} : ~(Cardinality(Reach(S)) > maxWalk)
      OBVIOUS
    <3>1. Fits(history, firstParent, ToSet(excludes))
      BY DEF CapInv
    <3>2. \A i \in 1..Len(tips) : Fits(history, firstParent, ToSet(tips[i].locals))
      BY DEF CapInv, TypeInv, TypeOK
    <3>3. QED BY <2>1, <2>2, <2>3, <3>1, <3>2
  <2>6. QED BY <2>4, <2>5 DEF CapIsExact
<1>4. QED BY <1>1, <1>2, <1>3, PTL DEF Spec
=============================================================================
