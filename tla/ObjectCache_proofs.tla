------------------------- MODULE ObjectCache_proofs -------------------------
(***************************************************************************)
(* Theorems about ObjectCache, for any number of repos, hashes and values, *)
(* any sizes, limits and time to live.                                     *)
(***************************************************************************)
EXTENDS ObjectCache, SequenceFacts, FiniteSetTheorems

-----------------------------------------------------------------------------
\* What is kept of a list.

KeptFrom(s, T, f, m) ==
  f = [n \in 0..m |-> IF n = 0 THEN <<>>
                      ELSE IF s[n] \in T THEN Append(f[n - 1], s[n]) ELSE f[n - 1]]

LEMMA KeptExists ==
  ASSUME NEW S, NEW s \in Seq(S), NEW T
  PROVE  \E f : KeptFrom(s, T, f, Len(s))
<1> DEFINE Q == {m \in Nat : \E f : KeptFrom(s, T, f, m)}
<1>1. 0 \in Q
  <2> DEFINE f == [n \in 0..0 |-> <<>>]
  <2>1. \A n \in 0..0 : n = 0
    OBVIOUS
  <2>2. KeptFrom(s, T, f, 0)
    BY <2>1 DEF KeptFrom
  <2>3. QED BY <2>2
<1>2. ASSUME NEW m \in Nat, m \in Q PROVE m + 1 \in Q
  <2>1. PICK f : KeptFrom(s, T, f, m)
    BY <1>2
  <2> DEFINE last == IF s[m + 1] \in T THEN Append(f[m], s[m + 1]) ELSE f[m]
             g == [n \in 0..(m + 1) |-> IF n = m + 1 THEN last ELSE f[n]]
             step(n) == IF n = 0 THEN <<>>
                        ELSE IF s[n] \in T THEN Append(g[n - 1], s[n]) ELSE g[n - 1]
  <2>2. \A n \in 0..m : n \in 0..(m + 1) /\ n # m + 1 /\ g[n] = f[n]
    OBVIOUS
  <2>3. \A n \in 0..(m + 1) : n = m + 1 \/ (n \in 0..m /\ (n # 0 => n - 1 \in 0..m))
    OBVIOUS
  <2>4. \A n \in 0..m : f[n] = IF n = 0 THEN <<>>
                               ELSE IF s[n] \in T THEN Append(f[n - 1], s[n]) ELSE f[n - 1]
    BY <2>1 DEF KeptFrom
  <2>5. g[m + 1] = last /\ m + 1 # 0 /\ (m + 1) - 1 = m /\ m \in 0..m /\ m + 1 \in 0..(m + 1)
    OBVIOUS
  <2> HIDE DEF g
  <2>6. \A n \in 0..(m + 1) : g[n] = step(n)
    BY <2>2, <2>3, <2>4, <2>5
  <2>7. g = [n \in 0..(m + 1) |-> g[n]]
    BY DEF g
  <2>8. g = [n \in 0..(m + 1) |-> step(n)]
    BY <2>6, <2>7
  <2>9. KeptFrom(s, T, g, m + 1)
    BY <2>8 DEF KeptFrom
  <2>10. QED BY <2>9
<1>3. Nat \subseteq Q
  <2> HIDE DEF Q
  <2> QED BY <1>1, <1>2, InductionOnNat
<1>4. QED BY <1>3, LenProperties

LEMMA OnlyIsKept ==
  ASSUME NEW S, NEW s \in Seq(S), NEW T
  PROVE  \E f : KeptFrom(s, T, f, Len(s)) /\ Only(s, T) = f[Len(s)]
<1> DEFINE f == CHOOSE f : KeptFrom(s, T, f, Len(s))
<1>1. KeptFrom(s, T, f, Len(s))
  BY KeptExists
<1>2. Only(s, T) = f[Len(s)]
  BY DEF Only, KeptFrom
<1>3. QED BY <1>1, <1>2

LEMMA OnlyOfNothing == \A T : Only(<<>>, T) = <<>>
<1> SUFFICES ASSUME NEW T PROVE Only(<<>>, T) = <<>>
  OBVIOUS
<1>1. <<>> \in Seq({}) /\ Len(<<>>) = 0
  BY EmptySeq
<1>2. PICK f : KeptFrom(<<>>, T, f, 0) /\ Only(<<>>, T) = f[0]
  BY <1>1, OnlyIsKept
<1>3. QED BY <1>2 DEF KeptFrom

LEMMA OnlyOfAppend ==
  ASSUME NEW S, NEW s \in Seq(S), NEW x \in S, NEW T
  PROVE  Only(Append(s, x), T) = IF x \in T THEN Append(Only(s, T), x) ELSE Only(s, T)
<1> DEFINE u == Append(s, x)
           l == Len(s)
<1>1. u \in Seq(S) /\ Len(u) = l + 1 /\ u[l + 1] = x /\ l \in Nat /\ \A i \in 1..l : u[i] = s[i]
  BY AppendProperties, LenProperties
<1> HIDE DEF u, l
<1>2. PICK f : KeptFrom(s, T, f, l) /\ Only(s, T) = f[l]
  BY OnlyIsKept DEF l
<1>3. PICK g : KeptFrom(u, T, g, l + 1) /\ Only(u, T) = g[l + 1]
  BY <1>1, OnlyIsKept
<1>4. \A n \in 0..l : f[n] = IF n = 0 THEN <<>>
                             ELSE IF s[n] \in T THEN Append(f[n - 1], s[n]) ELSE f[n - 1]
  BY <1>2 DEF KeptFrom
<1>5. \A n \in 0..(l + 1) : g[n] = IF n = 0 THEN <<>>
                                   ELSE IF u[n] \in T THEN Append(g[n - 1], u[n]) ELSE g[n - 1]
  BY <1>3 DEF KeptFrom
<1> DEFINE Q == {n \in Nat : n <= l => f[n] = g[n]}
<1>6. 0 \in Q
  BY <1>1, <1>4, <1>5
<1>7. ASSUME NEW n \in Nat, n \in Q PROVE n + 1 \in Q
  <2>1. CASE n + 1 <= l
    <3>1. /\ n + 1 \in 0..l /\ n + 1 \in 0..(l + 1) /\ n + 1 # 0 /\ (n + 1) - 1 = n
          /\ n + 1 \in 1..l /\ n <= l
      BY <1>1, <2>1
    <3>2. f[n] = g[n] /\ u[n + 1] = s[n + 1]
      BY <1>1, <1>7, <3>1
    <3>3. f[n + 1] = g[n + 1]
      BY <1>4, <1>5, <3>1, <3>2
    <3>4. QED BY <3>3
  <2>2. QED BY <2>1
<1>8. Nat \subseteq Q
  <2> HIDE DEF Q
  <2> QED BY <1>6, <1>7, InductionOnNat
<1>9. f[l] = g[l]
  BY <1>1, <1>8
<1>10. l + 1 \in 0..(l + 1) /\ l + 1 # 0 /\ (l + 1) - 1 = l
  BY <1>1
<1>11. g[l + 1] = IF x \in T THEN Append(g[l], x) ELSE g[l]
  BY <1>1, <1>5, <1>10
<1>12. QED BY <1>2, <1>3, <1>9, <1>11 DEF u

LEMMA OnlyElements ==
  ASSUME NEW S, NEW s \in Seq(S), NEW T
  PROVE  Only(s, T) \in Seq(S) /\ ToSet(Only(s, T)) = ToSet(s) \cap T
<1> DEFINE Q == {u \in Seq(S) : Only(u, T) \in Seq(S) /\ ToSet(Only(u, T)) = ToSet(u) \cap T}
<1>1. <<>> \in Q
  BY EmptySeq, OnlyOfNothing, SetOfFew
<1>2. ASSUME NEW u \in Seq(S), NEW x \in S, u \in Q PROVE Append(u, x) \in Q
  <2>1. Append(u, x) \in Seq(S) /\ ToSet(Append(u, x)) = ToSet(u) \cup {x}
    BY SetOfAppend
  <2>2. Only(u, T) \in Seq(S) /\ ToSet(Only(u, T)) = ToSet(u) \cap T
    BY <1>2
  <2>3. /\ Append(Only(u, T), x) \in Seq(S)
        /\ ToSet(Append(Only(u, T), x)) = ToSet(Only(u, T)) \cup {x}
    BY <2>2, SetOfAppend
  <2>4. Only(Append(u, x), T) = IF x \in T THEN Append(Only(u, T), x) ELSE Only(u, T)
    BY OnlyOfAppend
  <2>5. CASE x \in T
    <3>1. ToSet(Only(Append(u, x), T)) = (ToSet(u) \cup {x}) \cap T
      BY <2>2, <2>3, <2>4, <2>5
    <3>2. QED BY <2>1, <2>3, <2>4, <2>5, <3>1
  <2>6. CASE x \notin T
    <3>1. ToSet(Only(Append(u, x), T)) = (ToSet(u) \cup {x}) \cap T
      BY <2>2, <2>4, <2>6
    <3>2. QED BY <2>1, <2>2, <2>4, <2>6, <3>1
  <2>7. QED BY <2>5, <2>6
<1>3. Seq(S) \subseteq Q
  <2> HIDE DEF Q
  <2> QED BY <1>1, <1>2, InductionOnSeq
<1>4. QED BY <1>3

LEMMA OnlyOfOnly ==
  ASSUME NEW S, NEW s \in Seq(S), NEW T, NEW U
  PROVE  Only(Only(s, T), U) = Only(s, T \cap U)
<1> DEFINE Q == {u \in Seq(S) : Only(Only(u, T), U) = Only(u, T \cap U)}
<1>1. <<>> \in Q
  BY EmptySeq, OnlyOfNothing
<1>2. ASSUME NEW u \in Seq(S), NEW x \in S, u \in Q PROVE Append(u, x) \in Q
  <2>1. Only(u, T) \in Seq(S) /\ Append(u, x) \in Seq(S) /\ Only(Only(u, T), U) = Only(u, T \cap U)
    BY <1>2, OnlyElements, SetOfAppend
  <2>2. Only(Append(u, x), T) = IF x \in T THEN Append(Only(u, T), x) ELSE Only(u, T)
    BY OnlyOfAppend
  <2>3. Only(Append(u, x), T \cap U) = IF x \in T \cap U THEN Append(Only(u, T \cap U), x) ELSE Only(u, T \cap U)
    BY OnlyOfAppend
  <2>4. Only(Append(Only(u, T), x), U)
          = IF x \in U THEN Append(Only(Only(u, T), U), x) ELSE Only(Only(u, T), U)
    BY <2>1, OnlyOfAppend
  <2>5. CASE x \in T /\ x \in U
    BY <2>1, <2>2, <2>3, <2>4, <2>5
  <2>6. CASE x \in T /\ x \notin U
    BY <2>1, <2>2, <2>3, <2>4, <2>6
  <2>7. CASE x \notin T
    BY <2>1, <2>2, <2>3, <2>7
  <2>8. QED BY <2>5, <2>6, <2>7
<1>3. Seq(S) \subseteq Q
  <2> HIDE DEF Q
  <2> QED BY <1>1, <1>2, InductionOnSeq
<1>4. QED BY <1>3

LEMMA OnlySame ==
  ASSUME NEW S, NEW s \in Seq(S), NEW T, NEW U, ToSet(s) \cap T = ToSet(s) \cap U
  PROVE  Only(s, T) = Only(s, U)
<1> DEFINE Q == {u \in Seq(S) : ToSet(u) \cap T = ToSet(u) \cap U => Only(u, T) = Only(u, U)}
<1>1. <<>> \in Q
  BY EmptySeq, OnlyOfNothing
<1>2. ASSUME NEW u \in Seq(S), NEW x \in S, u \in Q PROVE Append(u, x) \in Q
  <2>1. Append(u, x) \in Seq(S) /\ ToSet(Append(u, x)) = ToSet(u) \cup {x}
    BY SetOfAppend
  <2>2. Only(Append(u, x), T) = IF x \in T THEN Append(Only(u, T), x) ELSE Only(u, T)
    BY OnlyOfAppend
  <2>3. Only(Append(u, x), U) = IF x \in U THEN Append(Only(u, U), x) ELSE Only(u, U)
    BY OnlyOfAppend
  <2>4. ToSet(Append(u, x)) \cap T = ToSet(Append(u, x)) \cap U
          => ToSet(u) \cap T = ToSet(u) \cap U /\ (x \in T <=> x \in U)
    BY <2>1
  <2>5. QED BY <1>2, <2>1, <2>2, <2>3, <2>4
<1>3. Seq(S) \subseteq Q
  <2> HIDE DEF Q
  <2> QED BY <1>1, <1>2, InductionOnSeq
<1>4. QED BY <1>3

\* A list with k in front.
LEMMA OnlyOfFront ==
  ASSUME NEW S, NEW s \in Seq(S), NEW k \in S, NEW T
  PROVE  Only(<<k>> \o s, T) = IF k \in T THEN <<k>> \o Only(s, T) ELSE Only(s, T)
<1> DEFINE Q == {u \in Seq(S) : Only(<<k>> \o u, T) = IF k \in T THEN <<k>> \o Only(u, T) ELSE Only(u, T)}
           one == <<k>>
<1>0. one \in Seq(S) /\ <<>> \in Seq(S) /\ one = Append(<<>>, k)
  OBVIOUS
<1>1. <<>> \in Q
  <2>1. one \o <<>> = one
    BY <1>0, ConcatEmptySeq
  <2>2. Only(Append(<<>>, k), T) = IF k \in T THEN Append(<<>>, k) ELSE <<>>
    <3>1. \A u \in Seq(S) : Only(Append(u, k), T) = IF k \in T THEN Append(Only(u, T), k) ELSE Only(u, T)
      BY OnlyOfAppend
    <3>2. QED BY <1>0, <3>1, OnlyOfNothing
  <2>3. QED BY <1>0, <2>1, <2>2, OnlyOfNothing
<1>2. ASSUME NEW u \in Seq(S), NEW x \in S, u \in Q PROVE Append(u, x) \in Q
  <2> HIDE DEF one
  <2>1. Append(u, x) \in Seq(S) /\ one \o u \in Seq(S) /\ Only(u, T) \in Seq(S)
    BY <1>0, SetOfAppend, SetOfConcat, OnlyElements
  <2>2. \A v \in Seq(S) : one \o Append(v, x) = Append(one \o v, x)
    <3>1. ASSUME NEW v \in Seq(S) PROVE one \o Append(v, x) = Append(one \o v, x)
      <4> DEFINE last == <<x>>
      <4>1. last \in Seq(S) /\ one \o v \in Seq(S)
        BY <1>0, SetOfConcat
      <4>2. Append(v, x) = v \o last /\ Append(one \o v, x) = (one \o v) \o last
        BY <4>1, AppendIsConcat
      <4> HIDE DEF last
      <4>3. QED BY <1>0, <4>1, <4>2, ConcatAssociative
    <3>2. QED BY <3>1
  <2>3. Only(Append(u, x), T) = IF x \in T THEN Append(Only(u, T), x) ELSE Only(u, T)
    BY OnlyOfAppend
  <2>4. Only(Append(one \o u, x), T) = IF x \in T THEN Append(Only(one \o u, T), x) ELSE Only(one \o u, T)
    BY <2>1, OnlyOfAppend
  <2>5. Only(one \o u, T) = IF k \in T THEN one \o Only(u, T) ELSE Only(u, T)
    BY <1>2 DEF one
  <2>6. one \o Append(u, x) = Append(one \o u, x) /\ one \o Append(Only(u, T), x) = Append(one \o Only(u, T), x)
    BY <2>1, <2>2
  <2>7. Only(one \o Append(u, x), T) = IF k \in T THEN one \o Only(Append(u, x), T) ELSE Only(Append(u, x), T)
    BY <2>3, <2>4, <2>5, <2>6
  <2>8. QED BY <2>1, <2>7 DEF one
<1>3. Seq(S) \subseteq Q
  <2> HIDE DEF Q
  <2> QED BY <1>1, <1>2, InductionOnSeq
<1>4. QED BY <1>3

\* Lists without repetition.
LEMMA InjectiveAppend ==
  ASSUME NEW S, NEW s \in Seq(S), NEW x \in S
  PROVE  IsInjective(Append(s, x)) <=> IsInjective(s) /\ x \notin ToSet(s)
<1> DEFINE u == Append(s, x)
           l == Len(s)
<1>1. u \in Seq(S) /\ Len(u) = l + 1 /\ u[l + 1] = x /\ \A i \in 1..l : u[i] = s[i]
  BY AppendProperties
<1>2. l \in Nat /\ DOMAIN s = 1..l /\ DOMAIN u = 1..(l + 1) /\ ToSet(s) = {s[i] : i \in 1..l}
  BY <1>1, LenProperties, SetOfSeq
<1>3. \A i \in 1..l : i \in 1..(l + 1) /\ i # l + 1
  BY <1>2
<1>4. \A i \in 1..(l + 1) : i \in 1..l \/ i = l + 1
  BY <1>2
<1>5. l + 1 \in 1..(l + 1)
  BY <1>2
<1> HIDE DEF u, l
<1>6. ASSUME IsInjective(u) PROVE IsInjective(s) /\ x \notin ToSet(s)
  <2>1. IsInjective(s)
    BY <1>1, <1>2, <1>3, <1>6 DEF IsInjective
  <2>2. \A i \in 1..l : u[i] # u[l + 1]
    BY <1>2, <1>3, <1>5, <1>6 DEF IsInjective
  <2>3. QED BY <1>1, <1>2, <2>1, <2>2
<1>7. ASSUME IsInjective(s), x \notin ToSet(s) PROVE IsInjective(u)
  <2>1. \A i \in 1..l : s[i] # x
    BY <1>2, <1>7
  <2>2. \A i, j \in 1..(l + 1) : u[i] = u[j] => i = j
    BY <1>1, <1>2, <1>4, <1>7, <2>1 DEF IsInjective
  <2>3. QED BY <1>2, <2>2 DEF IsInjective
<1>8. QED BY <1>6, <1>7 DEF u

LEMMA InjectiveOnly ==
  ASSUME NEW S, NEW s \in Seq(S), NEW T, IsInjective(s)
  PROVE  IsInjective(Only(s, T))
<1> DEFINE Q == {u \in Seq(S) : IsInjective(u) => IsInjective(Only(u, T))}
<1>1. <<>> \in Q
  BY EmptySeq, OnlyOfNothing
<1>2. ASSUME NEW u \in Seq(S), NEW x \in S, u \in Q PROVE Append(u, x) \in Q
  <2>1. /\ Append(u, x) \in Seq(S) /\ Only(u, T) \in Seq(S)
        /\ ToSet(Only(u, T)) = ToSet(u) \cap T
    BY OnlyElements, SetOfAppend
  <2>2. Only(Append(u, x), T) = IF x \in T THEN Append(Only(u, T), x) ELSE Only(u, T)
    BY OnlyOfAppend
  <2>3. IsInjective(Append(u, x)) <=> IsInjective(u) /\ x \notin ToSet(u)
    BY InjectiveAppend
  <2>4. IsInjective(Append(Only(u, T), x)) <=> IsInjective(Only(u, T)) /\ x \notin ToSet(Only(u, T))
    BY <2>1, InjectiveAppend
  <2>5. IsInjective(Append(u, x)) => IsInjective(Only(Append(u, x), T))
    BY <1>2, <2>1, <2>2, <2>3, <2>4
  <2>6. QED BY <2>1, <2>5
<1>3. Seq(S) \subseteq Q
  <2> HIDE DEF Q
  <2> QED BY <1>1, <1>2, InductionOnSeq
<1>4. QED BY <1>3

LEMMA InjectiveFront ==
  ASSUME NEW S, NEW s \in Seq(S), NEW k \in S, IsInjective(s), k \notin ToSet(s)
  PROVE  /\ <<k>> \o s \in Seq(S) /\ IsInjective(<<k>> \o s) /\ ToSet(<<k>> \o s) = {k} \cup ToSet(s)
         /\ Len(<<k>> \o s) = Len(s) + 1
<1> DEFINE one == <<k>>
           u == one \o s
<1>1. one \in Seq(S) /\ Len(one) = 1 /\ one[1] = k
  OBVIOUS
<1>2. Len(s) \in Nat /\ DOMAIN s = 1..Len(s) /\ ToSet(s) = {s[i] : i \in 1..Len(s)}
  BY LenProperties, SetOfSeq
<1> HIDE DEF one
<1>3. /\ u \in Seq(S) /\ Len(u) = 1 + Len(s)
      /\ \A i \in 1..(1 + Len(s)) : u[i] = IF i <= 1 THEN one[i] ELSE s[i - 1]
  <2>1. /\ u \in Seq(S) /\ Len(u) = Len(one) + Len(s)
        /\ \A i \in 1..(Len(one) + Len(s)) : u[i] = IF i <= Len(one) THEN one[i] ELSE s[i - Len(one)]
    BY <1>1, ConcatProperties
  <2> HIDE DEF u
  <2>2. QED BY <1>1, <2>1
<1>4. ToSet(u) = {k} \cup ToSet(s)
  <2>1. ToSet(one) = {k}
    BY SetOfFew DEF one
  <2>2. QED BY <1>1, <2>1, SetOfConcat
<1>5. DOMAIN u = 1..(1 + Len(s))
  BY <1>3, LenProperties
<1> HIDE DEF u
<1>6. ASSUME NEW i \in 1..(1 + Len(s)), NEW j \in 1..(1 + Len(s)), u[i] = u[j] PROVE i = j
  <2>1. \A n \in 1..(1 + Len(s)) : n = 1 \/ (n - 1 \in 1..Len(s) /\ ~(n <= 1))
    BY <1>2
  <2>2. u[1] = k
    BY <1>1, <1>2, <1>3
  <2>3. \A n \in 1..(1 + Len(s)) : n # 1 => u[n] = s[n - 1] /\ n - 1 \in 1..Len(s)
    BY <1>3, <2>1
  <2>4. \A n \in 1..(1 + Len(s)) : n # 1 => u[n] # k
    BY <1>2, <2>3
  <2>5. CASE i = 1 \/ j = 1
    BY <1>6, <2>2, <2>4, <2>5
  <2>6. CASE i # 1 /\ j # 1
    <3>1. s[i - 1] = s[j - 1] /\ i - 1 \in 1..Len(s) /\ j - 1 \in 1..Len(s)
      BY <1>6, <2>3, <2>6
    <3>2. i - 1 = j - 1
      BY <1>2, <3>1 DEF IsInjective
    <3>3. QED BY <3>2
  <2>7. QED BY <2>5, <2>6
<1>7. IsInjective(u)
  BY <1>5, <1>6 DEF IsInjective
<1>8. QED BY <1>2, <1>3, <1>4, <1>7 DEF u, one

LEMMA CountOfList ==
  ASSUME NEW S, NEW s \in Seq(S)
  PROVE  /\ IsFiniteSet(ToSet(s)) /\ Cardinality(ToSet(s)) <= Len(s)
         /\ IsInjective(s) => Cardinality(ToSet(s)) = Len(s)
<1> DEFINE Q == {u \in Seq(S) : /\ IsFiniteSet(ToSet(u)) /\ Cardinality(ToSet(u)) <= Len(u)
                                /\ IsInjective(u) => Cardinality(ToSet(u)) = Len(u)}
<1> DEFINE none == <<>>
<1>1. none \in Q
  <2>1. ToSet(none) = {} /\ Len(none) = 0 /\ none \in Seq(S)
    BY EmptySeq, SetOfFew
  <2>2. IsFiniteSet({}) /\ Cardinality({}) = 0
    BY FS_EmptySet
  <2> HIDE DEF none
  <2>3. IsFiniteSet(ToSet(none)) /\ Cardinality(ToSet(none)) = 0
    BY <2>1, <2>2, Zenon
  <2>4. Cardinality(ToSet(none)) <= Len(none) /\ Cardinality(ToSet(none)) = Len(none)
    BY <2>1, <2>3
  <2>5. QED BY <2>1, <2>3, <2>4, Zenon
<1>2. ASSUME NEW u \in Seq(S), NEW x \in S, u \in Q PROVE Append(u, x) \in Q
  <2>1. /\ Append(u, x) \in Seq(S) /\ ToSet(Append(u, x)) = ToSet(u) \cup {x}
        /\ Len(Append(u, x)) = Len(u) + 1 /\ Len(u) \in Nat
    BY SetOfAppend, AppendProperties, LenProperties
  <2>2. /\ IsFiniteSet(ToSet(u)) /\ Cardinality(ToSet(u)) <= Len(u)
        /\ IsInjective(u) => Cardinality(ToSet(u)) = Len(u)
    BY <1>2
  <2>3. /\ IsFiniteSet(ToSet(u) \cup {x}) /\ Cardinality(ToSet(u)) \in Nat
        /\ Cardinality(ToSet(u) \cup {x})
             = IF x \in ToSet(u) THEN Cardinality(ToSet(u)) ELSE Cardinality(ToSet(u)) + 1
    BY <2>2, FS_AddElement, FS_CardinalityType
  <2>4. IsInjective(Append(u, x)) <=> IsInjective(u) /\ x \notin ToSet(u)
    BY InjectiveAppend
  <2>5. Cardinality(ToSet(u) \cup {x}) <= Len(u) + 1
    BY <2>1, <2>2, <2>3
  <2>6. IsInjective(Append(u, x)) => Cardinality(ToSet(u) \cup {x}) = Len(u) + 1
    BY <2>2, <2>3, <2>4
  <2>7. QED BY <2>1, <2>3, <2>5, <2>6
<1>3. Seq(S) \subseteq Q
  <2> HIDE DEF Q
  <2> QED BY <1>1, <1>2, InductionOnSeq
<1>4. QED BY <1>3

-----------------------------------------------------------------------------
\* The sum of the sizes, counted as a set of bytes.

Total(e, S) == MapThenSumSet(LAMBDA k : e[k].size, S)
BytesOf(e, S) == UNION {{k} \X (1..e[k].size) : k \in S}
SumOf(e, S) == Cardinality(BytesOf(e, S))

LEMMA BytesAreFinite ==
  ASSUME NEW e, NEW S, IsFiniteSet(S), \A k \in S : e[k].size \in Nat
  PROVE  IsFiniteSet(BytesOf(e, S)) /\ SumOf(e, S) \in Nat
<1> DEFINE f == [k \in S |-> {k} \X (1..e[k].size)]
           T == {f[k] : k \in S}
<1>1. f \in Surjection(S, T)
  BY DEF Surjection
<1>2. IsFiniteSet(T)
  <2> HIDE DEF f, T
  <2> QED BY <1>1, FS_Surjection
<1>3. \A t \in T : IsFiniteSet(t)
  <2>1. ASSUME NEW k \in S PROVE IsFiniteSet(f[k])
    <3>1. e[k].size \in Int /\ 1 \in Int
      OBVIOUS
    <3>2. IsFiniteSet({k}) /\ IsFiniteSet(1..e[k].size)
      BY <3>1, FS_Singleton, FS_Interval
    <3>3. QED BY <3>2, FS_Product
  <2>2. QED BY <2>1
<1>4. BytesOf(e, S) = UNION T
  BY DEF BytesOf
<1>5. IsFiniteSet(UNION T)
  <2> HIDE DEF T
  <2> QED BY <1>2, <1>3, FS_UNION
<1>6. QED BY <1>4, <1>5, FS_CardinalityType DEF SumOf

LEMMA SumOfParts ==
  ASSUME NEW e, NEW S, NEW T, IsFiniteSet(S), IsFiniteSet(T), S \cap T = {},
         \A k \in S \cup T : e[k].size \in Nat
  PROVE  SumOf(e, S \cup T) = SumOf(e, S) + SumOf(e, T)
<1>1. BytesOf(e, S \cup T) = BytesOf(e, S) \cup BytesOf(e, T)
  BY DEF BytesOf
<1>2. BytesOf(e, S) \cap BytesOf(e, T) = {}
  BY DEF BytesOf
<1>3. IsFiniteSet(BytesOf(e, S)) /\ IsFiniteSet(BytesOf(e, T)) /\ SumOf(e, S) \in Nat /\ SumOf(e, T) \in Nat
  BY BytesAreFinite
<1>4. Cardinality({}) = 0
  BY FS_EmptySet
<1>5. Cardinality(BytesOf(e, S) \cap BytesOf(e, T)) = 0
  BY <1>2, <1>4, Zenon
<1>6. Cardinality(BytesOf(e, S) \cup BytesOf(e, T))
        = Cardinality(BytesOf(e, S)) + Cardinality(BytesOf(e, T)) - Cardinality(BytesOf(e, S) \cap BytesOf(e, T))
  BY <1>3, FS_Union, Zenon
<1>7. Cardinality(BytesOf(e, S \cup T)) = Cardinality(BytesOf(e, S) \cup BytesOf(e, T))
  BY <1>1, Zenon
<1>8. QED BY <1>3, <1>5, <1>6, <1>7 DEF SumOf

LEMMA SumOfNone == \A e : SumOf(e, {}) = 0
<1>1. \A e : BytesOf(e, {}) = {}
  BY DEF BytesOf
<1>2. QED BY <1>1, FS_EmptySet DEF SumOf

LEMMA SumOfOne ==
  ASSUME NEW e, NEW k, e[k].size \in Nat
  PROVE  SumOf(e, {k}) = e[k].size
<1> DEFINE n == e[k].size
<1>1. BytesOf(e, {k}) = {k} \X (1..n)
  BY DEF BytesOf
<1>2. n \in Nat /\ 1 \in Int /\ n \in Int
  OBVIOUS
<1> HIDE DEF n
<1>3. IsFiniteSet({k}) /\ Cardinality({k}) = 1 /\ IsFiniteSet(1..n)
  BY <1>2, FS_Singleton, FS_Interval
<1>4. Cardinality(1..n) = n
  <2>1. Cardinality(1..n) = IF 1 > n THEN 0 ELSE n - 1 + 1
    BY <1>2, FS_Interval
  <2>2. QED BY <1>2, <2>1
<1>5. Cardinality({k} \X (1..n)) = Cardinality({k}) * Cardinality(1..n)
  BY <1>3, FS_Product, Zenon
<1>6. 1 * n = n
  BY <1>2
<1>7. Cardinality({k} \X (1..n)) = n
  BY <1>3, <1>4, <1>5, <1>6, Zenon
<1>8. QED BY <1>1, <1>7, Zenon DEF SumOf, n

LEMMA SumOfSame ==
  ASSUME NEW e, NEW f, NEW S, \A k \in S : e[k].size = f[k].size
  PROVE  SumOf(e, S) = SumOf(f, S)
<1>1. BytesOf(e, S) = BytesOf(f, S)
  BY DEF BytesOf
<1>2. QED BY <1>1 DEF SumOf

LEMMA TotalIsSum ==
  ASSUME NEW e, NEW S, IsFiniteSet(S), \A k \in S : e[k].size \in Nat
  PROVE  Total(e, S) = SumOf(e, S)
<1> DEFINE pick(s) == CHOOSE x \in s : TRUE
           step(f, s) == IF s = {} THEN 0 ELSE e[pick(s)].size + f[s \ {pick(s)}]
           Is(f) == f = [s \in SUBSET S |-> step(f, s)]
           g == [s \in SUBSET S |-> SumOf(e, s)]
           it == CHOOSE f : Is(f)
<1>1. ASSUME NEW s \in SUBSET S, s # {}
      PROVE  /\ pick(s) \in s /\ s \ {pick(s)} \in SUBSET S
             /\ SumOf(e, s) = e[pick(s)].size + SumOf(e, s \ {pick(s)})
             /\ IsFiniteSet(s) /\ IsFiniteSet(s \ {pick(s)})
             /\ Cardinality(s \ {pick(s)}) = Cardinality(s) - 1 /\ Cardinality(s) \in Nat
  <2>1. pick(s) \in s
    BY <1>1
  <2>2. s = {pick(s)} \cup (s \ {pick(s)}) /\ {pick(s)} \cap (s \ {pick(s)}) = {}
    BY <2>1
  <2>3. IsFiniteSet(s) /\ IsFiniteSet(s \ {pick(s)}) /\ IsFiniteSet({pick(s)})
    BY FS_Subset, FS_RemoveElement, FS_Singleton
  <2>4. SumOf(e, s) = SumOf(e, {pick(s)}) + SumOf(e, s \ {pick(s)})
    <3> HIDE DEF pick
    <3>1. SumOf(e, {pick(s)} \cup (s \ {pick(s)})) = SumOf(e, {pick(s)}) + SumOf(e, s \ {pick(s)})
      BY <2>1, <2>2, <2>3, SumOfParts
    <3>2. QED BY <2>2, <3>1
  <2>5. SumOf(e, {pick(s)}) = e[pick(s)].size
    <3> HIDE DEF pick
    <3> QED BY <2>1, SumOfOne
  <2>6. Cardinality(s \ {pick(s)}) = Cardinality(s) - 1 /\ Cardinality(s) \in Nat
    <3> HIDE DEF pick
    <3> QED BY <2>1, <2>3, FS_RemoveElement, FS_CardinalityType
  <2>7. QED BY <2>1, <2>3, <2>4, <2>5, <2>6
<1>2. Is(g)
  <2>1. \A s \in SUBSET S : g[s] = step(g, s)
    <3> HIDE DEF pick
    <3> QED BY <1>1, SumOfNone
  <2>2. QED BY <2>1
<1>3. Is(it)
  <2> HIDE DEF Is
  <2> QED BY <1>2
<1>4. \A s \in SUBSET S : it[s] = step(it, s)
  <2> HIDE DEF it, pick
  <2> QED BY <1>3
<1> HIDE DEF it, g, Is
<1> DEFINE Q == {n \in Nat : \A s \in SUBSET S : Cardinality(s) = n => it[s] = SumOf(e, s)}
<1>5. 0 \in Q
  <2>1. \A s \in SUBSET S : IsFiniteSet(s) /\ (Cardinality(s) = 0 => s = {})
    BY FS_Subset, FS_EmptySet
  <2>2. it[{}] = 0
    BY <1>4
  <2>3. QED BY <2>1, <2>2, SumOfNone
<1>6. ASSUME NEW n \in Nat, n \in Q PROVE n + 1 \in Q
  <2> SUFFICES ASSUME NEW s \in SUBSET S, Cardinality(s) = n + 1
               PROVE  it[s] = SumOf(e, s)
    OBVIOUS
  <2>1. s # {}
    BY FS_EmptySet
  <2>2. it[s] = e[pick(s)].size + it[s \ {pick(s)}]
    BY <1>4, <2>1
  <2> HIDE DEF pick
  <2>3. /\ Cardinality(s \ {pick(s)}) = Cardinality(s) - 1
        /\ s \ {pick(s)} \in SUBSET S
    BY <1>1, <2>1, Zenon
  <2>4. it[s \ {pick(s)}] = SumOf(e, s \ {pick(s)})
    <3>1. Cardinality(s \ {pick(s)}) = n
      BY <2>3
    <3>2. QED BY <1>6, <2>3, <3>1, Zenon
  <2>5. QED BY <1>1, <2>1, <2>2, <2>4
<1>7. Nat \subseteq Q
  <2> HIDE DEF Q
  <2> QED BY <1>5, <1>6, InductionOnNat
<1>8. Cardinality(S) \in Nat
  BY FS_CardinalityType
<1>9. it[S] = SumOf(e, S)
  BY <1>7, <1>8
<1>10. Total(e, S) = it[S]
  BY DEF Total, MapThenSumSet, MapThenFoldSet, it, Is, pick
<1>11. QED BY <1>9, <1>10

-----------------------------------------------------------------------------
\* The map, the list, the total and the history of uses, as one operation leaves them.

Fits(e, o, m, u) ==
  /\ DOMAIN e \subseteq Keys /\ \A k \in DOMAIN e : e[k] \in Entry
  /\ o \in Seq(Keys) /\ IsInjective(o) /\ ToSet(o) = DOMAIN e
  /\ m = SumOf(e, DOMAIN e)
  /\ u \in Seq(Keys) /\ o = Only(u, ToSet(o))

LEMMA SizeOfEntry == \A x \in Entry : x.size \in Nat
BY LimitsAssumption DEF Entry

LEMMA FitsFacts ==
  ASSUME NEW e, NEW o, NEW m, NEW u, Fits(e, o, m, u)
  PROVE  /\ \A k \in DOMAIN e : e[k].size \in Nat
         /\ IsFiniteSet(DOMAIN e) /\ Len(o) = Cardinality(DOMAIN e) /\ Len(o) \in Nat
         /\ \A S \in SUBSET DOMAIN e :
              IsFiniteSet(S) /\ SumOf(e, S) \in Nat /\ Total(e, S) = SumOf(e, S)
         /\ m \in Nat
<1>1. \A k \in DOMAIN e : e[k].size \in Nat
  BY SizeOfEntry DEF Fits
<1>2. o \in Seq(Keys) /\ IsInjective(o) /\ ToSet(o) = DOMAIN e
  BY DEF Fits
<1>3. IsFiniteSet(ToSet(o)) /\ Len(o) = Cardinality(ToSet(o)) /\ Len(o) \in Nat
  BY <1>2, CountOfList, LenProperties
<1>4. IsFiniteSet(DOMAIN e) /\ Len(o) = Cardinality(DOMAIN e)
  BY <1>2, <1>3, Zenon
<1>5. ASSUME NEW S \in SUBSET DOMAIN e
      PROVE  IsFiniteSet(S) /\ SumOf(e, S) \in Nat /\ Total(e, S) = SumOf(e, S)
  <2>1. IsFiniteSet(S) /\ \A k \in S : e[k].size \in Nat
    BY <1>1, <1>4, FS_Subset
  <2>2. QED BY <2>1, BytesAreFinite, TotalIsSum
<1>6. m \in Nat
  BY <1>5 DEF Fits
<1>7. QED BY <1>1, <1>3, <1>4, <1>5, <1>6

LEMMA NotInIsOnly ==
  ASSUME NEW S, NEW s \in Seq(S), NEW T
  PROVE  NotIn(s, T) \in Seq(S) /\ ToSet(NotIn(s, T)) = ToSet(s) \ T
<1>1. ToSet(s) \cap (ToSet(s) \ T) = ToSet(s) \ T
  OBVIOUS
<1>2. QED BY <1>1, OnlyElements, Zenon DEF NotIn

\* removeElement of every key of S.
LEMMA RemovedFits ==
  ASSUME NEW e, NEW o, NEW m, NEW u, Fits(e, o, m, u), NEW S \in SUBSET DOMAIN e
  PROVE  /\ Fits(Without(e, S), NotIn(o, S), m - SumOf(e, S), u)
         /\ DOMAIN Without(e, S) = DOMAIN e \ S
         /\ \A k \in DOMAIN e \ S : Without(e, S)[k] = e[k]
<1> DEFINE f == Without(e, S)
           p == NotIn(o, S)
           D == DOMAIN e \ S
<1>1. DOMAIN f = D /\ \A k \in D : f[k] = e[k]
  BY DEF Without
<1>2. o \in Seq(Keys) /\ IsInjective(o) /\ ToSet(o) = DOMAIN e /\ u \in Seq(Keys) /\ o = Only(u, ToSet(o))
  BY DEF Fits
<1> HIDE DEF f
<1>3. p \in Seq(Keys) /\ ToSet(p) = D
  BY <1>2, NotInIsOnly
<1>4. IsInjective(p)
  BY <1>2, InjectiveOnly DEF NotIn
<1>5. m - SumOf(e, S) = SumOf(f, D)
  <2>1. DOMAIN e = S \cup D /\ S \cap D = {} /\ D \in SUBSET DOMAIN e
    OBVIOUS
  <2>2. /\ IsFiniteSet(S) /\ IsFiniteSet(D) /\ \A k \in S \cup D : e[k].size \in Nat
        /\ SumOf(e, S) \in Nat /\ SumOf(e, D) \in Nat
    BY <2>1, FitsFacts
  <2> HIDE DEF D
  <2>3. SumOf(e, S \cup D) = SumOf(e, S) + SumOf(e, D)
    BY <2>1, <2>2, SumOfParts
  <2>4. SumOf(e, D) = SumOf(f, D)
    BY <1>1, SumOfSame
  <2>5. m = SumOf(e, S \cup D)
    BY <2>1, Zenon DEF Fits
  <2>6. QED BY <2>2, <2>3, <2>4, <2>5
<1>6. p = Only(u, ToSet(p))
  <2>1. p = Only(Only(u, ToSet(o)), D)
    BY <1>2 DEF NotIn
  <2>2. Only(Only(u, ToSet(o)), D) = Only(u, ToSet(o) \cap D)
    BY <1>2, OnlyOfOnly
  <2>3. ToSet(o) \cap D = D
    BY <1>2
  <2>4. QED BY <1>3, <2>1, <2>2, <2>3, Zenon
<1>7. DOMAIN f \subseteq Keys /\ \A k \in DOMAIN f : f[k] \in Entry
  BY <1>1 DEF Fits
<1>8. Fits(f, p, m - SumOf(e, S), u)
  <2> HIDE DEF p, D
  <2> QED BY <1>1, <1>2, <1>3, <1>4, <1>5, <1>6, <1>7, Zenon DEF Fits
<1>9. QED BY <1>1, <1>8 DEF f, p

\* A key becomes the one used last.
LEMMA FrontOfUse ==
  ASSUME NEW u \in Seq(Keys), NEW o \in Seq(Keys), o = Only(u, ToSet(o)), NEW k \in Keys
  PROVE  LET p == <<k>> \o NotIn(o, {k})
         IN /\ p = Only(<<k>> \o NotIn(u, {k}), ToSet(p))
            /\ <<k>> \o NotIn(u, {k}) \in Seq(Keys)
            /\ ToSet(p) = {k} \cup ToSet(o)
<1> DEFINE one == <<k>>
           rest == NotIn(u, {k})
           T == {k} \cup ToSet(o)
<1>0. one \in Seq(Keys) /\ ToSet(one) = {k}
  BY SetOfFew
<1>1. rest \in Seq(Keys) /\ NotIn(o, {k}) \in Seq(Keys) /\ ToSet(NotIn(o, {k})) = ToSet(o) \ {k}
  BY NotInIsOnly
<1>2. one \o rest \in Seq(Keys) /\ ToSet(one \o NotIn(o, {k})) = T
  <2> HIDE DEF one, rest
  <2>1. /\ one \o rest \in Seq(Keys)
        /\ ToSet(one \o NotIn(o, {k})) = ToSet(one) \cup ToSet(NotIn(o, {k}))
    BY <1>0, <1>1, SetOfConcat
  <2>2. {k} \cup (ToSet(o) \ {k}) = T
    OBVIOUS
  <2>3. QED BY <1>0, <1>1, <2>1, <2>2, Zenon
<1>3. Only(one \o rest, T) = one \o Only(rest, T)
  <2> HIDE DEF rest
  <2>1. k \in T
    OBVIOUS
  <2> HIDE DEF T
  <2>2. Only(<<k>> \o rest, T) = IF k \in T THEN <<k>> \o Only(rest, T) ELSE Only(rest, T)
    BY <1>1, OnlyOfFront
  <2>3. QED BY <2>1, <2>2
<1>4. Only(rest, T) = NotIn(o, {k})
  <2>1. Only(rest, T) = Only(u, (ToSet(u) \ {k}) \cap T)
    BY OnlyOfOnly DEF NotIn
  <2>2. NotIn(o, {k}) = Only(u, ToSet(o) \cap (ToSet(o) \ {k}))
    BY OnlyOfOnly DEF NotIn
  <2>3. ToSet(u) \cap ((ToSet(u) \ {k}) \cap T) = ToSet(u) \cap (ToSet(o) \cap (ToSet(o) \ {k}))
    OBVIOUS
  <2>4. Only(u, (ToSet(u) \ {k}) \cap T) = Only(u, ToSet(o) \cap (ToSet(o) \ {k}))
    BY <2>3, OnlySame
  <2>5. QED BY <2>1, <2>2, <2>4, Zenon
<1>5. QED
  <2> HIDE DEF rest, T
  <2> QED BY <1>2, <1>3, <1>4, Zenon DEF T, rest

LEMMA TouchedFits ==
  ASSUME NEW e, NEW o, NEW m, NEW u, Fits(e, o, m, u), NEW k \in DOMAIN e
  PROVE  Fits(e, <<k>> \o NotIn(o, {k}), m, <<k>> \o NotIn(u, {k}))
<1> DEFINE p == <<k>> \o NotIn(o, {k})
           v == <<k>> \o NotIn(u, {k})
<1>1. /\ k \in Keys /\ o \in Seq(Keys) /\ IsInjective(o) /\ ToSet(o) = DOMAIN e
      /\ u \in Seq(Keys) /\ o = Only(u, ToSet(o))
  BY DEF Fits
<1>2. p = Only(v, ToSet(p)) /\ v \in Seq(Keys) /\ ToSet(p) = {k} \cup ToSet(o)
  BY <1>1, FrontOfUse
<1>3. /\ NotIn(o, {k}) \in Seq(Keys) /\ IsInjective(NotIn(o, {k}))
      /\ k \notin ToSet(NotIn(o, {k}))
  <2>1. NotIn(o, {k}) \in Seq(Keys) /\ k \notin ToSet(NotIn(o, {k}))
    BY <1>1, NotInIsOnly
  <2>2. QED BY <1>1, <2>1, InjectiveOnly DEF NotIn
<1>4. p \in Seq(Keys) /\ IsInjective(p)
  BY <1>1, <1>3, InjectiveFront
<1> HIDE DEF p, v
<1>5. ToSet(p) = DOMAIN e
  BY <1>1, <1>2
<1>6. Fits(e, p, m, v)
  BY <1>2, <1>4, <1>5 DEF Fits
<1>7. QED BY <1>6 DEF p, v

\* The value under a key is replaced.
LEMMA ReplacedFits ==
  ASSUME NEW e, NEW o, NEW m, NEW u, Fits(e, o, m, u), NEW k \in DOMAIN e, NEW x \in Entry
  PROVE  Fits([e EXCEPT ![k] = x], o, m - e[k].size + x.size, u)
<1> DEFINE f == [e EXCEPT ![k] = x]
           D == DOMAIN e \ {k}
<1>1. DOMAIN f = DOMAIN e /\ f[k] = x /\ \A j \in D : f[j] = e[j]
  OBVIOUS
<1> HIDE DEF f
<1>2. DOMAIN e = D \cup {k} /\ D \cap {k} = {} /\ D \in SUBSET DOMAIN e /\ {k} \in SUBSET DOMAIN e
  OBVIOUS
<1>3. /\ IsFiniteSet(D) /\ IsFiniteSet({k}) /\ \A j \in D \cup {k} : e[j].size \in Nat
      /\ SumOf(e, D) \in Nat
  BY <1>2, FitsFacts
<1> HIDE DEF D
<1>4. \A j \in D \cup {k} : f[j].size \in Nat
  BY <1>1, <1>3, SizeOfEntry
<1>5. SumOf(e, D \cup {k}) = SumOf(e, D) + SumOf(e, {k})
  BY <1>2, <1>3, SumOfParts
<1>6. SumOf(f, D \cup {k}) = SumOf(f, D) + SumOf(f, {k})
  BY <1>2, <1>3, <1>4, SumOfParts
<1>7. SumOf(e, {k}) = e[k].size /\ SumOf(f, {k}) = f[k].size /\ SumOf(e, D) = SumOf(f, D)
  BY <1>1, <1>3, <1>4, SumOfOne, SumOfSame
<1>8. m = SumOf(e, D \cup {k})
  BY <1>2, Zenon DEF Fits
<1>9. m - e[k].size + x.size = SumOf(f, D \cup {k})
  BY <1>1, <1>3, <1>5, <1>6, <1>7, <1>8, SizeOfEntry
<1>10. \A j \in DOMAIN f : f[j] \in Entry
  BY <1>1, <1>2 DEF Fits
<1>11. m - e[k].size + x.size = SumOf(f, DOMAIN f)
  BY <1>1, <1>2, <1>9, Zenon
<1>12. Fits(f, o, m - e[k].size + x.size, u)
  BY <1>1, <1>10, <1>11, Zenon DEF Fits
<1>13. QED BY <1>12 DEF f

\* An element is pushed to the front.
LEMMA AddedFits ==
  ASSUME NEW e, NEW o, NEW m, NEW u, Fits(e, o, m, u),
         NEW k \in Keys, k \notin DOMAIN e, NEW x \in Entry
  PROVE  Fits([j \in DOMAIN e \cup {k} |-> IF j = k THEN x ELSE e[j]], <<k>> \o o, m + x.size,
              <<k>> \o NotIn(u, {k}))
<1> DEFINE D == DOMAIN e
           f == [j \in D \cup {k} |-> IF j = k THEN x ELSE e[j]]
           p == <<k>> \o o
           v == <<k>> \o NotIn(u, {k})
<1>1. DOMAIN f = D \cup {k} /\ f[k] = x /\ \A j \in D : f[j] = e[j]
  OBVIOUS
<1> HIDE DEF f
<1>2. /\ o \in Seq(Keys) /\ IsInjective(o) /\ ToSet(o) = D
      /\ u \in Seq(Keys) /\ o = Only(u, ToSet(o)) /\ m = SumOf(e, D)
  BY DEF Fits
<1>3. NotIn(o, {k}) = o
  <2>1. ToSet(o) \cap (ToSet(o) \ {k}) = ToSet(o) \cap ToSet(o)
    BY <1>2
  <2>2. NotIn(o, {k}) = Only(o, ToSet(o))
    BY <1>2, <2>1, OnlySame DEF NotIn
  <2>3. Only(Only(u, ToSet(o)), ToSet(o)) = Only(u, ToSet(o) \cap ToSet(o))
    BY <1>2, OnlyOfOnly
  <2>4. ToSet(o) \cap ToSet(o) = ToSet(o)
    OBVIOUS
  <2>5. QED BY <1>2, <2>2, <2>3, <2>4, Zenon
<1>4. p = Only(v, ToSet(p)) /\ v \in Seq(Keys) /\ ToSet(p) = {k} \cup D
  <2> DEFINE q == <<k>> \o NotIn(o, {k})
  <2>1. q = Only(v, ToSet(q)) /\ v \in Seq(Keys) /\ ToSet(q) = {k} \cup ToSet(o)
    BY <1>2, FrontOfUse
  <2>2. q = p
    BY <1>3, Zenon
  <2> HIDE DEF q, p, v
  <2>3. QED BY <1>2, <2>1, <2>2, Zenon
<1>5. p \in Seq(Keys) /\ IsInjective(p)
  BY <1>2, InjectiveFront
<1>6. m + x.size = SumOf(f, D \cup {k})
  <2>1. /\ IsFiniteSet(D) /\ IsFiniteSet({k}) /\ \A j \in D : e[j].size \in Nat
        /\ SumOf(e, D) \in Nat /\ x.size \in Nat
    BY FitsFacts, FS_Singleton, SizeOfEntry
  <2>2. (\A j \in D \cup {k} : f[j].size \in Nat) /\ D \cap {k} = {}
    BY <1>1, <2>1
  <2> HIDE DEF D
  <2>3. SumOf(f, D \cup {k}) = SumOf(f, D) + SumOf(f, {k})
    BY <2>1, <2>2, SumOfParts
  <2>4. SumOf(f, {k}) = x.size /\ SumOf(f, D) = SumOf(e, D)
    BY <1>1, <2>1, SumOfOne, SumOfSame
  <2>5. QED BY <1>2, <2>1, <2>3, <2>4
<1>7. DOMAIN f \subseteq Keys /\ \A j \in DOMAIN f : f[j] \in Entry
  BY <1>1 DEF Fits
<1>8. D \cup {k} = {k} \cup D
  OBVIOUS
<1> HIDE DEF p, v, D
<1>9. Fits(f, p, m + x.size, v)
  BY <1>1, <1>4, <1>5, <1>6, <1>7, <1>8, Zenon DEF Fits
<1>10. QED BY <1>9 DEF f, p, v, D

-----------------------------------------------------------------------------
\* The inductive invariant.  It is what the three invariants of the model say together; none
\* of them is inductive by itself.

CacheInv ==
  /\ Fits(entries, order, memUsed, used)
  /\ Len(order) <= maxEntries
  /\ now \in 0..MaxTime
  /\ reply = nil \/ reply \in [key : Keys, value : Values \cup {nil}]

LEMMA InvIsEnough == CacheInv => TypeOK /\ Coherent /\ ListIsInOrderOfUse
<1> SUFFICES ASSUME CacheInv PROVE TypeOK /\ Coherent /\ ListIsInOrderOfUse
  OBVIOUS
<1>1. Fits(entries, order, memUsed, used)
  BY DEF CacheInv
<1>2. memUsed \in Nat /\ Total(entries, DOMAIN entries) = SumOf(entries, DOMAIN entries)
  <2>1. DOMAIN entries \in SUBSET DOMAIN entries
    OBVIOUS
  <2>2. QED BY <1>1, <2>1, FitsFacts
<1>3. memUsed = Sum(DOMAIN entries)
  BY <1>1, <1>2, Zenon DEF Fits, Sum, Total
<1>4. TypeOK
  BY <1>1, <1>2 DEF CacheInv, Fits, TypeOK
<1>5. Coherent
  BY <1>1, <1>3 DEF CacheInv, Fits, Coherent, OnList
<1>6. ListIsInOrderOfUse
  BY <1>1, Zenon DEF Fits, ListIsInOrderOfUse, OnList
<1>7. QED BY <1>4, <1>5, <1>6

\* The elements that the eviction of n leaves are no more than the others.
LEMMA BackLeaves ==
  ASSUME NEW s \in Seq(Keys), NEW n \in 0..Len(s)
  PROVE  LET back == {s[i] : i \in (Len(s) - n + 1)..Len(s)}
         IN /\ back \subseteq ToSet(s)
            /\ Cardinality(ToSet(s) \ back) <= Len(s) - n
<1> DEFINE l == Len(s)
           back == {s[i] : i \in (l - n + 1)..l}
           f == [i \in 1..(l - n) |-> s[i]]
           T == {s[i] : i \in 1..(l - n)}
<1>1. l \in Nat /\ n \in Nat /\ n <= l /\ ToSet(s) = {s[i] : i \in 1..l}
  BY LenProperties, SetOfSeq
<1> HIDE DEF l
<1>2. back \subseteq ToSet(s)
  BY <1>1
<1>3. ToSet(s) \ back \in SUBSET T
  BY <1>1
<1>4. IsFiniteSet(1..(l - n)) /\ Cardinality(1..(l - n)) = l - n
  <2>1. 1 \in Int /\ l - n \in Int /\ l - n >= 0
    BY <1>1
  <2>2. /\ IsFiniteSet(1..(l - n))
        /\ Cardinality(1..(l - n)) = IF 1 > l - n THEN 0 ELSE l - n - 1 + 1
    BY <2>1, FS_Interval
  <2>3. Cardinality(1..(l - n)) = l - n
    BY <2>1, <2>2
  <2>4. QED BY <2>2, <2>3
<1>5. f \in Surjection(1..(l - n), T)
  BY DEF Surjection
<1> HIDE DEF f, T, back
<1>6. IsFiniteSet(T) /\ Cardinality(T) <= l - n
  <2>1. IsFiniteSet(T) /\ Cardinality(T) <= Cardinality(1..(l - n))
    BY <1>4, <1>5, FS_Surjection
  <2>2. QED BY <1>4, <2>1
<1>7. Cardinality(ToSet(s) \ back) <= Cardinality(T) /\ IsFiniteSet(ToSet(s) \ back)
  BY <1>3, <1>6, FS_Subset
<1>8. Cardinality(T) \in Nat /\ Cardinality(ToSet(s) \ back) \in Nat
  BY <1>6, <1>7, FS_CardinalityType
<1>9. Cardinality(ToSet(s) \ back) <= l - n
  BY <1>1, <1>6, <1>7, <1>8
<1>10. QED BY <1>2, <1>9 DEF l, back

\* The loop of Put stops with room for the new entry or with nothing left.
LEMMA EvictedMakesRoom ==
  ASSUME CacheInv, NEW size \in SizesOf
  PROVE  /\ Evicted(size) \in SUBSET DOMAIN entries
         /\ Cardinality(DOMAIN entries \ Evicted(size)) + 1 <= maxEntries
         /\ \/ DOMAIN entries \ Evicted(size) = {}
            \/ memUsed - Sum(Evicted(size)) + size <= maxMem
<1> DEFINE l == Len(order)
           enough == {n \in 0..l : RoomAfter(n, size) \/ n = l}
           m == Min(enough)
<1>1. /\ Fits(entries, order, memUsed, used) /\ order \in Seq(Keys) /\ ToSet(order) = DOMAIN entries
      /\ l \in Nat /\ l <= maxEntries
  BY FitsFacts DEF CacheInv, Fits
<1>2. maxEntries \in Nat /\ maxEntries >= 1
  BY LimitsAssumption
<1>3. m \in enough
  <2>1. l \in enough
    BY <1>1
  <2>2. \A n \in enough : n \in Nat
    BY <1>1
  <2> HIDE DEF enough
  <2>3. \E n \in enough : \A i \in enough : n <= i
    BY <2>1, <2>2, SmallestOfNat
  <2>4. QED BY <2>3 DEF Min
<1>4. m \in 0..l /\ (RoomAfter(m, size) \/ m = l)
  BY <1>3
<1>5. Evicted(size) = Back(m)
  BY DEF Evicted
<1> HIDE DEF m, enough
<1>6. Back(m) \subseteq ToSet(order) /\ Cardinality(ToSet(order) \ Back(m)) <= l - m
  BY <1>1, <1>4, BackLeaves DEF Back
<1> DEFINE D == DOMAIN entries \ Back(m)
<1>7. Back(m) \in SUBSET DOMAIN entries /\ Cardinality(D) <= l - m
  BY <1>1, <1>6, Zenon
<1>8. IsFiniteSet(D) /\ Cardinality(D) \in Nat
  <2>1. D \in SUBSET DOMAIN entries
    OBVIOUS
  <2>2. IsFiniteSet(D)
    BY <1>1, <2>1, FitsFacts
  <2>3. QED BY <2>2, FS_CardinalityType
<1>9. CASE RoomAfter(m, size)
  <2>1. l - m < maxEntries /\ memUsed - Sum(Back(m)) + size <= maxMem
    BY <1>9 DEF RoomAfter
  <2>2. Cardinality(D) + 1 <= maxEntries
    BY <1>1, <1>2, <1>4, <1>7, <1>8, <2>1
  <2>3. QED BY <1>5, <1>7, <2>1, <2>2, Zenon
<1>10. CASE m = l
  <2>1. Cardinality(D) = 0
    BY <1>1, <1>7, <1>8, <1>10
  <2>2. D = {}
    BY <1>8, <2>1, FS_EmptySet
  <2>3. Cardinality(D) + 1 <= maxEntries
    BY <1>2, <2>1
  <2>4. QED BY <1>5, <1>7, <2>2, <2>3, Zenon
<1>11. QED BY <1>4, <1>9, <1>10

LEMMA InitCache == Init => CacheInv
<1> SUFFICES ASSUME Init PROVE CacheInv
  OBVIOUS
<1> DEFINE none == <<>>
<1>1. /\ none \in Seq(Keys) /\ Len(none) = 0 /\ ToSet(none) = {} /\ DOMAIN none = {}
      /\ IsInjective(none)
  BY EmptySeq, SetOfFew DEF IsInjective
<1>2. Only(none, ToSet(none)) = none
  BY OnlyOfNothing
<1> HIDE DEF none
<1>3. SumOf(none, DOMAIN none) = 0
  BY <1>1, SumOfNone, Zenon
<1>4. Fits(none, none, 0, none)
  BY <1>1, <1>2, <1>3 DEF Fits
<1>5. entries = none /\ order = none /\ memUsed = 0 /\ used = none /\ now = 0 /\ reply = nil
  BY DEF Init, none
<1>6. Len(order) <= maxEntries /\ now \in 0..MaxTime
  BY <1>1, <1>5, LimitsAssumption
<1>7. Fits(entries, order, memUsed, used)
  BY <1>4, <1>5, Zenon
<1>8. QED BY <1>5, <1>6, <1>7 DEF CacheInv

\* removeElement of every key of S leaves a cache that fits.
LEMMA RemoveKeepsInv ==
  ASSUME CacheInv, NEW S \in SUBSET DOMAIN entries, RemoveElements(S), UNCHANGED used
  PROVE  Fits(entries, order, memUsed, used)' /\ Len(order') <= maxEntries
<1>1. Fits(entries, order, memUsed, used) /\ Len(order) <= maxEntries
  BY DEF CacheInv
<1>2. Sum(S) = SumOf(entries, S)
  BY <1>1, FitsFacts DEF Sum, Total
<1>3. /\ Fits(Without(entries, S), NotIn(order, S), memUsed - SumOf(entries, S), used)
      /\ DOMAIN Without(entries, S) = DOMAIN entries \ S
  BY <1>1, RemovedFits
<1>4. /\ entries' = Without(entries, S) /\ order' = NotIn(order, S)
      /\ memUsed' = memUsed - SumOf(entries, S) /\ used' = used
  BY <1>2, Zenon DEF RemoveElements
<1>5. Fits(entries', order', memUsed', used')
  BY <1>3, <1>4, Zenon
<1>6. /\ Len(order') = Cardinality(DOMAIN entries') /\ Len(order') \in Nat
      /\ Len(order) = Cardinality(DOMAIN entries) /\ Len(order) \in Nat /\ IsFiniteSet(DOMAIN entries)
  BY <1>1, <1>5, FitsFacts
<1>7. DOMAIN entries' \in SUBSET DOMAIN entries
  BY <1>3, <1>4
<1>8. Cardinality(DOMAIN entries') <= Cardinality(DOMAIN entries)
  BY <1>6, <1>7, FS_Subset
<1>9. QED BY <1>1, <1>5, <1>6, <1>8, LimitsAssumption

-----------------------------------------------------------------------------
\* Each operation keeps the invariant.

LEMMA HitKeepsInv ==
  ASSUME CacheInv, NEW k \in Keys, Hit(k)
  PROVE  CacheInv'
<1>1. Fits(entries, order, memUsed, used) /\ k \in DOMAIN entries /\ entries[k] \in Entry
  BY DEF CacheInv, Fits, Hit
<1>2. Fits(entries, <<k>> \o NotIn(order, {k}), memUsed, <<k>> \o NotIn(used, {k}))
  BY <1>1, TouchedFits
<1>3. /\ entries' = entries /\ order' = <<k>> \o NotIn(order, {k})
      /\ memUsed' = memUsed /\ used' = <<k>> \o NotIn(used, {k}) /\ now' = now
      /\ reply' = [key |-> k, value |-> entries[k].value]
  BY DEF Hit, ToFront, Answer
<1>4. Fits(entries', order', memUsed', used')
  BY <1>2, <1>3, Zenon
<1>5. Len(order') = Cardinality(DOMAIN entries) /\ Len(order) = Cardinality(DOMAIN entries)
  BY <1>1, <1>3, <1>4, FitsFacts
<1>6. reply' \in [key : Keys, value : Values \cup {nil}]
  BY <1>1, <1>3 DEF Entry
<1>7. QED BY <1>3, <1>4, <1>5, <1>6 DEF CacheInv

LEMMA UpdateKeepsInv ==
  ASSUME CacheInv, NEW k \in Keys, NEW v \in Values, NEW s \in SizesOf, Update(k, v, s)
  PROVE  CacheInv'
<1> DEFINE x == NewEntry(v, s)
<1>1. /\ Fits(entries, order, memUsed, used) /\ k \in DOMAIN entries
      /\ x \in Entry /\ x.size = s
  <2>1. now + ttl \in Nat
    BY LimitsAssumption DEF CacheInv
  <2>2. QED BY <2>1 DEF CacheInv, Update, NewEntry, Entry
<1> HIDE DEF x
<1>2. Fits([entries EXCEPT ![k] = x], order, memUsed - entries[k].size + x.size, used)
  BY <1>1, ReplacedFits
<1>3. k \in DOMAIN [entries EXCEPT ![k] = x]
  BY <1>1
<1>4. Fits([entries EXCEPT ![k] = x], <<k>> \o NotIn(order, {k}),
           memUsed - entries[k].size + x.size, <<k>> \o NotIn(used, {k}))
  BY <1>2, <1>3, TouchedFits
<1>5. /\ entries' = [entries EXCEPT ![k] = x] /\ order' = <<k>> \o NotIn(order, {k})
      /\ memUsed' = memUsed - entries[k].size + x.size /\ used' = <<k>> \o NotIn(used, {k})
      /\ now' = now /\ reply' = nil
  BY <1>1 DEF Update, ToFront, x
<1>6. Fits(entries', order', memUsed', used')
  BY <1>4, <1>5, Zenon
<1>7. Len(order') = Cardinality(DOMAIN entries) /\ Len(order) = Cardinality(DOMAIN entries)
  <2>1. Len(order') = Cardinality(DOMAIN entries') /\ Len(order) = Cardinality(DOMAIN entries)
    BY <1>1, <1>6, FitsFacts
  <2>2. DOMAIN entries' = DOMAIN entries
    BY <1>5
  <2>3. QED BY <2>1, <2>2, Zenon
<1>8. QED BY <1>5, <1>6, <1>7 DEF CacheInv

\* What an insertion leaves, for the invariant and for the limit on the total.
LEMMA InsertFits ==
  ASSUME CacheInv, NEW k \in Keys, NEW v \in Values, NEW s \in SizesOf, Insert(k, v, s)
  PROVE  /\ Fits(entries, order, memUsed, used)'
         /\ Len(order') <= maxEntries
         /\ memUsed' <= maxMem \/ Len(order') = 1
<1> DEFINE x == NewEntry(v, s)
           out == Evicted(s)
           kept == Without(entries, out)
           D == DOMAIN entries \ out
<1>1. /\ Fits(entries, order, memUsed, used) /\ k \notin DOMAIN entries
      /\ x \in Entry /\ x.size = s
  <2>1. now + ttl \in Nat
    BY LimitsAssumption DEF CacheInv
  <2>2. QED BY <2>1 DEF CacheInv, Insert, NewEntry, Entry
<1>2. /\ out \in SUBSET DOMAIN entries /\ Cardinality(D) + 1 <= maxEntries
      /\ D = {} \/ memUsed - Sum(out) + s <= maxMem
  BY EvictedMakesRoom
<1>3. /\ entries' = [j \in DOMAIN kept \cup {k} |-> IF j = k THEN x ELSE kept[j]]
      /\ order' = <<k>> \o NotIn(order, out) /\ memUsed' = memUsed - Sum(out) + s
      /\ used' = <<k>> \o NotIn(used, {k})
  BY DEF Insert
<1> HIDE DEF x, out
<1>4. Sum(out) = SumOf(entries, out)
  BY <1>1, <1>2, FitsFacts DEF Sum, Total
<1>5. Fits(kept, NotIn(order, out), memUsed - SumOf(entries, out), used) /\ DOMAIN kept = D
  BY <1>1, <1>2, RemovedFits
<1> HIDE DEF kept
<1>6. k \notin DOMAIN kept
  BY <1>1, <1>5
<1>7. Fits([j \in DOMAIN kept \cup {k} |-> IF j = k THEN x ELSE kept[j]], <<k>> \o NotIn(order, out),
           memUsed - SumOf(entries, out) + x.size, <<k>> \o NotIn(used, {k}))
  BY <1>1, <1>5, <1>6, AddedFits
<1>8. memUsed' = memUsed - SumOf(entries, out) + x.size
  BY <1>1, <1>3, <1>4
<1>9. Fits(entries', order', memUsed', used')
  BY <1>3, <1>7, <1>8, Zenon
<1>10. DOMAIN entries' = D \cup {k} /\ k \notin D
  BY <1>1, <1>3, <1>5
<1>11. IsFiniteSet(D) /\ Cardinality(D) \in Nat
  <2>1. D \in SUBSET DOMAIN entries
    OBVIOUS
  <2>2. IsFiniteSet(D)
    BY <1>1, <2>1, FitsFacts
  <2>3. QED BY <2>2, FS_CardinalityType
<1> HIDE DEF D
<1>12. Cardinality(D \cup {k}) = Cardinality(D) + 1
  BY <1>10, <1>11, FS_AddElement
<1>13. Len(order') = Cardinality(D) + 1
  <2>1. Len(order') = Cardinality(DOMAIN entries')
    BY <1>9, FitsFacts
  <2>2. QED BY <1>10, <1>12, <2>1, Zenon
<1>14. memUsed' <= maxMem \/ Len(order') = 1
  <2>1. CASE D = {}
    <3>1. Cardinality(D) = 0
      BY <2>1, FS_EmptySet
    <3>2. QED BY <1>13, <3>1
  <2>2. CASE memUsed - Sum(out) + s <= maxMem
    BY <1>3, <2>2
  <2>3. QED BY <1>2, <2>1, <2>2
<1>15. QED BY <1>2, <1>9, <1>13, <1>14

LEMMA NextKeepsInv == CacheInv /\ [Next]_vars => CacheInv'
<1> SUFFICES ASSUME CacheInv, [Next]_vars PROVE CacheInv'
  OBVIOUS
<1>1. ASSUME NEW k \in Keys, Miss(k) PROVE CacheInv'
  <2>1. reply' \in [key : Keys, value : Values \cup {nil}]
    BY <1>1 DEF Miss, Answer
  <2>2. UNCHANGED <<entries, order, memUsed, now, used>>
    BY <1>1 DEF Miss
  <2>3. QED BY <2>1, <2>2 DEF CacheInv
<1>2. ASSUME NEW k \in Keys, GetExpired(k) PROVE CacheInv'
  <2>1. /\ {k} \in SUBSET DOMAIN entries /\ RemoveElements({k}) /\ UNCHANGED <<now, used>>
        /\ reply' \in [key : Keys, value : Values \cup {nil}]
    BY <1>2 DEF GetExpired, Answer
  <2>2. Fits(entries, order, memUsed, used)' /\ Len(order') <= maxEntries
    BY <2>1, RemoveKeepsInv
  <2>3. QED BY <2>1, <2>2 DEF CacheInv
<1>3. ASSUME NEW k \in Keys, Hit(k) PROVE CacheInv'
  BY <1>3, HitKeepsInv
<1>4. ASSUME NEW k \in Keys, NEW v \in Values, NEW s \in SizesOf, Update(k, v, s) PROVE CacheInv'
  BY <1>4, UpdateKeepsInv
<1>5. ASSUME NEW k \in Keys, NEW v \in Values, NEW s \in SizesOf, Insert(k, v, s) PROVE CacheInv'
  <2>1. Fits(entries, order, memUsed, used)' /\ Len(order') <= maxEntries
    BY <1>5, InsertFits
  <2>2. now' = now /\ reply' = nil
    BY <1>5 DEF Insert
  <2>3. QED BY <2>1, <2>2 DEF CacheInv
<1>6. ASSUME NEW r \in Repos, InvalidateRepo(r) PROVE CacheInv'
  <2> DEFINE S == {k \in DOMAIN entries : Covers(r, k)}
  <2>1. RemoveElements(S) /\ UNCHANGED <<now, used>> /\ reply' = nil
    BY <1>6 DEF InvalidateRepo
  <2>2. S \in SUBSET DOMAIN entries
    OBVIOUS
  <2> HIDE DEF S
  <2>3. Fits(entries, order, memUsed, used)' /\ Len(order') <= maxEntries
    BY <2>1, <2>2, RemoveKeepsInv
  <2>4. QED BY <2>1, <2>3 DEF CacheInv
<1>7. ASSUME Clear PROVE CacheInv'
  <2> DEFINE none == <<>>
  <2>1. /\ none \in Seq(Keys) /\ Len(none) = 0 /\ ToSet(none) = {} /\ DOMAIN none = {}
        /\ IsInjective(none)
    BY EmptySeq, SetOfFew DEF IsInjective
  <2>2. used \in Seq(Keys) /\ none = Only(used, ToSet(none))
    <3>1. used \in Seq(Keys)
      BY DEF CacheInv, Fits
    <3>2. ToSet(Only(used, {})) = {} /\ Only(used, {}) \in Seq(Keys)
      BY <3>1, OnlyElements
    <3>3. Only(used, {}) = <<>>
      BY <3>2, SetOfSeq
    <3> HIDE DEF none
    <3>4. Only(used, ToSet(none)) = Only(used, {})
      BY <2>1, Zenon
    <3>5. QED BY <3>1, <3>3, <3>4 DEF none
  <2>3. SumOf(none, DOMAIN none) = 0
    BY <2>1, SumOfNone, Zenon
  <2>4. entries' = none /\ order' = none /\ memUsed' = 0 /\ used' = used /\ now' = now /\ reply' = nil
    BY <1>7 DEF Clear
  <2> HIDE DEF none
  <2>5. Fits(none, none, 0, used)
    BY <2>1, <2>2, <2>3 DEF Fits
  <2>6. Fits(entries', order', memUsed', used')
    BY <2>4, <2>5, Zenon
  <2>7. Len(order') <= maxEntries
    BY <2>1, <2>4, LimitsAssumption
  <2>8. QED BY <2>4, <2>6, <2>7 DEF CacheInv
<1>8. ASSUME Tick PROVE CacheInv'
  <2>1. now' \in 0..MaxTime /\ reply' = nil /\ UNCHANGED <<entries, order, memUsed, used>>
    BY <1>8, LimitsAssumption DEF CacheInv, Tick
  <2>2. QED BY <2>1 DEF CacheInv
<1>9. ASSUME UNCHANGED vars PROVE CacheInv'
  BY <1>9 DEF vars, CacheInv
<1>10. QED BY <1>1, <1>2, <1>3, <1>4, <1>5, <1>6, <1>7, <1>8, <1>9 DEF Next, Get, Put

LEMMA InvHolds == Spec => []CacheInv
BY InitCache, NextKeepsInv, PTL DEF Spec

-----------------------------------------------------------------------------
\* The theorems.

\* The cache keeps its types: removing takes off the total no more than was put on it.
THEOREM TypeCorrect == Spec => []TypeOK
<1>1. CacheInv => TypeOK
  BY InvIsEnough
<1>2. QED BY <1>1, InvHolds, PTL

\* After every operation the map, the list and the running total describe the same entries, no
\* more of them than the limit: Put, Get, the eviction, the expiry and the invalidation of
\* cache.go keep the three in step, whatever the sizes and the limits are.
THEOREM MapAndListAgree == Spec => []Coherent
<1>1. CacheInv => Coherent
  BY InvIsEnough
<1>2. QED BY <1>1, InvHolds, PTL

\* The list is in order of use after any history, so removeLRU takes the entry used longest
\* ago.
THEOREM EvictionIsLRU == Spec => []ListIsInOrderOfUse
<1>1. CacheInv => ListIsInOrderOfUse
  BY InvIsEnough
<1>2. QED BY <1>1, InvHolds, PTL

\* An insertion leaves the total within maxMem, or the new entry alone.
THEOREM InsertionsFit == Spec => InsertionFitsMemory
<1> DEFINE Step == DOMAIN entries' \subseteq DOMAIN entries \/ memUsed' <= maxMem \/ Len(order') = 1
<1>1. CacheInv /\ [Next]_vars => [Step]_vars
  <2> SUFFICES ASSUME CacheInv, Next PROVE Step
    OBVIOUS
  <2>1. ASSUME NEW k \in Keys, Get(k) PROVE Step
    BY <2>1 DEF Get, Miss, GetExpired, Hit, RemoveElements, Without
  <2>2. ASSUME NEW k \in Keys, NEW v \in Values, NEW s \in SizesOf, Update(k, v, s) PROVE Step
    BY <2>2 DEF Update
  <2>3. ASSUME NEW k \in Keys, NEW v \in Values, NEW s \in SizesOf, Insert(k, v, s) PROVE Step
    BY <2>3, InsertFits
  <2>4. ASSUME NEW r \in Repos, InvalidateRepo(r) PROVE Step
    BY <2>4 DEF InvalidateRepo, RemoveElements, Without
  <2>5. ASSUME Clear PROVE Step
    <3>1. DOMAIN entries' = {}
      BY <2>5, EmptySeq DEF Clear
    <3>2. QED BY <3>1
  <2>6. ASSUME Tick PROVE Step
    BY <2>6 DEF Tick
  <2>7. QED BY <2>1, <2>2, <2>3, <2>4, <2>5, <2>6 DEF Next, Put
<1>2. QED BY <1>1, InvHolds, PTL DEF Spec, InsertionFitsMemory

-----------------------------------------------------------------------------
\* The cache implements the expiring map.

Seen(e) ==
  [k \in Keys |-> IF k \in DOMAIN e THEN [value |-> e[k].value, born |-> e[k].expires - ttl] ELSE nil]

Forgotten(f, S) == [k \in Keys |-> IF k \in S THEN nil ELSE f[k]]

\* A removed entry is a forgotten one.
LEMMA SeenWithout ==
  ASSUME NEW e, NEW S
  PROVE  Seen(Without(e, S)) = Forgotten(Seen(e), S)
<1>1. DOMAIN Without(e, S) = DOMAIN e \ S /\ \A k \in DOMAIN e \ S : Without(e, S)[k] = e[k]
  BY DEF Without
<1>2. \A k \in Keys : Seen(Without(e, S))[k] = IF k \in S THEN nil ELSE Seen(e)[k]
  BY <1>1 DEF Seen
<1>3. Seen(Without(e, S)) = [k \in Keys |-> Seen(Without(e, S))[k]]
  BY DEF Seen
<1>4. QED BY <1>2, <1>3 DEF Forgotten

LEMMA SeenForgetsNone == \A e : Seen(e) = Forgotten(Seen(e), {})
BY DEF Seen, Forgotten

\* The entry Put adds or changes is one put now; those it evicts are forgotten.
LEMMA SeenPut ==
  ASSUME NEW e, NEW f, NEW k \in Keys, NEW S \in SUBSET (Keys \ {k}), NEW x \in Entry,
         DOMAIN f = (DOMAIN e \ S) \cup {k}, f[k] = x,
         \A j \in DOMAIN f : j # k => f[j] = e[j]
  PROVE  Seen(f) = Forgotten([Seen(e) EXCEPT ![k] = [value |-> x.value, born |-> x.expires - ttl]], S)
<1> DEFINE g == [Seen(e) EXCEPT ![k] = [value |-> x.value, born |-> x.expires - ttl]]
<1>1. g[k] = [value |-> x.value, born |-> x.expires - ttl] /\ \A j \in Keys : j # k => g[j] = Seen(e)[j]
  BY DEF Seen
<1> HIDE DEF g
<1>2. Seen(f)[k] = g[k]
  BY <1>1 DEF Seen
<1>3. \A j \in Keys : j # k => Seen(f)[j] = IF j \in S THEN nil ELSE Seen(e)[j]
  BY DEF Seen
<1>4. \A j \in Keys : Seen(f)[j] = IF j \in S THEN nil ELSE g[j]
  BY <1>1, <1>2, <1>3
<1>5. Seen(f) = [j \in Keys |-> Seen(f)[j]]
  BY DEF Seen
<1>6. Seen(f) = Forgotten(g, S)
  BY <1>4, <1>5 DEF Forgotten
<1>7. QED BY <1>6 DEF g

\* The initial state is one of the map's.
LEMMA InitImplements == Init => Map!Init
<1> SUFFICES ASSUME Init PROVE Map!Init
  OBVIOUS
<1>1. DOMAIN entries = {} /\ now = 0 /\ reply = nil
  BY EmptySeq DEF Init
<1>2. QED BY <1>1 DEF Map!Init

LEMMA ForgettingIsForgets ==
  ASSUME NEW S \in SUBSET Keys, Seen(entries)' = Forgotten(Seen(entries), S)
  PROVE  Map!Forgets(Seen(entries), {})
BY DEF Map!Forgets, Forgotten, Seen

\* Each operation is one of the map's: an eviction, an expiry and an invalidation forget.
LEMMA StepImplements == CacheInv /\ [Next]_vars => [Map!Next]_(Map!vars)
<1> SUFFICES ASSUME CacheInv, [Next]_vars PROVE [Map!Next]_(Map!vars)
  OBVIOUS
<1>1. ASSUME NEW k \in Keys, Miss(k) PROVE Map!Miss(k)
  <2>1. Seen(entries)' = Forgotten(Seen(entries), {})
    BY <1>1, SeenForgetsNone DEF Miss
  <2>2. Map!Forgets(Seen(entries), {})
    BY <2>1, ForgettingIsForgets
  <2>3. QED BY <1>1, <2>2 DEF Miss, Answer, Map!Miss, Seen
<1>2. ASSUME NEW k \in Keys, GetExpired(k) PROVE Map!Miss(k)
  <2>1. Seen(entries)' = Forgotten(Seen(entries), {k})
    <3>1. entries' = Without(entries, {k})
      BY <1>2 DEF GetExpired, RemoveElements
    <3>2. Seen(entries') = Forgotten(Seen(entries), {k})
      BY <3>1, SeenWithout, Zenon
    <3>3. QED BY <3>2 DEF Seen
  <2>2. Map!Forgets(Seen(entries), {})
    BY <2>1, ForgettingIsForgets
  <2>3. QED BY <1>2, <2>2 DEF GetExpired, Answer, Map!Miss, Seen
<1>3. ASSUME NEW k \in Keys, Hit(k) PROVE Map!Hit(k)
  <2>1. /\ k \in DOMAIN entries /\ ~(now > entries[k].expires) /\ entries[k] \in Entry
        /\ entries' = entries /\ now' = now
        /\ reply' = [key |-> k, value |-> entries[k].value]
        /\ now \in Nat /\ ttl \in Nat
    BY <1>3, LimitsAssumption DEF CacheInv, Fits, Hit, Expired, Answer
  <2>2. Seen(entries)[k] = [value |-> entries[k].value, born |-> entries[k].expires - ttl]
    BY <2>1 DEF Seen
  <2>3. entries[k].value \in Values /\ entries[k].expires \in Nat
    BY <2>1 DEF Entry
  <2>4. Seen(entries)[k] \in [value : Values, born : Int]
    BY <2>1, <2>2, <2>3
  <2>5. Seen(entries)[k] # nil
    BY <2>4, NilAssumption
  <2>6. now - Seen(entries)[k].born <= ttl
    BY <2>1, <2>2, <2>3
  <2>7. Seen(entries)[k].value = entries[k].value /\ Seen(entries)' = Seen(entries)
    BY <2>1, <2>2 DEF Seen
  <2>8. QED BY <2>1, <2>5, <2>6, <2>7 DEF Map!Hit, Seen
<1>4. ASSUME NEW k \in Keys, NEW v \in Values, NEW s \in SizesOf, Put(k, v, s) PROVE Map!Put(k, v)
  <2> DEFINE x == NewEntry(v, s)
             put == [Seen(entries) EXCEPT ![k] = [value |-> v, born |-> now]]
  <2>1. now \in Nat /\ ttl \in Nat
    BY LimitsAssumption DEF CacheInv
  <2>2. x \in Entry /\ x.value = v /\ x.expires - ttl = now
    BY <2>1 DEF NewEntry, Entry
  <2> HIDE DEF x
  <2>3. ASSUME NEW S \in SUBSET (Keys \ {k}),
               DOMAIN entries' = (DOMAIN entries \ S) \cup {k}, entries'[k] = x,
               \A j \in DOMAIN entries' : j # k => entries'[j] = entries[j]
        PROVE  Map!Forgets(put, {k})
    <3>1. Seen(entries') = Forgotten(put, S)
      BY <2>2, <2>3, SeenPut
    <3> HIDE DEF put
    <3>2. QED BY <3>1 DEF Map!Forgets, Forgotten, Seen
  <2> HIDE DEF put
  <2>4. ASSUME Update(k, v, s) PROVE Map!Forgets(put, {k})
    <3>1. /\ {} \in SUBSET (Keys \ {k}) /\ DOMAIN entries' = (DOMAIN entries \ {}) \cup {k}
          /\ entries'[k] = x /\ \A j \in DOMAIN entries' : j # k => entries'[j] = entries[j]
      BY <2>4 DEF Update, x
    <3>2. QED BY <2>3, <3>1
  <2>5. ASSUME Insert(k, v, s) PROVE Map!Forgets(put, {k})
    <3> DEFINE out == Evicted(s)
    <3>1. out \in SUBSET DOMAIN entries /\ k \notin DOMAIN entries /\ DOMAIN entries \subseteq Keys
      BY <2>5, EvictedMakesRoom DEF CacheInv, Fits, Insert
    <3>2. entries' = [j \in DOMAIN Without(entries, out) \cup {k} |->
                        IF j = k THEN x ELSE Without(entries, out)[j]]
      BY <2>5 DEF Insert, x
    <3> HIDE DEF out
    <3>3. /\ DOMAIN Without(entries, out) = DOMAIN entries \ out
          /\ \A j \in DOMAIN entries \ out : Without(entries, out)[j] = entries[j]
      BY DEF Without
    <3>4. /\ out \in SUBSET (Keys \ {k}) /\ DOMAIN entries' = (DOMAIN entries \ out) \cup {k}
          /\ entries'[k] = x /\ \A j \in DOMAIN entries' : j # k => entries'[j] = entries[j]
      BY <3>1, <3>2, <3>3
    <3>5. QED BY <2>3, <3>4
  <2>6. Map!Forgets(put, {k})
    BY <1>4, <2>4, <2>5 DEF Put
  <2>7. reply' = nil /\ now' = now
    BY <1>4 DEF Put, Update, Insert
  <2>8. QED BY <2>6, <2>7 DEF Map!Put, Seen, put
<1>5. ASSUME NEW r \in Repos, InvalidateRepo(r) PROVE Map!Forget
  <2> DEFINE S == {k \in DOMAIN entries : Covers(r, k)}
  <2>1. S \in SUBSET Keys
    BY DEF CacheInv, Fits
  <2>2. entries' = Without(entries, S) /\ reply' = nil /\ now' = now
    BY <1>5 DEF InvalidateRepo, RemoveElements
  <2> HIDE DEF S
  <2>3. Seen(entries)' = Forgotten(Seen(entries), S)
    BY <2>2, SeenWithout DEF Seen
  <2>4. Map!Forgets(Seen(entries), {})
    BY <2>1, <2>3, ForgettingIsForgets
  <2>5. QED BY <2>2, <2>4 DEF Map!Forget, Seen
<1>6. ASSUME Clear PROVE Map!Forget
  <2>1. DOMAIN entries' = {} /\ reply' = nil /\ now' = now
    BY <1>6, EmptySeq DEF Clear
  <2>2. Seen(entries)' = Forgotten(Seen(entries), Keys)
    BY <2>1 DEF Seen, Forgotten
  <2>3. Map!Forgets(Seen(entries), {})
    BY <2>2, ForgettingIsForgets
  <2>4. QED BY <2>1, <2>3 DEF Map!Forget, Seen
<1>7. ASSUME Tick PROVE Map!Tick
  <2>1. now' = now + 1 /\ reply' = nil /\ entries' = entries /\ now \in Nat
    BY <1>7, LimitsAssumption DEF Tick, CacheInv
  <2>2. QED BY <2>1 DEF Map!Tick
<1>8. ASSUME UNCHANGED vars PROVE UNCHANGED Map!vars
  BY <1>8 DEF vars, Map!vars
<1>9. QED
  BY <1>1, <1>2, <1>3, <1>4, <1>5, <1>6, <1>7, <1>8 DEF Next, Get, Map!Next

\* Whatever the limits, the sizes and the operations, the cache answers as a map that forgets
\* but never mixes up two keys or versions, revives what was invalidated (the prefix match of
\* InvalidateRepo forgets more than the repo at most), or serves what has expired.
THEOREM CacheIsExpiringMap == Spec => AnswersAsExpiringMap
BY InvHolds, InitImplements, StepImplements, PTL DEF Spec, AnswersAsExpiringMap, Map!Spec
=============================================================================
