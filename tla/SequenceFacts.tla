--------------------------- MODULE SequenceFacts ---------------------------
(***************************************************************************)
(* Facts the theorems cite that are about no component: extrema of sets of    *)
(* naturals, the elements of sequences, appended, cut and laid end to end, *)
(* what a sequence of entries says of a key, where a pattern is in a       *)
(* sequence, the bytes of a text, and induction.  Induction is             *)
(* stated of a set Q that holds the base and is closed under the step, so  *)
(* that a theorem instantiates it with the set of those that have the      *)
(* property.                                                               *)
(***************************************************************************)
EXTENDS Lists, Texts, SequenceTheorems, FiniteSetTheorems, WellFoundedInduction, TLAPS

-----------------------------------------------------------------------------
\* Extrema of sets of naturals, from the well-foundedness of <.

LEMMA LessRelation == OpToRel(<, Nat) = {ss \in Nat \X Nat : ss[1] < ss[2]}
BY DEF OpToRel

LEMMA SmallestOfNat ==
  ASSUME NEW S, \A i \in S : i \in Nat, S # {}
  PROVE  \E i \in S : \A j \in S : i <= j
<1> DEFINE R == {ss \in Nat \X Nat : ss[1] < ss[2]}
<1>1. IsWellFoundedOn(R, Nat)
  BY NatLessThanWellFounded, LessRelation
<1>2. PICK x \in S : \A y \in S : ~ (<<y, x>> \in R)
  <2> HIDE DEF R
  <2> QED BY <1>1, WFMin
<1>3. \A y \in Nat : y < x => <<y, x>> \in R
  OBVIOUS
<1>4. \A y \in S : ~ (y < x)
  BY <1>2, <1>3
<1>5. QED BY <1>4

LEMMA LargestOfNat ==
  ASSUME NEW S, \A i \in S : i \in Nat, S # {}, NEW n \in Nat, \A i \in S : i <= n
  PROVE  \E i \in S : \A j \in S : j <= i
<1> DEFINE D == {n - i : i \in S}
<1>1. (\A d \in D : d \in Nat) /\ D # {}
  <2>1. \A i \in S : n - i \in Nat
    OBVIOUS
  <2>2. QED BY <2>1
<1>2. PICK m \in D : \A k \in D : m <= k
  <2> HIDE DEF D
  <2> QED BY <1>1, SmallestOfNat
<1>3. PICK i \in S : m = n - i
  OBVIOUS
<1>4. \A j \in S : n - j \in D
  OBVIOUS
<1>5. \A j \in S : n - i <= n - j
  BY <1>2, <1>3, <1>4
<1>6. \A j \in S : j <= i
  BY <1>5
<1>7. QED BY <1>6

\* Induction over the naturals, for a set of them.
LEMMA InductionOnNat ==
  ASSUME NEW Q, 0 \in Q, \A n \in Nat : n \in Q => n + 1 \in Q
  PROVE  Nat \subseteq Q
<1> SUFFICES ASSUME Nat \ Q # {} PROVE FALSE
  OBVIOUS
<1>1. PICK m \in Nat \ Q : \A j \in Nat \ Q : m <= j
  BY SmallestOfNat
<1>2. m # 0 /\ m - 1 \in Nat /\ (m - 1) + 1 = m /\ ~(m <= m - 1)
  BY <1>1
<1>3. m - 1 \in Q
  BY <1>1, <1>2
<1>4. QED BY <1>1, <1>2, <1>3

-----------------------------------------------------------------------------
\* The elements of a sequence.

LEMMA SetOfFew ==
  /\ ToSet(<<>>) = {} /\ \A x : ToSet(<<x>>) = {x}
  /\ \A x, y : ToSet(<<x, y>>) = {x, y}
BY DEF ToSet

LEMMA SetOfSeq ==
  ASSUME NEW S, NEW s \in Seq(S)
  PROVE  /\ ToSet(s) \subseteq S /\ ToSet(s) = {s[i] : i \in 1..Len(s)} /\ Len(s) \in Nat
         /\ s = <<>> <=> ToSet(s) = {}
<1>1. DOMAIN s = 1..Len(s) /\ Len(s) \in Nat /\ \A i \in 1..Len(s) : s[i] \in S
  BY ElementOfSeq, LenProperties
<1>2. s # <<>> => 1 \in DOMAIN s
  BY <1>1, EmptySeq
<1>3. s = <<>> => DOMAIN s = {}
  BY <1>1, EmptySeq
<1>4. QED BY <1>1, <1>2, <1>3 DEF ToSet

LEMMA SetOfAppend ==
  ASSUME NEW S, NEW s \in Seq(S), NEW x \in S
  PROVE  Append(s, x) \in Seq(S) /\ ToSet(Append(s, x)) = ToSet(s) \cup {x}
<1> DEFINE t == Append(s, x)
<1>1. /\ t \in Seq(S) /\ Len(t) = Len(s) + 1 /\ t[Len(s) + 1] = x
      /\ \A i \in 1..Len(s) : t[i] = s[i]
  BY AppendProperties
<1>2. Len(s) \in Nat /\ DOMAIN s = 1..Len(s) /\ DOMAIN t = 1..(Len(s) + 1)
  BY <1>1, LenProperties
<1>3. 1..(Len(s) + 1) = 1..Len(s) \cup {Len(s) + 1}
  BY <1>2
<1> HIDE DEF t
<1>4. ToSet(t) = ToSet(s) \cup {x}
  BY <1>1, <1>2, <1>3 DEF ToSet
<1>5. QED BY <1>1, <1>4 DEF t

LEMMA SetOfTail ==
  ASSUME NEW S, NEW s \in Seq(S), s # <<>>
  PROVE  /\ Head(s) \in S /\ Tail(s) \in Seq(S) /\ ToSet(s) = {Head(s)} \cup ToSet(Tail(s))
<1> DEFINE t == Tail(s)
<1>1. /\ Head(s) \in S /\ t \in Seq(S) /\ Len(t) = Len(s) - 1 /\ Head(s) = s[1]
      /\ \A i \in 1..Len(t) : t[i] = s[i + 1]
  BY HeadTailProperties
<1>2. Len(s) \in Nat \ {0} /\ DOMAIN s = 1..Len(s) /\ DOMAIN t = 1..(Len(s) - 1)
  BY <1>1, LenProperties, EmptySeq
<1> HIDE DEF t
<1>3. ASSUME NEW x \in ToSet(s) PROVE x \in {s[1]} \cup ToSet(t)
  <2>1. PICK i \in 1..Len(s) : x = s[i]
    BY <1>2 DEF ToSet
  <2>2. i = 1 \/ (i - 1 \in 1..(Len(s) - 1) /\ (i - 1) + 1 = i)
    BY <1>2
  <2>3. QED BY <1>1, <1>2, <2>1, <2>2 DEF ToSet
<1>4. ASSUME NEW x \in {s[1]} \cup ToSet(t) PROVE x \in ToSet(s)
  <2>1. CASE x = s[1]
    BY <1>2, <2>1 DEF ToSet
  <2>2. CASE x \in ToSet(t)
    <3>1. PICK i \in 1..(Len(s) - 1) : x = t[i]
      BY <1>2, <2>2 DEF ToSet
    <3>2. i + 1 \in 1..Len(s) /\ x = s[i + 1]
      BY <1>1, <1>2, <3>1
    <3>3. QED BY <1>2, <3>2 DEF ToSet
  <2>3. QED BY <1>4, <2>1, <2>2
<1>5. QED BY <1>1, <1>3, <1>4 DEF t

LEMMA SetOfConcat ==
  ASSUME NEW S, NEW s \in Seq(S), NEW t \in Seq(S)
  PROVE  s \o t \in Seq(S) /\ ToSet(s \o t) = ToSet(s) \cup ToSet(t)
<1> DEFINE u == s \o t
<1>1. /\ u \in Seq(S) /\ Len(u) = Len(s) + Len(t)
      /\ \A i \in 1..(Len(s) + Len(t)) : u[i] = IF i <= Len(s) THEN s[i] ELSE t[i - Len(s)]
  BY ConcatProperties
<1>2. /\ Len(s) \in Nat /\ Len(t) \in Nat
      /\ DOMAIN s = 1..Len(s) /\ DOMAIN t = 1..Len(t) /\ DOMAIN u = 1..(Len(s) + Len(t))
  BY <1>1, LenProperties
<1> HIDE DEF u
<1>3. ASSUME NEW x \in ToSet(u) PROVE x \in ToSet(s) \cup ToSet(t)
  <2>1. PICK i \in 1..(Len(s) + Len(t)) : x = u[i]
    BY <1>2 DEF ToSet
  <2>2. CASE i <= Len(s)
    <3>1. i \in 1..Len(s) /\ x = s[i]
      BY <1>1, <1>2, <2>1, <2>2
    <3>2. QED BY <1>2, <3>1 DEF ToSet
  <2>3. CASE ~(i <= Len(s))
    <3>1. i - Len(s) \in 1..Len(t) /\ x = t[i - Len(s)]
      BY <1>1, <1>2, <2>1, <2>3
    <3>2. QED BY <1>2, <3>1 DEF ToSet
  <2>4. QED BY <2>2, <2>3
<1>4. ASSUME NEW i \in 1..Len(s) PROVE s[i] \in ToSet(u)
  <2>1. i \in 1..(Len(s) + Len(t)) /\ u[i] = s[i]
    BY <1>1, <1>2
  <2>2. QED BY <1>2, <2>1 DEF ToSet
<1>5. ASSUME NEW i \in 1..Len(t) PROVE t[i] \in ToSet(u)
  <2>1. i + Len(s) \in 1..(Len(s) + Len(t)) /\ u[i + Len(s)] = t[(i + Len(s)) - Len(s)] /\ (i + Len(s)) - Len(s) = i
    BY <1>1, <1>2
  <2>2. QED BY <1>2, <2>1 DEF ToSet
<1>6. ToSet(s) \cup ToSet(t) \subseteq ToSet(u)
  BY <1>2, <1>4, <1>5 DEF ToSet
<1>7. QED BY <1>1, <1>3, <1>6 DEF u

\* The element behind the first n is moved to behind the first k.
Moved(s, k, n) ==
  SubSeq(s, 1, k) \o <<s[n + 1]>> \o SubSeq(s, k + 1, n) \o SubSeq(s, n + 2, Len(s))

LEMMA MovedElements ==
  ASSUME NEW S, NEW s \in Seq(S), NEW n \in Nat, n < Len(s), NEW k \in 0..n
  PROVE  LET t == Moved(s, k, n)
         IN /\ t \in Seq(S) /\ Len(t) = Len(s) /\ ToSet(t) = ToSet(s)
            /\ \A i \in 1..Len(s) :
                 t[i] = IF i <= k THEN s[i] ELSE IF i = k + 1 THEN s[n + 1]
                        ELSE IF i <= n + 1 THEN s[i - 1] ELSE s[i]
<1>0. Len(s) \in Nat /\ k \in Nat /\ k <= n /\ DOMAIN s = 1..Len(s) /\ \A i \in 1..Len(s) : s[i] \in S
  BY ElementOfSeq, LenProperties
<1> DEFINE a == SubSeq(s, 1, k)
           b == <<s[n + 1]>>
           c == SubSeq(s, k + 1, n)
           d == SubSeq(s, n + 2, Len(s))
           ab == a \o b
           abc == ab \o c
           t == abc \o d
<1>1. a \in Seq(S) /\ Len(a) = k /\ \A i \in 1..k : a[i] = s[i]
  <2>1. \A i \in 1..k : s[i] \in S
    BY <1>0
  <2>2. QED BY <1>0, <2>1, SubSeqProperties
<1>2. b \in Seq(S) /\ Len(b) = 1 /\ b[1] = s[n + 1]
  BY <1>0
<1>3. c \in Seq(S) /\ Len(c) = n - k /\ \A i \in 1..(n - k) : c[i] = s[k + i]
  <2>1. \A i \in (k + 1)..n : s[i] \in S
    BY <1>0
  <2>2. /\ c \in Seq(S) /\ Len(c) = IF k + 1 <= n THEN n - (k + 1) + 1 ELSE 0
        /\ \A i \in 1..(n - (k + 1) + 1) : c[i] = s[k + 1 + i - 1]
    BY <1>0, <2>1, SubSeqProperties
  <2>3. /\ n - (k + 1) + 1 = n - k /\ (k + 1 <= n \/ n - k = 0)
        /\ \A i \in 1..(n - k) : k + 1 + i - 1 = k + i
    BY <1>0
  <2> HIDE DEF c
  <2>4. QED BY <1>0, <2>2, <2>3
<1>4. d \in Seq(S) /\ Len(d) = Len(s) - n - 1 /\ \A i \in 1..(Len(s) - n - 1) : d[i] = s[n + 1 + i]
  <2>1. \A i \in (n + 2)..Len(s) : s[i] \in S
    BY <1>0
  <2>2. /\ d \in Seq(S) /\ Len(d) = IF n + 2 <= Len(s) THEN Len(s) - (n + 2) + 1 ELSE 0
        /\ \A i \in 1..(Len(s) - (n + 2) + 1) : d[i] = s[n + 2 + i - 1]
    BY <1>0, <2>1, SubSeqProperties
  <2>3. \A l \in Nat : n < l => l - (n + 2) + 1 = l - n - 1 /\ (n + 2 <= l \/ l - n - 1 = 0)
    OBVIOUS
  <2>4. \A i \in Nat : n + 2 + i - 1 = n + 1 + i
    OBVIOUS
  <2> HIDE DEF d
  <2>5. Len(d) = Len(s) - n - 1 /\ Len(s) - (n + 2) + 1 = Len(s) - n - 1
    BY <1>0, <2>2, <2>3
  <2>6. ASSUME NEW i \in 1..(Len(s) - n - 1) PROVE d[i] = s[n + 1 + i]
    <3>1. d[i] = s[n + 2 + i - 1] /\ i \in Nat
      BY <2>2, <2>5
    <3>2. QED BY <2>4, <3>1
  <2>7. QED BY <2>2, <2>5, <2>6
<1> HIDE DEF a, b, c, d
<1>5. /\ ab \in Seq(S) /\ Len(ab) = k + 1
      /\ \A i \in 1..(k + 1) : ab[i] = IF i <= k THEN s[i] ELSE s[n + 1]
  <2>1. /\ ab \in Seq(S) /\ Len(ab) = Len(a) + Len(b)
        /\ \A i \in 1..(Len(a) + Len(b)) : ab[i] = IF i <= Len(a) THEN a[i] ELSE b[i - Len(a)]
    BY <1>1, <1>2, ConcatProperties
  <2>2. \A i \in 1..(k + 1) : i <= k \/ i - k = 1
    BY <1>0
  <2> HIDE DEF ab
  <2>3. QED BY <1>0, <1>1, <1>2, <2>1, <2>2
<1> HIDE DEF ab
<1>6. /\ abc \in Seq(S) /\ Len(abc) = n + 1
      /\ \A i \in 1..(n + 1) : abc[i] = IF i <= k + 1 THEN ab[i] ELSE c[i - (k + 1)]
  BY <1>0, <1>3, <1>5
<1>7. \A i \in 1..(n + 1) : i > k + 1 => c[i - (k + 1)] = s[i - 1]
  <2>1. \A i \in 1..(n + 1) : i > k + 1 => i - (k + 1) \in 1..(n - k) /\ k + (i - (k + 1)) = i - 1
    BY <1>0
  <2>2. QED BY <1>3, <2>1
<1> HIDE DEF abc
<1>8. /\ t \in Seq(S) /\ Len(t) = Len(s)
      /\ \A i \in 1..Len(s) : t[i] = IF i <= n + 1 THEN abc[i] ELSE d[i - (n + 1)]
  <2>1. /\ t \in Seq(S) /\ Len(t) = Len(abc) + Len(d)
        /\ \A i \in 1..(Len(abc) + Len(d)) : t[i] = IF i <= Len(abc) THEN abc[i] ELSE d[i - Len(abc)]
    BY <1>4, <1>6, ConcatProperties
  <2>2. n + 1 + (Len(s) - n - 1) = Len(s)
    BY <1>0
  <2> HIDE DEF t
  <2>3. QED BY <1>4, <1>6, <2>1, <2>2
<1>9. \A i \in 1..Len(s) : i > n + 1 => d[i - (n + 1)] = s[i]
  <2>1. \A i \in 1..Len(s) : i > n + 1 => i - (n + 1) \in 1..(Len(s) - n - 1) /\ n + 1 + (i - (n + 1)) = i
    BY <1>0
  <2>2. QED BY <1>4, <2>1
<1>10. \A i \in 1..Len(s) :
         t[i] = IF i <= k THEN s[i] ELSE IF i = k + 1 THEN s[n + 1]
                ELSE IF i <= n + 1 THEN s[i - 1] ELSE s[i]
  <2> HIDE DEF t
  <2>1. ASSUME NEW i \in 1..Len(s), i <= n + 1
        PROVE  t[i] = IF i <= k THEN s[i] ELSE IF i = k + 1 THEN s[n + 1] ELSE s[i - 1]
    <3>1. i \in 1..(n + 1) /\ t[i] = abc[i]
      BY <1>0, <1>8, <2>1
    <3>2. CASE i <= k + 1
      BY <1>0, <1>5, <1>6, <3>1, <3>2
    <3>3. CASE ~(i <= k + 1)
      <4>1. abc[i] = c[i - (k + 1)] /\ c[i - (k + 1)] = s[i - 1] /\ ~(i <= k) /\ i # k + 1
        BY <1>0, <1>6, <1>7, <3>1, <3>3
      <4>2. QED BY <3>1, <4>1
    <3>4. QED BY <3>2, <3>3
  <2>2. ASSUME NEW i \in 1..Len(s), ~(i <= n + 1) PROVE t[i] = s[i]
    BY <1>0, <1>8, <1>9, <2>2
  <2>3. QED BY <1>0, <2>1, <2>2
<1>11. t = Moved(s, k, n)
  BY DEF a, b, c, d, ab, abc, Moved
<1> HIDE DEF t
<1>12. ToSet(t) = ToSet(s)
  <2>1. DOMAIN t = 1..Len(s)
    BY <1>8, LenProperties
  <2>2. ASSUME NEW i \in 1..Len(s) PROVE t[i] \in ToSet(s)
    <3>1. n + 1 \in 1..Len(s)
      BY <1>0
    <3>2. (~(i <= k) /\ i # k + 1) => i - 1 \in 1..Len(s)
      BY <1>0
    <3>3. QED BY <1>0, <1>10, <3>1, <3>2 DEF ToSet
  <2>3. ASSUME NEW i \in 1..Len(s) PROVE s[i] \in ToSet(t)
    <3>1. \E j \in 1..Len(s) : t[j] = s[i]
      <4>1. CASE i <= k \/ i > n + 1
        BY <1>0, <1>10, <4>1
      <4>2. CASE i = n + 1
        <5>1. k + 1 \in 1..Len(s) /\ t[k + 1] = s[n + 1]
          BY <1>0, <1>10
        <5>2. QED BY <4>2, <5>1
      <4>3. CASE i > k /\ i <= n
        <5>1. i + 1 \in 1..Len(s) /\ t[i + 1] = s[(i + 1) - 1] /\ (i + 1) - 1 = i
          BY <1>0, <1>10, <4>3
        <5>2. QED BY <5>1
      <4>4. QED BY <1>0, <4>1, <4>2, <4>3
    <3>2. QED BY <2>1, <3>1 DEF ToSet
  <2>4. QED BY <1>0, <2>1, <2>2, <2>3 DEF ToSet
<1>13. QED BY <1>8, <1>10, <1>11, <1>12

\* Induction over the sequences, for a set of them.
LEMMA InductionOnSeq ==
  ASSUME NEW S, NEW Q, <<>> \in Q,
         \A s \in Seq(S), x \in S : s \in Q => Append(s, x) \in Q
  PROVE  Seq(S) \subseteq Q
<1> DEFINE N == {n \in Nat : \A s \in Seq(S) : Len(s) = n => s \in Q}
<1>1. 0 \in N
  <2>1. \A s \in Seq(S) : Len(s) = 0 => s = <<>>
    BY EmptySeq
  <2>2. QED BY <2>1
<1>2. ASSUME NEW n \in Nat, n \in N PROVE n + 1 \in N
  <2>1. ASSUME NEW s \in Seq(S), Len(s) = n + 1 PROVE s \in Q
    <3> DEFINE f == SubSeq(s, 1, n)
    <3>1. /\ n + 1 \in 1..Len(s) /\ n \in 0..Len(s) /\ Len(s) \in Nat
          /\ \A i \in 1..Len(s) : s[i] \in S
      BY <2>1, ElementOfSeq
    <3>2. f \in Seq(S) /\ Len(f) = n /\ \A i \in 1..n : f[i] = s[i]
      <4>1. \A i \in 1..n : s[i] \in S
        BY <2>1, <3>1
      <4>2. /\ f \in Seq(S) /\ Len(f) = IF 1 <= n THEN n - 1 + 1 ELSE 0
            /\ \A i \in 1..(n - 1 + 1) : f[i] = s[1 + i - 1]
        BY <4>1, SubSeqProperties
      <4> HIDE DEF f
      <4>3. QED BY <4>2
    <3> HIDE DEF f
    <3>3. /\ Append(f, s[n + 1]) \in Seq(S) /\ Len(Append(f, s[n + 1])) = n + 1
          /\ Append(f, s[n + 1])[n + 1] = s[n + 1]
          /\ \A i \in 1..n : Append(f, s[n + 1])[i] = f[i]
      BY <3>1, <3>2, AppendProperties
    <3>4. \A i \in 1..(n + 1) : i \in 1..n \/ i = n + 1
      OBVIOUS
    <3>5. Append(f, s[n + 1]) = s
      BY <2>1, <3>2, <3>3, <3>4, SeqEqual
    <3>6. f \in Q /\ s[n + 1] \in S
      BY <1>2, <3>1, <3>2
    <3>7. QED BY <3>2, <3>5, <3>6
  <2>2. QED BY <2>1
<1>3. Nat \subseteq N
  <2> HIDE DEF N
  <2> QED BY <1>1, <1>2, InductionOnNat
<1>4. QED BY <1>3, LenProperties


-----------------------------------------------------------------------------
\* FlattenSeq, laid out as its definition computes it.

LaidOut(ss, f, m) == f = [i \in 1..m |-> IF i = 1 THEN ss[i] ELSE f[i - 1] \o ss[i]]

LEMMA LaidOutExists ==
  ASSUME NEW ss, NEW l \in Nat
  PROVE  \E f : LaidOut(ss, f, l)
<1> DEFINE Q == {m \in Nat : \E f : LaidOut(ss, f, m)}
<1>1. 0 \in Q
  <2> DEFINE f == [i \in 1..0 |-> ss[i]]
  <2>1. 1..0 = {}
    OBVIOUS
  <2>2. LaidOut(ss, f, 0)
    BY <2>1 DEF LaidOut
  <2>3. QED BY <2>2
<1>2. ASSUME NEW m \in Nat, m \in Q PROVE m + 1 \in Q
  <2>1. PICK f : LaidOut(ss, f, m)
    BY <1>2
  <2> DEFINE last == IF m + 1 = 1 THEN ss[m + 1] ELSE f[m] \o ss[m + 1]
             g == [i \in 1..(m + 1) |-> IF i = m + 1 THEN last ELSE f[i]]
             step(i) == IF i = 1 THEN ss[i] ELSE g[i - 1] \o ss[i]
  <2>2. \A i \in 1..m : i \in 1..(m + 1) /\ i # m + 1 /\ g[i] = f[i]
    OBVIOUS
  <2>3. \A i \in 1..(m + 1) : i = m + 1 \/ (i \in 1..m /\ (i # 1 => i - 1 \in 1..m))
    OBVIOUS
  <2>4. \A i \in 1..m : f[i] = IF i = 1 THEN ss[i] ELSE f[i - 1] \o ss[i]
    BY <2>1 DEF LaidOut
  <2>5. g[m + 1] = last /\ (m + 1) - 1 = m /\ m + 1 \in 1..(m + 1) /\ (m + 1 # 1 => m \in 1..m)
    OBVIOUS
  <2> HIDE DEF g
  <2>6. \A i \in 1..(m + 1) : g[i] = step(i)
    BY <2>2, <2>3, <2>4, <2>5
  <2>7. g = [i \in 1..(m + 1) |-> g[i]]
    BY DEF g
  <2>8. g = [i \in 1..(m + 1) |-> step(i)]
    BY <2>6, <2>7
  <2>9. LaidOut(ss, g, m + 1)
    BY <2>8 DEF LaidOut
  <2>10. QED BY <2>9
<1>3. Nat \subseteq Q
  <2> HIDE DEF Q
  <2> QED BY <1>1, <1>2, InductionOnNat
<1>4. QED BY <1>3

LEMMA FlattenIsLaidOut ==
  ASSUME NEW S, NEW ss \in Seq(S), ss # <<>>
  PROVE  \E f : LaidOut(ss, f, Len(ss)) /\ FlattenSeq(ss) = f[Len(ss)]
<1> DEFINE f == CHOOSE f : LaidOut(ss, f, Len(ss))
<1>1. Len(ss) \in Nat /\ Len(ss) # 0
  BY LenProperties, EmptySeq
<1>2. LaidOut(ss, f, Len(ss))
  BY <1>1, LaidOutExists
<1>3. FlattenSeq(ss) = f[Len(ss)]
  BY <1>1 DEF FlattenSeq, LaidOut
<1>4. QED BY <1>2, <1>3

\* One more sequence is laid behind the others.
LEMMA FlattenOfAppend ==
  ASSUME NEW S, NEW ss \in Seq(Seq(S)), NEW d \in Seq(S)
  PROVE  /\ FlattenSeq(<<>>) = <<>>
         /\ FlattenSeq(Append(ss, d)) = IF ss = <<>> THEN d ELSE FlattenSeq(ss) \o d
<1> DEFINE u == Append(ss, d)
           l == Len(ss)
<1>1. FlattenSeq(<<>>) = <<>>
  BY EmptySeq DEF FlattenSeq
<1>2. u \in Seq(Seq(S)) /\ Len(u) = l + 1 /\ u[l + 1] = d /\ l \in Nat /\ \A i \in 1..l : u[i] = ss[i]
  BY AppendProperties, LenProperties
<1>3. /\ u # <<>>
      /\ ss = <<>> <=> l = 0
  <2>1. ss = <<>> <=> l = 0
    BY EmptySeq
  <2>2. u # <<>>
    <3> HIDE DEF u
    <3>1. Len(u) # 0
      BY <1>2
    <3>2. QED BY <1>2, <3>1, EmptySeq
  <2>3. QED BY <2>1, <2>2
<1> HIDE DEF u, l
<1>4. PICK g : LaidOut(u, g, l + 1) /\ FlattenSeq(u) = g[l + 1]
  BY <1>2, <1>3, FlattenIsLaidOut
<1>5. \A i \in 1..(l + 1) : g[i] = IF i = 1 THEN u[i] ELSE g[i - 1] \o u[i]
  BY <1>4 DEF LaidOut
<1>6. CASE ss = <<>>
  <2>1. l + 1 = 1 /\ 1 \in 1..(l + 1)
    BY <1>3, <1>6
  <2>2. g[l + 1] = d
    BY <1>2, <1>5, <2>1
  <2>3. QED BY <1>1, <1>4, <1>6, <2>2 DEF u
<1>7. CASE ss # <<>>
  <2>1. PICK f : LaidOut(ss, f, l) /\ FlattenSeq(ss) = f[l]
    BY <1>7, FlattenIsLaidOut DEF l
  <2>2. \A i \in 1..l : f[i] = IF i = 1 THEN ss[i] ELSE f[i - 1] \o ss[i]
    BY <2>1 DEF LaidOut
  <2> DEFINE Q == {n \in Nat : n \in 1..l => f[n] = g[n]}
  <2>3. 0 \in Q
    OBVIOUS
  <2>4. ASSUME NEW n \in Nat, n \in Q PROVE n + 1 \in Q
    <3>1. CASE n + 1 \in 1..l
      <4>1. n + 1 \in 1..(l + 1) /\ (n + 1) - 1 = n /\ (n + 1 # 1 => n \in 1..l) /\ u[n + 1] = ss[n + 1]
        BY <1>2, <3>1
      <4>2. n + 1 # 1 => f[n] = g[n]
        BY <2>4, <4>1
      <4>3. f[n + 1] = g[n + 1]
        BY <1>5, <2>2, <3>1, <4>1, <4>2
      <4>4. QED BY <4>3
    <3>2. QED BY <3>1
  <2>5. Nat \subseteq Q
    <3> HIDE DEF Q
    <3> QED BY <2>3, <2>4, InductionOnNat
  <2>6. l \in 1..l /\ l + 1 \in 1..(l + 1) /\ l + 1 # 1 /\ (l + 1) - 1 = l
    BY <1>2, <1>3, <1>7
  <2>7. f[l] = g[l]
    BY <1>2, <2>5, <2>6
  <2>8. g[l + 1] = g[l] \o d
    BY <1>2, <1>5, <2>6
  <2>9. QED BY <1>1, <1>4, <1>7, <2>1, <2>7, <2>8 DEF u
<1>8. QED BY <1>6, <1>7

\* The elements of sequences laid end to end are those of each.
LEMMA SetOfFlatten ==
  ASSUME NEW S, NEW ss \in Seq(Seq(S))
  PROVE  FlattenSeq(ss) \in Seq(S) /\ ToSet(FlattenSeq(ss)) = UNION {ToSet(ss[i]) : i \in 1..Len(ss)}
<1> DEFINE of(t) == UNION {ToSet(t[i]) : i \in 1..Len(t)}
           Q == {t \in Seq(Seq(S)) : FlattenSeq(t) \in Seq(S) /\ ToSet(FlattenSeq(t)) = of(t)}
<1>1. <<>> \in Q
  <2>1. <<>> \in Seq(Seq(S)) /\ <<>> \in Seq(S) /\ Len(<<>>) = 0
    BY EmptySeq
  <2>2. FlattenSeq(<<>>) = <<>>
    BY <2>1, FlattenOfAppend
  <2>3. of(<<>>) = {}
    BY <2>1
  <2>4. QED BY <2>1, <2>2, <2>3, SetOfFew
<1>2. ASSUME NEW t \in Seq(Seq(S)), NEW d \in Seq(S), t \in Q PROVE Append(t, d) \in Q
  <2> DEFINE u == Append(t, d)
  <2>1. /\ u \in Seq(Seq(S)) /\ Len(u) = Len(t) + 1 /\ u[Len(t) + 1] = d /\ Len(t) \in Nat
        /\ \A i \in 1..Len(t) : u[i] = t[i]
    BY AppendProperties, LenProperties
  <2>2. FlattenSeq(u) = IF t = <<>> THEN d ELSE FlattenSeq(t) \o d
    BY FlattenOfAppend
  <2>3. FlattenSeq(t) \in Seq(S) /\ ToSet(FlattenSeq(t)) = of(t)
    BY <1>2
  <2> HIDE DEF u
  <2>4. of(u) = of(t) \cup ToSet(d)
    <3>1. \A i : i \in 1..Len(u) <=> i \in 1..Len(t) \/ i = Len(t) + 1
      BY <2>1
    <3>2. QED BY <2>1, <3>1
  <2> HIDE DEF of
  <2>5. CASE t = <<>>
    <3>1. of(t) = {}
      BY <2>5, EmptySeq DEF of
    <3>2. QED BY <2>1, <2>2, <2>4, <2>5, <3>1 DEF u
  <2>6. CASE t # <<>>
    <3>1. FlattenSeq(t) \o d \in Seq(S) /\ ToSet(FlattenSeq(t) \o d) = ToSet(FlattenSeq(t)) \cup ToSet(d)
      BY <2>3, SetOfConcat
    <3>2. QED BY <2>1, <2>2, <2>3, <2>4, <2>6, <3>1 DEF u
  <2>7. QED BY <2>5, <2>6
<1>3. Seq(Seq(S)) \subseteq Q
  <2> HIDE DEF Q
  <2> QED BY <1>1, <1>2, InductionOnSeq
<1>4. QED BY <1>3

\* What a sequence begins with.
LEMMA BeginningOfSeq ==
  ASSUME NEW S, NEW s \in Seq(S), NEW k \in 0..Len(s)
  PROVE  LET t == SubSeq(s, 1, k)
         IN /\ t \in Seq(S) /\ Len(t) = k /\ \A i \in 1..k : t[i] = s[i]
            /\ \A n \in 0..k : SubSeq(t, 1, n) = SubSeq(s, 1, n)
            /\ k = 0 => t = <<>>
            /\ k = Len(s) => t = s
<1> DEFINE t == SubSeq(s, 1, k)
<1>1. Len(s) \in Nat /\ k \in Nat /\ k <= Len(s) /\ \A i \in 1..Len(s) : s[i] \in S
  BY LenProperties, ElementOfSeq
<1>2. \A n \in 0..k : /\ SubSeq(s, 1, n) \in Seq(S) /\ Len(SubSeq(s, 1, n)) = n
                      /\ \A i \in 1..n : SubSeq(s, 1, n)[i] = s[i]
  <2>1. ASSUME NEW n \in 0..k
        PROVE  /\ SubSeq(s, 1, n) \in Seq(S) /\ Len(SubSeq(s, 1, n)) = n
               /\ \A i \in 1..n : SubSeq(s, 1, n)[i] = s[i]
    <3>1. n \in Int /\ 1 \in Int /\ n >= 0 /\ \A i \in 1..n : s[i] \in S
      BY <1>1
    <3>2. /\ SubSeq(s, 1, n) \in Seq(S) /\ Len(SubSeq(s, 1, n)) = IF 1 <= n THEN n - 1 + 1 ELSE 0
          /\ \A i \in 1..(n - 1 + 1) : SubSeq(s, 1, n)[i] = s[1 + i - 1]
      BY <3>1, SubSeqProperties
    <3>3. QED BY <3>1, <3>2
  <2>2. QED BY <2>1
<1>3. t \in Seq(S) /\ Len(t) = k /\ \A i \in 1..k : t[i] = s[i]
  BY <1>1, <1>2
<1> HIDE DEF t
<1>4. ASSUME NEW n \in 0..k PROVE SubSeq(t, 1, n) = SubSeq(s, 1, n)
  <2>1. n \in Int /\ 1 \in Int /\ n >= 0 /\ \A i \in 1..n : t[i] \in S /\ t[i] = s[i]
    BY <1>1, <1>3
  <2>2. /\ SubSeq(t, 1, n) \in Seq(S) /\ Len(SubSeq(t, 1, n)) = IF 1 <= n THEN n - 1 + 1 ELSE 0
        /\ \A i \in 1..(n - 1 + 1) : SubSeq(t, 1, n)[i] = t[1 + i - 1]
    BY <2>1, SubSeqProperties
  <2>3. Len(SubSeq(t, 1, n)) = n /\ \A i \in 1..n : SubSeq(t, 1, n)[i] = SubSeq(s, 1, n)[i]
    BY <1>2, <2>1, <2>2
  <2>4. QED BY <1>2, <2>2, <2>3, SeqEqual
<1>5. k = 0 => t = <<>>
  BY <1>3, EmptySeq
<1>6. k = Len(s) => t = s
  BY <1>3, SeqEqual
<1>7. QED BY <1>3, <1>4, <1>5, <1>6 DEF t

LEMMA PrefixIsBeginning ==
  ASSUME NEW S, NEW s \in Seq(S), NEW t \in Seq(S)
  PROVE  IsPrefix(s, t) <=> \E k \in 0..Len(t) : s = SubSeq(t, 1, k)
<1>1. Len(s) \in Nat /\ Len(t) \in Nat /\ Len(s) \in 0..Len(s)
  BY LenProperties
<1>2. SubSeq(s, 1, Len(s)) = s
  BY <1>1, BeginningOfSeq
<1>3. \A k \in 0..Len(t) : Len(SubSeq(t, 1, k)) = k
  BY BeginningOfSeq
<1>4. IsPrefix(s, t) <=> Len(s) <= Len(t) /\ s = SubSeq(t, 1, Len(s))
  BY <1>2 DEF IsPrefix
<1>5. Len(s) <= Len(t) <=> Len(s) \in 0..Len(t)
  BY <1>1
<1>6. ASSUME NEW k \in 0..Len(t), s = SubSeq(t, 1, k) PROVE k = Len(s)
  BY <1>3, <1>6
<1>7. QED BY <1>4, <1>5, <1>6

\* A sequence that is not empty is its front with its last element behind.
LEMMA FrontOfAppend ==
  ASSUME NEW S, NEW s \in Seq(S), NEW x \in S
  PROVE  Append(s, x) \in Seq(S) /\ Append(s, x) # <<>> /\ Front(Append(s, x)) = s /\ Last(Append(s, x)) = x
<1> DEFINE t == Append(s, x)
<1>1. /\ t \in Seq(S) /\ t # <<>> /\ Len(t) = Len(s) + 1 /\ t[Len(s) + 1] = x
      /\ \A i \in 1..Len(s) : t[i] = s[i]
  BY AppendProperties
<1>2. Len(s) \in Nat
  BY LenProperties
<1> HIDE DEF t
<1>3. Len(t) - 1 = Len(s) /\ Len(s) \in 0..Len(t)
  BY <1>1, <1>2
<1>4. /\ SubSeq(t, 1, Len(s)) \in Seq(S) /\ Len(SubSeq(t, 1, Len(s))) = Len(s)
      /\ \A i \in 1..Len(s) : SubSeq(t, 1, Len(s))[i] = t[i]
  BY <1>1, <1>3, BeginningOfSeq
<1>5. SubSeq(t, 1, Len(s)) = s
  BY <1>1, <1>4, SeqEqual
<1>6. Front(t) = s /\ Last(t) = x
  BY <1>1, <1>3, <1>5 DEF Front, Last
<1>7. QED BY <1>1, <1>6 DEF t

LEMMA LastIsBehindFront ==
  ASSUME NEW S, NEW s \in Seq(S), s # <<>>
  PROVE  /\ Front(s) \in Seq(S) /\ Last(s) \in S /\ s = Append(Front(s), Last(s))
         /\ Len(s) - 1 \in 0..Len(s) /\ Front(s) = SubSeq(s, 1, Len(s) - 1)
<1>1. PICK t \in Seq(S), x \in S : s = Append(t, x)
  BY SequenceEmptyOrAppend
<1>2. Front(s) = t /\ Last(s) = x
  BY <1>1, FrontOfAppend
<1>3. Len(s) \in Nat /\ Len(s) # 0
  BY EmptySeq, LenProperties
<1>4. Front(s) = SubSeq(s, 1, Len(s) - 1)
  BY DEF Front
<1>5. QED BY <1>1, <1>2, <1>3, <1>4

-----------------------------------------------------------------------------
\* Pieces of sequences.

LEMMA PieceType ==
  ASSUME NEW S, NEW s \in Seq(S), NEW m \in Nat \ {0}, NEW n \in 0..Len(s), m <= n + 1
  PROVE  /\ SubSeq(s, m, n) \in Seq(S) /\ Len(SubSeq(s, m, n)) = n - m + 1
         /\ \A k \in 1..(n - m + 1) : SubSeq(s, m, n)[k] = s[m + k - 1]
         /\ m = n + 1 => SubSeq(s, m, n) = <<>>
<1>1. Len(s) \in Nat /\ m \in Int /\ n \in Int
  BY LenProperties
<1>2. \A k \in m..n : s[k] \in S
  BY <1>1, ElementOfSeq
<1>3. /\ SubSeq(s, m, n) \in Seq(S)
      /\ Len(SubSeq(s, m, n)) = IF m <= n THEN n - m + 1 ELSE 0
      /\ \A k \in 1..(n - m + 1) : SubSeq(s, m, n)[k] = s[m + k - 1]
  BY <1>1, <1>2, SubSeqProperties
<1>4. m = n + 1 => n < m
  BY <1>1
<1>5. m = n + 1 => SubSeq(s, m, n) = <<>>
  BY <1>1, <1>4, SubSeqEmpty
<1>6. Len(SubSeq(s, m, n)) = n - m + 1
  BY <1>1, <1>3
<1>7. QED BY <1>3, <1>5, <1>6

LEMMA PieceGrows ==
  ASSUME NEW S, NEW s \in Seq(S), NEW m \in Nat \ {0}, NEW n \in Nat, n < Len(s), m <= n + 1
  PROVE  /\ s[n + 1] \in S
         /\ SubSeq(s, m, n + 1) = Append(SubSeq(s, m, n), s[n + 1])
<1>1. Len(s) \in Nat /\ n + 1 \in 1..Len(s) /\ m \in 1..Len(s) /\ n + 1 \in m..Len(s)
      /\ (n + 1) - 1 = n /\ n \in 0..Len(s)
  BY LenProperties
<1>2. s[n + 1] \in S
  BY <1>1, ElementOfSeq
<1>3. SubSeq(s, m, n + 1) = SubSeq(s, m, (n + 1) - 1) \o <<s[n + 1]>>
  BY <1>1, SubSeqRecursiveSecond
<1>4. SubSeq(s, m, n) \in Seq(S)
  BY <1>1, PieceType
<1>5. Append(SubSeq(s, m, n), s[n + 1]) = SubSeq(s, m, n) \o <<s[n + 1]>>
  BY <1>2, <1>4, AppendIsConcat
<1>6. QED BY <1>1, <1>2, <1>3, <1>5

LEMMA PiecesJoin ==
  ASSUME NEW S, NEW s \in Seq(S), NEW m \in Nat \ {0}, NEW k \in Nat, NEW n \in Nat,
         m <= k + 1, k <= n, n <= Len(s)
  PROVE  SubSeq(s, m, k) \o SubSeq(s, k + 1, n) = SubSeq(s, m, n)
<1>1. Len(s) \in Nat
  BY LenProperties
<1>2. m \in 1..(Len(s) + 1) /\ k \in (m - 1)..Len(s) /\ n \in k..Len(s)
  BY <1>1
<1>3. QED BY <1>2, ConcatAdjacentSubSeq

LEMMA PieceOfLines ==
  ASSUME NEW S, NEW s \in Seq(S), NEW m \in Nat \ {0}, NEW n \in Nat, n <= Len(s)
  PROVE  /\ SubSeq(s, m, n) \in Seq(S) /\ Len(SubSeq(s, m, n)) = Most(n - m + 1, 0)
         /\ \A k \in m..n : SubSeq(s, m, n)[k - m + 1] = s[k]
<1> DEFINE u == SubSeq(s, m, n)
<1>1. Len(s) \in Nat
  BY LenProperties
<1>2. CASE m <= n + 1
  <2>1. n \in 0..Len(s)
    BY <1>1
  <2>2. u \in Seq(S) /\ Len(u) = n - m + 1 /\ \A k \in 1..(n - m + 1) : u[k] = s[m + k - 1]
    BY <1>2, <2>1, PieceType
  <2> HIDE DEF u
  <2>3. \A k \in m..n : k - m + 1 \in 1..(n - m + 1) /\ m + (k - m + 1) - 1 = k
    OBVIOUS
  <2>4. \A k \in m..n : u[k - m + 1] = s[k]
    BY <2>2, <2>3
  <2>5. Len(u) = Most(n - m + 1, 0)
    BY <1>2, <2>2 DEF Most
  <2>6. QED BY <2>2, <2>4, <2>5 DEF u
<1>3. CASE ~(m <= n + 1)
  <2>1. u = <<>>
    BY <1>3, SubSeqEmpty
  <2>2. u \in Seq(S) /\ Len(u) = 0
    BY <2>1, EmptySeq
  <2> HIDE DEF u
  <2>3. Len(u) = Most(n - m + 1, 0) /\ m..n = {}
    BY <1>3, <2>2 DEF Most
  <2>4. QED BY <2>2, <2>3 DEF u
<1>4. QED BY <1>2, <1>3

\* A path begins with another: the same names, in front.
LEMMA PrefixIsStart ==
  ASSUME NEW S, NEW s \in Seq(S), NEW t \in Seq(S)
  PROVE  IsPrefix(s, t) <=> Len(s) <= Len(t) /\ s = SubSeq(t, 1, Len(s))
<1>1. Len(s) \in Nat /\ Len(s) \in 0..Len(s)
  BY LenProperties
<1>2. SubSeq(s, 1, Len(s)) = s
  BY <1>1, BeginningOfSeq
<1>3. QED BY <1>2 DEF IsPrefix

LEMMA PrefixThrough ==
  ASSUME NEW S, NEW s \in Seq(S), NEW t \in Seq(S), NEW u \in Seq(S), IsPrefix(s, t), IsPrefix(t, u)
  PROVE  IsPrefix(s, u)
<1>1. Len(s) \in Nat /\ Len(t) \in Nat /\ Len(u) \in Nat
  BY LenProperties
<1>2. Len(s) <= Len(t) /\ s = SubSeq(t, 1, Len(s)) /\ Len(t) <= Len(u) /\ t = SubSeq(u, 1, Len(t))
  BY PrefixIsStart
<1>3. Len(s) \in 0..Len(t) /\ Len(t) \in 0..Len(u) /\ Len(s) <= Len(u)
  BY <1>1, <1>2
<1>4. SubSeq(SubSeq(u, 1, Len(t)), 1, Len(s)) = SubSeq(u, 1, Len(s))
  BY <1>3, BeginningOfSeq
<1>5. s = SubSeq(u, 1, Len(s))
  BY <1>2, <1>4
<1>6. QED BY <1>3, <1>5, PrefixIsStart

-----------------------------------------------------------------------------
\* Sequences laid end to end.

LEMMA OneOfSeq == \A S : <<>> \in Seq(S) /\ \A x \in S : <<x>> \in Seq(S)
OBVIOUS

LEMMA AppendToConcat ==
  ASSUME NEW S, NEW s \in Seq(S), NEW t \in Seq(S), NEW x \in S
  PROVE  s \o Append(t, x) = Append(s \o t, x)
<1>1. Append(t, x) = t \o <<x>> /\ <<x>> \in Seq(S)
  BY AppendIsConcat
<1>2. s \o (t \o <<x>>) = (s \o t) \o <<x>>
  BY <1>1, ConcatAssociative
<1>3. s \o t \in Seq(S)
  BY ConcatProperties
<1>4. Append(s \o t, x) = (s \o t) \o <<x>>
  BY <1>3, AppendIsConcat
<1>5. QED BY <1>1, <1>2, <1>4

\* A sequence between two elements.
LEMMA Enclosed ==
  ASSUME NEW S, NEW x \in S, NEW t \in Seq(S), NEW y \in S
  PROVE  /\ <<x>> \o t \o <<y>> \in Seq(S) /\ Len(<<x>> \o t \o <<y>>) = Len(t) + 2
         /\ (<<x>> \o t \o <<y>>)[1] = x
         /\ \A n \in 1..Len(t) : (<<x>> \o t \o <<y>>)[n + 1] = t[n]
<1> DEFINE a == <<x>>
           b == a \o t
           c == <<y>>
           d == b \o c
<1>1. a \in Seq(S) /\ Len(a) = 1 /\ a[1] = x /\ c \in Seq(S) /\ Len(c) = 1 /\ Len(t) \in Nat
  BY LenProperties
<1> HIDE DEF a, c
<1>2. /\ b \in Seq(S) /\ Len(b) = 1 + Len(t)
      /\ \A n \in 1..(1 + Len(t)) : b[n] = IF n <= 1 THEN a[n] ELSE t[n - 1]
  <2>1. /\ b \in Seq(S) /\ Len(b) = Len(a) + Len(t)
        /\ \A n \in 1..(Len(a) + Len(t)) : b[n] = IF n <= Len(a) THEN a[n] ELSE t[n - Len(a)]
    BY <1>1, ConcatProperties
  <2> HIDE DEF b
  <2>2. QED BY <1>1, <2>1
<1> HIDE DEF b
<1>3. /\ d \in Seq(S) /\ Len(d) = Len(b) + 1
      /\ \A n \in 1..(Len(b) + 1) : d[n] = IF n <= Len(b) THEN b[n] ELSE c[n - Len(b)]
  <2>1. /\ d \in Seq(S) /\ Len(d) = Len(b) + Len(c)
        /\ \A n \in 1..(Len(b) + Len(c)) : d[n] = IF n <= Len(b) THEN b[n] ELSE c[n - Len(b)]
    BY <1>1, <1>2, ConcatProperties
  <2> HIDE DEF d
  <2>2. QED BY <1>1, <2>1
<1> HIDE DEF d
<1>4. d[1] = x
  BY <1>1, <1>2, <1>3
<1>5. ASSUME NEW n \in 1..Len(t) PROVE d[n + 1] = t[n]
  <2>1. n + 1 \in 1..(1 + Len(t)) /\ ~(n + 1 <= 1) /\ (n + 1) - 1 = n /\ n + 1 <= Len(b) /\ n + 1 \in 1..(Len(b) + 1)
    BY <1>1, <1>2
  <2>2. QED BY <1>2, <1>3, <2>1
<1>6. Len(d) = Len(t) + 2
  BY <1>1, <1>2, <1>3
<1>7. QED BY <1>3, <1>4, <1>5, <1>6 DEF a, b, c, d

LEMMA FlattenType ==
  ASSUME NEW S, NEW ss \in Seq(Seq(S))
  PROVE  FlattenSeq(ss) \in Seq(S)
<1> DEFINE Q == {tt \in Seq(Seq(S)) : FlattenSeq(tt) \in Seq(S)}
<1>1. <<>> \in Q
  <2>1. <<>> \in Seq(S) /\ <<>> \in Seq(Seq(S))
    BY EmptySeq
  <2>2. FlattenSeq(<<>>) = <<>>
    BY <2>1, FlattenOfAppend
  <2>3. QED BY <2>1, <2>2
<1>2. ASSUME NEW tt \in Seq(Seq(S)), NEW d \in Seq(S), tt \in Q PROVE Append(tt, d) \in Q
  <2>1. FlattenSeq(Append(tt, d)) = IF tt = <<>> THEN d ELSE FlattenSeq(tt) \o d
    BY FlattenOfAppend
  <2>2. FlattenSeq(tt) \o d \in Seq(S)
    BY <1>2, ConcatProperties
  <2>3. Append(tt, d) \in Seq(Seq(S))
    BY AppendProperties
  <2>4. QED BY <2>1, <2>2, <2>3
<1> HIDE DEF Q
<1>3. Seq(Seq(S)) \subseteq Q
  BY <1>1, <1>2, InductionOnSeq
<1>4. QED BY <1>3 DEF Q

LEMMA FlatOfAppend ==
  ASSUME NEW S, NEW ss \in Seq(Seq(S)), NEW d \in Seq(S)
  PROVE  Flat(<<>>) = <<>> /\ Flat(Append(ss, d)) = Flat(ss) \o d
<1>1. <<>> \in Seq(S) /\ <<>> \in Seq(Seq(S)) /\ <<<<>>>> \in Seq(Seq(S)) /\ <<<<>>>> = Append(<<>>, <<>>)
  <2>1. <<>> \in Seq(S) /\ <<>> \in Seq(Seq(S))
    BY EmptySeq
  <2>2. Append(<<>>, <<>>) \in Seq(Seq(S)) /\ <<<<>>>> = Append(<<>>, <<>>)
    BY <2>1, AppendProperties
  <2>3. QED BY <2>1, <2>2
<1>2. FlattenSeq(<<<<>>>>) = <<>>
  BY <1>1, FlattenOfAppend
<1>3. <<<<>>>> \o <<>> = <<<<>>>>
  BY <1>1, ConcatEmptySeq
<1> DEFINE t == <<<<>>>> \o ss
<1>4. t \in Seq(Seq(S)) /\ t # <<>>
  <2>1. t \in Seq(Seq(S)) /\ Len(t) = Len(<<<<>>>>) + Len(ss) /\ Len(<<<<>>>>) = 1 /\ Len(ss) \in Nat
    BY <1>1, ConcatProperties, LenProperties
  <2> HIDE DEF t
  <2>2. Len(t) # 0
    BY <2>1
  <2>3. QED BY <2>1, <2>2, EmptySeq
<1>5. <<<<>>>> \o Append(ss, d) = Append(t, d)
  BY <1>1, AppendToConcat
<1>6. FlattenSeq(Append(t, d)) = FlattenSeq(t) \o d
  <2> HIDE DEF t
  <2> QED BY <1>4, FlattenOfAppend
<1>7. QED BY <1>2, <1>3, <1>5, <1>6 DEF Flat

LEMMA FlatType ==
  ASSUME NEW S, NEW ss \in Seq(Seq(S))
  PROVE  Flat(ss) \in Seq(S) /\ (Flat(ss) = <<>> => \A n \in 1..Len(ss) : ss[n] = <<>>)
<1> DEFINE empty(t) == \A n \in 1..Len(t) : t[n] = <<>>
           Q == {t \in Seq(Seq(S)) : Flat(t) \in Seq(S) /\ (Flat(t) = <<>> => empty(t))}
<1>1. <<>> \in Q
  <2>1. <<>> \in Seq(S) /\ <<>> \in Seq(Seq(S)) /\ Len(<<>>) = 0
    BY EmptySeq
  <2>2. Flat(<<>>) = <<>>
    BY <2>1, FlatOfAppend
  <2>3. empty(<<>>)
    BY <2>1
  <2>4. QED BY <2>1, <2>2, <2>3
<1>2. ASSUME NEW t \in Seq(Seq(S)), NEW d \in Seq(S), t \in Q PROVE Append(t, d) \in Q
  <2> DEFINE u == Append(t, d)
  <2>1. /\ u \in Seq(Seq(S)) /\ Len(u) = Len(t) + 1 /\ u[Len(t) + 1] = d /\ Len(t) \in Nat
        /\ \A n \in 1..Len(t) : u[n] = t[n]
    BY AppendProperties, LenProperties
  <2>2. Flat(u) = Flat(t) \o d /\ Flat(t) \in Seq(S) /\ (Flat(t) = <<>> => empty(t))
    BY <1>2, FlatOfAppend
  <2>3. Flat(t) \o d \in Seq(S) /\ Len(Flat(t) \o d) = Len(Flat(t)) + Len(d) /\ Len(Flat(t)) \in Nat /\ Len(d) \in Nat
    BY <2>2, ConcatProperties, LenProperties
  <2> HIDE DEF u
  <2>4. ASSUME Flat(u) = <<>> PROVE empty(u)
    <3>1. Len(Flat(t)) = 0 /\ Len(d) = 0
      <4>1. Len(Flat(t) \o d) = 0
        BY <2>2, <2>4, EmptySeq
      <4>2. QED BY <2>3, <4>1
    <3>2. Flat(t) = <<>> /\ d = <<>>
      BY <2>2, <3>1, EmptySeq
    <3>3. \A n \in 1..Len(u) : n \in 1..Len(t) \/ n = Len(t) + 1
      BY <2>1
    <3>4. QED BY <2>1, <2>2, <3>2, <3>3
  <2> HIDE DEF empty
  <2>5. QED BY <2>1, <2>2, <2>3, <2>4 DEF u
<1>3. Seq(Seq(S)) \subseteq Q
  <2> HIDE DEF Q
  <2> QED BY <1>1, <1>2, InductionOnSeq
<1>4. ss \in Q
  <2> HIDE DEF Q
  <2> QED BY <1>3
<1>5. QED BY <1>4

FirstPart(e, k) == [n \in 1..k |-> e[n]]
AllIn(e, l, S) == \A n \in 1..l : e[n] \in S
GrowsOneByOne(e, l, S) ==
  /\ FirstPart(e, 0) = <<>>
  /\ \A k \in 0..l : FirstPart(e, k) \in Seq(S) /\ Len(FirstPart(e, k)) = k
  /\ \A k \in Nat : k < l => e[k + 1] \in S /\ FirstPart(e, k + 1) = Append(FirstPart(e, k), e[k + 1])

LEMMA OneMore ==
  ASSUME NEW S, NEW l \in Nat, NEW e, AllIn(e, l, S)
  PROVE  GrowsOneByOne(e, l, S)
<1> USE DEF AllIn, GrowsOneByOne
<1>1. ASSUME NEW k \in 0..l PROVE FirstPart(e, k) \in Seq(S) /\ Len(FirstPart(e, k)) = k
  <2>1. k \in Nat /\ \A n \in 1..k : e[n] \in S
    OBVIOUS
  <2>2. QED BY <2>1, IsASeq DEF FirstPart
<1>2. FirstPart(e, 0) = <<>>
  <2>1. FirstPart(e, 0) \in Seq(S) /\ Len(FirstPart(e, 0)) = 0
    BY <1>1
  <2>2. QED BY <2>1, EmptySeq
<1>3. ASSUME NEW k \in Nat, k < l PROVE e[k + 1] \in S /\ FirstPart(e, k + 1) = Append(FirstPart(e, k), e[k + 1])
  <2> DEFINE f == FirstPart(e, k)
             g == FirstPart(e, k + 1)
             h == Append(f, e[k + 1])
  <2>1. k \in 0..l /\ k + 1 \in 0..l /\ k + 1 \in 1..l
    BY <1>3
  <2>2. e[k + 1] \in S
    BY <2>1
  <2>3. f \in Seq(S) /\ Len(f) = k /\ g \in Seq(S) /\ Len(g) = k + 1
    BY <1>1, <2>1
  <2>4. /\ h \in Seq(S) /\ Len(h) = k + 1 /\ h[k + 1] = e[k + 1]
        /\ \A n \in 1..k : h[n] = f[n]
    <3> HIDE DEF f
    <3> QED BY <2>2, <2>3, AppendProperties
  <2>5. (\A n \in 1..k : f[n] = e[n]) /\ \A n \in 1..(k + 1) : g[n] = e[n]
    BY DEF FirstPart
  <2> HIDE DEF f, g, h
  <2>6. \A n \in 1..(k + 1) : g[n] = h[n]
    <3>1. \A n \in 1..(k + 1) : n \in 1..k \/ n = k + 1
      OBVIOUS
    <3>2. QED BY <2>4, <2>5, <3>1
  <2>7. g = h
    BY <2>3, <2>4, <2>6, SeqEqual
  <2>8. QED BY <2>2, <2>7 DEF f, g, h
<1>4. QED BY <1>1, <1>2, <1>3

IsStartOf(s, t) == Len(s) <= Len(t) /\ \A k \in 1..Len(s) : t[k] = s[k]

LEMMA ConcatBehind ==
  ASSUME NEW s \in Seq(Nat), NEW t \in Seq(Nat)
  PROVE  /\ Len(s) \in Nat /\ Len(t) \in Nat /\ DOMAIN s = 1..Len(s) /\ DOMAIN t = 1..Len(t)
         /\ DOMAIN (s \o t) = 1..(Len(s) + Len(t))
         /\ \A k \in 1..Len(s) : (s \o t)[k] = s[k]
         /\ \A k \in 1..Len(t) : (s \o t)[Len(s) + k] = t[k]
<1> DEFINE u == s \o t
           m == Len(s)
           n == Len(t)
<1>1. /\ u \in Seq(Nat) /\ Len(u) = m + n
      /\ \A k \in 1..(m + n) : u[k] = IF k <= m THEN s[k] ELSE t[k - m]
  BY ConcatProperties
<1>2. m \in Nat /\ n \in Nat /\ DOMAIN s = 1..m /\ DOMAIN t = 1..n /\ DOMAIN u = 1..(m + n)
  BY <1>1, LenProperties
<1> HIDE DEF u, m, n
<1>3. \A k \in 1..m : k \in 1..(m + n) /\ k <= m
  BY <1>2
<1>4. \A k \in 1..n : m + k \in 1..(m + n) /\ ~(m + k <= m) /\ (m + k) - m = k
  BY <1>2
<1>5. (\A k \in 1..m : u[k] = s[k]) /\ \A k \in 1..n : u[m + k] = t[k]
  BY <1>1, <1>3, <1>4
<1>6. QED BY <1>2, <1>5 DEF u, m, n

LEMMA BeginningOfConcat ==
  ASSUME NEW s \in Seq(Nat), NEW t \in Seq(Nat), NEW u, IsStartOf(s \o t, u)
  PROVE  IsStartOf(s, u)
<1> DEFINE v == s \o t
<1>1. Len(v) = Len(s) + Len(t)
  BY ConcatProperties
<1>2. Len(s) \in Nat /\ Len(t) \in Nat /\ \A k \in 1..Len(s) : v[k] = s[k]
  BY ConcatBehind
<1>3. Len(v) <= Len(u) /\ \A k \in 1..Len(v) : u[k] = v[k]
  BY DEF IsStartOf
<1>4. ASSUME Len(u) \in Nat PROVE IsStartOf(s, u)
  <2> HIDE DEF v
  <2> QED BY <1>1, <1>2, <1>3, <1>4 DEF IsStartOf
<1>5. QED BY <1>4

-----------------------------------------------------------------------------
\* A sequence with an element inserted.

LEMMA InsertedElements ==
  ASSUME NEW S, NEW s \in Seq(S), NEW x \in S, NEW n \in 0..Len(s)
  PROVE  LET t == SubSeq(s, 1, n) \o <<x>> \o SubSeq(s, n + 1, Len(s))
         IN /\ t \in Seq(S) /\ Len(t) = Len(s) + 1
            /\ \A k \in 1..(Len(s) + 1) : t[k] = IF k <= n THEN s[k] ELSE IF k = n + 1 THEN x ELSE s[k - 1]
<1>1. Len(s) \in Nat /\ n \in Nat /\ n <= Len(s)
  BY LenProperties
<1> DEFINE a == SubSeq(s, 1, n)
           b == <<x>>
           d == SubSeq(s, n + 1, Len(s))
           ab == a \o b
           t == ab \o d
<1>2. a \in Seq(S) /\ Len(a) = n /\ \A k \in 1..n : a[k] = s[k]
  <2>1. /\ a \in Seq(S) /\ Len(a) = n - 1 + 1
        /\ \A k \in 1..(n - 1 + 1) : a[k] = s[1 + k - 1]
    BY <1>1, PieceType
  <2>2. n - 1 + 1 = n /\ \A k \in 1..n : 1 + k - 1 = k
    BY <1>1
  <2> HIDE DEF a
  <2>3. QED BY <2>1, <2>2
<1>3. b \in Seq(S) /\ Len(b) = 1 /\ b[1] = x
  OBVIOUS
<1>4. d \in Seq(S) /\ Len(d) = Len(s) - n /\ \A k \in 1..(Len(s) - n) : d[k] = s[n + k]
  <2>1. /\ d \in Seq(S) /\ Len(d) = Len(s) - (n + 1) + 1
        /\ \A k \in 1..(Len(s) - (n + 1) + 1) : d[k] = s[(n + 1) + k - 1]
    <3>1. n + 1 \in Nat \ {0} /\ Len(s) \in 0..Len(s) /\ n + 1 <= Len(s) + 1
      BY <1>1
    <3>2. QED BY <3>1, PieceType
  <2>2. Len(s) - (n + 1) + 1 = Len(s) - n /\ \A k \in Nat : (n + 1) + k - 1 = n + k
    BY <1>1
  <2> HIDE DEF d
  <2>3. \A k \in 1..(Len(s) - n) : k \in Nat
    BY <1>1
  <2>4. QED BY <2>1, <2>2, <2>3
<1> HIDE DEF a, b, d
<1>5. /\ ab \in Seq(S) /\ Len(ab) = n + 1
      /\ \A k \in 1..(n + 1) : ab[k] = IF k <= n THEN s[k] ELSE x
  <2>1. /\ ab \in Seq(S) /\ Len(ab) = Len(a) + Len(b)
        /\ \A k \in 1..(Len(a) + Len(b)) : ab[k] = IF k <= Len(a) THEN a[k] ELSE b[k - Len(a)]
    BY <1>2, <1>3, ConcatProperties
  <2>2. \A k \in 1..(n + 1) : (k <= n => k \in 1..n) /\ (~(k <= n) => k - n = 1)
    BY <1>1
  <2> HIDE DEF ab
  <2>3. QED BY <1>2, <1>3, <2>1, <2>2
<1> HIDE DEF ab
<1>6. /\ t \in Seq(S) /\ Len(t) = (n + 1) + (Len(s) - n)
      /\ \A k \in 1..((n + 1) + (Len(s) - n)) : t[k] = IF k <= n + 1 THEN ab[k] ELSE d[k - (n + 1)]
  <2>1. /\ t \in Seq(S) /\ Len(t) = Len(ab) + Len(d)
        /\ \A k \in 1..(Len(ab) + Len(d)) : t[k] = IF k <= Len(ab) THEN ab[k] ELSE d[k - Len(ab)]
    BY <1>4, <1>5, ConcatProperties
  <2> HIDE DEF t
  <2>2. QED BY <1>4, <1>5, <2>1
<1> HIDE DEF t
<1>7. (n + 1) + (Len(s) - n) = Len(s) + 1
  BY <1>1
<1>8. ASSUME NEW k \in 1..(Len(s) + 1)
      PROVE  t[k] = IF k <= n THEN s[k] ELSE IF k = n + 1 THEN x ELSE s[k - 1]
  <2>1. CASE k <= n + 1
    <3>1. k \in 1..(n + 1) /\ (k <= n \/ k = n + 1) /\ ~(n + 1 <= n)
      BY <1>1, <2>1
    <3>2. QED BY <1>5, <1>6, <1>7, <2>1, <3>1
  <2>2. CASE ~(k <= n + 1)
    <3>1. k - (n + 1) \in 1..(Len(s) - n) /\ n + (k - (n + 1)) = k - 1 /\ ~(k <= n) /\ k # n + 1
      BY <1>1, <2>2
    <3>2. t[k] = d[k - (n + 1)] /\ d[k - (n + 1)] = s[n + (k - (n + 1))]
      BY <1>4, <1>6, <1>7, <2>2, <3>1
    <3>3. QED BY <3>1, <3>2
  <2>3. QED BY <2>1, <2>2
<1>9. QED BY <1>6, <1>7, <1>8 DEF t, ab, a, b, d

-----------------------------------------------------------------------------
\* Numbers: sums, counts, quotients, and sets of one.

AddsUp(s, f, m) == f = [n \in 0..m |-> IF n = 0 THEN 0 ELSE f[n - 1] + s[n]]

LEMMA AddsUpExists == ASSUME NEW s, NEW l \in Nat PROVE \E f : AddsUp(s, f, l)
<1> DEFINE Q == {m \in Nat : \E f : AddsUp(s, f, m)}
<1>1. 0 \in Q
  <2> DEFINE f == [n \in 0..0 |-> 0]
  <2>1. \A n \in 0..0 : n = 0
    OBVIOUS
  <2>2. AddsUp(s, f, 0)
    BY <2>1 DEF AddsUp
  <2>3. QED BY <2>2
<1>2. ASSUME NEW m \in Nat, m \in Q PROVE m + 1 \in Q
  <2>1. PICK f : AddsUp(s, f, m)
    BY <1>2
  <2> DEFINE last == f[m] + s[m + 1]
             g == [n \in 0..(m + 1) |-> IF n = m + 1 THEN last ELSE f[n]]
             step(n) == IF n = 0 THEN 0 ELSE g[n - 1] + s[n]
  <2>2. \A n \in 0..m : n \in 0..(m + 1) /\ n # m + 1 /\ g[n] = f[n]
    OBVIOUS
  <2>3. \A n \in 0..(m + 1) : n = m + 1 \/ (n \in 0..m /\ (n # 0 => n - 1 \in 0..m))
    OBVIOUS
  <2>4. \A n \in 0..m : f[n] = IF n = 0 THEN 0 ELSE f[n - 1] + s[n]
    BY <2>1 DEF AddsUp
  <2>5. g[m + 1] = last /\ m + 1 # 0 /\ (m + 1) - 1 = m /\ m \in 0..m /\ m + 1 \in 0..(m + 1)
    OBVIOUS
  <2> HIDE DEF g
  <2>6. \A n \in 0..(m + 1) : g[n] = step(n)
    BY <2>2, <2>3, <2>4, <2>5
  <2>7. g = [n \in 0..(m + 1) |-> g[n]]
    BY DEF g
  <2>8. g = [n \in 0..(m + 1) |-> step(n)]
    BY <2>6, <2>7
  <2>9. AddsUp(s, g, m + 1)
    BY <2>8 DEF AddsUp
  <2>10. QED BY <2>9
<1>3. l \in Q
  <2> HIDE DEF Q
  <2> QED BY <1>1, <1>2, InductionOnNat
<1>4. QED BY <1>3

\* What adding up a sequence of numbers comes to, number by number.
LEMMA SumFollows ==
  ASSUME NEW s \in Seq(Nat)
  PROVE  \E f : /\ SumOfSeq(s) = f[Len(s)] /\ f[0] = 0
                /\ \A n \in 1..Len(s) : f[n] = f[n - 1] + s[n]
                /\ \A n \in 0..Len(s) : f[n] \in Nat
<1> DEFINE l == Len(s)
           F == CHOOSE f : AddsUp(s, f, l)
<1>1. l \in Nat /\ \A n \in 1..l : s[n] \in Nat
  BY LenProperties, ElementOfSeq
<1>2. AddsUp(s, F, l)
  BY <1>1, AddsUpExists
<1>3. SumOfSeq(s) = F[l]
  BY DEF SumOfSeq, AddsUp, l
<1> HIDE DEF l, F
<1>4. F[0] = 0 /\ \A n \in 1..l : F[n] = F[n - 1] + s[n]
  <2>1. \A n \in 0..l : F[n] = IF n = 0 THEN 0 ELSE F[n - 1] + s[n]
    BY <1>2 DEF AddsUp
  <2>2. 0 \in 0..l /\ \A n \in 1..l : n \in 0..l /\ n # 0
    BY <1>1
  <2>3. QED BY <2>1, <2>2
<1> DEFINE Q == {n \in Nat : n <= l => F[n] \in Nat}
<1>5. 0 \in Q
  BY <1>4
<1>6. ASSUME NEW n \in Nat, n \in Q PROVE n + 1 \in Q
  <2>1. n + 1 <= l => n + 1 \in 1..l /\ (n + 1) - 1 = n /\ n <= l
    BY <1>1
  <2>2. QED BY <1>1, <1>4, <1>6, <2>1
<1>7. Nat \subseteq Q
  <2> HIDE DEF Q
  <2> QED BY <1>5, <1>6, InductionOnNat
<1>8. \A n \in 0..l : F[n] \in Nat
  BY <1>1, <1>7
<1>9. QED BY <1>3, <1>4, <1>8 DEF l

LEMMA SumOfAppend ==
  /\ SumOfSeq(<<>>) = 0
  /\ \A s \in Seq(Nat), x \in Nat : SumOfSeq(s) \in Nat /\ SumOfSeq(Append(s, x)) = SumOfSeq(s) + x
<1>1. SumOfSeq(<<>>) = 0
  <2>1. <<>> \in Seq(Nat) /\ Len(<<>>) = 0
    BY EmptySeq
  <2>2. QED BY <2>1, SumFollows
<1>2. ASSUME NEW s \in Seq(Nat), NEW x \in Nat PROVE SumOfSeq(s) \in Nat /\ SumOfSeq(Append(s, x)) = SumOfSeq(s) + x
  <2> DEFINE t == Append(s, x)
             l == Len(s)
  <2>1. /\ t \in Seq(Nat) /\ Len(t) = l + 1 /\ t[l + 1] = x /\ l \in Nat
        /\ \A n \in 1..l : t[n] = s[n]
    BY AppendProperties, LenProperties
  <2> HIDE DEF t
  <2>2. PICK f : /\ SumOfSeq(s) = f[l] /\ f[0] = 0
                 /\ \A n \in 1..l : f[n] = f[n - 1] + s[n]
                 /\ \A n \in 0..l : f[n] \in Nat
    BY SumFollows
  <2> HIDE DEF l
  <2>3. PICK g : /\ SumOfSeq(t) = g[l + 1] /\ g[0] = 0
                 /\ \A n \in 1..(l + 1) : g[n] = g[n - 1] + t[n]
    <3>1. \E g : /\ SumOfSeq(t) = g[Len(t)] /\ g[0] = 0
                 /\ \A n \in 1..Len(t) : g[n] = g[n - 1] + t[n]
      BY <2>1, SumFollows
    <3>2. QED BY <2>1, <3>1
  <2> DEFINE Q == {n \in Nat : n <= l => g[n] = f[n]}
  <2>4. 0 \in Q
    BY <2>2, <2>3
  <2>5. ASSUME NEW n \in Nat, n \in Q PROVE n + 1 \in Q
    <3> SUFFICES ASSUME n + 1 <= l PROVE g[n + 1] = f[n + 1]
      OBVIOUS
    <3>2. n + 1 \in 1..l /\ n + 1 \in 1..(l + 1) /\ (n + 1) - 1 = n /\ n <= l
      BY <2>1
    <3>3. g[n + 1] = g[n] + t[n + 1] /\ f[n + 1] = f[n] + s[n + 1] /\ t[n + 1] = s[n + 1] /\ g[n] = f[n]
      BY <2>1, <2>2, <2>3, <2>5, <3>2
    <3>4. QED BY <3>3
  <2>6. l \in Q
    <3> HIDE DEF Q
    <3> QED BY <2>1, <2>4, <2>5, InductionOnNat
  <2>7. g[l] = f[l] /\ f[l] \in Nat /\ l + 1 \in 1..(l + 1) /\ (l + 1) - 1 = l
    BY <2>1, <2>2, <2>6
  <2>8. g[l + 1] = g[l] + x
    BY <2>1, <2>3, <2>7
  <2>9. QED BY <2>2, <2>3, <2>7, <2>8 DEF t
<1>3. QED BY <1>1, <1>2

SumTo(e, k) == SumOfSeq(FirstPart(e, k))

LEMMA SumStep ==
  ASSUME NEW l \in Nat, NEW e, AllIn(e, l, Nat)
  PROVE  /\ SumTo(e, 0) = 0
         /\ \A k \in 0..l : SumTo(e, k) \in Nat
         /\ \A k \in Nat : k < l => e[k + 1] \in Nat /\ SumTo(e, k + 1) = SumTo(e, k) + e[k + 1]
<1>1. /\ FirstPart(e, 0) = <<>>
      /\ \A k \in 0..l : FirstPart(e, k) \in Seq(Nat)
      /\ \A k \in Nat : k < l => e[k + 1] \in Nat /\ FirstPart(e, k + 1) = Append(FirstPart(e, k), e[k + 1])
  BY OneMore DEF GrowsOneByOne
<1>2. \A k \in Nat : k < l => k \in 0..l
  OBVIOUS
<1>3. QED BY <1>1, <1>2, SumOfAppend DEF SumTo

\* Positions in a first part and, behind it, those in a second.
Behind(m, n, S, T, W) ==
  /\ S \subseteq 1..m /\ T \subseteq 1..n /\ W \subseteq 1..(m + n)
  /\ \A k \in 1..m : k \in W <=> k \in S
  /\ \A k \in 1..n : m + k \in W <=> k \in T

LEMMA CountedBehind ==
  ASSUME NEW m \in Nat, NEW n \in Nat, NEW S, NEW T, NEW W, Behind(m, n, S, T, W)
  PROVE  /\ Cardinality(W) = Cardinality(S) + Cardinality(T)
         /\ Cardinality(S) \in Nat /\ Cardinality(T) \in Nat
<1> USE DEF Behind
<1> DEFINE U == {m + k : k \in T}
           f == [k \in T |-> m + k]
<1>1. IsFiniteSet(S) /\ IsFiniteSet(T)
  <2>1. IsFiniteSet(1..m) /\ IsFiniteSet(1..n)
    BY FS_Interval
  <2>2. QED BY <2>1, FS_Subset
<1>2. ExistsBijection(T, U)
  <2>1. \A k \in T : k \in Nat
    OBVIOUS
  <2>2. f \in [T -> U] /\ (\A a, b \in T : f[a] = f[b] => a = b) /\ \A u \in U : \E k \in T : f[k] = u
    BY <2>1
  <2>3. f \in Bijection(T, U)
    <3> HIDE DEF f, U
    <3> QED BY <2>2 DEF Bijection, Injection, Surjection, IsInjective
  <2>4. QED BY <2>3 DEF ExistsBijection
<1>3. IsFiniteSet(U) /\ Cardinality(U) = Cardinality(T)
  BY <1>1, <1>2, FS_Bijection
<1>4. S \cap U = {}
  <2>1. \A k \in T : k \in Nat /\ k > 0 /\ ~(m + k <= m)
    OBVIOUS
  <2>2. \A s \in S : s <= m
    OBVIOUS
  <2>3. QED BY <2>1, <2>2
<1>5. Cardinality(S) \in Nat /\ Cardinality(T) \in Nat
  BY <1>1, FS_CardinalityType
<1> HIDE DEF U
<1>6. Cardinality(S \cup U) = Cardinality(S) + Cardinality(U)
  <2>1. Cardinality(S \cup U) = Cardinality(S) + Cardinality(U) - Cardinality({})
    BY <1>1, <1>3, <1>4, FS_Union
  <2>2. QED BY <1>3, <1>5, <2>1, FS_EmptySet
<1>7. W = S \cup U
  <2>1. \A k \in 1..(m + n) : k \in 1..m \/ (k - m \in 1..n /\ m + (k - m) = k)
    OBVIOUS
  <2>2. ASSUME NEW k \in W PROVE k \in S \cup U
    <3>1. k \in 1..(m + n)
      OBVIOUS
    <3>2. CASE k \in 1..m
      BY <3>2
    <3>3. CASE k - m \in 1..n /\ m + (k - m) = k
      <4>1. k - m \in T
        BY <3>3
      <4>2. QED BY <3>3, <4>1 DEF U
    <3>4. QED BY <2>1, <3>1, <3>2, <3>3
  <2>3. S \subseteq W /\ U \subseteq W
    BY DEF U
  <2>4. QED BY <2>2, <2>3
<1>8. QED BY <1>3, <1>5, <1>6, <1>7

CountIn(bytes, S) == Cardinality({k \in DOMAIN bytes : bytes[k] \in S})

\* What is counted byte by byte is counted part by part.
LEMMA CountOfConcat ==
  ASSUME NEW s \in Seq(Nat), NEW t \in Seq(Nat), NEW B
  PROVE  /\ CountIn(s \o t, B) = CountIn(s, B) + CountIn(t, B)
         /\ CountIn(s, B) \in Nat /\ CountIn(t, B) \in Nat
<1> DEFINE u == s \o t
           m == Len(s)
           n == Len(t)
           S == {k \in 1..m : s[k] \in B}
           T == {k \in 1..n : t[k] \in B}
           U == {k \in 1..(m + n) : u[k] \in B}
<1>1. /\ m \in Nat /\ n \in Nat /\ DOMAIN s = 1..m /\ DOMAIN t = 1..n /\ DOMAIN u = 1..(m + n)
      /\ (\A k \in 1..m : u[k] = s[k]) /\ \A k \in 1..n : u[m + k] = t[k]
  BY ConcatBehind
<1>2. CountIn(s, B) = Cardinality(S) /\ CountIn(t, B) = Cardinality(T) /\ CountIn(u, B) = Cardinality(U)
  BY <1>1 DEF CountIn
<1> HIDE DEF u, m, n
<1>3. S \subseteq 1..m /\ T \subseteq 1..n
  OBVIOUS
<1>4. /\ U \subseteq 1..(m + n) /\ (\A k \in 1..m : k \in U <=> k \in S)
      /\ \A k \in 1..n : m + k \in U <=> k \in T
  <2>1. (\A k \in 1..m : k \in 1..(m + n)) /\ \A k \in 1..n : m + k \in 1..(m + n)
    BY <1>1
  <2>2. QED BY <1>1, <2>1
<1> HIDE DEF S, T, U
<1>5. Cardinality(U) = Cardinality(S) + Cardinality(T) /\ Cardinality(S) \in Nat /\ Cardinality(T) \in Nat
  <2>1. Behind(m, n, S, T, U)
    BY <1>3, <1>4 DEF Behind
  <2>2. m \in Nat /\ n \in Nat
    BY <1>1
  <2>3. QED BY <2>1, <2>2, CountedBehind
<1>6. QED BY <1>2, <1>5 DEF u

RunsIn(bytes, B) == Cardinality({k \in DOMAIN bytes : bytes[k] \notin B /\ (k > 1 => bytes[k - 1] \in B)})

\* So are the runs between separators, if one separates the two parts.
LEMMA RunsOfConcat ==
  ASSUME NEW s \in Seq(Nat), NEW t \in Seq(Nat), NEW B,
         Len(s) = 0 \/ s[Len(s)] \in B \/ t[1] \in B
  PROVE  /\ RunsIn(s \o t, B) = RunsIn(s, B) + RunsIn(t, B)
         /\ RunsIn(s, B) \in Nat /\ RunsIn(t, B) \in Nat
<1> DEFINE u == s \o t
           m == Len(s)
           n == Len(t)
           S == {k \in 1..m : s[k] \notin B /\ (k > 1 => s[k - 1] \in B)}
           T == {k \in 1..n : t[k] \notin B /\ (k > 1 => t[k - 1] \in B)}
           U == {k \in 1..(m + n) : u[k] \notin B /\ (k > 1 => u[k - 1] \in B)}
<1>1. /\ m \in Nat /\ n \in Nat /\ DOMAIN s = 1..m /\ DOMAIN t = 1..n /\ DOMAIN u = 1..(m + n)
      /\ (\A k \in 1..m : u[k] = s[k]) /\ \A k \in 1..n : u[m + k] = t[k]
  BY ConcatBehind
<1>2. RunsIn(s, B) = Cardinality(S) /\ RunsIn(t, B) = Cardinality(T) /\ RunsIn(u, B) = Cardinality(U)
  BY <1>1 DEF RunsIn
<1> HIDE DEF u, m, n
<1>3. S \subseteq 1..m /\ T \subseteq 1..n
  OBVIOUS
<1>4. /\ U \subseteq 1..(m + n) /\ (\A k \in 1..m : k \in U <=> k \in S)
      /\ \A k \in 1..n : m + k \in U <=> k \in T
  <2>1. m \in Nat /\ n \in Nat
    BY <1>1
  <2>2. ASSUME NEW k \in 1..m PROVE k \in U <=> k \in S
    <3>1. k \in 1..(m + n) /\ (k > 1 => k - 1 \in 1..m)
      BY <2>1
    <3>2. u[k] = s[k] /\ (k > 1 => u[k - 1] = s[k - 1])
      BY <1>1, <3>1
    <3>3. QED BY <3>1, <3>2
  <2>3. ASSUME NEW k \in 1..n PROVE m + k \in U <=> k \in T
    <3>1. m + k \in 1..(m + n) /\ u[m + k] = t[k] /\ k \in Nat
      BY <1>1
    <3>2. CASE k > 1
      <4>1. m + k > 1 /\ (m + k) - 1 = m + (k - 1) /\ k - 1 \in 1..n
        BY <2>1, <3>2
      <4>2. u[(m + k) - 1] = t[k - 1]
        BY <1>1, <4>1
      <4>3. QED BY <3>1, <3>2, <4>1, <4>2
    <3>3. CASE k = 1
      <4>1. m = 0 => ~(m + k > 1)
        BY <3>3
      <4>2. m # 0 => m + k > 1 /\ (m + k) - 1 = m /\ m \in 1..m
        BY <1>1, <3>3
      <4>3. m # 0 => u[(m + k) - 1] = s[m]
        BY <1>1, <4>2
      <4>4. m = 0 \/ s[m] \in B \/ t[k] \in B
        BY <3>3 DEF m
      <4>5. ~(k > 1)
        BY <3>3
      <4>6. QED BY <3>1, <4>1, <4>2, <4>3, <4>4, <4>5
    <3>4. QED BY <3>2, <3>3
  <2>4. QED BY <2>2, <2>3
<1> HIDE DEF S, T, U
<1>5. Cardinality(U) = Cardinality(S) + Cardinality(T) /\ Cardinality(S) \in Nat /\ Cardinality(T) \in Nat
  <2>1. Behind(m, n, S, T, U)
    BY <1>3, <1>4 DEF Behind
  <2>2. m \in Nat /\ n \in Nat
    BY <1>1
  <2>3. QED BY <2>1, <2>2, CountedBehind
<1>6. QED BY <1>2, <1>5 DEF u

LEMMA Division ==
  ASSUME NEW w \in Nat \ {0}, NEW a \in Nat
  PROVE  /\ a \div w \in Nat
         /\ (a \div w) * w <= a
         /\ a < ((a \div w) + 1) * w
<1> DEFINE q == a \div w
<1>1. q \in Int /\ a = w * q + (a % w) /\ 0 <= a % w /\ a % w < w
  OBVIOUS
<1>2. q \in Nat
  OBVIOUS
<1>3. q * w <= a
  OBVIOUS
<1>4. a < (q + 1) * w
  OBVIOUS
<1>5. QED BY <1>2, <1>3, <1>4

LEMMA RowsOf ==
  ASSUME NEW w \in Nat \ {0}, NEW l \in Nat, NEW r \in Nat,
         r * w <= l + w - 1, l + w - 1 < (r + 1) * w
  PROVE  /\ l <= r * w /\ \A n \in 1..r : (n - 1) * w < l
<1>1. (r + 1) * w = r * w + w
  OBVIOUS
<1>2. r * w \in Nat
  OBVIOUS
<1>3. l <= r * w
  BY <1>1, <1>2
<1>4. ASSUME NEW n \in 1..r PROVE (n - 1) * w < l
  <2>1. (n - 1) * w = n * w - w /\ n * w \in Nat
    OBVIOUS
  <2>2. n * w <= r * w
    OBVIOUS
  <2>3. QED BY <1>2, <2>1, <2>2
<1>5. QED BY <1>3, <1>4

LEMMA RowEnds ==
  ASSUME NEW w \in Nat \ {0}, NEW k \in Nat
  PROVE  /\ k * w \in Nat /\ (k + 1) * w = k * w + w /\ 0 * w = 0 /\ ((k + 1) - 1) * w = k * w
OBVIOUS

LEMMA GreatestOfOne == \A n \in Nat : Max({n}) = n
<1> SUFFICES ASSUME NEW n \in Nat PROVE Max({n}) = n
  OBVIOUS
<1>1. \E x \in {n} : \A y \in {n} : x >= y
  OBVIOUS
<1>2. Max({n}) \in {n}
  BY <1>1 DEF Max
<1>3. QED BY <1>2

LEMMA LeastOfOne == \A n \in Nat : Min({n}) = n
<1> SUFFICES ASSUME NEW n \in Nat PROVE Min({n}) = n
  OBVIOUS
<1>1. \E x \in {n} : \A y \in {n} : x <= y
  OBVIOUS
<1>2. Min({n}) \in {n}
  BY <1>1 DEF Min
<1>3. QED BY <1>2

-----------------------------------------------------------------------------
(* What is said last of a key: entries have none of the key, or end, as far *)
(* as the key goes, with a value.                                           *)

None(es, key) == \A n \in DOMAIN es : es[n].key # key
EndsWith(es, key, v) ==
  \E n \in DOMAIN es : es[n].key = key /\ es[n].value = v /\ \A m \in DOMAIN es : m > n => es[m].key # key
Agree(es, fs, key) ==
  \/ None(es, key) /\ None(fs, key)
  \/ \E v : EndsWith(es, key, v) /\ EndsWith(fs, key, v)

LEMMA NoneOfNothing == \A key : None(<<>>, key)
<1>1. DOMAIN <<>> = {}
  BY EmptySeq
<1>2. QED BY <1>1 DEF None

LEMMA NoneOfOne == \A e, key : e.key # key => None(<<e>>, key)
BY DEF None

LEMMA EndsOfOne == \A e, key : e.key = key => EndsWith(<<e>>, key, e.value)
<1> SUFFICES ASSUME NEW e, NEW key, e.key = key PROVE EndsWith(<<e>>, key, e.value)
  OBVIOUS
<1>1. DOMAIN <<e>> = {1} /\ <<e>>[1] = e
  OBVIOUS
<1>2. QED BY <1>1 DEF EndsWith

LEMMA NoneOfConcat ==
  ASSUME NEW S, NEW es \in Seq(S), NEW fs \in Seq(S), NEW key, None(es, key), None(fs, key)
  PROVE  None(es \o fs, key)
<1>1. /\ es \o fs \in Seq(S) /\ Len(es \o fs) = Len(es) + Len(fs)
      /\ \A n \in 1..(Len(es) + Len(fs)) : (es \o fs)[n] = IF n <= Len(es) THEN es[n] ELSE fs[n - Len(es)]
  BY ConcatProperties
<1>2. /\ Len(es) \in Nat /\ Len(fs) \in Nat /\ DOMAIN es = 1..Len(es) /\ DOMAIN fs = 1..Len(fs)
      /\ DOMAIN (es \o fs) = 1..(Len(es) + Len(fs))
  BY <1>1, LenProperties
<1>3. \A n \in 1..(Len(es) + Len(fs)) : IF n <= Len(es) THEN n \in 1..Len(es) ELSE n - Len(es) \in 1..Len(fs)
  BY <1>2
<1>4. QED BY <1>1, <1>2, <1>3 DEF None

LEMMA EndsOfConcat ==
  ASSUME NEW S, NEW es \in Seq(S), NEW fs \in Seq(S), NEW key, NEW v,
         EndsWith(fs, key, v) \/ (EndsWith(es, key, v) /\ None(fs, key))
  PROVE  EndsWith(es \o fs, key, v)
<1> DEFINE u == es \o fs
<1>1. /\ u \in Seq(S) /\ Len(u) = Len(es) + Len(fs)
      /\ \A n \in 1..(Len(es) + Len(fs)) : u[n] = IF n <= Len(es) THEN es[n] ELSE fs[n - Len(es)]
  BY ConcatProperties
<1>2. /\ Len(es) \in Nat /\ Len(fs) \in Nat /\ DOMAIN es = 1..Len(es) /\ DOMAIN fs = 1..Len(fs)
      /\ DOMAIN u = 1..(Len(es) + Len(fs))
  BY <1>1, LenProperties
<1> HIDE DEF u
<1>3. CASE EndsWith(fs, key, v)
  <2>1. PICK n \in 1..Len(fs) : fs[n].key = key /\ fs[n].value = v /\ \A m \in 1..Len(fs) : m > n => fs[m].key # key
    BY <1>2, <1>3 DEF EndsWith
  <2>2. n + Len(es) \in DOMAIN u /\ u[n + Len(es)] = fs[n]
    <3>1. n + Len(es) \in 1..(Len(es) + Len(fs)) /\ ~(n + Len(es) <= Len(es)) /\ (n + Len(es)) - Len(es) = n
      BY <1>2
    <3>2. QED BY <1>1, <1>2, <3>1
  <2>3. ASSUME NEW m \in DOMAIN u, m > n + Len(es) PROVE u[m].key # key
    <3>1. m \in 1..(Len(es) + Len(fs)) /\ ~(m <= Len(es)) /\ m - Len(es) \in 1..Len(fs) /\ m - Len(es) > n
      BY <1>2, <2>3
    <3>2. QED BY <1>1, <2>1, <3>1
  <2>4. QED BY <2>1, <2>2, <2>3 DEF EndsWith, u
<1>4. CASE EndsWith(es, key, v) /\ None(fs, key)
  <2>1. PICK n \in 1..Len(es) : es[n].key = key /\ es[n].value = v /\ \A m \in 1..Len(es) : m > n => es[m].key # key
    BY <1>2, <1>4 DEF EndsWith
  <2>2. n \in DOMAIN u /\ u[n] = es[n]
    BY <1>1, <1>2
  <2>3. ASSUME NEW m \in DOMAIN u, m > n PROVE u[m].key # key
    <3>1. CASE m <= Len(es)
      BY <1>1, <1>2, <2>1, <2>3, <3>1
    <3>2. CASE ~(m <= Len(es))
      <4>1. m - Len(es) \in 1..Len(fs) /\ u[m] = fs[m - Len(es)]
        BY <1>1, <1>2, <3>2
      <4>2. QED BY <1>2, <1>4, <4>1 DEF None
    <3>3. QED BY <3>1, <3>2
  <2>4. QED BY <2>1, <2>2, <2>3 DEF EndsWith, u
<1>5. QED BY <1>3, <1>4

\* What sequences laid end to end end with, as far as a key goes, is what the
\* last one says that says anything.
NoneIn(ss, key) == \A n \in 1..Len(ss) : None(ss[n], key)
LastEnds(ss, key, v) ==
  \E n \in 1..Len(ss) : EndsWith(ss[n], key, v) /\ \A m \in 1..Len(ss) : m > n => None(ss[m], key)
FlatSays(ss, key) ==
  /\ NoneIn(ss, key) => None(Flat(ss), key)
  /\ \A v : LastEnds(ss, key, v) => EndsWith(Flat(ss), key, v)

LEMMA FlatEnds ==
  ASSUME NEW S, NEW ss \in Seq(Seq(S)), NEW key
  PROVE  FlatSays(ss, key)
<1> DEFINE Q == {t \in Seq(Seq(S)) : FlatSays(t, key)}
<1>1. <<>> \in Q
  <2>1. <<>> \in Seq(S) /\ <<>> \in Seq(Seq(S)) /\ Len(<<>>) = 0
    BY EmptySeq
  <2>2. Flat(<<>>) = <<>>
    BY <2>1, FlatOfAppend
  <2>3. \A v : ~LastEnds(<<>>, key, v)
    BY <2>1 DEF LastEnds
  <2>4. QED BY <2>1, <2>2, <2>3, NoneOfNothing DEF FlatSays
<1>2. ASSUME NEW t \in Seq(Seq(S)), NEW d \in Seq(S), t \in Q PROVE Append(t, d) \in Q
  <2> DEFINE u == Append(t, d)
  <2>1. /\ u \in Seq(Seq(S)) /\ Len(u) = Len(t) + 1 /\ u[Len(t) + 1] = d /\ Len(t) \in Nat
        /\ \A n \in 1..Len(t) : u[n] = t[n]
    BY AppendProperties, LenProperties
  <2>2. Flat(u) = Flat(t) \o d
    BY FlatOfAppend
  <2>3. Flat(t) \in Seq(S)
    BY FlatType
  <2>4. FlatSays(t, key)
    BY <1>2
  <2>5. \A n : n \in 1..Len(u) <=> n \in 1..Len(t) \/ n = Len(t) + 1
    BY <2>1
  <2> HIDE DEF u
  <2>6. ASSUME NoneIn(u, key) PROVE None(Flat(u), key)
    <3>1. NoneIn(t, key) /\ None(d, key)
      BY <2>1, <2>5, <2>6 DEF NoneIn
    <3>2. QED BY <2>2, <2>3, <2>4, <3>1, NoneOfConcat DEF FlatSays
  <2>7. ASSUME NEW v, LastEnds(u, key, v) PROVE EndsWith(Flat(u), key, v)
    <3>1. PICK n \in 1..Len(u) : EndsWith(u[n], key, v) /\ \A m \in 1..Len(u) : m > n => None(u[m], key)
      BY <2>7 DEF LastEnds
    <3>2. CASE n = Len(t) + 1
      <4>1. EndsWith(d, key, v)
        BY <2>1, <3>1, <3>2
      <4>2. QED BY <2>2, <2>3, <4>1, EndsOfConcat
    <3>3. CASE n # Len(t) + 1
      <4>1. n \in 1..Len(t) /\ Len(t) + 1 \in 1..Len(u) /\ Len(t) + 1 > n
        BY <2>1, <2>5, <3>3
      <4>2. None(d, key)
        BY <2>1, <3>1, <4>1
      <4>3. \A m \in 1..Len(t) : m > n => None(t[m], key)
        BY <2>1, <2>5, <3>1
      <4>4. EndsWith(t[n], key, v)
        BY <2>1, <3>1, <4>1
      <4>5. LastEnds(t, key, v)
        BY <4>1, <4>3, <4>4 DEF LastEnds
      <4>6. EndsWith(Flat(t), key, v)
        BY <2>4, <4>5 DEF FlatSays
      <4>7. QED BY <2>2, <2>3, <4>2, <4>6, EndsOfConcat
    <3>4. QED BY <3>2, <3>3
  <2>8. QED BY <2>1, <2>6, <2>7 DEF FlatSays, u
<1>3. Seq(Seq(S)) \subseteq Q
  <2> HIDE DEF Q
  <2> QED BY <1>1, <1>2, InductionOnSeq
<1>4. QED BY <1>3

-----------------------------------------------------------------------------
(* Pieces kept together that are read in one piece: a block of the pieces  *)
(* read says the last of a key what one of the pieces kept says.            *)

BlockAgrees(es, fs, block, key) ==
  \/ None(es, key) /\ \A n \in block : None(fs[n], key)
  \/ \E v, n : /\ n \in block /\ EndsWith(es, key, v) /\ EndsWith(fs[n], key, v)
               /\ \A m \in block : m > n => None(fs[m], key)

LEMMA EndsIsNotNone == \A es, key, v : EndsWith(es, key, v) => ~None(es, key)
BY DEF EndsWith, None

LEMMA AgreeOnNone == \A es, fs, key : Agree(es, fs, key) /\ None(es, key) => None(fs, key)
BY EndsIsNotNone DEF Agree

LEMMA AgreeOnSome ==
  \A es, fs, key : Agree(es, fs, key) /\ ~None(es, key) => \E v : EndsWith(es, key, v) /\ EndsWith(fs, key, v)
BY DEF Agree

LEMMA BlockOfPieces ==
  ASSUME NEW S, NEW T, NEW es \in Seq(Seq(S)), NEW fs \in Seq(Seq(T)), Len(es) = Len(fs), NEW key,
         NEW block \in SUBSET (1..Len(es)),
         \A n \in block : Agree(es[n], fs[n], key),
         \A n \in 1..Len(es) : n \notin block => None(es[n], key)
  PROVE  BlockAgrees(Flat(es), fs, block, key)
<1> DEFINE said == {n \in block : ~None(es[n], key)}
<1>0. FlatSays(es, key) /\ Len(es) \in Nat
  BY FlatEnds, LenProperties
<1>1. \A n \in block : n \notin said => None(fs[n], key)
  BY AgreeOnNone
<1>2. \A n \in 1..Len(es) : n \notin said => None(es[n], key)
  OBVIOUS
<1>3. CASE said = {}
  <2>1. NoneIn(es, key)
    BY <1>2, <1>3 DEF NoneIn
  <2>2. None(Flat(es), key)
    BY <1>0, <2>1 DEF FlatSays
  <2>3. QED BY <1>1, <1>3, <2>2 DEF BlockAgrees
<1>4. CASE said # {}
  <2>1. \A n \in said : n \in Nat /\ n <= Len(es)
    BY <1>0
  <2>2. PICK n \in said : \A m \in said : m <= n
    <3> HIDE DEF said
    <3> QED BY <1>0, <1>4, <2>1, LargestOfNat
  <2>3. n \in block /\ n \in 1..Len(es)
    OBVIOUS
  <2>4. PICK v : EndsWith(es[n], key, v) /\ EndsWith(fs[n], key, v)
    BY <2>3, AgreeOnSome
  <2>5. \A m \in 1..Len(es) : m > n => m \notin said
    BY <2>1, <2>2
  <2> HIDE DEF said
  <2>6. LastEnds(es, key, v)
    BY <1>2, <2>3, <2>4, <2>5 DEF LastEnds
  <2>7. EndsWith(Flat(es), key, v)
    BY <1>0, <2>6 DEF FlatSays
  <2>8. \A m \in block : m > n => None(fs[m], key)
    BY <1>1, <2>5
  <2>9. QED BY <2>3, <2>4, <2>7, <2>8 DEF BlockAgrees
<1>5. QED BY <1>3, <1>4

LEMMA AllAgree ==
  ASSUME NEW S, NEW T, NEW es \in Seq(Seq(S)), NEW fs \in Seq(Seq(T)), Len(es) = Len(fs), NEW key,
         \A n \in 1..Len(es) : Agree(es[n], fs[n], key)
  PROVE  Agree(Flat(es), Flat(fs), key)
<1> DEFINE all == 1..Len(es)
<1>1. BlockAgrees(Flat(es), fs, all, key)
  <2>1. all \in SUBSET (1..Len(es))
    OBVIOUS
  <2>2. \A n \in 1..Len(es) : n \notin all => None(es[n], key)
    OBVIOUS
  <2>3. \A n \in all : Agree(es[n], fs[n], key)
    OBVIOUS
  <2> HIDE DEF all
  <2>4. QED BY <2>1, <2>2, <2>3, BlockOfPieces
<1>2. FlatSays(fs, key)
  BY FlatEnds
<1>3. CASE None(Flat(es), key) /\ \A n \in all : None(fs[n], key)
  <2>1. NoneIn(fs, key)
    BY <1>3 DEF NoneIn
  <2>2. QED BY <1>2, <1>3, <2>1 DEF FlatSays, Agree
<1>4. CASE \E v, n : /\ n \in all /\ EndsWith(Flat(es), key, v) /\ EndsWith(fs[n], key, v)
                     /\ \A m \in all : m > n => None(fs[m], key)
  <2>1. PICK v, n : /\ n \in all /\ EndsWith(Flat(es), key, v) /\ EndsWith(fs[n], key, v)
                    /\ \A m \in all : m > n => None(fs[m], key)
    BY <1>4
  <2>2. LastEnds(fs, key, v)
    BY <2>1 DEF LastEnds
  <2>3. QED BY <1>2, <2>1, <2>2 DEF FlatSays, Agree
<1> HIDE DEF all
<1>5. QED BY <1>1, <1>3, <1>4 DEF BlockAgrees

\* Where each piece belongs to: to an earlier one, block behind block.
Blocks(first, l) ==
  /\ first \in [1..l -> 1..l]
  /\ \A n \in 1..l : first[n] <= n /\ first[first[n]] = first[n]
  /\ \A m, n \in 1..l : m < n => first[m] <= first[n]
BlockAt(first, l, n) == {m \in 1..l : first[m] = n}

LEMMA BlocksAgree ==
  ASSUME NEW S, NEW T, NEW es \in Seq(Seq(S)), NEW fs \in Seq(Seq(T)), NEW l, Len(es) = l, Len(fs) = l, NEW key,
         NEW first, Blocks(first, l),
         \A n \in 1..l : first[n] # n => None(es[n], key),
         \A n \in 1..l : first[n] = n => BlockAgrees(es[n], fs, BlockAt(first, l, n), key)
  PROVE  Agree(Flat(es), Flat(fs), key)
<1> DEFINE said == {n \in 1..l : ~None(es[n], key)}
<1>0. FlatSays(es, key) /\ FlatSays(fs, key) /\ l \in Nat
  BY FlatEnds, LenProperties
<1>1. /\ \A n \in 1..l : first[n] \in 1..l /\ first[n] <= n /\ first[first[n]] = first[n]
      /\ \A m, n \in 1..l : m < n => first[m] <= first[n]
  BY DEF Blocks
<1>2. ASSUME NEW n \in 1..l, first[n] \notin said PROVE None(fs[n], key)
  <2>1. first[n] \in 1..l /\ n \in BlockAt(first, l, first[n]) /\ None(es[first[n]], key)
    BY <1>1, <1>2 DEF BlockAt
  <2>2. BlockAgrees(es[first[n]], fs, BlockAt(first, l, first[n]), key)
    BY <1>1, <2>1
  <2>3. QED BY <2>1, <2>2, EndsIsNotNone DEF BlockAgrees
<1>3. CASE said = {}
  <2>1. NoneIn(es, key)
    BY <1>3 DEF NoneIn
  <2>2. NoneIn(fs, key)
    BY <1>2, <1>3 DEF NoneIn
  <2>3. QED BY <1>0, <2>1, <2>2 DEF FlatSays, Agree
<1>4. CASE said # {}
  <2>1. \A n \in said : n \in Nat /\ n <= l
    BY <1>0
  <2>2. PICK n \in said : \A m \in said : m <= n
    <3> HIDE DEF said
    <3> QED BY <1>0, <1>4, <2>1, LargestOfNat
  <2>3. n \in 1..l /\ ~None(es[n], key) /\ first[n] = n
    OBVIOUS
  <2>4. \A m \in 1..l : m > n => m \notin said
    BY <2>1, <2>2
  <2>5. \A m \in 1..l : m \notin said => None(es[m], key)
    OBVIOUS
  <2> HIDE DEF said
  <2>6. PICK v, k : /\ k \in BlockAt(first, l, n) /\ EndsWith(es[n], key, v) /\ EndsWith(fs[k], key, v)
                    /\ \A m \in BlockAt(first, l, n) : m > k => None(fs[m], key)
    BY <2>3 DEF BlockAgrees
  <2>7. k \in 1..l /\ first[k] = n
    BY <2>6 DEF BlockAt
  <2>8. ASSUME NEW m \in 1..l, m > k PROVE None(fs[m], key)
    <3>1. first[m] \in 1..l /\ n <= first[m]
      BY <1>1, <2>7, <2>8
    <3>2. CASE first[m] = n
      <4>1. m \in BlockAt(first, l, n)
        BY <3>2 DEF BlockAt
      <4>2. QED BY <2>6, <2>8, <4>1
    <3>3. CASE first[m] # n
      <4>1. first[m] > n
        BY <2>3, <3>1, <3>3
      <4>2. QED BY <1>2, <2>4, <3>1, <4>1
    <3>4. QED BY <3>2, <3>3
  <2>9. LastEnds(fs, key, v)
    BY <2>6, <2>7, <2>8 DEF LastEnds
  <2>10. LastEnds(es, key, v)
    BY <2>3, <2>4, <2>5, <2>6 DEF LastEnds
  <2>11. QED BY <1>0, <2>9, <2>10 DEF FlatSays, Agree
<1>5. QED BY <1>3, <1>4

-----------------------------------------------------------------------------
\* A pattern that is somewhere in a sequence, at its beginning or at its end.

Beginnings(s) == {SubSeq(s, 1, n) : n \in 0..Len(s)}
EndingIs(s, names) == \E n \in 1..(Len(s) + 1) : SubSeq(s, n, Len(s)) = names
FoundAt(s, names, at) == \A k \in 1..Len(names) : names[k] = s[at + k]

PlacedIn(s, names, before, after) ==
  \E at \in 0..(Len(s) - Len(names)) : (before \/ at = 0) /\ (after \/ at + Len(names) = Len(s)) /\ FoundAt(s, names, at)
EndsABeginning(s, names, before, after) ==
  \E d \in (IF after THEN Beginnings(s) ELSE {s}) : IF before THEN EndingIs(d, names) ELSE d = names

LEMMA SameElements ==
  ASSUME NEW S, NEW T, NEW s \in Seq(S), NEW u \in Seq(T), Len(s) = Len(u), \A k \in 1..Len(s) : s[k] = u[k]
  PROVE  s = u
OBVIOUS

LEMMA BeginningType ==
  ASSUME NEW S, NEW s \in Seq(S)
  PROVE  /\ \A d \in Beginnings(s) : d \in Seq(S) /\ Len(d) \in 0..Len(s) /\ \A k \in 1..Len(d) : d[k] = s[k]
         /\ \A n \in 0..Len(s) : SubSeq(s, 1, n) \in Beginnings(s) /\ Len(SubSeq(s, 1, n)) = n
<1>1. 1 \in Nat \ {0} /\ Len(s) \in Nat
  BY LenProperties
<1>2. ASSUME NEW n \in 0..Len(s)
      PROVE  LET d == SubSeq(s, 1, n)
             IN d \in Seq(S) /\ Len(d) = n /\ \A k \in 1..n : d[k] = s[k]
  <2>1. 1 <= n + 1 /\ n - 1 + 1 = n /\ n \in Nat
    BY <1>1
  <2>2. /\ SubSeq(s, 1, n) \in Seq(S) /\ Len(SubSeq(s, 1, n)) = n - 1 + 1
        /\ \A k \in 1..(n - 1 + 1) : SubSeq(s, 1, n)[k] = s[1 + k - 1]
    BY <1>1, <2>1, PieceType
  <2>3. \A k \in 1..n : 1 + k - 1 = k
    BY <2>1
  <2>4. QED BY <2>1, <2>2, <2>3
<1>3. QED BY <1>2 DEF Beginnings

LEMMA EndingPlace ==
  ASSUME NEW S, NEW s \in Seq(S), NEW names \in Seq(S)
  PROVE  EndingIs(s, names) <=> Len(names) <= Len(s) /\ FoundAt(s, names, Len(s) - Len(names))
<1> DEFINE l == Len(s)
           m == Len(names)
<1>1. l \in Nat /\ m \in Nat
  BY LenProperties
<1>2. ASSUME NEW n \in 1..(l + 1)
      PROVE  LET d == SubSeq(s, n, l)
             IN d \in Seq(S) /\ Len(d) = l - n + 1 /\ \A k \in 1..(l - n + 1) : d[k] = s[n + k - 1]
  BY <1>1, PieceType
<1>3. ASSUME EndingIs(s, names) PROVE m <= l /\ FoundAt(s, names, l - m)
  <2>1. PICK n \in 1..(l + 1) : SubSeq(s, n, l) = names
    BY <1>3 DEF EndingIs
  <2>2. m = l - n + 1 /\ \A k \in 1..(l - n + 1) : names[k] = s[n + k - 1]
    BY <1>2, <2>1
  <2>3. m <= l /\ \A k \in 1..m : n + k - 1 = (l - m) + k
    BY <1>1, <2>2
  <2> HIDE DEF l, m
  <2>4. QED BY <2>2, <2>3 DEF FoundAt, m
<1>4. ASSUME m <= l, FoundAt(s, names, l - m) PROVE EndingIs(s, names)
  <2> DEFINE n == l - m + 1
  <2>1. n \in 1..(l + 1) /\ l - n + 1 = m /\ \A k \in 1..m : n + k - 1 = (l - m) + k
    BY <1>1, <1>4
  <2>2. \A k \in 1..m : names[k] = s[(l - m) + k]
    BY <1>4 DEF FoundAt
  <2> HIDE DEF l, m, n
  <2>3. SubSeq(s, n, l) \in Seq(S) /\ Len(SubSeq(s, n, l)) = m /\ \A k \in 1..m : SubSeq(s, n, l)[k] = names[k]
    BY <1>2, <2>1, <2>2
  <2>4. SubSeq(s, n, l) = names
    BY <2>3, SameElements DEF m
  <2>5. QED BY <2>1, <2>4 DEF EndingIs, l
<1>5. QED BY <1>3, <1>4

\* A pattern with anything before it, or anything after it, is found where one
\* of the beginnings ends with it, or is it.
LEMMA PatternIsFound ==
  ASSUME NEW S, NEW s \in Seq(S), NEW names \in Seq(S), NEW before \in BOOLEAN, NEW after \in BOOLEAN
  PROVE  PlacedIn(s, names, before, after) <=> EndsABeginning(s, names, before, after)
<1> DEFINE l == Len(s)
           m == Len(names)
           dirs == IF after THEN Beginnings(s) ELSE {s}
<1>1. l \in Nat /\ m \in Nat
  BY LenProperties
<1>2. ASSUME NEW d \in dirs
      PROVE  d \in Seq(S) /\ Len(d) \in 0..l /\ (after \/ Len(d) = l) /\ \A k \in 1..Len(d) : d[k] = s[k]
  <2>1. CASE after
    BY <2>1, <1>2, BeginningType
  <2>2. CASE ~after
    <3>1. d = s
      BY <2>2, <1>2
    <3>2. QED BY <3>1, <1>1
  <2>3. QED BY <2>1, <2>2
<1>3. ASSUME NEW n \in 0..l, after \/ n = l PROVE \E d \in dirs : Len(d) = n
  BY <1>1, <1>3, BeginningType
<1> HIDE DEF dirs
<1>4. ASSUME NEW at \in 0..(l - m), before \/ at = 0, after \/ at + m = l, FoundAt(s, names, at)
      PROVE  \E d \in dirs : IF before THEN EndingIs(d, names) ELSE d = names
  <2>1. at + m \in 0..l /\ at \in Nat
    BY <1>1
  <2>2. PICK d \in dirs : Len(d) = at + m
    BY <1>3, <1>4, <2>1
  <2>3. d \in Seq(S) /\ \A k \in 1..(at + m) : d[k] = s[k]
    BY <1>2, <2>2
  <2>4. \A k \in 1..m : at + k \in 1..(at + m) /\ names[k] = s[at + k]
    BY <1>1, <1>4, <2>1 DEF FoundAt
  <2>5. \A k \in 1..m : names[k] = d[at + k]
    BY <2>3, <2>4
  <2> HIDE DEF l, m
  <2>6. CASE before
    <3>1. Len(d) - m = at /\ m <= Len(d)
      BY <1>1, <2>1, <2>2
    <3>2. EndingIs(d, names)
      BY <2>3, <2>5, <3>1, EndingPlace DEF FoundAt, m
    <3>3. QED BY <2>6, <3>2
  <2>7. CASE ~before
    <3>1. at = 0
      BY <1>4, <2>7
    <3>2. Len(d) = m /\ \A k \in 1..m : d[k] = names[k]
      BY <1>1, <2>2, <2>5, <3>1
    <3>3. d = names
      BY <2>3, <3>2, SameElements DEF m
    <3>4. QED BY <2>7, <3>3
  <2>8. QED BY <2>6, <2>7
<1>5. ASSUME NEW d \in dirs, IF before THEN EndingIs(d, names) ELSE d = names
      PROVE  \E at \in 0..(l - m) : (before \/ at = 0) /\ (after \/ at + m = l) /\ FoundAt(s, names, at)
  <2> DEFINE at == Len(d) - m
  <2>1. d \in Seq(S) /\ Len(d) \in 0..l /\ (after \/ Len(d) = l) /\ \A k \in 1..Len(d) : d[k] = s[k]
    BY <1>2
  <2>2. m <= Len(d) /\ (before \/ at = 0) /\ \A k \in 1..m : names[k] = d[at + k]
    <3>1. CASE before
      <4>1. Len(names) <= Len(d) /\ FoundAt(d, names, Len(d) - Len(names))
        BY <1>5, <2>1, <3>1, EndingPlace
      <4>2. QED BY <3>1, <4>1 DEF FoundAt
    <3>2. CASE ~before
      BY <1>1, <1>5, <3>2
    <3>3. QED BY <3>1, <3>2
  <2>3. at \in 0..(l - m) /\ at + m = Len(d) /\ \A k \in 1..m : at + k \in 1..Len(d)
    BY <1>1, <2>1, <2>2
  <2> HIDE DEF at, l, m
  <2>4. FoundAt(s, names, at)
    BY <2>1, <2>2, <2>3 DEF FoundAt, m
  <2>5. QED BY <2>1, <2>2, <2>3, <2>4
<1>6. QED BY <1>4, <1>5 DEF PlacedIn, EndsABeginning, dirs, l, m

-----------------------------------------------------------------------------
\* The bytes of a text, line by line.

TextLine == Seq(Nat \ {NL})
TextType == Seq(TextLine)
FileText == {t \in TextType : t # <<>>}

LEMMA BytesType ==
  ASSUME NEW t \in TextType
  PROVE  Bytes(t) \in Seq(Nat)
<1> DEFINE piece(n) == IF n = Len(t) THEN t[n] ELSE Append(t[n], NL)
           ss == [n \in DOMAIN t |-> piece(n)]
<1>1. Len(t) \in Nat /\ DOMAIN t = 1..Len(t) /\ \A n \in 1..Len(t) : t[n] \in TextLine
  BY LenProperties, ElementOfSeq DEF TextType
<1>2. ASSUME NEW n \in 1..Len(t) PROVE piece(n) \in Seq(Nat)
  <2>1. t[n] \in Seq(Nat \ {NL})
    BY <1>1 DEF TextLine
  <2>2. t[n] \in Seq(Nat)
    <3>1. t[n] \in [1..Len(t[n]) -> Nat \ {NL}] /\ Len(t[n]) \in Nat
      BY <2>1, LenProperties
    <3>2. t[n] \in [1..Len(t[n]) -> Nat]
      BY <3>1
    <3>3. QED BY <3>1, <3>2, SeqDef
  <2>3. Append(t[n], NL) \in Seq(Nat)
    BY <2>2, AppendProperties DEF NL
  <2>4. QED BY <2>2, <2>3
<1>3. ss \in Seq(Seq(Nat))
  <2> HIDE DEF piece
  <2>1. ss = [n \in 1..Len(t) |-> piece(n)]
    BY <1>1
  <2>2. QED BY <1>1, <1>2, <2>1, IsASeq
<1>4. FlattenSeq(ss) \in Seq(Nat)
  <2> HIDE DEF ss
  <2> QED BY <1>3, FlattenType
<1>5. QED BY <1>4 DEF Bytes

LEMMA SizeType == \A t \in FileText : Bytes(t) \in Seq(Nat) /\ Size(t) \in Nat
BY BytesType, LenProperties DEF FileText, Size

\* What is read of a text is a text.
LEMMA DropCRType == \A t \in TextLine : DropCR(t) \in TextLine
<1> SUFFICES ASSUME NEW t \in TextLine PROVE DropCR(t) \in TextLine
  OBVIOUS
<1>1. CASE t # <<>>
  <2>1. Len(t) \in Nat /\ Len(t) # 0
    BY <1>1, LenProperties, EmptySeq DEF TextLine
  <2>2. 1 \in Nat \ {0} /\ Len(t) - 1 \in 0..Len(t) /\ 1 <= (Len(t) - 1) + 1
    BY <2>1
  <2>3. SubSeq(t, 1, Len(t) - 1) \in TextLine
    BY <2>2, PieceType DEF TextLine
  <2>4. QED BY <2>3 DEF DropCR
<1>2. CASE t = <<>>
  BY <1>2 DEF DropCR
<1>3. QED BY <1>1, <1>2

LEMMA LineCountType ==
  ASSUME NEW t \in FileText
  PROVE  LineCount(t) \in Nat /\ LineCount(t) <= Len(t) /\ Len(t) \in Nat \ {0}
<1>1. Len(t) \in Nat /\ Len(t) # 0
  BY LenProperties, EmptySeq DEF FileText, TextType
<1>2. QED BY <1>1 DEF LineCount

EndedLines(t) == [n \in 1..Len(t) |-> Append(t[n], NL)]
Led(t, k) == FlattenSeq(FirstPart(EndedLines(t), k))

LineBytes(t) == [n \in 1..Len(t) |-> Len(t[n]) + 1]

LEMMA LineType ==
  ASSUME NEW t \in FileText
  PROVE  /\ Len(t) \in Nat \ {0} /\ DOMAIN t = 1..Len(t)
         /\ \A n \in 1..Len(t) : /\ t[n] \in TextLine /\ t[n] \in Seq(Nat) /\ Len(t[n]) \in Nat
                                 /\ EndedLines(t)[n] = Append(t[n], NL) /\ EndedLines(t)[n] \in Seq(Nat)
<1>1. Len(t) \in Nat \ {0} /\ DOMAIN t = 1..Len(t)
  BY LenProperties, EmptySeq DEF FileText, TextType
<1>2. ASSUME NEW n \in 1..Len(t) PROVE t[n] \in TextLine
  BY <1>1, <1>2, ElementOfSeq DEF FileText, TextType
<1>3. ASSUME NEW n \in 1..Len(t)
      PROVE  t[n] \in Seq(Nat) /\ Len(t[n]) \in Nat /\ Append(t[n], NL) \in Seq(Nat)
  <2>1. t[n] \in Seq(Nat)
    <3>1. Seq(Nat \ {NL}) \subseteq Seq(Nat)
      OBVIOUS
    <3>2. QED BY <1>2, <3>1 DEF TextLine
  <2>2. NL \in Nat
    BY DEF NL
  <2>3. QED BY <2>1, <2>2, AppendProperties, LenProperties
<1>4. QED BY <1>1, <1>2, <1>3 DEF EndedLines

LEMMA LedStep ==
  ASSUME NEW t \in FileText
  PROVE  /\ Led(t, 0) = <<>>
         /\ \A k \in 0..Len(t) : Led(t, k) \in Seq(Nat)
         /\ \A k \in Nat : k < Len(t) => Led(t, k + 1) = Led(t, k) \o Append(t[k + 1], NL)
<1> DEFINE l == Len(t)
           e == EndedLines(t)
<1>1. l \in Nat /\ \A n \in 1..l : e[n] \in Seq(Nat) /\ e[n] = Append(t[n], NL)
  BY LineType
<1> HIDE DEF l, e
<1>2. /\ FirstPart(e, 0) = <<>>
      /\ \A k \in 0..l : FirstPart(e, k) \in Seq(Seq(Nat)) /\ Len(FirstPart(e, k)) = k
      /\ \A k \in Nat : k < l => e[k + 1] \in Seq(Nat) /\ FirstPart(e, k + 1) = Append(FirstPart(e, k), e[k + 1])
  <2>1. AllIn(e, l, Seq(Nat))
    BY <1>1 DEF AllIn
  <2>2. QED BY <1>1, <2>1, OneMore DEF GrowsOneByOne
<1>3. Led(t, 0) = <<>>
  <2>1. <<>> \in Seq(Seq(Nat)) /\ <<>> \in Seq(Nat)
    BY EmptySeq
  <2>2. QED BY <1>2, <2>1, FlattenOfAppend DEF Led, e
<1>4. \A k \in 0..l : Led(t, k) \in Seq(Nat)
  BY <1>2, FlattenType DEF Led, e
<1>5. ASSUME NEW k \in Nat, k < l PROVE Led(t, k + 1) = Led(t, k) \o Append(t[k + 1], NL)
  <2> DEFINE f == FirstPart(e, k)
  <2>1. k \in 0..l /\ k + 1 \in 1..l
    BY <1>1, <1>5
  <2>2. f \in Seq(Seq(Nat)) /\ e[k + 1] \in Seq(Nat)
    BY <1>1, <1>2, <2>1
  <2> HIDE DEF f
  <2>3. FlattenSeq(Append(f, e[k + 1])) = IF f = <<>> THEN e[k + 1] ELSE FlattenSeq(f) \o e[k + 1]
    BY <2>2, FlattenOfAppend
  <2>4. FlattenSeq(<<>>) = <<>>
    BY <2>2, FlattenOfAppend
  <2>5. <<>> \o e[k + 1] = e[k + 1]
    BY <2>2, ConcatEmptySeq
  <2>6. FlattenSeq(Append(f, e[k + 1])) = FlattenSeq(f) \o e[k + 1]
    BY <2>3, <2>4, <2>5
  <2>7. Led(t, k + 1) = FlattenSeq(Append(f, e[k + 1])) /\ Led(t, k) = FlattenSeq(f)
    BY <1>2, <1>5 DEF f, Led, e
  <2>8. QED BY <1>1, <2>1, <2>6, <2>7
<1>6. QED BY <1>3, <1>4, <1>5 DEF l

LEMMA BytesAreLed ==
  ASSUME NEW t \in FileText
  PROVE  Bytes(t) = Led(t, Len(t) - 1) \o t[Len(t)]
<1> DEFINE l == Len(t)
           m == l - 1
           piece(n) == IF n = l THEN t[n] ELSE Append(t[n], NL)
           p == [n \in 1..l |-> piece(n)]
           e == EndedLines(t)
           f == FirstPart(e, m)
<1>1. /\ l \in Nat \ {0} /\ DOMAIN t = 1..l
      /\ \A n \in 1..l : e[n] \in Seq(Nat) /\ e[n] = Append(t[n], NL) /\ t[n] \in Seq(Nat)
  BY LineType
<1>2. Bytes(t) = FlattenSeq(p)
  BY <1>1 DEF Bytes
<1>3. m \in Nat /\ m < l /\ m + 1 = l /\ l \in 1..l /\ m \in 0..l /\ l \in 0..l
  BY <1>1
<1> HIDE DEF l, m, e
<1>4. \A n \in 1..l : p[n] \in Seq(Nat) /\ p[n] = piece(n)
  BY <1>1
<1>5. p = FirstPart(p, l)
  BY DEF FirstPart
<1>6. FirstPart(p, m) = f
  <2>1. \A n \in 1..m : n \in 1..l /\ n # l
    BY <1>3
  <2>2. \A n \in 1..m : p[n] = e[n]
    BY <1>1, <2>1
  <2> HIDE DEF p
  <2>3. QED BY <2>2 DEF FirstPart
<1>7. p[l] = t[l]
  BY <1>3
<1> HIDE DEF p
<1>8. FirstPart(p, m + 1) = Append(FirstPart(p, m), p[m + 1])
  <2>1. AllIn(p, l, Seq(Nat))
    BY <1>4 DEF AllIn
  <2>2. \A k \in Nat : k < l => p[k + 1] \in Seq(Nat) /\ FirstPart(p, k + 1) = Append(FirstPart(p, k), p[k + 1])
    <3>1. l \in Nat
      BY <1>1
    <3>2. QED BY <2>1, <3>1, OneMore DEF GrowsOneByOne
  <2>3. QED BY <1>3, <2>2
<1>9. f \in Seq(Seq(Nat))
  <2>1. AllIn(e, l, Seq(Nat))
    BY <1>1 DEF AllIn
  <2>2. QED BY <1>1, <1>3, <2>1, OneMore DEF GrowsOneByOne
<1>10. p = Append(f, t[l])
  BY <1>3, <1>5, <1>6, <1>7, <1>8
<1>11. Led(t, m) = FlattenSeq(f)
  BY DEF Led, e
<1> HIDE DEF f
<1>12. FlattenSeq(p) = IF f = <<>> THEN t[l] ELSE FlattenSeq(f) \o t[l]
  <2>1. t[l] \in Seq(Nat)
    BY <1>1, <1>3
  <2>2. FlattenSeq(Append(f, t[l])) = IF f = <<>> THEN t[l] ELSE FlattenSeq(f) \o t[l]
    BY <1>9, <2>1, FlattenOfAppend
  <2>3. QED BY <1>10, <2>2
<1>13. FlattenSeq(p) = FlattenSeq(f) \o t[l]
  <2>1. t[l] \in Seq(Nat)
    BY <1>1, <1>3
  <2>2. FlattenSeq(<<>>) = <<>>
    BY <1>9, <2>1, FlattenOfAppend
  <2>3. <<>> \o t[l] = t[l]
    BY <2>1, ConcatEmptySeq
  <2>4. QED BY <1>12, <2>2, <2>3
<1>14. QED BY <1>2, <1>11, <1>13 DEF l, m

\* The bytes of the lines up to one are those the text begins with.
LEMMA LedBegins ==
  ASSUME NEW t \in FileText
  PROVE  \A m \in 0..(Len(t) - 1) : IsStartOf(Led(t, m), Bytes(t))
<1> DEFINE l == Len(t)
           Q == {d \in Nat : d < l => IsStartOf(Led(t, l - 1 - d), Bytes(t))}
<1>1. /\ l \in Nat \ {0}
      /\ \A n \in 1..l : t[n] \in Seq(Nat) /\ Append(t[n], NL) \in Seq(Nat)
  BY LineType
<1>2. /\ \A k \in 0..l : Led(t, k) \in Seq(Nat)
      /\ \A k \in Nat : k < l => Led(t, k + 1) = Led(t, k) \o Append(t[k + 1], NL)
  BY LedStep
<1>3. Bytes(t) = Led(t, l - 1) \o t[l]
  BY BytesAreLed
<1>4. Len(Bytes(t)) \in Nat
  BY SizeType DEF Size
<1> HIDE DEF l
<1>5. 0 \in Q
  <2>1. l - 1 \in 0..l /\ l \in 1..l /\ l - 1 - 0 = l - 1
    BY <1>1
  <2>2. Led(t, l - 1) \in Seq(Nat) /\ t[l] \in Seq(Nat)
    BY <1>1, <1>2, <2>1
  <2>3. Len(Bytes(t)) = Len(Led(t, l - 1)) + Len(t[l])
    BY <1>3, <2>2, ConcatProperties
  <2>4. /\ Len(Led(t, l - 1)) \in Nat /\ Len(t[l]) \in Nat
        /\ \A k \in 1..Len(Led(t, l - 1)) : Bytes(t)[k] = Led(t, l - 1)[k]
    BY <1>3, <2>2, ConcatBehind
  <2> DEFINE led == Led(t, l - 1)
             bytes == Bytes(t)
             tail == t[l]
  <2>5. IsStartOf(led, bytes)
    <3>1. /\ Len(bytes) = Len(led) + Len(tail) /\ Len(led) \in Nat /\ Len(tail) \in Nat
          /\ \A k \in 1..Len(led) : bytes[k] = led[k]
      BY <2>3, <2>4
    <3> HIDE DEF led, bytes, tail
    <3>2. QED BY <3>1 DEF IsStartOf
  <2>6. QED BY <2>1, <2>5
<1>6. ASSUME NEW d \in Nat, d \in Q PROVE d + 1 \in Q
  <2> DEFINE m == l - 1 - (d + 1)
  <2>1. ASSUME d + 1 < l PROVE IsStartOf(Led(t, m), Bytes(t))
    <3>1. m \in Nat /\ m < l /\ m + 1 = l - 1 - d /\ d < l /\ m \in 0..l /\ m + 1 \in 1..l
      BY <1>1, <2>1
    <3>2. IsStartOf(Led(t, m + 1), Bytes(t))
      BY <1>6, <3>1
    <3> HIDE DEF m
    <3>3. Led(t, m) \in Seq(Nat) /\ Append(t[m + 1], NL) \in Seq(Nat)
      BY <1>1, <1>2, <3>1
    <3>4. IsStartOf(Led(t, m) \o Append(t[m + 1], NL), Bytes(t))
      BY <1>2, <3>1, <3>2
    <3>5. QED BY <1>4, <3>3, <3>4, BeginningOfConcat
  <2>2. QED BY <2>1
<1>7. Nat \subseteq Q
  <2> HIDE DEF Q
  <2> QED BY <1>5, <1>6, InductionOnNat
<1>8. ASSUME NEW m \in 0..(l - 1) PROVE IsStartOf(Led(t, m), Bytes(t))
  <2>1. l - 1 - m \in Nat /\ l - 1 - m < l /\ l - 1 - (l - 1 - m) = m
    BY <1>1
  <2>2. QED BY <1>7, <2>1
<1>9. QED BY <1>8 DEF l

\* The bytes of a line are where those of the lines before it end.
LEMMA LineAmongBytes ==
  ASSUME NEW t \in FileText, NEW m \in 1..Len(t)
  PROVE  /\ Bytes(t) \in Seq(Nat) /\ Led(t, m - 1) \in Seq(Nat) /\ t[m] \in Seq(Nat)
         /\ Len(Led(t, m - 1)) + Len(t[m]) <= Len(Bytes(t))
         /\ \A k \in 1..Len(t[m]) : Bytes(t)[Len(Led(t, m - 1)) + k] = t[m][k]
<1> DEFINE l == Len(t)
           a == Led(t, m - 1)
           b == t[m]
           c == Append(b, NL)
<1>1. /\ l \in Nat \ {0} /\ m - 1 \in Nat /\ m - 1 < l /\ (m - 1) + 1 = m /\ m - 1 \in 0..l /\ m \in 0..l
      /\ b \in Seq(Nat) /\ c \in Seq(Nat) /\ Bytes(t) \in Seq(Nat) /\ NL \in Nat
  BY LineType, SizeType DEF NL
<1>2. a \in Seq(Nat) /\ Led(t, m) = a \o c
  <2>1. /\ \A k \in 0..l : Led(t, k) \in Seq(Nat)
        /\ \A k \in Nat : k < l => Led(t, k + 1) = Led(t, k) \o Append(t[k + 1], NL)
    BY LedStep
  <2> HIDE DEF l
  <2>2. QED BY <1>1, <2>1
<1>3. m = l => Bytes(t) = a \o b
  BY BytesAreLed
<1>4. m # l => IsStartOf(Led(t, m), Bytes(t))
  <2>1. m # l => m \in 0..(l - 1)
    BY <1>1
  <2>2. QED BY <2>1, LedBegins
<1> HIDE DEF a, b, l
<1>5. Len(c) = Len(b) + 1 /\ \A k \in 1..Len(b) : c[k] = b[k]
  BY <1>1, AppendProperties
<1> HIDE DEF c
<1>6. /\ Len(a \o b) = Len(a) + Len(b) /\ Len(a) \in Nat /\ Len(b) \in Nat
      /\ \A k \in 1..Len(b) : (a \o b)[Len(a) + k] = b[k]
  <2>1. Len(a \o b) = Len(a) + Len(b)
    BY <1>1, <1>2, ConcatProperties
  <2>2. QED BY <1>1, <1>2, <2>1, ConcatBehind
<1>7. /\ Len(a \o c) = Len(a) + Len(c)
      /\ \A k \in 1..Len(c) : (a \o c)[Len(a) + k] = c[k]
  <2>1. Len(a \o c) = Len(a) + Len(c)
    BY <1>1, <1>2, ConcatProperties
  <2>2. QED BY <1>1, <1>2, <2>1, ConcatBehind
<1>8. CASE m = l
  <2>1. Len(Bytes(t)) = Len(a \o b) /\ \A k \in 1..Len(b) : Bytes(t)[Len(a) + k] = b[k]
    BY <1>3, <1>6, <1>8
  <2>2. Len(a) + Len(b) <= Len(Bytes(t))
    BY <1>6, <2>1
  <2>3. QED BY <1>1, <1>2, <2>1, <2>2 DEF a, b
<1>9. CASE m # l
  <2> DEFINE u == a \o c
  <2>1. Len(u) = Len(a) + Len(b) + 1 /\ \A k \in 1..Len(b) : k \in 1..Len(c) /\ u[Len(a) + k] = b[k]
    BY <1>5, <1>6, <1>7
  <2>2. IsStartOf(u, Bytes(t))
    BY <1>2, <1>4, <1>9
  <2>3. Len(Bytes(t)) \in Nat
    BY <1>1, LenProperties
  <2> HIDE DEF u
  <2>4. Len(u) <= Len(Bytes(t)) /\ \A k \in 1..Len(b) : Len(a) + k \in 1..Len(u)
    BY <1>6, <2>1, <2>2 DEF IsStartOf
  <2>5. \A k \in 1..Len(b) : Bytes(t)[Len(a) + k] = b[k]
    BY <2>1, <2>2, <2>4 DEF IsStartOf
  <2>6. Len(a) + Len(b) <= Len(Bytes(t))
    BY <1>6, <2>1, <2>3, <2>4
  <2>7. QED BY <1>1, <1>2, <2>5, <2>6 DEF a, b
<1>10. QED BY <1>8, <1>9
=============================================================================
