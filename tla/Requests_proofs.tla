--------------------------- MODULE Requests_proofs ---------------------------
(***************************************************************************)
(* Theorems about Requests, for all contents, trees and calls: what the    *)
(* hunks of aifr_diff, and the position of its comparison byte by byte,    *)
(* say of the two contents read; what an answer of aifr_cat is; that a     *)
(* listing is in the order asked for; what a lookup of a command reports;  *)
(* what the tools on files answer; that a suggestion of the hook prints    *)
(* the same lines; that a merged git configuration is git's.               *)
(***************************************************************************)
EXTENDS Requests, SequenceFacts, FiniteSetTheorems

-----------------------------------------------------------------------------
\* The lines of a hunk that have a sign.

ChangedLine == [sign : {"-", "+"}, line : TextLine]

Signed(sign, cs, f, m) ==
  f = [n \in 0..m |-> IF n = 0 THEN <<>>
                      ELSE IF cs[n].sign = sign THEN Append(f[n - 1], cs[n].line) ELSE f[n - 1]]

LEMMA SignedExists ==
  ASSUME NEW sign, NEW cs, NEW l \in Nat
  PROVE  \E f : Signed(sign, cs, f, l)
<1> DEFINE Q == {m \in Nat : \E f : Signed(sign, cs, f, m)}
<1>1. 0 \in Q
  <2> DEFINE f == [n \in 0..0 |-> <<>>]
  <2>1. \A n \in 0..0 : n = 0
    OBVIOUS
  <2>2. Signed(sign, cs, f, 0)
    BY <2>1 DEF Signed
  <2>3. QED BY <2>2
<1>2. ASSUME NEW m \in Nat, m \in Q PROVE m + 1 \in Q
  <2>1. PICK f : Signed(sign, cs, f, m)
    BY <1>2
  <2> DEFINE last == IF cs[m + 1].sign = sign THEN Append(f[m], cs[m + 1].line) ELSE f[m]
             g == [n \in 0..(m + 1) |-> IF n = m + 1 THEN last ELSE f[n]]
             step(n) == IF n = 0 THEN <<>>
                        ELSE IF cs[n].sign = sign THEN Append(g[n - 1], cs[n].line) ELSE g[n - 1]
  <2>2. \A n \in 0..m : n \in 0..(m + 1) /\ n # m + 1 /\ g[n] = f[n]
    OBVIOUS
  <2>3. \A n \in 0..(m + 1) : n = m + 1 \/ (n \in 0..m /\ (n # 0 => n - 1 \in 0..m))
    OBVIOUS
  <2>4. \A n \in 0..m : f[n] = IF n = 0 THEN <<>>
                               ELSE IF cs[n].sign = sign THEN Append(f[n - 1], cs[n].line) ELSE f[n - 1]
    BY <2>1 DEF Signed
  <2>5. g[m + 1] = last /\ m + 1 # 0 /\ (m + 1) - 1 = m /\ m \in 0..m /\ m + 1 \in 0..(m + 1)
    OBVIOUS
  <2> HIDE DEF g
  <2>6. \A n \in 0..(m + 1) : g[n] = step(n)
    BY <2>2, <2>3, <2>4, <2>5
  <2>7. g = [n \in 0..(m + 1) |-> g[n]]
    BY DEF g
  <2>8. g = [n \in 0..(m + 1) |-> step(n)]
    BY <2>6, <2>7
  <2>9. Signed(sign, cs, g, m + 1)
    BY <2>8 DEF Signed
  <2>10. QED BY <2>9
<1>3. Nat \subseteq Q
  <2> HIDE DEF Q
  <2> QED BY <1>1, <1>2, InductionOnNat
<1>4. QED BY <1>3

LEMMA LinesAreSigned ==
  ASSUME NEW sign, NEW cs, Len(cs) \in Nat
  PROVE  \E f : Signed(sign, cs, f, Len(cs)) /\ LinesWith(sign, cs) = f[Len(cs)]
<1> DEFINE f == CHOOSE f : Signed(sign, cs, f, Len(cs))
<1>1. Signed(sign, cs, f, Len(cs))
  BY SignedExists
<1>2. LinesWith(sign, cs) = f[Len(cs)]
  BY DEF LinesWith, Signed
<1>3. QED BY <1>1, <1>2

LEMMA LinesOfNothing == \A sign : LinesWith(sign, <<>>) = <<>>
<1> SUFFICES ASSUME NEW sign PROVE LinesWith(sign, <<>>) = <<>>
  OBVIOUS
<1>1. Len(<<>>) = 0
  BY EmptySeq
<1>2. PICK f : Signed(sign, <<>>, f, 0) /\ LinesWith(sign, <<>>) = f[0]
  BY <1>1, LinesAreSigned
<1>3. QED BY <1>2 DEF Signed

LEMMA LinesOfAppend ==
  ASSUME NEW cs \in Seq(ChangedLine), NEW c \in ChangedLine, NEW sign
  PROVE  LinesWith(sign, Append(cs, c)) =
           IF c.sign = sign THEN Append(LinesWith(sign, cs), c.line) ELSE LinesWith(sign, cs)
<1> DEFINE u == Append(cs, c)
           l == Len(cs)
<1>1. /\ u \in Seq(ChangedLine) /\ Len(u) = l + 1 /\ u[l + 1] = c /\ l \in Nat
      /\ \A n \in 1..l : u[n] = cs[n]
  BY AppendProperties, LenProperties
<1> HIDE DEF u, l
<1>2. PICK f : Signed(sign, cs, f, l) /\ LinesWith(sign, cs) = f[l]
  BY <1>1, LinesAreSigned DEF l
<1>3. PICK g : Signed(sign, u, g, l + 1) /\ LinesWith(sign, u) = g[l + 1]
  BY <1>1, LinesAreSigned
<1>4. \A n \in 0..l : f[n] = IF n = 0 THEN <<>>
                             ELSE IF cs[n].sign = sign THEN Append(f[n - 1], cs[n].line) ELSE f[n - 1]
  BY <1>2 DEF Signed
<1>5. \A n \in 0..(l + 1) : g[n] = IF n = 0 THEN <<>>
                                   ELSE IF u[n].sign = sign THEN Append(g[n - 1], u[n].line) ELSE g[n - 1]
  BY <1>3 DEF Signed
<1> DEFINE Q == {n \in Nat : n <= l => f[n] = g[n]}
<1>6. 0 \in Q
  BY <1>1, <1>4, <1>5
<1>7. ASSUME NEW n \in Nat, n \in Q PROVE n + 1 \in Q
  <2>1. CASE n + 1 <= l
    <3>1. /\ n + 1 \in 0..l /\ n + 1 \in 0..(l + 1) /\ n + 1 # 0 /\ (n + 1) - 1 = n
          /\ n + 1 \in 1..l /\ n <= l
      BY <1>1, <2>1
    <3>2. f[n] = g[n] /\ u[n + 1] = cs[n + 1]
      BY <1>1, <1>7, <3>1
    <3>3. f[n + 1] = g[n + 1]
      BY <1>4, <1>5, <3>1, <3>2
    <3>4. QED BY <3>3
  <2>2. QED BY <2>1
<1>8. Nat \subseteq Q
  <2> HIDE DEF Q
  <2> QED BY <1>6, <1>7, InductionOnNat
<1>9. f[l] = g[l]
  BY <1>1, <1>8
<1>10. l + 1 \in 0..(l + 1) /\ l + 1 # 0 /\ (l + 1) - 1 = l
  BY <1>1
<1>11. g[l + 1] = IF c.sign = sign THEN Append(g[l], c.line) ELSE g[l]
  BY <1>1, <1>5, <1>10
<1>12. QED BY <1>2, <1>3, <1>9, <1>11 DEF u


-----------------------------------------------------------------------------
\* Applying hunks.

Hunks == [oldStart : Nat, oldLines : Nat, newStart : Nat, newLines : Nat, lines : Seq(ChangedLine)]
Untouched == [text |-> <<>>, used |-> 0]
Applied(la, h, before) ==
  [text |-> before.text \o SubSeq(la, before.used + 1, h.oldStart - 1) \o LinesWith("+", h.lines),
   used |-> h.oldStart - 1 + h.oldLines]

AppliedTo(la, hs, f, m) ==
  f = [n \in 0..m |-> IF n = 0 THEN Untouched ELSE Applied(la, hs[n], f[n - 1])]
Patches(la, hs) == CHOOSE f : AppliedTo(la, hs, f, Len(hs))

LEMMA PatchedIsPatches == Patched = Patches(linesA, hunks)
BY DEF Patched, Patches, AppliedTo, Applied, Untouched

LEMMA AppliedExists ==
  ASSUME NEW la, NEW hs, NEW l \in Nat
  PROVE  \E f : AppliedTo(la, hs, f, l)
<1> DEFINE Q == {m \in Nat : \E f : AppliedTo(la, hs, f, m)}
<1>1. 0 \in Q
  <2> DEFINE f == [n \in 0..0 |-> Untouched]
  <2>1. \A n \in 0..0 : n = 0
    OBVIOUS
  <2>2. AppliedTo(la, hs, f, 0)
    BY <2>1 DEF AppliedTo
  <2>3. QED BY <2>2
<1>2. ASSUME NEW m \in Nat, m \in Q PROVE m + 1 \in Q
  <2>1. PICK f : AppliedTo(la, hs, f, m)
    BY <1>2
  <2> DEFINE g == [n \in 0..(m + 1) |-> IF n = m + 1 THEN Applied(la, hs[m + 1], f[m]) ELSE f[n]]
             step(n) == IF n = 0 THEN Untouched ELSE Applied(la, hs[n], g[n - 1])
  <2>2. \A n \in 0..m : n \in 0..(m + 1) /\ n # m + 1 /\ g[n] = f[n]
    OBVIOUS
  <2>3. \A n \in 0..(m + 1) : n = m + 1 \/ (n \in 0..m /\ (n # 0 => n - 1 \in 0..m))
    OBVIOUS
  <2>4. \A n \in 0..m : f[n] = IF n = 0 THEN Untouched ELSE Applied(la, hs[n], f[n - 1])
    BY <2>1 DEF AppliedTo
  <2>5. /\ g[m + 1] = Applied(la, hs[m + 1], f[m]) /\ m + 1 # 0 /\ (m + 1) - 1 = m
        /\ m \in 0..m /\ m + 1 \in 0..(m + 1)
    OBVIOUS
  <2> HIDE DEF g
  <2>6. \A n \in 0..(m + 1) : g[n] = step(n)
    BY <2>2, <2>3, <2>4, <2>5
  <2>7. g = [n \in 0..(m + 1) |-> g[n]]
    BY DEF g
  <2>8. g = [n \in 0..(m + 1) |-> step(n)]
    BY <2>6, <2>7
  <2>9. AppliedTo(la, hs, g, m + 1)
    BY <2>8 DEF AppliedTo
  <2>10. QED BY <2>9
<1>3. Nat \subseteq Q
  <2> HIDE DEF Q
  <2> QED BY <1>1, <1>2, InductionOnNat
<1>4. QED BY <1>3

LEMMA PatchStep ==
  ASSUME NEW la, NEW hs, Len(hs) \in Nat
  PROVE  \A n \in 0..Len(hs) : Patches(la, hs)[n] =
           IF n = 0 THEN Untouched ELSE Applied(la, hs[n], Patches(la, hs)[n - 1])
<1> DEFINE f == Patches(la, hs)
<1>1. AppliedTo(la, hs, f, Len(hs))
  BY AppliedExists DEF Patches
<1> HIDE DEF f
<1>2. QED BY <1>1 DEF AppliedTo, f

\* One more hunk is applied to what those before it leave.
LEMMA PatchOfAppend ==
  ASSUME NEW la, NEW hs \in Seq(Hunks), NEW h \in Hunks
  PROVE  /\ \A n \in 0..Len(hs) : Patches(la, Append(hs, h))[n] = Patches(la, hs)[n]
         /\ Patches(la, Append(hs, h))[Len(hs) + 1] = Applied(la, h, Patches(la, hs)[Len(hs)])
<1> DEFINE u == Append(hs, h)
           l == Len(hs)
           f == Patches(la, hs)
           g == Patches(la, u)
<1>1. /\ Len(u) = l + 1 /\ u[l + 1] = h /\ l \in Nat /\ \A n \in 1..l : u[n] = hs[n]
  BY AppendProperties, LenProperties
<1>2. \A n \in 0..l : f[n] = IF n = 0 THEN Untouched ELSE Applied(la, hs[n], f[n - 1])
  BY <1>1, PatchStep
<1>3. \A n \in 0..(l + 1) : g[n] = IF n = 0 THEN Untouched ELSE Applied(la, u[n], g[n - 1])
  <2> HIDE DEF u
  <2>1. Len(u) \in Nat
    BY <1>1
  <2>2. QED BY <1>1, <2>1, PatchStep
<1> HIDE DEF u, l, f, g
<1> DEFINE Q == {n \in Nat : n <= l => f[n] = g[n]}
<1>4. 0 \in Q
  BY <1>1, <1>2, <1>3
<1>5. ASSUME NEW n \in Nat, n \in Q PROVE n + 1 \in Q
  <2>1. CASE n + 1 <= l
    <3>1. /\ n + 1 \in 0..l /\ n + 1 \in 0..(l + 1) /\ n + 1 # 0 /\ (n + 1) - 1 = n
          /\ n + 1 \in 1..l /\ n <= l
      BY <1>1, <2>1
    <3>2. f[n] = g[n] /\ u[n + 1] = hs[n + 1]
      BY <1>1, <1>5, <3>1
    <3>3. f[n + 1] = g[n + 1]
      BY <1>2, <1>3, <3>1, <3>2
    <3>4. QED BY <3>3
  <2>2. QED BY <2>1
<1>6. Nat \subseteq Q
  <2> HIDE DEF Q
  <2> QED BY <1>4, <1>5, InductionOnNat
<1>7. \A n \in 0..l : f[n] = g[n]
  BY <1>1, <1>6
<1>8. l + 1 \in 0..(l + 1) /\ l + 1 # 0 /\ (l + 1) - 1 = l /\ l \in 0..l
  BY <1>1
<1>9. g[l + 1] = Applied(la, h, f[l])
  BY <1>1, <1>3, <1>7, <1>8
<1>10. QED BY <1>7, <1>9 DEF f, g, u, l

-----------------------------------------------------------------------------
\* What the loop of computeDiff keeps.

\* The hunks hs turn the first m lines of la into the first n of lb, and say of each what it is.
HunkSays(la, lb, h, before) ==
  /\ LinesWith("-", h.lines) = SubSeq(la, h.oldStart, h.oldStart + h.oldLines - 1)
  /\ LinesWith("+", h.lines) = SubSeq(lb, h.newStart, h.newStart + h.newLines - 1)
  /\ h.newStart - h.oldStart = Len(before.text) - before.used

Rebuilds(la, lb, hs, m, n) ==
  LET all == Patches(la, hs)[Len(hs)]
  IN /\ all.text \in TextType /\ all.used \in 0..m
     /\ all.text \o SubSeq(la, all.used + 1, m) = SubSeq(lb, 1, n)
     /\ \A k \in 1..Len(hs) : HunkSays(la, lb, hs[k], Patches(la, hs)[k - 1])

\* The lines of the hunk under way are those of the two sides it has passed.
InHunk(la, lb, cs, p, q, m, n) ==
  /\ p <= m /\ q <= n
  /\ Len(cs) = (m - p) + (n - q)
  /\ LinesWith("-", cs) = SubSeq(la, p + 1, m)
  /\ LinesWith("+", cs) = SubSeq(lb, q + 1, n)

LEMMA NothingRebuilds ==
  ASSUME NEW la \in TextType, NEW lb \in TextType
  PROVE  Rebuilds(la, lb, <<>>, 0, 0)
<1>1. Len(<<>>) = 0 /\ <<>> \in TextType
  BY EmptySeq DEF TextType
<1>2. Patches(la, <<>>)[0] = Untouched
  BY <1>1, PatchStep
<1>3. Untouched.text = <<>> /\ Untouched.used = 0
  BY DEF Untouched
<1>4. SubSeq(la, 1, 0) = <<>> /\ SubSeq(lb, 1, 0) = <<>>
  BY SubSeqEmpty
<1>5. <<>> \o <<>> = <<>>
  BY <1>1, ConcatEmptySeq
<1>6. \A k \in 1..Len(<<>>) : FALSE
  BY <1>1
<1>7. 0 + 1 = 1 /\ 0 \in 0..0
  OBVIOUS
<1>8. QED BY <1>1, <1>2, <1>3, <1>4, <1>5, <1>6, <1>7 DEF Rebuilds

\* A common line goes on what is unchanged.
LEMMA CommonRebuilds ==
  ASSUME NEW la \in TextType, NEW lb \in TextType, NEW hs, NEW m \in Nat, NEW n \in Nat,
         m < Len(la), n < Len(lb), la[m + 1] = lb[n + 1], Rebuilds(la, lb, hs, m, n)
  PROVE  Rebuilds(la, lb, hs, m + 1, n + 1)
<1> DEFINE all == Patches(la, hs)[Len(hs)]
           from == all.used + 1
<1>1. /\ all.text \in Seq(TextLine) /\ all.used \in 0..m
      /\ all.text \o SubSeq(la, from, m) = SubSeq(lb, 1, n)
      /\ \A k \in 1..Len(hs) : HunkSays(la, lb, hs[k], Patches(la, hs)[k - 1])
  BY DEF Rebuilds, TextType
<1> HIDE DEF all
<1>2. /\ from \in Nat \ {0} /\ from <= m + 1 /\ m \in 0..Len(la) /\ all.used \in 0..(m + 1)
      /\ 1 \in Nat \ {0} /\ 1 <= n + 1 /\ la \in Seq(TextLine) /\ lb \in Seq(TextLine)
  <2>1. la \in Seq(TextLine) /\ lb \in Seq(TextLine)
    BY DEF TextType
  <2>2. Len(la) \in Nat
    BY <2>1, LenProperties
  <2>3. all.used \in 0..m /\ from = all.used + 1
    BY <1>1
  <2> HIDE DEF from
  <2>4. from \in Nat \ {0} /\ from <= m + 1 /\ m \in 0..Len(la) /\ all.used \in 0..(m + 1)
    BY <2>2, <2>3
  <2>5. QED BY <2>1, <2>4
<1> HIDE DEF from
<1>3. /\ SubSeq(la, from, m + 1) = Append(SubSeq(la, from, m), la[m + 1]) /\ la[m + 1] \in TextLine
      /\ SubSeq(lb, 1, n + 1) = Append(SubSeq(lb, 1, n), lb[n + 1])
  BY <1>2, PieceGrows
<1>4. SubSeq(la, from, m) \in Seq(TextLine)
  BY <1>2, PieceType
<1>5. all.text \o SubSeq(la, from, m + 1) = SubSeq(lb, 1, n + 1)
  <2>1. all.text \o Append(SubSeq(la, from, m), la[m + 1]) = Append(all.text \o SubSeq(la, from, m), la[m + 1])
    <3>1. all.text \in Seq(TextLine) /\ la[m + 1] \in TextLine
      BY <1>1, <1>3
    <3>2. \A s \in Seq(TextLine), t \in Seq(TextLine), x \in TextLine :
            s \o Append(t, x) = Append(s \o t, x)
      BY AppendToConcat
    <3>3. QED BY <1>4, <3>1, <3>2, Zenon
  <2>2. la[m + 1] = lb[n + 1]
    OBVIOUS
  <2>3. QED BY <1>1, <1>3, <2>1, <2>2, Zenon
<1>6. QED BY <1>1, <1>2, <1>5 DEF Rebuilds, all, from, TextType

LEMMA FreshHunk ==
  ASSUME NEW la \in TextType, NEW lb \in TextType, NEW m \in Nat, NEW n \in Nat
  PROVE  InHunk(la, lb, <<>>, m, n, m, n)
<1>1. Len(<<>>) = 0 /\ m < m + 1 /\ n < n + 1 /\ m <= m /\ n <= n /\ 0 = (m - m) + (n - n)
  BY EmptySeq
<1>2. SubSeq(la, m + 1, m) = <<>> /\ SubSeq(lb, n + 1, n) = <<>>
  BY <1>1, SubSeqEmpty
<1>3. LinesWith("-", <<>>) = <<>> /\ LinesWith("+", <<>>) = <<>>
  BY LinesOfNothing
<1>4. QED BY <1>1, <1>2, <1>3, Zenon DEF InHunk

LEMMA OldTaken ==
  ASSUME NEW la \in TextType, NEW lb \in TextType, NEW cs \in Seq(ChangedLine),
         NEW p \in Nat, NEW q \in Nat, NEW m \in Nat, NEW n \in Nat, m < Len(la),
         InHunk(la, lb, cs, p, q, m, n)
  PROVE  LET c == [sign |-> "-", line |-> la[m + 1]]
         IN c \in ChangedLine /\ InHunk(la, lb, Append(cs, c), p, q, m + 1, n)
<1> DEFINE c == [sign |-> "-", line |-> la[m + 1]]
<1>1. p \in Nat /\ q \in Nat /\ p + 1 \in Nat \ {0} /\ p <= m /\ p + 1 <= m + 1
      /\ la \in Seq(TextLine)
  BY DEF InHunk, TextType
<1>2. SubSeq(la, p + 1, m + 1) = Append(SubSeq(la, p + 1, m), la[m + 1]) /\ la[m + 1] \in TextLine
  BY <1>1, PieceGrows
<1>3. c \in ChangedLine /\ c.sign = "-" /\ c.line = la[m + 1]
  BY <1>2 DEF ChangedLine
<1> HIDE DEF c
<1>4. /\ LinesWith("-", Append(cs, c)) = Append(LinesWith("-", cs), c.line)
      /\ LinesWith("+", Append(cs, c)) = LinesWith("+", cs)
  BY <1>3, LinesOfAppend
<1>5. Len(Append(cs, c)) = Len(cs) + 1 /\ Len(cs) \in Nat
  BY <1>3, AppendProperties, LenProperties
<1>6. /\ q <= n /\ Len(cs) = (m - p) + (n - q)
      /\ LinesWith("-", cs) = SubSeq(la, p + 1, m)
      /\ LinesWith("+", cs) = SubSeq(lb, q + 1, n)
  BY DEF InHunk
<1>7. p <= m + 1 /\ Len(Append(cs, c)) = (m + 1 - p) + (n - q)
  BY <1>1, <1>5, <1>6
<1>8. LinesWith("-", Append(cs, c)) = SubSeq(la, p + 1, m + 1)
  BY <1>2, <1>3, <1>4, <1>6, Zenon
<1>9. LinesWith("+", Append(cs, c)) = SubSeq(lb, q + 1, n)
  BY <1>4, <1>6, Zenon
<1>10. InHunk(la, lb, Append(cs, c), p, q, m + 1, n)
  BY <1>6, <1>7, <1>8, <1>9 DEF InHunk
<1>11. QED BY <1>3, <1>10 DEF c

LEMMA NewTaken ==
  ASSUME NEW la \in TextType, NEW lb \in TextType, NEW cs \in Seq(ChangedLine),
         NEW p \in Nat, NEW q \in Nat, NEW m \in Nat, NEW n \in Nat, n < Len(lb),
         InHunk(la, lb, cs, p, q, m, n)
  PROVE  LET c == [sign |-> "+", line |-> lb[n + 1]]
         IN c \in ChangedLine /\ InHunk(la, lb, Append(cs, c), p, q, m, n + 1)
<1> DEFINE c == [sign |-> "+", line |-> lb[n + 1]]
<1>1. p \in Nat /\ q \in Nat /\ q + 1 \in Nat \ {0} /\ q <= n /\ q + 1 <= n + 1
      /\ lb \in Seq(TextLine)
  BY DEF InHunk, TextType
<1>2. SubSeq(lb, q + 1, n + 1) = Append(SubSeq(lb, q + 1, n), lb[n + 1]) /\ lb[n + 1] \in TextLine
  BY <1>1, PieceGrows
<1>3. c \in ChangedLine /\ c.sign = "+" /\ c.line = lb[n + 1]
  BY <1>2 DEF ChangedLine
<1> HIDE DEF c
<1>4. /\ LinesWith("+", Append(cs, c)) = Append(LinesWith("+", cs), c.line)
      /\ LinesWith("-", Append(cs, c)) = LinesWith("-", cs)
  BY <1>3, LinesOfAppend
<1>5. Len(Append(cs, c)) = Len(cs) + 1 /\ Len(cs) \in Nat
  BY <1>3, AppendProperties, LenProperties
<1>6. /\ p <= m /\ Len(cs) = (m - p) + (n - q)
      /\ LinesWith("-", cs) = SubSeq(la, p + 1, m)
      /\ LinesWith("+", cs) = SubSeq(lb, q + 1, n)
  BY DEF InHunk
<1>7. q <= n + 1 /\ Len(Append(cs, c)) = (m - p) + (n + 1 - q)
  BY <1>1, <1>5, <1>6
<1>8. LinesWith("+", Append(cs, c)) = SubSeq(lb, q + 1, n + 1)
  BY <1>2, <1>3, <1>4, <1>6, Zenon
<1>9. LinesWith("-", Append(cs, c)) = SubSeq(la, p + 1, m)
  BY <1>4, <1>6, Zenon
<1>10. InHunk(la, lb, Append(cs, c), p, q, m, n + 1)
  BY <1>6, <1>7, <1>8, <1>9 DEF InHunk
<1>11. QED BY <1>3, <1>10 DEF c

\* A hunk that is ended takes its place behind the others.
LEMMA EndedRebuilds ==
  ASSUME NEW la \in TextType, NEW lb \in TextType, NEW hs \in Seq(Hunks), NEW cs \in Seq(ChangedLine),
         NEW p \in Nat, NEW q \in Nat, NEW m \in 0..Len(la), NEW n \in 0..Len(lb),
         Rebuilds(la, lb, hs, p, q), InHunk(la, lb, cs, p, q, m, n)
  PROVE  LET h == Hunk(p + 1, m - p, q + 1, n - q, cs)
         IN h \in Hunks /\ Rebuilds(la, lb, Append(hs, h), m, n)
<1> DEFINE h == Hunk(p + 1, m - p, q + 1, n - q, cs)
           u == Append(hs, h)
           before == Patches(la, hs)[Len(hs)]
           all == Patches(la, u)[Len(u)]
<1>1. /\ p \in Nat /\ q \in Nat /\ p <= m /\ q <= n /\ m \in Nat /\ n \in Nat
      /\ m <= Len(la) /\ n <= Len(lb) /\ Len(la) \in Nat /\ Len(lb) \in Nat
      /\ la \in Seq(TextLine) /\ lb \in Seq(TextLine)
      /\ LinesWith("-", cs) = SubSeq(la, p + 1, m)
      /\ LinesWith("+", cs) = SubSeq(lb, q + 1, n)
  BY LenProperties DEF InHunk, TextType
<1>2. /\ h.oldStart = p + 1 /\ h.oldLines = m - p /\ h.newStart = q + 1
      /\ h.newLines = n - q /\ h.lines = cs /\ h \in Hunks
  BY <1>1 DEF Hunk, Hunks
<1> HIDE DEF h
<1>3. /\ Len(u) = Len(hs) + 1 /\ u[Len(hs) + 1] = h /\ Len(hs) \in Nat
      /\ \A k \in 1..Len(hs) : u[k] = hs[k]
  BY <1>2, AppendProperties, LenProperties
<1>4. /\ \A k \in 0..Len(hs) : Patches(la, u)[k] = Patches(la, hs)[k]
      /\ all = Applied(la, h, before)
  BY <1>2, <1>3, PatchOfAppend
<1>5. /\ before.text \in Seq(TextLine) /\ before.used \in 0..p
      /\ before.text \o SubSeq(la, before.used + 1, p) = SubSeq(lb, 1, q)
      /\ \A k \in 1..Len(hs) : HunkSays(la, lb, hs[k], Patches(la, hs)[k - 1])
  BY DEF Rebuilds, TextType
<1> HIDE DEF u, before, all
<1>6. p + 1 - 1 = p /\ p + (m - p) = m
  BY <1>1
<1>7. /\ all.text = before.text \o SubSeq(la, before.used + 1, p) \o SubSeq(lb, q + 1, n)
      /\ all.used = m
  <2>1. /\ all.text = before.text \o SubSeq(la, before.used + 1, h.oldStart - 1) \o LinesWith("+", h.lines)
        /\ all.used = h.oldStart - 1 + h.oldLines
    BY <1>4 DEF Applied
  <2>2. h.oldStart - 1 = p
    BY <1>2, <1>6
  <2>3. h.oldStart - 1 + h.oldLines = m
    BY <1>2, <1>6, <2>2
  <2>4. QED BY <1>1, <1>2, <2>1, <2>2, <2>3, Zenon
<1>8. all.text = SubSeq(lb, 1, n)
  <2>1. SubSeq(lb, 1, q) \o SubSeq(lb, q + 1, n) = SubSeq(lb, 1, n)
    <3>1. 1 <= q + 1 /\ q <= n /\ n <= Len(lb) /\ n \in Nat /\ lb \in Seq(TextLine)
      BY <1>1
    <3>2. \A t \in Seq(TextLine), k \in Nat, l \in Nat :
            1 <= k + 1 /\ k <= l /\ l <= Len(t) => SubSeq(t, 1, k) \o SubSeq(t, k + 1, l) = SubSeq(t, 1, l)
      BY PiecesJoin
    <3>3. QED BY <3>1, <3>2, Zenon
  <2>2. QED BY <1>5, <1>7, <2>1, Zenon
<1>9. all.text \in TextType
  <2>1. 1 \in Nat \ {0} /\ 1 <= n + 1
    BY <1>1
  <2>2. QED BY <1>1, <1>8, <2>1, PieceType DEF TextType
<1>10. all.text \o SubSeq(la, all.used + 1, m) = SubSeq(lb, 1, n)
  <2>1. SubSeq(la, m + 1, m) = <<>>
    BY <1>1, SubSeqEmpty
  <2>2. all.text \o <<>> = all.text
    BY <1>9, ConcatEmptySeq DEF TextType
  <2>3. all.text \o SubSeq(la, all.used + 1, m) = all.text \o <<>>
    BY <1>7, <2>1, Zenon
  <2>4. QED BY <1>8, <2>2, <2>3
<1>11. HunkSays(la, lb, h, before)
  <2>1. p + 1 + (m - p) - 1 = m /\ q + 1 + (n - q) - 1 = n
    BY <1>1
  <2>2. Len(before.text) - before.used = q - p
    <3>1. before.used + 1 \in Nat \ {0} /\ p \in 0..Len(la) /\ before.used + 1 <= p + 1
          /\ q \in 0..Len(lb) /\ 1 \in Nat \ {0} /\ 1 <= q + 1
      <4>1. \A x \in 0..p : x + 1 \in Nat \ {0} /\ x + 1 <= p + 1
        OBVIOUS
      <4>2. before.used + 1 \in Nat \ {0} /\ before.used + 1 <= p + 1
        BY <1>5, <4>1, Zenon
      <4>3. p \in 0..Len(la) /\ q \in 0..Len(lb) /\ 1 \in Nat \ {0} /\ 1 <= q + 1
        BY <1>1
      <4>4. QED BY <4>2, <4>3
    <3>2. /\ Len(SubSeq(la, before.used + 1, p)) = p - (before.used + 1) + 1
          /\ SubSeq(la, before.used + 1, p) \in Seq(TextLine)
      <4> DEFINE low == before.used + 1
      <4>1. la \in Seq(TextLine) /\ low \in Nat \ {0} /\ p \in 0..Len(la) /\ low <= p + 1
        BY <3>1 DEF TextType
      <4> HIDE DEF low
      <4>2. SubSeq(la, low, p) \in Seq(TextLine) /\ Len(SubSeq(la, low, p)) = p - low + 1
        BY <4>1, PieceType
      <4>3. QED BY <4>2 DEF low
    <3>6. Len(SubSeq(lb, 1, q)) = q - 1 + 1
      <4>1. lb \in Seq(TextLine)
        BY DEF TextType
      <4>2. QED BY <3>1, <4>1, PieceType
    <3>3. Len(before.text \o SubSeq(la, before.used + 1, p))
            = Len(before.text) + Len(SubSeq(la, before.used + 1, p))
      BY <1>5, <3>2, ConcatProperties
    <3>4. Len(before.text) \in Nat
      BY <1>5, LenProperties
    <3>5. Len(before.text) + (p - (before.used + 1) + 1) = q - 1 + 1
      BY <1>5, <3>2, <3>3, <3>6, Zenon
    <3>7. before.used \in Nat
      BY <1>1, <1>5
    <3>8. \A x \in Nat, y \in Nat : x + (p - (y + 1) + 1) = q - 1 + 1 => x - y = q - p
      OBVIOUS
    <3>9. QED BY <3>4, <3>5, <3>7, <3>8, Zenon
  <2>3. /\ h.oldStart + h.oldLines - 1 = m /\ h.newStart + h.newLines - 1 = n
        /\ h.newStart - h.oldStart = Len(before.text) - before.used
    <3>1. (q + 1) - (p + 1) = q - p
      BY <1>1
    <3>2. QED BY <1>2, <2>1, <2>2, <3>1, Zenon
  <2>4. /\ LinesWith("-", h.lines) = SubSeq(la, h.oldStart, h.oldStart + h.oldLines - 1)
        /\ LinesWith("+", h.lines) = SubSeq(lb, h.newStart, h.newStart + h.newLines - 1)
    BY <1>1, <1>2, <2>3, Zenon
  <2>5. QED BY <2>3, <2>4, Zenon DEF HunkSays
<1>12. ASSUME NEW k \in 1..Len(u) PROVE HunkSays(la, lb, u[k], Patches(la, u)[k - 1])
  <2>1. CASE k \in 1..Len(hs)
    <3>1. k - 1 \in 0..Len(hs)
      BY <1>3, <2>1
    <3>2. QED BY <1>3, <1>4, <1>5, <2>1, <3>1
  <2>2. CASE k = Len(hs) + 1
    <3>1. k - 1 = Len(hs) /\ Len(hs) \in 0..Len(hs)
      BY <1>3, <2>2
    <3>2. QED BY <1>3, <1>4, <1>11, <2>2, <3>1 DEF before
  <2>3. k \in 1..Len(hs) \/ k = Len(hs) + 1
    BY <1>3
  <2>4. QED BY <2>1, <2>2, <2>3
<1>13. all.used \in 0..m
  BY <1>1, <1>7
<1>14. QED BY <1>2, <1>9, <1>10, <1>12, <1>13 DEF Rebuilds, all, u, h


\* Hunks that turn a text into another are none only if the two are one text.
LEMMA NoHunksNoChange ==
  ASSUME NEW la \in TextType, NEW lb \in TextType, Rebuilds(la, lb, <<>>, Len(la), Len(lb))
  PROVE  la = lb
<1>1. Len(<<>>) = 0 /\ Len(la) \in Nat /\ Len(lb) \in Nat /\ la \in Seq(TextLine) /\ lb \in Seq(TextLine)
  BY EmptySeq, LenProperties DEF TextType
<1>2. Patches(la, <<>>)[0] = Untouched
  BY <1>1, PatchStep
<1>3. Untouched.text = <<>> /\ Untouched.used + 1 = 1
  BY DEF Untouched
<1>4. <<>> \o SubSeq(la, 1, Len(la)) = SubSeq(lb, 1, Len(lb))
  BY <1>1, <1>2, <1>3, Zenon DEF Rebuilds
<1>5. SubSeq(la, 1, Len(la)) = la /\ SubSeq(lb, 1, Len(lb)) = lb
  BY <1>1, SubSeqFull
<1>6. <<>> \o la = la
  BY <1>1, ConcatEmptySeq
<1>7. QED BY <1>4, <1>5, <1>6, Zenon

-----------------------------------------------------------------------------
\* What the loop of computeByteDiff keeps.

NewlinesIn(bytes, o) == {n \in 1..o : bytes[n] = NL}
LastAmong(S) == IF S = {} THEN 0 ELSE CHOOSE n \in S : \A m \in S : m <= n

\* The first o bytes agree, and the position is that of what follows them.
Agreed(ba, bb, pos) ==
  /\ pos.offset <= Len(ba) /\ pos.offset <= Len(bb)
  /\ \A n \in 1..pos.offset : ba[n] = bb[n]
  /\ pos.line = Cardinality(NewlinesIn(ba, pos.offset)) + 1
  /\ pos.column = pos.offset + 1 - LastAmong(NewlinesIn(ba, pos.offset))

Differs(ba, bb, pos) ==
  ~(pos.offset < Len(ba) /\ pos.offset < Len(bb) /\ ba[pos.offset + 1] = bb[pos.offset + 1])

LEMMA NothingAgreed ==
  ASSUME NEW ba \in Seq(Nat), NEW bb \in Seq(Nat)
  PROVE  Agreed(ba, bb, NoAt)
<1>1. NoAt.offset = 0 /\ NoAt.line = 1 /\ NoAt.column = 1
  BY DEF NoAt
<1>2. Len(ba) \in Nat /\ Len(bb) \in Nat
  BY LenProperties
<1>3. NewlinesIn(ba, 0) = {}
  BY DEF NewlinesIn
<1>4. Cardinality({}) = 0
  BY FS_EmptySet
<1>5. LastAmong({}) = 0
  BY DEF LastAmong
<1>6. 0 <= Len(ba) /\ 0 <= Len(bb) /\ (\A n \in 1..0 : FALSE) /\ 1 = 0 + 1 /\ 1 = 0 + 1 - 0
  BY <1>2
<1>7. /\ NoAt.line = Cardinality(NewlinesIn(ba, 0)) + 1
      /\ NoAt.column = 0 + 1 - LastAmong(NewlinesIn(ba, 0))
  BY <1>1, <1>3, <1>4, <1>5, <1>6, Zenon
<1>8. QED BY <1>1, <1>6, <1>7, Zenon DEF Agreed

LEMMA NewlinesUpTo ==
  ASSUME NEW bytes, NEW o \in Nat
  PROVE  /\ IsFiniteSet(NewlinesIn(bytes, o)) /\ o + 1 \notin NewlinesIn(bytes, o)
         /\ NewlinesIn(bytes, o + 1) =
              IF bytes[o + 1] = NL THEN NewlinesIn(bytes, o) \cup {o + 1} ELSE NewlinesIn(bytes, o)
<1>1. IsFiniteSet(1..o)
  BY FS_Interval
<1>2. NewlinesIn(bytes, o) \subseteq 1..o /\ o + 1 \notin 1..o
  BY DEF NewlinesIn
<1>3. IsFiniteSet(NewlinesIn(bytes, o))
  BY <1>1, <1>2, FS_Subset
<1>4. 1..(o + 1) = (1..o) \cup {o + 1}
  OBVIOUS
<1>5. QED BY <1>2, <1>3, <1>4 DEF NewlinesIn

LEMMA BytePassed ==
  ASSUME NEW ba \in Seq(Nat), NEW bb \in Seq(Nat), NEW pos \in [offset : Nat, line : Nat, column : Nat],
         Agreed(ba, bb, pos), ~Differs(ba, bb, pos),
         NEW nextPos, nextPos.offset = pos.offset + 1,
         ba[pos.offset + 1] = NL => nextPos.line = pos.line + 1 /\ nextPos.column = 1,
         ba[pos.offset + 1] # NL => nextPos.line = pos.line /\ nextPos.column = pos.column + 1
  PROVE  Agreed(ba, bb, nextPos)
<1> DEFINE o == pos.offset
           before == NewlinesIn(ba, o)
           after == NewlinesIn(ba, o + 1)
<1>1. o \in Nat /\ pos.line \in Nat /\ pos.column \in Nat /\ Len(ba) \in Nat /\ Len(bb) \in Nat
  BY LenProperties
<1>2. /\ o < Len(ba) /\ o < Len(bb) /\ ba[o + 1] = bb[o + 1]
      /\ \A n \in 1..o : ba[n] = bb[n]
      /\ pos.line = Cardinality(before) + 1
      /\ pos.column = o + 1 - LastAmong(before)
  BY DEF Agreed, Differs
<1>3. /\ IsFiniteSet(before) /\ o + 1 \notin before
      /\ ba[o + 1] = NL => after = before \cup {o + 1}
      /\ ba[o + 1] # NL => after = before
  BY <1>1, NewlinesUpTo
<1>4. before \subseteq 1..o
  BY DEF NewlinesIn
<1> HIDE DEF o, before, after
<1>5. o + 1 <= Len(ba) /\ o + 1 <= Len(bb) /\ \A n \in 1..(o + 1) : ba[n] = bb[n]
  <2>1. \A n \in 1..(o + 1) : n \in 1..o \/ n = o + 1
    BY <1>1
  <2>2. \A n \in 1..(o + 1) : ba[n] = bb[n]
    BY <1>2, <2>1, Zenon
  <2>3. QED BY <1>1, <1>2, <2>2
<1>6. nextPos.line = Cardinality(after) + 1 /\ nextPos.column = o + 1 + 1 - LastAmong(after)
  <2>1. CASE ba[o + 1] = NL
    <3>1. Cardinality(after) = Cardinality(before) + 1
      BY <1>3, <2>1, FS_AddElement
    <3>2. nextPos.line = pos.line + 1 /\ nextPos.column = 1
      BY <2>1 DEF o
    <3>3. LastAmong(after) = o + 1
      <4>1. o + 1 \in after /\ \A n \in after : n \in Nat /\ n <= o + 1
        <5>1. after = before \cup {o + 1}
          BY <1>3, <2>1, Zenon
        <5>2. (\A n \in 1..o : n \in Nat /\ n <= o + 1) /\ o + 1 \in Nat /\ o + 1 <= o + 1
          BY <1>1
        <5>3. \A n \in after : n \in 1..o \/ n = o + 1
          BY <1>4, <5>1, Zenon
        <5>4. QED BY <5>1, <5>2, <5>3, Zenon
      <4>2. after # {} /\ \A n \in after : (\A m \in after : m <= n) => n = o + 1
        BY <1>1, <4>1
      <4>3. QED BY <4>1, <4>2 DEF LastAmong
    <3>4. o + 1 + 1 - (o + 1) = 1
      BY <1>1
    <3>5. QED BY <1>2, <3>1, <3>2, <3>3, <3>4, Zenon
  <2>2. CASE ba[o + 1] # NL
    <3>1. nextPos.line = pos.line /\ nextPos.column = pos.column + 1
      BY <2>2 DEF o
    <3>2. after = before
      BY <1>3, <2>2
    <3>3. nextPos.line = Cardinality(after) + 1
      BY <1>2, <3>1, <3>2, Zenon
    <3>4. nextPos.column = o + 1 - LastAmong(after) + 1
      BY <1>2, <3>1, <3>2, Zenon
    <3>5. LastAmong(after) \in Nat
      <4>1. CASE before = {}
        BY <3>2, <4>1 DEF LastAmong
      <4>2. CASE before # {}
        <5>1. \A n \in before : n \in Nat /\ n <= o
          BY <1>1, <1>4
        <5>2. \E n \in before : \A m \in before : m <= n
          BY <1>1, <4>2, <5>1, LargestOfNat
        <5>3. LastAmong(before) \in before
          BY <4>2, <5>2 DEF LastAmong
        <5>4. QED BY <3>2, <5>1, <5>3
      <4>3. QED BY <4>1, <4>2
    <3>6. \A x \in Nat : o + 1 - x + 1 = o + 1 + 1 - x
      BY <1>1
    <3>7. o + 1 - LastAmong(after) + 1 = o + 1 + 1 - LastAmong(after)
      BY <3>5, <3>6, Zenon
    <3>8. QED BY <3>3, <3>4, <3>7, Zenon
  <2>3. QED BY <2>1, <2>2
<1>7. nextPos.offset = o + 1
  BY DEF o
<1>8. QED BY <1>5, <1>6, <1>7, Zenon DEF Agreed, after

FirstDifference(ba, bb, pos) ==
  LET prefix == SubSeq(ba, 1, pos.offset)
      newlines == {n \in DOMAIN prefix : prefix[n] = NL}
  IN /\ prefix = SubSeq(bb, 1, pos.offset)
     /\ pos.offset < Len(ba) => ~IsPrefix(SubSeq(ba, 1, pos.offset + 1), bb)
     /\ pos.line = Cardinality(newlines) + 1
     /\ pos.column = pos.offset + 1 - (IF newlines = {} THEN 0 ELSE CHOOSE n \in newlines : \A m \in newlines : m <= n)

LEMMA AgreedUpToDifference ==
  ASSUME NEW ba \in Seq(Nat), NEW bb \in Seq(Nat), NEW pos \in [offset : Nat, line : Nat, column : Nat],
         Agreed(ba, bb, pos), Differs(ba, bb, pos)
  PROVE  FirstDifference(ba, bb, pos)
<1> DEFINE o == pos.offset
           prefix == SubSeq(ba, 1, o)
           other == SubSeq(bb, 1, o)
           longer == SubSeq(ba, 1, o + 1)
<1>1. /\ o \in Nat /\ Len(ba) \in Nat /\ Len(bb) \in Nat /\ 1 \in Nat \ {0} /\ 1 <= o + 1 /\ 1 <= o + 1 + 1
  BY LenProperties
<1>2. /\ o <= Len(ba) /\ o <= Len(bb) /\ \A n \in 1..o : ba[n] = bb[n]
      /\ pos.line = Cardinality(NewlinesIn(ba, o)) + 1
      /\ pos.column = o + 1 - LastAmong(NewlinesIn(ba, o))
      /\ ~(o < Len(ba) /\ o < Len(bb) /\ ba[o + 1] = bb[o + 1])
  BY DEF Agreed, Differs
<1> HIDE DEF o
<1>3. o \in 0..Len(ba) /\ o \in 0..Len(bb) /\ o - 1 + 1 = o /\ \A n \in 1..o : 1 + n - 1 = n
  BY <1>1, <1>2
<1>4. prefix \in Seq(Nat) /\ Len(prefix) = o /\ \A n \in 1..o : prefix[n] = ba[n]
  <2>1. /\ prefix \in Seq(Nat) /\ Len(prefix) = o - 1 + 1
        /\ \A n \in 1..(o - 1 + 1) : prefix[n] = ba[1 + n - 1]
    BY <1>1, <1>3, PieceType
  <2> HIDE DEF prefix
  <2>2. QED BY <1>3, <2>1
<1>5. other \in Seq(Nat) /\ Len(other) = o /\ \A n \in 1..o : other[n] = bb[n]
  <2>1. /\ other \in Seq(Nat) /\ Len(other) = o - 1 + 1
        /\ \A n \in 1..(o - 1 + 1) : other[n] = bb[1 + n - 1]
    BY <1>1, <1>3, PieceType
  <2> HIDE DEF other
  <2>2. QED BY <1>3, <2>1
<1>6. prefix = other
  <2> HIDE DEF prefix, other
  <2>1. \A n \in 1..Len(prefix) : prefix[n] = other[n]
    BY <1>2, <1>4, <1>5
  <2>2. QED BY <1>4, <1>5, <2>1, SeqEqual
<1>7. {n \in DOMAIN prefix : prefix[n] = NL} = NewlinesIn(ba, o)
  <2> HIDE DEF prefix
  <2>1. DOMAIN prefix = 1..o
    BY <1>4, LenProperties
  <2>2. QED BY <1>4, <2>1 DEF NewlinesIn
<1>8. ASSUME o < Len(ba), IsPrefix(longer, bb) PROVE FALSE
  <2>1. o + 1 \in 0..Len(ba) /\ o + 1 \in Nat /\ o + 1 - 1 + 1 = o + 1 /\ 1 + (o + 1) - 1 = o + 1
        /\ o + 1 \in 1..(o + 1)
    BY <1>1, <1>8
  <2>2. /\ longer \in Seq(Nat) /\ Len(longer) = o + 1 - 1 + 1
        /\ \A n \in 1..(o + 1 - 1 + 1) : longer[n] = ba[1 + n - 1]
    BY <1>1, <2>1, PieceType
  <2> HIDE DEF longer
  <2>3. Len(longer) = o + 1 /\ longer[o + 1] = ba[o + 1]
    BY <2>1, <2>2
  <2>4. o + 1 <= Len(bb) /\ SubSeq(longer, 1, o + 1) = SubSeq(bb, 1, o + 1)
    BY <1>8, <2>3, Zenon DEF IsPrefix
  <2>5. o < Len(bb) /\ o + 1 \in 0..Len(bb) /\ o + 1 \in 0..Len(longer)
    BY <1>1, <2>1, <2>3, <2>4
  <2>6. \A n \in 1..(o + 1 - 1 + 1) : SubSeq(longer, 1, o + 1)[n] = longer[1 + n - 1]
    BY <1>1, <2>2, <2>5, PieceType
  <2>7. \A n \in 1..(o + 1 - 1 + 1) : SubSeq(bb, 1, o + 1)[n] = bb[1 + n - 1]
    BY <1>1, <2>5, PieceType
  <2>8. SubSeq(longer, 1, o + 1)[o + 1] = longer[o + 1] /\ SubSeq(bb, 1, o + 1)[o + 1] = bb[o + 1]
    BY <2>1, <2>6, <2>7
  <2>9. ba[o + 1] = bb[o + 1]
    BY <2>3, <2>4, <2>8
  <2>10. QED BY <1>2, <1>8, <2>5, <2>9
<1>9. pos.line = Cardinality({n \in DOMAIN prefix : prefix[n] = NL}) + 1
  BY <1>2, <1>7, Zenon
<1> DEFINE newlines == {n \in DOMAIN prefix : prefix[n] = NL}
<1>10. pos.column = o + 1 - (IF newlines = {} THEN 0 ELSE CHOOSE n \in newlines : \A m \in newlines : m <= n)
  <2>1. pos.column = o + 1 - LastAmong(newlines)
    BY <1>2, <1>7, Zenon
  <2> HIDE DEF newlines
  <2>2. QED BY <2>1 DEF LastAmong
<1>11. QED BY <1>6, <1>8, <1>9, <1>10 DEF FirstDifference, o

-----------------------------------------------------------------------------
\* The inductive invariant of a diff.

DiffShape ==
  /\ dphase \in {"off", "readA", "readB", "compare", "scan", "old", "new", "bytes", "diffed", "failed"}
  /\ byteLevel \in BOOLEAN /\ identical \in BOOLEAN
  /\ linesA \in TextType /\ linesB \in TextType
  /\ i \in 0..Len(linesA) /\ j \in 0..Len(linesB)
  /\ start \in [old : Nat, new : Nat] /\ changed \in Seq(ChangedLine) /\ hunks \in Seq(Hunks)
  /\ at \in [offset : Nat, line : Nat, column : Nat]

\* Nothing is compared before both are read; what is compared afterwards differs.
Compared ==
  /\ dphase \in {"off", "readA", "readB", "compare"} =>
       i = 0 /\ j = 0 /\ hunks = <<>> /\ at = NoAt /\ identical = FALSE
  /\ dphase \in {"scan", "old", "new"} => byteLevel = FALSE
  /\ dphase = "bytes" => byteLevel = TRUE
  /\ dphase \in {"scan", "old", "new", "bytes"} => identical = FALSE /\ linesA # linesB
  /\ dphase = "diffed" => (identical = TRUE <=> linesA = linesB) /\ (identical = TRUE => hunks = <<>>)

ByLines ==
  /\ dphase = "scan" => Rebuilds(linesA, linesB, hunks, i, j)
  /\ dphase \in {"old", "new"} =>
       /\ Rebuilds(linesA, linesB, hunks, start.old, start.new)
       /\ InHunk(linesA, linesB, changed, start.old, start.new, i, j)
  /\ dphase = "diffed" /\ byteLevel = FALSE /\ identical = FALSE =>
       Rebuilds(linesA, linesB, hunks, i, j) /\ i = Len(linesA) /\ j = Len(linesB)

ByBytes ==
  /\ dphase = "bytes" => Agreed(BytesA, BytesB, at)
  /\ dphase = "diffed" /\ byteLevel = TRUE /\ identical = FALSE =>
       Agreed(BytesA, BytesB, at) /\ Differs(BytesA, BytesB, at)

DiffIInv == DiffShape /\ Compared /\ ByLines /\ ByBytes

LEMMA InitIsDiff == Init => DiffIInv
<1> SUFFICES ASSUME Init PROVE DiffIInv
  OBVIOUS
<1>1. DiffInit("readA") \/ DiffInit("off")
  BY DEF Init, NoDiff
<1>2. /\ dphase \in {"readA", "off"} /\ byteLevel \in BOOLEAN
      /\ linesA = <<>> /\ linesB = <<>> /\ i = 0 /\ j = 0
      /\ start = [old |-> 0, new |-> 0] /\ changed = <<>> /\ hunks = <<>>
      /\ at = NoAt /\ identical = FALSE
  BY <1>1 DEF DiffInit
<1>3. Len(<<>>) = 0 /\ <<>> \in TextType /\ <<>> \in Seq(ChangedLine) /\ <<>> \in Seq(Hunks)
  BY EmptySeq DEF TextType
<1>4. NoAt \in [offset : Nat, line : Nat, column : Nat] /\ start \in [old : Nat, new : Nat]
  BY <1>2 DEF NoAt
<1>5. i \in 0..Len(linesA) /\ j \in 0..Len(linesB)
  BY <1>2, <1>3
<1>6. DiffShape
  BY <1>2, <1>3, <1>4, <1>5 DEF DiffShape
<1>7. Compared /\ ByLines /\ ByBytes
  BY <1>2 DEF Compared, ByLines, ByBytes
<1>8. QED BY <1>6, <1>7 DEF DiffIInv

LEMMA ContentsAreTexts == \A t \in Contents : t \in TextType
BY ContentsAssumption DEF IsText, TextType, TextLine

LEMMA ReadKeepsDiff ==
  ASSUME DiffIInv, ReadA \/ ReadB
  PROVE  DiffIInv'
<1>1. /\ dphase \in {"readA", "readB"} /\ dphase' \in {"readB", "compare", "failed"}
      /\ linesA' = linesA \/ linesA' \in Contents
      /\ linesB' = linesB \/ linesB' \in Contents
      /\ UNCHANGED <<byteLevel, i, j, start, changed, hunks, at, identical>>
  BY DEF ReadA, ReadB
<1>2. linesA' \in TextType /\ linesB' \in TextType
  BY <1>1, ContentsAreTexts DEF DiffIInv, DiffShape
<1>3. i = 0 /\ j = 0 /\ hunks = <<>> /\ at = NoAt /\ identical = FALSE
  BY <1>1 DEF DiffIInv, Compared
<1>4. i' \in 0..Len(linesA') /\ j' \in 0..Len(linesB')
  <2>1. Len(linesA') \in Nat /\ Len(linesB') \in Nat
    BY <1>2, LenProperties DEF TextType
  <2>2. QED BY <1>1, <1>3, <2>1
<1>5. DiffShape'
  BY <1>1, <1>2, <1>4 DEF DiffIInv, DiffShape
<1>6. Compared' /\ ByLines' /\ ByBytes'
  BY <1>1, <1>3 DEF Compared, ByLines, ByBytes
<1>7. QED BY <1>5, <1>6 DEF DiffIInv

LEMMA CompareKeepsDiff ==
  ASSUME DiffIInv, Compare
  PROVE  DiffIInv'
<1>1. /\ dphase = "compare" /\ identical' = (linesA = linesB)
      /\ dphase' = IF linesA = linesB THEN "diffed" ELSE IF byteLevel THEN "bytes" ELSE "scan"
      /\ UNCHANGED <<byteLevel, linesA, linesB, i, j, start, changed, hunks, at>>
  BY DEF Compare
<1>2. i = 0 /\ j = 0 /\ hunks = <<>> /\ at = NoAt
  BY <1>1 DEF DiffIInv, Compared
<1>3. byteLevel \in BOOLEAN /\ linesA \in TextType /\ linesB \in TextType
  BY DEF DiffIInv, DiffShape
<1>4. DiffShape'
  BY <1>1 DEF DiffIInv, DiffShape
<1>5. Rebuilds(linesA, linesB, hunks, i, j)
  BY <1>2, <1>3, NothingRebuilds
<1>6. Agreed(BytesA, BytesB, at)
  <2>1. BytesA \in Seq(Nat) /\ BytesB \in Seq(Nat)
    BY <1>3, BytesType DEF BytesA, BytesB
  <2>2. QED BY <1>2, <2>1, NothingAgreed
<1>7. CASE linesA = linesB
  <2>1. identical' = TRUE /\ dphase' = "diffed" /\ linesA' = linesB' /\ hunks' = <<>>
    BY <1>1, <1>2, <1>7
  <2>2. Compared' /\ ByLines' /\ ByBytes'
    BY <2>1 DEF Compared, ByLines, ByBytes
  <2>3. QED BY <1>4, <2>2 DEF DiffIInv
<1>8. CASE linesA # linesB /\ byteLevel
  <2>1. identical' = FALSE /\ dphase' = "bytes" /\ byteLevel' = TRUE /\ linesA' # linesB'
    BY <1>1, <1>3, <1>8
  <2>2. Agreed(BytesA, BytesB, at)'
    BY <1>1, <1>6 DEF BytesA, BytesB
  <2>3. Compared' /\ ByLines' /\ ByBytes'
    BY <2>1, <2>2 DEF Compared, ByLines, ByBytes
  <2>4. QED BY <1>4, <2>3 DEF DiffIInv
<1>9. CASE linesA # linesB /\ ~byteLevel
  <2>1. identical' = FALSE /\ dphase' = "scan" /\ byteLevel' = FALSE /\ linesA' # linesB'
    BY <1>1, <1>3, <1>9
  <2>2. Rebuilds(linesA, linesB, hunks, i, j)'
    BY <1>1, <1>5
  <2>3. Compared' /\ ByLines' /\ ByBytes'
    BY <2>1, <2>2 DEF Compared, ByLines, ByBytes
  <2>4. QED BY <1>4, <2>3 DEF DiffIInv
<1>10. QED BY <1>7, <1>8, <1>9

LEMMA LinesKeepDiff ==
  ASSUME DiffIInv, DiffLines
  PROVE  DiffIInv'
<1>1. /\ dphase \in {"scan", "old", "new"} /\ dphase' \in {"scan", "old", "new", "diffed"}
      /\ UNCHANGED <<byteLevel, linesA, linesB, at, identical>>
  BY DEF DiffLines, SkipCommon, StartHunk, TakeOld, EndOld, TakeNew, EndHunk, DiffDone
<1>2. byteLevel = FALSE /\ identical = FALSE /\ linesA # linesB
  BY <1>1 DEF DiffIInv, Compared
<1>3. Compared' /\ ByBytes'
  BY <1>1, <1>2 DEF Compared, ByBytes
<1>4. /\ linesA \in TextType /\ linesB \in TextType /\ i \in 0..Len(linesA) /\ j \in 0..Len(linesB)
      /\ start \in [old : Nat, new : Nat] /\ changed \in Seq(ChangedLine) /\ hunks \in Seq(Hunks)
      /\ at \in [offset : Nat, line : Nat, column : Nat]
  BY DEF DiffIInv, DiffShape
<1>5. Len(linesA) \in Nat /\ Len(linesB) \in Nat /\ i \in Nat /\ j \in Nat
      /\ i <= Len(linesA) /\ j <= Len(linesB) /\ start.old \in Nat /\ start.new \in Nat
  BY <1>4, LenProperties DEF TextType
<1>6. SUFFICES /\ i' \in 0..Len(linesA) /\ j' \in 0..Len(linesB)
               /\ start' \in [old : Nat, new : Nat] /\ changed' \in Seq(ChangedLine) /\ hunks' \in Seq(Hunks)
               /\ ByLines'
  <2>1. ASSUME /\ i' \in 0..Len(linesA) /\ j' \in 0..Len(linesB)
               /\ start' \in [old : Nat, new : Nat] /\ changed' \in Seq(ChangedLine) /\ hunks' \in Seq(Hunks)
               /\ ByLines'
        PROVE  DiffIInv'
    <3>1. DiffShape'
      BY <1>1, <1>4, <2>1 DEF DiffIInv, DiffShape
    <3>2. QED BY <1>3, <2>1, <3>1 DEF DiffIInv
  <2>2. QED BY <2>1
<1>7. CASE SkipCommon
  <2>1. /\ dphase = "scan" /\ dphase' = "scan" /\ i < Len(linesA) /\ j < Len(linesB)
        /\ linesA[i + 1] = linesB[j + 1] /\ i' = i + 1 /\ j' = j + 1
        /\ UNCHANGED <<start, changed, hunks>>
    BY <1>7 DEF SkipCommon, MoreA, MoreB, LineA, LineB
  <2>2. Rebuilds(linesA, linesB, hunks, i, j)
    BY <2>1 DEF DiffIInv, ByLines
  <2>3. Rebuilds(linesA, linesB, hunks, i + 1, j + 1)
    BY <1>4, <1>5, <2>1, <2>2, CommonRebuilds
  <2>4. Rebuilds(linesA, linesB, hunks, i, j)'
    BY <1>1, <2>1, <2>3
  <2>5. ByLines'
    BY <2>1, <2>4 DEF ByLines
  <2>6. i' \in 0..Len(linesA) /\ j' \in 0..Len(linesB)
    BY <1>5, <2>1
  <2>7. QED BY <1>4, <2>1, <2>5, <2>6
<1>8. CASE StartHunk
  <2>1. /\ dphase = "scan" /\ dphase' = "old" /\ start' = [old |-> i, new |-> j] /\ changed' = <<>>
        /\ UNCHANGED <<i, j, hunks>>
    BY <1>8 DEF StartHunk
  <2>2. start'.old = i /\ start'.new = j /\ start' \in [old : Nat, new : Nat]
    BY <1>5, <2>1
  <2>3. Rebuilds(linesA, linesB, hunks, i, j) /\ InHunk(linesA, linesB, <<>>, i, j, i, j)
    BY <1>4, <1>5, <2>1, FreshHunk DEF DiffIInv, ByLines
  <2>4. /\ Rebuilds(linesA', linesB', hunks', start'.old, start'.new)
        /\ InHunk(linesA', linesB', changed', start'.old, start'.new, i', j')
    BY <1>1, <2>1, <2>2, <2>3
  <2>5. ByLines'
    BY <2>1, <2>4 DEF ByLines
  <2>6. changed' \in Seq(ChangedLine)
    BY <2>1, EmptySeq
  <2>7. QED BY <1>4, <2>1, <2>2, <2>5, <2>6
<1>9. CASE TakeOld
  <2>1. /\ dphase = "old" /\ dphase' = "old" /\ i < Len(linesA) /\ i' = i + 1
        /\ changed' = Append(changed, [sign |-> "-", line |-> linesA[i + 1]])
        /\ UNCHANGED <<j, start, hunks>>
    BY <1>9 DEF TakeOld, TakesOld, MoreA, LineA
  <2>2. /\ Rebuilds(linesA, linesB, hunks, start.old, start.new)
        /\ InHunk(linesA, linesB, changed, start.old, start.new, i, j)
    BY <2>1 DEF DiffIInv, ByLines
  <2> DEFINE c == [sign |-> "-", line |-> linesA[i + 1]]
  <2>3. c \in ChangedLine /\ InHunk(linesA, linesB, Append(changed, c), start.old, start.new, i + 1, j)
    BY <1>4, <1>5, <2>1, <2>2, OldTaken
  <2>4. changed' = Append(changed, c)
    BY <2>1
  <2> HIDE DEF c
  <2>5. changed' \in Seq(ChangedLine)
    BY <1>4, <2>3, <2>4, AppendProperties
  <2>6. /\ Rebuilds(linesA', linesB', hunks', start'.old, start'.new)
        /\ InHunk(linesA', linesB', changed', start'.old, start'.new, i', j')
    BY <1>1, <2>1, <2>2, <2>3, <2>4
  <2>7. ByLines'
    BY <2>1, <2>6 DEF ByLines
  <2>8. i' \in 0..Len(linesA)
    BY <1>5, <2>1
  <2>9. QED BY <1>4, <2>1, <2>5, <2>7, <2>8
<1>10. CASE EndOld
  <2>1. dphase = "old" /\ dphase' = "new" /\ UNCHANGED <<i, j, start, changed, hunks>>
    BY <1>10 DEF EndOld
  <2>2. /\ Rebuilds(linesA, linesB, hunks, start.old, start.new)
        /\ InHunk(linesA, linesB, changed, start.old, start.new, i, j)
    BY <2>1 DEF DiffIInv, ByLines
  <2>3. ByLines'
    BY <1>1, <2>1, <2>2 DEF ByLines
  <2>4. QED BY <1>4, <2>1, <2>3
<1>11. CASE TakeNew
  <2>1. /\ dphase = "new" /\ dphase' = "new" /\ j < Len(linesB) /\ j' = j + 1
        /\ changed' = Append(changed, [sign |-> "+", line |-> linesB[j + 1]])
        /\ UNCHANGED <<i, start, hunks>>
    BY <1>11 DEF TakeNew, TakesNew, MoreB, LineB
  <2>2. /\ Rebuilds(linesA, linesB, hunks, start.old, start.new)
        /\ InHunk(linesA, linesB, changed, start.old, start.new, i, j)
    BY <2>1 DEF DiffIInv, ByLines
  <2> DEFINE c == [sign |-> "+", line |-> linesB[j + 1]]
  <2>3. c \in ChangedLine /\ InHunk(linesA, linesB, Append(changed, c), start.old, start.new, i, j + 1)
    BY <1>4, <1>5, <2>1, <2>2, NewTaken
  <2>4. changed' = Append(changed, c)
    BY <2>1
  <2> HIDE DEF c
  <2>5. changed' \in Seq(ChangedLine)
    BY <1>4, <2>3, <2>4, AppendProperties
  <2>6. /\ Rebuilds(linesA', linesB', hunks', start'.old, start'.new)
        /\ InHunk(linesA', linesB', changed', start'.old, start'.new, i', j')
    BY <1>1, <2>1, <2>2, <2>3, <2>4
  <2>7. ByLines'
    BY <2>1, <2>6 DEF ByLines
  <2>8. j' \in 0..Len(linesB)
    BY <1>5, <2>1
  <2>9. QED BY <1>4, <2>1, <2>5, <2>7, <2>8
<1>12. CASE EndHunk
  <2> DEFINE h == Hunk(start.old + 1, i - start.old, start.new + 1, j - start.new, changed)
  <2>1. /\ dphase = "new" /\ dphase' = "scan" /\ changed' = <<>>
        /\ hunks' = IF changed = <<>> THEN hunks ELSE Append(hunks, h)
        /\ UNCHANGED <<i, j, start>>
    BY <1>12 DEF EndHunk
  <2>2. /\ Rebuilds(linesA, linesB, hunks, start.old, start.new)
        /\ InHunk(linesA, linesB, changed, start.old, start.new, i, j)
    BY <2>1 DEF DiffIInv, ByLines
  <2>3. h \in Hunks /\ Rebuilds(linesA, linesB, Append(hunks, h), i, j)
    BY <1>4, <1>5, <2>2, EndedRebuilds
  <2>4. Append(hunks, h) \in Seq(Hunks)
    BY <1>4, <2>3, AppendProperties
  <2> HIDE DEF h
  <2>5. hunks' \in Seq(Hunks) /\ Rebuilds(linesA, linesB, hunks', i, j)
    <3>1. CASE changed = <<>>
      <4>1. start.old <= i /\ start.new <= j /\ 0 = (i - start.old) + (j - start.new)
        BY <2>2, <3>1, EmptySeq DEF InHunk
      <4>2. start.old = i /\ start.new = j
        BY <1>5, <4>1
      <4>3. QED BY <1>4, <2>1, <2>2, <3>1, <4>2
    <3>2. CASE changed # <<>>
      BY <2>1, <2>3, <2>4, <3>2
    <3>3. QED BY <3>1, <3>2
  <2>6. Rebuilds(linesA', linesB', hunks', i', j')
    BY <1>1, <2>1, <2>5
  <2>7. ByLines'
    BY <2>1, <2>6 DEF ByLines
  <2>8. changed' \in Seq(ChangedLine)
    BY <2>1, EmptySeq
  <2>9. QED BY <1>4, <2>1, <2>5, <2>7, <2>8
<1>13. CASE DiffDone
  <2>1. /\ dphase = "scan" /\ dphase' = "diffed" /\ ~(i < Len(linesA)) /\ ~(j < Len(linesB))
        /\ UNCHANGED <<i, j, start, changed, hunks>>
    BY <1>13 DEF DiffDone, MoreA, MoreB
  <2>2. Rebuilds(linesA, linesB, hunks, i, j)
    BY <2>1 DEF DiffIInv, ByLines
  <2>3. i = Len(linesA) /\ j = Len(linesB)
    BY <1>5, <2>1
  <2>4. ByLines'
    BY <1>1, <2>1, <2>2, <2>3 DEF ByLines
  <2>5. QED BY <1>4, <2>1, <2>4
<1>14. QED BY <1>7, <1>8, <1>9, <1>10, <1>11, <1>12, <1>13 DEF DiffLines

LEMMA BytesKeepDiff ==
  ASSUME DiffIInv, NextByte \/ ByteFound
  PROVE  DiffIInv'
<1>1. /\ dphase = "bytes" /\ dphase' \in {"bytes", "diffed"}
      /\ UNCHANGED <<byteLevel, linesA, linesB, i, j, start, changed, hunks, identical>>
  BY DEF NextByte, ByteFound
<1>2. /\ byteLevel = TRUE /\ identical = FALSE /\ linesA # linesB
      /\ Agreed(BytesA, BytesB, at) /\ BytesA' = BytesA /\ BytesB' = BytesB
  BY <1>1 DEF DiffIInv, Compared, ByBytes, BytesA, BytesB
<1>3. /\ BytesA \in Seq(Nat) /\ BytesB \in Seq(Nat)
      /\ at \in [offset : Nat, line : Nat, column : Nat]
  BY BytesType DEF DiffIInv, DiffShape, BytesA, BytesB
<1>4. SameByte <=> ~Differs(BytesA, BytesB, at)
  BY DEF SameByte, Differs
<1>5. Compared' /\ ByLines'
  BY <1>1, <1>2 DEF Compared, ByLines
<1>6. CASE NextByte
  <2>1. dphase' = "bytes" /\ SameByte /\ at' = PassByte(BytesA[at.offset + 1])
    BY <1>1, <1>6 DEF NextByte
  <2>2. /\ at' \in [offset : Nat, line : Nat, column : Nat] /\ at'.offset = at.offset + 1
        /\ BytesA[at.offset + 1] = NL => at'.line = at.line + 1 /\ at'.column = 1
        /\ BytesA[at.offset + 1] # NL => at'.line = at.line /\ at'.column = at.column + 1
    <3> DEFINE byte == BytesA[at.offset + 1]
    <3>1. at.offset \in Nat /\ at.line \in Nat /\ at.column \in Nat
      BY <1>3
    <3>2. at' = PassByte(byte)
      BY <2>1
    <3> HIDE DEF byte
    <3>3. CASE byte = NL
      <4>1. at' = [offset |-> at.offset + 1, line |-> at.line + 1, column |-> 1]
        BY <3>2, <3>3 DEF PassByte
      <4>2. QED BY <3>1, <3>3, <4>1 DEF byte
    <3>4. CASE byte # NL
      <4>1. at' = [at EXCEPT !.offset = @ + 1, !.column = @ + 1]
        BY <3>2, <3>4 DEF PassByte
      <4>2. at'.offset = at.offset + 1 /\ at'.line = at.line /\ at'.column = at.column + 1
        BY <1>3, <4>1
      <4>3. at' \in [offset : Nat, line : Nat, column : Nat]
        <5>1. at = [offset |-> at.offset, line |-> at.line, column |-> at.column]
          BY <1>3
        <5>2. at' = [offset |-> at.offset + 1, line |-> at.line, column |-> at.column + 1]
          BY <4>1, <5>1
        <5>3. at.offset + 1 \in Nat /\ at.column + 1 \in Nat
          BY <3>1
        <5>4. QED BY <3>1, <5>2, <5>3
      <4>4. QED BY <3>4, <4>2, <4>3 DEF byte
    <3>5. QED BY <3>3, <3>4
  <2>3. Agreed(BytesA, BytesB, at')
    BY <1>2, <1>3, <1>4, <2>1, <2>2, BytePassed
  <2>4. ByBytes'
    BY <1>2, <2>1, <2>3 DEF ByBytes
  <2>5. DiffShape'
    BY <1>1, <2>1, <2>2 DEF DiffIInv, DiffShape
  <2>6. QED BY <1>5, <2>4, <2>5 DEF DiffIInv
<1>7. CASE ByteFound
  <2>1. dphase' = "diffed" /\ ~SameByte /\ at' = at
    BY <1>7 DEF ByteFound
  <2>2. ByBytes'
    BY <1>2, <1>4, <2>1 DEF ByBytes
  <2>3. DiffShape'
    BY <1>1, <2>1 DEF DiffIInv, DiffShape
  <2>4. QED BY <1>5, <2>2, <2>3 DEF DiffIInv
<1>8. QED BY <1>6, <1>7

LEMMA NextKeepsDiff ==
  ASSUME DiffIInv, [Next]_requestVars
  PROVE  DiffIInv'
<1>1. CASE DiffNext
  BY <1>1, ReadKeepsDiff, CompareKeepsDiff, LinesKeepDiff, BytesKeepDiff DEF DiffNext
<1>2. CASE UNCHANGED diffVars
  BY <1>2 DEF diffVars, DiffIInv, DiffShape, Compared, ByLines, ByBytes, BytesA, BytesB
<1>3. QED BY <1>1, <1>2 DEF Next, DiffStep, CatStep, CallStep, requestVars

LEMMA DiffIInvIsExact == DiffIInv => DiffIsExact
<1> SUFFICES ASSUME DiffIInv PROVE DiffIsExact
  OBVIOUS
<1>1. /\ linesA \in TextType /\ linesB \in TextType /\ hunks \in Seq(Hunks)
      /\ byteLevel \in BOOLEAN /\ identical \in BOOLEAN
      /\ at \in [offset : Nat, line : Nat, column : Nat]
  BY DEF DiffIInv, DiffShape
<1>2. DOMAIN hunks = 1..Len(hunks)
  BY <1>1, LenProperties
<1>3. ASSUME dphase \in {"scan", "diffed"}, ~byteLevel PROVE HunksRebuild
  <2>1. CASE identical
    <3>1. hunks = <<>>
      BY <1>3, <2>1 DEF DiffIInv, Compared
    <3>2. DOMAIN hunks = {}
      BY <1>2, <3>1, EmptySeq
    <3>3. QED BY <2>1, <3>2 DEF HunksRebuild
  <2>2. CASE ~identical
    <3>1. Rebuilds(linesA, linesB, hunks, i, j)
      BY <1>1, <1>3, <2>2 DEF DiffIInv, ByLines
    <3>2. QED BY <1>2, <3>1, PatchedIsPatches DEF HunksRebuild, Rebuilds, HunkSays
  <2>3. QED BY <2>1, <2>2
<1>4. ASSUME dphase = "diffed", ~byteLevel PROVE (hunks = <<>>) = (linesA = linesB)
  <2>1. CASE identical
    BY <1>1, <1>4, <2>1 DEF DiffIInv, Compared
  <2>2. CASE ~identical
    <3>1. Rebuilds(linesA, linesB, hunks, Len(linesA), Len(linesB)) /\ linesA # linesB
      BY <1>1, <1>4, <2>2 DEF DiffIInv, ByLines, Compared
    <3>2. hunks # <<>>
      BY <1>1, <3>1, NoHunksNoChange
    <3>3. QED BY <3>1, <3>2
  <2>3. QED BY <2>1, <2>2
<1>5. ASSUME dphase = "diffed", byteLevel, ~identical PROVE AtFirstDifference
  <2>1. Agreed(BytesA, BytesB, at) /\ Differs(BytesA, BytesB, at)
    BY <1>1, <1>5 DEF DiffIInv, ByBytes
  <2>2. BytesA \in Seq(Nat) /\ BytesB \in Seq(Nat)
    BY <1>1, BytesType DEF BytesA, BytesB
  <2>3. FirstDifference(BytesA, BytesB, at)
    BY <1>1, <2>1, <2>2, AgreedUpToDifference
  <2>4. QED BY <2>3 DEF FirstDifference, AtFirstDifference
<1>6. QED BY <1>3, <1>4, <1>5 DEF DiffIsExact

\* Whatever the two contents are, the hunks of a diff by lines rebuild the
\* second from the first at every point between two of them, each hunk says
\* where its lines lie on both sides, and there is none exactly for identical
\* contents (computeDiff); a diff by bytes that found a difference names the
\* offset, line and column of the first one (computeByteDiff).
THEOREM HunksAreExact == Spec => []DiffIsExact
<1>1. Init => DiffIInv
  BY InitIsDiff
<1>2. DiffIInv /\ [Next]_requestVars => DiffIInv'
  BY NextKeepsDiff
<1>3. DiffIInv => DiffIsExact
  BY DiffIInvIsExact
<1>4. QED BY <1>1, <1>2, <1>3, PTL DEF Spec

-----------------------------------------------------------------------------
\* What a cat collects.

Errors == {"none", "ACCESS_DENIED", "NOT_FOUND", "IS_DIRECTORY", "CANNOT_READ"}
CatEntry == [path : Paths, size : Nat, error : Errors, binary : BOOLEAN,
             content : FileText, lines : Nat, truncated : BOOLEAN]

LEMMA TextsOfFiles == \A t : IsText(t) <=> t \in FileText
BY DEF IsText, FileText, TextType, TextLine

UpTo(ps, f, m) ==
  f = [n \in 0..m |-> IF n = 0 THEN <<>>
                      ELSE IF PathOrder[n] \in ps THEN Append(f[n - 1], PathOrder[n]) ELSE f[n - 1]]

LEMMA UpToExists == ASSUME NEW ps, NEW l \in Nat PROVE \E f : UpTo(ps, f, l)
<1> DEFINE Q == {m \in Nat : \E f : UpTo(ps, f, m)}
<1>1. 0 \in Q
  <2> DEFINE f == [n \in 0..0 |-> <<>>]
  <2>1. \A n \in 0..0 : n = 0
    OBVIOUS
  <2>2. UpTo(ps, f, 0)
    BY <2>1 DEF UpTo
  <2>3. QED BY <2>2
<1>2. ASSUME NEW m \in Nat, m \in Q PROVE m + 1 \in Q
  <2>1. PICK f : UpTo(ps, f, m)
    BY <1>2
  <2> DEFINE last == IF PathOrder[m + 1] \in ps THEN Append(f[m], PathOrder[m + 1]) ELSE f[m]
             g == [n \in 0..(m + 1) |-> IF n = m + 1 THEN last ELSE f[n]]
             step(n) == IF n = 0 THEN <<>>
                        ELSE IF PathOrder[n] \in ps THEN Append(g[n - 1], PathOrder[n]) ELSE g[n - 1]
  <2>2. \A n \in 0..m : n \in 0..(m + 1) /\ n # m + 1 /\ g[n] = f[n]
    OBVIOUS
  <2>3. \A n \in 0..(m + 1) : n = m + 1 \/ (n \in 0..m /\ (n # 0 => n - 1 \in 0..m))
    OBVIOUS
  <2>4. \A n \in 0..m : f[n] = IF n = 0 THEN <<>>
                               ELSE IF PathOrder[n] \in ps THEN Append(f[n - 1], PathOrder[n]) ELSE f[n - 1]
    BY <2>1 DEF UpTo
  <2>5. g[m + 1] = last /\ m + 1 # 0 /\ (m + 1) - 1 = m /\ m \in 0..m /\ m + 1 \in 0..(m + 1)
    OBVIOUS
  <2> HIDE DEF g
  <2>6. \A n \in 0..(m + 1) : g[n] = step(n)
    BY <2>2, <2>3, <2>4, <2>5
  <2>7. g = [n \in 0..(m + 1) |-> g[n]]
    BY DEF g
  <2>8. g = [n \in 0..(m + 1) |-> step(n)]
    BY <2>6, <2>7
  <2>9. UpTo(ps, g, m + 1)
    BY <2>8 DEF UpTo
  <2>10. QED BY <2>9
<1>3. l \in Q
  <2> HIDE DEF Q
  <2> QED BY <1>1, <1>2, InductionOnNat
<1>4. QED BY <1>3

\* The paths of a set, each listed once.
LEMMA InOrderLists ==
  ASSUME NEW ps
  PROVE  /\ InOrder(ps) \in Seq(Paths) /\ ToSet(InOrder(ps)) = ps \cap Paths
         /\ IsInjective(InOrder(ps))
<1> DEFINE l == Len(PathOrder)
           F == CHOOSE f : UpTo(ps, f, l)
<1>1. /\ l \in Nat /\ DOMAIN PathOrder = 1..l /\ \A n \in 1..l : PathOrder[n] \in Paths
      /\ \A m, n \in 1..l : PathOrder[m] = PathOrder[n] => m = n
      /\ Paths = {PathOrder[n] : n \in 1..l}
  BY PathOrderAssumption, LenProperties, ElementOfSeq DEF IsInjective, Paths
<1>2. UpTo(ps, F, l)
  BY <1>1, UpToExists
<1>3. InOrder(ps) = F[l]
  BY DEF InOrder, UpTo, l
<1> HIDE DEF l, F
<1>4. \A n \in 0..l : F[n] = IF n = 0 THEN <<>>
                             ELSE IF PathOrder[n] \in ps THEN Append(F[n - 1], PathOrder[n]) ELSE F[n - 1]
  BY <1>2 DEF UpTo
<1> DEFINE upto(n) == {PathOrder[k] : k \in 1..n}
           Q == {n \in Nat : n <= l => F[n] \in Seq(Paths) /\ ToSet(F[n]) = ps \cap upto(n) /\ IsInjective(F[n])}
<1>5. 0 \in Q
  <2>1. upto(0) = {} /\ 0 \in 0..l /\ <<>> \in Seq(Paths) /\ ToSet(<<>>) = {}
    BY <1>1, EmptySeq, SetOfFew
  <2>2. F[0] = <<>>
    BY <1>4, <2>1
  <2>3. IsInjective(<<>>)
    BY DEF IsInjective
  <2>4. QED BY <2>1, <2>2, <2>3
<1>6. ASSUME NEW n \in Nat, n \in Q PROVE n + 1 \in Q
  <2> SUFFICES ASSUME n + 1 <= l
               PROVE  /\ F[n + 1] \in Seq(Paths) /\ ToSet(F[n + 1]) = ps \cap upto(n + 1)
                      /\ IsInjective(F[n + 1])
    OBVIOUS
  <2> DEFINE s == F[n]
             x == PathOrder[n + 1]
  <2>1. /\ s \in Seq(Paths) /\ ToSet(s) = ps \cap upto(n) /\ IsInjective(s)
        /\ n + 1 \in 1..l /\ x \in Paths
        /\ F[n + 1] = IF x \in ps THEN Append(s, x) ELSE s
    <3>1. n <= l /\ n + 1 \in 0..l /\ n + 1 # 0 /\ (n + 1) - 1 = n /\ n + 1 \in 1..l
      BY <1>1
    <3>2. F[n + 1] = IF x \in ps THEN Append(s, x) ELSE s
      BY <1>4, <3>1
    <3>3. QED BY <1>1, <1>6, <3>1, <3>2
  <2>2. upto(n + 1) = upto(n) \cup {x} /\ x \notin upto(n)
    <3>1. 1..(n + 1) = 1..n \cup {n + 1} /\ n + 1 \notin 1..n /\ \A k \in 1..n : k \in 1..l
      BY <1>1, <2>1
    <3>2. QED BY <1>1, <2>1, <3>1
  <2> HIDE DEF s, x, upto
  <2>3. CASE x \in ps
    <3>1. Append(s, x) \in Seq(Paths) /\ ToSet(Append(s, x)) = ToSet(s) \cup {x}
      BY <2>1, SetOfAppend
    <3>2. IsInjective(Append(s, x))
      <4> DEFINE t == Append(s, x)
      <4>1. /\ t \in Seq(Paths) /\ Len(t) = Len(s) + 1 /\ t[Len(s) + 1] = x
            /\ \A a \in 1..Len(s) : t[a] = s[a]
        BY <2>1, AppendProperties
      <4>2. Len(s) \in Nat /\ DOMAIN s = 1..Len(s) /\ DOMAIN t = 1..(Len(s) + 1)
        BY <2>1, <4>1, LenProperties
      <4>3. \A a \in 1..Len(s) : s[a] # x
        BY <2>1, <2>2, <4>2 DEF ToSet
      <4> HIDE DEF t
      <4>4. ASSUME NEW a \in 1..(Len(s) + 1), NEW b \in 1..(Len(s) + 1), t[a] = t[b] PROVE a = b
        <5>1. (a \in 1..Len(s) \/ a = Len(s) + 1) /\ (b \in 1..Len(s) \/ b = Len(s) + 1)
          BY <4>2
        <5>2. \A h, k \in 1..Len(s) : s[h] = s[k] => h = k
          BY <2>1, <4>2 DEF IsInjective
        <5>3. QED BY <4>1, <4>3, <4>4, <5>1, <5>2
      <4>5. IsInjective(t)
        BY <4>2, <4>4 DEF IsInjective
      <4>6. QED BY <4>5 DEF t
    <3>3. QED BY <2>1, <2>2, <2>3, <3>1, <3>2
  <2>4. CASE x \notin ps
    BY <2>1, <2>2, <2>4
  <2>5. QED BY <2>3, <2>4
<1>7. l \in Q
  <2> HIDE DEF Q
  <2> QED BY <1>1, <1>5, <1>6, InductionOnNat
<1>8. upto(l) = Paths /\ l <= l
  BY <1>1
<1>9. QED BY <1>3, <1>7, <1>8

LEMMA InOrderType == \A ps : InOrder(ps) \in Seq(Paths)
BY InOrderLists

LEMMA ContentType ==
  ASSUME NEW t \in FileText, call.lines \in Int
  PROVE  /\ ContentOf(t).content \in FileText /\ ContentOf(t).lines \in Nat
         /\ ContentOf(t).truncated \in BOOLEAN
<1>1. /\ LineCount(t) \in Nat /\ LineCount(t) <= Len(t) /\ Len(t) \in Nat
      /\ \A n \in 1..Len(t) : t[n] \in TextLine
  BY LineCountType, ElementOfSeq DEF FileText, TextType
<1>2. CASE call.lines > 0
  <2> DEFINE ls == ScanLines(t)
             k == IF Len(ls) < call.lines THEN Len(ls) ELSE call.lines
             kept == SubSeq(ls, 1, k)
  <2>1. \A n \in 1..LineCount(t) : DropCR(t[n]) \in TextLine
    BY <1>1, DropCRType
  <2>2. ls \in Seq(TextLine) /\ Len(ls) \in Nat
    <3>1. ls = [n \in 1..LineCount(t) |-> DropCR(t[n])]
      BY DEF ScanLines
    <3> HIDE DEF ls
    <3>2. ls \in Seq(TextLine)
      BY <1>1, <2>1, <3>1, IsASeq
    <3>3. QED BY <3>2, LenProperties
  <2> HIDE DEF ls
  <2>3. k \in 0..Len(ls) /\ 1 \in Nat \ {0} /\ 1 <= k + 1 /\ k - 1 + 1 = k
    BY <1>2, <2>2
  <2> HIDE DEF k
  <2>4. kept \in Seq(TextLine) /\ Len(kept) \in Nat
    BY <2>2, <2>3, PieceType, LenProperties
  <2>5. ContentOf(t) = [content |-> Ended(kept), lines |-> Len(kept), truncated |-> Len(ls) > call.lines]
    BY <1>2 DEF ContentOf, FirstLines, ls, k
  <2>6. Ended(kept) \in FileText
    <3>1. <<>> \in TextLine
      BY EmptySeq DEF TextLine
    <3>2. Append(kept, <<>>) \in Seq(TextLine) /\ Len(Append(kept, <<>>)) = Len(kept) + 1
      BY <2>4, <3>1, AppendProperties
    <3>3. Append(kept, <<>>) # <<>>
      <4>1. Len(kept) + 1 # 0 /\ Len(<<>>) = 0
        BY <2>4, EmptySeq
      <4>2. QED BY <3>2, <4>1
    <3>4. QED BY <3>2, <3>3 DEF Ended, FileText, TextType
  <2> HIDE DEF kept
  <2>7. QED BY <2>4, <2>5, <2>6
<1>3. CASE ~(call.lines > 0)
  <2>1. ContentOf(t) = [content |-> t, lines |-> LineCount(t), truncated |-> FALSE]
    BY <1>3 DEF ContentOf, FullFile
  <2>2. QED BY <1>1, <2>1
<1>4. QED BY <1>2, <1>3

LEMMA EmptyTextSize == EmptyText \in FileText /\ Size(EmptyText) = 0
<1>1. <<>> \in TextLine /\ Len(<<>>) = 0
  BY EmptySeq DEF TextLine
<1>2. <<<<>>>> \in Seq(TextLine) /\ Len(<<<<>>>>) = 1 /\ <<<<>>>>[1] = <<>> /\ <<<<>>>> # <<>>
  BY <1>1
<1>3. EmptyText \in FileText
  BY <1>2 DEF EmptyText, FileText, TextType
<1>4. [n \in DOMAIN EmptyText |-> IF n = Len(EmptyText) THEN EmptyText[n] ELSE Append(EmptyText[n], NL)]
        = Append(<<>>, <<>>)
  <2>1. [n \in DOMAIN EmptyText |-> IF n = Len(EmptyText) THEN EmptyText[n] ELSE Append(EmptyText[n], NL)]
          = [n \in 1..1 |-> <<>>]
    BY <1>2 DEF EmptyText
  <2>2. Append(<<>>, <<>>) = <<<<>>>>
    OBVIOUS
  <2>3. [n \in 1..1 |-> <<>>] = <<<<>>>>
    OBVIOUS
  <2>4. QED BY <2>1, <2>2, <2>3
<1>5. FlattenSeq(Append(<<>>, <<>>)) = <<>>
  <2>1. <<>> \in Seq(Seq(Nat)) /\ <<>> \in Seq(Nat)
    BY EmptySeq
  <2>2. QED BY <2>1, FlattenOfAppend
<1>6. QED BY <1>1, <1>3, <1>4, <1>5 DEF Size, Bytes

Contained(es) == [n \in DOMAIN es |-> Bytes(es[n].content)]

LEMMA ContainedType ==
  ASSUME NEW es \in Seq(CatEntry)
  PROVE  Contained(es) \in Seq(Seq(Nat)) /\ Len(Contained(es)) = Len(es)
<1>1. Len(es) \in Nat /\ DOMAIN es = 1..Len(es) /\ \A n \in 1..Len(es) : es[n] \in CatEntry
  BY LenProperties, ElementOfSeq
<1>2. \A n \in 1..Len(es) : Bytes(es[n].content) \in Seq(Nat)
  <2>1. \A n \in 1..Len(es) : es[n].content \in FileText
    BY <1>1 DEF CatEntry
  <2>2. QED BY <2>1, SizeType
<1>3. Contained(es) = [n \in 1..Len(es) |-> Bytes(es[n].content)]
  BY <1>1 DEF Contained
<1>4. Contained(es) \in Seq(Seq(Nat))
  BY <1>1, <1>2, <1>3, IsASeq
<1>5. DOMAIN Contained(es) = 1..Len(es)
  BY <1>3
<1>6. Len(Contained(es)) \in Nat /\ DOMAIN Contained(es) = 1..Len(Contained(es))
  BY <1>4, LenProperties
<1>7. Len(Contained(es)) = Len(es)
  BY <1>1, <1>5, <1>6
<1>8. QED BY <1>4, <1>7

LEMMA TotalOfNothing == Total(<<>>) = 0
<1>1. <<>> \in Seq(CatEntry) /\ Len(<<>>) = 0 /\ <<>> \in Seq(Seq(Nat)) /\ <<>> \in Seq(Nat)
  BY EmptySeq
<1>2. Contained(<<>>) = <<>>
  BY <1>1, ContainedType, EmptySeq
<1>3. FlattenSeq(<<>>) = <<>>
  BY <1>1, FlattenOfAppend
<1>4. QED BY <1>1, <1>2, <1>3 DEF Total, Contained

LEMMA TotalOfAppend ==
  ASSUME NEW es \in Seq(CatEntry), NEW e \in CatEntry
  PROVE  Total(Append(es, e)) = Total(es) + Size(e.content) /\ Total(es) \in Nat
<1> DEFINE u == Append(es, e)
           ss == Contained(es)
           d == Bytes(e.content)
<1>1. /\ u \in Seq(CatEntry) /\ Len(u) = Len(es) + 1 /\ u[Len(es) + 1] = e /\ Len(es) \in Nat
      /\ \A n \in 1..Len(es) : u[n] = es[n]
  BY AppendProperties, LenProperties
<1>2. e.content \in FileText
  BY DEF CatEntry
<1>3. d \in Seq(Nat) /\ Len(d) = Size(e.content) /\ Size(e.content) \in Nat
  BY <1>2, SizeType DEF Size
<1>4. ss \in Seq(Seq(Nat)) /\ Len(ss) = Len(es)
  BY ContainedType
<1>5. /\ DOMAIN u = 1..(Len(es) + 1) /\ DOMAIN es = 1..Len(es)
  BY <1>1, LenProperties
<1> HIDE DEF u, d
<1>6. Contained(u) \in Seq(Seq(Nat)) /\ Len(Contained(u)) = Len(es) + 1
  BY <1>1, ContainedType
<1>7. Contained(u) = Append(ss, d)
  <2>1. /\ Append(ss, d) \in Seq(Seq(Nat)) /\ Len(Append(ss, d)) = Len(es) + 1
        /\ Append(ss, d)[Len(es) + 1] = d
        /\ \A n \in 1..Len(es) : Append(ss, d)[n] = ss[n]
    BY <1>3, <1>4, AppendProperties
  <2>2. ASSUME NEW n \in 1..(Len(es) + 1) PROVE Contained(u)[n] = Append(ss, d)[n]
    <3>1. Contained(u)[n] = Bytes(u[n].content)
      BY <1>5 DEF Contained
    <3>2. CASE n \in 1..Len(es)
      <4>1. u[n] = es[n] /\ ss[n] = Bytes(es[n].content) /\ Append(ss, d)[n] = ss[n]
        BY <1>1, <1>5, <2>1, <3>2 DEF Contained
      <4>2. QED BY <3>1, <4>1, Zenon
    <3>3. CASE n = Len(es) + 1
      BY <1>1, <2>1, <3>1, <3>3 DEF d
    <3>4. n \in 1..Len(es) \/ n = Len(es) + 1
      BY <1>1
    <3>5. QED BY <3>2, <3>3, <3>4
  <2> HIDE DEF ss
  <2>3. \A n \in 1..Len(Contained(u)) : Contained(u)[n] = Append(ss, d)[n]
    BY <1>6, <2>2
  <2>4. QED BY <1>6, <2>1, <2>3, SeqEqual
<1> HIDE DEF ss
<1>8. FlattenSeq(Contained(u)) = IF ss = <<>> THEN d ELSE FlattenSeq(ss) \o d
  BY <1>3, <1>4, <1>7, FlattenOfAppend
<1>9. FlattenSeq(ss) \in Seq(Nat)
  BY <1>4, FlattenType
<1>10. Total(u) = Len(FlattenSeq(Contained(u))) /\ Total(es) = Len(FlattenSeq(ss)) /\ Total(es) \in Nat
  BY <1>9, LenProperties DEF Total, Contained, ss
<1>11. CASE ss = <<>>
  <2>1. FlattenSeq(<<>>) = <<>> /\ Len(<<>>) = 0
    BY <1>3, <1>4, FlattenOfAppend, EmptySeq
  <2>2. QED BY <1>3, <1>8, <1>10, <1>11, <2>1 DEF u
<1>12. CASE ss # <<>>
  <2>1. Len(FlattenSeq(ss) \o d) = Len(FlattenSeq(ss)) + Len(d)
    BY <1>3, <1>9, ConcatProperties
  <2>2. QED BY <1>3, <1>8, <1>10, <1>12, <2>1 DEF u
<1>13. QED BY <1>11, <1>12

-----------------------------------------------------------------------------
\* The inductive invariant of a cat.

CatShape ==
  /\ cphase \in {"off", "begin", "roots", "files", "stat", "peek", "read", "served", "refused"}
  /\ call \in CatCalls /\ catWrites \in 0..maxWrites
  /\ DOMAIN tree = Paths /\ \A p \in Paths : IsNode(tree[p])
  /\ rootAt \in 1..(Len(call.roots) + 1) /\ list \in Seq(Paths) /\ next \in Nat
  /\ target \in [path : Paths, size : Nat]
  /\ entries \in Seq(CatEntry) /\ totals \in [bytes : Nat, read : Nat, skipped : Nat]
  /\ limit \in {"none", "max_files_limit", "output_size_limit"}

\* One entry for each file in front of the next, in their order.
OnePerFile ==
  /\ next = Len(entries) + 1 /\ Len(entries) <= Len(list) /\ Len(entries) <= MaxFiles
  /\ \A n \in 1..Len(entries) : entries[n].path = list[n]
  /\ cphase \in {"begin", "roots"} => Len(entries) = 0
  /\ cphase \in {"stat", "peek", "read"} => next <= Len(list) /\ Len(entries) < MaxFiles

\* The counters are those of the entries.
CountsAddUp ==
  /\ totals.read + totals.skipped = Len(entries)
  /\ totals.bytes = Total(entries) /\ totals.bytes <= MaxTotal

LimitIsHonest ==
  /\ cphase # "served" => limit = "none"
  /\ cphase = "served" => (limit # "none" <=> Len(entries) < Len(list))

CatIInv == CatShape /\ OnePerFile /\ CountsAddUp /\ LimitIsHonest

LEMMA LimitsType ==
  ASSUME call \in CatCalls
  PROVE  /\ MaxTotal \in Nat /\ MaxFiles \in Nat /\ call.lines \in Int
         /\ call.paths \in Seq(Paths) /\ call.roots \in Seq(Paths)
<1>1. /\ call.maxTotal \in Int /\ call.maxFiles \in Int /\ call.lines \in Int
      /\ call.paths \in Seq(Paths) /\ call.roots \in Seq(Paths)
  BY CatCallsAssumption
<1>2. QED BY <1>1 DEF MaxTotal, MaxFiles

LEMMA InitIsCat == Init => CatIInv
<1> SUFFICES ASSUME Init PROVE CatIInv
  OBVIOUS
<1>1. CatInit("off") \/ CatInit("begin")
  BY DEF Init, NoCat
<1>2. /\ cphase \in {"off", "begin"} /\ call \in CatCalls /\ tree \in Trees
      /\ rootAt = 1 /\ list = <<>> /\ next = 1 /\ target = NoTarget(PathOrder[1])
      /\ entries = <<>> /\ totals = NoTotals /\ limit = "none" /\ catWrites = 0
  BY <1>1 DEF CatInit
<1>3. MaxTotal \in Nat /\ MaxFiles \in Nat /\ call.roots \in Seq(Paths)
  BY <1>2, LimitsType
<1>4. Len(<<>>) = 0 /\ <<>> \in Seq(Paths) /\ <<>> \in Seq(CatEntry)
  BY EmptySeq
<1>5. target \in [path : Paths, size : Nat]
  <2>1. Len(PathOrder) \in Nat \ {0}
    BY PathOrderAssumption, EmptySeq
  <2>2. PathOrder[1] \in Paths
    BY <2>1, PathOrderAssumption, ElementOfSeq
  <2>3. QED BY <1>2, <2>2 DEF NoTarget
<1>6. DOMAIN tree = Paths /\ \A p \in Paths : IsNode(tree[p])
  BY <1>2, TreesAssumption
<1>7. rootAt \in 1..(Len(call.roots) + 1) /\ catWrites \in 0..maxWrites
  <2>1. Len(call.roots) \in Nat /\ maxWrites \in Nat
    BY <1>3, LenProperties, CatBoundsAssumption
  <2>2. QED BY <1>2, <2>1
<1>8. totals \in [bytes : Nat, read : Nat, skipped : Nat]
      /\ totals.bytes = 0 /\ totals.read = 0 /\ totals.skipped = 0
  BY <1>2 DEF NoTotals
<1>9. CatShape
  BY <1>2, <1>4, <1>5, <1>6, <1>7, <1>8 DEF CatShape
<1>10. OnePerFile
  BY <1>2, <1>3, <1>4 DEF OnePerFile
<1>11. CountsAddUp
  BY <1>2, <1>3, <1>4, <1>8, TotalOfNothing DEF CountsAddUp
<1>12. LimitIsHonest
  BY <1>2 DEF LimitIsHonest
<1>13. QED BY <1>9, <1>10, <1>11, <1>12 DEF CatIInv

\* The steps that find the files to read.
LEMMA FindingKeepsCat ==
  ASSUME CatIInv, Begin \/ WalkRoot \/ RefuseRoot \/ RootsDone
  PROVE  CatIInv'
<1>1. /\ cphase \in {"begin", "roots"} /\ cphase' \in {"files", "roots", "refused"}
      /\ UNCHANGED <<call, tree, next, target, entries, totals, limit, catWrites>>
  BY DEF Begin, WalkRoot, RefuseRoot, RootsDone
<1>2. /\ call \in CatCalls /\ DOMAIN tree = Paths /\ \A p \in Paths : IsNode(tree[p])
      /\ rootAt \in 1..(Len(call.roots) + 1) /\ list \in Seq(Paths)
  BY DEF CatIInv, CatShape
<1>3. call.paths \in Seq(Paths) /\ call.roots \in Seq(Paths) /\ Len(call.roots) \in Nat
      /\ MaxFiles' = MaxFiles /\ MaxTotal' = MaxTotal
  BY <1>1, <1>2, LimitsType, LenProperties DEF MaxFiles, MaxTotal
<1>4. list' \in Seq(Paths) /\ rootAt' \in 1..(Len(call.roots) + 1)
  <2>1. CASE Begin
    BY <1>2, <1>3, <2>1 DEF Begin
  <2>2. CASE WalkRoot
    <3>1. list' = list \o Discovered(Resolved(Root)) /\ rootAt' = rootAt + 1 /\ rootAt <= Len(call.roots)
      BY <2>2 DEF WalkRoot
    <3>2. Discovered(Resolved(Root)) \in Seq(Paths)
      BY InOrderType, Zenon DEF Discovered
    <3>3. list' \in Seq(Paths)
      BY <1>2, <3>1, <3>2, ConcatProperties
    <3>4. rootAt' \in 1..(Len(call.roots) + 1)
      BY <1>2, <1>3, <3>1
    <3>5. QED BY <3>3, <3>4
  <2>3. CASE RefuseRoot
    BY <1>2, <2>3 DEF RefuseRoot
  <2>4. CASE RootsDone
    BY <1>2, <2>4 DEF RootsDone
  <2>5. QED BY <2>1, <2>2, <2>3, <2>4
<1>5. CatShape'
  BY <1>1, <1>4 DEF CatIInv, CatShape
<1>6. Len(entries) = 0 /\ Len(list') \in Nat
  BY <1>1, <1>4, LenProperties DEF CatIInv, OnePerFile
<1>7. OnePerFile'
  <2>1. next = Len(entries) + 1 /\ Len(entries) <= MaxFiles
    BY DEF CatIInv, OnePerFile
  <2>2. Len(entries') = 0 /\ next' = 0 + 1 /\ 0 <= Len(list') /\ 0 <= MaxFiles' /\ \A n \in 1..0 : FALSE
    BY <1>1, <1>3, <1>6, <2>1
  <2>3. QED BY <1>1, <2>2 DEF OnePerFile
<1>8. CountsAddUp'
  BY <1>1, <1>3 DEF CatIInv, CountsAddUp
<1>9. LimitIsHonest'
  BY <1>1 DEF CatIInv, LimitIsHonest
<1>10. QED BY <1>5, <1>7, <1>8, <1>9 DEF CatIInv

\* One more entry, of the file that is next.
LEMMA EntryKeepsCat ==
  ASSUME CatIInv, NEW e \in CatEntry, e.path = File,
         next <= Len(list), Len(entries) < MaxFiles,
         entries' = Append(entries, e), next' = next + 1, cphase' = "files", cphase # "served",
         totals' \in [bytes : Nat, read : Nat, skipped : Nat],
         totals'.read + totals'.skipped = totals.read + totals.skipped + 1,
         totals'.bytes = totals.bytes + Size(e.content), totals'.bytes <= MaxTotal,
         UNCHANGED <<call, tree, rootAt, list, target, limit, catWrites>>
  PROVE  CatIInv'
<1>1. /\ call \in CatCalls /\ entries \in Seq(CatEntry) /\ list \in Seq(Paths)
      /\ MaxFiles' = MaxFiles /\ MaxTotal' = MaxTotal
  BY DEF CatIInv, CatShape, MaxFiles, MaxTotal
<1>2. MaxFiles \in Nat /\ Len(entries) \in Nat /\ Len(list) \in Nat
  BY <1>1, LimitsType, LenProperties
<1>3. /\ next = Len(entries) + 1 /\ \A n \in 1..Len(entries) : entries[n].path = list[n]
      /\ totals.read + totals.skipped = Len(entries) /\ totals.bytes = Total(entries)
      /\ limit = "none"
  BY DEF CatIInv, OnePerFile, CountsAddUp, LimitIsHonest
<1>4. /\ entries' \in Seq(CatEntry) /\ Len(entries') = Len(entries) + 1 /\ entries'[Len(entries) + 1] = e
      /\ \A n \in 1..Len(entries) : entries'[n] = entries[n]
  BY <1>1, AppendProperties
<1>5. next \in Nat /\ next' \in Nat
  BY <1>2, <1>3
<1>6. CatShape'
  BY <1>4, <1>5 DEF CatIInv, CatShape
<1>7. OnePerFile'
  <2>1. next' = Len(entries') + 1 /\ Len(entries') <= Len(list') /\ Len(entries') <= MaxFiles'
    BY <1>1, <1>2, <1>3, <1>4
  <2>2. \A n \in 1..Len(entries') : entries'[n].path = list'[n]
    <3>1. e.path = list[Len(entries) + 1]
      BY <1>3 DEF File
    <3>2. \A n \in 1..(Len(entries) + 1) : n \in 1..Len(entries) \/ n = Len(entries) + 1
      BY <1>2
    <3>3. QED BY <1>3, <1>4, <3>1, <3>2
  <2>3. QED BY <2>1, <2>2 DEF OnePerFile
<1>8. CountsAddUp'
  <2>1. totals'.read + totals'.skipped = Len(entries')
    BY <1>3, <1>4
  <2>2. totals'.bytes = Total(entries')
    BY <1>1, <1>3, TotalOfAppend
  <2>3. QED BY <1>1, <2>1, <2>2 DEF CountsAddUp
<1>9. LimitIsHonest'
  BY <1>3 DEF LimitIsHonest
<1>10. QED BY <1>6, <1>7, <1>8, <1>9 DEF CatIInv

LEMMA SkipKeepsCat ==
  ASSUME CatIInv, NEW e \in CatEntry, e.path = File, e.content = EmptyText, Skip(e),
         cphase # "served", next <= Len(list), Len(entries) < MaxFiles
  PROVE  CatIInv'
<1>1. /\ entries' = Append(entries, e) /\ totals' = [totals EXCEPT !.skipped = @ + 1]
      /\ next' = next + 1 /\ cphase' = "files"
      /\ UNCHANGED <<call, tree, rootAt, list, target, limit, catWrites>>
  BY DEF Skip
<1>2. /\ totals \in [bytes : Nat, read : Nat, skipped : Nat] /\ call \in CatCalls
      /\ totals.bytes <= MaxTotal
  BY DEF CatIInv, CatShape, CountsAddUp
<1>3. totals.bytes \in Nat /\ totals.read \in Nat /\ totals.skipped \in Nat
  BY <1>2
<1>4. totals'.bytes = totals.bytes /\ totals'.read = totals.read /\ totals'.skipped = totals.skipped + 1
  BY <1>1, <1>2
<1>5. totals' \in [bytes : Nat, read : Nat, skipped : Nat]
  <2>1. totals.skipped + 1 \in Nat
    BY <1>3
  <2>2. QED BY <1>1, <1>2, <2>1
<1>6. totals'.read + totals'.skipped = totals.read + totals.skipped + 1
  BY <1>3, <1>4
<1>7. Size(e.content) = 0
  BY EmptyTextSize
<1>8. totals'.bytes = totals.bytes + Size(e.content) /\ totals'.bytes <= MaxTotal
  BY <1>2, <1>3, <1>4, <1>7
<1>9. QED BY <1>1, <1>5, <1>6, <1>8, EntryKeepsCat

LEMMA EntryType ==
  ASSUME NEW p \in Paths, NEW n \in Nat, NEW error \in Errors, NEW binary \in BOOLEAN,
         NEW c, c.content \in FileText, c.lines \in Nat, c.truncated \in BOOLEAN
  PROVE  /\ Entry(p, n, error, binary, c) \in CatEntry
         /\ Entry(p, n, error, binary, c).path = p
         /\ Entry(p, n, error, binary, c).content = c.content
BY DEF Entry, CatEntry

LEMMA NothingType ==
  /\ Nothing.content \in FileText /\ Nothing.lines \in Nat /\ Nothing.truncated \in BOOLEAN
  /\ Nothing.content = EmptyText
BY EmptyTextSize DEF Nothing

LEMMA ReadingKeepsCat ==
  ASSUME CatIInv, CatFile
  PROVE  CatIInv'
<1>1. /\ call \in CatCalls /\ DOMAIN tree = Paths /\ \A p \in Paths : IsNode(tree[p])
      /\ list \in Seq(Paths) /\ next \in Nat /\ target \in [path : Paths, size : Nat]
      /\ entries \in Seq(CatEntry) /\ totals \in [bytes : Nat, read : Nat, skipped : Nat]
  BY DEF CatIInv, CatShape
<1>2. cphase \in {"files", "stat", "peek", "read"} /\ cphase # "served"
  BY DEF CatFile, Access, Stat, Peek, ReadFails, ReadLimit, Read
<1>3. next <= Len(list) /\ Len(entries) < MaxFiles
  <2>1. CASE cphase = "files"
    <3>1. Access
      BY <2>1 DEF CatFile, Stat, Peek, ReadFails, ReadLimit, Read
    <3>2. next <= Len(list) /\ ~(Len(entries) >= MaxFiles)
      BY <3>1 DEF Access, NoMoreThan
    <3>3. MaxFiles \in Nat /\ Len(entries) \in Nat
      BY <1>1, LimitsType, LenProperties
    <3>4. QED BY <3>2, <3>3
  <2>2. CASE cphase \in {"stat", "peek", "read"}
    BY <2>2 DEF CatIInv, OnePerFile
  <2>3. QED BY <1>2, <2>1, <2>2
<1>4. File \in Paths
  <2>1. next = Len(entries) + 1 /\ Len(entries) \in Nat /\ Len(list) \in Nat
    BY <1>1, LenProperties DEF CatIInv, OnePerFile
  <2>2. next \in 1..Len(list)
    BY <1>3, <2>1
  <2>3. QED BY <1>1, <2>2, ElementOfSeq DEF File
<1>5. target.path \in Paths /\ target.size \in Nat
  BY <1>1
<1>6. Node.text \in FileText /\ Node.to \in Paths
  BY <1>1, <1>5, TextsOfFiles DEF Node, IsNode
<1>7. Resolved(File) \in Paths
  BY <1>1, <1>4 DEF Resolved, IsNode
<1>8. ASSUME NEW n \in Nat, NEW error \in Errors, NEW binary \in BOOLEAN,
             Skip(Entry(File, n, error, binary, Nothing))
      PROVE  CatIInv'
  <2> DEFINE e == Entry(File, n, error, binary, Nothing)
  <2>1. e \in CatEntry /\ e.path = File /\ e.content = EmptyText
    BY <1>4, EntryType, NothingType
  <2>2. Skip(e)
    BY <1>8
  <2> HIDE DEF e
  <2>3. QED BY <1>2, <1>3, <2>1, <2>2, SkipKeepsCat
<1>9. ASSUME NEW phase \in {"stat", "peek", "read"}, NEW n \in Nat, GoOn(phase, n) PROVE CatIInv'
  <2>1. /\ cphase' = phase
        /\ target' = [path |-> IF cphase = "files" THEN Resolved(File) ELSE target.path, size |-> n]
        /\ UNCHANGED <<call, tree, rootAt, list, next, entries, totals, limit, catWrites>>
    BY <1>9 DEF GoOn
  <2>2. target' \in [path : Paths, size : Nat]
    BY <1>5, <1>7, <2>1
  <2>3. CatShape'
    BY <2>1, <2>2 DEF CatIInv, CatShape
  <2>4. MaxFiles' = MaxFiles /\ MaxTotal' = MaxTotal
    BY <2>1 DEF MaxFiles, MaxTotal
  <2>5. OnePerFile' /\ CountsAddUp' /\ LimitIsHonest'
    BY <1>2, <1>3, <2>1, <2>4 DEF CatIInv, OnePerFile, CountsAddUp, LimitIsHonest
  <2>6. QED BY <2>3, <2>5 DEF CatIInv
<1>10. ASSUME NEW n \in Nat, NEW error \in Errors, SkipAs(n, error) PROVE CatIInv'
  <2>1. Skip(Entry(File, n, error, FALSE, Nothing)) /\ FALSE \in BOOLEAN
    BY <1>10 DEF SkipAs
  <2>2. QED BY <1>8, <2>1
<1>11. /\ 0 \in Nat /\ StatSize \in Nat
       /\ {"ACCESS_DENIED", "NOT_FOUND", "IS_DIRECTORY", "CANNOT_READ", "none"} \subseteq Errors
  BY <1>6, SizeType DEF StatSize, Errors
<1>12. CASE Access
  <2>1. \/ SkipAs(0, "ACCESS_DENIED") \/ SkipAs(0, "NOT_FOUND") \/ GoOn("stat", 0)
    BY <1>12 DEF Access
  <2>2. QED BY <1>9, <1>10, <1>11, <2>1
<1>13. CASE Stat
  <2>1. \/ SkipAs(0, "NOT_FOUND") \/ SkipAs(0, "IS_DIRECTORY")
        \/ GoOn("read", StatSize) \/ GoOn("peek", StatSize)
    BY <1>13 DEF Stat
  <2>2. QED BY <1>9, <1>10, <1>11, <2>1
<1>17. CASE Peek
  <2>1. \/ SkipAs(target.size, "CANNOT_READ")
        \/ Skip(Entry(File, target.size, "none", TRUE, Nothing))
        \/ GoOn("read", target.size)
    BY <1>17 DEF Peek
  <2>2. QED BY <1>5, <1>8, <1>9, <1>10, <1>11, <2>1
<1>18. CASE ReadFails
  <2>1. SkipAs(target.size, "CANNOT_READ")
    BY <1>18 DEF ReadFails
  <2>2. QED BY <1>5, <1>10, <1>11, <2>1
<1>14. CASE ReadLimit
  <2>1. /\ limit' = "output_size_limit" /\ cphase' = "served"
        /\ UNCHANGED <<call, tree, rootAt, list, next, target, entries, totals, catWrites>>
    BY <1>14 DEF ReadLimit, Serve
  <2>2. CatShape'
    BY <2>1 DEF CatIInv, CatShape
  <2>3. MaxFiles' = MaxFiles /\ MaxTotal' = MaxTotal
    BY <2>1 DEF MaxFiles, MaxTotal
  <2>4. OnePerFile' /\ CountsAddUp'
    BY <2>1, <2>3 DEF CatIInv, OnePerFile, CountsAddUp
  <2>5. Len(entries) < Len(list)
    <3>1. next = Len(entries) + 1 /\ Len(entries) \in Nat /\ Len(list) \in Nat
      BY <1>1, LenProperties DEF CatIInv, OnePerFile
    <3>2. QED BY <1>3, <3>1
  <2>6. LimitIsHonest'
    BY <2>1, <2>5 DEF LimitIsHonest
  <2>7. QED BY <2>2, <2>4, <2>6 DEF CatIInv
<1>15. CASE Read
  <2> DEFINE c == ContentOf(Node.text)
             e == Entry(File, target.size, "none", FALSE, c)
  <2>1. /\ ~OverSize(Node.text) /\ entries' = Append(entries, e)
        /\ totals' = [totals EXCEPT !.bytes = @ + Size(c.content), !.read = @ + 1]
        /\ next' = next + 1 /\ cphase' = "files"
        /\ UNCHANGED <<call, tree, rootAt, list, target, limit, catWrites>>
    BY <1>15 DEF Read
  <2>2. c.content \in FileText /\ c.lines \in Nat /\ c.truncated \in BOOLEAN
    BY <1>1, <1>6, LimitsType, ContentType
  <2>3. ~(totals.bytes + Size(c.content) > MaxTotal)
    BY <2>1 DEF OverSize
  <2> HIDE DEF c
  <2>4. "none" \in Errors /\ FALSE \in BOOLEAN
    BY <1>11
  <2>5. e \in CatEntry /\ e.path = File /\ e.content = c.content
    <3>1. \A p \in Paths, n \in Nat :
            /\ Entry(p, n, "none", FALSE, c) \in CatEntry
            /\ Entry(p, n, "none", FALSE, c).path = p
            /\ Entry(p, n, "none", FALSE, c).content = c.content
      BY <2>2, <2>4 DEF Entry, CatEntry
    <3>2. QED BY <1>4, <1>5, <3>1, Zenon
  <2> HIDE DEF e
  <2>6. Size(c.content) \in Nat /\ MaxTotal \in Nat
    BY <1>1, <2>2, SizeType, LimitsType
  <2>7. totals.bytes \in Nat /\ totals.read \in Nat /\ totals.skipped \in Nat
    BY <1>1
  <2>8. totals'.bytes = totals.bytes + Size(c.content) /\ totals'.read = totals.read + 1
        /\ totals'.skipped = totals.skipped
    BY <1>1, <2>1
  <2>9. totals' \in [bytes : Nat, read : Nat, skipped : Nat]
    <3>1. totals = [bytes |-> totals.bytes, read |-> totals.read, skipped |-> totals.skipped]
      BY <1>1
    <3>2. totals' = [bytes |-> totals.bytes + Size(c.content), read |-> totals.read + 1,
                     skipped |-> totals.skipped]
      BY <2>1, <3>1
    <3>3. totals.bytes + Size(c.content) \in Nat /\ totals.read + 1 \in Nat
      BY <2>6, <2>7
    <3>4. QED BY <2>7, <3>2, <3>3
  <2>10. totals'.read + totals'.skipped = totals.read + totals.skipped + 1
    BY <2>7, <2>8
  <2>11. totals'.bytes = totals.bytes + Size(e.content) /\ totals'.bytes <= MaxTotal
    BY <2>3, <2>5, <2>6, <2>7, <2>8
  <2>12. QED BY <1>2, <1>3, <2>1, <2>5, <2>9, <2>10, <2>11, EntryKeepsCat
<1>16. QED BY <1>12, <1>13, <1>14, <1>15, <1>17, <1>18 DEF CatFile

LEMMA EndKeepsCat ==
  ASSUME CatIInv, FilesDone \/ FilesLimit
  PROVE  CatIInv'
<1>1. /\ cphase = "files" /\ cphase' = "served"
      /\ \/ limit' = "none" /\ next > Len(list)
         \/ limit' = "max_files_limit" /\ next <= Len(list)
      /\ UNCHANGED <<call, tree, rootAt, list, next, target, entries, totals, catWrites>>
  BY DEF FilesDone, FilesLimit, Serve
<1>2. CatShape'
  BY <1>1 DEF CatIInv, CatShape
<1>3. MaxFiles' = MaxFiles /\ MaxTotal' = MaxTotal
  BY <1>1 DEF MaxFiles, MaxTotal
<1>4. OnePerFile' /\ CountsAddUp'
  BY <1>1, <1>3 DEF CatIInv, OnePerFile, CountsAddUp
<1>5. /\ next = Len(entries) + 1 /\ Len(entries) \in Nat /\ Len(list) \in Nat
      /\ Len(entries) <= Len(list)
  BY LenProperties DEF CatIInv, OnePerFile, CatShape
<1>6. next <= Len(list) <=> Len(entries) < Len(list)
  BY <1>5
<1>7. next > Len(list) => ~(next <= Len(list))
  BY <1>5
<1>8. LimitIsHonest'
  BY <1>1, <1>6, <1>7 DEF LimitIsHonest
<1>9. QED BY <1>2, <1>4, <1>8 DEF CatIInv

LEMMA ChangeKeepsCat ==
  ASSUME CatIInv, Change
  PROVE  CatIInv'
<1>1. PICK p \in Changing, x \in NewNodes : tree' = [tree EXCEPT ![p] = x]
  BY DEF Change
<1>2. /\ catWrites < maxWrites /\ catWrites' = catWrites + 1
      /\ UNCHANGED <<cphase, call, rootAt, list, next, target, entries, totals, limit>>
  BY DEF Change
<1>3. DOMAIN tree = Paths /\ (\A q \in Paths : IsNode(tree[q])) /\ catWrites \in 0..maxWrites
  BY DEF CatIInv, CatShape
<1>4. IsNode(x)
  BY TreesAssumption
<1>5. DOMAIN tree' = Paths /\ \A q \in Paths : tree'[q] = tree[q] \/ tree'[q] = x
  BY <1>1, <1>3
<1>6. DOMAIN tree' = Paths /\ \A q \in Paths : IsNode(tree'[q])
  BY <1>3, <1>4, <1>5
<1>7. catWrites' \in 0..maxWrites
  BY <1>2, <1>3, CatBoundsAssumption
<1>8. CatShape'
  BY <1>2, <1>6, <1>7 DEF CatIInv, CatShape
<1>9. MaxFiles' = MaxFiles /\ MaxTotal' = MaxTotal
  BY <1>2 DEF MaxFiles, MaxTotal
<1>10. OnePerFile' /\ CountsAddUp' /\ LimitIsHonest'
  BY <1>2, <1>9 DEF CatIInv, OnePerFile, CountsAddUp, LimitIsHonest
<1>11. QED BY <1>8, <1>10 DEF CatIInv

LEMMA NextKeepsCat ==
  ASSUME CatIInv, [Next]_requestVars
  PROVE  CatIInv'
<1>1. CASE CatNext
  BY <1>1, FindingKeepsCat, ReadingKeepsCat, EndKeepsCat, ChangeKeepsCat DEF CatNext
<1>2. CASE UNCHANGED catVars
  <2>1. MaxFiles' = MaxFiles /\ MaxTotal' = MaxTotal
    BY <1>2 DEF catVars, MaxFiles, MaxTotal
  <2>2. QED BY <1>2, <2>1 DEF catVars, CatIInv, CatShape, OnePerFile, CountsAddUp, LimitIsHonest
<1>3. QED BY <1>1, <1>2 DEF Next, DiffStep, CatStep, CallStep, requestVars

LEMMA CatIInvIsInOrder == CatIInv => CatAnswersInOrder
<1> SUFFICES ASSUME CatIInv PROVE CatAnswersInOrder
  OBVIOUS
<1>1. /\ entries \in Seq(CatEntry) /\ list \in Seq(Paths) /\ Len(entries) \in Nat /\ Len(list) \in Nat
      /\ DOMAIN entries = 1..Len(entries) /\ \A n \in 1..Len(entries) : entries[n] \in CatEntry
  BY LenProperties, ElementOfSeq DEF CatIInv, CatShape
<1>2. Len(entries) <= Len(list) /\ \A n \in 1..Len(entries) : entries[n].path = list[n]
  BY DEF CatIInv, OnePerFile
<1> DEFINE es == EntryPaths
           front == SubSeq(list, 1, Len(entries))
<1>3. es \in Seq(Paths) /\ Len(es) = Len(entries) /\ \A n \in 1..Len(entries) : es[n] = list[n]
  <2>1. es = [n \in 1..Len(entries) |-> entries[n].path]
    BY <1>1 DEF EntryPaths
  <2>2. \A n \in 1..Len(entries) : entries[n].path \in Paths
    BY <1>1 DEF CatEntry
  <2> HIDE DEF es
  <2>3. es \in Seq(Paths)
    BY <1>1, <2>1, <2>2, IsASeq
  <2>4. Len(es) \in Nat /\ DOMAIN es = 1..Len(es) /\ DOMAIN es = 1..Len(entries)
    BY <2>1, <2>3, LenProperties
  <2>5. Len(es) = Len(entries)
    <3>1. Len(entries) \in Nat
      BY <1>1
    <3>2. QED BY <2>4, <3>1
  <2>6. QED BY <1>2, <2>1, <2>3, <2>5
<1> HIDE DEF es
<1>4. front \in Seq(Paths) /\ Len(front) = Len(entries) /\ \A n \in 1..Len(entries) : front[n] = list[n]
  <2>1. /\ 1 \in Nat \ {0} /\ Len(entries) \in 0..Len(list) /\ 1 <= Len(entries) + 1
        /\ Len(entries) - 1 + 1 = Len(entries) /\ \A n \in 1..Len(entries) : 1 + n - 1 = n
    BY <1>1, <1>2
  <2>2. /\ front \in Seq(Paths) /\ Len(front) = Len(entries) - 1 + 1
        /\ \A n \in 1..(Len(entries) - 1 + 1) : front[n] = list[1 + n - 1]
    BY <1>1, <2>1, PieceType
  <2> HIDE DEF front
  <2>3. QED BY <2>1, <2>2
<1>5. IsPrefix(es, list)
  <2> HIDE DEF front
  <2>1. es = front
    <3>1. \A n \in 1..Len(es) : es[n] = front[n]
      BY <1>3, <1>4
    <3>2. QED BY <1>3, <1>4, <3>1, SeqEqual
  <2>2. SubSeq(es, 1, Len(es)) = es
    BY <1>3, SubSeqFull
  <2>3. Len(es) <= Len(list) /\ SubSeq(es, 1, Len(es)) = SubSeq(list, 1, Len(es))
    BY <1>2, <1>3, <2>1, <2>2 DEF front
  <2>4. QED BY <2>3 DEF IsPrefix
<1>6. cphase = "served" => (limit # "none") = (Len(entries) < Len(list))
  BY DEF CatIInv, LimitIsHonest
<1>7. QED BY <1>5, <1>6 DEF CatAnswersInOrder, CatIInv, OnePerFile, CountsAddUp, es

\* However files change while a cat runs, its answer takes the files in their
\* order and leaves out only those after the last it took; it says that it is
\* truncated exactly when it leaves some out; the counts of bytes, of files
\* read and of files skipped are those of its entries, and it never exceeds
\* max_total_bytes or max_files (Cat, catReadFiles).
THEOREM CatIsInOrder == Spec => []CatAnswersInOrder
<1>1. Init => CatIInv
  BY InitIsCat
<1>2. CatIInv /\ [Next]_requestVars => CatIInv'
  BY NextKeepsCat
<1>3. CatIInv => CatAnswersInOrder
  BY CatIInvIsInOrder
<1>4. QED BY <1>1, <1>2, <1>3, PTL DEF Spec

-----------------------------------------------------------------------------
\* What TypeOK says beyond the two invariants.

\* A hunk begins where its sides have been, and is kept only if it has lines;
\* line and column cannot outrun the offset.
DiffIsTyped ==
  /\ linesA \in Contents \cup {<<>>} /\ linesB \in Contents \cup {<<>>}
  /\ start.old <= i /\ start.new <= j
  /\ at.line \in 1..(at.offset + 1) /\ at.column \in 1..(at.offset + 1)
  /\ \A n \in 1..Len(hunks) : hunks[n].lines # <<>>
  /\ dphase \in {"old", "new"} => Len(changed) = (i - start.old) + (j - start.new)

\* A tool waits for a second system call only with a path left to answer.
ToolIsTyped ==
  /\ tool \in ToolCalls /\ disk \in [Files -> FileContents \cup {noText}]
  /\ toolWrites \in 0..maxToolWrites
  /\ tphase \in {"idle", "off", "refused", "path", "second", "done"}
  /\ (\E S : answers \in Seq(S)) /\ Len(answers) <= Len(tool.paths)
  /\ tphase = "second" => Len(answers) < Len(tool.paths)
  /\ tphase = "done" => Len(answers) = Len(tool.paths)

LEMMA InitIsTyped == Init => DiffIsTyped /\ ToolIsTyped
<1> SUFFICES ASSUME Init PROVE DiffIsTyped /\ ToolIsTyped
  OBVIOUS
<1>1. DiffInit("readA") \/ DiffInit("off")
  BY DEF Init, NoDiff
<1>2. DiffIsTyped
  <2>1. /\ linesA = <<>> /\ linesB = <<>> /\ i = 0 /\ j = 0 /\ hunks = <<>> /\ at = NoAt
        /\ start = [old |-> 0, new |-> 0] /\ dphase \in {"readA", "off"}
    BY <1>1 DEF DiffInit
  <2>2. at.offset = 0 /\ at.line = 1 /\ at.column = 1 /\ start.old = 0 /\ start.new = 0
    BY <2>1 DEF NoAt
  <2>3. at.line \in 1..(at.offset + 1) /\ at.column \in 1..(at.offset + 1)
        /\ start.old <= i /\ start.new <= j
    BY <2>1, <2>2
  <2>4. \A n \in 1..Len(hunks) : FALSE
    BY <2>1, EmptySeq
  <2>5. QED BY <2>1, <2>3, <2>4 DEF DiffIsTyped
<1>3. ToolsInit("idle") \/ ToolsInit("off")
  BY DEF Init, NoTool, CallsInit
<1>4. /\ tphase \in {"idle", "off"} /\ tool \in ToolCalls
      /\ disk \in [Files -> FileContents \cup {noText}] /\ answers = <<>> /\ toolWrites = 0
  BY <1>3 DEF ToolsInit
<1>5. answers \in Seq({}) /\ Len(answers) = 0 /\ Len(tool.paths) \in Nat /\ maxToolWrites \in Nat
  BY <1>4, EmptySeq, ToolCallsAssumption, FileToolsBoundsAssumption
<1>6. toolWrites \in 0..maxToolWrites /\ Len(answers) <= Len(tool.paths)
  BY <1>4, <1>5
<1>7. ToolIsTyped
  BY <1>4, <1>5, <1>6 DEF ToolIsTyped
<1>8. QED BY <1>2, <1>7

LEMMA DiffStepIsTyped ==
  ASSUME DiffIInv, DiffIsTyped, DiffNext
  PROVE  DiffIsTyped'
<1>1. /\ i \in Nat /\ j \in Nat /\ start.old \in Nat /\ start.new \in Nat
      /\ at \in [offset : Nat, line : Nat, column : Nat]
      /\ changed \in Seq(ChangedLine) /\ hunks \in Seq(Hunks)
      /\ Len(changed) \in Nat /\ Len(hunks) \in Nat
  <2>1. /\ linesA \in TextType /\ linesB \in TextType /\ start \in [old : Nat, new : Nat]
        /\ i \in 0..Len(linesA) /\ j \in 0..Len(linesB) /\ changed \in Seq(ChangedLine)
        /\ at \in [offset : Nat, line : Nat, column : Nat] /\ hunks \in Seq(Hunks)
    BY DEF DiffIInv, DiffShape
  <2>2. QED BY <2>1, LenProperties DEF TextType
<1>2. /\ linesA \in Contents \cup {<<>>} /\ linesB \in Contents \cup {<<>>}
      /\ start.old <= i /\ start.new <= j
      /\ at.line \in 1..(at.offset + 1) /\ at.column \in 1..(at.offset + 1)
      /\ \A n \in 1..Len(hunks) : hunks[n].lines # <<>>
      /\ dphase \in {"old", "new"} => Len(changed) = (i - start.old) + (j - start.new)
  BY DEF DiffIsTyped
<1>3. CASE ReadA \/ ReadB \/ Compare
  <2>1. /\ dphase' \notin {"old", "new"} /\ UNCHANGED <<i, j, start, at, hunks>>
        /\ linesA' = linesA \/ linesA' \in Contents
        /\ linesB' = linesB \/ linesB' \in Contents
    BY <1>3 DEF ReadA, ReadB, Compare
  <2>2. QED BY <1>2, <2>1 DEF DiffIsTyped
<1>4. CASE SkipCommon \/ DiffDone \/ EndOld
  <2>1. /\ UNCHANGED <<linesA, linesB, start, at, hunks, changed>>
        /\ \/ dphase' \notin {"old", "new"} /\ i' \in {i, i + 1} /\ j' \in {j, j + 1}
           \/ dphase = "old" /\ i' = i /\ j' = j
    BY <1>4 DEF SkipCommon, DiffDone, EndOld
  <2>2. start'.old <= i' /\ start'.new <= j'
    BY <1>1, <1>2, <2>1
  <2>3. QED BY <1>2, <2>1, <2>2 DEF DiffIsTyped
<1>5. CASE StartHunk
  <2>1. /\ start' = [old |-> i, new |-> j] /\ changed' = <<>>
        /\ UNCHANGED <<linesA, linesB, i, j, at, hunks>>
    BY <1>5 DEF StartHunk
  <2>2. start'.old = i' /\ start'.new = j' /\ Len(changed') = 0
    BY <2>1, EmptySeq
  <2>3. start'.old <= i' /\ start'.new <= j' /\ Len(changed') = (i' - start'.old) + (j' - start'.new)
    BY <1>1, <2>1, <2>2
  <2>4. QED BY <1>2, <2>1, <2>3 DEF DiffIsTyped
<1>6. CASE TakeOld \/ TakeNew
  <2>1. /\ dphase \in {"old", "new"} /\ UNCHANGED <<linesA, linesB, start, at, hunks>>
        /\ \/ i' = i + 1 /\ j' = j
           \/ i' = i /\ j' = j + 1
    BY <1>6 DEF TakeOld, TakeNew
  <2>2. Len(changed') = Len(changed) + 1
    <3>1. PICK c : changed' = Append(changed, c)
      BY <1>6 DEF TakeOld, TakeNew
    <3>2. changed \in Seq(ChangedLine \cup {c}) /\ c \in ChangedLine \cup {c}
      BY <1>1, SeqMonotonic
    <3>3. QED BY <3>1, <3>2, AppendProperties
  <2>3. /\ start'.old <= i' /\ start'.new <= j'
        /\ Len(changed') = (i' - start'.old) + (j' - start'.new)
    <3>1. start'.old = start.old /\ start'.new = start.new
      BY <2>1
    <3>2. Len(changed) = (i - start.old) + (j - start.new)
      BY <1>2, <2>1
    <3>3. i \in Nat /\ j \in Nat /\ start.old \in Nat /\ start.new \in Nat /\ Len(changed) \in Nat
      BY <1>1
    <3> DEFINE a == i - start.old
               b == j - start.new
    <3>4. a \in Int /\ b \in Int /\ (i + 1) - start.old = a + 1 /\ (j + 1) - start.new = b + 1
      BY <3>3
    <3>5. /\ Len(changed) + 1 = ((i + 1) - start.old) + (j - start.new)
          /\ Len(changed) + 1 = (i - start.old) + ((j + 1) - start.new)
      <4>1. Len(changed) = a + b /\ Len(changed) \in Nat
        BY <3>2, <3>3
      <4>2. i - start.old = a /\ j - start.new = b
        OBVIOUS
      <4> HIDE DEF a, b
      <4>3. Len(changed) + 1 = (a + 1) + b /\ Len(changed) + 1 = a + (b + 1)
        BY <3>4, <4>1
      <4>4. QED BY <3>4, <4>2, <4>3
    <3>6. Len(changed') = (i' - start'.old) + (j' - start'.new)
      BY <2>1, <2>2, <3>1, <3>5
    <3>7. start'.old <= i' /\ start'.new <= j'
      BY <1>2, <2>1, <3>1, <3>3
    <3>8. QED BY <3>6, <3>7
  <2>4. QED BY <1>2, <2>1, <2>3 DEF DiffIsTyped
<1>7. CASE EndHunk
  <2> DEFINE h == Hunk(start.old + 1, i - start.old, start.new + 1, j - start.new, changed)
  <2>1. /\ dphase' = "scan" /\ hunks' = IF changed = <<>> THEN hunks ELSE Append(hunks, h)
        /\ UNCHANGED <<linesA, linesB, i, j, start, at>>
    BY <1>7 DEF EndHunk
  <2>2. h.lines = changed
    BY DEF Hunk
  <2> HIDE DEF h
  <2>3. \A n \in 1..Len(hunks') : hunks'[n].lines # <<>>
    <3>1. CASE changed = <<>>
      BY <1>2, <2>1, <3>1
    <3>2. CASE changed # <<>>
      <4>1. hunks \in Seq(Hunks \cup {h}) /\ h \in Hunks \cup {h} /\ hunks' = Append(hunks, h)
        BY <1>1, <2>1, <3>2, SeqMonotonic
      <4>2. /\ Len(hunks') = Len(hunks) + 1 /\ hunks'[Len(hunks) + 1] = h
            /\ \A n \in 1..Len(hunks) : hunks'[n] = hunks[n]
        BY <4>1, AppendProperties
      <4>3. \A n \in 1..Len(hunks') : n \in 1..Len(hunks) \/ n = Len(hunks) + 1
        BY <1>1, <4>2
      <4>4. QED BY <1>2, <2>2, <3>2, <4>2, <4>3
    <3>3. QED BY <3>1, <3>2
  <2>4. QED BY <1>2, <2>1, <2>3 DEF DiffIsTyped
<1>8. CASE NextByte \/ ByteFound
  <2>1. /\ dphase' \notin {"old", "new"} /\ UNCHANGED <<linesA, linesB, i, j, start, hunks>>
        /\ \/ at' = at
           \/ at' = [offset |-> at.offset + 1, line |-> at.line + 1, column |-> 1]
           \/ at' = [at EXCEPT !.offset = @ + 1, !.column = @ + 1]
    BY <1>8 DEF NextByte, ByteFound, PassByte
  <2>2. at'.line \in 1..(at'.offset + 1) /\ at'.column \in 1..(at'.offset + 1)
    <3>1. at.offset \in Nat /\ at.line \in Nat /\ at.column \in Nat
      BY <1>1
    <3>2. CASE at' = at
      BY <1>2, <3>2
    <3>3. CASE at' = [offset |-> at.offset + 1, line |-> at.line + 1, column |-> 1]
      <4>1. at'.offset = at.offset + 1 /\ at'.line = at.line + 1 /\ at'.column = 1
        BY <3>3
      <4>2. QED BY <1>2, <3>1, <4>1
    <3>4. CASE at' = [at EXCEPT !.offset = @ + 1, !.column = @ + 1]
      <4>1. at'.offset = at.offset + 1 /\ at'.line = at.line /\ at'.column = at.column + 1
        BY <1>1, <3>4
      <4>2. QED BY <1>2, <3>1, <4>1
    <3>5. QED BY <2>1, <3>2, <3>3, <3>4
  <2>3. QED BY <1>2, <2>1, <2>2 DEF DiffIsTyped
<1>9. QED BY <1>3, <1>4, <1>5, <1>6, <1>7, <1>8 DEF DiffNext, DiffLines

LEMMA ToolStepIsTyped ==
  ASSUME ToolIsTyped, FileToolsNext
  PROVE  ToolIsTyped'
<1>1. /\ tool \in ToolCalls /\ disk \in [Files -> FileContents \cup {noText}]
      /\ toolWrites \in 0..maxToolWrites /\ Len(answers) <= Len(tool.paths)
      /\ tphase \in {"idle", "off", "refused", "path", "second", "done"}
      /\ tphase = "second" => Len(answers) < Len(tool.paths)
  BY DEF ToolIsTyped
<1>2. PICK S : answers \in Seq(S)
  BY DEF ToolIsTyped
<1>3. Len(answers) \in Nat /\ Len(tool.paths) \in Nat /\ maxToolWrites \in Nat
  BY <1>1, <1>2, LenProperties, ToolCallsAssumption, FileToolsBoundsAssumption
<1>4. ASSUME NEW e, Answer(e), Len(answers) < Len(tool.paths) PROVE ToolIsTyped'
  <2>1. answers' = Append(answers, e) /\ tphase' = "path" /\ UNCHANGED <<tool, disk, toolWrites>>
    BY <1>4 DEF Answer
  <2>2. answers \in Seq(S \cup {e}) /\ e \in S \cup {e}
    BY <1>2, SeqMonotonic
  <2>3. answers' \in Seq(S \cup {e}) /\ Len(answers') = Len(answers) + 1
    BY <2>1, <2>2, AppendProperties
  <2>4. Len(answers') <= Len(tool'.paths)
    BY <1>3, <1>4, <2>1, <2>3
  <2>5. QED BY <1>1, <2>1, <2>3, <2>4 DEF ToolIsTyped
<1>5. ASSUME NEW x, Hold(x), Len(answers) < Len(tool.paths) PROVE ToolIsTyped'
  BY <1>1, <1>2, <1>5 DEF Hold, ToolIsTyped
<1>6. CASE Start
  BY <1>1, <1>2, <1>6 DEF Start, ToolIsTyped
<1>7. CASE Done
  BY <1>1, <1>2, <1>7 DEF Done, ToolIsTyped
<1>8. CASE Write
  <2>1. PICK f \in Files, t \in FileContents \cup {noText} : disk' = [disk EXCEPT ![f] = t]
    BY <1>8 DEF Write
  <2>2. /\ toolWrites < maxToolWrites /\ toolWrites' = toolWrites + 1
        /\ UNCHANGED <<tphase, tool, answers>>
    BY <1>8 DEF Write
  <2>3. disk' \in [Files -> FileContents \cup {noText}] /\ toolWrites' \in 0..maxToolWrites
    BY <1>1, <1>3, <2>1, <2>2
  <2>4. QED BY <2>2, <2>3 DEF ToolIsTyped
<1>9. CASE GitAnswer \/ StatAnswer \/ DeniedAnswer \/ Missing \/ WcStat \/ WcScan \/ WcSize
           \/ ChecksumRead \/ HexdumpStat \/ HexdumpRead \/ LinesStat \/ LinesRead
  <2>1. Len(answers) < Len(tool.paths)
    BY <1>1, <1>9 DEF GitAnswer, StatAnswer, DeniedAnswer, Missing, WcStat, WcScan, WcSize, ChecksumRead,
                      HexdumpStat, HexdumpRead, LinesStat, LinesRead, OnDisk, Waiting
  <2>2. (\E e : Answer(e)) \/ (\E x : Hold(x))
    <3>1. CASE GitAnswer
      BY <3>1, Zenon DEF GitAnswer
    <3>2. CASE StatAnswer
      BY <3>2, Zenon DEF StatAnswer
    <3>3. CASE DeniedAnswer \/ Missing
      BY <3>3, Zenon DEF DeniedAnswer, Missing
    <3>4. CASE WcStat
      BY <3>4, Zenon DEF WcStat
    <3>5. CASE WcScan
      BY <3>5, Zenon DEF WcScan
    <3>6. CASE WcSize
      BY <3>6, Zenon DEF WcSize
    <3>7. CASE ChecksumRead
      BY <3>7, Zenon DEF ChecksumRead
    <3>8. CASE HexdumpStat
      BY <3>8, Zenon DEF HexdumpStat
    <3>9. CASE HexdumpRead
      BY <3>9, Zenon DEF HexdumpRead
    <3>10. CASE LinesStat
      BY <3>10, Zenon DEF LinesStat
    <3>11. CASE LinesRead
      BY <3>11, Zenon DEF LinesRead
    <3>12. QED BY <1>9, <3>1, <3>2, <3>3, <3>4, <3>5, <3>6, <3>7, <3>8, <3>9, <3>10, <3>11
  <2>3. QED BY <1>4, <1>5, <2>1, <2>2
<1>10. QED BY <1>6, <1>7, <1>8, <1>9 DEF FileToolsNext

LEMMA NextIsTyped ==
  ASSUME DiffIInv, DiffIsTyped, ToolIsTyped, [Next]_requestVars
  PROVE  DiffIsTyped' /\ ToolIsTyped'
<1>1. DiffNext \/ UNCHANGED diffVars
  BY DEF Next, DiffStep, CatStep, CallStep, requestVars
<1>2. DiffIsTyped'
  <2>1. CASE UNCHANGED diffVars
    BY <2>1 DEF diffVars, DiffIsTyped
  <2>2. QED BY <1>1, <2>1, DiffStepIsTyped
<1>3. FileToolsNext \/ UNCHANGED toolVars
  BY DEF Next, DiffStep, CatStep, CallStep, requestVars, callVars, CallsNext, FileStep, Reply,
         AnswerHook, AnswerConfig, AnswerPathfind, AnswerSorted, AnswerRevParse
<1>4. ToolIsTyped'
  <2>1. CASE UNCHANGED toolVars
    BY <2>1 DEF toolVars, ToolIsTyped
  <2>2. QED BY <1>3, <2>1, ToolStepIsTyped
<1>5. QED BY <1>2, <1>4

LEMMA InvariantsAreTypes ==
  ASSUME DiffIInv, CatIInv, DiffIsTyped, ToolIsTyped
  PROVE  TypeOK
<1>1. DiffTypeOK
  <2>1. /\ linesA \in TextType /\ linesB \in TextType /\ start \in [old : Nat, new : Nat]
        /\ i \in 0..Len(linesA) /\ j \in 0..Len(linesB) /\ hunks \in Seq(Hunks)
        /\ at \in [offset : Nat, line : Nat, column : Nat]
        /\ dphase \in {"off", "readA", "readB", "compare", "scan", "old", "new", "bytes", "diffed", "failed"}
        /\ byteLevel \in BOOLEAN /\ identical \in BOOLEAN
    BY DEF DiffIInv, DiffShape
  <2>2. i \in Nat /\ j \in Nat /\ start.old \in Nat /\ start.new \in Nat /\ at.offset \in Nat
        /\ DOMAIN hunks = 1..Len(hunks)
    BY <2>1, LenProperties DEF TextType
  <2>3. start.old \in 0..i /\ start.new \in 0..j
    BY <2>2 DEF DiffIsTyped
  <2>4. QED BY <2>1, <2>2, <2>3 DEF DiffTypeOK, DiffIsTyped
<1>2. CatTypeOK
  <2>1. /\ call \in CatCalls /\ list \in Seq(Paths) /\ target \in [path : Paths, size : Nat]
        /\ entries \in Seq(CatEntry)
    BY DEF CatIInv, CatShape
  <2>2. next \in 1..(Len(list) + 1)
    <3>1. Len(list) \in Nat /\ Len(entries) \in Nat
      BY <2>1, LenProperties
    <3>2. QED BY <3>1 DEF CatIInv, OnePerFile
  <2>3. \A n \in DOMAIN entries : entries[n].path \in Paths /\ IsText(entries[n].content)
    <3>1. \A n \in DOMAIN entries : entries[n] \in CatEntry
      BY <2>1, LenProperties, ElementOfSeq
    <3>2. \A n \in DOMAIN entries : entries[n].path \in Paths /\ entries[n].content \in FileText
      BY <3>1 DEF CatEntry
    <3>3. QED BY <3>2, TextsOfFiles
  <2>4. QED BY <2>1, <2>2, <2>3 DEF CatTypeOK, CatIInv, CatShape, OnePerFile
<1>3. QED BY <1>1, <1>2 DEF TypeOK, ToolIsTyped

\* Every kind of request keeps its types: a hunk lies between its start and
\* the loop and is kept only if it has lines (computeDiff), line and column
\* never outrun the offset (computeByteDiff), a file is read by a cat only
\* within the list and the limit (catReadFiles), and a tool that is done has
\* one answer for each of its paths (Wc, Checksum, Hexdump, Stat, readLines).
THEOREM TypeCorrect == Spec => []TypeOK
<1> DEFINE IInv == DiffIInv /\ CatIInv /\ DiffIsTyped /\ ToolIsTyped
<1>1. Init => IInv
  BY InitIsDiff, InitIsCat, InitIsTyped
<1>2. IInv /\ [Next]_requestVars => IInv'
  BY NextKeepsDiff, NextKeepsCat, NextIsTyped
<1>3. IInv => TypeOK
  BY InvariantsAreTypes
<1> HIDE DEF IInv
<1>4. QED BY <1>1, <1>2, <1>3, PTL DEF Spec

-----------------------------------------------------------------------------
\* What the entries of a quiet cat say.

\* A content read says how many lines it has and whether more were left out,
\* and its lines are those of the text.
LEMMA ContentMeans ==
  ASSUME NEW t \in FileText, call.lines \in Int
  PROVE  LET c == ContentOf(t)
         IN /\ c.truncated = (call.lines > 0 /\ LineCount(t) > call.lines)
            /\ IF c.truncated THEN c.lines = call.lines ELSE c.lines = LineCount(t)
            /\ LineCount(c.content) = c.lines
            /\ \A n \in 1..c.lines : c.content[n] = IF call.lines > 0 THEN DropCR(t[n]) ELSE t[n]
<1>1. /\ LineCount(t) \in Nat /\ LineCount(t) <= Len(t) /\ Len(t) \in Nat
      /\ \A n \in 1..Len(t) : t[n] \in TextLine
  BY LineCountType, ElementOfSeq DEF FileText, TextType
<1>2. CASE call.lines > 0
  <2> DEFINE ls == ScanLines(t)
             k == IF Len(ls) < call.lines THEN Len(ls) ELSE call.lines
             kept == SubSeq(ls, 1, k)
  <2>1. \A n \in 1..LineCount(t) : DropCR(t[n]) \in TextLine
    BY <1>1, DropCRType
  <2>2. /\ ls \in Seq(TextLine) /\ Len(ls) = LineCount(t)
        /\ \A n \in 1..LineCount(t) : ls[n] = DropCR(t[n])
    <3>1. ls = [n \in 1..LineCount(t) |-> DropCR(t[n])]
      BY DEF ScanLines
    <3> HIDE DEF ls
    <3>2. ls \in Seq(TextLine)
      BY <1>1, <2>1, <3>1, IsASeq
    <3>3. Len(ls) \in Nat /\ DOMAIN ls = 1..Len(ls) /\ DOMAIN ls = 1..LineCount(t)
      BY <3>1, <3>2, LenProperties
    <3>4. Len(ls) = LineCount(t)
      BY <1>1, <3>3
    <3>5. QED BY <3>1, <3>2, <3>4
  <2> HIDE DEF ls
  <2>3. k \in 0..Len(ls) /\ 1 \in Nat \ {0} /\ 1 <= k + 1 /\ k - 1 + 1 = k /\ k \in Nat
        /\ \A n \in 1..k : 1 + n - 1 = n
    BY <1>1, <1>2, <2>2
  <2>4. k = (IF LineCount(t) > call.lines THEN call.lines ELSE LineCount(t)) /\ k <= LineCount(t)
    BY <1>1, <2>2
  <2> HIDE DEF k
  <2>5. kept \in Seq(TextLine) /\ Len(kept) = k /\ \A n \in 1..k : kept[n] = ls[n]
    <3>1. /\ kept \in Seq(TextLine) /\ Len(kept) = k - 1 + 1
          /\ \A n \in 1..(k - 1 + 1) : kept[n] = ls[1 + n - 1]
      BY <2>2, <2>3, PieceType
    <3> HIDE DEF kept
    <3>2. QED BY <2>3, <3>1
  <2>6. ContentOf(t) = [content |-> Ended(kept), lines |-> Len(kept), truncated |-> Len(ls) > call.lines]
    BY <1>2 DEF ContentOf, FirstLines, ls, k
  <2> HIDE DEF kept
  <2>7. /\ Len(Ended(kept)) = k + 1 /\ Ended(kept)[k + 1] = <<>>
        /\ \A n \in 1..k : Ended(kept)[n] = kept[n]
    <3>1. <<>> \in TextLine
      BY EmptySeq DEF TextLine
    <3>2. /\ Len(Append(kept, <<>>)) = Len(kept) + 1 /\ Append(kept, <<>>)[Len(kept) + 1] = <<>>
          /\ \A n \in 1..Len(kept) : Append(kept, <<>>)[n] = kept[n]
      BY <2>5, <3>1, AppendProperties
    <3>3. QED BY <2>5, <3>2 DEF Ended
  <2>8. LineCount(Ended(kept)) = k
    <3>1. EndsInNewline(Ended(kept))
      BY <2>7 DEF EndsInNewline
    <3>2. LineCount(Ended(kept)) = Len(Ended(kept)) - 1
      BY <3>1 DEF LineCount
    <3>3. k \in Nat /\ Len(Ended(kept)) = k + 1
      BY <2>3, <2>7
    <3>4. QED BY <3>2, <3>3
  <2>9. \A n \in 1..k : Ended(kept)[n] = DropCR(t[n])
    <3>1. \A n \in 1..k : n \in 1..LineCount(t)
      BY <1>1, <2>3, <2>4
    <3>2. QED BY <2>2, <2>5, <2>7, <3>1
  <2>10. /\ ContentOf(t).content = Ended(kept) /\ ContentOf(t).lines = k
         /\ ContentOf(t).truncated = (LineCount(t) > call.lines)
    BY <2>2, <2>5, <2>6
  <2> DEFINE c == ContentOf(t)
  <2>11. c.truncated = (call.lines > 0 /\ LineCount(t) > call.lines)
    BY <1>2, <2>10
  <2>12. IF c.truncated THEN c.lines = call.lines ELSE c.lines = LineCount(t)
    BY <2>4, <2>10
  <2>13. LineCount(c.content) = c.lines
    BY <2>8, <2>10, Zenon
  <2>14. \A n \in 1..c.lines : c.content[n] = IF call.lines > 0 THEN DropCR(t[n]) ELSE t[n]
    BY <1>2, <2>9, <2>10
  <2>15. QED BY <2>11, <2>12, <2>13, <2>14
<1>3. CASE ~(call.lines > 0)
  <2>1. ContentOf(t) = [content |-> t, lines |-> LineCount(t), truncated |-> FALSE]
    BY <1>3 DEF ContentOf, FullFile
  <2>2. /\ ContentOf(t).content = t /\ ContentOf(t).lines = LineCount(t)
        /\ ContentOf(t).truncated = FALSE
    BY <2>1
  <2>3. QED BY <1>3, <2>2
<1>4. QED BY <1>2, <1>3

\* What an entry has to say, by what its file is.
LEMMA MeansDenied ==
  ASSUME NEW e, NEW p, Refused(p), e.error = "ACCESS_DENIED"
  PROVE  Means(e, p)
BY DEF Means

LEMMA MeansMissing ==
  ASSUME NEW e, NEW p, ~Refused(p), tree[Resolved(p)].kind = "none", e.error = "NOT_FOUND"
  PROVE  Means(e, p)
BY DEF Means

LEMMA MeansDirectory ==
  ASSUME NEW e, NEW p, ~Refused(p), tree[Resolved(p)].kind = "dir", e.error = "IS_DIRECTORY"
  PROVE  Means(e, p)
BY DEF Means

LEMMA MeansBinary ==
  ASSUME NEW e, NEW p, ~Refused(p), tree[Resolved(p)].kind = "file", tree[Resolved(p)].binary,
         e.binary, e.content = EmptyText
  PROVE  Means(e, p)
BY DEF Means

LEMMA MeansUnreadable ==
  ASSUME NEW e, NEW p, ~Refused(p), tree[Resolved(p)].kind \in {"file", "locked"},
         tree[Resolved(p)].kind = "file" => ~tree[Resolved(p)].binary,
         tree[Resolved(p)].kind = "locked" \/ LineTooLong(tree[Resolved(p)].text),
         e.error = "CANNOT_READ"
  PROVE  Means(e, p)
BY DEF Means

LEMMA MeansText ==
  ASSUME NEW e, NEW p, ~Refused(p), tree[Resolved(p)].kind = "file", ~tree[Resolved(p)].binary,
         ~LineTooLong(tree[Resolved(p)].text), tree[Resolved(p)].text \in FileText, call.lines \in Int,
         e.error = "none", e.content = ContentOf(tree[Resolved(p)].text).content,
         e.lines = ContentOf(tree[Resolved(p)].text).lines,
         e.truncated = ContentOf(tree[Resolved(p)].text).truncated
  PROVE  Means(e, p)
<1> DEFINE t == tree[Resolved(p)].text
<1>1. /\ e.truncated = (call.lines > 0 /\ LineCount(t) > call.lines)
      /\ IF e.truncated THEN e.lines = call.lines ELSE e.lines = LineCount(t)
      /\ LineCount(e.content) = e.lines
      /\ \A n \in 1..e.lines : e.content[n] = IF call.lines > 0 THEN DropCR(t[n]) ELSE t[n]
  <2>1. t \in FileText
    OBVIOUS
  <2>2. /\ e.content = ContentOf(t).content /\ e.lines = ContentOf(t).lines
        /\ e.truncated = ContentOf(t).truncated
    OBVIOUS
  <2> HIDE DEF t
  <2>3. QED BY <2>1, <2>2, ContentMeans
<1>2. IF e.truncated THEN e.lines = call.lines ELSE e.lines = LineCount(t)
  BY <1>1
<1>3. QED BY <1>1, <1>2 DEF Means

\* What an entry has to say depends on the call and the tree.
LEMMA MeansStays ==
  ASSUME UNCHANGED <<call, tree>>
  PROVE  \A x, p : Means(x, p)' <=> Means(x, p)
<1>1. \A p : (Refused(p)' <=> Refused(p)) /\ Resolved(p)' = Resolved(p)
  BY DEF Refused, Resolves, Resolved, Exists
<1>2. \A t : LineTooLong(t)' <=> LineTooLong(t)
  BY DEF LineTooLong
<1>3. QED BY <1>1, <1>2 DEF Means

\* A file gets to Stat only when it resolves and is allowed, to the first bytes
\* only when it is no directory, and to reading only as a text that opens.
FileIsWhatWasSeen ==
  /\ cphase \in {"stat", "peek", "read"} =>
       ~Refused(File) /\ Resolves(File) /\ target.path = Resolved(File)
  /\ cphase = "peek" => Node.kind \in {"file", "locked"}
  /\ cphase = "read" => Node.kind = "file" /\ ~Node.binary

EntriesMean ==
  /\ \A n \in 1..Len(entries) : Means(entries[n], list[n])
  /\ limit = "max_files_limit" => Len(entries) = MaxFiles
  /\ limit = "output_size_limit" => OverSize(tree[Resolved(list[Len(entries) + 1])].text)

QuietInv == catWrites = 0 => FileIsWhatWasSeen /\ EntriesMean

LEMMA InitIsQuiet == Init => QuietInv
<1> SUFFICES ASSUME Init PROVE QuietInv
  OBVIOUS
<1>1. CatInit("off") \/ CatInit("begin")
  BY DEF Init, NoCat
<1>2. cphase \in {"off", "begin"} /\ entries = <<>> /\ limit = "none"
  BY <1>1 DEF CatInit
<1>3. \A n \in 1..Len(entries) : FALSE
  BY <1>2, EmptySeq
<1>4. QED BY <1>2, <1>3 DEF QuietInv, FileIsWhatWasSeen, EntriesMean

\* One more entry, and it says what its file is.
LEMMA EntryKeepsQuiet ==
  ASSUME CatIInv, EntriesMean, NEW e, Means(e, File), entries' = Append(entries, e),
         cphase' = "files", cphase # "served",
         UNCHANGED <<call, tree, list, limit>>
  PROVE  QuietInv'
<1>1. /\ entries \in Seq(CatEntry) /\ next = Len(entries) + 1 /\ limit = "none"
      /\ Len(entries) \in Nat
  BY LenProperties DEF CatIInv, CatShape, OnePerFile, LimitIsHonest
<1>2. /\ Len(entries') = Len(entries) + 1 /\ entries'[Len(entries) + 1] = e
      /\ \A n \in 1..Len(entries) : entries'[n] = entries[n]
  <2>1. entries \in Seq(CatEntry \cup {e}) /\ e \in CatEntry \cup {e}
    BY <1>1, SeqMonotonic
  <2>2. QED BY <2>1, AppendProperties
<1>3. ASSUME NEW n \in 1..Len(entries') PROVE Means(entries'[n], list[n])
  <2>1. CASE n \in 1..Len(entries)
    BY <1>2, <2>1 DEF EntriesMean
  <2>2. CASE n = Len(entries) + 1
    BY <1>1, <1>2, <2>2 DEF File
  <2>3. QED BY <1>1, <1>2, <2>1, <2>2
<1>4. \A x, p : Means(x, p)' <=> Means(x, p)
  BY MeansStays
<1>5. EntriesMean'
  BY <1>1, <1>3, <1>4 DEF EntriesMean
<1>6. QED BY <1>5 DEF QuietInv, FileIsWhatWasSeen

\* The same for a file that is skipped.
LEMMA SkipKeepsQuiet ==
  ASSUME CatIInv, EntriesMean, cphase # "served", NEW e, Means(e, File), Skip(e)
  PROVE  QuietInv'
<1>1. /\ entries' = Append(entries, e) /\ cphase' = "files"
      /\ UNCHANGED <<call, tree, list, limit>>
  BY DEF Skip
<1>2. QED BY <1>1, EntryKeepsQuiet

LEMMA GoingOnKeepsQuiet ==
  ASSUME CatIInv, EntriesMean, cphase \in {"files", "stat", "peek"},
         NEW phase \in {"stat", "peek", "read"}, NEW n, GoOn(phase, n),
         ~Refused(File), Resolves(File), cphase # "files" => target.path = Resolved(File),
         phase = "peek" => tree[Resolved(File)].kind \in {"file", "locked"},
         phase = "read" => tree[Resolved(File)].kind = "file" /\ ~tree[Resolved(File)].binary
  PROVE  QuietInv'
<1>1. /\ cphase' = phase
      /\ target' = [path |-> IF cphase = "files" THEN Resolved(File) ELSE target.path, size |-> n]
      /\ UNCHANGED <<call, tree, list, next, entries, totals, limit>>
  BY DEF GoOn
<1>2. target'.path = Resolved(File)
  BY <1>1
<1>3. File' = File /\ Resolved(File)' = Resolved(File) /\ Refused(File)' = Refused(File)
      /\ Resolves(File)' = Resolves(File) /\ Node' = tree[Resolved(File)]
  BY <1>1, <1>2 DEF File, Resolved, Refused, Resolves, Exists, Node
<1>4. FileIsWhatWasSeen'
  BY <1>1, <1>2, <1>3 DEF FileIsWhatWasSeen
<1>5. limit = "none"
  BY DEF CatIInv, LimitIsHonest
<1>6. \A x, p : Means(x, p)' <=> Means(x, p)
  BY <1>1, MeansStays
<1>7. EntriesMean'
  BY <1>1, <1>5, <1>6 DEF EntriesMean
<1>8. QED BY <1>4, <1>7 DEF QuietInv

LEMMA ReadingKeepsQuiet ==
  ASSUME CatIInv, EntriesMean, FileIsWhatWasSeen, CatFile
  PROVE  QuietInv'
<1>1. /\ call \in CatCalls /\ \A p \in Paths : IsNode(tree[p])
      /\ list \in Seq(Paths) /\ target \in [path : Paths, size : Nat]
      /\ call.lines \in Int
  BY LimitsType DEF CatIInv, CatShape
<1>2. cphase \in {"files", "stat", "peek", "read"} /\ cphase # "served"
  BY DEF CatFile, Access, Stat, Peek, ReadFails, ReadLimit, Read
<1>3. CASE Access
  <2>1. cphase = "files"
    BY <1>3 DEF Access
  <2>2. CASE Refused(File) /\ SkipAs(0, "ACCESS_DENIED")
    <3> DEFINE e == Entry(File, 0, "ACCESS_DENIED", FALSE, Nothing)
    <3>1. e.error = "ACCESS_DENIED" /\ Skip(e)
      BY <2>2 DEF SkipAs, Entry
    <3> HIDE DEF e
    <3>2. Means(e, File)
      BY <2>2, <3>1, MeansDenied
    <3>3. QED BY <1>2, <3>1, <3>2, SkipKeepsQuiet
  <2>3. CASE ~Refused(File) /\ ~Resolves(File) /\ SkipAs(0, "NOT_FOUND")
    <3> DEFINE e == Entry(File, 0, "NOT_FOUND", FALSE, Nothing)
    <3>1. tree[Resolved(File)].kind = "none"
      BY <2>3 DEF Resolves, Exists
    <3>2. e.error = "NOT_FOUND" /\ Skip(e)
      BY <2>3 DEF SkipAs, Entry
    <3> HIDE DEF e
    <3>3. Means(e, File)
      BY <2>3, <3>1, <3>2, MeansMissing
    <3>4. QED BY <1>2, <3>2, <3>3, SkipKeepsQuiet
  <2>4. CASE ~Refused(File) /\ Resolves(File) /\ GoOn("stat", 0)
    BY <2>1, <2>4, GoingOnKeepsQuiet
  <2>5. QED BY <1>3, <2>2, <2>3, <2>4 DEF Access
<1>4. ASSUME cphase \in {"stat", "peek", "read"}
      PROVE  /\ ~Refused(File) /\ Resolves(File) /\ target.path = Resolved(File)
             /\ Node = tree[Resolved(File)]
             /\ Node.text \in FileText /\ (Node.binary => Size(Node.text) > 0)
  <2>1. ~Refused(File) /\ Resolves(File) /\ target.path = Resolved(File)
    BY <1>4 DEF FileIsWhatWasSeen
  <2>2. target.path \in Paths
    BY <1>1
  <2>3. IsNode(tree[target.path])
    BY <1>1, <2>2
  <2>4. QED BY <2>1, <2>3, TextsOfFiles DEF IsNode, Node
<1>5. CASE Stat
  <2>1. cphase = "stat"
    BY <1>5 DEF Stat
  <2>2. /\ ~Refused(File) /\ Resolves(File) /\ target.path = Resolved(File)
        /\ Node = tree[Resolved(File)]
        /\ Node.text \in FileText /\ (Node.binary => Size(Node.text) > 0)
    BY <1>4, <2>1
  <2>3. CASE Node.kind = "none" /\ SkipAs(0, "NOT_FOUND")
    BY <2>2, <2>3 DEF Resolves, Exists
  <2>4. CASE Node.kind = "dir" /\ SkipAs(0, "IS_DIRECTORY")
    <3> DEFINE e == Entry(File, 0, "IS_DIRECTORY", FALSE, Nothing)
    <3>1. e.error = "IS_DIRECTORY" /\ Skip(e)
      BY <2>4 DEF SkipAs, Entry
    <3> HIDE DEF e
    <3>2. Means(e, File)
      BY <2>2, <2>4, <3>1, MeansDirectory
    <3>3. QED BY <1>2, <3>1, <3>2, SkipKeepsQuiet
  <2>5. CASE Node.kind \in {"file", "locked"} /\ GoOn(IF StatSize = 0 THEN "read" ELSE "peek", StatSize)
    <3>1. CASE StatSize = 0
      <4>1. Node.kind = "file" /\ Size(Node.text) = 0
        BY <2>5, <3>1 DEF StatSize
      <4>2. ~Node.binary
        BY <2>2, <4>1
      <4>3. GoOn("read", StatSize)
        BY <2>5, <3>1
      <4>4. QED BY <2>1, <2>2, <4>1, <4>2, <4>3, GoingOnKeepsQuiet
    <3>2. CASE StatSize # 0
      <4>1. GoOn("peek", StatSize)
        BY <2>5, <3>2
      <4>2. QED BY <2>1, <2>2, <2>5, <4>1, GoingOnKeepsQuiet
    <3>3. QED BY <3>1, <3>2
  <2>6. QED BY <1>5, <2>3, <2>4, <2>5 DEF Stat
<1>6. CASE Peek
  <2>1. cphase = "peek"
    BY <1>6 DEF Peek
  <2>2. /\ ~Refused(File) /\ Resolves(File) /\ target.path = Resolved(File)
        /\ Node = tree[Resolved(File)] /\ Node.kind \in {"file", "locked"}
    BY <1>4, <2>1 DEF FileIsWhatWasSeen
  <2>3. CASE ~Opens /\ SkipAs(target.size, "CANNOT_READ")
    <3> DEFINE e == Entry(File, target.size, "CANNOT_READ", FALSE, Nothing)
    <3>1. Node.kind = "locked"
      BY <2>2, <2>3 DEF Opens
    <3>2. e.error = "CANNOT_READ" /\ Skip(e)
      BY <2>3 DEF SkipAs, Entry
    <3> HIDE DEF e
    <3>3. Means(e, File)
      BY <2>2, <3>1, <3>2, MeansUnreadable
    <3>4. QED BY <1>2, <3>2, <3>3, SkipKeepsQuiet
  <2>4. CASE Opens /\ Node.binary /\ Skip(Entry(File, target.size, "none", TRUE, Nothing))
    <3> DEFINE e == Entry(File, target.size, "none", TRUE, Nothing)
    <3>1. e.binary /\ e.content = EmptyText
      BY DEF Entry, Nothing
    <3>2. Node.kind = "file" /\ Skip(e)
      BY <2>4 DEF Opens
    <3> HIDE DEF e
    <3>3. Means(e, File)
      BY <2>2, <2>4, <3>1, <3>2, MeansBinary
    <3>4. QED BY <1>2, <3>2, <3>3, SkipKeepsQuiet
  <2>5. CASE Opens /\ ~Node.binary /\ GoOn("read", target.size)
    BY <2>1, <2>2, <2>5, GoingOnKeepsQuiet DEF Opens
  <2>6. QED BY <1>6, <2>3, <2>4, <2>5 DEF Peek
<1>7. ASSUME cphase = "read"
      PROVE  /\ ~Refused(File) /\ Resolves(File) /\ target.path = Resolved(File)
             /\ Node = tree[Resolved(File)] /\ Node.kind = "file" /\ ~Node.binary
             /\ Node.text \in FileText
  BY <1>4, <1>7 DEF FileIsWhatWasSeen
<1>8. CASE ReadFails
  <2>1. cphase = "read" /\ (~Opens \/ LineTooLong(Node.text)) /\ SkipAs(target.size, "CANNOT_READ")
    BY <1>8 DEF ReadFails
  <2> DEFINE e == Entry(File, target.size, "CANNOT_READ", FALSE, Nothing)
  <2>2. LineTooLong(Node.text)
    BY <1>7, <2>1 DEF Opens
  <2>3. e.error = "CANNOT_READ" /\ Skip(e)
    BY <2>1 DEF SkipAs, Entry
  <2> HIDE DEF e
  <2>4. Means(e, File)
    BY <1>7, <2>1, <2>2, <2>3, MeansUnreadable
  <2>5. QED BY <1>2, <2>3, <2>4, SkipKeepsQuiet
<1>9. CASE Read
  <2> DEFINE c == ContentOf(Node.text)
             e == Entry(File, target.size, "none", FALSE, c)
  <2>1. /\ cphase = "read" /\ ~LineTooLong(Node.text) /\ entries' = Append(entries, e)
        /\ cphase' = "files" /\ UNCHANGED <<call, tree, list, limit>>
    BY <1>9 DEF Read
  <2>2. e.error = "none" /\ e.content = c.content /\ e.lines = c.lines /\ e.truncated = c.truncated
    BY DEF Entry
  <2>3. c = ContentOf(Node.text)
    OBVIOUS
  <2> HIDE DEF c, e
  <2>4. Means(e, File)
    BY <1>1, <1>7, <2>1, <2>2, <2>3, MeansText
  <2>5. QED BY <1>2, <2>1, <2>4, EntryKeepsQuiet
<1>10. CASE ReadLimit
  <2>1. /\ cphase = "read" /\ OverSize(Node.text) /\ limit' = "output_size_limit" /\ cphase' = "served"
        /\ UNCHANGED <<call, tree, list, entries, totals>>
    BY <1>10 DEF ReadLimit, Serve
  <2>2. next = Len(entries) + 1
    BY DEF CatIInv, OnePerFile
  <2>3. OverSize(tree[Resolved(list[Len(entries) + 1])].text)
    BY <1>7, <2>1, <2>2 DEF File
  <2>4. OverSize(tree[Resolved(list[Len(entries) + 1])].text)'
    BY <2>1, <2>3 DEF OverSize, ContentOf, MaxTotal, Resolved
  <2>5. \A x, p : Means(x, p)' <=> Means(x, p)
    BY <2>1, MeansStays
  <2>6. EntriesMean'
    BY <2>1, <2>4, <2>5 DEF EntriesMean
  <2>7. QED BY <2>1, <2>6 DEF QuietInv, FileIsWhatWasSeen
<1>11. QED BY <1>3, <1>5, <1>6, <1>8, <1>9, <1>10 DEF CatFile

LEMMA FindingKeepsQuiet ==
  ASSUME CatIInv, EntriesMean, Begin \/ WalkRoot \/ RefuseRoot \/ RootsDone
  PROVE  QuietInv'
<1>1. /\ cphase \in {"begin", "roots"} /\ cphase' \in {"files", "roots", "refused"}
      /\ UNCHANGED <<entries, limit>>
  BY DEF Begin, WalkRoot, RefuseRoot, RootsDone
<1>2. limit = "none" /\ Len(entries) = 0
  BY <1>1 DEF CatIInv, LimitIsHonest, OnePerFile
<1>3. \A n \in 1..Len(entries') : FALSE
  BY <1>1, <1>2
<1>4. QED BY <1>1, <1>2, <1>3 DEF QuietInv, FileIsWhatWasSeen, EntriesMean

LEMMA EndKeepsQuiet ==
  ASSUME CatIInv, EntriesMean, FilesDone \/ FilesLimit
  PROVE  QuietInv'
<1>1. /\ cphase' = "served" /\ UNCHANGED <<call, tree, list, entries>>
      /\ \/ limit' = "none"
         \/ limit' = "max_files_limit" /\ Len(entries) >= MaxFiles
  BY DEF FilesDone, FilesLimit, Serve, NoMoreThan
<1>2. MaxFiles \in Nat /\ Len(entries) \in Nat /\ Len(entries) <= MaxFiles /\ MaxFiles' = MaxFiles
  BY <1>1, LimitsType, LenProperties DEF CatIInv, CatShape, OnePerFile, MaxFiles
<1>3. limit' = "max_files_limit" => Len(entries') = MaxFiles'
  BY <1>1, <1>2
<1>4. \A x, p : Means(x, p)' <=> Means(x, p)
  BY <1>1, MeansStays
<1>5. EntriesMean'
  BY <1>1, <1>3, <1>4 DEF EntriesMean
<1>6. QED BY <1>1, <1>5 DEF QuietInv, FileIsWhatWasSeen

LEMMA NextKeepsQuiet ==
  ASSUME CatIInv, QuietInv, [Next]_requestVars
  PROVE  QuietInv'
<1>1. CatNext \/ UNCHANGED catVars
  BY DEF Next, DiffStep, CatStep, CallStep, requestVars
<1>2. CASE Change
  <2>1. catWrites' = catWrites + 1 /\ catWrites \in 0..maxWrites
    BY <1>2 DEF Change, CatIInv, CatShape
  <2>2. catWrites' # 0
    BY <2>1, CatBoundsAssumption
  <2>3. QED BY <2>2 DEF QuietInv
<1>3. CASE UNCHANGED catVars
  <2>1. UNCHANGED <<cphase, call, tree, list, next, target, entries, totals, limit, catWrites>>
    BY <1>3 DEF catVars
  <2>2. \A x, p : Means(x, p)' <=> Means(x, p)
    BY <2>1, MeansStays
  <2>3. /\ FileIsWhatWasSeen' = FileIsWhatWasSeen
    BY <2>1 DEF FileIsWhatWasSeen, File, Resolved, Refused, Resolves, Exists, Node
  <2>4. OverSize(tree[Resolved(list[Len(entries) + 1])].text)' = OverSize(tree[Resolved(list[Len(entries) + 1])].text)
    BY <2>1 DEF OverSize, ContentOf, MaxTotal, Resolved
  <2>5. EntriesMean => EntriesMean'
    BY <2>1, <2>2, <2>4 DEF EntriesMean, MaxFiles
  <2>6. QED BY <2>1, <2>3, <2>5 DEF QuietInv
<1>4. CASE CatNext /\ ~Change
  <2>1. catWrites' = catWrites
    BY <1>4 DEF CatNext, CatFile, Begin, WalkRoot, RefuseRoot, RootsDone, FilesDone, FilesLimit, Serve,
                Access, Stat, Peek, ReadFails, ReadLimit, Read, SkipAs, Skip, GoOn
  <2>2. CASE catWrites = 0
    <3>1. EntriesMean /\ FileIsWhatWasSeen
      BY <2>2 DEF QuietInv
    <3>2. QED BY <1>4, <3>1, ReadingKeepsQuiet, FindingKeepsQuiet, EndKeepsQuiet DEF CatNext
  <2>3. CASE catWrites # 0
    BY <2>1, <2>3 DEF QuietInv
  <2>4. QED BY <2>2, <2>3
<1>5. QED BY <1>1, <1>2, <1>3, <1>4 DEF CatNext

\* As long as no file changes, each entry of a cat's answer says of its file
\* what it is and holds - refused, missing, a directory, binary, unreadable, or
\* so many lines and whether more were left out - and a limit is named only if
\* the next file would exceed it, for all trees, calls and limits (catReadFiles,
\* readFirstNLines, readFullFile).
THEOREM QuietEntriesAreRight == Spec => []QuietEntriesAreExact
<1> DEFINE IInv == CatIInv /\ QuietInv
<1>1. Init => IInv
  BY InitIsCat, InitIsQuiet
<1>2. IInv /\ [Next]_requestVars => IInv'
  BY NextKeepsCat, NextKeepsQuiet
<1>3. IInv => QuietEntriesAreExact
  <2>1. entries \in Seq(CatEntry) => DOMAIN entries = 1..Len(entries)
    BY LenProperties
  <2>2. QED BY <2>1 DEF QuietEntriesAreExact, QuietInv, EntriesMean, CatIInv, CatShape
<1> HIDE DEF IInv
<1>4. QED BY <1>1, <1>2, <1>3, PTL DEF Spec

-----------------------------------------------------------------------------
\* What a cat lists.

LEMMA DeepestIsLongest == Deepest \in Nat /\ \A p \in Paths : p \in Seq(Names) /\ Len(p) \in Nat /\ Len(p) <= Deepest
<1> DEFINE l == Len(PathOrder)
           len(n) == Len(PathOrder[n])
           Q == {n \in Nat : 1 <= n /\ n <= l => \E a \in 1..n : \A b \in 1..n : len(b) <= len(a)}
<1>1. l \in Nat \ {0} /\ Paths = {PathOrder[n] : n \in 1..l} /\ Paths \subseteq Seq(Names)
  BY PathOrderAssumption, LenProperties, EmptySeq DEF Paths
<1>2. \A p \in Paths : p \in Seq(Names) /\ Len(p) \in Nat
  BY <1>1, LenProperties
<1>3. \A n \in 1..l : len(n) \in Nat
  BY <1>1, <1>2
<1> HIDE DEF l, len
<1>4. 0 \in Q
  OBVIOUS
<1>5. ASSUME NEW n \in Nat, n \in Q PROVE n + 1 \in Q
  <2> SUFFICES ASSUME n + 1 <= l PROVE \E a \in 1..(n + 1) : \A b \in 1..(n + 1) : len(b) <= len(a)
    OBVIOUS
  <2>1. CASE n = 0
    BY <1>1, <1>3, <2>1
  <2>2. CASE n # 0
    <3>1. PICK a \in 1..n : \A b \in 1..n : len(b) <= len(a)
      BY <1>1, <1>5, <2>2
    <3>2. \A b \in 1..(n + 1) : len(b) \in Nat /\ (b \in 1..n \/ b = n + 1)
      BY <1>1, <1>3
    <3>3. a \in 1..(n + 1) /\ n + 1 \in 1..(n + 1)
      OBVIOUS
    <3>4. CASE len(n + 1) <= len(a)
      BY <3>1, <3>2, <3>3, <3>4
    <3>5. CASE len(a) <= len(n + 1)
      BY <3>1, <3>2, <3>3, <3>5
    <3>6. QED BY <3>2, <3>3, <3>4, <3>5
  <2>3. QED BY <2>1, <2>2
<1>6. l \in Q
  <2> HIDE DEF Q
  <2> QED BY <1>1, <1>4, <1>5, InductionOnNat
<1>7. PICK a \in 1..l : \A b \in 1..l : len(b) <= len(a)
  BY <1>1, <1>6
<1>8. \E x \in {Len(p) : p \in Paths} : \A y \in {Len(p) : p \in Paths} : x >= y
  <2>1. len(a) \in {Len(p) : p \in Paths}
    BY <1>1 DEF len
  <2>2. \A y \in {Len(p) : p \in Paths} : y \in Nat /\ y <= len(a)
    BY <1>1, <1>2, <1>7 DEF len
  <2>3. QED BY <1>3, <2>1, <2>2
<1>9. Deepest \in {Len(p) : p \in Paths} /\ \A y \in {Len(p) : p \in Paths} : Deepest >= y
  BY <1>8 DEF Deepest, Max
<1>10. QED BY <1>2, <1>9

\* What a tree holds lies below nothing but directories of it.
LEMMA DirsAbove ==
  ASSUME tree \in Trees, NEW q \in Paths, Exists(q), NEW k \in 1..(Len(q) - 1)
  PROVE  SubSeq(q, 1, k) \in Paths /\ tree[SubSeq(q, 1, k)].kind = "dir"
<1> DEFINE l == Len(q)
           up(m) == SubSeq(q, 1, l - m)
           Q == {m \in Nat : m < l => up(m) \in Paths /\ Exists(up(m)) /\ (m > 0 => tree[up(m)].kind = "dir")}
<1>1. q \in Seq(Names) /\ l \in Nat
  BY DeepestIsLongest
<1>2. 0 \in Q
  <2>1. l \in 0..l /\ l - 0 = l
    BY <1>1
  <2>2. up(0) = q
    BY <1>1, <2>1, BeginningOfSeq
  <2> HIDE DEF up
  <2>3. QED BY <2>2
<1>3. ASSUME NEW m \in Nat, m \in Q PROVE m + 1 \in Q
  <2> SUFFICES ASSUME m + 1 < l PROVE up(m + 1) \in Paths /\ tree[up(m + 1)].kind = "dir"
    BY DEF Exists
  <2>1. up(m) \in Paths /\ Exists(up(m))
    BY <1>1, <1>3
  <2>2. l - m \in 0..l /\ l - (m + 1) \in 0..(l - m) /\ (l - m) - 1 = l - (m + 1) /\ l - m > 1
    BY <1>1
  <2>3. Len(up(m)) = l - m /\ SubSeq(up(m), 1, l - (m + 1)) = up(m + 1)
    BY <1>1, <2>2, BeginningOfSeq
  <2>4. Front(up(m)) = up(m + 1)
    BY <2>2, <2>3 DEF Front
  <2> HIDE DEF up, l
  <2>5. QED BY <2>1, <2>2, <2>3, <2>4, TreesAssumption DEF Exists
<1>4. l - k \in Nat /\ l - k < l /\ l - k > 0 /\ l - (l - k) = k
  BY <1>1
<1>5. l - k \in Q
  <2> HIDE DEF Q
  <2> QED BY <1>2, <1>3, <1>4, InductionOnNat
<1>6. QED BY <1>4, <1>5

\* The children of a directory are what the tree holds one name below it.
LEMMA ChildrenOf ==
  ASSUME NEW d \in Paths
  PROVE  /\ Children(d) \in Seq(Paths)
         /\ ToSet(Children(d)) = {p \in Paths : Len(p) = Len(d) + 1 /\ IsPrefix(d, p) /\ Exists(p)}
<1> DEFINE C == {p \in Paths : Len(p) = Len(d) + 1 /\ Front(p) = d /\ Exists(p)}
<1>1. d \in Seq(Names) /\ Len(d) \in Nat
  BY DeepestIsLongest
<1>2. ASSUME NEW p \in Paths, Len(p) = Len(d) + 1 PROVE Front(p) = d <=> IsPrefix(d, p)
  <2>1. p \in Seq(Names) /\ Len(p) - 1 = Len(d) /\ Len(d) <= Len(p)
    BY <1>1, <1>2, DeepestIsLongest
  <2>2. Front(p) = SubSeq(p, 1, Len(d))
    BY <2>1 DEF Front
  <2>3. QED BY <1>1, <2>1, <2>2, PrefixIsStart
<1>3. Children(d) \in Seq(Paths) /\ ToSet(Children(d)) = C \cap Paths
  BY InOrderLists DEF Children
<1>4. QED BY <1>2, <1>3


\* What the walk of a directory takes of one of its children, and of all, where
\* f has what the walks below found.
Piece(f, depth, p) ==
  IF tree[p].kind = "dir"
  THEN IF depth < Deepest /\ Descends(depth) THEN f[depth + 1][p] ELSE <<>>
  ELSE IF Selects(p) THEN <<p>> ELSE <<>>
Level(f, depth) == [d \in Paths |-> FlattenSeq([n \in DOMAIN Children(d) |-> Piece(f, depth, Children(d)[n])])]
WalkFrom(f, low) == f = [depth \in low..Deepest |-> Level(f, depth)]

LEMMA WalkFromExists == \E f : WalkFrom(f, 0)
<1> DEFINE Q == {m \in Nat : m <= Deepest => \E f : WalkFrom(f, Deepest - m)}
<1>1. Deepest \in Nat
  BY DeepestIsLongest
<1>2. \A f, g, depth : depth = Deepest \/ f[depth + 1] = g[depth + 1] => Level(f, depth) = Level(g, depth)
  <2>1. ASSUME NEW f, NEW g, NEW depth, depth = Deepest \/ f[depth + 1] = g[depth + 1]
        PROVE  Level(f, depth) = Level(g, depth)
    <3>1. \A p : Piece(f, depth, p) = Piece(g, depth, p)
      BY <1>1, <2>1 DEF Piece
    <3>2. QED BY <3>1 DEF Level
  <2>2. QED BY <2>1
<1>3. 0 \in Q
  <2> DEFINE f == [depth \in Deepest..Deepest |-> Level(<<>>, Deepest)]
  <2>1. Level(<<>>, Deepest) = Level(f, Deepest)
    BY <1>2
  <2>2. \A depth \in Deepest..Deepest : depth = Deepest
    BY <1>1
  <2>3. \A depth \in Deepest..Deepest : f[depth] = Level(f, depth)
    <3>1. \A depth \in Deepest..Deepest : f[depth] = Level(<<>>, Deepest)
      OBVIOUS
    <3> HIDE DEF f
    <3>2. QED BY <2>1, <2>2, <3>1
  <2>4. f = [depth \in Deepest..Deepest |-> f[depth]]
    OBVIOUS
  <2> HIDE DEF f
  <2>5. f = [depth \in Deepest..Deepest |-> Level(f, depth)]
    BY <2>3, <2>4
  <2>6. Deepest - 0 = Deepest
    BY <1>1
  <2>7. QED BY <2>5, <2>6 DEF WalkFrom
<1>4. ASSUME NEW m \in Nat, m \in Q PROVE m + 1 \in Q
  <2> SUFFICES ASSUME m + 1 <= Deepest PROVE \E g : WalkFrom(g, Deepest - (m + 1))
    OBVIOUS
  <2> DEFINE low == Deepest - (m + 1)
  <2>1. low \in Nat /\ Deepest - m = low + 1 /\ low < Deepest /\ low \in low..Deepest
    BY <1>1
  <2>2. PICK f : WalkFrom(f, low + 1)
    BY <1>1, <1>4, <2>1
  <2> DEFINE g == [depth \in low..Deepest |-> IF depth = low THEN Level(f, low) ELSE f[depth]]
  <2> HIDE DEF low
  <2>3. /\ g[low] = Level(f, low)
        /\ \A depth \in (low + 1)..Deepest : g[depth] = f[depth]
        /\ \A depth \in low..Deepest : depth = low \/ depth \in (low + 1)..Deepest
    BY <1>1, <2>1
  <2>4. g = [depth \in low..Deepest |-> g[depth]]
    OBVIOUS
  <2> HIDE DEF g
  <2>5. \A depth \in (low + 1)..Deepest : f[depth] = Level(f, depth)
    BY <2>2 DEF WalkFrom
  <2>6. \A depth \in low..Deepest : Level(f, depth) = Level(g, depth)
    <3>1. ASSUME NEW depth \in low..Deepest PROVE depth = Deepest \/ depth + 1 \in (low + 1)..Deepest
      BY <1>1, <2>1
    <3>2. QED BY <1>2, <2>3, <3>1
  <2>7. \A depth \in low..Deepest : g[depth] = Level(g, depth)
    BY <2>3, <2>5, <2>6
  <2>8. g = [depth \in low..Deepest |-> Level(g, depth)]
    BY <2>4, <2>7
  <2>9. WalkFrom(g, low)
    BY <2>8 DEF WalkFrom
  <2>10. QED BY <2>9 DEF low
<1>5. Deepest \in Q
  <2> HIDE DEF Q
  <2> QED BY <1>1, <1>3, <1>4, InductionOnNat
<1>6. Deepest - Deepest = 0 /\ Deepest <= Deepest
  BY <1>1
<1>7. QED BY <1>5, <1>6

LEMMA WalkUnfolds == \A depth \in 0..Deepest : Walk[depth] = Level(Walk, depth)
<1>1. Walk = CHOOSE f : WalkFrom(f, 0)
  BY DEF Walk, WalkFrom, Level, Piece
<1>2. WalkFrom(Walk, 0)
  BY <1>1, WalkFromExists
<1>3. QED BY <1>2 DEF WalkFrom


\* The files below a directory that a walk at some depth finds.
Findable(d, depth) ==
  {p \in Paths : /\ Len(p) > Len(d) /\ IsPrefix(d, p) /\ tree[p].kind \notin {"none", "dir"}
                 /\ call.maxDepth < 0 \/ Len(p) - Len(d) - 1 + depth <= call.maxDepth
                 /\ Selects(p)}
\* The walk may be there at all.
Reached(d, depth) == d \in Paths /\ depth <= Len(d) /\ (call.maxDepth < 0 \/ depth <= call.maxDepth)
FindsAll(depth) ==
  \A d \in Paths : Reached(d, depth) => Walk[depth][d] \in Seq(Paths) /\ ToSet(Walk[depth][d]) = Findable(d, depth)

\* A file two names or more below a directory is below one of its directories.
LEMMA ByWayOfAChild ==
  ASSUME tree \in Trees, NEW d \in Paths, NEW q \in Paths, Exists(q), IsPrefix(d, q), Len(q) > Len(d) + 1
  PROVE  \E p \in ToSet(Children(d)) : tree[p].kind = "dir" /\ IsPrefix(p, q) /\ Len(p) = Len(d) + 1
<1> DEFINE n == Len(d)
           p == SubSeq(q, 1, n + 1)
<1>1. d \in Seq(Names) /\ q \in Seq(Names) /\ n \in Nat /\ Len(q) \in Nat
  BY DeepestIsLongest
<1>2. n + 1 \in 1..(Len(q) - 1) /\ n + 1 \in 0..Len(q) /\ n \in 0..(n + 1) /\ n + 1 <= Len(q) /\ n <= n + 1
  BY <1>1
<1>3. p \in Paths /\ tree[p].kind = "dir"
  BY <1>2, DirsAbove
<1>4. p \in Seq(Names) /\ Len(p) = n + 1 /\ SubSeq(p, 1, n) = SubSeq(q, 1, n)
  BY <1>1, <1>2, BeginningOfSeq
<1>5. d = SubSeq(q, 1, n)
  BY <1>1, PrefixIsStart
<1> HIDE DEF p
<1>6. IsPrefix(d, p)
  BY <1>1, <1>2, <1>4, <1>5, PrefixIsStart
<1>7. IsPrefix(p, q)
  BY <1>1, <1>2, <1>4, PrefixIsStart DEF p
<1>8. p \in ToSet(Children(d))
  BY <1>3, <1>4, <1>6, ChildrenOf DEF Exists
<1>9. QED BY <1>3, <1>4, <1>7, <1>8

\* What is found below a directory is its files and what is found below its
\* directories, one level deeper.
LEMMA LevelFinds ==
  ASSUME tree \in Trees, call \in CatCalls, NEW depth \in 0..Deepest,
         depth < Deepest => FindsAll(depth + 1)
  PROVE  FindsAll(depth)
<1> SUFFICES ASSUME NEW d \in Paths, Reached(d, depth)
             PROVE  Walk[depth][d] \in Seq(Paths) /\ ToSet(Walk[depth][d]) = Findable(d, depth)
  BY DEF FindsAll
<1> DEFINE C == Children(d)
           piece(n) == Piece(Walk, depth, C[n])
           pieces == [n \in DOMAIN C |-> piece(n)]
<1>1. /\ Deepest \in Nat /\ depth \in Nat /\ Len(d) \in Nat /\ depth <= Len(d) /\ d \in Seq(Names)
      /\ call.maxDepth \in Int /\ (call.maxDepth < 0 \/ depth <= call.maxDepth)
      /\ \A p \in Paths : p \in Seq(Names) /\ Len(p) \in Nat /\ Len(p) <= Deepest
  <2>1. Deepest \in Nat /\ \A p \in Paths : p \in Seq(Names) /\ Len(p) \in Nat /\ Len(p) <= Deepest
    BY DeepestIsLongest
  <2>2. call.maxDepth \in Int
    BY CatCallsAssumption
  <2>3. QED BY <2>1, <2>2 DEF Reached
<1>2. C \in Seq(Paths) /\ DOMAIN C = 1..Len(C) /\ Len(C) \in Nat
      /\ ToSet(C) = {p \in Paths : Len(p) = Len(d) + 1 /\ IsPrefix(d, p) /\ Exists(p)}
  BY ChildrenOf, LenProperties
<1>3. Walk[depth][d] = FlattenSeq(pieces)
  BY WalkUnfolds DEF Level
<1>4. ASSUME NEW p \in ToSet(C), tree[p].kind = "dir"
      PROVE  /\ Piece(Walk, depth, p) \in Seq(Paths)
             /\ ToSet(Piece(Walk, depth, p)) = IF Descends(depth) THEN Findable(p, depth + 1) ELSE {}
  <2>1. p \in Paths /\ Len(p) = Len(d) + 1 /\ depth < Deepest
    BY <1>1, <1>2
  <2>2. CASE Descends(depth)
    <3>1. Reached(p, depth + 1)
      BY <1>1, <2>1, <2>2 DEF Reached, Descends
    <3>2. Piece(Walk, depth, p) = Walk[depth + 1][p]
      BY <1>4, <2>1, <2>2 DEF Piece
    <3>3. QED BY <2>1, <2>2, <3>1, <3>2 DEF FindsAll
  <2>3. CASE ~Descends(depth)
    <3>1. Piece(Walk, depth, p) = <<>> /\ <<>> \in Seq(Paths)
      BY <1>4, <2>3, EmptySeq DEF Piece
    <3>2. QED BY <2>3, <3>1, SetOfFew
  <2>4. QED BY <2>2, <2>3
<1>5. ASSUME NEW p \in ToSet(C), tree[p].kind # "dir"
      PROVE  /\ Piece(Walk, depth, p) \in Seq(Paths)
             /\ ToSet(Piece(Walk, depth, p)) = IF Selects(p) THEN {p} ELSE {}
  <2>1. p \in Paths
    BY <1>2
  <2>2. <<p>> \in Seq(Paths) /\ <<>> \in Seq(Paths)
    BY <2>1, EmptySeq
  <2>3. Piece(Walk, depth, p) = IF Selects(p) THEN <<p>> ELSE <<>>
    BY <1>5 DEF Piece
  <2>4. QED BY <2>2, <2>3, SetOfFew
<1> HIDE DEF C
<1>6. \A n \in 1..Len(C) : C[n] \in ToSet(C) /\ piece(n) \in Seq(Paths)
  <2>1. \A n \in 1..Len(C) : C[n] \in ToSet(C)
    BY <1>2 DEF ToSet
  <2>2. QED BY <2>1, <1>4, <1>5
<1>7. pieces \in Seq(Seq(Paths)) /\ Len(pieces) = Len(C) /\ \A n \in 1..Len(C) : pieces[n] = piece(n)
  <2> HIDE DEF piece
  <2>1. QED BY <1>2, <1>6, IsASeq, LenProperties
<1>8. FlattenSeq(pieces) \in Seq(Paths)
      /\ ToSet(FlattenSeq(pieces)) = UNION {ToSet(pieces[n]) : n \in 1..Len(C)}
  <2> HIDE DEF pieces
  <2>1. QED BY <1>7, SetOfFlatten
<1>9. UNION {ToSet(pieces[n]) : n \in 1..Len(C)} = UNION {ToSet(Piece(Walk, depth, p)) : p \in ToSet(C)}
  <2>1. ToSet(C) = {C[n] : n \in 1..Len(C)}
    BY <1>2, SetOfSeq
  <2>2. \A n \in 1..Len(C) : ToSet(pieces[n]) = ToSet(Piece(Walk, depth, C[n]))
    BY <1>7
  <2> HIDE DEF pieces
  <2>3. QED BY <2>1, <2>2
<1>10. ASSUME NEW q \in Findable(d, depth) PROVE \E p \in ToSet(C) : q \in ToSet(Piece(Walk, depth, p))
  <2>1. /\ q \in Paths /\ Len(q) > Len(d) /\ IsPrefix(d, q) /\ tree[q].kind \notin {"none", "dir"}
        /\ call.maxDepth < 0 \/ Len(q) - Len(d) - 1 + depth <= call.maxDepth
        /\ Selects(q) /\ Len(q) \in Nat
    BY <1>1 DEF Findable
  <2>2. CASE Len(q) = Len(d) + 1
    <3>1. q \in ToSet(C)
      BY <1>2, <2>1, <2>2 DEF Exists
    <3>2. q \in ToSet(Piece(Walk, depth, q))
      BY <1>5, <2>1, <3>1
    <3>3. QED BY <3>1, <3>2
  <2>3. CASE Len(q) > Len(d) + 1
    <3>1. PICK p \in ToSet(C) : tree[p].kind = "dir" /\ IsPrefix(p, q) /\ Len(p) = Len(d) + 1
      BY <2>1, <2>3, ByWayOfAChild DEF Exists, C
    <3>2. Descends(depth)
      BY <1>1, <2>1, <2>3 DEF Descends
    <3>3. q \in Findable(p, depth + 1)
      BY <1>1, <2>1, <2>3, <3>1 DEF Findable
    <3>4. QED BY <1>4, <3>1, <3>2, <3>3
  <2>4. QED BY <1>1, <2>1, <2>2, <2>3
<1>11. ASSUME NEW p \in ToSet(C), NEW q \in ToSet(Piece(Walk, depth, p)) PROVE q \in Findable(d, depth)
  <2>1. p \in Paths /\ Len(p) = Len(d) + 1 /\ IsPrefix(d, p) /\ Exists(p) /\ Len(p) \in Nat
    BY <1>1, <1>2
  <2>2. CASE tree[p].kind = "dir"
    <3>1. q \in Findable(p, depth + 1)
      BY <1>4, <2>2
    <3>2. q \in Paths /\ IsPrefix(p, q) /\ Len(q) > Len(p) /\ Len(q) \in Nat
      BY <1>1, <3>1 DEF Findable
    <3>3. IsPrefix(d, q)
      BY <1>1, <2>1, <3>2, PrefixThrough
    <3>4. QED BY <1>1, <2>1, <3>1, <3>2, <3>3 DEF Findable
  <2>3. CASE tree[p].kind # "dir"
    <3>1. q = p /\ Selects(p)
      BY <1>5, <2>3
    <3>2. QED BY <1>1, <2>1, <2>3, <3>1 DEF Findable, Exists
  <2>4. QED BY <2>2, <2>3
<1>12. UNION {ToSet(Piece(Walk, depth, p)) : p \in ToSet(C)} = Findable(d, depth)
  <2>1. \A q : q \in UNION {ToSet(Piece(Walk, depth, p)) : p \in ToSet(C)} <=> \E p \in ToSet(C) : q \in ToSet(Piece(Walk, depth, p))
    OBVIOUS
  <2>2. QED BY <1>10, <1>11, <2>1
<1>13. QED BY <1>3, <1>8, <1>9, <1>12

\* A walk from a directory finds the files below it.
LEMMA DiscoveredIsBelow ==
  ASSUME tree \in Trees, call \in CatCalls, NEW d \in Paths
  PROVE  Discovered(d) \in Seq(Paths) /\ ToSet(Discovered(d)) = Below(d) /\ IsInjective(Discovered(d))
<1> DEFINE Q == {m \in Nat : m <= Deepest => FindsAll(Deepest - m)}
<1>1. Deepest \in Nat /\ Len(d) \in Nat /\ call.maxDepth \in Int
  BY DeepestIsLongest, CatCallsAssumption
<1>2. 0 \in Q
  <2>1. Deepest \in 0..Deepest /\ ~(Deepest < Deepest) /\ Deepest - 0 = Deepest
    BY <1>1
  <2>2. FindsAll(Deepest)
    BY <2>1, LevelFinds
  <2>3. QED BY <2>1, <2>2
<1>3. ASSUME NEW m \in Nat, m \in Q PROVE m + 1 \in Q
  <2> SUFFICES ASSUME m + 1 <= Deepest PROVE FindsAll(Deepest - (m + 1))
    OBVIOUS
  <2> DEFINE k == Deepest - (m + 1)
  <2>1. k \in 0..Deepest /\ k + 1 = Deepest - m /\ m <= Deepest
    BY <1>1
  <2>2. FindsAll(k + 1)
    BY <1>3, <2>1
  <2> HIDE DEF k
  <2>3. FindsAll(k)
    BY <2>1, <2>2, LevelFinds
  <2>4. QED BY <2>3 DEF k
<1>4. Deepest \in Q
  <2> HIDE DEF Q
  <2> QED BY <1>1, <1>2, <1>3, InductionOnNat
<1>5. Deepest - Deepest = 0 /\ Deepest <= Deepest
  BY <1>1
<1>6. FindsAll(0)
  BY <1>4, <1>5
<1>7. Reached(d, 0)
  BY <1>1 DEF Reached
<1>8. ToSet(Walk[0][d]) = Findable(d, 0)
  BY <1>6, <1>7 DEF FindsAll
<1>9. Findable(d, 0) = Below(d) /\ Below(d) \subseteq Paths
  <2>1. \A p \in Paths : Len(p) - Len(d) - 1 + 0 = Len(p) - Len(d) - 1
    BY <1>1, DeepestIsLongest
  <2>2. QED BY <2>1 DEF Findable, Below
<1>10. QED BY <1>8, <1>9, InOrderLists DEF Discovered

\* As long as nothing has changed: the files named are the list; or it has
\* what was below the roots so far.
OnlyRoot == Len(call.roots) = 1 => ToSet(list) = Below(Resolved(call.roots[1])) /\ IsInjective(list)
RootsSoFar ==
  /\ cphase \in {"files", "stat", "peek", "read", "served"} => rootAt = Len(call.roots) + 1
  /\ rootAt = 1 => list = <<>>
  /\ \A k \in 1..(rootAt - 1) : Below(Resolved(call.roots[k])) \subseteq ToSet(list)
  /\ rootAt = 2 => OnlyRoot
ListSoFar ==
  /\ tree \in Trees
  /\ cphase \in {"off", "begin"} => rootAt = 1 /\ list = <<>>
  /\ call.paths # <<>> => cphase # "roots" /\ (cphase \in {"off", "begin"} \/ list = call.paths)
  /\ call.paths = <<>> => RootsSoFar
ListInv == catWrites = 0 => ListSoFar

LEMMA InitIsListed == Init => ListInv
<1> SUFFICES ASSUME Init PROVE ListInv
  OBVIOUS
<1>1. CatInit("off") \/ CatInit("begin")
  BY DEF Init, NoCat
<1>2. cphase \in {"off", "begin"} /\ tree \in Trees /\ rootAt = 1 /\ list = <<>>
  BY <1>1 DEF CatInit
<1>3. \A k \in 1..(rootAt - 1) : FALSE
  BY <1>2
<1>4. RootsSoFar
  BY <1>2, <1>3 DEF RootsSoFar
<1>5. QED BY <1>2, <1>4 DEF ListInv, ListSoFar

\* What roots stand for depends on the call and the tree.
LEMMA BelowStays ==
  ASSUME UNCHANGED <<call, tree>>
  PROVE  \A r : Below(r)' = Below(r) /\ Resolved(r)' = Resolved(r)
<1>1. \A p : Refused(p)' <=> Refused(p)
  BY DEF Refused, Resolves, Resolved, Exists
<1>2. \A p : Selects(p)' <=> Selects(p)
  BY <1>1 DEF Selects, OfType
<1>3. QED BY <1>2 DEF Below, Resolved

\* A root more adds what is below it.
LEMMA WalkKeepsList ==
  ASSUME CatIInv, ListSoFar, WalkRoot
  PROVE  ListSoFar'
<1>1. /\ cphase = "roots" /\ cphase' = "roots" /\ rootAt <= Len(call.roots)
      /\ list' = list \o Discovered(Resolved(Root)) /\ rootAt' = rootAt + 1
      /\ UNCHANGED <<call, tree>>
  BY DEF WalkRoot
<1>2. /\ call \in CatCalls /\ tree \in Trees /\ (\A p \in Paths : IsNode(tree[p])) /\ list \in Seq(Paths)
      /\ rootAt \in 1..(Len(call.roots) + 1) /\ call.roots \in Seq(Paths) /\ Len(call.roots) \in Nat
  BY LimitsType, LenProperties DEF CatIInv, CatShape, ListSoFar
<1>3. call.paths = <<>> /\ RootsSoFar
  BY <1>1 DEF ListSoFar
<1> DEFINE d == Resolved(Root)
           found == Discovered(d)
<1>4. d \in Paths /\ Root = call.roots[rootAt] /\ rootAt \in 1..Len(call.roots)
  <2>1. rootAt \in 1..Len(call.roots)
    BY <1>1, <1>2
  <2>2. Root \in Paths
    BY <1>2, <2>1, ElementOfSeq DEF Root
  <2>3. QED BY <1>2, <2>1, <2>2 DEF Resolved, IsNode, Root
<1>5. found \in Seq(Paths) /\ ToSet(found) = Below(d) /\ IsInjective(found)
  <2> HIDE DEF d
  <2>1. QED BY <1>2, <1>4, DiscoveredIsBelow
<1>6. \A r : Below(r)' = Below(r) /\ Resolved(r)' = Resolved(r)
  BY <1>1, BelowStays
<1>7. list' = list \o found
  BY <1>1
<1> HIDE DEF found, d
<1>8. ToSet(list') = ToSet(list) \cup Below(d)
  BY <1>2, <1>5, <1>7, SetOfConcat
<1>9. \A k \in 1..(rootAt' - 1) : Below(Resolved(call.roots[k])) \subseteq ToSet(list')
  <2>1. ASSUME NEW k \in 1..(rootAt' - 1) PROVE Below(Resolved(call.roots[k])) \subseteq ToSet(list')
    <3>1. k \in 1..(rootAt - 1) \/ k = rootAt
      BY <1>1, <1>2
    <3>2. QED BY <1>3, <1>4, <1>8, <3>1 DEF RootsSoFar, d
  <2>2. QED BY <2>1
<1>10. rootAt' = 2 => OnlyRoot'
  <2>1. SUFFICES ASSUME rootAt' = 2, Len(call.roots) = 1 PROVE OnlyRoot'
    BY <1>1 DEF OnlyRoot
  <2>2. rootAt = 1 /\ list = <<>>
    BY <1>1, <1>2, <1>3, <2>1 DEF RootsSoFar
  <2>3. list' = found
    BY <1>5, <1>7, <2>2, ConcatEmptySeq
  <2>4. Root = call.roots[1]
    BY <1>4, <2>2
  <2>5. ToSet(list') = Below(Resolved(call.roots[1])) /\ IsInjective(list')
    BY <1>5, <2>3, <2>4 DEF d
  <2>6. QED BY <1>1, <1>6, <2>5 DEF OnlyRoot
<1>11. rootAt' # 1
  BY <1>1, <1>2
<1>12. RootsSoFar'
  <2>1. call.roots' = call.roots
    BY <1>1
  <2>2. QED BY <1>1, <1>6, <1>9, <1>10, <1>11 DEF RootsSoFar
<1>13. QED BY <1>1, <1>2, <1>3, <1>12 DEF ListSoFar

LEMMA OthersKeepList ==
  ASSUME CatIInv, ListSoFar, (CatNext /\ ~WalkRoot /\ ~Change) \/ UNCHANGED catVars
  PROVE  ListSoFar'
<1>1. UNCHANGED <<call, tree, rootAt>>
  BY DEF CatNext, CatFile, Begin, RefuseRoot, RootsDone, FilesDone, FilesLimit, Serve, catVars,
         Access, Stat, Peek, ReadFails, ReadLimit, Read, SkipAs, Skip, GoOn
<1>2. \A r : Below(r)' = Below(r) /\ Resolved(r)' = Resolved(r)
  BY <1>1, BelowStays
<1>3. CASE Begin
  <2>1. /\ cphase = "begin" /\ list' = call.paths
        /\ cphase' = IF call.paths # <<>> THEN "files" ELSE IF call.roots # <<>> THEN "roots" ELSE "refused"
    BY <1>3 DEF Begin
  <2>2. rootAt = 1 /\ list = <<>>
    BY <2>1 DEF ListSoFar
  <2>3. call.paths = <<>> => RootsSoFar'
    <3>1. SUFFICES ASSUME call.paths = <<>> PROVE RootsSoFar'
      OBVIOUS
    <3>2. \A k \in 1..(rootAt' - 1) : FALSE
      BY <1>1, <2>2
    <3>3. rootAt' = 1 /\ list' = <<>> /\ cphase' \in {"roots", "refused"}
      BY <1>1, <2>1, <2>2, <3>1
    <3>4. QED BY <3>2, <3>3 DEF RootsSoFar
  <2>4. QED BY <1>1, <2>1, <2>3 DEF ListSoFar
<1>4. CASE ~Begin
  <2>1. /\ list' = list
        /\ \/ cphase' = cphase
           \/ cphase = "roots" /\ cphase' = "refused"
           \/ cphase = "roots" /\ cphase' = "files" /\ rootAt > Len(call.roots)
           \/ cphase \in {"files", "stat", "peek", "read"} /\ cphase' \in {"files", "stat", "peek", "read", "served"}
    BY <1>4 DEF CatNext, CatFile, RefuseRoot, RootsDone, FilesDone, FilesLimit, Serve, catVars,
         Access, Stat, Peek, ReadFails, ReadLimit, Read, SkipAs, Skip, GoOn
  <2>2. /\ rootAt \in 1..(Len(call.roots) + 1) /\ call.roots \in Seq(Paths) /\ Len(call.roots) \in Nat
    BY LimitsType, LenProperties DEF CatIInv, CatShape
  <2>3. RootsSoFar => RootsSoFar'
    <3> SUFFICES ASSUME RootsSoFar PROVE RootsSoFar'
      OBVIOUS
    <3>2. OnlyRoot' <=> OnlyRoot
      BY <1>1, <1>2, <2>1 DEF OnlyRoot
    <3>3. cphase \in {"files", "stat", "peek", "read", "served"} => rootAt = Len(call.roots) + 1
      BY DEF RootsSoFar
    <3>4. cphase' \in {"files", "stat", "peek", "read", "served"} => rootAt = Len(call.roots) + 1
      BY <2>1, <2>2, <3>3
    <3>5. rootAt' = rootAt /\ call.roots' = call.roots /\ list' = list
      BY <1>1, <2>1
    <3>6. \A k \in 1..(rootAt - 1) : Below(Resolved(call.roots[k]))' \subseteq ToSet(list)
      <4>1. \A k \in 1..(rootAt - 1) : Below(Resolved(call.roots[k])) \subseteq ToSet(list)
        BY DEF RootsSoFar
      <4>2. QED BY <1>1, <1>2, <4>1, <3>5
    <3>7. rootAt = 1 => list = <<>>
      BY DEF RootsSoFar
    <3>8. rootAt = 2 => OnlyRoot
      BY DEF RootsSoFar
    <3>9. QED BY <3>2, <3>4, <3>5, <3>6, <3>7, <3>8 DEF RootsSoFar
  <2>4. QED BY <1>1, <2>1, <2>3 DEF ListSoFar
<1>5. QED BY <1>3, <1>4

LEMMA NextKeepsList ==
  ASSUME CatIInv, ListInv, [Next]_requestVars
  PROVE  ListInv'
<1>1. CatNext \/ UNCHANGED catVars
  BY DEF Next, DiffStep, CatStep, CallStep, requestVars
<1>2. CASE Change
  <2>1. catWrites' = catWrites + 1 /\ catWrites \in 0..maxWrites
    BY <1>2 DEF Change, CatIInv, CatShape
  <2>2. catWrites' # 0
    BY <2>1, CatBoundsAssumption
  <2>3. QED BY <2>2 DEF ListInv
<1>3. CASE ~Change
  <2>1. catWrites' = catWrites
    BY <1>1, <1>3 DEF CatNext, CatFile, Begin, WalkRoot, RefuseRoot, RootsDone, FilesDone, FilesLimit, Serve,
                Access, Stat, Peek, ReadFails, ReadLimit, Read, SkipAs, Skip, GoOn, catVars
  <2>2. QED BY <1>1, <1>3, <2>1, WalkKeepsList, OthersKeepList DEF ListInv
<1>4. QED BY <1>2, <1>3

\* As long as no file changes, a cat's answer is about exactly the files its
\* call stands for - those it names, in their order, or those below its roots,
\* each once when it has one root - and says of each what it is and holds, for
\* all trees, calls and limits (Cat, catDiscover, catReadFiles).
THEOREM QuietCatIsRight == Spec => []QuietCatIsExact
<1> DEFINE IInv == CatIInv /\ ListInv
<1>1. Init => IInv
  BY InitIsCat, InitIsListed
<1>2. IInv /\ [Next]_requestVars => IInv'
  BY NextKeepsCat, NextKeepsList
<1>3. IInv => (cphase = "served" /\ catWrites = 0 => ListIsWhatTheyStandFor)
  <2> SUFFICES ASSUME CatIInv, ListInv, cphase = "served", catWrites = 0 PROVE ListIsWhatTheyStandFor
    OBVIOUS
  <2>1. call.roots \in Seq(Paths) /\ list \in Seq(Paths) /\ ListSoFar
    BY LimitsType DEF CatIInv, CatShape, ListInv
  <2>2. /\ DOMAIN call.roots = 1..Len(call.roots) /\ Len(call.roots) \in Nat
        /\ DOMAIN list = 1..Len(list) /\ Len(list) \in Nat
    BY <2>1, LenProperties
  <2>3. CASE call.paths # <<>>
    BY <2>1, <2>3 DEF ListSoFar, ListIsWhatTheyStandFor
  <2>4. CASE call.paths = <<>>
    <3>1. RootsSoFar /\ rootAt = Len(call.roots) + 1
      BY <2>1, <2>4 DEF ListSoFar, RootsSoFar
    <3>2. ASSUME NEW r \in ToSet(call.roots)
          PROVE  /\ \A p \in Below(Resolved(r)) : Contains(list, p)
                 /\ Len(call.roots) = 1 => ToSet(list) = Below(Resolved(r)) /\ IsInjective(list)
      <4>1. PICK k \in 1..Len(call.roots) : r = call.roots[k]
        BY <2>2 DEF ToSet
      <4>2. k \in 1..(rootAt - 1)
        BY <2>2, <3>1
      <4>3. Below(Resolved(r)) \subseteq ToSet(list)
        BY <3>1, <4>1, <4>2 DEF RootsSoFar
      <4>4. \A p \in ToSet(list) : Contains(list, p)
        BY <2>2 DEF ToSet, Contains
      <4>5. Len(call.roots) = 1 => OnlyRoot /\ r = call.roots[1]
        BY <2>2, <3>1, <4>1 DEF RootsSoFar
      <4>6. QED BY <4>3, <4>4, <4>5 DEF OnlyRoot
    <3>3. QED BY <2>4, <3>2 DEF ListIsWhatTheyStandFor
  <2>5. QED BY <2>3, <2>4
<1> HIDE DEF IInv
<1>4. Spec => [](cphase = "served" /\ catWrites = 0 => ListIsWhatTheyStandFor)
  BY <1>1, <1>2, <1>3, PTL DEF Spec
<1>5. QuietEntriesAreExact /\ (cphase = "served" /\ catWrites = 0 => ListIsWhatTheyStandFor) => QuietCatIsExact
  BY DEF QuietCatIsExact
<1>6. QED BY <1>4, <1>5, QuietEntriesAreRight, PTL

-----------------------------------------------------------------------------
\* What the comparison of a listing is: an order of its entries.

WellNamed(segments) ==
  /\ segments \subseteq NameSegments /\ OfTexts(segments)
  /\ \A x \in segments : x.value <= maxNumber

LEMMA SegmentsCompared ==
  ASSUME NEW S, WellNamed(S), NEW x \in S, NEW y \in S, NEW z \in S
  PROVE  /\ CompareSegments(x, y) \in {-1, 0, 1} /\ CompareSegments(y, x) = -CompareSegments(x, y)
         /\ CompareSegments(x, y) <= 0 /\ CompareSegments(y, z) <= 0 =>
              /\ CompareSegments(x, z) <= 0
              /\ CompareSegments(x, z) = 0 <=> CompareSegments(x, y) = 0 /\ CompareSegments(y, z) = 0
         /\ CompareSegments(x, y) = 0 <=> x.rank = y.rank \/ (x.digits /\ y.digits /\ x.value = y.value)
         /\ CompareSegments(x, y) < 0 =>
              IF x.digits /\ y.digits THEN x.value < y.value ELSE x.rank < y.rank
<1>1. \A s \in S : s.digits \in BOOLEAN /\ s.value \in Nat /\ s.rank \in Int /\ s.value <= maxNumber
  BY DEF WellNamed, NameSegments
<1>2. \A s, t \in S : s.rank = t.rank => s = t
  BY DEF WellNamed, OfTexts
<1>3. \A t, s, u \in S : ~t.digits /\ s.digits /\ u.digits => (t.rank < s.rank <=> t.rank < u.rank)
  BY DEF WellNamed, OfTexts
<1> DEFINE C(s, t) == IF s.digits /\ t.digits
                      THEN IF s.value < t.value THEN -1 ELSE IF s.value > t.value THEN 1 ELSE 0
                      ELSE IF s.rank < t.rank THEN -1 ELSE IF s.rank > t.rank THEN 1 ELSE 0
<1>4. \A s, t \in S : CompareSegments(s, t) = C(s, t)
  BY <1>1 DEF CompareSegments, ParsesAsInt, Compare64
<1>5. C(x, y) \in {-1, 0, 1} /\ C(y, x) = -C(x, y)
  BY <1>1
<1>6. C(x, y) = 0 <=> x.rank = y.rank \/ (x.digits /\ y.digits /\ x.value = y.value)
  BY <1>1, <1>2
<1>7. ASSUME C(x, y) <= 0, C(y, z) <= 0
      PROVE  C(x, z) <= 0 /\ (C(x, z) = 0 <=> C(x, y) = 0 /\ C(y, z) = 0)
  <2>1. CASE x.digits /\ y.digits /\ z.digits
    BY <1>1, <1>7, <2>1
  <2>2. CASE x.digits /\ y.digits /\ ~z.digits
    BY <1>1, <1>2, <1>3, <1>7, <2>2
  <2>3. CASE x.digits /\ ~y.digits /\ z.digits
    BY <1>1, <1>2, <1>3, <1>7, <2>3
  <2>4. CASE ~x.digits /\ y.digits /\ z.digits
    BY <1>1, <1>2, <1>3, <1>7, <2>4
  <2>5. CASE (~x.digits /\ ~y.digits) \/ (~x.digits /\ ~z.digits) \/ (~y.digits /\ ~z.digits)
    BY <1>1, <1>7, <2>5
  <2>6. QED BY <1>1, <2>1, <2>2, <2>3, <2>4, <2>5
<1>8. C(x, y) < 0 => IF x.digits /\ y.digits THEN x.value < y.value ELSE x.rank < y.rank
  BY <1>1
<1> HIDE DEF C
<1>9. QED BY <1>4, <1>5, <1>6, <1>7, <1>8

\* The first segments that differ, and those before them.
AlikeTo(a, b, n) == \A k \in 1..n : CompareSegments(a[k], b[k]) = 0
DifferAt(a, b, n) ==
  n \in 1..Len(a) /\ n \in 1..Len(b) /\ AlikeTo(a, b, n - 1) /\ CompareSegments(a[n], b[n]) # 0
Alike(a, b) == \A k \in 1..Len(a) : k \in 1..Len(b) => CompareSegments(a[k], b[k]) = 0

LEMMA FirstOfDiffering ==
  ASSUME NEW S, NEW a \in Seq(S), NEW b \in Seq(S)
  PROVE  /\ Alike(a, b) \/ \E n \in Nat : DifferAt(a, b, n)
         /\ Alike(a, b) => CompareVersions(a, b) = Compare64(Len(a), Len(b))
         /\ \A n : DifferAt(a, b, n) => CompareVersions(a, b) = CompareSegments(a[n], b[n])
<1>1. Len(a) \in Nat /\ Len(b) \in Nat
  BY LenProperties
<1> DEFINE m == IF Len(a) < Len(b) THEN Len(a) ELSE Len(b)
           D == {n \in 1..m : CompareSegments(a[n], b[n]) # 0}
           first == CHOOSE n \in D : \A k \in D : n <= k
<1>2. m \in Nat /\ \A n : n \in 1..m <=> n \in 1..Len(a) /\ n \in 1..Len(b)
  BY <1>1
<1>3. CompareVersions(a, b) = IF D = {} THEN Compare64(Len(a), Len(b)) ELSE CompareSegments(a[first], b[first])
  BY DEF CompareVersions
<1> HIDE DEF m
<1>4. Alike(a, b) <=> D = {}
  BY <1>2 DEF Alike
<1>5. D # {} => first \in D /\ \A k \in D : first <= k
  <2>1. \A n \in D : n \in Nat
    BY <1>2
  <2>2. D # {} => \E n \in D : \A k \in D : n <= k
    <3> HIDE DEF D
    <3> QED BY <2>1, SmallestOfNat
  <2>3. QED BY <2>2
<1>6. ASSUME NEW n, DifferAt(a, b, n) PROVE n \in D /\ \A k \in D : n <= k
  <2>1. n \in D
    BY <1>2, <1>6 DEF DifferAt
  <2>2. ASSUME NEW k \in D PROVE n <= k
    <3>1. ~(k \in 1..(n - 1))
      BY <1>6 DEF DifferAt, AlikeTo
    <3>2. QED BY <1>2, <2>1, <3>1
  <2>3. QED BY <2>1, <2>2
<1>7. ASSUME D # {} PROVE DifferAt(a, b, first) /\ first \in Nat
  <2>1. first \in 1..m /\ first \in Nat /\ first \in D /\ \A k \in D : first <= k
    BY <1>2, <1>5, <1>7
  <2> HIDE DEF first
  <2>2. AlikeTo(a, b, first - 1)
    <3>1. ASSUME NEW k \in 1..(first - 1) PROVE CompareSegments(a[k], b[k]) = 0
      <4>1. k \in 1..m /\ ~(first <= k)
        BY <1>2, <2>1, <3>1
      <4>2. QED BY <2>1, <4>1
    <3>2. QED BY <3>1 DEF AlikeTo
  <2>3. QED BY <1>2, <2>1, <2>2 DEF DifferAt
<1>8. ASSUME NEW n, DifferAt(a, b, n) PROVE CompareVersions(a, b) = CompareSegments(a[n], b[n])
  <2>1. n \in D /\ first \in D /\ n <= first /\ first <= n
    BY <1>5, <1>6, <1>8
  <2>2. n = first
    <3>1. n \in Nat /\ first \in Nat
      BY <1>2, <2>1
    <3> HIDE DEF first, D
    <3> QED BY <2>1, <3>1
  <2>3. QED BY <1>3, <2>1, <2>2
<1>9. QED BY <1>3, <1>4, <1>7, <1>8

LEMMA VersionsCompared ==
  ASSUME NEW S, WellNamed(S), NEW a \in Seq(S), NEW b \in Seq(S)
  PROVE  /\ CompareVersions(a, b) \in {-1, 0, 1} /\ CompareVersions(b, a) = -CompareVersions(a, b)
         /\ VersionBefore(a, b) <=> CompareVersions(a, b) < 0
<1>1. Len(a) \in Nat /\ Len(b) \in Nat /\ DOMAIN a = 1..Len(a) /\ DOMAIN b = 1..Len(b)
  BY LenProperties
<1>2. (\A n \in 1..Len(a) : a[n] \in S) /\ (\A n \in 1..Len(b) : b[n] \in S)
  BY ElementOfSeq
<1>3. \A n \in 1..Len(a) : n \in 1..Len(b) =>
        /\ CompareSegments(a[n], b[n]) \in {-1, 0, 1}
        /\ CompareSegments(b[n], a[n]) = -CompareSegments(a[n], b[n])
        /\ CompareSegments(a[n], b[n]) = 0 <=>
             a[n].rank = b[n].rank \/ (a[n].digits /\ b[n].digits /\ a[n].value = b[n].value)
        /\ CompareSegments(a[n], b[n]) < 0 <=>
             /\ CompareSegments(a[n], b[n]) # 0
             /\ IF a[n].digits /\ b[n].digits THEN a[n].value < b[n].value ELSE a[n].rank < b[n].rank
  <2>1. ASSUME NEW x \in S, NEW y \in S
        PROVE  /\ CompareSegments(x, y) \in {-1, 0, 1} /\ CompareSegments(y, x) = -CompareSegments(x, y)
               /\ CompareSegments(x, y) = 0 <=> x.rank = y.rank \/ (x.digits /\ y.digits /\ x.value = y.value)
               /\ CompareSegments(x, y) < 0 =>
                    IF x.digits /\ y.digits THEN x.value < y.value ELSE x.rank < y.rank
    BY SegmentsCompared
  <2>2. ASSUME NEW x \in S, NEW y \in S, CompareSegments(x, y) # 0,
               IF x.digits /\ y.digits THEN x.value < y.value ELSE x.rank < y.rank
        PROVE  CompareSegments(x, y) < 0
    <3>1. /\ x.digits \in BOOLEAN /\ x.value \in Nat /\ x.rank \in Int
          /\ y.digits \in BOOLEAN /\ y.value \in Nat /\ y.rank \in Int
      BY DEF WellNamed, NameSegments
    <3>2. CompareSegments(x, y) \in {-1, 1} /\ CompareSegments(y, x) = -CompareSegments(x, y)
      BY <2>1, <2>2
    <3>3. CompareSegments(y, x) < 0 => IF y.digits /\ x.digits THEN y.value < x.value ELSE y.rank < x.rank
      BY <2>1
    <3>4. CompareSegments(y, x) < 0 => FALSE
      BY <2>2, <3>1, <3>3
    <3>5. QED BY <3>2, <3>4
  <2>3. ASSUME NEW n \in 1..Len(a), n \in 1..Len(b)
        PROVE  a[n] \in S /\ b[n] \in S
    BY <1>2, <2>3
  <2>4. \A x, y \in S : CompareSegments(x, y) < 0 => CompareSegments(x, y) # 0
    OBVIOUS
  <2>5. QED BY <2>1, <2>2, <2>3, <2>4, Zenon
<1>4. (Alike(a, b) <=> Alike(b, a)) /\ \A n : DifferAt(a, b, n) => DifferAt(b, a, n)
  <2>1. \A n : n \in 1..Len(a) /\ n \in 1..Len(b) =>
          (CompareSegments(a[n], b[n]) = 0 <=> CompareSegments(b[n], a[n]) = 0)
    BY <1>3
  <2>2. \A n : n \in 1..Len(a) /\ n \in 1..Len(b) =>
          \A k \in 1..(n - 1) : k \in 1..Len(a) /\ k \in 1..Len(b)
    BY <1>1
  <2>3. QED BY <2>1, <2>2 DEF Alike, DifferAt, AlikeTo
<1>5. /\ Alike(a, b) => /\ CompareVersions(a, b) = Compare64(Len(a), Len(b))
                        /\ CompareVersions(b, a) = Compare64(Len(b), Len(a))
      /\ \A n : DifferAt(a, b, n) => /\ CompareVersions(a, b) = CompareSegments(a[n], b[n])
                                     /\ CompareVersions(b, a) = CompareSegments(b[n], a[n])
      /\ Alike(a, b) \/ \E n \in Nat : DifferAt(a, b, n)
  BY <1>4, FirstOfDiffering
<1>6. CompareVersions(a, b) \in {-1, 0, 1} /\ CompareVersions(b, a) = -CompareVersions(a, b)
  <2>1. CASE Alike(a, b)
    BY <1>1, <1>5, <2>1 DEF Compare64
  <2>2. ASSUME NEW n \in Nat, DifferAt(a, b, n)
        PROVE  CompareVersions(a, b) \in {-1, 0, 1} /\ CompareVersions(b, a) = -CompareVersions(a, b)
    <3>1. n \in 1..Len(a) /\ n \in 1..Len(b)
      BY <2>2 DEF DifferAt
    <3>2. CompareSegments(a[n], b[n]) \in {-1, 0, 1} /\ CompareSegments(b[n], a[n]) = -CompareSegments(a[n], b[n])
      BY <1>3, <3>1
    <3>3. QED BY <1>5, <2>2, <3>2
  <2>3. QED BY <1>5, <2>1, <2>2
<1>7. \A n \in Nat : (n <= Len(a) /\ n <= Len(b)) => (SameUpTo(a, b, n) <=> AlikeTo(a, b, n))
  <2>1. ASSUME NEW n \in Nat, n <= Len(a), n <= Len(b) PROVE SameUpTo(a, b, n) <=> AlikeTo(a, b, n)
    <3>1. \A k \in 1..n : k \in 1..Len(a) /\ k \in 1..Len(b)
      BY <1>1, <2>1
    <3>2. \A k \in 1..n : CompareSegments(a[k], b[k]) = 0 <=>
             a[k].rank = b[k].rank \/ (a[k].digits /\ b[k].digits /\ a[k].value = b[k].value)
      BY <1>3, <3>1
    <3>3. QED BY <3>2 DEF SameUpTo, Numeric, AlikeTo
  <2>2. QED BY <2>1
<1>8. ASSUME VersionBefore(a, b) PROVE CompareVersions(a, b) < 0
  <2>1. CASE Len(a) < Len(b) /\ SameUpTo(a, b, Len(a))
    <3>1. Alike(a, b)
      BY <1>1, <1>7, <2>1 DEF Alike, AlikeTo
    <3>2. QED BY <1>1, <1>5, <2>1, <3>1 DEF Compare64
  <2>2. ASSUME NEW n \in DOMAIN a \cap DOMAIN b, SameUpTo(a, b, n - 1), ~SameUpTo(a, b, n),
               IF Numeric(a, b, n) THEN a[n].value < b[n].value ELSE a[n].rank < b[n].rank
        PROVE  CompareVersions(a, b) < 0
    <3>1. n \in 1..Len(a) /\ n \in 1..Len(b) /\ n \in Nat /\ n - 1 \in Nat /\ n <= Len(a) /\ n <= Len(b)
          /\ n - 1 <= Len(a) /\ n - 1 <= Len(b)
      BY <1>1
    <3>2. AlikeTo(a, b, n - 1) /\ ~AlikeTo(a, b, n)
      BY <1>7, <2>2, <3>1
    <3>3. CompareSegments(a[n], b[n]) # 0
      <4>1. \A k \in 1..n : k = n \/ k \in 1..(n - 1)
        BY <3>1
      <4>2. QED BY <3>2, <4>1 DEF AlikeTo
    <3>4. DifferAt(a, b, n)
      BY <3>1, <3>2, <3>3 DEF DifferAt
    <3>5. CompareSegments(a[n], b[n]) < 0
      BY <1>3, <2>2, <3>1, <3>3 DEF Numeric
    <3>6. QED BY <1>5, <3>4, <3>5
  <2>3. QED BY <1>8, <2>1, <2>2 DEF VersionBefore
<1>9. ASSUME CompareVersions(a, b) < 0 PROVE VersionBefore(a, b)
  <2>1. CASE Alike(a, b)
    <3>1. Len(a) < Len(b)
      BY <1>1, <1>5, <1>9, <2>1 DEF Compare64
    <3>2. AlikeTo(a, b, Len(a))
      BY <1>1, <2>1, <3>1 DEF Alike, AlikeTo
    <3>3. SameUpTo(a, b, Len(a))
      BY <1>1, <1>7, <3>1, <3>2
    <3>4. QED BY <3>1, <3>3 DEF VersionBefore
  <2>2. ASSUME NEW n \in Nat, DifferAt(a, b, n) PROVE VersionBefore(a, b)
    <3>1. n \in 1..Len(a) /\ n \in 1..Len(b) /\ AlikeTo(a, b, n - 1) /\ CompareSegments(a[n], b[n]) # 0
      BY <2>2 DEF DifferAt
    <3>2. n - 1 \in Nat /\ n <= Len(a) /\ n <= Len(b) /\ n - 1 <= Len(a) /\ n - 1 <= Len(b) /\ n \in 1..n
      BY <1>1, <3>1
    <3>3. ~AlikeTo(a, b, n)
      BY <3>1, <3>2 DEF AlikeTo
    <3>4. SameUpTo(a, b, n - 1) /\ ~SameUpTo(a, b, n)
      BY <1>7, <3>1, <3>2, <3>3
    <3>5. CompareSegments(a[n], b[n]) < 0
      BY <1>5, <1>9, <2>2
    <3>6. IF Numeric(a, b, n) THEN a[n].value < b[n].value ELSE a[n].rank < b[n].rank
      BY <1>3, <3>1, <3>5 DEF Numeric
    <3>7. n \in DOMAIN a \cap DOMAIN b
      BY <1>1, <3>1
    <3>8. QED BY <3>4, <3>6, <3>7 DEF VersionBefore
  <2>3. QED BY <1>5, <2>1, <2>2
<1>10. QED BY <1>6, <1>8, <1>9

LEMMA VersionsInOrder ==
  ASSUME NEW S, WellNamed(S), NEW a \in Seq(S), NEW b \in Seq(S), NEW d \in Seq(S),
         CompareVersions(a, b) <= 0, CompareVersions(b, d) <= 0
  PROVE  CompareVersions(a, d) <= 0
<1>1. Len(a) \in Nat /\ Len(b) \in Nat /\ Len(d) \in Nat
  BY LenProperties
<1>2. \A x, y, z \in S : CompareSegments(x, y) <= 0 /\ CompareSegments(y, z) <= 0 =>
        /\ CompareSegments(x, z) <= 0
        /\ CompareSegments(x, z) = 0 <=> CompareSegments(x, y) = 0 /\ CompareSegments(y, z) = 0
  BY SegmentsCompared
<1>3. \A n : /\ n \in 1..Len(a) => a[n] \in S
             /\ n \in 1..Len(b) => b[n] \in S
             /\ n \in 1..Len(d) => d[n] \in S
  BY ElementOfSeq
<1>4. ASSUME NEW n, n \in 1..Len(a), n \in 1..Len(b), n \in 1..Len(d),
             CompareSegments(a[n], b[n]) <= 0, CompareSegments(b[n], d[n]) <= 0
      PROVE  /\ CompareSegments(a[n], d[n]) <= 0
             /\ CompareSegments(a[n], d[n]) = 0 <=>
                  CompareSegments(a[n], b[n]) = 0 /\ CompareSegments(b[n], d[n]) = 0
  BY <1>2, <1>3, <1>4
<1>5. \A n : DifferAt(a, b, n) => CompareSegments(a[n], b[n]) <= 0
  BY FirstOfDiffering
<1>6. \A n : DifferAt(b, d, n) => CompareSegments(b[n], d[n]) <= 0
  BY FirstOfDiffering
<1>7. ASSUME NEW n \in Nat, DifferAt(a, d, n), CompareSegments(a[n], d[n]) <= 0
      PROVE  CompareVersions(a, d) <= 0
  BY <1>7, FirstOfDiffering
\* It is enough that the segments before n are alike on both sides, and that at n they differ.
<1>8. ASSUME NEW n \in Nat, n \in 1..Len(a), n \in 1..Len(b), n \in 1..Len(d),
             AlikeTo(a, b, n - 1), AlikeTo(b, d, n - 1),
             CompareSegments(a[n], b[n]) <= 0, CompareSegments(b[n], d[n]) <= 0,
             CompareSegments(a[n], b[n]) # 0 \/ CompareSegments(b[n], d[n]) # 0
      PROVE  CompareVersions(a, d) <= 0
  <2>1. CompareSegments(a[n], d[n]) <= 0 /\ CompareSegments(a[n], d[n]) # 0
    BY <1>4, <1>8
  <2>2. ASSUME NEW k \in 1..(n - 1) PROVE CompareSegments(a[k], d[k]) = 0
    <3>1. k \in 1..Len(a) /\ k \in 1..Len(b) /\ k \in 1..Len(d)
      BY <1>1, <1>8
    <3>2. CompareSegments(a[k], b[k]) = 0 /\ CompareSegments(b[k], d[k]) = 0
      BY <1>8 DEF AlikeTo
    <3>3. QED BY <1>4, <3>1, <3>2
  <2>3. DifferAt(a, d, n)
    BY <1>8, <2>1, <2>2 DEF DifferAt, AlikeTo
  <2>4. QED BY <1>7, <2>1, <2>3
<1>9. CASE Alike(a, b) /\ Alike(b, d)
  <2>1. Len(a) <= Len(b) /\ Len(b) <= Len(d)
    <3>1. CompareVersions(a, b) = Compare64(Len(a), Len(b)) /\ CompareVersions(b, d) = Compare64(Len(b), Len(d))
      BY <1>9, FirstOfDiffering
    <3>2. QED BY <1>1, <3>1 DEF Compare64
  <2>2. ASSUME NEW k \in 1..Len(a), k \in 1..Len(d) PROVE CompareSegments(a[k], d[k]) = 0
    <3>1. k \in 1..Len(b)
      BY <1>1, <2>1
    <3>2. CompareSegments(a[k], b[k]) = 0 /\ CompareSegments(b[k], d[k]) = 0
      BY <1>9, <2>2, <3>1 DEF Alike
    <3>3. QED BY <1>4, <2>2, <3>1, <3>2
  <2>3. Alike(a, d)
    BY <2>2 DEF Alike
  <2>4. CompareVersions(a, d) = Compare64(Len(a), Len(d))
    BY <2>3, FirstOfDiffering
  <2>5. QED BY <1>1, <2>1, <2>4 DEF Compare64
<1>10. ASSUME Alike(a, b), NEW m \in Nat, DifferAt(b, d, m) PROVE CompareVersions(a, d) <= 0
  <2>1. CompareVersions(a, b) = Compare64(Len(a), Len(b))
    BY <1>10, FirstOfDiffering
  <2>2. Len(a) <= Len(b)
    BY <1>1, <2>1 DEF Compare64
  <2>3. m \in 1..Len(b) /\ m \in 1..Len(d) /\ AlikeTo(b, d, m - 1) /\ CompareSegments(b[m], d[m]) # 0
    BY <1>10 DEF DifferAt
  <2>4. CASE m <= Len(a)
    <3>1. m \in 1..Len(a)
      BY <2>3, <2>4
    <3>2. AlikeTo(a, b, m - 1) /\ CompareSegments(a[m], b[m]) = 0
      <4>1. \A k \in 1..(m - 1) : k \in 1..Len(a) /\ k \in 1..Len(b)
        BY <1>1, <2>3, <3>1
      <4>2. QED BY <1>10, <2>3, <3>1, <4>1 DEF Alike, AlikeTo
    <3>3. CompareSegments(a[m], b[m]) <= 0 /\ CompareSegments(b[m], d[m]) <= 0
      BY <1>6, <1>10, <3>2
    <3>4. QED BY <1>8, <2>3, <3>1, <3>2, <3>3
  <2>5. CASE m > Len(a)
    <3>1. ASSUME NEW k \in 1..Len(a) PROVE CompareSegments(a[k], d[k]) = 0
      <4>1. k \in 1..Len(b) /\ k \in 1..Len(d) /\ k \in 1..(m - 1)
        BY <1>1, <2>2, <2>3, <2>5
      <4>2. CompareSegments(a[k], b[k]) = 0 /\ CompareSegments(b[k], d[k]) = 0
        BY <1>10, <2>3, <3>1, <4>1 DEF Alike, AlikeTo
      <4>3. QED BY <1>4, <4>1, <4>2
    <3>2. Alike(a, d)
      BY <3>1 DEF Alike
    <3>3. CompareVersions(a, d) = Compare64(Len(a), Len(d))
      BY <3>2, FirstOfDiffering
    <3>4. Len(a) < Len(d)
      BY <1>1, <2>3, <2>5
    <3>5. QED BY <1>1, <3>3, <3>4 DEF Compare64
  <2>6. QED BY <1>1, <2>4, <2>5
<1>11. ASSUME NEW n \in Nat, DifferAt(a, b, n) PROVE CompareVersions(a, d) <= 0
  <2>1. n \in 1..Len(a) /\ n \in 1..Len(b) /\ AlikeTo(a, b, n - 1) /\ CompareSegments(a[n], b[n]) # 0
    BY <1>11 DEF DifferAt
  <2>2. CompareSegments(a[n], b[n]) <= 0
    BY <1>5, <1>11
  <2>3. CASE Alike(b, d)
    <3>1. CompareVersions(b, d) = Compare64(Len(b), Len(d))
      BY <2>3, FirstOfDiffering
    <3>2. n \in 1..Len(d)
      BY <1>1, <2>1, <3>1 DEF Compare64
    <3>3. AlikeTo(b, d, n - 1) /\ CompareSegments(b[n], d[n]) = 0
      <4>1. \A k \in 1..(n - 1) : k \in 1..Len(b) /\ k \in 1..Len(d)
        BY <1>1, <2>1, <3>2
      <4>2. QED BY <2>1, <2>3, <3>2, <4>1 DEF Alike, AlikeTo
    <3>4. QED BY <1>8, <2>1, <2>2, <3>2, <3>3
  <2>4. ASSUME NEW m \in Nat, DifferAt(b, d, m) PROVE CompareVersions(a, d) <= 0
    <3>1. m \in 1..Len(b) /\ m \in 1..Len(d) /\ AlikeTo(b, d, m - 1) /\ CompareSegments(b[m], d[m]) # 0
      BY <2>4 DEF DifferAt
    <3>2. CompareSegments(b[m], d[m]) <= 0
      BY <1>6, <2>4
    <3>3. CASE n <= m
      <4>1. n \in 1..Len(d) /\ \A k \in 1..(n - 1) : k \in 1..(m - 1)
        BY <1>1, <2>1, <3>1, <3>3
      <4>2. AlikeTo(b, d, n - 1)
        BY <3>1, <4>1 DEF AlikeTo
      <4>3. n = m \/ n \in 1..(m - 1)
        BY <2>1, <3>1, <3>3
      <4>4. CompareSegments(b[n], d[n]) <= 0
        <5>1. CASE n = m
          BY <3>2, <5>1
        <5>2. CASE n \in 1..(m - 1)
          BY <3>1, <5>2 DEF AlikeTo
        <5>3. QED BY <4>3, <5>1, <5>2
      <4>5. QED BY <1>8, <2>1, <2>2, <4>1, <4>2, <4>4
    <3>4. CASE m < n
      <4>1. m \in 1..Len(a) /\ m \in 1..(n - 1) /\ \A k \in 1..(m - 1) : k \in 1..(n - 1)
        BY <1>1, <2>1, <3>1, <3>4
      <4>2. AlikeTo(a, b, m - 1) /\ CompareSegments(a[m], b[m]) <= 0
        BY <2>1, <4>1 DEF AlikeTo
      <4>3. QED BY <1>8, <3>1, <3>2, <4>1, <4>2
    <3>5. QED BY <3>3, <3>4
  <2>5. QED BY <2>3, <2>4, FirstOfDiffering
<1>12. QED BY <1>9, <1>10, <1>11, FirstOfDiffering

LEMMA NamesAreText ==
  ASSUME NEW c \in SortCalls, WithinNumbers(c), c.order = "version"
  PROVE  /\ WellNamed(SegmentsOf(c))
         /\ \A e \in ToSet(c.entries) : e.version \in Seq(SegmentsOf(c))
<1>1. c.entries \in Seq(ListedFiles) /\ OfTexts(SegmentsOf(c))
  BY SortCallsAssumption
<1>2. \A n \in DOMAIN c.entries : c.entries[n] \in ListedFiles
  BY <1>1, LenProperties, ElementOfSeq
<1>3. \A n \in DOMAIN c.entries : c.entries[n].version \in Seq(NameSegments)
  BY <1>2 DEF ListedFiles
<1>4. \A v \in Seq(NameSegments) : /\ ToSet(v) \subseteq NameSegments /\ v \in Seq(ToSet(v))
                                   /\ ToSet(v) = {v[k] : k \in DOMAIN v}
  <2>1. ASSUME NEW v \in Seq(NameSegments)
        PROVE  /\ ToSet(v) \subseteq NameSegments /\ v \in Seq(ToSet(v)) /\ ToSet(v) = {v[k] : k \in DOMAIN v}
    <3>1. ToSet(v) \subseteq NameSegments /\ ToSet(v) = {v[k] : k \in 1..Len(v)} /\ Len(v) \in Nat
      BY SetOfSeq
    <3>2. v \in [1..Len(v) -> ToSet(v)] /\ DOMAIN v = 1..Len(v)
      BY <3>1, LenProperties
    <3>3. v \in Seq(ToSet(v))
      <4>1. \A T : v \in [1..Len(v) -> T] /\ Len(v) \in Nat => v \in Seq(T)
        BY SeqDef
      <4>2. QED BY <3>1, <3>2, <4>1
    <3>4. QED BY <3>1, <3>2, <3>3
  <2>2. QED BY <2>1
<1>5. SegmentsOf(c) \subseteq NameSegments
  BY <1>3, <1>4 DEF SegmentsOf
<1>6. \A x \in SegmentsOf(c) : x.value <= maxNumber
  <2>1. ASSUME NEW x \in SegmentsOf(c) PROVE x.value <= maxNumber
    <3>1. PICK n \in DOMAIN c.entries : x \in ToSet(c.entries[n].version)
      BY DEF SegmentsOf
    <3>2. PICK k \in DOMAIN c.entries[n].version : x = c.entries[n].version[k]
      BY <1>3, <1>4, <3>1
    <3>3. QED BY <3>2 DEF WithinNumbers
  <2>2. QED BY <2>1
<1>7. ASSUME NEW e \in ToSet(c.entries) PROVE e.version \in Seq(SegmentsOf(c))
  <2>1. PICK n \in DOMAIN c.entries : e = c.entries[n]
    BY <1>1, SetOfSeq, LenProperties
  <2>2. ToSet(e.version) \subseteq SegmentsOf(c)
    BY <2>1 DEF SegmentsOf
  <2>3. e.version \in Seq(ToSet(e.version))
    BY <1>3, <1>4, <2>1
  <2>4. e.version \in [1..Len(e.version) -> SegmentsOf(c)] /\ Len(e.version) \in Nat
    BY <2>2, <2>3, LenProperties
  <2>5. QED BY <2>4, SeqDef
<1>8. QED BY <1>1, <1>5, <1>6, <1>7 DEF WellNamed

LEMMA IntegersCompared ==
  ASSUME NEW x \in Int, NEW y \in Int, NEW z \in Int
  PROVE  /\ Compare64(x, y) \in {-1, 0, 1} /\ Compare64(y, x) = -Compare64(x, y)
         /\ Compare64(x, y) <= 0 /\ Compare64(y, z) <= 0 => Compare64(x, z) <= 0
         /\ x < y <=> Compare64(x, y) < 0
BY DEF Compare64

LEMMA Signs ==
  ASSUME NEW k \in {-1, 0, 1}
  PROVE  /\ (-1) * k < 0 <=> -k < 0
         /\ 1 * k < 0 <=> k < 0
         /\ k <= 0 <=> ~(-k < 0)
         /\ k < 0 => k <= 0
OBVIOUS

\* A call that sorts, of names whose numbers are within an int64.
Sortable(c) == c \in SortCalls /\ WithinNumbers(c) /\ c.order # ""

LEMMA ListedInOrder ==
  ASSUME NEW c, Sortable(c),
         NEW a \in ToSet(c.entries), NEW b \in ToSet(c.entries), NEW d \in ToSet(c.entries)
  PROVE  /\ CompareListed(c, a, b) \in {-1, 0, 1} /\ CompareListed(c, b, a) = -CompareListed(c, a, b)
         /\ CompareListed(c, a, b) <= 0 /\ CompareListed(c, b, d) <= 0 => CompareListed(c, a, d) <= 0
         /\ Before(c, a, b) <=> CompareListed(c, a, b) < 0
<1>1. c.entries \in Seq(ListedFiles) /\ c.order \in SortOrders /\ c.order # ""
      /\ c \in SortCalls /\ WithinNumbers(c)
  BY SortCallsAssumption DEF Sortable
<1>2. a \in ListedFiles /\ b \in ListedFiles /\ d \in ListedFiles
  BY <1>1, SetOfSeq
<1>3. CASE c.order = "version"
  <2> DEFINE S == SegmentsOf(c)
  <2>1. WellNamed(S) /\ a.version \in Seq(S) /\ b.version \in Seq(S) /\ d.version \in Seq(S)
    BY <1>1, <1>3, NamesAreText
  <2>2. \A x, y \in {a, b, d} : CompareListed(c, x, y) = CompareVersions(x.version, y.version)
    BY <1>3 DEF CompareListed
  <2>3. Before(c, a, b) <=> VersionBefore(a.version, b.version)
    BY <1>3 DEF Before
  <2> HIDE DEF S
  <2>4. /\ CompareVersions(a.version, b.version) \in {-1, 0, 1}
        /\ CompareVersions(b.version, a.version) = -CompareVersions(a.version, b.version)
        /\ VersionBefore(a.version, b.version) <=> CompareVersions(a.version, b.version) < 0
    BY <2>1, VersionsCompared
  <2>5. CompareVersions(a.version, b.version) <= 0 /\ CompareVersions(b.version, d.version) <= 0
          => CompareVersions(a.version, d.version) <= 0
    BY <2>1, VersionsInOrder
  <2>6. QED BY <2>2, <2>3, <2>4, <2>5
<1>4. CASE c.order # "version"
  <2> DEFINE by(x) == CASE c.order = "name" -> x.name
                        [] c.order = "size" -> x.size
                        [] c.order = "mtime" /\ c.of = "list" -> x.mtime
                        [] OTHER -> x.path
  <2>1. by(a) \in Int /\ by(b) \in Int /\ by(d) \in Int
    BY <1>2 DEF ListedFiles
  <2>2. \A x, y \in {a, b, d} : CompareListed(c, x, y) = Compare64(by(x), by(y))
    BY <1>1, <1>4 DEF CompareListed, SortOrders
  <2>3. Before(c, a, b) <=> by(a) < by(b)
    BY <1>1, <1>4 DEF Before, SortOrders
  <2> HIDE DEF by
  <2>4. /\ Compare64(by(a), by(b)) \in {-1, 0, 1} /\ Compare64(by(b), by(a)) = -Compare64(by(a), by(b))
        /\ Compare64(by(a), by(b)) <= 0 /\ Compare64(by(b), by(d)) <= 0 => Compare64(by(a), by(d)) <= 0
        /\ by(a) < by(b) <=> Compare64(by(a), by(b)) < 0
    BY <2>1, IntegersCompared
  <2>5. /\ CompareListed(c, a, b) = Compare64(by(a), by(b)) /\ CompareListed(c, b, a) = Compare64(by(b), by(a))
        /\ CompareListed(c, b, d) = Compare64(by(b), by(d)) /\ CompareListed(c, a, d) = Compare64(by(a), by(d))
    BY <2>2
  <2>6. QED BY <2>3, <2>4, <2>5
<1>5. QED BY <1>3, <1>4

-----------------------------------------------------------------------------
\* What insertion keeps.

Goes(c, a, b) == (IF c.descending THEN -1 ELSE 1) * CompareListed(c, a, b) < 0

LEMMA GoesIfLess ==
  ASSUME NEW c, Sortable(c),
         NEW a \in ToSet(c.entries), NEW b \in ToSet(c.entries)
  PROVE  Goes(c, a, b) <=> IF c.descending THEN Before(c, b, a) ELSE Before(c, a, b)
<1>1. c.descending \in BOOLEAN
  BY SortCallsAssumption DEF Sortable
<1>2. /\ CompareListed(c, a, b) \in {-1, 0, 1} /\ CompareListed(c, b, a) = -CompareListed(c, a, b)
      /\ Before(c, a, b) <=> CompareListed(c, a, b) < 0
      /\ Before(c, b, a) <=> CompareListed(c, b, a) < 0
  BY ListedInOrder
<1> DEFINE k == CompareListed(c, a, b)
<1>3. k \in {-1, 0, 1}
  BY <1>2
<1>4. /\ Before(c, a, b) <=> k < 0
      /\ Before(c, b, a) <=> -k < 0
  BY <1>2
<1>5. Goes(c, a, b) <=> IF c.descending THEN (-1) * k < 0 ELSE 1 * k < 0
  BY <1>1 DEF Goes
<1> HIDE DEF k
<1>6. ((-1) * k < 0 <=> -k < 0) /\ (1 * k < 0 <=> k < 0)
  BY <1>3, Signs
<1>7. QED BY <1>1, <1>4, <1>5, <1>6

LEMMA GoesInOrder ==
  ASSUME NEW c, Sortable(c),
         NEW a \in ToSet(c.entries), NEW b \in ToSet(c.entries), NEW d \in ToSet(c.entries)
  PROVE  /\ Goes(c, a, b) => ~Goes(c, b, a)
         /\ ~Goes(c, b, a) /\ ~Goes(c, d, b) => ~Goes(c, d, a)
<1>1. c.descending \in BOOLEAN
  BY SortCallsAssumption DEF Sortable
<1>2. ASSUME NEW x \in ToSet(c.entries), NEW y \in ToSet(c.entries), NEW z \in ToSet(c.entries)
      PROVE  /\ Before(c, x, y) => ~Before(c, y, x)
             /\ ~Before(c, y, x) /\ ~Before(c, z, y) => ~Before(c, z, x)
  <2>1. ASSUME NEW v \in ToSet(c.entries), NEW w \in ToSet(c.entries)
        PROVE  /\ CompareListed(c, v, w) <= 0 <=> ~(CompareListed(c, w, v) < 0)
               /\ CompareListed(c, v, w) < 0 => CompareListed(c, v, w) <= 0
    <3> DEFINE k == CompareListed(c, v, w)
               l == CompareListed(c, w, v)
    <3>1. k \in {-1, 0, 1} /\ l = -k
      BY ListedInOrder
    <3> HIDE DEF k, l
    <3>2. (k <= 0 <=> ~(l < 0)) /\ (k < 0 => k <= 0)
      BY <3>1, Signs
    <3>3. QED BY <3>2 DEF k, l
  <2>2. CompareListed(c, x, y) <= 0 /\ CompareListed(c, y, z) <= 0 => CompareListed(c, x, z) <= 0
    BY ListedInOrder
  <2>3. /\ Before(c, x, y) <=> CompareListed(c, x, y) < 0
        /\ Before(c, y, x) <=> CompareListed(c, y, x) < 0
        /\ Before(c, z, y) <=> CompareListed(c, z, y) < 0
        /\ Before(c, z, x) <=> CompareListed(c, z, x) < 0
    BY ListedInOrder
  <2>4. QED BY <2>1, <2>2, <2>3, Zenon
<1>3. \A x, y \in ToSet(c.entries) : Goes(c, x, y) <=> IF c.descending THEN Before(c, y, x) ELSE Before(c, x, y)
  BY GoesIfLess
<1>4. CASE c.descending
  <2>1. \A x, y \in ToSet(c.entries) : Goes(c, x, y) <=> Before(c, y, x)
    BY <1>3, <1>4
  <2>2. QED BY <1>2, <2>1
<1>5. CASE ~c.descending
  <2>1. \A x, y \in ToSet(c.entries) : Goes(c, x, y) <=> Before(c, x, y)
    BY <1>3, <1>5
  <2>2. QED BY <1>2, <2>1
<1>6. QED BY <1>1, <1>4, <1>5

\* Where an entry is placed: behind the last that does not follow it.
LEMMA PlacedBehind ==
  ASSUME NEW c, NEW S, NEW s \in Seq(S), NEW x \in S
  PROVE  \E n \in 0..Len(s) :
           /\ Placed(c, s, x) = SubSeq(s, 1, n) \o <<x>> \o SubSeq(s, n + 1, Len(s))
           /\ n # 0 => ~Goes(c, x, s[n])
           /\ \A k \in (n + 1)..Len(s) : Goes(c, x, s[k])
<1>1. Len(s) \in Nat /\ DOMAIN s = 1..Len(s)
  BY LenProperties
<1> DEFINE stay == {n \in DOMAIN s : ~Goes(c, x, s[n])}
           place == CHOOSE n \in stay \cup {0} : \A m \in stay : m <= n
<1>2. Placed(c, s, x) = SubSeq(s, 1, place) \o <<x>> \o SubSeq(s, place + 1, Len(s))
  BY DEF Placed, Goes
<1>3. place \in stay \cup {0} /\ \A m \in stay : m <= place
  <2> HIDE DEF stay
  <2>1. \A m \in stay : m \in Nat /\ m <= Len(s)
    BY <1>1 DEF stay
  <2>2. \E n \in stay \cup {0} : \A m \in stay : m <= n
    <3>1. CASE stay = {}
      BY <3>1
    <3>2. CASE stay # {}
      BY <1>1, <2>1, <3>2, LargestOfNat
    <3>3. QED BY <3>1, <3>2
  <2>3. QED BY <2>2
<1> HIDE DEF place
<1>4. place \in 0..Len(s) /\ (place # 0 => ~Goes(c, x, s[place]))
  BY <1>1, <1>3
<1>5. ASSUME NEW k \in (place + 1)..Len(s) PROVE Goes(c, x, s[k])
  <2>1. k \in DOMAIN s /\ ~(k <= place)
    BY <1>1, <1>4
  <2>2. QED BY <1>3, <2>1
<1>6. QED BY <1>2, <1>4, <1>5

\* The first n entries, sorted: p says where each of them was found.
SortedFrom(c, n, s, p) ==
  /\ s \in Seq(ToSet(c.entries)) /\ Len(s) = n
  /\ p \in [1..n -> 1..n] /\ \A k, l \in 1..n : k # l => p[k] # p[l]
  /\ \A k \in 1..n : s[k] = c.entries[p[k]]
  /\ \A k, l \in 1..n : k < l => ~Goes(c, s[l], s[k]) /\ (~Goes(c, s[k], s[l]) => p[k] < p[l])

LEMMA OneMoreSorted ==
  ASSUME NEW c, Sortable(c),
         NEW n \in Nat, n < Len(c.entries), NEW s, NEW p, SortedFrom(c, n, s, p)
  PROVE  \E q : SortedFrom(c, n + 1, Placed(c, s, c.entries[n + 1]), q)
<1> DEFINE S == ToSet(c.entries)
           x == c.entries[n + 1]
           t == Placed(c, s, x)
<1>1. c.entries \in Seq(ListedFiles) /\ Len(c.entries) \in Nat /\ DOMAIN c.entries = 1..Len(c.entries)
  BY SortCallsAssumption, LenProperties DEF Sortable
<1>2. x \in S
  <2>1. n + 1 \in 1..Len(c.entries)
    BY <1>1
  <2>2. QED BY <1>1, <2>1, SetOfSeq
<1>3. /\ s \in Seq(S) /\ Len(s) = n
      /\ p \in [1..n -> 1..n] /\ \A k, l \in 1..n : k # l => p[k] # p[l]
      /\ \A k \in 1..n : s[k] = c.entries[p[k]]
      /\ \A k, l \in 1..n : k < l => ~Goes(c, s[l], s[k]) /\ (~Goes(c, s[k], s[l]) => p[k] < p[l])
  BY DEF SortedFrom
<1>4. \A k \in 1..n : s[k] \in S
  BY <1>3, ElementOfSeq
<1>5. \A a, b, d \in S : /\ Goes(c, a, b) => ~Goes(c, b, a)
                         /\ ~Goes(c, b, a) /\ ~Goes(c, d, b) => ~Goes(c, d, a)
  BY GoesInOrder
<1> HIDE DEF S
<1>6. PICK place \in 0..n : /\ t = SubSeq(s, 1, place) \o <<x>> \o SubSeq(s, place + 1, Len(s))
                            /\ place # 0 => ~Goes(c, x, s[place])
                            /\ \A k \in (place + 1)..n : Goes(c, x, s[k])
  <2> HIDE DEF x
  <2> QED BY <1>2, <1>3, PlacedBehind
<1> HIDE DEF x, t
<1>7. /\ t \in Seq(S) /\ Len(t) = n + 1
      /\ \A k \in 1..(n + 1) : t[k] = IF k <= place THEN s[k] ELSE IF k = place + 1 THEN x ELSE s[k - 1]
  <2> DEFINE u == SubSeq(s, 1, place) \o <<x>> \o SubSeq(s, place + 1, Len(s))
  <2>1. place \in 0..Len(s)
    BY <1>3, <1>6
  <2>2. /\ u \in Seq(S) /\ Len(u) = Len(s) + 1
        /\ \A k \in 1..(Len(s) + 1) : u[k] = IF k <= place THEN s[k] ELSE IF k = place + 1 THEN x ELSE s[k - 1]
    BY <1>2, <1>3, <2>1, InsertedElements
  <2>3. t = u
    BY <1>6
  <2> HIDE DEF u
  <2>4. QED BY <1>3, <2>2, <2>3
<1> DEFINE q == [k \in 1..(n + 1) |-> IF k <= place THEN p[k] ELSE IF k = place + 1 THEN n + 1 ELSE p[k - 1]]
<1>8. \A k \in 1..(n + 1) : \/ k \in 1..n /\ k <= place
                            \/ k = place + 1 /\ ~(k <= place)
                            \/ k - 1 \in 1..n /\ k - 1 \in (place + 1)..n /\ ~(k <= place) /\ k # place + 1
  BY <1>6
<1>9. \A k \in 1..n : p[k] \in 1..n /\ p[k] \in 1..(n + 1) /\ p[k] < n + 1 /\ p[k] # n + 1
  <2>1. \A k \in 1..n : p[k] \in 1..n
    BY <1>3
  <2>2. \A m \in 1..n : m \in 1..(n + 1) /\ m < n + 1 /\ m # n + 1
    OBVIOUS
  <2>3. QED BY <2>1, <2>2
<1>10. n + 1 \in 1..(n + 1)
  OBVIOUS
<1>11. \A k \in 1..(n + 1) : q[k] = IF k <= place THEN p[k] ELSE IF k = place + 1 THEN n + 1 ELSE p[k - 1]
  OBVIOUS
<1>12. q \in [1..(n + 1) -> 1..(n + 1)]
  <2>1. \A k \in 1..(n + 1) : (IF k <= place THEN p[k] ELSE IF k = place + 1 THEN n + 1 ELSE p[k - 1]) \in 1..(n + 1)
    BY <1>8, <1>9, <1>10
  <2>2. QED BY <2>1
<1> HIDE DEF q
<1>13. ASSUME NEW k \in 1..(n + 1) PROVE t[k] = c.entries[q[k]]
  <2>1. CASE k \in 1..n /\ k <= place
    BY <1>3, <1>7, <1>11, <2>1
  <2>2. CASE k = place + 1 /\ ~(k <= place)
    BY <1>7, <1>11, <2>2 DEF x
  <2>3. CASE k - 1 \in 1..n /\ ~(k <= place) /\ k # place + 1
    BY <1>3, <1>7, <1>11, <2>3
  <2>4. QED BY <1>8, <2>1, <2>2, <2>3
\* Of two places: both before the new one, one of them, or neither.
<1>14. ASSUME NEW k \in 1..(n + 1), NEW l \in 1..(n + 1), k < l
       PROVE  q[k] # q[l] /\ ~Goes(c, t[l], t[k]) /\ (~Goes(c, t[k], t[l]) => q[k] < q[l])
  <2>1. CASE l <= place
    <3>1. k \in 1..n /\ l \in 1..n /\ k <= place /\ k # l
      BY <1>6, <1>14, <2>1
    <3>2. t[k] = s[k] /\ t[l] = s[l] /\ q[k] = p[k] /\ q[l] = p[l]
      BY <1>7, <1>11, <2>1, <3>1
    <3>3. QED BY <1>3, <1>14, <3>1, <3>2
  <2>2. CASE l = place + 1
    <3>1. k \in 1..n /\ k <= place /\ ~(l <= place) /\ place \in 1..n /\ place # 0 /\ (k = place \/ k < place)
      BY <1>6, <1>14, <2>2
    <3>2. t[k] = s[k] /\ t[l] = x /\ q[k] = p[k] /\ q[l] = n + 1
      BY <1>7, <1>11, <2>2, <3>1
    <3>3. ~Goes(c, x, s[place])
      BY <1>6, <3>1
    <3>4. ~Goes(c, x, s[k])
      <4>1. CASE k = place
        BY <3>3, <4>1
      <4>2. CASE k < place
        <5>1. ~Goes(c, s[place], s[k]) /\ s[place] \in S /\ s[k] \in S
          BY <1>3, <1>4, <3>1, <4>2
        <5>2. QED BY <1>2, <1>5, <3>3, <5>1
      <4>3. QED BY <3>1, <4>1, <4>2
    <3>5. QED BY <1>9, <3>1, <3>2, <3>4
  <2>3. CASE l > place + 1
    <3>1. l - 1 \in 1..n /\ ~(l <= place) /\ l # place + 1 /\ l - 1 \in (place + 1)..n
      BY <1>6, <1>14, <2>3
    <3>2. t[l] = s[l - 1] /\ q[l] = p[l - 1]
      BY <1>7, <1>11, <3>1
    <3>3. CASE k <= place
      <4>1. k \in 1..n /\ k < l - 1 /\ k # l - 1
        BY <1>6, <1>14, <2>3, <3>3
      <4>2. t[k] = s[k] /\ q[k] = p[k]
        BY <1>7, <1>11, <3>3
      <4>3. QED BY <1>3, <3>1, <3>2, <4>1, <4>2
    <3>4. CASE k = place + 1
      <4>1. ~(k <= place)
        BY <1>6, <3>4
      <4>2. t[k] = x /\ q[k] = n + 1
        BY <1>7, <1>11, <3>4, <4>1
      <4>3. Goes(c, x, s[l - 1]) /\ s[l - 1] \in S
        BY <1>4, <1>6, <3>1
      <4>4. ~Goes(c, s[l - 1], x)
        BY <1>2, <1>5, <4>3
      <4>5. QED BY <1>9, <3>1, <3>2, <4>2, <4>3, <4>4
    <3>5. CASE k > place + 1
      <4>1. k - 1 \in 1..n /\ ~(k <= place) /\ k # place + 1 /\ k - 1 < l - 1 /\ k - 1 # l - 1
        BY <1>6, <1>14, <3>5
      <4>2. t[k] = s[k - 1] /\ q[k] = p[k - 1]
        BY <1>7, <1>11, <4>1
      <4>3. QED BY <1>3, <3>1, <3>2, <4>1, <4>2
    <3>6. k <= place \/ k = place + 1 \/ k > place + 1
      BY <1>6
    <3>7. QED BY <3>3, <3>4, <3>5, <3>6
  <2>4. l <= place \/ l = place + 1 \/ l > place + 1
    BY <1>6
  <2>5. QED BY <2>1, <2>2, <2>3, <2>4
<1>15. \A k, l \in 1..(n + 1) : k # l => q[k] # q[l]
  <2>1. \A k, l \in 1..(n + 1) : k # l => k < l \/ l < k
    OBVIOUS
  <2>2. QED BY <1>14, <2>1
<1>16. SortedFrom(c, n + 1, t, q)
  BY <1>7, <1>12, <1>13, <1>14, <1>15 DEF SortedFrom, S
<1>17. QED BY <1>16 DEF t, x

LEMMA NothingSorted == \A c : SortedFrom(c, 0, <<>>, <<>>)
<1>1. \A S : <<>> \in Seq(S) /\ <<>> \in [1..0 -> S]
  OBVIOUS
<1>2. 1..0 = {} /\ Len(<<>>) = 0
  OBVIOUS
<1>3. QED BY <1>1, <1>2 DEF SortedFrom

LEMMA AsFoundSorted ==
  ASSUME NEW c \in SortCalls, Len(c.entries) < 2
  PROVE  \E p : SortedFrom(c, Len(c.entries), c.entries, p)
<1> DEFINE l == Len(c.entries)
           p == [k \in 1..l |-> k]
<1>1. c.entries \in Seq(ListedFiles)
  BY SortCallsAssumption
<1>2. l \in Nat /\ DOMAIN c.entries = 1..l /\ c.entries \in [1..l -> ListedFiles]
  BY <1>1, LenProperties
<1>3. c.entries \in Seq(ToSet(c.entries))
  <2>1. ToSet(c.entries) = {c.entries[k] : k \in 1..l}
    BY <1>1, SetOfSeq
  <2>2. c.entries \in [1..l -> ToSet(c.entries)]
    BY <1>2, <2>1
  <2>3. QED BY <1>2, <2>2, SeqDef
<1>4. \A k, m \in 1..l : ~(k < m)
  BY <1>2
<1>5. p \in [1..l -> 1..l] /\ \A k \in 1..l : p[k] = k
  OBVIOUS
<1> HIDE DEF p
<1>6. SortedFrom(c, l, c.entries, p)
  BY <1>3, <1>4, <1>5 DEF SortedFrom
<1>7. QED BY <1>6

\* The recursion of StablySorted.
TakenUp(c, f, m) == f = [n \in 0..m |-> IF n = 0 THEN <<>> ELSE Placed(c, f[n - 1], c.entries[n])]

LEMMA TakenUpExists ==
  ASSUME NEW c, NEW l \in Nat
  PROVE  \E f : TakenUp(c, f, l)
<1> DEFINE Q == {m \in Nat : \E f : TakenUp(c, f, m)}
<1>1. 0 \in Q
  <2> DEFINE f == [n \in 0..0 |-> <<>>]
  <2>1. \A n \in 0..0 : n = 0
    OBVIOUS
  <2>2. TakenUp(c, f, 0)
    BY <2>1 DEF TakenUp
  <2>3. QED BY <2>2
<1>2. ASSUME NEW m \in Nat, m \in Q PROVE m + 1 \in Q
  <2>1. PICK f : TakenUp(c, f, m)
    BY <1>2
  <2> DEFINE last == Placed(c, f[m], c.entries[m + 1])
             g == [n \in 0..(m + 1) |-> IF n = m + 1 THEN last ELSE f[n]]
             step(n) == IF n = 0 THEN <<>> ELSE Placed(c, g[n - 1], c.entries[n])
  <2>2. \A n \in 0..m : n \in 0..(m + 1) /\ n # m + 1 /\ g[n] = f[n]
    OBVIOUS
  <2>3. \A n \in 0..(m + 1) : n = m + 1 \/ (n \in 0..m /\ (n # 0 => n - 1 \in 0..m))
    OBVIOUS
  <2>4. \A n \in 0..m : f[n] = IF n = 0 THEN <<>> ELSE Placed(c, f[n - 1], c.entries[n])
    BY <2>1 DEF TakenUp
  <2>5. g[m + 1] = last /\ (m + 1) - 1 = m /\ m + 1 \in 0..(m + 1) /\ m + 1 # 0 /\ m \in 0..m
    OBVIOUS
  <2> HIDE DEF g
  <2>6. \A n \in 0..(m + 1) : g[n] = step(n)
    BY <2>2, <2>3, <2>4, <2>5
  <2>7. g = [n \in 0..(m + 1) |-> g[n]]
    BY DEF g
  <2>8. g = [n \in 0..(m + 1) |-> step(n)]
    BY <2>6, <2>7
  <2>9. TakenUp(c, g, m + 1)
    BY <2>8 DEF TakenUp
  <2>10. QED BY <2>9
<1>3. Nat \subseteq Q
  <2> HIDE DEF Q
  <2> QED BY <1>1, <1>2, InductionOnNat
<1>4. QED BY <1>3

LEMMA StablySortedIsSorted ==
  ASSUME NEW c, Sortable(c)
  PROVE  \E p : SortedFrom(c, Len(c.entries), StablySorted(c), p)
<1> DEFINE l == Len(c.entries)
           f == CHOOSE f : TakenUp(c, f, l)
<1>1. l \in Nat
  <2>1. c.entries \in Seq(ListedFiles)
    BY SortCallsAssumption DEF Sortable
  <2>2. QED BY <2>1, LenProperties
<1>2. TakenUp(c, f, l)
  BY <1>1, TakenUpExists
<1>3. StablySorted(c) = f[l]
  BY DEF StablySorted, TakenUp
<1> HIDE DEF f
<1>4. \A n \in 0..l : f[n] = IF n = 0 THEN <<>> ELSE Placed(c, f[n - 1], c.entries[n])
  BY <1>2 DEF TakenUp
<1> DEFINE Q == {n \in Nat : n <= l => \E p : SortedFrom(c, n, f[n], p)}
<1>5. 0 \in Q
  <2>1. 0 \in 0..l
    BY <1>1
  <2>2. f[0] = <<>>
    BY <1>4, <2>1
  <2>3. QED BY <2>2, NothingSorted
<1>6. ASSUME NEW n \in Nat, n \in Q PROVE n + 1 \in Q
  <2>1. CASE n + 1 <= l
    <3>1. n + 1 \in 0..l /\ n < l /\ n <= l /\ n + 1 # 0 /\ (n + 1) - 1 = n
      BY <1>1, <2>1
    <3>2. PICK p : SortedFrom(c, n, f[n], p)
      BY <1>6, <3>1
    <3>3. f[n + 1] = Placed(c, f[n], c.entries[n + 1])
      BY <1>4, <3>1
    <3>4. \E q : SortedFrom(c, n + 1, Placed(c, f[n], c.entries[n + 1]), q)
      BY <3>1, <3>2, OneMoreSorted
    <3>5. QED BY <3>3, <3>4
  <2>2. QED BY <2>1
<1>7. l \in Q
  <2> HIDE DEF Q
  <2>1. Nat \subseteq Q
    BY <1>5, <1>6, InductionOnNat
  <2>2. QED BY <1>1, <2>1
<1>8. l <= l
  BY <1>1
<1>9. QED BY <1>3, <1>7, <1>8

LEMMA SortEntriesIsSorted ==
  ASSUME NEW c \in SortCalls
  PROVE  SortedAndWhole(c, SortEntries(c))
<1> SUFFICES ASSUME c.order # "" /\ WithinNumbers(c)
             PROVE  SortedAndWhole(c, SortEntries(c))
  BY DEF SortedAndWhole
<1> DEFINE l == Len(c.entries)
           s == SortEntries(c)
<1>1. Sortable(c)
  BY DEF Sortable
<1>2. c.entries \in Seq(ListedFiles) /\ c.descending \in BOOLEAN
  BY SortCallsAssumption
<1>3. l \in Nat /\ DOMAIN c.entries = 1..l
  BY <1>2, LenProperties
<1>4. PICK p : SortedFrom(c, l, s, p)
  <2>1. CASE Len(c.entries) < 2
    BY <2>1, AsFoundSorted DEF SortEntries
  <2>2. CASE ~(Len(c.entries) < 2)
    BY <1>1, <2>2, StablySortedIsSorted DEF SortEntries
  <2>3. QED BY <2>1, <2>2
<1> HIDE DEF s, l
<1>5. /\ s \in Seq(ToSet(c.entries)) /\ Len(s) = l
      /\ p \in [1..l -> 1..l] /\ \A k, m \in 1..l : k # m => p[k] # p[m]
      /\ \A k \in 1..l : s[k] = c.entries[p[k]]
      /\ \A k, m \in 1..l : k < m => ~Goes(c, s[m], s[k]) /\ (~Goes(c, s[k], s[m]) => p[k] < p[m])
  BY <1>4 DEF SortedFrom
<1>6. DOMAIN s = 1..l /\ \A k \in 1..l : s[k] \in ToSet(c.entries)
  BY <1>5, LenProperties, ElementOfSeq
<1>7. \A a, b \in ToSet(c.entries) : Goes(c, a, b) <=> IF c.descending THEN Before(c, b, a) ELSE Before(c, a, b)
  BY <1>1, GoesIfLess
<1>8. ASSUME NEW k \in 1..l, NEW m \in 1..l, k < m
      PROVE  /\ ~(IF c.descending THEN Before(c, s[k], s[m]) ELSE Before(c, s[m], s[k]))
             /\ ~Before(c, s[k], s[m]) /\ ~Before(c, s[m], s[k]) => p[k] < p[m]
  <2>1. s[k] \in ToSet(c.entries) /\ s[m] \in ToSet(c.entries)
    BY <1>6
  <2>2. ~Goes(c, s[m], s[k]) /\ (~Goes(c, s[k], s[m]) => p[k] < p[m])
    BY <1>5, <1>8
  <2>3. CASE c.descending
    <3>1. /\ Goes(c, s[m], s[k]) <=> Before(c, s[k], s[m])
          /\ Goes(c, s[k], s[m]) <=> Before(c, s[m], s[k])
      BY <1>7, <2>1, <2>3
    <3>2. QED BY <2>2, <2>3, <3>1
  <2>4. CASE ~c.descending
    <3>1. /\ Goes(c, s[m], s[k]) <=> Before(c, s[m], s[k])
          /\ Goes(c, s[k], s[m]) <=> Before(c, s[k], s[m])
      BY <1>7, <2>1, <2>4
    <3>2. QED BY <2>2, <2>4, <3>1
  <2>5. QED BY <1>2, <2>3, <2>4
<1>9. p \in [DOMAIN s -> DOMAIN c.entries] /\ Len(s) = Len(c.entries)
  BY <1>3, <1>5, <1>6 DEF l
<1>10. SortedAndWhole(c, s)
  BY <1>5, <1>6, <1>8, <1>9 DEF SortedAndWhole
<1>11. QED BY <1>10 DEF s

\* Only the step that answers it gives a call its reply.
CallsIInv ==
  /\ request.kind = "sort" => request.with \in SortCalls
  /\ request.kind = "pathfind" => request.with \in LookupCalls
  /\ request.kind = "hook" => request.with \in HookCalls
  /\ request.kind = "config" => request.with \in ConfigCalls /\ request.files \in ConfigTrees
  /\ Answered("sort") => reply = SortEntries(request.with)
  /\ Answered("pathfind") => reply = PathfindAnswer(request.with)
  /\ Answered("hook") => reply = CheckCommand(request.with)
  /\ Answered("config") => reply = ConfigAnswer(request.with, request.files)

LEMMA InitIsCalled == Init => CallsIInv
<1> SUFFICES ASSUME Init PROVE CallsIInv
  OBVIOUS
<1>1. reply = nil /\ (request = Request("none", nil, nil) \/ request \in Requests)
  BY DEF Init, NoCall, CallsInit
<1>2. CASE request = Request("none", nil, nil)
  BY <1>1, <1>2 DEF Request, CallsIInv, Answered
<1>3. CASE request \in Requests
  BY <1>1, <1>3 DEF Requests, Request, CallsIInv, Answered
<1>4. QED BY <1>1, <1>2, <1>3

LEMMA NextKeepsCalls ==
  ASSUME CallsIInv, [Next]_requestVars
  PROVE  CallsIInv'
<1>1. \/ UNCHANGED <<request, reply>>
      \/ AnswerHook \/ AnswerConfig \/ AnswerPathfind \/ AnswerSorted
      \/ request.kind = "revparse" /\ UNCHANGED request
  BY DEF Next, DiffStep, CatStep, CallStep, requestVars, callVars, CallsNext, FileStep, Reply, AnswerRevParse
<1>2. CASE UNCHANGED <<request, reply>>
  BY <1>2 DEF CallsIInv, Answered
<1>3. CASE AnswerHook
  BY <1>3 DEF AnswerHook, Reply, CallsIInv, Answered
<1>4. CASE AnswerConfig
  BY <1>4 DEF AnswerConfig, Reply, CallsIInv, Answered
<1>5. CASE AnswerPathfind
  BY <1>5 DEF AnswerPathfind, Reply, CallsIInv, Answered
<1>6. CASE AnswerSorted
  BY <1>6 DEF AnswerSorted, Reply, CallsIInv, Answered
<1>7. CASE request.kind = "revparse" /\ UNCHANGED request
  BY <1>7 DEF CallsIInv, Answered
<1>8. QED BY <1>1, <1>2, <1>3, <1>4, <1>5, <1>6, <1>7

\* However long a listing is and whatever order it is asked for, up or down,
\* the answer has every entry as often as the listing found it, none before one
\* it should follow, and those that compare equal as they were found
\* (SortEntries, SortFindEntries, compareVersions); numbers in names fit an int64.
THEOREM ListingsAreStable == Spec => []ListingsAreSorted
<1>1. Init => CallsIInv
  BY InitIsCalled
<1>2. CallsIInv /\ [Next]_requestVars => CallsIInv'
  BY NextKeepsCalls
<1>3. CallsIInv => ListingsAreSorted
  BY SortEntriesIsSorted DEF CallsIInv, ListingsAreSorted, Answered
<1>4. QED BY <1>1, <1>2, <1>3, PTL DEF Spec

-----------------------------------------------------------------------------
\* What a lookup finds.

Dirs == {DirNames[n] : n \in DOMAIN DirNames}
DirFile == [name : STRING, executable : BOOLEAN, gone : BOOLEAN]
PathEntry == [dir : Dirs, name : STRING, executable : BOOLEAN, dirIndex : Nat,
              maskedBy : {<<>>} \cup {<<place>> : place \in Dirs \X STRING}]

LeadsTo(e) == IF e.maskedBy = <<>> THEN e.dir ELSE e.maskedBy[1][1]
PlaceOf(e) == <<e.dir, e.name>>

\* d is the first of the first n directories with a match of name x.
Leads(c, ds, n, x, d) ==
  \E m \in 1..n : ds[m] = d /\ HoldsMatch(c, d, x) /\ \A k \in 1..(m - 1) : ~HoldsMatch(c, ds[k], x)

Places(c, D) == {place \in D \X STRING : HoldsMatch(c, place[1], place[2])}

\* The entries of the places P, after the first n of the directories ds.
EntriesRight(c, ds, n, searchList, es, P) ==
  /\ es \in Seq(PathEntry)
  /\ \A k \in 1..Len(es) :
       /\ es[k].dirIndex \in 1..Len(searchList) /\ searchList[es[k].dirIndex] = es[k].dir
       /\ PlaceOf(es[k]) \in P
       /\ Leads(c, ds, n, es[k].name, LeadsTo(es[k]))
       /\ (\A m \in 1..(k - 1) : es[m].name # es[k].name) => Leads(c, ds, n, es[k].name, es[k].dir)
  /\ \A place \in P : \E k \in 1..Len(es) : PlaceOf(es[k]) = place
  /\ \A k, m \in 1..Len(es) : k # m => PlaceOf(es[k]) # PlaceOf(es[m])

LEMMA FilesOfType ==
  ASSUME NEW d
  PROVE  /\ FilesOf(d) \in Seq(DirFile) /\ Len(FilesOf(d)) \in Nat /\ DOMAIN FilesOf(d) = 1..Len(FilesOf(d))
         /\ \A k \in 1..Len(FilesOf(d)) : FilesOf(d)[k] \in DirFile /\ FilesOf(d)[k].name \in STRING
         /\ \A k, m \in 1..Len(FilesOf(d)) : k # m => FilesOf(d)[k].name # FilesOf(d)[m].name
<1>1. FilesOf(d) \in Seq(DirFile)
  BY DirFilesAssumption DEF FilesOf, DirFile
<1>2. Len(FilesOf(d)) \in Nat /\ DOMAIN FilesOf(d) = 1..Len(FilesOf(d))
  BY <1>1, LenProperties
<1>3. \A k \in 1..Len(FilesOf(d)) : FilesOf(d)[k] \in DirFile
  BY <1>1, ElementOfSeq
<1>4. \A f \in DirFile : f.name \in STRING
  BY DEF DirFile
<1>5. \A k, m \in DOMAIN FilesOf(d) : k # m => FilesOf(d)[k].name # FilesOf(d)[m].name
  <2>1. CASE d \in DOMAIN DirFiles
    BY <2>1, DirFilesAssumption DEF FilesOf
  <2>2. CASE d \notin DOMAIN DirFiles
    <3>1. DOMAIN FilesOf(d) = {}
      BY <2>2 DEF FilesOf
    <3>2. QED BY <3>1
  <2>3. QED BY <2>1, <2>2
<1>6. QED BY <1>1, <1>2, <1>3, <1>4, <1>5

\* t is es with an entry for the file, which leads to the first of its name.
OneEntered(es, file, d, index, t) ==
  LET last == t[Len(es) + 1] IN
  /\ t \in Seq(PathEntry) /\ Len(t) = Len(es) + 1 /\ \A k \in 1..Len(es) : t[k] = es[k]
  /\ last.dir = d /\ last.name = file.name /\ last.dirIndex = index
  /\ \/ (\A k \in 1..Len(es) : es[k].name # file.name) /\ LeadsTo(last) = d
     \/ \E k \in 1..Len(es) : /\ es[k].name = file.name /\ LeadsTo(last) = es[k].dir
                              /\ \A m \in 1..(k - 1) : es[m].name # file.name

LEMMA EnteredLast ==
  ASSUME NEW es \in Seq(PathEntry), NEW file \in DirFile, NEW d \in Dirs, NEW index \in Nat
  PROVE  OneEntered(es, file, d, index, Entered(es, file, d, index))
<1> DEFINE same == {k \in DOMAIN es : es[k].name = file.name}
           first == CHOOSE n \in same : \A m \in same : n <= m
           masked == IF same = {} THEN <<>> ELSE <<<<es[first].dir, file.name>>>>
           e == [dir |-> d, name |-> file.name, executable |-> file.executable, dirIndex |-> index,
                 maskedBy |-> masked]
           u == Append(es, e)
<1>1. Len(es) \in Nat /\ DOMAIN es = 1..Len(es) /\ \A k \in 1..Len(es) : es[k] \in PathEntry
  BY LenProperties, ElementOfSeq
<1>2. same # {} => first \in same /\ \A m \in same : first <= m
  <2>1. \A k \in same : k \in Nat
    BY <1>1
  <2> HIDE DEF same
  <2>2. same # {} => \E n \in same : \A m \in same : n <= m
    BY <2>1, SmallestOfNat
  <2>3. QED BY <2>2
<1> HIDE DEF first
<1>3. file.name \in STRING /\ file.executable \in BOOLEAN
  BY DEF DirFile
<1>4. same # {} => es[first].dir \in Dirs
  BY <1>1, <1>2 DEF PathEntry
<1>5. masked \in {<<>>} \cup {<<place>> : place \in Dirs \X STRING}
  <2> HIDE DEF same
  <2>1. CASE same = {}
    BY <2>1
  <2>2. CASE same # {}
    <3>1. <<es[first].dir, file.name>> \in Dirs \X STRING
      BY <1>3, <1>4, <2>2
    <3>2. QED BY <2>2, <3>1
  <2>3. QED BY <2>1, <2>2
<1>6. e \in PathEntry
  <2> HIDE DEF masked
  <2> QED BY <1>3, <1>5 DEF PathEntry
<1>7. Entered(es, file, d, index) = u
  BY DEF Entered, first
<1>8. /\ u \in Seq(PathEntry) /\ Len(u) = Len(es) + 1 /\ u[Len(es) + 1] = e
      /\ \A k \in 1..Len(es) : u[k] = es[k]
  <2> HIDE DEF e
  <2> QED BY <1>6, AppendProperties
<1>9. e.dir = d /\ e.name = file.name /\ e.dirIndex = index /\ e.maskedBy = masked
  OBVIOUS
<1>10. \/ (\A k \in 1..Len(es) : es[k].name # file.name) /\ LeadsTo(e) = d
       \/ \E k \in 1..Len(es) : /\ es[k].name = file.name /\ \A m \in 1..(k - 1) : es[m].name # file.name
                                /\ LeadsTo(e) = es[k].dir
  <2> HIDE DEF e
  <2>1. CASE same = {}
    <3>1. \A k \in 1..Len(es) : es[k].name # file.name
      BY <1>1, <2>1
    <3>2. LeadsTo(e) = d
      BY <1>9, <2>1 DEF LeadsTo
    <3>3. QED BY <3>1, <3>2
  <2>2. CASE same # {}
    <3>1. first \in 1..Len(es) /\ es[first].name = file.name /\ \A m \in same : first <= m
      BY <1>1, <1>2, <2>2
    <3>2. \A m \in 1..(first - 1) : es[m].name # file.name
      <4>1. \A m \in 1..(first - 1) : m \in 1..Len(es) /\ ~(first <= m)
        BY <1>1, <3>1
      <4>2. QED BY <1>1, <3>1, <4>1
    <3>3. masked = <<<<es[first].dir, file.name>>>>
      BY <2>2
    <3>4. masked # <<>> /\ masked[1][1] = es[first].dir
      <4> HIDE DEF same, masked
      <4> QED BY <3>3
    <3> HIDE DEF masked
    <3>5. LeadsTo(e) = es[first].dir
      BY <1>9, <3>4 DEF LeadsTo
    <3>6. QED BY <3>1, <3>2, <3>5
  <2>3. QED BY <2>1, <2>2
<1> HIDE DEF e, u
<1>11. OneEntered(es, file, d, index, u)
  BY <1>8, <1>9, <1>10 DEF OneEntered
<1>12. QED BY <1>7, <1>11

LEMMA LeadsOnward ==
  ASSUME NEW c, NEW ds, NEW n \in Nat, NEW x, NEW d, Leads(c, ds, n, x, d)
  PROVE  Leads(c, ds, n + 1, x, d)
<1>1. \A m \in 1..n : m \in 1..(n + 1)
  OBVIOUS
<1>2. QED BY <1>1 DEF Leads

LEMMA OneMoreEntered ==
  ASSUME NEW c, NEW ds, NEW n \in Nat \ {0}, NEW searchList, NEW es, NEW P,
         EntriesRight(c, ds, n, searchList, es, P),
         NEW d \in Dirs, ds[n] = d, NEW index \in 1..Len(searchList), searchList[index] = d, Len(searchList) \in Nat,
         NEW file \in DirFile, HoldsMatch(c, d, file.name), <<d, file.name>> \notin P,
         \A k \in 1..(n - 1) : HoldsMatch(c, ds[k], file.name) => <<ds[k], file.name>> \in P
  PROVE  EntriesRight(c, ds, n, searchList, Entered(es, file, d, index), P \cup {<<d, file.name>>})
<1> DEFINE t == Entered(es, file, d, index)
           l == Len(es) + 1
           Q == P \cup {<<d, file.name>>}
<1>1. /\ es \in Seq(PathEntry)
      /\ \A k \in 1..Len(es) :
           /\ es[k].dirIndex \in 1..Len(searchList) /\ searchList[es[k].dirIndex] = es[k].dir
           /\ PlaceOf(es[k]) \in P
           /\ Leads(c, ds, n, es[k].name, LeadsTo(es[k]))
           /\ (\A m \in 1..(k - 1) : es[m].name # es[k].name) => Leads(c, ds, n, es[k].name, es[k].dir)
      /\ \A place \in P : \E k \in 1..Len(es) : PlaceOf(es[k]) = place
      /\ \A k, m \in 1..Len(es) : k # m => PlaceOf(es[k]) # PlaceOf(es[m])
  BY DEF EntriesRight
<1>2. Len(es) \in Nat /\ index \in Nat
  BY <1>1, LenProperties
<1>3. /\ t \in Seq(PathEntry) /\ Len(t) = l /\ \A k \in 1..Len(es) : t[k] = es[k]
      /\ t[l].dir = d /\ t[l].name = file.name /\ t[l].dirIndex = index
      /\ \/ (\A k \in 1..Len(es) : es[k].name # file.name) /\ LeadsTo(t[l]) = d
         \/ \E k \in 1..Len(es) : /\ es[k].name = file.name /\ \A m \in 1..(k - 1) : es[m].name # file.name
                                  /\ LeadsTo(t[l]) = es[k].dir
  <2>1. OneEntered(es, file, d, index, t)
    BY <1>1, <1>2, EnteredLast
  <2> HIDE DEF t
  <2>2. QED BY <2>1 DEF OneEntered
<1> HIDE DEF t
<1>4. l \in 1..l /\ l \notin 1..Len(es) /\ l - 1 = Len(es) /\ \A k \in 1..l : k = l \/ k \in 1..Len(es)
  BY <1>2
<1>5. \A k \in 1..Len(es) : k \in 1..l /\ \A m \in 1..(k - 1) : m \in 1..Len(es)
  BY <1>2
<1> HIDE DEF l
<1>6. PlaceOf(t[l]) = <<d, file.name>>
  BY <1>3 DEF PlaceOf
\* If no entry has the name, no directory before d has a match of it.
<1>7. (\A k \in 1..Len(es) : es[k].name # file.name) => Leads(c, ds, n, file.name, d)
  <2>1. SUFFICES ASSUME \A k \in 1..Len(es) : es[k].name # file.name
                 PROVE  Leads(c, ds, n, file.name, d)
    OBVIOUS
  <2>2. ASSUME NEW k \in 1..(n - 1) PROVE ~HoldsMatch(c, ds[k], file.name)
    <3>1. SUFFICES ASSUME HoldsMatch(c, ds[k], file.name) PROVE FALSE
      OBVIOUS
    <3>2. <<ds[k], file.name>> \in P
      BY <3>1
    <3>3. PICK m \in 1..Len(es) : PlaceOf(es[m]) = <<ds[k], file.name>>
      BY <1>1, <3>2
    <3>4. es[m].name = file.name
      BY <3>3 DEF PlaceOf
    <3>5. QED BY <2>1, <3>4
  <2>3. n \in 1..n
    OBVIOUS
  <2>4. QED BY <2>2, <2>3 DEF Leads
<1>8. Leads(c, ds, n, t[l].name, LeadsTo(t[l]))
  <2>1. ASSUME NEW k \in 1..Len(es), es[k].name = file.name, \A m \in 1..(k - 1) : es[m].name # file.name,
               LeadsTo(t[l]) = es[k].dir
        PROVE  Leads(c, ds, n, t[l].name, LeadsTo(t[l]))
    <3>1. Leads(c, ds, n, es[k].name, es[k].dir)
      BY <1>1, <2>1
    <3>2. QED BY <1>3, <2>1, <3>1
  <2>2. QED BY <1>3, <1>7, <2>1
<1>9. ASSUME NEW k \in 1..l
      PROVE  /\ t[k].dirIndex \in 1..Len(searchList) /\ searchList[t[k].dirIndex] = t[k].dir
             /\ PlaceOf(t[k]) \in Q
             /\ Leads(c, ds, n, t[k].name, LeadsTo(t[k]))
             /\ (\A m \in 1..(k - 1) : t[m].name # t[k].name) => Leads(c, ds, n, t[k].name, t[k].dir)
  <2>1. CASE k = l
    <3>1. (\A m \in 1..(k - 1) : t[m].name # t[k].name) => \A m \in 1..Len(es) : es[m].name # file.name
      BY <1>3, <1>4, <2>1
    <3>2. QED BY <1>3, <1>6, <1>7, <1>8, <2>1, <3>1
  <2>2. CASE k \in 1..Len(es)
    <3>1. t[k] = es[k] /\ \A m \in 1..(k - 1) : t[m] = es[m]
      BY <1>3, <1>5, <2>2
    <3>2. (\A m \in 1..(k - 1) : t[m].name # t[k].name) => \A m \in 1..(k - 1) : es[m].name # es[k].name
      BY <3>1
    <3>3. QED BY <1>1, <2>2, <3>1, <3>2
  <2>3. QED BY <1>4, <2>1, <2>2
<1>10. ASSUME NEW place \in Q PROVE \E k \in 1..l : PlaceOf(t[k]) = place
  <2>1. CASE place \in P
    <3>1. PICK k \in 1..Len(es) : PlaceOf(es[k]) = place
      BY <1>1, <2>1
    <3>2. QED BY <1>3, <1>5, <3>1
  <2>2. CASE place = <<d, file.name>>
    BY <1>4, <1>6, <2>2
  <2>3. QED BY <2>1, <2>2
<1>11. \A k \in 1..Len(es) : PlaceOf(t[k]) # PlaceOf(t[l])
  <2>1. \A k \in 1..Len(es) : PlaceOf(t[k]) \in P
    BY <1>1, <1>3
  <2>2. PlaceOf(t[l]) \notin P
    BY <1>6
  <2>3. QED BY <2>1, <2>2
<1>12. ASSUME NEW k \in 1..l, NEW m \in 1..l, k # m PROVE PlaceOf(t[k]) # PlaceOf(t[m])
  <2>1. CASE k = l
    BY <1>4, <1>11, <1>12, <2>1
  <2>2. CASE m = l
    BY <1>4, <1>11, <1>12, <2>2
  <2>3. CASE k \in 1..Len(es) /\ m \in 1..Len(es)
    BY <1>1, <1>3, <1>12, <2>3
  <2>4. QED BY <1>4, <2>1, <2>2, <2>3
<1> HIDE DEF Q
<1>13. EntriesRight(c, ds, n, searchList, t, Q)
  BY <1>3, <1>9, <1>10, <1>12 DEF EntriesRight
<1>14. QED BY <1>13 DEF t, Q

\* The recursions of AllEntered and AllSearched.
EnteredTo(c, es, d, index, f, m) ==
  f = [k \in 0..m |->
         CASE k = 0 -> es
           [] k > 0 /\ Reported(c, d, FilesOf(d)[k]) -> Entered(f[k - 1], FilesOf(d)[k], d, index)
           [] OTHER -> f[k - 1]]

LEMMA EnteredToExists ==
  ASSUME NEW c, NEW es, NEW d, NEW index, NEW l \in Nat
  PROVE  \E f : EnteredTo(c, es, d, index, f, l)
<1> DEFINE Q == {m \in Nat : \E f : EnteredTo(c, es, d, index, f, m)}
           body(h, k) == CASE k = 0 -> es
                           [] k > 0 /\ Reported(c, d, FilesOf(d)[k]) -> Entered(h[k - 1], FilesOf(d)[k], d, index)
                           [] OTHER -> h[k - 1]
<1>1. 0 \in Q
  <2> DEFINE f == [k \in 0..0 |-> es]
  <2>1. \A k \in 0..0 : k = 0
    OBVIOUS
  <2>2. f = [k \in 0..0 |-> body(f, k)]
    BY <2>1
  <2>3. EnteredTo(c, es, d, index, f, 0)
    BY <2>2 DEF EnteredTo
  <2>4. QED BY <2>3
<1>2. ASSUME NEW m \in Nat, m \in Q PROVE m + 1 \in Q
  <2>1. PICK f : EnteredTo(c, es, d, index, f, m)
    BY <1>2
  <2> DEFINE last == body(f, m + 1)
             g == [k \in 0..(m + 1) |-> IF k = m + 1 THEN last ELSE f[k]]
  <2>2. \A k \in 0..m : k \in 0..(m + 1) /\ k # m + 1
    OBVIOUS
  <2>3. \A k \in 0..(m + 1) : k = m + 1 \/ (k \in 0..m /\ (k # 0 => k - 1 \in 0..m))
    OBVIOUS
  <2>4. \A k \in 0..m : f[k] = body(f, k)
    BY <2>1 DEF EnteredTo
  <2>5. (m + 1) - 1 = m /\ m + 1 \in 0..(m + 1) /\ m + 1 # 0 /\ m \in 0..m /\ m + 1 > 0
    OBVIOUS
  <2> HIDE DEF last
  <2>6. g[m + 1] = last /\ \A k \in 0..m : g[k] = f[k]
    BY <2>2, <2>5
  <2>7. g = [k \in 0..(m + 1) |-> g[k]]
    OBVIOUS
  <2> HIDE DEF g
  <2>8. last = body(g, m + 1)
    BY <2>5, <2>6 DEF last
  <2>9. \A k \in 0..m : f[k] = body(g, k)
    <3>1. ASSUME NEW k \in 0..m PROVE f[k] = body(g, k)
      <4>1. CASE k = 0
        BY <2>4, <4>1
      <4>2. CASE k # 0
        <5>1. g[k - 1] = f[k - 1]
          BY <2>2, <2>3, <2>6, <4>2
        <5>2. f[k] = body(f, k)
          BY <2>4
        <5>3. QED BY <4>2, <5>1, <5>2
      <4>3. QED BY <4>1, <4>2
    <3>2. QED BY <3>1
  <2>10. \A k \in 0..(m + 1) : g[k] = body(g, k)
    <3> HIDE DEF body
    <3> QED BY <2>3, <2>6, <2>8, <2>9
  <2>11. g = [k \in 0..(m + 1) |-> body(g, k)]
    <3> HIDE DEF body
    <3> QED BY <2>7, <2>10
  <2>12. EnteredTo(c, es, d, index, g, m + 1)
    BY <2>11 DEF EnteredTo
  <2>13. QED BY <2>12
<1>3. Nat \subseteq Q
  <2> HIDE DEF Q
  <2> QED BY <1>1, <1>2, InductionOnNat
<1>4. QED BY <1>3

FoundUpTo(c, d, k) == {<<d, FilesOf(d)[m].name>> : m \in {m \in 1..k : Reported(c, d, FilesOf(d)[m])}}

LEMMA AllEnteredRight ==
  ASSUME NEW c, NEW ds, NEW n \in Nat \ {0}, NEW searchList, NEW es, NEW P,
         EntriesRight(c, ds, n, searchList, es, P),
         NEW d \in Dirs, ds[n] = d, NEW index \in 1..Len(searchList), searchList[index] = d, Len(searchList) \in Nat,
         \A x \in STRING : <<d, x>> \notin P,
         \A k \in 1..(n - 1) : \A x \in STRING : HoldsMatch(c, ds[k], x) => <<ds[k], x>> \in P /\ ds[k] # d
  PROVE  EntriesRight(c, ds, n, searchList, AllEntered(c, es, d, index), P \cup FoundUpTo(c, d, Len(FilesOf(d))))
<1> DEFINE l == Len(FilesOf(d))
           f == CHOOSE f : EnteredTo(c, es, d, index, f, l)
<1>1. /\ l \in Nat /\ DOMAIN FilesOf(d) = 1..l
      /\ \A k \in 1..l : FilesOf(d)[k] \in DirFile /\ FilesOf(d)[k].name \in STRING
      /\ \A k, m \in 1..l : k # m => FilesOf(d)[k].name # FilesOf(d)[m].name
  BY FilesOfType
<1>2. EnteredTo(c, es, d, index, f, l)
  BY <1>1, EnteredToExists
<1>3. AllEntered(c, es, d, index) = f[l]
  BY DEF AllEntered, EnteredTo
<1> HIDE DEF f
<1>4. \A k \in 0..l : f[k] = CASE k = 0 -> es
                               [] k > 0 /\ Reported(c, d, FilesOf(d)[k]) -> Entered(f[k - 1], FilesOf(d)[k], d, index)
                               [] OTHER -> f[k - 1]
  BY <1>2 DEF EnteredTo
<1> HIDE DEF l
<1> DEFINE found(k) == P \cup FoundUpTo(c, d, k)
           Q == {k \in Nat : k <= l => EntriesRight(c, ds, n, searchList, f[k], found(k))}
<1>5. 0 \in Q
  <2>1. 0 \in 0..l /\ 1..0 = {}
    BY <1>1
  <2>2. f[0] = es
    BY <1>4, <2>1
  <2>3. found(0) = P
    BY <2>1 DEF FoundUpTo
  <2>4. QED BY <2>2, <2>3
<1>6. ASSUME NEW k \in Nat, k \in Q PROVE k + 1 \in Q
  <2>1. SUFFICES ASSUME k + 1 <= l PROVE EntriesRight(c, ds, n, searchList, f[k + 1], found(k + 1))
    OBVIOUS
  <2> DEFINE file == FilesOf(d)[k + 1]
             place == <<d, file.name>>
  <2>2. k + 1 \in 0..l /\ k + 1 \in 1..l /\ k + 1 > 0 /\ (k + 1) - 1 = k /\ k <= l /\ k + 1 # 0
        /\ k + 1 \notin 1..k /\ \A m \in 1..(k + 1) : m = k + 1 \/ m \in 1..k
    BY <1>1, <2>1
  <2>3. \A m \in 1..k : m \in 1..(k + 1) /\ m \in 1..l /\ m # k + 1
    BY <1>1, <2>1
  <2>4. EntriesRight(c, ds, n, searchList, f[k], found(k))
    BY <1>6, <2>2
  <2>5. f[k + 1] = IF Reported(c, d, file) THEN Entered(f[k], file, d, index) ELSE f[k]
    BY <1>4, <2>2
  <2>6. file \in DirFile /\ file.name \in STRING
    BY <1>1, <2>2
  <2>7. CASE Reported(c, d, file)
    <3>1. FoundUpTo(c, d, k + 1) = FoundUpTo(c, d, k) \cup {place}
      <4> HIDE DEF file
      <4>1. FilesOf(d)[k + 1] = file
        BY DEF file
      <4>2. QED BY <2>2, <2>3, <2>7, <4>1 DEF FoundUpTo
    <3>2. place \notin found(k)
      <4>1. place \notin P
        BY <2>6
      <4>2. place \notin FoundUpTo(c, d, k)
        <5>1. \A m \in 1..k : FilesOf(d)[m].name # file.name
          BY <1>1, <2>2, <2>3
        <5> HIDE DEF file
        <5>2. QED BY <5>1 DEF FoundUpTo
      <4>3. QED BY <4>1, <4>2
    <3>3. HoldsMatch(c, d, file.name)
      BY <1>1, <2>2, <2>7 DEF HoldsMatch
    <3>4. \A m \in 1..(n - 1) : HoldsMatch(c, ds[m], file.name) => <<ds[m], file.name>> \in found(k)
      BY <2>6
    <3> HIDE DEF file, found
    <3>5. EntriesRight(c, ds, n, searchList, Entered(f[k], file, d, index), found(k) \cup {place})
      BY <2>4, <2>6, <3>2, <3>3, <3>4, OneMoreEntered
    <3>6. found(k + 1) = found(k) \cup {place}
      BY <3>1 DEF found
    <3>7. QED BY <2>5, <2>7, <3>5, <3>6
  <2>8. CASE ~Reported(c, d, file)
    <3>1. \A m : (m \in 1..(k + 1) /\ Reported(c, d, FilesOf(d)[m])) <=> (m \in 1..k /\ Reported(c, d, FilesOf(d)[m]))
      BY <2>2, <2>3, <2>8
    <3>2. FoundUpTo(c, d, k + 1) = FoundUpTo(c, d, k)
      BY <3>1 DEF FoundUpTo
    <3>3. QED BY <2>4, <2>5, <2>8, <3>2
  <2>9. QED BY <2>7, <2>8
<1>7. l \in Q
  <2> HIDE DEF Q
  <2>1. Nat \subseteq Q
    BY <1>5, <1>6, InductionOnNat
  <2>2. QED BY <1>1, <2>1
<1>8. l <= l
  BY <1>1
<1>9. QED BY <1>3, <1>7, <1>8 DEF l

\* What the first n of the directories ds lead to.
SearchedRight(c, ds, n, so) ==
  /\ so.searchList \in Seq(Dirs) /\ ToSet(so.searchList) = {ds[k] : k \in 1..n}
  /\ EntriesRight(c, ds, n, so.searchList, so.entries, Places(c, ToSet(so.searchList)))

LEMMA SearchedOneMore ==
  ASSUME NEW c, NEW ds, NEW n \in Nat, NEW so, SearchedRight(c, ds, n, so), NEW d \in Dirs, ds[n + 1] = d
  PROVE  SearchedRight(c, ds, n + 1, Searched(c, so, d))
<1> DEFINE sl == so.searchList
           es == so.entries
           P == Places(c, ToSet(sl))
<1>1. sl \in Seq(Dirs) /\ ToSet(sl) = {ds[k] : k \in 1..n} /\ EntriesRight(c, ds, n, sl, es, P)
  BY DEF SearchedRight
<1>2. {ds[k] : k \in 1..(n + 1)} = ToSet(sl) \cup {d}
  <2>1. \A k : k \in 1..(n + 1) <=> k \in 1..n \/ k = n + 1
    OBVIOUS
  <2> HIDE DEF sl
  <2>2. QED BY <1>1, <2>1
<1> HIDE DEF sl, es
<1>3. /\ es \in Seq(PathEntry)
      /\ \A k \in 1..Len(es) :
           /\ es[k].dirIndex \in 1..Len(sl) /\ sl[es[k].dirIndex] = es[k].dir
           /\ PlaceOf(es[k]) \in P
           /\ Leads(c, ds, n, es[k].name, LeadsTo(es[k]))
           /\ (\A m \in 1..(k - 1) : es[m].name # es[k].name) => Leads(c, ds, n, es[k].name, es[k].dir)
      /\ \A place \in P : \E k \in 1..Len(es) : PlaceOf(es[k]) = place
      /\ \A k, m \in 1..Len(es) : k # m => PlaceOf(es[k]) # PlaceOf(es[m])
  BY <1>1 DEF EntriesRight
<1>4. \A x, w : Leads(c, ds, n, x, w) => Leads(c, ds, n + 1, x, w)
  BY LeadsOnward
<1>5. CASE d \in ToSet(sl)
  <2>1. EntriesRight(c, ds, n + 1, sl, es, P)
    <3> HIDE DEF P
    <3> QED BY <1>3, <1>4 DEF EntriesRight
  <2>2. Searched(c, so, d) = so
    BY <1>5 DEF Searched, sl
  <2>3. ToSet(sl) = {ds[k] : k \in 1..(n + 1)}
    BY <1>2, <1>5
  <2>4. QED BY <1>1, <2>1, <2>2, <2>3 DEF SearchedRight, sl, es
<1>6. CASE d \notin ToSet(sl)
  <2> DEFINE tl == Append(sl, d)
             index == Len(sl) + 1
             ts == AllEntered(c, es, d, index)
  <2>1. /\ tl \in Seq(Dirs) /\ ToSet(tl) = ToSet(sl) \cup {d} /\ Len(tl) = index /\ tl[index] = d
        /\ Len(sl) \in Nat /\ \A k \in 1..Len(sl) : tl[k] = sl[k]
    BY <1>1, SetOfAppend, AppendProperties, LenProperties
  <2> HIDE DEF tl
  <2>2. index \in 1..Len(tl) /\ Len(tl) \in Nat /\ n + 1 \in Nat \ {0} /\ (n + 1) - 1 = n
        /\ \A k \in 1..Len(sl) : k \in 1..Len(tl)
    BY <2>1
  <2>3. EntriesRight(c, ds, n + 1, tl, es, P)
    <3> HIDE DEF P
    <3> QED BY <1>3, <1>4, <2>1, <2>2 DEF EntriesRight
  <2>4. \A x \in STRING : <<d, x>> \notin P
    BY <1>6 DEF Places
  <2>5. \A k \in 1..n : \A x \in STRING : HoldsMatch(c, ds[k], x) => <<ds[k], x>> \in P /\ ds[k] # d
    <3>1. \A k \in 1..n : ds[k] \in ToSet(sl)
      BY <1>1
    <3>2. QED BY <1>6, <3>1 DEF Places
  <2>6. EntriesRight(c, ds, n + 1, tl, ts, P \cup FoundUpTo(c, d, Len(FilesOf(d))))
    <3> HIDE DEF P, index
    <3> QED BY <2>1, <2>2, <2>3, <2>4, <2>5, AllEnteredRight
  <2>7. P \cup FoundUpTo(c, d, Len(FilesOf(d))) = Places(c, ToSet(tl))
    <3>1. \A x : x \in STRING /\ HoldsMatch(c, d, x) <=> <<d, x>> \in FoundUpTo(c, d, Len(FilesOf(d)))
      BY FilesOfType DEF HoldsMatch, FoundUpTo
    <3>2. \A place \in FoundUpTo(c, d, Len(FilesOf(d))) : \E x : place = <<d, x>>
      BY DEF FoundUpTo
    <3>3. ASSUME NEW place \in Places(c, ToSet(tl)) PROVE place \in P \cup FoundUpTo(c, d, Len(FilesOf(d)))
      <4>1. PICK w \in ToSet(tl), x \in STRING : place = <<w, x>> /\ HoldsMatch(c, w, x)
        <5>1. place \in ToSet(tl) \X STRING /\ HoldsMatch(c, place[1], place[2])
          BY DEF Places
        <5>2. place[1] \in ToSet(tl) /\ place[2] \in STRING /\ place = <<place[1], place[2]>>
          BY <5>1
        <5>3. QED BY <5>1, <5>2
      <4>2. CASE w = d
        BY <3>1, <4>1, <4>2
      <4>3. CASE w \in ToSet(sl)
        BY <4>1, <4>3 DEF Places
      <4>4. QED BY <2>1, <4>1, <4>2, <4>3
    <3>4. P \subseteq Places(c, ToSet(tl))
      BY <2>1 DEF Places
    <3>5. FoundUpTo(c, d, Len(FilesOf(d))) \subseteq Places(c, ToSet(tl))
      <4>1. \A x : x \in STRING /\ HoldsMatch(c, d, x) => <<d, x>> \in Places(c, ToSet(tl))
        BY <2>1 DEF Places
      <4>2. QED BY <3>1, <3>2, <4>1
    <3>6. QED BY <3>3, <3>4, <3>5
  <2>8. Searched(c, so, d) = [searchList |-> tl, entries |-> ts]
    BY <1>6 DEF Searched, sl, es, tl
  <2> HIDE DEF ts
  <2>9. EntriesRight(c, ds, n + 1, tl, ts, Places(c, ToSet(tl)))
    BY <2>6, <2>7
  <2>10. Searched(c, so, d).searchList = tl /\ Searched(c, so, d).entries = ts
    BY <2>8
  <2>11. ToSet(tl) = {ds[k] : k \in 1..(n + 1)}
    BY <1>2, <2>1
  <2>12. QED BY <2>1, <2>9, <2>10, <2>11 DEF SearchedRight
<1>7. QED BY <1>5, <1>6

SearchedTo(c, dirs, f, m) ==
  f = [n \in 0..m |-> IF n = 0 THEN [searchList |-> <<>>, entries |-> <<>>]
                      ELSE Searched(c, f[n - 1], ResolveDir(dirs[n]))]

LEMMA SearchedToExists ==
  ASSUME NEW c, NEW dirs, NEW l \in Nat
  PROVE  \E f : SearchedTo(c, dirs, f, l)
<1> DEFINE Q == {m \in Nat : \E f : SearchedTo(c, dirs, f, m)}
           none == [searchList |-> <<>>, entries |-> <<>>]
<1>1. 0 \in Q
  <2> DEFINE f == [n \in 0..0 |-> none]
  <2>1. \A n \in 0..0 : n = 0
    OBVIOUS
  <2>2. SearchedTo(c, dirs, f, 0)
    BY <2>1 DEF SearchedTo
  <2>3. QED BY <2>2
<1>2. ASSUME NEW m \in Nat, m \in Q PROVE m + 1 \in Q
  <2>1. PICK f : SearchedTo(c, dirs, f, m)
    BY <1>2
  <2> DEFINE last == Searched(c, f[m], ResolveDir(dirs[m + 1]))
             g == [n \in 0..(m + 1) |-> IF n = m + 1 THEN last ELSE f[n]]
             step(n) == IF n = 0 THEN none ELSE Searched(c, g[n - 1], ResolveDir(dirs[n]))
  <2>2. \A n \in 0..m : n \in 0..(m + 1) /\ n # m + 1 /\ g[n] = f[n]
    OBVIOUS
  <2>3. \A n \in 0..(m + 1) : n = m + 1 \/ (n \in 0..m /\ (n # 0 => n - 1 \in 0..m))
    OBVIOUS
  <2>4. \A n \in 0..m : f[n] = IF n = 0 THEN none ELSE Searched(c, f[n - 1], ResolveDir(dirs[n]))
    BY <2>1 DEF SearchedTo
  <2>5. g[m + 1] = last /\ (m + 1) - 1 = m /\ m + 1 \in 0..(m + 1) /\ m + 1 # 0 /\ m \in 0..m
    OBVIOUS
  <2> HIDE DEF g, none
  <2>6. \A n \in 0..(m + 1) : g[n] = step(n)
    BY <2>2, <2>3, <2>4, <2>5
  <2>7. g = [n \in 0..(m + 1) |-> g[n]]
    BY DEF g
  <2>8. g = [n \in 0..(m + 1) |-> step(n)]
    BY <2>6, <2>7
  <2>9. SearchedTo(c, dirs, g, m + 1)
    BY <2>8 DEF SearchedTo, none
  <2>10. QED BY <2>9
<1>3. Nat \subseteq Q
  <2> HIDE DEF Q
  <2> QED BY <1>1, <1>2, InductionOnNat
<1>4. QED BY <1>3

LEMMA AllSearchedRight ==
  ASSUME NEW c, NEW dirs \in Seq(DOMAIN DirNames),
         NEW ds, ds = [n \in 1..Len(dirs) |-> DirNames[dirs[n]]]
  PROVE  SearchedRight(c, ds, Len(dirs), AllSearched(c, dirs))
<1> DEFINE l == Len(dirs)
           f == CHOOSE f : SearchedTo(c, dirs, f, l)
<1>1. l \in Nat /\ \A n \in 1..l : ds[n] = ResolveDir(dirs[n]) /\ ds[n] \in Dirs
  <2>1. l \in Nat
    BY LenProperties
  <2>2. \A n \in 1..l : dirs[n] \in DOMAIN DirNames
    BY ElementOfSeq
  <2>3. QED BY <2>1, <2>2 DEF ResolveDir, Dirs
<1>2. SearchedTo(c, dirs, f, l)
  BY <1>1, SearchedToExists
<1>3. AllSearched(c, dirs) = f[l]
  BY DEF AllSearched, SearchedTo
<1> HIDE DEF f
<1>4. \A n \in 0..l : f[n] = IF n = 0 THEN [searchList |-> <<>>, entries |-> <<>>]
                             ELSE Searched(c, f[n - 1], ResolveDir(dirs[n]))
  BY <1>2 DEF SearchedTo
<1> HIDE DEF l
<1> DEFINE Q == {n \in Nat : n <= l => SearchedRight(c, ds, n, f[n])}
<1>5. 0 \in Q
  <2>1. 0 \in 0..l /\ 1..0 = {}
    BY <1>1
  <2>2. f[0].searchList = <<>> /\ f[0].entries = <<>>
    BY <1>4, <2>1
  <2>3. <<>> \in Seq(Dirs) /\ <<>> \in Seq(PathEntry) /\ Len(<<>>) = 0 /\ ToSet(<<>>) = {}
    BY EmptySeq, SetOfFew
  <2>4. Places(c, {}) = {}
    BY DEF Places
  <2>5. EntriesRight(c, ds, 0, <<>>, <<>>, {})
    BY <2>1, <2>3 DEF EntriesRight
  <2>6. SearchedRight(c, ds, 0, f[0])
    BY <2>1, <2>2, <2>3, <2>4, <2>5 DEF SearchedRight
  <2>7. QED BY <2>6
<1>6. ASSUME NEW n \in Nat, n \in Q PROVE n + 1 \in Q
  <2>1. SUFFICES ASSUME n + 1 <= l PROVE SearchedRight(c, ds, n + 1, f[n + 1])
    OBVIOUS
  <2>2. n + 1 \in 0..l /\ n + 1 \in 1..l /\ n + 1 # 0 /\ (n + 1) - 1 = n /\ n <= l
    BY <1>1, <2>1
  <2>3. SearchedRight(c, ds, n, f[n])
    BY <1>6, <2>2
  <2>4. f[n + 1] = Searched(c, f[n], ds[n + 1]) /\ ds[n + 1] \in Dirs
    BY <1>1, <1>4, <2>2
  <2>5. SearchedRight(c, ds, n + 1, Searched(c, f[n], ds[n + 1]))
    BY <2>3, <2>4, SearchedOneMore
  <2>6. QED BY <2>4, <2>5
<1>7. l \in Q
  <2> HIDE DEF Q
  <2>1. Nat \subseteq Q
    BY <1>5, <1>6, InductionOnNat
  <2>2. QED BY <1>1, <2>1
<1>8. l <= l
  BY <1>1
<1>9. QED BY <1>3, <1>7, <1>8 DEF l

LEMMA PathfindIsRight ==
  ASSUME NEW c \in LookupCalls
  PROVE  UnmaskedComesFirst(c, PathfindAnswer(c))
<1> DEFINE dirs == ParseSearchList(c.spec)
           answer == PathfindAnswer(c)
           l == Len(dirs)
           ds == [n \in 1..l |-> DirNames[dirs[n]]]
           sl == answer.searchList
           es == answer.entries
<1>1. dirs \in Seq(DOMAIN DirNames)
  <2>1. CASE c.spec.kind = "dirlist"
    BY <2>1, LookupCallsAssumption DEF ParseSearchList
  <2>2. CASE c.spec.kind # "dirlist"
    <3>1. dirs = <<>> \/ \E v \in DOMAIN Environment : dirs = Environment[v]
      BY <2>2, LookupCallsAssumption DEF ParseSearchList
    <3>2. QED BY <3>1, LookupCallsAssumption, EmptySeq
  <2>3. QED BY <2>1, <2>2
<1> SUFFICES ASSUME ~answer.failed PROVE UnmaskedComesFirst(c, answer)
  BY DEF UnmaskedComesFirst
<1>2. answer = [failed |-> FALSE, searchList |-> AllSearched(c, dirs).searchList, entries |-> AllSearched(c, dirs).entries]
  BY DEF PathfindAnswer
<1>3. SearchedRight(c, ds, l, AllSearched(c, dirs))
  <2> HIDE DEF dirs
  <2> QED BY <1>1, AllSearchedRight
<1>4. sl \in Seq(Dirs) /\ ToSet(sl) = {ds[k] : k \in 1..l} /\ EntriesRight(c, ds, l, sl, es, Places(c, ToSet(sl)))
  <2>1. sl = AllSearched(c, dirs).searchList /\ es = AllSearched(c, dirs).entries
    <3> HIDE DEF answer
    <3> QED BY <1>2
  <2> HIDE DEF sl, es, dirs, ds
  <2>2. QED BY <1>3, <2>1 DEF SearchedRight, ds
<1>5. l \in Nat /\ DOMAIN dirs = 1..l
  BY <1>1, LenProperties
<1> HIDE DEF dirs, answer, sl, es
<1>6. /\ es \in Seq(PathEntry)
      /\ \A k \in 1..Len(es) :
           /\ es[k].dirIndex \in 1..Len(sl) /\ sl[es[k].dirIndex] = es[k].dir
           /\ PlaceOf(es[k]) \in Places(c, ToSet(sl))
           /\ Leads(c, ds, l, es[k].name, LeadsTo(es[k]))
      /\ \A place \in Places(c, ToSet(sl)) : \E k \in 1..Len(es) : PlaceOf(es[k]) = place
      /\ \A k, m \in 1..Len(es) : k # m => PlaceOf(es[k]) # PlaceOf(es[m])
  BY <1>4 DEF EntriesRight
<1>7. DOMAIN es = 1..Len(es) /\ Len(es) \in Nat
  BY <1>6, LenProperties
<1>8. {<<es[n].dir, es[n].name>> : n \in DOMAIN es} =
        {place \in ToSet(sl) \X c.matching : HoldsMatch(c, place[1], place[2])}
  <2>1. Places(c, ToSet(sl)) = {place \in ToSet(sl) \X c.matching : HoldsMatch(c, place[1], place[2])}
    <3>1. \A w, x : HoldsMatch(c, w, x) => x \in STRING /\ x \in c.matching
      BY FilesOfType DEF HoldsMatch, Reported
    <3>2. QED BY <3>1 DEF Places
  <2>2. {PlaceOf(es[n]) : n \in DOMAIN es} = Places(c, ToSet(sl))
    <3>1. \A k \in DOMAIN es : PlaceOf(es[k]) \in Places(c, ToSet(sl))
      BY <1>6, <1>7
    <3>2. \A place \in Places(c, ToSet(sl)) : \E k \in DOMAIN es : PlaceOf(es[k]) = place
      BY <1>6, <1>7
    <3>3. QED BY <3>1, <3>2
  <2>3. {PlaceOf(es[n]) : n \in DOMAIN es} = {<<es[n].dir, es[n].name>> : n \in DOMAIN es}
    BY DEF PlaceOf
  <2>4. QED BY <2>1, <2>2, <2>3
<1>9. \A m, n \in DOMAIN es : m # n => <<es[m].dir, es[m].name>> # <<es[n].dir, es[n].name>>
  BY <1>6, <1>7 DEF PlaceOf
<1>10. ASSUME NEW x, NEW w, Leads(c, ds, l, x, w) PROVE FirstPlace(c, x) = {w}
  <2>1. PICK m \in 1..l : ds[m] = w /\ HoldsMatch(c, w, x) /\ \A k \in 1..(m - 1) : ~HoldsMatch(c, ds[k], x)
    BY <1>10 DEF Leads
  <2> DEFINE holding == {n \in DOMAIN dirs : HoldsMatch(c, DirNames[dirs[n]], x)}
  <2>2. m \in holding /\ DirNames[dirs[m]] = w
    BY <1>5, <2>1
  <2>3. \A k \in holding : k \in 1..l /\ k \notin 1..(m - 1)
    BY <1>5, <2>1
  <2>4. \A k \in holding : m <= k /\ (k <= m => k = m)
    BY <1>5, <2>3
  <2> HIDE DEF holding
  <2>5. {n \in holding : \A k \in holding : n <= k} = {m}
    BY <2>2, <2>4
  <2>6. FirstPlace(c, x) = {DirNames[dirs[n]] : n \in {n \in holding : \A k \in holding : n <= k}}
    BY DEF FirstPlace, holding, dirs
  <2>7. QED BY <2>2, <2>5, <2>6
<1>11. \A n \in DOMAIN es :
         /\ FirstPlace(c, es[n].name) = {IF es[n].maskedBy = <<>> THEN es[n].dir ELSE es[n].maskedBy[1][1]}
         /\ sl[es[n].dirIndex] = es[n].dir
  BY <1>6, <1>7, <1>10 DEF LeadsTo
<1>12. QED BY <1>8, <1>9, <1>11 DEF UnmaskedComesFirst, sl, es

\* Whatever the directories are, whatever they hold and however often and under
\* whatever names a list has them, a lookup reports each match once, leaves just
\* the one unmasked that comes first for its name in the list as given, and has
\* every other name that one (Pathfind).
THEOREM FirstIsUnmasked == Spec => []UnmaskedIsFirst
<1>1. Init => CallsIInv
  BY InitIsCalled
<1>2. CallsIInv /\ [Next]_requestVars => CallsIInv'
  BY NextKeepsCalls
<1>3. CallsIInv => UnmaskedIsFirst
  BY PathfindIsRight DEF CallsIInv, UnmaskedIsFirst, Answered
<1>4. QED BY <1>1, <1>2, <1>3, PTL DEF Spec

-----------------------------------------------------------------------------
\* Runes and fields.

\* Runes are the bytes that do not continue one.
LEMMA RunesAreIn == \A s \in Seq(Nat) : Runes(s) = CountIn(s, Nat \ {CONT})
<1> SUFFICES ASSUME NEW s \in Seq(Nat) PROVE Runes(s) = CountIn(s, Nat \ {CONT})
  OBVIOUS
<1>1. \A k \in DOMAIN s : s[k] # CONT <=> s[k] \in Nat \ {CONT}
  BY LenProperties, ElementOfSeq
<1>2. {k \in DOMAIN s : s[k] # CONT} = {k \in DOMAIN s : s[k] \in Nat \ {CONT}}
  BY <1>1
<1>3. QED BY <1>2 DEF Runes, CountIn

LEMMA RunesOfConcat ==
  ASSUME NEW s \in Seq(Nat), NEW t \in Seq(Nat)
  PROVE  Runes(s \o t) = Runes(s) + Runes(t)
<1> DEFINE B == Nat \ {CONT}
           u == s \o t
<1>1. u \in Seq(Nat)
  BY ConcatProperties
<1>2. CountIn(u, B) = CountIn(s, B) + CountIn(t, B)
  BY CountOfConcat
<1> HIDE DEF u
<1>3. Runes(u) = CountIn(u, B) /\ Runes(s) = CountIn(s, B) /\ Runes(t) = CountIn(t, B)
  BY <1>1, RunesAreIn
<1>4. QED BY <1>2, <1>3 DEF u

\* Fields begin where what is not blank comes first or follows a blank.
LEMMA FieldsOfConcat ==
  ASSUME NEW s \in Seq(Nat), NEW t \in Seq(Nat),
         Len(s) = 0 \/ s[Len(s)] \in Blank \/ t[1] \in Blank
  PROVE  /\ Fields(s \o t) = Fields(s) + Fields(t)
         /\ Fields(s) \in Nat /\ Fields(t) \in Nat
<1>1. \A u : Fields(u) = RunsIn(u, Blank)
  BY DEF Fields, RunsIn
<1>2. QED BY <1>1, RunsOfConcat

-----------------------------------------------------------------------------
\* Counts over the lines add up to counts over the bytes.
LEMMA CountsOfLine ==
  ASSUME NEW line \in TextLine
  PROVE  /\ DropCR(line) \in Seq(Nat) /\ line \in Seq(Nat)
         /\ CountIn(line, {NL}) = 0 /\ CountIn(Append(line, NL), {NL}) = 1
         /\ Fields(line) \in Nat /\ Fields(DropCR(line)) = Fields(line)
         /\ Fields(Append(line, NL)) = Fields(line) /\ Fields(<<>>) = 0
         /\ Runes(line) \in Nat /\ Runes(Append(line, NL)) = Runes(line) + 1
<1> DEFINE nl == <<NL>>
<1>1. line \in Seq(Nat) /\ DropCR(line) \in Seq(Nat)
  <2>1. Seq(Nat \ {NL}) \subseteq Seq(Nat)
    OBVIOUS
  <2>2. QED BY <2>1, DropCRType DEF TextLine
<1>2. /\ Append(line, NL) = line \o nl /\ nl \in Seq(Nat)
      /\ DOMAIN nl = {1} /\ nl[1] = NL /\ NL \in Nat
  <2>1. NL \in Nat /\ nl[1] = NL /\ DOMAIN nl = {1}
    BY DEF NL
  <2>2. Append(line, NL) = line \o nl /\ nl \in Seq(Nat)
    BY <1>1, <2>1, AppendIsConcat
  <2>3. QED BY <2>1, <2>2
<1> HIDE DEF nl
<1>3. CountIn(line, {NL}) = 0
  <2>1. DOMAIN line = 1..Len(line) /\ \A k \in 1..Len(line) : line[k] # NL
    BY LenProperties, ElementOfSeq DEF TextLine
  <2>2. {k \in DOMAIN line : line[k] \in {NL}} = {}
    BY <2>1
  <2>3. QED BY <2>2, FS_EmptySet DEF CountIn
<1>4. CountIn(nl, {NL}) = 1
  <2>1. {k \in DOMAIN nl : nl[k] \in {NL}} = {1}
    BY <1>2
  <2>2. QED BY <2>1, FS_Singleton DEF CountIn
<1>5. CountIn(Append(line, NL), {NL}) = 1
  BY <1>1, <1>2, <1>3, <1>4, CountOfConcat
<1>6. Fields(nl) = 0 /\ Fields(<<>>) = 0
  <2>1. {k \in DOMAIN nl : nl[k] \notin Blank /\ (k > 1 => nl[k - 1] \in Blank)} = {}
    BY <1>2 DEF Blank
  <2>2. {k \in DOMAIN <<>> : <<>>[k] \notin Blank /\ (k > 1 => <<>>[k - 1] \in Blank)} = {}
    OBVIOUS
  <2>3. QED BY <2>1, <2>2, FS_EmptySet DEF Fields
<1>7. Fields(Append(line, NL)) = Fields(line) /\ Fields(line) \in Nat
  <2>1. nl[1] \in Blank
    BY <1>2 DEF Blank
  <2>2. Fields(line \o nl) = Fields(line) + Fields(nl) /\ Fields(line) \in Nat
    BY <1>1, <1>2, <2>1, FieldsOfConcat
  <2>3. QED BY <1>2, <1>6, <2>2
<1>8. Fields(DropCR(line)) = Fields(line)
  <2> DEFINE m == Len(line) - 1
             front == SubSeq(line, 1, m)
             cr == <<CR>>
  <2>1. CASE line # <<>> /\ line[Len(line)] = CR
    <3>1. Len(line) \in Nat \ {0}
      BY <1>1, <2>1, LenProperties, EmptySeq
    <3>2. m \in Nat /\ m < Len(line) /\ 1 \in Nat \ {0} /\ 1 <= m + 1 /\ m + 1 = Len(line) /\ m \in 0..Len(line)
      BY <3>1
    <3> HIDE DEF m
    <3>3. SubSeq(line, 1, m + 1) = Append(front, line[m + 1]) /\ front \in Seq(Nat)
      BY <1>1, <3>2, PieceGrows, PieceType
    <3>4. SubSeq(line, 1, m + 1) = line
      BY <1>1, <3>2, SubSeqFull
    <3>5. DropCR(line) = front
      BY <2>1 DEF DropCR, m
    <3>6. cr \in Seq(Nat) /\ cr[1] = CR /\ DOMAIN cr = {1} /\ CR \in Nat
      BY DEF CR
    <3> HIDE DEF front
    <3>7. line = front \o cr
      <4>1. Append(front, CR) = front \o cr
        BY <3>3, <3>6, AppendIsConcat
      <4>2. QED BY <2>1, <3>2, <3>3, <3>4, <4>1
    <3> HIDE DEF cr
    <3>8. Fields(cr) = 0
      <4>1. {k \in DOMAIN cr : cr[k] \notin Blank /\ (k > 1 => cr[k - 1] \in Blank)} = {}
        BY <3>6 DEF Blank
      <4>2. QED BY <4>1, FS_EmptySet DEF Fields
    <3>9. cr[1] \in Blank
      BY <3>6 DEF Blank
    <3>10. Fields(front \o cr) = Fields(front) + Fields(cr) /\ Fields(front) \in Nat
      BY <3>3, <3>6, <3>9, FieldsOfConcat
    <3>11. QED BY <3>5, <3>7, <3>8, <3>10
  <2>2. CASE ~(line # <<>> /\ line[Len(line)] = CR)
    BY <2>2 DEF DropCR
  <2>3. QED BY <2>1, <2>2
<1>9. Runes(line) \in Nat /\ Runes(Append(line, NL)) = Runes(line) + 1
  <2> DEFINE R == Nat \ {CONT}
  <2>1. nl[1] \in R
    BY <1>2 DEF NL, CONT
  <2>2. {k \in DOMAIN nl : nl[k] \in R} = {1}
    <3> HIDE DEF R
    <3> QED BY <1>2, <2>1
  <2>3. CountIn(nl, R) = 1
    BY <2>2, FS_Singleton DEF CountIn
  <2>4. CountIn(line \o nl, R) = CountIn(line, R) + CountIn(nl, R) /\ CountIn(line, R) \in Nat
    BY <1>1, <1>2, CountOfConcat
  <2>5. line \o nl \in Seq(Nat)
    BY <1>1, <1>2, ConcatProperties
  <2>6. QED BY <1>1, <1>2, <2>3, <2>4, <2>5, RunesAreIn
<1>10. QED BY <1>1, <1>3, <1>5, <1>6, <1>7, <1>8, <1>9

LineFields(t) == [n \in 1..Len(t) |-> Fields(t[n])]
LineRunes(t) == [n \in 1..Len(t) |-> Runes(t[n]) + 1]
LedCounted(t, k) ==
  LET led == Led(t, k)
  IN /\ CountIn(led, {NL}) = k /\ Len(led) = SumTo(LineBytes(t), k)
     /\ Fields(led) = SumTo(LineFields(t), k) /\ Runes(led) = SumTo(LineRunes(t), k)
     /\ Len(led) = 0 \/ led[Len(led)] = NL

LEMMA LedCounts ==
  ASSUME NEW t \in FileText
  PROVE  \A k \in 0..Len(t) : LedCounted(t, k)
<1> DEFINE l == Len(t)
           fields == LineFields(t)
           runes == LineRunes(t)
           bytes == LineBytes(t)
           Q == {k \in Nat : k <= l => LedCounted(t, k)}
<1>1. l \in Nat /\ \A n \in 1..l : t[n] \in TextLine /\ t[n] \in Seq(Nat) /\ Len(t[n]) \in Nat
  BY LineType
<1>2. /\ Led(t, 0) = <<>>
      /\ \A k \in 0..l : Led(t, k) \in Seq(Nat)
      /\ \A k \in Nat : k < l => Led(t, k + 1) = Led(t, k) \o Append(t[k + 1], NL)
  BY LedStep
<1>3. /\ \A n \in 1..l : fields[n] = Fields(t[n]) /\ runes[n] = Runes(t[n]) + 1 /\ bytes[n] = Len(t[n]) + 1
      /\ AllIn(fields, l, Nat) /\ AllIn(runes, l, Nat) /\ AllIn(bytes, l, Nat)
  <2>1. \A n \in 1..l : fields[n] = Fields(t[n]) /\ runes[n] = Runes(t[n]) + 1 /\ bytes[n] = Len(t[n]) + 1
    BY DEF LineFields, LineRunes, LineBytes
  <2>2. \A n \in 1..l : Fields(t[n]) \in Nat /\ Runes(t[n]) + 1 \in Nat /\ Len(t[n]) + 1 \in Nat
    <3>1. \A n \in 1..l : Fields(t[n]) \in Nat /\ Runes(t[n]) \in Nat
      BY <1>1, CountsOfLine
    <3>2. QED BY <1>1, <3>1
  <2> HIDE DEF fields, runes, bytes, l
  <2>3. QED BY <2>1, <2>2 DEF AllIn
<1> HIDE DEF l, fields, runes, bytes
<1>4. ASSUME NEW e, AllIn(e, l, Nat)
      PROVE  /\ SumTo(e, 0) = 0
             /\ \A k \in Nat : k < l => SumTo(e, k + 1) = SumTo(e, k) + e[k + 1]
  BY <1>1, <1>4, SumStep
<1>5. 0 \in Q
  <2>1. SumTo(fields, 0) = 0 /\ SumTo(runes, 0) = 0 /\ SumTo(bytes, 0) = 0
    BY <1>3, <1>4
  <2>2. <<>> \in Seq(Nat) /\ Len(<<>>) = 0 /\ DOMAIN <<>> = {}
    BY EmptySeq
  <2>3. CountIn(<<>>, {NL}) = 0 /\ Fields(<<>>) = 0 /\ Runes(<<>>) = 0
    <3>1. {k \in {} : <<>>[k] \in {NL}} = {} /\ {k \in {} : <<>>[k] # CONT} = {}
          /\ {k \in {} : <<>>[k] \notin Blank /\ (k > 1 => <<>>[k - 1] \in Blank)} = {}
      OBVIOUS
    <3>2. QED BY <2>2, <3>1, FS_EmptySet DEF CountIn, Fields, Runes
  <2>4. LedCounted(t, 0)
    BY <1>2, <2>1, <2>2, <2>3 DEF LedCounted, fields, runes, bytes
  <2>5. QED BY <2>4
<1>6. ASSUME NEW k \in Nat, k \in Q PROVE k + 1 \in Q
  <2> SUFFICES ASSUME k < l PROVE LedCounted(t, k + 1)
    BY <1>1
  <2> DEFINE led == Led(t, k)
             line == t[k + 1]
             ended == Append(line, NL)
  <2>1. k + 1 \in 1..l /\ k \in 0..l /\ k <= l
    BY <1>1
  <2>2. LedCounted(t, k)
    BY <1>6, <2>1
  <2>3. /\ led \in Seq(Nat) /\ line \in TextLine /\ line \in Seq(Nat) /\ Len(line) \in Nat
        /\ Led(t, k + 1) = led \o ended
    BY <1>1, <1>2, <2>1
  <2>4. /\ SumTo(fields, k + 1) = SumTo(fields, k) + Fields(line)
        /\ SumTo(runes, k + 1) = SumTo(runes, k) + (Runes(line) + 1)
        /\ SumTo(bytes, k + 1) = SumTo(bytes, k) + (Len(line) + 1)
    <3>1. /\ SumTo(fields, k + 1) = SumTo(fields, k) + fields[k + 1]
          /\ SumTo(runes, k + 1) = SumTo(runes, k) + runes[k + 1]
          /\ SumTo(bytes, k + 1) = SumTo(bytes, k) + bytes[k + 1]
      BY <1>3, <1>4
    <3>2. QED BY <1>3, <2>1, <3>1
  <2>5. /\ CountIn(led, {NL}) = k /\ Len(led) = SumTo(bytes, k)
        /\ Fields(led) = SumTo(fields, k) /\ Runes(led) = SumTo(runes, k)
        /\ Len(led) = 0 \/ led[Len(led)] = NL
    BY <2>2 DEF LedCounted, fields, runes, bytes
  <2> HIDE DEF led, line
  <2>6. /\ ended \in Seq(Nat) /\ Len(ended) = Len(line) + 1 /\ ended[Len(line) + 1] = NL
    <3>1. NL \in Nat
      BY DEF NL
    <3>2. QED BY <2>3, <3>1, AppendProperties
  <2>7. /\ CountIn(ended, {NL}) = 1 /\ Fields(ended) = Fields(line) /\ Runes(ended) = Runes(line) + 1
    BY <2>3, CountsOfLine
  <2> HIDE DEF ended
  <2>8. CountIn(led \o ended, {NL}) = CountIn(led, {NL}) + CountIn(ended, {NL})
    BY <2>3, <2>6, CountOfConcat
  <2>9. Fields(led \o ended) = Fields(led) + Fields(ended)
    <3>1. NL \in Blank
      BY DEF Blank
    <3>2. Len(led) = 0 \/ led[Len(led)] \in Blank
      BY <2>5, <3>1
    <3>3. QED BY <2>3, <2>6, <3>2, FieldsOfConcat
  <2>10. Runes(led \o ended) = Runes(led) + Runes(ended)
    BY <2>3, <2>6, RunesOfConcat
  <2>11. Len(led \o ended) = Len(led) + Len(ended)
    BY <2>3, <2>6, ConcatProperties
  <2>12. (led \o ended)[Len(led \o ended)] = NL
    <3>1. Len(ended) \in 1..Len(ended) /\ Len(ended) = Len(line) + 1
      BY <2>3, <2>6
    <3>2. (led \o ended)[Len(led) + Len(ended)] = ended[Len(ended)]
      BY <2>3, <2>6, <3>1, ConcatBehind
    <3>3. QED BY <2>6, <2>11, <3>1, <3>2
  <2> DEFINE u == led \o ended
  <2>13. /\ CountIn(u, {NL}) = k + 1 /\ Len(u) = SumTo(bytes, k + 1)
         /\ Fields(u) = SumTo(fields, k + 1) /\ Runes(u) = SumTo(runes, k + 1) /\ u[Len(u)] = NL
    BY <2>4, <2>5, <2>6, <2>7, <2>8, <2>9, <2>10, <2>11, <2>12
  <2> HIDE DEF u
  <2>14. Led(t, k + 1) = u
    BY <2>3 DEF u
  <2>15. QED BY <2>13, <2>14 DEF LedCounted, fields, runes, bytes
<1>7. Nat \subseteq Q
  <2> HIDE DEF Q
  <2> QED BY <1>5, <1>6, InductionOnNat
<1>8. ASSUME NEW k \in 0..l PROVE LedCounted(t, k)
  <2>1. k \in Nat /\ k <= l
    BY <1>1
  <2>2. QED BY <1>7, <2>1
<1>9. QED BY <1>8 DEF l

LEMMA CountsOfBytes ==
  ASSUME NEW t \in FileText
  PROVE  /\ CountIn(Bytes(t), {NL}) = Len(t) - 1
         /\ Fields(Bytes(t)) = SumTo(LineFields(t), Len(t) - 1) + Fields(t[Len(t)])
         /\ Runes(Bytes(t)) = SumTo(LineRunes(t), Len(t) - 1) + Runes(t[Len(t)])
<1> DEFINE l == Len(t)
           led == Led(t, l - 1)
           line == t[l]
<1>1. l \in Nat \ {0} /\ l - 1 \in 0..l /\ line \in TextLine /\ line \in Seq(Nat)
  BY LineType
<1>2. led \in Seq(Nat) /\ LedCounted(t, l - 1) /\ Bytes(t) = led \o line
  BY <1>1, LedStep, LedCounts, BytesAreLed
<1>3. CountIn(line, {NL}) = 0 /\ Runes(line) \in Nat
  BY <1>1, CountsOfLine
<1>4. /\ CountIn(led, {NL}) = l - 1 /\ Fields(led) = SumTo(LineFields(t), l - 1)
      /\ Runes(led) = SumTo(LineRunes(t), l - 1) /\ (Len(led) = 0 \/ led[Len(led)] = NL)
  BY <1>2 DEF LedCounted
<1> HIDE DEF led, line, l
<1>5. CountIn(led \o line, {NL}) = l - 1
  <2>1. CountIn(led \o line, {NL}) = CountIn(led, {NL}) + CountIn(line, {NL})
    BY <1>1, <1>2, CountOfConcat
  <2>2. QED BY <1>1, <1>3, <1>4, <2>1
<1>6. Fields(led \o line) = Fields(led) + Fields(line)
  <2>1. NL \in Blank
    BY DEF Blank
  <2>2. Len(led) = 0 \/ led[Len(led)] \in Blank
    BY <1>4, <2>1
  <2>3. QED BY <1>1, <1>2, <2>2, FieldsOfConcat
<1>7. Runes(led \o line) = Runes(led) + Runes(line)
  BY <1>1, <1>2, RunesOfConcat
<1>8. QED BY <1>2, <1>4, <1>5, <1>6, <1>7 DEF l, line

LEMMA NothingDropped ==
  ASSUME NEW t \in FileText, ~HasCR(t)
  PROVE  \A n \in 1..Len(t) : DropCR(t[n]) = t[n]
<1> SUFFICES ASSUME NEW n \in 1..Len(t) PROVE DropCR(t[n]) = t[n]
  OBVIOUS
<1> DEFINE line == t[n]
           led == Led(t, n - 1)
           bytes == Bytes(t)
<1>1. /\ bytes \in Seq(Nat) /\ led \in Seq(Nat) /\ line \in Seq(Nat)
      /\ Len(led) + Len(line) <= Len(bytes)
      /\ \A k \in 1..Len(line) : bytes[Len(led) + k] = line[k]
  BY LineAmongBytes
<1>2. \A k \in DOMAIN bytes : bytes[k] # CR
  BY DEF HasCR
<1> HIDE DEF line, led, bytes
<1>3. Len(led) \in Nat /\ Len(line) \in Nat /\ Len(bytes) \in Nat /\ DOMAIN bytes = 1..Len(bytes)
      /\ (line # <<>> => Len(line) # 0)
  BY <1>1, LenProperties, EmptySeq
<1>4. CASE line # <<>>
  <2>1. Len(line) \in 1..Len(line) /\ Len(led) + Len(line) \in 1..Len(bytes)
    BY <1>1, <1>3, <1>4
  <2>2. line[Len(line)] # CR
    BY <1>1, <1>2, <1>3, <2>1
  <2>3. QED BY <2>2 DEF DropCR, line
<1>5. CASE line = <<>>
  BY <1>5 DEF DropCR, line
<1>6. QED BY <1>4, <1>5

LEMMA ScannedLines ==
  ASSUME NEW t \in FileText
  PROVE  /\ DOMAIN ScanLines(t) = 1..LineCount(t) /\ Len(ScanLines(t)) = LineCount(t)
         /\ \A n \in 1..LineCount(t) : ScanLines(t)[n] = DropCR(t[n]) /\ ScanLines(t)[n] \in TextLine
                                        /\ n \in 1..Len(t)
         /\ ScanLines(t) \in Seq(TextLine)
<1> DEFINE c == LineCount(t)
           e(n) == DropCR(t[n])
<1>1. c \in Nat /\ c <= Len(t) /\ Len(t) \in Nat
  BY LineCountType
<1>2. ScanLines(t) = [n \in 1..c |-> e(n)]
  BY DEF ScanLines
<1> HIDE DEF c
<1>3. \A n \in 1..c : n \in 1..Len(t)
  BY <1>1
<1>4. \A n \in 1..c : e(n) \in TextLine
  BY <1>3, LineType, DropCRType
<1> HIDE DEF e
<1>5. [n \in 1..c |-> e(n)] \in Seq(TextLine)
  BY <1>1, <1>4, IsASeq
<1>6. Len(ScanLines(t)) = c
  BY <1>1, <1>2
<1>7. \A n \in 1..c : ScanLines(t)[n] = e(n)
  BY <1>2
<1>8. QED BY <1>2, <1>3, <1>4, <1>5, <1>6, <1>7 DEF c, e

CountsRight(c, t) ==
  /\ c.lines = Newlines(t) + (IF EndsInNewline(t) THEN 0 ELSE 1)
  /\ c.words = Fields(Bytes(t))
  /\ EndsInNewline(t) /\ ~HasCR(t) => c.chars = Runes(Bytes(t))

LEMMA ScannedCounts == \A t \in FileText : CountsRight(FsCounts(t), t)
<1> SUFFICES ASSUME NEW t \in FileText PROVE CountsRight(FsCounts(t), t)
  OBVIOUS
<1> DEFINE l == Len(t)
           m == LineCount(t)
           lines == ScanLines(t)
           words == SumOfSeq([n \in DOMAIN lines |-> Fields(lines[n])])
           chars == SumOfSeq([n \in DOMAIN lines |-> Runes(lines[n]) + 1])
           bytes == Bytes(t)
           fields == LineFields(t)
           runes == LineRunes(t)
<1>1. FsCounts(t).lines = Len(lines) /\ FsCounts(t).words = words /\ FsCounts(t).chars = chars
  BY DEF FsCounts
<1>2. /\ DOMAIN lines = 1..m /\ Len(lines) = m
      /\ \A n \in 1..m : lines[n] = DropCR(t[n]) /\ n \in 1..l
  BY ScannedLines
<1>3. /\ l \in Nat \ {0} /\ l \in 1..l /\ t[l] \in TextLine
      /\ \A n \in 1..l : t[n] \in TextLine
  BY LineType
<1>4. m = (IF EndsInNewline(t) THEN l - 1 ELSE l)
  BY DEF LineCount
<1>5. \A n \in 1..l : fields[n] = Fields(t[n]) /\ runes[n] = Runes(t[n]) + 1
  BY DEF LineFields, LineRunes
<1>6. /\ Newlines(t) = l - 1 /\ Fields(bytes) = SumTo(fields, l - 1) + Fields(t[l])
      /\ Runes(bytes) = SumTo(runes, l - 1) + Runes(t[l])
  <2>1. Newlines(t) = CountIn(bytes, {NL})
    BY DEF Newlines, CountIn
  <2>2. QED BY <2>1, CountsOfBytes
<1>7. EndsInNewline(t) => t[l] = <<>>
  BY DEF EndsInNewline
<1> HIDE DEF l, m, lines, bytes, fields, runes
<1>8. words = SumTo(fields, m)
  <2>1. \A n \in 1..m : Fields(lines[n]) = fields[n]
    BY <1>2, <1>3, <1>5, CountsOfLine
  <2>2. [n \in DOMAIN lines |-> Fields(lines[n])] = FirstPart(fields, m)
    BY <1>2, <2>1 DEF FirstPart
  <2>3. QED BY <2>2 DEF SumTo
<1>9. ~HasCR(t) => chars = SumTo(runes, m)
  <2> SUFFICES ASSUME ~HasCR(t) PROVE chars = SumTo(runes, m)
    OBVIOUS
  <2>1. \A n \in 1..m : lines[n] = t[n]
    BY <1>2, NothingDropped DEF l
  <2>2. \A n \in 1..m : Runes(lines[n]) + 1 = runes[n]
    BY <1>2, <1>5, <2>1
  <2>3. [n \in DOMAIN lines |-> Runes(lines[n]) + 1] = FirstPart(runes, m)
    BY <1>2, <2>2 DEF FirstPart
  <2>4. QED BY <2>3 DEF SumTo
<1> HIDE DEF words, chars
<1>10. SumTo(fields, l) = SumTo(fields, l - 1) + Fields(t[l]) /\ SumTo(fields, l - 1) \in Nat
      /\ SumTo(runes, l - 1) \in Nat
  <2>1. \A n \in 1..l : fields[n] \in Nat /\ runes[n] \in Nat
    <3>1. \A n \in 1..l : Fields(t[n]) \in Nat /\ Runes(t[n]) \in Nat
      BY <1>3, CountsOfLine
    <3>2. QED BY <1>5, <3>1
  <2>2. AllIn(fields, l, Nat) /\ AllIn(runes, l, Nat)
    BY <2>1 DEF AllIn
  <2>3. l \in Nat /\ l - 1 \in Nat /\ l - 1 < l /\ (l - 1) + 1 = l /\ l - 1 \in 0..l
    BY <1>3
  <2>4. /\ \A k \in 0..l : SumTo(fields, k) \in Nat
        /\ \A k \in Nat : k < l => SumTo(fields, k + 1) = SumTo(fields, k) + fields[k + 1]
    BY <2>2, <2>3, SumStep
  <2>5. \A k \in 0..l : SumTo(runes, k) \in Nat
    BY <2>2, <2>3, SumStep
  <2>6. SumTo(fields, l) = SumTo(fields, l - 1) + fields[l]
    BY <2>3, <2>4
  <2>7. QED BY <1>3, <1>5, <2>3, <2>4, <2>5, <2>6
<1>11. Fields(<<>>) = 0 /\ Runes(<<>>) = 0
  <2>1. Fields(<<>>) = 0
    BY <1>3, CountsOfLine
  <2>2. {k \in DOMAIN <<>> : <<>>[k] # CONT} = {}
    OBVIOUS
  <2>3. QED BY <2>1, <2>2, FS_EmptySet DEF Runes
<1>12. CASE EndsInNewline(t)
  <2>1. m = l - 1 /\ t[l] = <<>>
    BY <1>4, <1>7, <1>12
  <2>2. words = Fields(bytes) /\ (~HasCR(t) => chars = Runes(bytes)) /\ Len(lines) = Newlines(t) + 0
    BY <1>2, <1>3, <1>6, <1>8, <1>9, <1>10, <1>11, <2>1
  <2>3. QED BY <1>1, <1>12, <2>2 DEF CountsRight, bytes
<1>13. CASE ~EndsInNewline(t)
  <2>1. m = l
    BY <1>4, <1>13
  <2>2. words = Fields(bytes) /\ Len(lines) = Newlines(t) + 1
    BY <1>2, <1>3, <1>6, <1>8, <1>10, <2>1
  <2>3. QED BY <1>1, <1>13, <2>2 DEF CountsRight, bytes
<1>14. QED BY <1>12, <1>13

LEMMA SplitCounts == \A t \in FileText : CountsRight(GitCounts(t), t) /\ GitCounts(t).bytes = Size(t)
<1> SUFFICES ASSUME NEW t \in FileText PROVE CountsRight(GitCounts(t), t) /\ GitCounts(t).bytes = Size(t)
  OBVIOUS
<1>1. Newlines(t) = Len(t) - 1
  <2>1. Newlines(t) = CountIn(Bytes(t), {NL})
    BY DEF Newlines, CountIn
  <2>2. QED BY <2>1, CountsOfBytes
<1>2. Len(t) \in Nat
  BY LineType
<1>3. GitCounts(t).lines = Newlines(t) + (IF EndsInNewline(t) THEN 0 ELSE 1)
  BY <1>1, <1>2 DEF GitCounts
<1>4. /\ GitCounts(t).words = Fields(Bytes(t)) /\ GitCounts(t).chars = Runes(Bytes(t))
      /\ GitCounts(t).bytes = Size(t)
  BY DEF GitCounts
<1>5. QED BY <1>3, <1>4 DEF CountsRight

LEMMA CountsWanted ==
  ASSUME NEW t \in FileText, NEW c, CountsRight(c, t), "bytes" \in Flags => c.bytes = Size(t)
  PROVE  ~Counted(c).failed /\ CountsAreOf(Counted(c).counts, t)
BY DEF Counted, CountsAreOf, CountsRight

-----------------------------------------------------------------------------
\* Rows that tile what is dumped.

LEMMA RowsTile ==
  ASSUME NEW data \in Seq(Nat), NEW base \in Nat
  PROVE  LET rows == FormatHexLines(data, base) IN
         /\ FlattenSeq([n \in DOMAIN rows |-> rows[n].bytes]) = data
         /\ \A n \in DOMAIN rows :
              /\ \E k \in 1..Len(data) : rows[n].offset = base + k - 1 /\ rows[n].bytes[1] = data[k]
              /\ n < Len(rows) => rows[n + 1].offset = rows[n].offset + hexdumpBytesPerLine
<1> DEFINE l == Len(data)
           w == hexdumpBytesPerLine
           r == (l + w - 1) \div w
           row(n) == SubSeq(data, (n - 1) * w + 1, Least(n * w, l))
           rows == FormatHexLines(data, base)
           pieces == [n \in 1..r |-> row(n)]
           cut(n) == Least(n * w, l)
<1>1. l \in Nat /\ w \in Nat \ {0}
  BY LenProperties, FileToolsBoundsAssumption
<1>2. /\ DOMAIN rows = 1..r
      /\ \A n \in 1..r : rows[n].offset = base + (n - 1) * w /\ rows[n].bytes = row(n)
  BY DEF FormatHexLines
<1>3. r \in Nat /\ l <= r * w /\ \A n \in 1..r : (n - 1) * w < l
  <2> DEFINE x == l + w - 1
  <2>1. x \in Nat
    BY <1>1
  <2> HIDE DEF x, l, w
  <2>2. x \div w \in Nat /\ (x \div w) * w <= x /\ x < ((x \div w) + 1) * w
    BY <1>1, <2>1, Division
  <2> DEFINE q == x \div w
  <2> HIDE DEF q
  <2>3. q \in Nat /\ q * w <= l + w - 1 /\ l + w - 1 < (q + 1) * w
    BY <2>2 DEF q, x
  <2>4. l <= q * w /\ \A n \in 1..q : (n - 1) * w < l
    BY <1>1, <2>3, RowsOf
  <2>5. q = r
    BY DEF q, x
  <2>6. QED BY <2>3, <2>4, <2>5
<1>4. Len(rows) = r
  <2>1. rows = [n \in 1..r |-> [offset |-> base + (n - 1) * w, bytes |-> row(n)]]
    BY DEF FormatHexLines
  <2> HIDE DEF rows, r, row, l, w
  <2>2. QED BY <1>3, <2>1
<1>5. [n \in DOMAIN rows |-> rows[n].bytes] = pieces
  <2> HIDE DEF rows, row, r, l, w
  <2>1. QED BY <1>2
<1> HIDE DEF rows, r, l, w
<1>6. \A k \in Nat : /\ k * w \in Nat /\ (k + 1) * w = k * w + w
                     /\ cut(k) \in 0..l /\ (k = r => cut(k) = l)
                     /\ k < r => cut(k) = k * w /\ k * w < l
  <2> SUFFICES ASSUME NEW k \in Nat
               PROVE  /\ k * w \in Nat /\ (k + 1) * w = k * w + w
                      /\ cut(k) \in 0..l /\ (k = r => cut(k) = l)
                      /\ k < r => cut(k) = k * w /\ k * w < l
    OBVIOUS
  <2>1. k * w \in Nat /\ (k + 1) * w = k * w + w
    BY <1>1, RowEnds
  <2>2. k < r => k + 1 \in 1..r /\ (k + 1) - 1 = k
    BY <1>3
  <2>3. k < r => k * w < l
    BY <1>3, <2>2
  <2>4. k = r => l <= k * w
    BY <1>3
  <2> DEFINE x == k * w
  <2> HIDE DEF x
  <2>5. Least(x, l) \in 0..l /\ (l <= x => Least(x, l) = l) /\ (x < l => Least(x, l) = x)
    BY <1>1, <2>1 DEF Least, x
  <2>6. QED BY <2>1, <2>3, <2>4, <2>5 DEF x
<1>7. 0 * w = 0 /\ cut(0) = 0
  <2>1. 0 * w = 0
    BY <1>1, RowEnds
  <2>2. QED BY <1>1, <2>1 DEF Least
<1>8. ASSUME NEW n \in 1..r
      PROVE  /\ n - 1 \in Nat /\ n - 1 < r /\ (n - 1) + 1 = n /\ n \in Nat
             /\ row(n) = SubSeq(data, cut(n - 1) + 1, cut(n))
  <2>1. n - 1 \in Nat /\ n - 1 < r /\ (n - 1) + 1 = n /\ n \in Nat
    BY <1>3
  <2>2. QED BY <1>6, <2>1
<1>9. ASSUME NEW n \in Nat
      PROVE  n < r => cut(n) < cut(n + 1)
  <2> SUFFICES ASSUME n < r PROVE cut(n) < cut(n + 1)
    OBVIOUS
  <2>1. cut(n) = n * w /\ n * w < l /\ n * w \in Nat /\ (n + 1) * w = n * w + w
    BY <1>6
  <2> DEFINE x == n * w
             y == (n + 1) * w
  <2> HIDE DEF x, y
  <2>2. x < l /\ x \in Nat /\ y = x + w
    BY <2>1 DEF x, y
  <2>3. x < Least(y, l)
    BY <1>1, <2>2 DEF Least
  <2>4. QED BY <2>1, <2>3 DEF x, y
<1> HIDE DEF cut, row
<1>10. \A n \in 1..r : /\ row(n) \in Seq(Nat) /\ row(n)[1] = data[(n - 1) * w + 1]
                       /\ (n - 1) * w + 1 \in 1..l
  <2> SUFFICES ASSUME NEW n \in 1..r
               PROVE  row(n) \in Seq(Nat) /\ row(n)[1] = data[(n - 1) * w + 1] /\ (n - 1) * w + 1 \in 1..l
    OBVIOUS
  <2> DEFINE m == cut(n - 1)
             k == cut(n)
  <2>1. m \in 0..l /\ k \in 0..l /\ m < k /\ m = (n - 1) * w /\ row(n) = SubSeq(data, m + 1, k)
    BY <1>6, <1>8, <1>9
  <2> HIDE DEF m, k
  <2>2. m + 1 \in Nat \ {0} /\ k \in 0..Len(data) /\ m + 1 <= k + 1 /\ 1 \in 1..(k - (m + 1) + 1)
        /\ m + 1 + 1 - 1 = m + 1 /\ m + 1 \in 1..l
    BY <1>1, <2>1 DEF l
  <2>3. /\ SubSeq(data, m + 1, k) \in Seq(Nat)
        /\ \A i9 \in 1..(k - (m + 1) + 1) : SubSeq(data, m + 1, k)[i9] = data[m + 1 + i9 - 1]
    BY <2>2, PieceType
  <2>4. SubSeq(data, m + 1, k)[1] = data[m + 1]
    BY <2>2, <2>3
  <2>5. QED BY <2>1, <2>2, <2>3, <2>4
<1>11. FlattenSeq(pieces) = data
  <2> DEFINE Q == {k \in Nat : k <= r => FlattenSeq(FirstPart(pieces, k)) = SubSeq(data, 1, cut(k))}
  <2>1. \A n \in 1..r : pieces[n] = row(n)
    OBVIOUS
  <2>2. AllIn(pieces, r, Seq(Nat)) /\ pieces = FirstPart(pieces, r)
    BY <1>10, <2>1 DEF AllIn, FirstPart
  <2> HIDE DEF pieces, Q
  <2>3. /\ FirstPart(pieces, 0) = <<>>
        /\ \A k \in 0..r : FirstPart(pieces, k) \in Seq(Seq(Nat))
        /\ \A k \in Nat : k < r => FirstPart(pieces, k + 1) = Append(FirstPart(pieces, k), pieces[k + 1])
    <3>1. /\ FirstPart(pieces, 0) = <<>>
          /\ \A k \in 0..r : FirstPart(pieces, k) \in Seq(Seq(Nat)) /\ Len(FirstPart(pieces, k)) = k
          /\ \A k \in Nat : k < r => pieces[k + 1] \in Seq(Nat) /\ FirstPart(pieces, k + 1) = Append(FirstPart(pieces, k), pieces[k + 1])
      <4>1. r \in Nat
        BY <1>3
      <4>2. AllIn(pieces, r, Seq(Nat))
        BY <2>2
      <4>3. GrowsOneByOne(pieces, r, Seq(Nat))
        BY <4>1, <4>2, OneMore
      <4>4. QED BY <4>3 DEF GrowsOneByOne
    <3>2. QED BY <3>1
  <2> USE DEF Q
  <2>4. 0 \in Q
    <3>1. <<>> \in Seq(Seq(Nat)) /\ <<>> \in Seq(Nat)
      BY EmptySeq
    <3>2. FlattenSeq(<<>>) = <<>>
      BY <3>1, FlattenOfAppend
    <3>3. SubSeq(data, 1, 0) = <<>>
      BY SubSeqEmpty
    <3>4. QED BY <1>7, <2>3, <3>2, <3>3
  <2>5. ASSUME NEW k \in Nat, k \in Q PROVE k + 1 \in Q
    <3> SUFFICES ASSUME k + 1 <= r PROVE FlattenSeq(FirstPart(pieces, k + 1)) = SubSeq(data, 1, cut(k + 1))
      OBVIOUS
    <3> DEFINE f == FirstPart(pieces, k)
               m == cut(k)
               n == cut(k + 1)
    <3>1. k < r /\ k <= r /\ k \in 0..r /\ k + 1 \in 1..r /\ (k + 1) - 1 = k
      BY <1>3
    <3>2. f \in Seq(Seq(Nat)) /\ FirstPart(pieces, k + 1) = Append(f, pieces[k + 1]) /\ FlattenSeq(f) = SubSeq(data, 1, m)
      BY <2>3, <2>5, <3>1
    <3>3. /\ pieces[k + 1] = SubSeq(data, m + 1, n) /\ pieces[k + 1] \in Seq(Nat)
          /\ m \in 0..l /\ n \in 0..l /\ m < n
      <4>1. pieces[k + 1] = row(k + 1) /\ row(k + 1) \in Seq(Nat)
        BY <1>10, <2>1, <3>1
      <4>2. row(k + 1) = SubSeq(data, m + 1, n)
        BY <1>8, <3>1
      <4>3. m \in 0..l /\ n \in 0..l /\ m < n
        <5>1. k + 1 \in Nat
          OBVIOUS
        <5>2. QED BY <1>6, <1>9, <3>1, <5>1
      <4>4. QED BY <4>1, <4>2, <4>3
    <3> HIDE DEF f
    <3>4. FlattenSeq(Append(f, pieces[k + 1])) = IF f = <<>> THEN pieces[k + 1] ELSE FlattenSeq(f) \o pieces[k + 1]
      BY <3>2, <3>3, FlattenOfAppend
    <3>5. FlattenSeq(<<>>) = <<>>
      BY <3>2, <3>3, FlattenOfAppend
    <3>6. <<>> \o pieces[k + 1] = pieces[k + 1]
      BY <3>3, ConcatEmptySeq
    <3> HIDE DEF m, n
    <3>7. SubSeq(data, 1, m) \o SubSeq(data, m + 1, n) = SubSeq(data, 1, n)
      <4>1. 1 \in Nat \ {0} /\ m \in Nat /\ n \in Nat /\ 1 <= m + 1 /\ m <= n /\ n <= Len(data)
        BY <1>1, <3>3 DEF l
      <4>2. QED BY <4>1, PiecesJoin
    <3>8. FlattenSeq(Append(f, pieces[k + 1])) = FlattenSeq(f) \o pieces[k + 1]
      BY <3>4, <3>5, <3>6
    <3>9. FlattenSeq(Append(f, pieces[k + 1])) = SubSeq(data, 1, n)
      BY <3>2, <3>3, <3>7, <3>8
    <3>10. QED BY <3>2, <3>9 DEF n
  <2>6. r \in Q
    <3> HIDE DEF Q
    <3> QED BY <1>3, <2>4, <2>5, InductionOnNat
  <2>7. FlattenSeq(FirstPart(pieces, r)) = SubSeq(data, 1, cut(r))
    <3>1. r <= r
      BY <1>3
    <3>2. QED BY <2>6, <3>1
  <2>8. SubSeq(data, 1, l) = data
    BY SubSeqFull DEF l
  <2>9. cut(r) = l
    BY <1>3, <1>6
  <2>10. QED BY <2>2, <2>7, <2>8, <2>9
<1> HIDE DEF pieces
<1>12. ASSUME NEW n \in DOMAIN rows
       PROVE  /\ \E k \in 1..l : rows[n].offset = base + k - 1 /\ rows[n].bytes[1] = data[k]
              /\ n < Len(rows) => rows[n + 1].offset = rows[n].offset + w
  <2>1. n \in 1..r
    BY <1>2
  <2> DEFINE x == (n - 1) * w
  <2>2. rows[n].offset = base + x /\ rows[n].bytes = row(n) /\ row(n)[1] = data[x + 1] /\ x + 1 \in 1..l
    BY <1>2, <1>10, <2>1
  <2>3. n < r => rows[n + 1].offset = base + ((n + 1) - 1) * w
    <3>1. n < r => n + 1 \in 1..r
      BY <1>3, <2>1
    <3>2. QED BY <1>2, <3>1
  <2>4. n \in Nat /\ n * w = x + w /\ x \in Nat
    <3>1. n - 1 \in Nat /\ (n - 1) + 1 = n /\ n \in Nat
      BY <2>1
    <3>2. QED BY <1>6, <3>1
  <2> HIDE DEF x
  <2>5. n < r => rows[n + 1].offset = rows[n].offset + w
    <3>1. (n + 1) - 1 = n
      BY <2>4
    <3>2. n < r => rows[n + 1].offset = base + (x + w)
      BY <2>3, <2>4, <3>1
    <3>3. base + (x + w) = (base + x) + w
      BY <1>1, <2>4
    <3>4. QED BY <2>2, <3>2, <3>3
  <2>6. base + x = base + (x + 1) - 1
    BY <2>4
  <2>7. \E k \in 1..l : rows[n].offset = base + k - 1 /\ rows[n].bytes[1] = data[k]
    BY <2>2, <2>6
  <2>8. QED BY <1>4, <2>5, <2>7
<1>13. QED BY <1>5, <1>11, <1>12 DEF rows, l, w

\* A dump is of the bytes it says, whatever the length asked for.
LEMMA ClampType == tool \in ToolCalls => /\ ClampLength(tool.length) \in Nat \ {0}
                                        /\ tool.offset \in Int
<1> SUFFICES ASSUME tool \in ToolCalls PROVE ClampLength(tool.length) \in Nat \ {0} /\ tool.offset \in Int
  OBVIOUS
<1>1. tool.offset \in Int /\ tool.length \in Int
  BY ToolCallsAssumption
<1> DEFINE asked == tool.length
<1>2. asked \in Int
  BY <1>1
<1> HIDE DEF asked
<1>3. ClampLength(asked) \in Nat \ {0}
  BY <1>2, FileToolsBoundsAssumption DEF ClampLength, Least
<1>4. QED BY <1>1, <1>3 DEF asked

LEMMA DumpIsRight ==
  ASSUME NEW bytes \in Seq(Nat), tool \in ToolCalls, tool.offset >= 0, NEW data,
         data = IF PastEnd(Len(bytes)) THEN <<>> ELSE ReadFull(bytes, ClampLength(tool.length))
  PROVE  ~Dump(Len(bytes), data).failed /\ DumpIsOf(Dump(Len(bytes), data), bytes)
<1> DEFINE o == tool.offset
           c == ClampLength(tool.length)
           l == Len(bytes)
           to == o + Len(data)
           rows == FormatHexLines(data, o)
           entry == Dump(l, data)
<1>1. o \in Nat /\ c \in Nat \ {0} /\ l \in Nat
  BY ClampType, LenProperties
<1>2. /\ ~entry.failed /\ entry.length = Len(data) /\ entry.rows = rows /\ entry.complete = (to >= l)
  BY DEF Dump
<1>3. PastEnd(l) <=> o >= l
  BY DEF PastEnd
<1>4. data = IF PastEnd(l) THEN <<>> ELSE SubSeq(bytes, o + 1, Least(o + c, l))
  BY <1>1 DEF ReadFull, Most
<1> HIDE DEF o, c, l
<1>5. /\ data \in Seq(Nat) /\ Len(data) \in Nat /\ SubSeq(bytes, o + 1, to) = data
      /\ Len(data) <= c /\ (to < l => Len(data) = c)
      /\ \A k \in 1..Len(data) : data[k] = bytes[o + k]
  <2>1. CASE o >= l
    <3>1. data = <<>> /\ data \in Seq(Nat) /\ Len(data) = 0
      BY <1>3, <1>4, <2>1, EmptySeq
    <3>2. to = o /\ o < o + 1 /\ o \in Int /\ o + 1 \in Int
      BY <1>1, <3>1
    <3>3. SubSeq(bytes, o + 1, to) = <<>>
      BY <3>2, SubSeqEmpty
    <3>4. ~(to < l)
      BY <1>1, <2>1, <3>2
    <3>5. QED BY <1>1, <3>1, <3>3, <3>4
  <2>2. CASE o < l
    <3> DEFINE n == Least(o + c, l)
    <3>1. n \in Nat /\ n \in 0..l /\ o < n /\ n <= o + c /\ (n < l => n = o + c)
      BY <1>1, <2>2 DEF Least
    <3>2. data = SubSeq(bytes, o + 1, n)
      BY <1>1, <1>3, <1>4, <2>2
    <3> HIDE DEF n
    <3>3. o + 1 \in Nat \ {0} /\ o + 1 <= n + 1 /\ n \in 0..Len(bytes)
      BY <1>1, <3>1 DEF l
    <3>4. /\ data \in Seq(Nat) /\ Len(data) = n - (o + 1) + 1
          /\ \A k \in 1..(n - (o + 1) + 1) : data[k] = bytes[o + 1 + k - 1]
      <4> DEFINE m == o + 1
      <4>1. m \in Nat \ {0} /\ n \in 0..Len(bytes) /\ m <= n + 1 /\ data = SubSeq(bytes, m, n)
        BY <3>2, <3>3
      <4> HIDE DEF m
      <4>2. /\ SubSeq(bytes, m, n) \in Seq(Nat) /\ Len(SubSeq(bytes, m, n)) = n - m + 1
            /\ \A k \in 1..(n - m + 1) : SubSeq(bytes, m, n)[k] = bytes[m + k - 1]
        BY <4>1, PieceType
      <4>3. /\ data \in Seq(Nat) /\ Len(data) = n - m + 1
            /\ \A k \in 1..(n - m + 1) : data[k] = bytes[m + k - 1]
        BY <4>1, <4>2
      <4>4. QED BY <4>3 DEF m
    <3>5. Len(data) = n - o /\ to = n /\ n - (o + 1) + 1 = n - o
      BY <1>1, <3>1, <3>4
    <3>6. \A k \in 1..Len(data) : data[k] = bytes[o + k]
      <4>1. \A k \in 1..(n - o) : o + 1 + k - 1 = o + k
        BY <1>1, <3>1
      <4>2. QED BY <3>4, <3>5, <4>1
    <3>7. Len(data) \in Nat /\ Len(data) <= c /\ (to < l => Len(data) = c)
      BY <1>1, <3>1, <3>5
    <3>8. QED BY <3>2, <3>4, <3>5, <3>6, <3>7
  <2>3. QED BY <1>1, <2>1, <2>2
<1>6. /\ FlattenSeq([n \in DOMAIN rows |-> rows[n].bytes]) = data
      /\ \A n \in DOMAIN rows :
           /\ \E k \in 1..Len(data) : rows[n].offset = o + k - 1 /\ rows[n].bytes[1] = data[k]
           /\ n < Len(rows) => rows[n + 1].offset = rows[n].offset + hexdumpBytesPerLine
  BY <1>1, <1>5, RowsTile
<1> HIDE DEF rows
<1>7. \A n \in DOMAIN rows : rows[n].bytes[1] = bytes[rows[n].offset + 1]
  <2> SUFFICES ASSUME NEW n \in DOMAIN rows PROVE rows[n].bytes[1] = bytes[rows[n].offset + 1]
    OBVIOUS
  <2>1. PICK k \in 1..Len(data) : rows[n].offset = o + k - 1 /\ rows[n].bytes[1] = data[k]
    BY <1>6
  <2>2. rows[n].offset + 1 = o + k
    BY <1>1, <2>1
  <2>3. QED BY <1>5, <2>1, <2>2
<1> HIDE DEF entry
<1>8. DumpIsOf(entry, bytes)
  BY <1>2, <1>5, <1>6, <1>7 DEF DumpIsOf, o, c, l
<1>9. QED BY <1>2, <1>8 DEF entry, l

-----------------------------------------------------------------------------
\* The lines asked for.

LEMMA AllCollected ==
  ASSUME NEW lines \in Seq(TextLine), Len(lines) > 0 => lines[1] # <<>>
  PROVE  Collected(lines) = lines
<1> DEFINE is(n) == (n <= Len(lines) => lines[n] # <<>>) /\ \A m \in 1..(n - 1) : lines[m] = <<>>
<1>1. Len(lines) \in Nat
  BY LenProperties
<1>2. is(1) /\ 1 \in 1..(Len(lines) + 1)
  BY <1>1
<1>3. ASSUME NEW n \in 1..(Len(lines) + 1), is(n) PROVE n = 1
  <2>1. n > 1 => 1 \in 1..(n - 1) /\ Len(lines) > 0
    BY <1>1
  <2>2. ~(n > 1)
    BY <1>3, <2>1
  <2>3. QED BY <1>1, <2>2
<1>4. FirstFull(lines) = CHOOSE n \in 1..(Len(lines) + 1) : is(n)
  BY DEF FirstFull
<1> HIDE DEF is
<1>5. FirstFull(lines) = 1
  BY <1>2, <1>3, <1>4
<1>6. QED BY <1>5, SubSeqFull DEF Collected

LEMMA RangeIsRead ==
  ASSUME NEW t \in FileText, tool \in ToolCalls, tool.tool = "lines"
  PROVE  ForwardRange =>
           /\ ~ReadLines(t, tool.start, tool.end).failed
           /\ LinesAreOf(ReadLines(t, tool.start, tool.end), t, TRUE)
<1> DEFINE first == tool.start
           end == tool.end
           lines == ScanLines(t)
           total == LineCount(t)
           last == IF end = 0 THEN total ELSE Least(end, total)
           piece == SubSeq(lines, first, last)
           before == IF first <= total THEN SumOfSeq([n \in 1..(first - 1) |-> Len(lines[n]) + 1]) ELSE 0
           entry == ReadLines(t, first, end)
<1> SUFFICES ASSUME ForwardRange, total >= first => DropCR(t[first]) # <<>>
             PROVE  ~entry.failed /\ LinesAreOf(entry, t, TRUE)
  <2>1. CASE total >= first => DropCR(t[first]) # <<>>
    BY <2>1
  <2>2. CASE ~(total >= first => DropCR(t[first]) # <<>>)
    BY <2>2 DEF LinesAreOf, ReadLines
  <2>3. QED BY <2>1, <2>2
<1>1. /\ first \in Nat \ {0} /\ end \in Nat /\ (end = 0 \/ end >= first)
      /\ total \in Nat /\ total <= Len(t) /\ Len(t) \in Nat
  BY ToolCallsAssumption, LineCountType DEF ForwardRange
<1>2. /\ Len(lines) = total /\ lines \in Seq(TextLine)
      /\ \A n \in 1..total : lines[n] = DropCR(t[n]) /\ n \in 1..Len(t)
  BY ScannedLines
<1>3. total >= first => DropCR(t[first]) # <<>>
  OBVIOUS
<1> HIDE DEF first, end, lines, total
<1>4. /\ last \in Nat /\ last <= total
      /\ end = 0 => last = total
  BY <1>1 DEF Least
<1>5. /\ ~entry.failed /\ entry.data = Collected(piece) /\ entry.totalLines = total
      /\ entry.endLine = last /\ entry.startByte = before /\ entry.complete = (last = total)
  <2> DEFINE stop == Most(first, end + 1)
             all == Len(lines)
             left == end > 0 /\ stop <= all
             lineNum == IF left THEN stop ELSE all
             upTo == IF left THEN Least(end, stop - 1) ELSE all
             from == Most(first, 1)
             final == IF end > 0 /\ end < lineNum THEN end ELSE lineNum
  <2>1. /\ ~entry.failed /\ entry.data = Collected(SubSeq(lines, from, upTo)) /\ entry.totalLines = all
        /\ entry.endLine = final /\ entry.complete = (end = 0 \/ final >= all)
        /\ entry.startByte = IF first <= all THEN SumOfSeq([n \in 1..(from - 1) |-> Len(lines[n]) + 1]) ELSE 0
    BY DEF ReadLines, lines
  <2>2. from = first
    BY <1>1 DEF Most
  <2>3. end > 0 => stop = end + 1 /\ Least(end, stop - 1) = end
    <3>1. end > 0 => first < end + 1 /\ (end + 1) - 1 = end
      BY <1>1
    <3>2. end > 0 => stop = end + 1
      BY <3>1 DEF Most
    <3> HIDE DEF stop
    <3>3. QED BY <3>1, <3>2 DEF Least
  <2>7. all = total
    BY <1>2
  <2> HIDE DEF stop, all
  <2>4. upTo = last /\ final = last
    <3>1. CASE left
      BY <1>1, <2>3, <2>7, <3>1 DEF Least
    <3>2. CASE ~left /\ end > 0
      BY <1>1, <2>3, <2>7, <3>2 DEF Least
    <3>3. CASE end = 0
      BY <2>7, <3>3
    <3>4. QED BY <1>1, <3>1, <3>2, <3>3
  <2>5. (end = 0 \/ last >= total) = (last = total)
    BY <1>1, <1>4
  <2> HIDE DEF upTo, final, from, last, entry
  <2>6. QED BY <2>1, <2>2, <2>4, <2>5, <2>7
<1> HIDE DEF entry, last
<1>6. /\ piece \in Seq(TextLine) /\ Len(piece) = Most(last - first + 1, 0)
      /\ \A n \in first..last : piece[n - first + 1] = lines[n]
  <2>1. last <= Len(lines)
    BY <1>2, <1>4
  <2>2. QED BY <1>1, <1>2, <1>4, <2>1, PieceOfLines
<1>7. Len(piece) > 0 => piece[1] # <<>>
  <2> SUFFICES ASSUME Len(piece) > 0 PROVE piece[1] # <<>>
    OBVIOUS
  <2>1. first <= last
    BY <1>1, <1>4, <1>6 DEF Most
  <2>2. first \in first..last /\ first - first + 1 = 1 /\ first \in 1..total /\ total >= first
    BY <1>1, <1>4, <2>1
  <2>3. piece[1] = lines[first]
    BY <1>6, <2>2
  <2>4. QED BY <1>2, <1>3, <2>2, <2>3
<1> HIDE DEF piece, before
<1>8. entry.data = piece
  BY <1>5, <1>6, <1>7, AllCollected
<1>9. \A n \in first..last : entry.data[n - first + 1] = DropCR(t[n])
  <2>1. \A n \in first..last : n \in 1..total
    BY <1>1, <1>4
  <2>2. QED BY <1>2, <1>6, <1>8, <2>1
<1>10. Len(entry.data) - Most(last - first + 1, 0) = 0
  <2>1. Most(last - first + 1, 0) \in Nat
    BY <1>1, <1>4 DEF Most
  <2>2. QED BY <1>6, <1>8, <2>1
<1>11. ~HasCR(t) /\ first <= last => SubSeq(Bytes(t), entry.startByte + 1, entry.startByte + Len(t[first])) = t[first]
  <2> SUFFICES ASSUME ~HasCR(t), first <= last
               PROVE  SubSeq(Bytes(t), before + 1, before + Len(t[first])) = t[first]
    BY <1>5
  <2> DEFINE m == first - 1
             led == Led(t, m)
             line == t[first]
             bytes == Bytes(t)
  <2>1. first \in 1..Len(t) /\ first <= total /\ m \in 0..Len(t) /\ \A n \in 1..m : n \in 1..total /\ n \in 1..Len(t)
    BY <1>1, <1>4
  <2>2. \A n \in 1..m : Len(lines[n]) + 1 = LineBytes(t)[n]
    <3>1. \A n \in 1..m : lines[n] = t[n]
      BY <1>2, <2>1, NothingDropped
    <3>2. \A n \in 1..Len(t) : LineBytes(t)[n] = Len(t[n]) + 1
      BY DEF LineBytes
    <3>3. QED BY <2>1, <3>1, <3>2
  <2>3. [n \in 1..m |-> Len(lines[n]) + 1] = FirstPart(LineBytes(t), m)
    BY <2>2 DEF FirstPart
  <2>4. before = SumTo(LineBytes(t), m)
    BY <2>1, <2>3 DEF before, SumTo
  <2>5. Len(led) = SumTo(LineBytes(t), m)
    BY <2>1, LedCounts DEF LedCounted
  <2>6. /\ bytes \in Seq(Nat) /\ led \in Seq(Nat) /\ line \in Seq(Nat)
        /\ Len(led) + Len(line) <= Len(bytes)
        /\ \A k \in 1..Len(line) : bytes[Len(led) + k] = line[k]
    BY <2>1, LineAmongBytes
  <2> HIDE DEF led, line, bytes
  <2>7. Len(led) \in Nat /\ Len(line) \in Nat /\ Len(bytes) \in Nat /\ before = Len(led)
    BY <2>4, <2>5, <2>6, LenProperties
  <2> DEFINE a == before + 1
             b == before + Len(line)
  <2>8. a \in Nat \ {0} /\ b \in 0..Len(bytes) /\ a <= b + 1 /\ b - a + 1 = Len(line)
        /\ \A k \in 1..Len(line) : a + k - 1 = Len(led) + k
    BY <2>6, <2>7
  <2> HIDE DEF a, b
  <2>9. /\ SubSeq(bytes, a, b) \in Seq(Nat) /\ Len(SubSeq(bytes, a, b)) = b - a + 1
        /\ \A k \in 1..(b - a + 1) : SubSeq(bytes, a, b)[k] = bytes[a + k - 1]
    BY <2>6, <2>8, PieceType
  <2>10. Len(SubSeq(bytes, a, b)) = Len(line) /\ \A k \in 1..Len(line) : SubSeq(bytes, a, b)[k] = line[k]
    BY <2>6, <2>8, <2>9
  <2> DEFINE u == SubSeq(bytes, a, b)
  <2>11. u \in Seq(Nat) /\ Len(line) = Len(u) /\ \A k \in 1..Len(u) : u[k] = line[k]
    BY <2>9, <2>10
  <2> HIDE DEF u
  <2>12. u = line
    BY <2>6, <2>11, SeqEqual
  <2>13. QED BY <2>12 DEF u, a, b, line, bytes
<1>12. LinesAreOf(entry, t, TRUE)
  BY <1>5, <1>9, <1>10, <1>11 DEF LinesAreOf, last, first, end, total
<1>13. QED BY <1>5, <1>12

LEMMA RangeIsSplit ==
  ASSUME NEW t \in FileText, tool \in ToolCalls, tool.start <= Len(t)
  PROVE  ForwardRange =>
           /\ ~GitLines(t, tool.start, tool.end).failed
           /\ LinesAreOf(GitLines(t, tool.start, tool.end), t, FALSE)
<1> DEFINE first == tool.start
           end == tool.end
           l == Len(t)
           total == LineCount(t)
           last == IF end = 0 THEN total ELSE Least(end, total)
           to == IF end = 0 \/ end > l THEN l ELSE end
           from == Most(first - 1, 0)
           data == SubSeq(t, from + 1, to)
           entry == GitLines(t, first, end)
<1> SUFFICES ASSUME ForwardRange PROVE ~entry.failed /\ LinesAreOf(entry, t, FALSE)
  OBVIOUS
<1>1. /\ first \in Nat \ {0} /\ end \in Nat /\ (end = 0 \/ end >= first) /\ first <= l
      /\ total \in Nat /\ l \in Nat \ {0} /\ total <= l
  BY ToolCallsAssumption, LineCountType DEF ForwardRange
<1>2. total \in {l, l - 1}
  BY DEF LineCount
<1>3. t \in Seq(TextLine)
  BY DEF FileText, TextType, TextLine
<1> HIDE DEF first, end, l, total
<1>4. from = first - 1 /\ from \in Nat /\ from + 1 = first /\ from < l
  BY <1>1 DEF Most
<1>5. to \in Nat /\ to <= l /\ first <= to /\ last \in Nat /\ last <= to /\ last <= total
      /\ to - Most(last - first + 1, 0) - first + 1 \in {0, 1}
  <2>1. to \in Nat /\ to <= l /\ first <= to
    BY <1>1
  <2>2. last \in Nat /\ last <= to /\ last <= total /\ last \in {to, to - 1}
    <3>1. CASE end = 0
      BY <1>1, <1>2, <3>1
    <3>2. CASE end # 0 /\ end > l
      BY <1>1, <1>2, <3>2 DEF Least
    <3>3. CASE end # 0 /\ ~(end > l)
      BY <1>1, <1>2, <3>3 DEF Least
    <3>4. QED BY <3>1, <3>2, <3>3
  <2> HIDE DEF last, to
  <2>3. Most(last - first + 1, 0) = last - first + 1
    BY <1>1, <2>1, <2>2 DEF Most
  <2>4. to - (last - first + 1) - first + 1 \in {0, 1}
    BY <1>1, <2>1, <2>2
  <2>5. QED BY <2>1, <2>2, <2>3, <2>4
<1>6. ~(from >= l) /\ ~(from < l /\ from > to)
  BY <1>1, <1>4, <1>5
<1>7. ~entry.failed /\ entry.data = data /\ entry.totalLines = total
  BY <1>6 DEF GitLines, l, total
<1> HIDE DEF entry, to, last, from
<1>8. /\ Len(data) = Most(to - first + 1, 0)
      /\ \A n \in first..to : data[n - first + 1] = t[n]
  <2>1. to <= Len(t)
    BY <1>5 DEF l
  <2>2. /\ Len(SubSeq(t, first, to)) = Most(to - first + 1, 0)
        /\ \A n \in first..to : SubSeq(t, first, to)[n - first + 1] = t[n]
    BY <1>1, <1>3, <1>5, <2>1, PieceOfLines
  <2>3. QED BY <1>4, <2>2
<1> HIDE DEF data
<1>9. \A n \in first..last : entry.data[n - first + 1] = t[n]
  <2>1. \A n \in first..last : n \in first..to
    BY <1>1, <1>5
  <2>2. QED BY <1>7, <1>8, <2>1
<1>10. Len(entry.data) - Most(last - first + 1, 0) \in {0, 1}
  <2>1. Len(entry.data) = to - first + 1
    BY <1>1, <1>5, <1>7, <1>8 DEF Most
  <2>2. Most(last - first + 1, 0) \in Nat
    BY <1>1, <1>5 DEF Most
  <2> DEFINE m == Most(last - first + 1, 0)
  <2> HIDE DEF m
  <2>3. m \in Nat /\ to - m - first + 1 \in {0, 1}
    BY <1>5, <2>2 DEF m
  <2>4. (to - first + 1) - m = to - m - first + 1
    BY <1>1, <1>5, <2>3
  <2>5. QED BY <2>1, <2>3, <2>4 DEF m
<1>11. LinesAreOf(entry, t, FALSE)
  BY <1>7, <1>9, <1>10 DEF LinesAreOf, last, first, end, total
<1>12. QED BY <1>7, <1>11

LEMMA AllIsSplit ==
  ASSUME NEW t \in FileText, tool.start = 1, tool.end = 0
  PROVE  ~GitWhole(t).failed /\ LinesAreOf(GitWhole(t), t, FALSE)
<1> DEFINE entry == GitWhole(t)
           l == Len(t)
           total == LineCount(t)
<1>1. ~entry.failed /\ entry.data = t /\ entry.totalLines = total
  BY DEF GitWhole
<1>2. l \in Nat \ {0} /\ total \in Nat /\ total \in {l, l - 1}
  BY LineCountType DEF LineCount
<1> HIDE DEF entry
<1>3. \A n \in 1..total : entry.data[n - 1 + 1] = t[n]
  <2>1. \A n \in 1..total : n - 1 + 1 = n
    BY <1>2
  <2>2. QED BY <1>1, <2>1
<1>4. Len(entry.data) - Most(total - 1 + 1, 0) \in {0, 1}
  <2>1. Len(entry.data) = l
    BY <1>1
  <2> HIDE DEF l, total
  <2>2. Most(total - 1 + 1, 0) = total
    BY <1>2 DEF Most
  <2>3. l - total \in {0, 1}
    BY <1>2
  <2>4. QED BY <2>1, <2>2, <2>3
<1>5. LinesAreOf(entry, t, FALSE)
  BY <1>1, <1>3, <1>4 DEF LinesAreOf
<1>6. QED BY <1>1, <1>5 DEF entry

-----------------------------------------------------------------------------
\* What a path leads to.
LEMMA BlobIsOne ==
  ASSUME NEW s
  PROVE  /\ \A a, b \in Blob(s) : a = b
         /\ \A t \in Blob(s) : t \in FileText
<1> DEFINE path == ParseGitPath(s).path
           id == ParseGitPath(s).repo
           ref == ParseGitPath(s).ref
<1>1. \A x : (\A a, b \in Nearest(x) : a = b) /\ Nearest(x) \subseteq DOMAIN GitDirs
  <2> SUFFICES ASSUME NEW x PROVE (\A a, b \in Nearest(x) : a = b) /\ Nearest(x) \subseteq DOMAIN GitDirs
    OBVIOUS
  <2>1. \A n \in ReposAbove(x) : n \in Int /\ SubSeq(x, 1, n) \in DOMAIN GitDirs
    BY DEF ReposAbove
  <2> DEFINE largest == {k \in ReposAbove(x) : \A m \in ReposAbove(x) : m <= k}
  <2>2. \A n, k \in largest : n = k
    BY <2>1
  <2>3. Nearest(x) = {SubSeq(x, 1, n) : n \in largest}
    BY DEF Nearest
  <2>4. \A n \in largest : SubSeq(x, 1, n) \in DOMAIN GitDirs
    BY <2>1
  <2> HIDE DEF largest
  <2>5. QED BY <2>2, <2>3, <2>4
<1>2. \A x : \A a, b \in OpenRepo(x) : a = b
  <2> SUFFICES ASSUME NEW x, NEW a \in OpenRepo(x), NEW b \in OpenRepo(x) PROVE a = b
    OBVIOUS
  <2>1. CASE x = NoPart
    <3>1. OpenRepo(x) = Nearest(gitCwd)
      BY <2>1 DEF OpenRepo
    <3>2. QED BY <1>1, <3>1
  <2>2. CASE x # NoPart /\ x \in DOMAIN NamedRepos
    <3>1. OpenRepo(x) = {NamedRepos[x]} \cap DOMAIN GitDirs
      BY <2>2 DEF OpenRepo
    <3>2. QED BY <3>1
  <2>3. CASE x # NoPart /\ x \notin DOMAIN NamedRepos /\ LooksLikePath(x)
    <3>1. OpenRepo(x) = Nearest(x.path)
      BY <2>3 DEF OpenRepo
    <3>2. QED BY <1>1, <3>1
  <2>4. CASE x # NoPart /\ x \notin DOMAIN NamedRepos /\ ~LooksLikePath(x)
    <3>1. OpenRepo(x) = {}
      BY <2>4 DEF OpenRepo
    <3>2. QED BY <3>1
  <2>5. QED BY <2>1, <2>2, <2>3, <2>4
<1>3. \A x : \A d \in OpenRepo(x) : d \in DOMAIN GitDirs
  BY <1>1 DEF OpenRepo
<1>4. \A d, r : \A a, b \in ResolveRef(d, r) : a = b
  BY DEF ResolveRef, TryResolve
<1>5. ASSUME NEW d \in DOMAIN GitDirs, NEW r PROVE ResolveRef(d, r) \subseteq TreesOf(d)
  BY DEF ResolveRef, TryResolve, TreesOf
<1>6. OpenGitRepo(id) \subseteq OpenRepo(IF id = DotPart THEN NoPart ELSE id)
  BY DEF OpenGitRepo
<1>7. GetTree(s) = UNION {ResolveRef(d, ref) : d \in OpenGitRepo(id)}
  BY DEF GetTree
<1>8. Blob(s) = {t[path].text : t \in {x \in GetTree(s) : ~IsRoot(path) /\ path \in DOMAIN x /\ x[path].kind = "file"}}
  BY DEF Blob
<1> HIDE DEF path, id, ref
<1>9. \A a, b \in GetTree(s) : a = b
  <2>1. \A d, e \in OpenGitRepo(id) : d = e
    BY <1>2, <1>6
  <2>2. QED BY <1>4, <1>7, <2>1
<1>10. \A x \in GetTree(s) : \E d \in DOMAIN GitDirs : x \in TreesOf(d)
  <2>1. \A d \in OpenGitRepo(id) : d \in DOMAIN GitDirs
    BY <1>3, <1>6
  <2>2. QED BY <1>5, <1>7, <2>1
<1>11. \A a, b \in Blob(s) : a = b
  BY <1>8, <1>9
<1>12. \A t \in Blob(s) : IsText(t)
  BY <1>8, <1>10, BlobsAssumption
<1>13. QED BY <1>11, <1>12, TextsOfFiles

-----------------------------------------------------------------------------
\* Each answer fits the path it is for.
Suits(entry, path, text) ==
  CASE Unreadable(path, text) -> entry.failed
    [] ~Unreadable(path, text) /\ tool.tool = "wc" -> ~entry.failed /\ CountsAreOf(entry.counts, text)
    [] ~Unreadable(path, text) /\ tool.tool = "checksum" -> ~entry.failed /\ entry.of = Bytes(text) /\ entry.size = Len(entry.of)
    [] ~Unreadable(path, text) /\ tool.tool = "hexdump" -> tool.offset >= 0 => ~entry.failed /\ DumpIsOf(entry, Bytes(text))
    [] OTHER -> ForwardRange => ~entry.failed /\ LinesAreOf(entry, text, ~IsGitPath(path))

Fits(entry, path) ==
  \/ TextAt(path) = {} /\ entry.failed
  \/ \E text \in TextAt(path) : Suits(entry, path, text)

\* What a tool knows when it makes its second system call.
SeesItsFile ==
  /\ There /\ ~InGit /\ Path \notin RefusedFiles
  /\ tool.tool = "wc" => ~TooLong(Here) /\ Flags # {"bytes"}
  /\ tool.tool = "hexdump" => ~PastEnd(Size(Here))
SawItsFile == held = Here /\ SeesItsFile

AnswersFit ==
  toolWrites = 0 /\ tool.tool # "stat" =>
    /\ \A n \in 1..Len(answers) : \E e, p : e = answers[n] /\ p = tool.paths[n] /\ Fits(e, p)
    /\ tphase = "second" => SawItsFile

LEMMA LinesOfEither ==
  ASSUME NEW e, NEW t, NEW path
  PROVE  /\ IsGitPath(path) /\ LinesAreOf(e, t, FALSE) => LinesAreOf(e, t, ~IsGitPath(path))
         /\ ~IsGitPath(path) /\ LinesAreOf(e, t, TRUE) => LinesAreOf(e, t, ~IsGitPath(path))
BY DEF LinesAreOf

LEMMA GitAnswerFits ==
  ASSUME ToolIsTyped, GitAnswer
  PROVE  \E e : Answer(e) /\ Fits(e, Path)
<1>1. /\ tool \in ToolCalls /\ InGit /\ tool.tool # "stat" /\ Len(answers) < Len(tool.paths)
      /\ TextAt(Path) = Blob(Path)
  BY DEF ToolIsTyped, GitAnswer, Waiting, TextAt, InGit
<1>2. CASE Blob(Path) = {}
  <2>1. Answer(Failure("not_found")) /\ Failure("not_found").failed
    BY <1>2 DEF GitAnswer, Failure
  <2>2. QED BY <1>1, <1>2, <2>1 DEF Fits
<1>3. CASE Blob(Path) # {}
  <2>1. PICK text \in Blob(Path) : Answer(OfBlob(text))
    BY <1>3 DEF GitAnswer
  <2>2. text \in FileText
    BY BlobIsOne
  <2> DEFINE e == OfBlob(text)
  <2>3. Unreadable(Path, text) <=> tool.tool = "lines" /\ tool.start > Len(text)
    BY <1>1 DEF Unreadable, InGit
  <2>4. Suits(e, Path, text)
    <3>1. CASE tool.tool = "wc"
      <4>1. e = Counted(GitCounts(text)) /\ ~Unreadable(Path, text)
        BY <2>3, <3>1 DEF OfBlob
      <4>2. ~e.failed /\ CountsAreOf(e.counts, text)
        BY <2>2, <4>1, SplitCounts, CountsWanted
      <4> HIDE DEF e
      <4>3. QED BY <3>1, <4>1, <4>2 DEF Suits
    <3>2. CASE tool.tool = "checksum"
      <4>1. e = Checksummed(text) /\ ~Unreadable(Path, text)
        BY <2>3, <3>2 DEF OfBlob
      <4>2. ~e.failed /\ e.of = Bytes(text) /\ e.size = Len(e.of)
        BY <4>1 DEF Checksummed, Size
      <4> HIDE DEF e
      <4>3. QED BY <3>2, <4>1, <4>2 DEF Suits
    <3>3. CASE tool.tool = "hexdump"
      <4> DEFINE bytes == Bytes(text)
                 data == IF PastEnd(Len(bytes)) THEN <<>> ELSE ReadFull(bytes, ClampLength(tool.length))
      <4>1. e = GitDump(bytes) /\ ~Unreadable(Path, text)
        BY <2>3, <3>3 DEF OfBlob
      <4>2. bytes \in Seq(Nat)
        BY <2>2, SizeType
      <4> HIDE DEF bytes
      <4>3. tool.offset >= 0 => GitDump(bytes) = Dump(Len(bytes), data)
        BY <1>1, ClampType DEF GitDump, ReadFull, Most
      <4> HIDE DEF data
      <4>4. tool.offset >= 0 => ~Dump(Len(bytes), data).failed /\ DumpIsOf(Dump(Len(bytes), data), bytes)
        BY <1>1, <4>2, DumpIsRight DEF data
      <4>5. tool.offset >= 0 => ~e.failed /\ DumpIsOf(e, bytes)
        BY <4>1, <4>3, <4>4
      <4> HIDE DEF e
      <4>6. QED BY <3>3, <4>1, <4>5 DEF Suits, bytes
    <3>4. CASE tool.tool = "lines"
      <4>1. e = GitLines(text, tool.start, tool.end)
        BY <3>4 DEF OfBlob
      <4>2. tool.start \in Int /\ Len(text) \in Nat
        BY <1>1, <2>2, ToolCallsAssumption, LineType
      <4> HIDE DEF e
      <4>3. CASE tool.start > Len(text)
        <5>1. Most(tool.start - 1, 0) >= Len(text) /\ ~(Most(tool.start - 1, 0) < Len(text))
          BY <4>2, <4>3 DEF Most
        <5>2. GitLines(text, tool.start, tool.end) = Failure("out_of_range")
          BY <5>1 DEF GitLines
        <5>3. e.failed
          BY <4>1, <5>2 DEF Failure
        <5>4. QED BY <2>3, <3>4, <4>3, <5>3 DEF Suits
      <4>4. CASE ~(tool.start > Len(text))
        <5>1. tool.start <= Len(text)
          BY <4>2, <4>4
        <5>2. ForwardRange => ~e.failed /\ LinesAreOf(e, text, FALSE)
          BY <1>1, <2>2, <4>1, <5>1, RangeIsSplit
        <5>3. IsGitPath(Path)
          BY <1>1 DEF InGit
        <5>4. ForwardRange => ~e.failed /\ LinesAreOf(e, text, ~IsGitPath(Path))
          BY <5>2, <5>3, LinesOfEither
        <5>5. QED BY <2>3, <3>4, <4>4, <5>4 DEF Suits
      <4>5. QED BY <4>3, <4>4
    <3>5. CASE tool.tool \notin {"wc", "checksum", "hexdump", "lines"}
      <4>1. tool.tool = "whole"
        BY <1>1, <3>5, ToolCallsAssumption DEF Tools
      <4>2. tool.paths[1] = Path /\ tool.start = 1 /\ tool.end = 0
        <5>1. Len(tool.paths) = 1 /\ tool.start = 1 /\ tool.end = 0
          BY <1>1, <4>1, ToolCallsAssumption
        <5>2. Len(answers) \in Nat
          BY LenProperties DEF ToolIsTyped
        <5>3. Len(answers) + 1 = 1
          BY <1>1, <5>1, <5>2
        <5>4. QED BY <5>1, <5>3 DEF Path
      <4>3. e = GitWhole(text) /\ ~Unreadable(Path, text)
        BY <2>3, <4>1 DEF OfBlob
      <4> HIDE DEF e
      <4>4. ~e.failed /\ LinesAreOf(e, text, FALSE)
        BY <2>2, <4>2, <4>3, AllIsSplit
      <4>5. IsGitPath(Path)
        BY <1>1 DEF InGit
      <4>6. ForwardRange => ~e.failed /\ LinesAreOf(e, text, ~IsGitPath(Path))
        BY <4>4, <4>5, LinesOfEither
      <4>7. QED BY <4>1, <4>3, <4>6 DEF Suits
    <3>6. QED BY <3>1, <3>2, <3>3, <3>4, <3>5
  <2>5. QED BY <1>1, <2>1, <2>4 DEF Fits
<1>4. QED BY <1>2, <1>3

LEMMA HereIsText ==
  ASSUME ToolIsTyped, ~InGit, Path \notin RefusedFiles, Len(answers) < Len(tool.paths)
  PROVE  There => Here \in FileText /\ Here \in TextAt(Path)
<1>1. tool \in ToolCalls /\ ~IsGitPath(Path) /\ TextAt(Path) = {Here} \ {noText}
  BY DEF ToolIsTyped, TextAt, InGit, Here
<1>2. Path \in Files
  <2>1. Len(answers) \in Nat /\ Len(tool.paths) \in Nat
    BY <1>1, LenProperties, ToolCallsAssumption DEF ToolIsTyped
  <2>2. Len(answers) + 1 \in 1..Len(tool.paths)
    BY <2>1
  <2>3. QED BY <1>1, <2>2, ToolCallsAssumption DEF Path
<1>3. Here \in FileContents \cup {noText}
  BY <1>2 DEF ToolIsTyped, Here
<1>4. There => IsText(Here)
  BY <1>3, FileContentsAssumption DEF There
<1>5. QED BY <1>1, <1>4, TextsOfFiles DEF There

LEMMA DiskAnswerFits ==
  ASSUME ToolIsTyped, OnDisk, tool.tool # "stat",
         Missing \/ WcStat \/ WcScan \/ ChecksumRead \/ HexdumpStat \/ LinesStat
  PROVE  (\E e : Answer(e) /\ Fits(e, Path)) \/ (Hold(Here) /\ SeesItsFile)
<1>1. /\ tool \in ToolCalls /\ ~InGit /\ Len(answers) < Len(tool.paths) /\ ~IsGitPath(Path)
      /\ Path \notin RefusedFiles /\ TextAt(Path) = {Here} \ {noText}
  BY DEF ToolIsTyped, OnDisk, Waiting, TextAt, InGit, Here
<1>2. There => Here \in FileText /\ Here \in TextAt(Path)
  BY <1>1, HereIsText
<1>3. CASE Missing
  <2>1. Answer(Failure("not_found")) /\ Failure("not_found").failed /\ TextAt(Path) = {}
    BY <1>1, <1>3 DEF Missing, Failure, There
  <2>2. QED BY <2>1 DEF Fits
<1>4. CASE WcStat
  <2> DEFINE e == [failed |-> FALSE, counts |-> [f \in Flags |-> Size(Here)]]
  <2>1. /\ Answer(e) /\ tool.tool = "wc" /\ Flags = {"bytes"} /\ There
    BY <1>4 DEF WcStat
  <2>2. ~Unreadable(Path, Here)
    BY <2>1 DEF Unreadable
  <2>3. ~e.failed /\ e.counts = [f \in Flags |-> Size(Here)]
    OBVIOUS
  <2> HIDE DEF e
  <2>4. CountsAreOf(e.counts, Here)
    BY <2>1, <2>3 DEF CountsAreOf
  <2>5. Suits(e, Path, Here)
    BY <2>1, <2>2, <2>3, <2>4 DEF Suits
  <2>6. QED BY <1>2, <2>1, <2>5 DEF Fits
<1>5. CASE WcScan
  <2>1. /\ tool.tool = "wc" /\ Flags # {"bytes"} /\ There
        /\ IF TooLong(Here) THEN Answer(Failure("too_long"))
           ELSE IF "bytes" \in Flags THEN Hold(Here) ELSE Answer(Counted(FsCounts(Here)))
    BY <1>5 DEF WcScan
  <2>2. CASE TooLong(Here)
    <3> DEFINE e == Failure("too_long")
    <3>1. Answer(e) /\ e.failed /\ Unreadable(Path, Here)
      BY <1>1, <2>1, <2>2 DEF Failure, Unreadable
    <3> HIDE DEF e
    <3>2. Suits(e, Path, Here)
      BY <2>1, <3>1 DEF Suits
    <3>3. QED BY <1>2, <2>1, <3>1, <3>2 DEF Fits
  <2>3. CASE ~TooLong(Here) /\ "bytes" \in Flags
    BY <1>1, <2>1, <2>3 DEF SeesItsFile
  <2>4. CASE ~TooLong(Here) /\ "bytes" \notin Flags
    <3> DEFINE e == Counted(FsCounts(Here))
    <3>1. Answer(e) /\ ~Unreadable(Path, Here)
      BY <2>1, <2>4 DEF Unreadable
    <3>2. ~e.failed /\ CountsAreOf(e.counts, Here)
      BY <1>2, <2>1, <2>4, ScannedCounts, CountsWanted
    <3> HIDE DEF e
    <3>3. Suits(e, Path, Here)
      BY <2>1, <3>1, <3>2 DEF Suits
    <3>4. QED BY <1>2, <2>1, <3>1, <3>3 DEF Fits
  <2>5. QED BY <2>2, <2>3, <2>4
<1>6. CASE ChecksumRead
  <2> DEFINE e == Checksummed(Here)
  <2>1. Answer(e) /\ tool.tool = "checksum" /\ There
    BY <1>6 DEF ChecksumRead
  <2>2. ~e.failed /\ e.of = Bytes(Here) /\ e.size = Len(e.of)
    BY DEF Checksummed, Size
  <2>3. ~Unreadable(Path, Here)
    BY <2>1 DEF Unreadable
  <2> HIDE DEF e
  <2>4. Suits(e, Path, Here)
    BY <2>1, <2>2, <2>3 DEF Suits
  <2>5. QED BY <1>2, <2>1, <2>4 DEF Fits
<1>7. CASE HexdumpStat
  <2>1. /\ tool.tool = "hexdump" /\ There
        /\ IF PastEnd(Size(Here)) THEN Answer(Dump(Size(Here), <<>>)) ELSE Hold(Here)
    BY <1>7 DEF HexdumpStat
  <2>2. CASE PastEnd(Size(Here))
    <3> DEFINE bytes == Bytes(Here)
               e == Dump(Len(bytes), <<>>)
    <3>1. Answer(e) /\ PastEnd(Len(bytes)) /\ bytes \in Seq(Nat)
      BY <1>2, <2>1, <2>2, SizeType DEF Size
    <3>2. ~Unreadable(Path, Here)
      BY <2>1 DEF Unreadable
    <3> HIDE DEF bytes
    <3>3. tool.offset >= 0 => ~e.failed /\ DumpIsOf(e, bytes)
      BY <1>1, <3>1, DumpIsRight
    <3> HIDE DEF e
    <3>4. Suits(e, Path, Here)
      BY <2>1, <3>2, <3>3 DEF Suits, bytes
    <3>5. QED BY <1>2, <2>1, <3>1, <3>4 DEF Fits
  <2>3. CASE ~PastEnd(Size(Here))
    BY <1>1, <2>1, <2>3 DEF SeesItsFile
  <2>4. QED BY <2>2, <2>3
<1>8. CASE LinesStat
  <2>1. tool.tool = "lines" /\ There /\ Hold(Here)
    BY <1>8 DEF LinesStat
  <2>2. QED BY <1>1, <2>1 DEF SeesItsFile
<1>9. QED BY <1>3, <1>4, <1>5, <1>6, <1>7, <1>8

LEMMA SecondAnswerFits ==
  ASSUME ToolIsTyped, SawItsFile, tphase = "second", WcSize \/ HexdumpRead \/ LinesRead
  PROVE  \E e : Answer(e) /\ Fits(e, Path)
<1>1. /\ tool \in ToolCalls /\ Len(answers) < Len(tool.paths) /\ ~IsGitPath(Path)
      /\ held = Here /\ There /\ Path \notin RefusedFiles /\ TextAt(Path) = {Here} \ {noText}
      /\ tool.tool = "wc" => ~TooLong(Here) /\ Flags # {"bytes"}
      /\ tool.tool = "hexdump" => ~PastEnd(Size(Here))
  BY DEF ToolIsTyped, SawItsFile, SeesItsFile, TextAt, InGit, Here
<1>2. Here \in FileText /\ Here \in TextAt(Path)
  BY <1>1, HereIsText DEF InGit
<1>3. CASE WcSize
  <2> DEFINE c == [FsCounts(Here) EXCEPT !.bytes = Size(Here)]
             e == Counted(c)
  <2>1. Answer(e) /\ tool.tool = "wc"
    BY <1>1, <1>3 DEF WcSize
  <2>2. CountsRight(FsCounts(Here), Here)
    BY <1>2, ScannedCounts
  <2>3. /\ c.lines = FsCounts(Here).lines /\ c.words = FsCounts(Here).words
        /\ c.chars = FsCounts(Here).chars /\ c.bytes = Size(Here)
    BY DEF FsCounts
  <2> HIDE DEF c
  <2>4. CountsRight(c, Here)
    BY <2>2, <2>3 DEF CountsRight
  <2>5. ~e.failed /\ CountsAreOf(e.counts, Here)
    BY <1>2, <2>3, <2>4, CountsWanted
  <2>6. ~Unreadable(Path, Here)
    BY <1>1, <2>1 DEF Unreadable
  <2> HIDE DEF e
  <2>7. Suits(e, Path, Here)
    BY <2>1, <2>5, <2>6 DEF Suits
  <2>8. QED BY <1>2, <2>1, <2>7 DEF Fits
<1>4. CASE HexdumpRead
  <2> DEFINE bytes == Bytes(Here)
             data == ReadFull(bytes, ClampLength(tool.length))
             e == Dump(Len(bytes), data)
  <2>1. Answer(e) /\ tool.tool = "hexdump" /\ ~PastEnd(Len(bytes)) /\ bytes \in Seq(Nat)
    BY <1>1, <1>2, <1>4, SizeType DEF HexdumpRead, Size
  <2>2. ~Unreadable(Path, Here)
    BY <2>1 DEF Unreadable
  <2> HIDE DEF bytes
  <2>3. data = IF PastEnd(Len(bytes)) THEN <<>> ELSE ReadFull(bytes, ClampLength(tool.length))
    BY <2>1
  <2> HIDE DEF data
  <2>4. tool.offset >= 0 => ~e.failed /\ DumpIsOf(e, bytes)
    BY <1>1, <2>1, <2>3, DumpIsRight
  <2> HIDE DEF e
  <2>5. Suits(e, Path, Here)
    BY <2>1, <2>2, <2>4 DEF Suits, bytes
  <2>6. QED BY <1>2, <2>1, <2>5 DEF Fits
<1>5. CASE LinesRead
  <2>1. /\ tool.tool = "lines"
        /\ Answer(IF TooLong(Here) THEN Failure("too_long") ELSE ReadLines(Here, tool.start, tool.end))
    BY <1>1, <1>5 DEF LinesRead
  <2>2. CASE TooLong(Here)
    <3> DEFINE e == Failure("too_long")
    <3>1. Answer(e) /\ e.failed /\ Unreadable(Path, Here)
      BY <1>1, <2>1, <2>2 DEF Failure, Unreadable
    <3> HIDE DEF e
    <3>2. Suits(e, Path, Here)
      BY <2>1, <3>1 DEF Suits
    <3>3. QED BY <1>2, <3>1, <3>2 DEF Fits
  <2>3. CASE ~TooLong(Here)
    <3> DEFINE e == ReadLines(Here, tool.start, tool.end)
    <3>1. Answer(e) /\ ~Unreadable(Path, Here)
      BY <1>1, <2>1, <2>3 DEF Unreadable
    <3>2. ForwardRange => ~e.failed /\ LinesAreOf(e, Here, TRUE)
      BY <1>1, <1>2, <2>1, RangeIsRead
    <3> HIDE DEF e
    <3>3. ForwardRange => ~e.failed /\ LinesAreOf(e, Here, ~IsGitPath(Path))
      BY <1>1, <3>2, LinesOfEither
    <3>4. Suits(e, Path, Here)
      BY <2>1, <3>1, <3>3 DEF Suits
    <3>5. QED BY <1>2, <3>1, <3>4 DEF Fits
  <2>4. QED BY <2>2, <2>3
<1>6. QED BY <1>3, <1>4, <1>5

LEMMA FitsStays ==
  ASSUME UNCHANGED <<tool, disk>>
  PROVE  \A e, p : Fits(e, p)' <=> Fits(e, p)
<1>1. tool' = tool /\ disk' = disk
  OBVIOUS
<1>2. Flags' = Flags
  BY <1>1 DEF Flags
<1>3. \A c, t : CountsAreOf(c, t)' <=> CountsAreOf(c, t)
  BY <1>2 DEF CountsAreOf
<1>4. \A e, b : DumpIsOf(e, b)' <=> DumpIsOf(e, b)
  BY <1>1 DEF DumpIsOf
<1>5. ForwardRange' <=> ForwardRange
  BY <1>1 DEF ForwardRange
<1>6. \A e, t, f : LinesAreOf(e, t, f)' <=> LinesAreOf(e, t, f)
  BY <1>1, <1>5 DEF LinesAreOf
<1>7. \A p, t : Unreadable(p, t)' <=> Unreadable(p, t)
  BY <1>1, <1>2 DEF Unreadable
<1>8. \A p : TextAt(p)' = TextAt(p)
  BY <1>1 DEF TextAt
<1>9. \A e, p, t : Suits(e, p, t)' <=> Suits(e, p, t)
  BY <1>1, <1>3, <1>4, <1>5, <1>6, <1>7 DEF Suits
<1>10. QED BY <1>8, <1>9 DEF Fits

LEMMA AnswerKeepsFit ==
  ASSUME ToolIsTyped, AnswersFit, NEW e, Answer(e), Fits(e, Path) \/ tool.tool = "stat"
  PROVE  AnswersFit'
<1>1. answers' = Append(answers, e) /\ tphase' = "path" /\ UNCHANGED <<tool, disk, toolWrites>>
  BY DEF Answer
<1>2. CASE toolWrites # 0 \/ tool.tool = "stat"
  BY <1>1, <1>2 DEF AnswersFit
<1>3. CASE toolWrites = 0 /\ tool.tool # "stat"
  <2>1. \A n \in 1..Len(answers) : Fits(answers[n], tool.paths[n])
    BY <1>3 DEF AnswersFit
  <2>2. PICK S : answers \in Seq(S)
    BY DEF ToolIsTyped
  <2>3. answers \in Seq(S \cup {e}) /\ e \in S \cup {e}
    BY <2>2, SeqMonotonic
  <2>4. /\ Len(answers) \in Nat /\ Len(answers') = Len(answers) + 1 /\ answers'[Len(answers) + 1] = e
        /\ \A n \in 1..Len(answers) : answers'[n] = answers[n]
    BY <1>1, <2>3, AppendProperties, LenProperties
  <2>5. \A n \in 1..Len(answers') : Fits(answers'[n], tool.paths[n])
    <3> SUFFICES ASSUME NEW n \in 1..Len(answers') PROVE Fits(answers'[n], tool.paths[n])
      OBVIOUS
    <3>1. n \in 1..Len(answers) \/ n = Len(answers) + 1
      BY <2>4
    <3>2. CASE n \in 1..Len(answers)
      BY <2>1, <2>4, <3>2
    <3>3. CASE n = Len(answers) + 1
      BY <1>3, <2>4, <3>3 DEF Path
    <3>4. QED BY <3>1, <3>2, <3>3
  <2>6. \A n \in 1..Len(answers') : \E x, p : x = answers'[n] /\ p = tool'.paths[n] /\ Fits(x, p)'
    BY <1>1, <2>5, FitsStays
  <2>7. QED BY <1>1, <2>6 DEF AnswersFit
<1>4. QED BY <1>2, <1>3

\* Where nothing of the call changes, what fits goes on fitting.
LEMMA StayingKeepsFit ==
  ASSUME AnswersFit, UNCHANGED <<tool, disk, answers, toolWrites>>,
         tphase' = "second" => toolWrites # 0 \/ tool.tool = "stat" \/ SawItsFile'
  PROVE  AnswersFit'
<1>1. CASE toolWrites # 0 \/ tool.tool = "stat"
  BY <1>1 DEF AnswersFit
<1>2. CASE toolWrites = 0 /\ tool.tool # "stat"
  <2>1. \A n \in 1..Len(answers') : Fits(answers'[n], tool'.paths[n])
    BY <1>2 DEF AnswersFit
  <2>2. \A n \in 1..Len(answers') : \E x, p : x = answers'[n] /\ p = tool'.paths[n] /\ Fits(x, p)'
    BY <2>1, FitsStays
  <2>3. tphase' = "second" => SawItsFile'
    BY <1>2
  <2>4. QED BY <2>2, <2>3 DEF AnswersFit
<1>3. QED BY <1>1, <1>2

LEMMA HoldKeepsFit ==
  ASSUME AnswersFit, Hold(Here), SeesItsFile
  PROVE  AnswersFit'
<1>1. held' = Here /\ UNCHANGED <<tool, disk, answers, toolWrites>>
  BY DEF Hold
<1>2. Path' = Path /\ Flags' = Flags
  BY <1>1 DEF Path, Flags
<1>3. Here' = Here
  BY <1>1, <1>2 DEF Here
<1>4. SeesItsFile'
  BY <1>1, <1>2, <1>3 DEF SeesItsFile, There, InGit, PastEnd
<1>5. SawItsFile'
  BY <1>1, <1>3, <1>4 DEF SawItsFile
<1>6. QED BY <1>1, <1>5, StayingKeepsFit

LEMMA InitIsFit == Init => AnswersFit
<1> SUFFICES ASSUME Init PROVE AnswersFit
  OBVIOUS
<1>1. ToolsInit("idle") \/ ToolsInit("off")
  BY DEF Init, NoTool, CallsInit
<1>2. tphase \in {"idle", "off"} /\ answers = <<>>
  BY <1>1 DEF ToolsInit
<1>3. QED BY <1>2, EmptySeq DEF AnswersFit

LEMMA ToolStepKeepsFit ==
  ASSUME ToolIsTyped, AnswersFit, FileToolsNext
  PROVE  AnswersFit'
<1>1. CASE Start \/ Done
  <2>1. UNCHANGED <<tool, disk, answers, toolWrites>> /\ tphase' # "second"
    BY <1>1 DEF Start, Done
  <2>2. QED BY <2>1, StayingKeepsFit
<1>2. CASE Write
  <2>1. toolWrites' = toolWrites + 1 /\ toolWrites \in Nat
    BY <1>2, FileToolsBoundsAssumption DEF Write, ToolIsTyped
  <2>2. toolWrites' # 0
    BY <2>1
  <2>3. QED BY <2>2 DEF AnswersFit
<1>3. CASE StatAnswer \/ DeniedAnswer
  <2>1. PICK e : Answer(e) /\ (tool.tool = "stat" \/ (e = Failure("denied") /\ DeniedAnswer))
    BY <1>3, Zenon DEF StatAnswer, DeniedAnswer
  <2>2. DeniedAnswer => TextAt(Path) = {} /\ Failure("denied").failed
    BY DEF DeniedAnswer, TextAt, InGit, Failure
  <2>3. QED BY <2>1, <2>2, AnswerKeepsFit DEF Fits
<1>4. CASE toolWrites # 0 /\ ~Start /\ ~Done /\ ~Write
  <2>1. toolWrites' = toolWrites
    BY <1>4 DEF FileToolsNext, GitAnswer, StatAnswer, DeniedAnswer, Missing, WcStat, WcScan, WcSize, ChecksumRead,
                HexdumpStat, HexdumpRead, LinesStat, LinesRead, Answer, Hold
  <2>2. QED BY <1>4, <2>1 DEF AnswersFit
<1>5. CASE toolWrites = 0 /\ (WcSize \/ HexdumpRead \/ LinesRead)
  <2>1. tphase = "second" /\ tool.tool # "stat"
    BY <1>5 DEF WcSize, HexdumpRead, LinesRead
  <2>2. SawItsFile
    BY <1>5, <2>1 DEF AnswersFit
  <2>3. PICK e : Answer(e) /\ Fits(e, Path)
    BY <1>5, <2>1, <2>2, SecondAnswerFits
  <2>4. QED BY <2>3, AnswerKeepsFit
<1>6. CASE GitAnswer
  <2>1. PICK e : Answer(e) /\ Fits(e, Path)
    BY <1>6, GitAnswerFits
  <2>2. QED BY <2>1, AnswerKeepsFit
<1>7. CASE Missing \/ WcStat \/ WcScan \/ ChecksumRead \/ HexdumpStat \/ LinesStat
  <2>1. OnDisk /\ tool.tool # "stat"
    BY <1>7 DEF Missing, WcStat, WcScan, ChecksumRead, HexdumpStat, LinesStat
  <2>2. (\E e : Answer(e) /\ Fits(e, Path)) \/ (Hold(Here) /\ SeesItsFile)
    BY <1>7, <2>1, DiskAnswerFits
  <2>3. CASE \E e : Answer(e) /\ Fits(e, Path)
    BY <2>3, AnswerKeepsFit
  <2>4. CASE Hold(Here) /\ SeesItsFile
    BY <2>4, HoldKeepsFit
  <2>5. QED BY <2>2, <2>3, <2>4
<1>8. QED BY <1>1, <1>2, <1>3, <1>4, <1>5, <1>6, <1>7 DEF FileToolsNext

LEMMA NextKeepsFit ==
  ASSUME ToolIsTyped, AnswersFit, [Next]_requestVars
  PROVE  AnswersFit'
<1>1. CASE UNCHANGED toolVars
  <2>1. /\ UNCHANGED <<tool, disk, answers, toolWrites, held, tphase>>
    BY <1>1 DEF toolVars
  <2>2. tphase = "second" => toolWrites # 0 \/ tool.tool = "stat" \/ SawItsFile
    BY DEF AnswersFit
  <2>3. Path' = Path /\ Flags' = Flags
    BY <2>1 DEF Path, Flags
  <2>4. Here' = Here
    BY <2>1, <2>3 DEF Here
  <2>5. SawItsFile' <=> SawItsFile
    BY <2>1, <2>3, <2>4 DEF SawItsFile, SeesItsFile, There, InGit, PastEnd
  <2>6. QED BY <2>1, <2>2, <2>5, StayingKeepsFit
<1>2. CASE FileToolsNext
  BY <1>2, ToolStepKeepsFit
<1>3. QED
  BY <1>1, <1>2 DEF Next, requestVars, callVars, DiffStep, CatStep, CallStep, CallsNext,
                    FileStep, Reply, AnswerHook, AnswerConfig, AnswerPathfind, AnswerSorted, AnswerRevParse

LEMMA TextsAreFew ==
  ASSUME NEW path
  PROVE  \A a, b \in TextAt(path) : a = b
<1>1. CASE IsGitPath(path)
  BY <1>1, BlobIsOne DEF TextAt
<1>2. CASE ~IsGitPath(path)
  BY <1>2 DEF TextAt
<1>3. QED BY <1>1, <1>2

LEMMA CountedSize ==
  ASSUME NEW e, NEW path, Fits(e, path), tool.tool = "wc", "bytes" \in Flags
  PROVE  (IF e.failed THEN 0 ELSE e.counts["bytes"]) = (IF e.failed THEN 0 ELSE Size(CHOOSE t \in TextAt(path) : TRUE))
<1>1. CASE e.failed
  BY <1>1
<1>2. CASE ~e.failed
  <2>1. PICK text \in TextAt(path) : Suits(e, path, text)
    BY <1>2 DEF Fits
  <2>2. ~Unreadable(path, text)
    BY <1>2, <2>1 DEF Suits
  <2>3. CountsAreOf(e.counts, text)
    BY <2>1, <2>2 DEF Suits
  <2>4. e.counts["bytes"] = Size(text)
    BY <2>3 DEF CountsAreOf
  <2>5. (CHOOSE t \in TextAt(path) : TRUE) = text
    <3>1. (CHOOSE t \in TextAt(path) : TRUE) \in TextAt(path)
      BY <2>1
    <3>2. QED BY <2>1, <3>1, TextsAreFew
  <2>6. QED BY <1>2, <2>4, <2>5
<1>3. QED BY <1>1, <1>2

LEMMA FitIsExact == ToolIsTyped /\ AnswersFit => FileAnswersAreExact
<1> SUFFICES ASSUME ToolIsTyped, AnswersFit, toolWrites = 0, tool.tool # "stat"
             PROVE  FileAnswersAreExact
  BY DEF FileAnswersAreExact
<1>1. \A n \in 1..Len(answers) : Fits(answers[n], tool.paths[n])
  BY DEF AnswersFit
<1>2. DOMAIN answers = 1..Len(answers)
  BY LenProperties DEF ToolIsTyped
<1>3. ASSUME tool.tool = "wc", "bytes" \in Flags
      PROVE  WcTotal(answers).bytes = SumOfSeq([n \in DOMAIN answers |-> IF answers[n].failed THEN 0 ELSE
                                           Size(CHOOSE t \in TextAt(tool.paths[n]) : TRUE)])
  <2> DEFINE summed == [n \in DOMAIN answers |-> IF answers[n].failed THEN 0 ELSE answers[n].counts["bytes"]]
             wanted == [n \in DOMAIN answers |-> IF answers[n].failed THEN 0 ELSE
                                           Size(CHOOSE t \in TextAt(tool.paths[n]) : TRUE)]
  <2>1. ASSUME NEW n \in DOMAIN answers PROVE summed[n] = wanted[n]
    <3>1. Fits(answers[n], tool.paths[n])
      BY <1>1, <1>2
    <3>2. QED BY <1>3, <3>1, CountedSize
  <2>2. summed = wanted
    <3>1. DOMAIN summed = DOMAIN answers /\ DOMAIN wanted = DOMAIN answers
          /\ summed = [n \in DOMAIN summed |-> summed[n]] /\ wanted = [n \in DOMAIN wanted |-> wanted[n]]
      OBVIOUS
    <3> HIDE DEF summed, wanted
    <3>2. QED BY <2>1, <3>1
  <2>3. WcTotal(answers).bytes = SumOfSeq(summed)
    BY <1>3 DEF WcTotal
  <2>4. QED BY <2>2, <2>3
<1>4. \A n \in DOMAIN answers :
         \/ TextAt(tool.paths[n]) = {} /\ answers[n].failed
         \/ \E text \in TextAt(tool.paths[n]) : Suits(answers[n], tool.paths[n], text)
  BY <1>1, <1>2 DEF Fits
<1>5. QED BY <1>3, <1>4 DEF FileAnswersAreExact, Suits

\* Whatever of the two sources it is read from, a file that does not change
\* while it is asked for is counted, digested, dumped and cut as its bytes
\* say, and a total is that of the files that could be read: what fsWc,
\* gitWc, Checksum, readLines and GitRead answer, and Hexdump from an offset
\* that is not negative.
THEOREM FileAnswersAreRight == Spec => []FileAnswersAreExact
<1>1. Init => DiffIInv /\ DiffIsTyped /\ ToolIsTyped /\ AnswersFit
  BY InitIsDiff, InitIsTyped, InitIsFit
<1>2. DiffIInv /\ DiffIsTyped /\ ToolIsTyped /\ AnswersFit /\ [Next]_requestVars
        => (DiffIInv /\ DiffIsTyped /\ ToolIsTyped /\ AnswersFit)'
  BY NextKeepsDiff, NextIsTyped, NextKeepsFit
<1>3. QED BY <1>1, <1>2, FitIsExact, PTL DEF Spec

-----------------------------------------------------------------------------
\* What a suggested read prints.

LEMMA CountsType ==
  ASSUME NEW args \in Seq(Words)
  PROVE  Counts(args) \in Seq(Int)
<1> DEFINE e(n) == CASE Values(args, {"-n"})[n] -> Atoi(args[n])
                     [] ~Values(args, {"-n"})[n] /\ args[n].kind \in {"attached", "dash"} -> <<args[n].from>>
                     [] OTHER -> <<>>
           each == [n \in DOMAIN args |-> e(n)]
<1>1. Len(args) \in Nat /\ DOMAIN args = 1..Len(args) /\ \A n \in 1..Len(args) : args[n] \in Words
  BY LenProperties, ElementOfSeq
<1>2. \A x \in Int : <<x>> \in Seq(Int)
  OBVIOUS
<1>3. <<>> \in Seq(Int)
  BY EmptySeq
<1>4. ASSUME NEW n \in 1..Len(args) PROVE e(n) \in Seq(Int)
  <2>1. args[n].from \in Int /\ -args[n].from \in Int
    BY <1>1 DEF Words
  <2>2. <<args[n].from>> \in Seq(Int) /\ <<-args[n].from>> \in Seq(Int)
    BY <1>2, <2>1
  <2>3. Atoi(args[n]) \in {<<args[n].from>>, <<-args[n].from>>, <<>>}
    BY DEF Atoi
  <2>4. e(n) \in {Atoi(args[n]), <<args[n].from>>, <<>>}
    OBVIOUS
  <2> HIDE DEF e
  <2>5. QED BY <1>3, <2>2, <2>3, <2>4
<1>5. each = [n \in 1..Len(args) |-> e(n)]
  BY <1>1
<1>6. each \in Seq(Seq(Int))
  <2> HIDE DEF e, each
  <2>1. QED BY <1>1, <1>4, <1>5, IsASeq
<1>7. Counts(args) = FlattenSeq(<< <<>> >> \o each)
  BY DEF Counts
<1> HIDE DEF each
<1>8. << <<>> >> \in Seq(Seq(Int))
  BY <1>3
<1>9. << <<>> >> \o each \in Seq(Seq(Int))
  BY <1>6, <1>8, ConcatProperties
<1>10. QED BY <1>7, <1>9, FlattenType

LEMMA OneCount ==
  ASSUME NEW args \in Seq(Words), Len(Counts(args)) <= 1
  PROVE  ParseHeadTailN(args) = CountOr10(args) /\ CountOr10(args) \in Int
<1> DEFINE s == Counts(args)
<1>1. s \in Seq(Int) /\ Len(s) \in Nat
  BY CountsType, LenProperties
<1> HIDE DEF s
<1>2. ParseHeadTailN(args) = (IF s = <<>> THEN 10 ELSE s[1]) /\ CountOr10(args) = IF s = <<>> THEN 10 ELSE s[Len(s)]
  BY DEF s, ParseHeadTailN, FirstOr, CountOr10, Last
<1>3. s # <<>> => Len(s) = 1 /\ s[1] \in Int
  <2>1. s # <<>> => Len(s) # 0
    BY <1>1, EmptySeq
  <2>2. Len(s) <= 1
    BY DEF s
  <2> DEFINE l == Len(s)
  <2>3. s # <<>> => l = 1 /\ 1 \in 1..l
    <3>1. l \in Nat /\ l <= 1 /\ (s # <<>> => l # 0)
      BY <1>1, <2>1, <2>2
    <3> HIDE DEF l
    <3>2. QED BY <3>1
  <2>4. \A n \in 1..Len(s) : s[n] \in Int
    BY <1>1, ElementOfSeq
  <2>5. QED BY <2>3, <2>4
<1>4. QED BY <1>2, <1>3

LEMMA RangeIsPrinted ==
  ASSUME NEW t \in FileText, NEW a \in Nat \ {0}, NEW b \in Nat, a <= b
  PROVE  LET lines == ScanLines(t)
             printed == SubSeq(lines, a, Least(b, Len(lines)))
         IN (printed # <<>> /\ printed[1] = <<>>) \/ ReadLines(t, a, b).data = printed
<1> DEFINE lines == ScanLines(t)
           total == Len(lines)
           stop == Most(a, b + 1)
           left == b > 0 /\ stop <= total
           upTo == IF left THEN Least(b, stop - 1) ELSE total
           printed == SubSeq(lines, a, Least(b, total))
<1>1. lines \in Seq(TextLine) /\ total \in Nat
  BY ScannedLines, LenProperties
<1>2. ReadLines(t, a, b).data = Collected(SubSeq(lines, Most(a, 1), upTo))
  BY DEF ReadLines
<1> HIDE DEF lines
<1>3. Most(a, 1) = a /\ stop = b + 1
  BY DEF Most
<1>4. upTo = Least(b, total)
  BY <1>1, <1>3 DEF Least
<1> HIDE DEF total, upTo
<1>5. Least(b, total) \in 0..total
  BY <1>1 DEF Least
<1>6. printed \in Seq(TextLine)
  BY <1>1, <1>5, PieceOfLines DEF total
<1>7. ReadLines(t, a, b).data = Collected(printed)
  BY <1>2, <1>3, <1>4
<1> HIDE DEF printed
<1>8. (printed # <<>> /\ printed[1] = <<>>) \/ Collected(printed) = printed
  <2>1. CASE Len(printed) > 0 => printed[1] # <<>>
    BY <1>6, <2>1, AllCollected
  <2>2. CASE Len(printed) > 0 /\ printed[1] = <<>>
    BY <2>2, EmptySeq
  <2>3. QED BY <2>1, <2>2
<1>9. QED BY <1>7, <1>8 DEF printed, total, lines

LEMMA ReadSays ==
  ASSUME NEW file, NEW a, NEW b
  PROVE  /\ ReadOf(file, a, b)[1].args.paths = <<file>>
         /\ ReadOf(file, a, b)[1].args.lines = <<a, b>> /\ ReadOf(file, a, b)[1].args.lines # <<>>
         /\ ReadOf(file, a, b) # NoSuggestion
BY DEF ReadOf, Suggestion, NoArgs, NoSuggestion

\* The lines a stage selects that is head or sed -n.
Cuts(stage, a, b) ==
  /\ a \in Nat \ {0} /\ b \in Nat /\ a <= b
  /\ \A lines : Len(lines) \in Nat => Selected(stage, lines) = SubSeq(lines, a, Least(b, Len(lines)))
  /\ \/ stage.name = "head" /\ a = 1 /\ b = CountOr10(stage.args) /\ b = ParseHeadTailN(stage.args)
     \/ stage.name = "sed" /\ SedRange(FirstOr(AfterN(stage.args), NoWord)) = <<a, b>>

LEMMA NumbersCut ==
  ASSUME NEW stage \in Stages, SelectsByNumber(stage), stage.name # "tail"
  PROVE  \E a, b : Cuts(stage, a, b)
<1> DEFINE args == stage.args
           script == FirstOr(AfterN(args), NoWord)
<1>1. args \in Seq(Words)
  BY DEF Stages
<1>2. CASE stage.name \in {"head", "tail"} /\ Len(Counts(args)) <= 1 /\ CountOr10(args) > 0
  <2> DEFINE k == CountOr10(args)
  <2>1. stage.name = "head" /\ k \in Nat \ {0} /\ 1 <= k /\ ParseHeadTailN(args) = k
    BY <1>1, <1>2, OneCount
  <2>2. \A lines : Selected(stage, lines) = SubSeq(lines, 1, Least(k, Len(lines)))
    BY <2>1 DEF Selected, HeadOf
  <2>3. Cuts(stage, 1, k)
    BY <2>1, <2>2 DEF Cuts
  <2>4. QED BY <2>3
<1>3. CASE /\ stage.name = "sed" /\ script.kind = "script" /\ script.from \in Nat \ {0}
           /\ script.to \in Nat /\ (script.to = 0 \/ script.to >= script.from)
  <2> DEFINE a == script.from
             b == IF script.to = 0 THEN script.from ELSE script.to
  <2>1. SedRange(script) = <<a, b>>
    BY <1>3 DEF SedRange
  <2>2. AfterN(args) # <<>> /\ script = AfterN(args)[1]
    BY <1>3 DEF FirstOr, NoWord, Name, Word
  <2>3. a \in Nat \ {0} /\ b \in Nat /\ a <= b /\ Most(a, script.to) = b
    BY <1>3 DEF Most
  <2>4. \A lines : Selected(stage, lines) = SubSeq(lines, a, Least(Most(a, script.to), Len(lines)))
    BY <1>3, <2>2 DEF Selected, SedOf
  <2> HIDE DEF a, b
  <2>5. Cuts(stage, a, b)
    BY <1>3, <2>1, <2>3, <2>4 DEF Cuts
  <2>6. QED BY <2>5
<1>4. QED BY <1>2, <1>3 DEF SelectsByNumber

LEMMA SuggestionPrints ==
  ASSUME NEW c \in HookCalls, SelectsLines(c, Analyze(c)), Selector(c).name # "tail", NEW t \in HookTexts
  PROVE  ReadPrints(c, Analyze(c), t)
<1> DEFINE s == Analyze(c)
           stage == Selector(c)
           args == stage.args
<1>1. /\ c.stages \in Seq(Stages)
      /\ c.shape = "call" => Len(c.stages) = 1
      /\ c.shape = "pipe" => Len(c.stages) \in {2, 3}
  BY HookCallsAssumption
<1>2. (Parses1(c) \/ Parses2(c)) /\ s = AnalyzeStage(c.stages[1], ModifierOf(c))
  BY DEF SelectsLines, Analyze
<1>3. stage \in Stages
  <2>1. \A n \in 1..Len(c.stages) : c.stages[n] \in Stages
    BY <1>1, ElementOfSeq
  <2>2. QED BY <1>1, <1>2, <2>1 DEF Parses1, Parses2, Selector
<1>4. PICK a, b : Cuts(stage, a, b)
  BY <1>3, NumbersCut DEF SelectsLines
<1>5. s[1].args.lines = <<a, b>> /\ s[1].args.paths = <<FileRead(c)>>
  <2>1. CASE Parses1(c)
    <3>1. c.shape = "call" /\ stage = c.stages[1] /\ ModifierOf(c) = NoModifier
      BY <2>1 DEF Parses1, Parses2, ModifierOf, Selector
    <3>2. s = AnalyzeStage(stage, NoModifier) /\ s # NoSuggestion
      BY <1>2, <3>1 DEF SelectsLines
    <3>3. CASE stage.name = "head"
      <4>1. s = SuggestHead(args, NoModifier)
        BY <3>2, <3>3 DEF AnalyzeStage, Digests
      <4>2. s = ReadOf(FileOf(args), 1, CountOr10(args))
        BY <3>2, <4>1 DEF SuggestHead
      <4>3. a = 1 /\ b = CountOr10(args)
        BY <1>4, <3>3 DEF Cuts
      <4>4. FileRead(c) = FileOf(args)
        <5> DEFINE named == Positional(args, {"-n"})
        <5>1. Len(named) = 1 /\ FileRead(c) = named[1] /\ FileOf(args) = IF named = <<>> THEN NoWord ELSE named[1]
          BY <3>1, <3>3 DEF SelectsLines, OneFile, NamesFiles, FileRead, FirstNamed, FileOf, FirstOr
        <5> HIDE DEF named
        <5>2. QED BY <5>1, EmptySeq
      <4>5. QED BY <4>2, <4>3, <4>4, ReadSays
    <3>4. CASE stage.name = "sed"
      <4>1. s = SuggestSed(args, NoModifier)
        BY <3>2, <3>4 DEF AnalyzeStage, Digests
      <4> DEFINE range == SedRange(FirstOr(AfterN(args), NoWord))
      <4>2. s = ReadOf(AfterN(args)[2], range[1], range[2])
        BY <3>2, <4>1 DEF SuggestSed
      <4>3. range = <<a, b>>
        BY <1>4, <3>4 DEF Cuts
      <4> HIDE DEF range
      <4>4. range[1] = a /\ range[2] = b
        BY <4>3
      <4>5. FileRead(c) = AfterN(args)[2]
        BY <3>1, <3>4 DEF FileRead, FirstNamed
      <4>6. QED BY <4>2, <4>4, <4>5, ReadSays
    <3>5. QED BY <1>4, <3>3, <3>4 DEF Cuts
  <2>2. CASE Parses2(c)
    <3> DEFINE mod == PipeTailModifier(stage)
               files == NonFlags(c.stages[1].args)
    <3>1. c.shape = "pipe" /\ stage = c.stages[2] /\ ModifierOf(c) = mod /\ IsSet(mod)
      BY <2>2 DEF Parses2, ModifierOf, Selector
    <3>2. c.stages[1].name = "cat" /\ s # NoSuggestion
      BY <3>1 DEF SelectsLines, OneFile
    <3>3. s = SuggestCat(c.stages[1].args, mod)
      BY <1>2, <3>1, <3>2 DEF AnalyzeStage, Digests
    <3>4. \/ mod = [NoModifier EXCEPT !.head = b] /\ a = 1
          \/ mod = [NoModifier EXCEPT !.start = a, !.end = b]
      <4>1. CASE stage.name = "head"
        BY <1>4, <4>1 DEF Cuts, PipeTailModifier
      <4>2. CASE stage.name = "sed"
        <5> DEFINE range == SedRange(FirstOr(AfterN(args), NoWord))
        <5>1. range = <<a, b>>
          BY <1>4, <4>2 DEF Cuts
        <5>2. mod = ParseSedModifier(args)
          BY <4>2 DEF PipeTailModifier
        <5>3. mod = IF range = <<>> THEN NoModifier ELSE
                    IF range[1] <= 0 \/ range[2] <= 0 THEN NoModifier
                    ELSE IF range[1] = 1 THEN [NoModifier EXCEPT !.head = range[2]]
                    ELSE [NoModifier EXCEPT !.start = range[1], !.end = range[2]]
          BY <5>2 DEF ParseSedModifier
        <5> HIDE DEF range, mod
        <5>4. range # <<>> /\ range[1] = a /\ range[2] = b
          BY <5>1
        <5>5. a \in Nat \ {0} /\ b \in Nat /\ a <= b
          BY <1>4 DEF Cuts
        <5>6. ~(range[1] <= 0 \/ range[2] <= 0)
          BY <5>4, <5>5
        <5>7. QED BY <5>3, <5>4, <5>6
      <4>3. QED BY <1>4, <4>1, <4>2 DEF Cuts
    <3> HIDE DEF mod
    <3>5. a \in Nat \ {0} /\ b \in Nat /\ a <= b
      BY <1>4 DEF Cuts
    <3>6. \/ mod.head = b /\ mod.tail = 0 /\ mod.start = 0 /\ a = 1 /\ b > 0
          \/ mod.head = 0 /\ mod.tail = 0 /\ mod.start = a /\ mod.end = b /\ a > 0
      <4>1. b > 0
        BY <3>5
      <4>2. CASE mod = [NoModifier EXCEPT !.head = b] /\ a = 1
        BY <4>1, <4>2 DEF NoModifier
      <4>3. CASE mod = [NoModifier EXCEPT !.start = a, !.end = b]
        BY <3>5, <4>3 DEF NoModifier
      <4>4. QED BY <3>4, <4>2, <4>3
    <3>7. ~(files = <<>> \/ (IsSet(mod) /\ Len(files) # 1)) /\ Len(files) = 1
      BY <3>1, <3>2, <3>3 DEF SuggestCat
    <3>8. s = ReadOf(files[1], a, b)
      BY <3>3, <3>6, <3>7 DEF SuggestCat
    <3>9. FileRead(c) = files[1]
      BY <3>1 DEF FileRead
    <3> HIDE DEF s, files
    <3>10. s[1].args.lines = <<a, b>> /\ s[1].args.paths = <<files[1]>>
      BY <3>8, ReadSays
    <3>11. QED BY <3>9, <3>10
  <2>3. QED BY <1>2, <2>1, <2>2
<1>6. t \in FileText
  BY HookCallsAssumption, TextsOfFiles
<1> HIDE DEF s, stage
<1>7. Selected(stage, ScanLines(t)) = SubSeq(ScanLines(t), a, Least(b, Len(ScanLines(t))))
  <2>1. Len(ScanLines(t)) \in Nat
    BY <1>6, ScannedLines, LineCountType
  <2>2. QED BY <1>4, <2>1 DEF Cuts
<1>8. a \in Nat \ {0} /\ b \in Nat /\ a <= b
  BY <1>4 DEF Cuts
<1> DEFINE printed == SubSeq(ScanLines(t), a, Least(b, Len(ScanLines(t))))
<1>9. (printed # <<>> /\ printed[1] = <<>>) \/ ReadLines(t, a, b).data = printed
  BY <1>6, <1>8, RangeIsPrinted
<1> HIDE DEF printed
<1>10. Selected(stage, ScanLines(t)) = printed
  BY <1>7 DEF printed
<1>11. s[1].args.lines[1] = a /\ s[1].args.lines[2] = b /\ s[1].args.paths = <<FileRead(c)>>
  BY <1>5
<1>12. QED BY <1>9, <1>10, <1>11 DEF ReadPrints, s, stage

\* Behind a pipe, a suggestion is a range or has the limit of the head.
Carries(s, mod) == s[1].args.lines # <<>> \/ (s[1].args.limit = mod.head /\ mod.head > 0)

LEMMA ListedCarries ==
  ASSUME NEW name, NEW args, NEW mod, IsSet(mod), ~NotOnlyHead(mod), "limit" \in DOMAIN args
  PROVE  Carries(Listed(name, args, mod), mod)
BY DEF Carries, Listed, Suggestion, IsSet, NotOnlyHead

LEMMA SearchCarries ==
  ASSUME NEW args, NEW mod, IsSet(mod),
         NEW s \in {SuggestSearch(args, mod), SuggestFind(args, mod), SuggestList(args, mod)}, s # NoSuggestion
  PROVE  Carries(s, mod)
<1>1. CASE s = SuggestSearch(args, mod)
  <2>1. ~NotOnlyHead(mod)
    BY <1>1 DEF SuggestSearch
  <2>2. PICK x, y : s = Listed("aifr_search", [NoArgs EXCEPT !.pattern = x, !.paths = y], mod)
    BY <1>1, <2>1 DEF SuggestSearch
  <2> DEFINE given == [NoArgs EXCEPT !.pattern = x, !.paths = y]
  <2>3. "limit" \in DOMAIN given
    BY DEF NoArgs
  <2>4. s = Listed("aifr_search", given, mod)
    BY <2>2
  <2> HIDE DEF given
  <2>5. QED BY <2>1, <2>3, <2>4, ListedCarries
<1>2. CASE s = SuggestFind(args, mod)
  <2>1. ~NotOnlyHead(mod)
    BY <1>2 DEF SuggestFind
  <2>2. PICK x, y, z : s = Listed("aifr_find", [NoArgs EXCEPT !.paths = x, !.name = y, !.type = z], mod)
    BY <1>2, <2>1 DEF SuggestFind
  <2> DEFINE given == [NoArgs EXCEPT !.paths = x, !.name = y, !.type = z]
  <2>3. "limit" \in DOMAIN given
    BY DEF NoArgs
  <2>4. s = Listed("aifr_find", given, mod)
    BY <2>2
  <2> HIDE DEF given
  <2>5. QED BY <2>1, <2>3, <2>4, ListedCarries
<1>3. CASE s = SuggestList(args, mod)
  <2>1. ~NotOnlyHead(mod)
    BY <1>3 DEF SuggestList
  <2>2. PICK tl, x : s = Listed(tl, [NoArgs EXCEPT !.paths = x], mod)
    BY <1>3, <2>1 DEF SuggestList
  <2> DEFINE given == [NoArgs EXCEPT !.paths = x]
  <2>3. "limit" \in DOMAIN given
    BY DEF NoArgs
  <2>4. s = Listed(tl, given, mod)
    BY <2>2
  <2> HIDE DEF given
  <2>5. QED BY <2>1, <2>3, <2>4, ListedCarries
<1>4. QED BY <1>1, <1>2, <1>3

LEMMA LogCarries ==
  ASSUME NEW args, NEW mod, IsSet(mod), SuggestGitLog(args, mod) # NoSuggestion
  PROVE  Carries(SuggestGitLog(args, mod), mod)
<1>1. ~NotOnlyHead(mod) /\ mod.head > 0
  BY DEF SuggestGitLog, IsSet, NotOnlyHead
<1>2. SuggestGitLog(args, mod)[1].args.limit = mod.head
  BY <1>1 DEF SuggestGitLog, Suggestion, NoArgs
<1>3. QED BY <1>1, <1>2 DEF Carries

LEMMA PipeIsCarried ==
  ASSUME NEW stage, NEW mod, IsSet(mod), AnalyzeStage(stage, mod) # NoSuggestion
  PROVE  Carries(AnalyzeStage(stage, mod), mod)
<1> DEFINE s == AnalyzeStage(stage, mod)
           args == stage.args
<1>1. \/ s = SuggestCat(args, mod)
      \/ s = SuggestSearch(args, mod) \/ s = SuggestFind(args, mod) \/ s = SuggestList(args, mod)
      \/ s = SuggestGit(args, mod)
      \/ s = SuggestHead(args, mod) \/ s = SuggestTail(args, mod) \/ s = SuggestSed(args, mod)
      \/ s = SuggestWc(args, mod) \/ s = SuggestDiff(args, mod) \/ s = SuggestChecksum(stage.name, args, mod)
      \/ s = SuggestOne("aifr_stat", args, mod) \/ s = SuggestOne("aifr_hexdump", args, mod)
      \/ s = NoSuggestion
  <2>1. CASE stage.name \in {"cat", "head", "tail", "sed"}
    BY <2>1 DEF AnalyzeStage
  <2>2. CASE stage.name \in {"grep", "egrep", "fgrep", "rg", "find", "ls"}
    BY <2>2 DEF AnalyzeStage
  <2>3. CASE stage.name \in {"wc", "stat", "diff", "git"}
    BY <2>3 DEF AnalyzeStage, Digests
  <2>7. CASE stage.name \in {"hexdump", "xxd", "od"}
    BY <2>7 DEF AnalyzeStage
  <2>4. CASE stage.name \in Digests \cup {"shasum"}
    BY <2>4 DEF AnalyzeStage, Digests
  <2>5. CASE stage.name \notin {"cat", "head", "tail", "sed", "grep", "egrep", "fgrep", "rg", "find", "ls",
                                "wc", "stat", "hexdump", "xxd", "od", "diff", "git"} \cup Digests \cup {"shasum"}
    BY <2>5 DEF AnalyzeStage, Digests
  <2>6. QED BY <2>1, <2>2, <2>3, <2>4, <2>5, <2>7
<1>2. s # NoSuggestion
  OBVIOUS
<1> HIDE DEF s
<1>3. CASE s = SuggestCat(args, mod)
  <2> DEFINE files == NonFlags(args)
  <2>1. ~(files = <<>> \/ (IsSet(mod) /\ Len(files) # 1)) /\ Len(files) = 1
    BY <1>2, <1>3 DEF SuggestCat
  <2>2. \E a, b : s = ReadOf(files[1], a, b)
    BY <1>3, <2>1 DEF SuggestCat, IsSet
  <2>3. QED BY <2>2, ReadSays DEF Carries, s
<1>4. CASE s = SuggestSearch(args, mod) \/ s = SuggestFind(args, mod) \/ s = SuggestList(args, mod)
  BY <1>2, <1>4, SearchCarries DEF s
<1>5. CASE s = SuggestGit(args, mod)
  <2>1. SuggestGitDiff(Tail(args), mod) = NoSuggestion
    BY DEF SuggestGitDiff
  <2>2. s = SuggestGitLog(Tail(args), mod)
    BY <1>2, <1>5, <2>1 DEF SuggestGit
  <2>3. QED BY <1>2, <2>2, LogCarries DEF s
<1>6. /\ SuggestHead(args, mod) = NoSuggestion /\ SuggestTail(args, mod) = NoSuggestion
      /\ SuggestSed(args, mod) = NoSuggestion
  BY DEF SuggestHead, SuggestTail, SuggestSed
<1>7. \A name, x, files : Unpiped(name, x, mod, files) = NoSuggestion
  BY DEF Unpiped
<1>8. /\ SuggestWc(args, mod) = NoSuggestion /\ \A name : SuggestOne(name, args, mod) = NoSuggestion
      /\ SuggestDiff(args, mod) = NoSuggestion /\ \A name : SuggestChecksum(name, args, mod) = NoSuggestion
  BY <1>7 DEF SuggestWc, SuggestOne, SuggestDiff, SuggestChecksum
<1>9. QED BY <1>1, <1>2, <1>3, <1>4, <1>5, <1>6, <1>8 DEF s

LEMMA SuggestionIsRight == \A c \in HookCalls : SuggestionKeepsLines(c, CheckCommand(c))
<1> SUFFICES ASSUME NEW c \in HookCalls PROVE SuggestionKeepsLines(c, CheckCommand(c))
  OBVIOUS
<1> DEFINE s == CheckCommand(c).suggestion
<1>1. s = NoSuggestion \/ s = Analyze(c)
  BY DEF CheckCommand
<1>2. SelectsLines(c, s) /\ Selector(c).name # "tail" => \A t \in HookTexts : ReadPrints(c, s, t)
  BY <1>1, SuggestionPrints DEF SelectsLines
<1>3. ASSUME s # NoSuggestion, c.shape = "pipe"
      PROVE  LET head == PipeTailModifier(c.stages[2]).head
             IN s[1].args.lines # <<>> \/ (s[1].args.limit = head /\ head > 0)
  <2>1. s = Analyze(c) /\ Parses2(c)
    BY <1>1, <1>3 DEF Analyze, Parses1
  <2>2. s = AnalyzeStage(c.stages[1], PipeTailModifier(c.stages[2])) /\ IsSet(PipeTailModifier(c.stages[2]))
    BY <2>1 DEF Analyze, ModifierOf, Parses2
  <2>3. QED BY <1>3, <2>2, PipeIsCarried DEF Carries
<1>4. QED BY <1>2, <1>3 DEF SuggestionKeepsLines

\* Whatever its one file holds, the read suggested in place of a head or a sed
\* -n of that file prints the same lines of it, unless the first is empty, and
\* the suggestion in place of a pipe has a range of lines or the limit of its
\* second stage (AnalyzeCommand, pipeTailModifier, parseLineRange, readLines).
THEOREM SuggestionsAreFaithful == Spec => []SuggestionsKeepTheirLines
<1>1. Init => CallsIInv
  BY InitIsCalled
<1>2. CallsIInv /\ [Next]_requestVars => CallsIInv'
  BY NextKeepsCalls
<1>3. CallsIInv => SuggestionsKeepTheirLines
  BY SuggestionIsRight DEF CallsIInv, SuggestionsKeepTheirLines, Answered
<1>4. QED BY <1>1, <1>2, <1>3, PTL DEF Spec

-----------------------------------------------------------------------------
\* The settings of a file, section by section.

ConfigScopes == {"system", "global", "local", "worktree", "include"}
ConfigEntry == [key : Seq(STRING), value : STRING, scope : ConfigScopes, source : STRING]
GitEntry == [key : Seq(STRING), value : STRING]
SectionAt(ss, section) == {n \in DOMAIN ss : ss[n].section = section}

LEMMA SettingsType ==
  ASSUME NEW ss \in Seq(Settings)
  PROVE  Len(ss) \in Nat /\ DOMAIN ss = 1..Len(ss) /\ \A n \in DOMAIN ss : ss[n] \in Settings
BY LenProperties, ElementOfSeq

LEMMA KeyParts ==
  ASSUME NEW s \in Settings
  PROVE  /\ KeyOf(s) \in Seq(STRING) /\ KeyOf(s)[1] = s.section /\ Len(KeyOf(s)) = Len(s.sub) + 2
         /\ \A n \in 1..Len(s.sub) : KeyOf(s)[n + 1] = s.sub[n]
<1>1. s.section \in STRING /\ s.sub \in Seq(STRING) /\ s.name \in STRING
  BY DEF Settings
<1>2. QED BY <1>1, Enclosed DEF KeyOf

\* A key says which section and subsection it is of.
LEMMA SameKey ==
  ASSUME NEW s \in Settings, NEW t \in Settings, KeyOf(s) = KeyOf(t)
  PROVE  s.section = t.section /\ s.sub = t.sub
<1>1. s.section = t.section
  BY KeyParts
<1>2. s.sub \in Seq(STRING) /\ t.sub \in Seq(STRING)
  BY DEF Settings
<1>3. Len(s.sub) \in Nat /\ Len(t.sub) \in Nat
  BY <1>2, LenProperties
<1>4. Len(s.sub) = Len(t.sub)
  <2>1. Len(s.sub) + 2 = Len(t.sub) + 2
    BY KeyParts
  <2>2. QED BY <1>3, <2>1
<1>5. \A n \in 1..Len(s.sub) : s.sub[n] = t.sub[n]
  BY <1>4, KeyParts
<1>6. QED BY <1>1, <1>2, <1>4, <1>5, SeqEqual

LEMMA SectionsAreBlocks ==
  ASSUME NEW ss \in Seq(Settings), Straight(ss)
  PROVE  \E first : /\ Blocks(first, Len(ss))
                    /\ \A n \in 1..Len(ss) : first[n] = n <=> OpensSection(ss, n)
                    /\ \A n \in 1..Len(ss) : first[n] = n => BlockAt(first, Len(ss), n) = SectionAt(ss, ss[n].section)
<1> DEFINE l == Len(ss)
           opens(m, n) == ss[m].section = ss[n].section /\ OpensSection(ss, m)
           first == [n \in 1..l |-> CHOOSE m \in 1..l : opens(m, n)]
<1>1. l \in Nat /\ DOMAIN ss = 1..l
  BY SettingsType
<1> HIDE DEF l
<1>2. ASSUME NEW n \in 1..l PROVE \E m \in 1..l : opens(m, n)
  <2> DEFINE same == {k \in 1..l : ss[k].section = ss[n].section}
  <2>1. PICK m \in same : \A k \in same : m <= k
    <3>1. n \in same /\ \A k \in same : k \in Nat
      BY <1>1
    <3> HIDE DEF same
    <3>2. QED BY <3>1, SmallestOfNat
  <2>2. \A k \in 1..(m - 1) : k \in 1..l /\ ~(m <= k)
    BY <1>1
  <2>3. \A k \in 1..(m - 1) : ss[k].section # ss[m].section
    BY <2>1, <2>2
  <2>4. opens(m, n)
    BY <2>3 DEF OpensSection
  <2>5. QED BY <2>4
<1>3. \A n \in 1..l : first[n] \in 1..l /\ opens(first[n], n)
  BY <1>2
<1> HIDE DEF first
<1>4. ASSUME NEW m \in 1..l, NEW n \in 1..l, ss[m].section = ss[n].section, OpensSection(ss, m) PROVE m <= n
  <2>1. CASE n < m
    <3>1. n \in 1..(m - 1)
      BY <1>1, <2>1
    <3>2. QED BY <1>4, <3>1 DEF OpensSection
  <2>2. QED BY <1>1, <2>1
<1>5. \A m, n \in 1..l : opens(m, n) => m = first[n]
  <2>1. ASSUME NEW m \in 1..l, NEW n \in 1..l, opens(m, n) PROVE m = first[n]
    <3>1. /\ ss[first[n]].section = ss[m].section /\ ss[m].section = ss[first[n]].section
          /\ OpensSection(ss, m) /\ OpensSection(ss, first[n]) /\ first[n] \in 1..l
      BY <1>3, <2>1
    <3>2. m <= first[n] /\ first[n] <= m
      BY <1>4, <3>1
    <3>3. QED BY <1>1, <3>1, <3>2
  <2>2. QED BY <2>1
<1>6. \A n \in 1..l : first[n] <= n /\ first[first[n]] = first[n]
  <2>1. ASSUME NEW n \in 1..l PROVE first[n] <= n /\ first[first[n]] = first[n]
    <3>1. first[n] \in 1..l /\ ss[first[n]].section = ss[n].section /\ OpensSection(ss, first[n])
      BY <1>3
    <3>2. opens(first[n], first[n])
      BY <3>1
    <3>3. QED BY <1>4, <1>5, <3>1, <3>2
  <2>2. QED BY <2>1
<1>7. ASSUME NEW m \in 1..l, NEW n \in 1..l, m < n PROVE first[m] <= first[n]
  <2>1. /\ first[m] \in 1..l /\ first[n] \in 1..l /\ first[m] <= m
        /\ ss[first[m]].section = ss[m].section /\ ss[first[n]].section = ss[n].section
        /\ OpensSection(ss, first[m])
    BY <1>3, <1>6
  <2>2. CASE first[n] < first[m]
    <3>1. first[n] < n /\ m \in first[n]..n
      BY <1>1, <1>7, <2>1, <2>2
    <3>2. ss[m].section = ss[first[n]].section
      BY <1>1, <2>1, <3>1 DEF Straight
    <3>3. first[m] <= first[n]
      BY <1>4, <2>1, <3>2
    <3>4. QED BY <3>3
  <2>3. QED BY <1>1, <2>1, <2>2
<1>8. first \in [1..l -> 1..l]
  BY <1>3 DEF first
<1>9. Blocks(first, l)
  BY <1>6, <1>7, <1>8 DEF Blocks
<1>10. ASSUME NEW n \in 1..l PROVE first[n] = n <=> OpensSection(ss, n)
  <2>1. first[n] = n => OpensSection(ss, n)
    BY <1>3
  <2>2. OpensSection(ss, n) => opens(n, n)
    OBVIOUS
  <2>3. QED BY <1>5, <2>1, <2>2
<1>11. ASSUME NEW n \in 1..l, first[n] = n PROVE BlockAt(first, l, n) = SectionAt(ss, ss[n].section)
  <2>1. ASSUME NEW m \in 1..l PROVE first[m] = n <=> ss[m].section = ss[n].section
    <3>1. first[m] = n => ss[m].section = ss[n].section
      BY <1>3
    <3>2. ss[m].section = ss[n].section => opens(n, m)
      BY <1>10, <1>11
    <3>3. QED BY <1>5, <3>1, <3>2
  <2>2. QED BY <1>1, <2>1 DEF BlockAt, SectionAt
<1>12. QED BY <1>9, <1>10, <1>11 DEF l

SectionsSay(ss, es, fs, key) ==
  \A n \in 1..Len(ss) :
    IF OpensSection(ss, n) THEN BlockAgrees(es[n], fs, SectionAt(ss, ss[n].section), key) ELSE None(es[n], key)

LEMMA SectionsAgree ==
  ASSUME NEW ss \in Seq(Settings), Straight(ss), NEW S, NEW T, NEW es \in Seq(Seq(S)), NEW fs \in Seq(Seq(T)),
         Len(es) = Len(ss), Len(fs) = Len(ss), NEW key, SectionsSay(ss, es, fs, key)
  PROVE  Agree(Flat(es), Flat(fs), key)
<1>1. PICK first : /\ Blocks(first, Len(ss))
                   /\ \A n \in 1..Len(ss) : first[n] = n <=> OpensSection(ss, n)
                   /\ \A n \in 1..Len(ss) : first[n] = n => BlockAt(first, Len(ss), n) = SectionAt(ss, ss[n].section)
  BY SectionsAreBlocks
<1>2. \A n \in 1..Len(ss) : first[n] # n => None(es[n], key)
  BY <1>1 DEF SectionsSay
<1>3. \A n \in 1..Len(ss) : first[n] = n => BlockAgrees(es[n], fs, BlockAt(first, Len(ss), n), key)
  BY <1>1 DEF SectionsSay
<1>4. QED BY <1>1, <1>2, <1>3, BlocksAgree

SettingIsOf(s, section, sub) == s.section = section /\ s.sub = sub

LEMMA SettingEntryType ==
  ASSUME NEW s \in Settings, NEW scope \in ConfigScopes, NEW file \in STRING
  PROVE  /\ SettingEntry(s, scope, file) \in ConfigEntry
         /\ SettingEntry(s, scope, file).key = KeyOf(s) /\ SettingEntry(s, scope, file).value = s.value
<1>1. KeyOf(s) \in Seq(STRING) /\ s.value \in STRING
  BY KeyParts DEF Settings
<1>2. QED BY <1>1 DEF SettingEntry, ConfigEntry

LEMMA GitSettingType ==
  \A s \in Settings : GitSetting(s) \in GitEntry /\ GitSetting(s).key = KeyOf(s) /\ GitSetting(s).value = s.value
<1> SUFFICES ASSUME NEW s \in Settings
             PROVE  GitSetting(s) \in GitEntry /\ GitSetting(s).key = KeyOf(s) /\ GitSetting(s).value = s.value
  OBVIOUS
<1>1. KeyOf(s) \in Seq(STRING) /\ s.value \in STRING
  BY KeyParts DEF Settings
<1>2. QED BY <1>1 DEF GitSetting, GitEntry

\* The options of a subsection, or of a section outside its subsections.
LEMMA OptionsSay ==
  ASSUME NEW ss \in Seq(Settings), NEW section, NEW sub, NEW scope \in ConfigScopes, NEW file \in STRING, NEW key
  PROVE  LET es == Options(ss, section, sub, scope, file)
             here == {n \in 1..Len(ss) : SettingIsOf(ss[n], section, sub)}
         IN /\ es \in Seq(ConfigEntry)
            /\ (\A n \in here : KeyOf(ss[n]) # key) => None(es, key)
            /\ \A n \in here :
                 KeyOf(ss[n]) = key /\ (\A m \in here : m > n => KeyOf(ss[m]) # key) => EndsWith(es, key, ss[n].value)
<1> DEFINE l == Len(ss)
           here == {n \in 1..l : SettingIsOf(ss[n], section, sub)}
           piece(n) == IF ss[n].section = section /\ ss[n].sub = sub THEN <<SettingEntry(ss[n], scope, file)>> ELSE <<>>
           pieces == [n \in 1..l |-> piece(n)]
<1>1. l \in Nat /\ DOMAIN ss = 1..l /\ \A n \in 1..l : ss[n] \in Settings
  BY SettingsType
<1> HIDE DEF l
<1>2. \A n \in 1..l : /\ pieces[n] \in Seq(ConfigEntry)
                      /\ n \in here => pieces[n] = <<SettingEntry(ss[n], scope, file)>>
                      /\ n \notin here => pieces[n] = <<>>
  <2>1. ASSUME NEW n \in 1..l
        PROVE  /\ pieces[n] \in Seq(ConfigEntry)
               /\ n \in here => pieces[n] = <<SettingEntry(ss[n], scope, file)>>
               /\ n \notin here => pieces[n] = <<>>
    <3>1. <<SettingEntry(ss[n], scope, file)>> \in Seq(ConfigEntry)
      <4>1. SettingEntry(ss[n], scope, file) \in ConfigEntry
        BY <1>1, SettingEntryType
      <4>2. QED BY <4>1, OneOfSeq
    <3>2. QED BY <3>1, OneOfSeq DEF SettingIsOf
  <2>2. QED BY <2>1
<1>3. pieces \in Seq(Seq(ConfigEntry)) /\ Len(pieces) = l
  <2> HIDE DEF piece
  <2>1. pieces \in [1..l -> Seq(ConfigEntry)]
    BY <1>2
  <2>2. QED BY <1>1, <2>1
<1>4. Options(ss, section, sub, scope, file) = Flat(pieces)
  <2>1. Options(ss, section, sub, scope, file) = Flat([n \in DOMAIN ss |-> piece(n)])
    BY DEF Options
  <2> HIDE DEF piece
  <2>2. [n \in DOMAIN ss |-> piece(n)] = pieces
    BY <1>1
  <2>3. QED BY <2>1, <2>2
<1>5. FlatSays(pieces, key) /\ Flat(pieces) \in Seq(ConfigEntry)
  BY <1>3, FlatEnds, FlatType
<1> HIDE DEF pieces
<1>6. ASSUME NEW n \in 1..l, n \in here => KeyOf(ss[n]) # key PROVE None(pieces[n], key)
  <2>1. CASE n \in here
    <3>1. SettingEntry(ss[n], scope, file).key # key
      BY <1>1, <1>6, <2>1, SettingEntryType
    <3>2. QED BY <1>2, <2>1, <3>1, NoneOfOne
  <2>2. CASE n \notin here
    BY <1>2, <2>2, NoneOfNothing
  <2>3. QED BY <2>1, <2>2
<1>7. ASSUME \A n \in here : KeyOf(ss[n]) # key PROVE None(Flat(pieces), key)
  <2>1. NoneIn(pieces, key)
    BY <1>3, <1>6, <1>7 DEF NoneIn
  <2>2. QED BY <1>5, <2>1 DEF FlatSays
<1>8. ASSUME NEW n \in here, KeyOf(ss[n]) = key, \A m \in here : m > n => KeyOf(ss[m]) # key
      PROVE  EndsWith(Flat(pieces), key, ss[n].value)
  <2>1. n \in 1..l
    OBVIOUS
  <2>2. pieces[n] = <<SettingEntry(ss[n], scope, file)>> /\ SettingEntry(ss[n], scope, file).key = key
        /\ SettingEntry(ss[n], scope, file).value = ss[n].value
    BY <1>1, <1>2, <1>8, <2>1, SettingEntryType
  <2>3. EndsWith(pieces[n], key, ss[n].value)
    BY <2>2, EndsOfOne
  <2>4. \A m \in 1..l : m > n => None(pieces[m], key)
    BY <1>6, <1>8
  <2>5. LastEnds(pieces, key, ss[n].value)
    BY <1>3, <2>1, <2>3, <2>4 DEF LastEnds
  <2>6. QED BY <1>5, <2>5 DEF FlatSays
<1>9. QED BY <1>4, <1>5, <1>7, <1>8 DEF l

OfKey(ss, block, key) == {n \in block : KeyOf(ss[n]) = key}
LastOfKey(ss, block, key, n) == n \in OfKey(ss, block, key) /\ \A m \in block : m > n => KeyOf(ss[m]) # key

\* The entries of a section, subsection by subsection.
LEMMA EntriesSay ==
  ASSUME NEW ss \in Seq(Settings), NEW section, NEW scope \in ConfigScopes, NEW file \in STRING, NEW key
  PROVE  LET es == Entries(ss, section, scope, file)
             block == SectionAt(ss, section)
         IN /\ es \in Seq(ConfigEntry)
            /\ OfKey(ss, block, key) = {} => None(es, key)
            /\ \A n \in block : LastOfKey(ss, block, key, n) => EndsWith(es, key, ss[n].value)
<1> DEFINE l == Len(ss)
           block == SectionAt(ss, section)
           opens(n) == ss[n].section = section /\ OpensSubsection(ss, n)
           options(sub) == Options(ss, section, sub, scope, file)
           piece(n) == IF opens(n) THEN options(ss[n].sub) ELSE <<>>
           pieces == [n \in 1..l |-> piece(n)]
           here(sub) == {n \in 1..l : SettingIsOf(ss[n], section, sub)}
           front == options(<<>>)
<1>1. l \in Nat /\ DOMAIN ss = 1..l /\ \A n \in 1..l : ss[n] \in Settings
  BY SettingsType
<1>2. \A sub : /\ options(sub) \in Seq(ConfigEntry)
               /\ (\A n \in here(sub) : KeyOf(ss[n]) # key) => None(options(sub), key)
               /\ \A n \in here(sub) :
                    KeyOf(ss[n]) = key /\ (\A m \in here(sub) : m > n => KeyOf(ss[m]) # key) => EndsWith(options(sub), key, ss[n].value)
  BY OptionsSay
<1>3. \A n : n \in block <=> n \in 1..l /\ ss[n].section = section
  BY <1>1 DEF SectionAt
<1>4. \A n, sub : n \in here(sub) <=> n \in block /\ ss[n].sub = sub
  BY <1>3 DEF SettingIsOf
<1> HIDE DEF l, options, here, block
<1>5. pieces \in Seq(Seq(ConfigEntry)) /\ Len(pieces) = l
  <2>1. \A n \in 1..l : piece(n) \in Seq(ConfigEntry)
    BY <1>2, OneOfSeq
  <2> HIDE DEF piece
  <2>2. pieces \in [1..l -> Seq(ConfigEntry)]
    BY <2>1
  <2>3. QED BY <1>1, <2>2
<1>6. Entries(ss, section, scope, file) = front \o Flat(pieces)
  <2>1. Entries(ss, section, scope, file) = front \o Flat([n \in DOMAIN ss |-> piece(n)])
    BY DEF Entries, options
  <2> HIDE DEF piece
  <2>2. [n \in DOMAIN ss |-> piece(n)] = pieces
    BY <1>1
  <2>3. QED BY <2>1, <2>2
<1>7. /\ front \in Seq(ConfigEntry) /\ FlatSays(pieces, key) /\ Flat(pieces) \in Seq(ConfigEntry)
      /\ front \o Flat(pieces) \in Seq(ConfigEntry)
  <2>1. FlatSays(pieces, key) /\ Flat(pieces) \in Seq(ConfigEntry)
    <3> HIDE DEF pieces
    <3> QED BY <1>5, FlatEnds, FlatType
  <2>2. front \in Seq(ConfigEntry)
    BY <1>2
  <2>3. QED BY <2>1, <2>2, ConcatProperties
<1>8. \A n \in 1..l : /\ opens(n) => pieces[n] = options(ss[n].sub)
                      /\ ~opens(n) => pieces[n] = <<>>
  OBVIOUS
<1> HIDE DEF pieces, front
\* A subsection without the key says nothing of it.
<1>9. ASSUME NEW sub, \A n \in block : KeyOf(ss[n]) = key => ss[n].sub # sub PROVE None(options(sub), key)
  BY <1>2, <1>4, <1>9
<1>10. ASSUME NEW n \in 1..l, \A m \in block : KeyOf(ss[m]) = key => ss[m].sub # ss[n].sub PROVE None(pieces[n], key)
  <2>1. CASE opens(n)
    BY <1>8, <1>9, <1>10, <2>1
  <2>2. CASE ~opens(n)
    BY <1>8, <2>2, NoneOfNothing
  <2>3. QED BY <2>1, <2>2
<1>11. ASSUME OfKey(ss, block, key) = {} PROVE None(front \o Flat(pieces), key)
  <2>1. \A n \in block : KeyOf(ss[n]) # key
    BY <1>11 DEF OfKey
  <2>2. None(front, key)
    BY <1>9, <2>1 DEF front
  <2>3. NoneIn(pieces, key)
    BY <1>5, <1>10, <2>1 DEF NoneIn
  <2>4. QED BY <1>7, <2>2, <2>3, NoneOfConcat DEF FlatSays
<1>12. ASSUME NEW n \in block, LastOfKey(ss, block, key, n) PROVE EndsWith(front \o Flat(pieces), key, ss[n].value)
  <2> DEFINE sub == ss[n].sub
  <2>1. n \in 1..l /\ KeyOf(ss[n]) = key /\ ss[n] \in Settings /\ \A m \in block : m > n => KeyOf(ss[m]) # key
    BY <1>1, <1>3, <1>12 DEF LastOfKey, OfKey
  <2>2. \A m \in block : KeyOf(ss[m]) = key => ss[m].sub = sub
    <3>1. ASSUME NEW m \in block, KeyOf(ss[m]) = key PROVE ss[m].sub = sub
      <4>1. ss[m] \in Settings /\ KeyOf(ss[m]) = KeyOf(ss[n])
        BY <1>1, <1>3, <2>1, <3>1
      <4>2. QED BY <2>1, <4>1, SameKey
    <3>2. QED BY <3>1
  <2>3. n \in here(sub)
    BY <1>4
  <2> HIDE DEF sub
  <2>4. EndsWith(options(sub), key, ss[n].value)
    <3>1. \A m \in here(sub) : m > n => KeyOf(ss[m]) # key
      BY <1>4, <2>1
    <3>2. QED BY <1>2, <2>1, <2>3, <3>1
  <2>5. \A other : other # sub => \A m \in block : KeyOf(ss[m]) = key => ss[m].sub # other
    BY <2>2
  <2>6. CASE sub = <<>>
    <3>1. EndsWith(front, key, ss[n].value)
      BY <2>4, <2>6 DEF front
    <3>2. ASSUME NEW m \in 1..l PROVE None(pieces[m], key)
      <4>1. CASE opens(m)
        <5>1. ss[m].sub # sub
          BY <2>6, <4>1 DEF OpensSubsection
        <5>2. QED BY <1>10, <2>5, <5>1
      <4>2. CASE ~opens(m)
        BY <1>8, <4>2, NoneOfNothing
      <4>3. QED BY <4>1, <4>2
    <3>3. NoneIn(pieces, key)
      BY <1>5, <3>2 DEF NoneIn
    <3>4. None(Flat(pieces), key)
      BY <1>7, <3>3 DEF FlatSays
    <3>5. QED BY <1>7, <3>1, <3>4, EndsOfConcat
  <2>7. CASE sub # <<>>
    <3>1. PICK k \in here(sub) : \A m \in here(sub) : k <= m
      <4>1. \A m \in here(sub) : m \in Nat
        BY <1>1, <1>3, <1>4
      <4>2. QED BY <2>3, <4>1, SmallestOfNat
    <3>2. k \in 1..l /\ ss[k].section = section /\ ss[k].sub = sub
      BY <1>3, <1>4, <3>1
    <3>3. opens(k)
      <4>1. \A m \in 1..(k - 1) : m \in 1..l /\ ~(k <= m)
        BY <1>1, <3>2
      <4>2. \A m \in 1..(k - 1) : m \notin here(sub)
        BY <3>1, <4>1
      <4>3. \A m \in 1..(k - 1) : ss[m].section = ss[k].section => ss[m].sub # ss[k].sub
        BY <1>3, <1>4, <3>2, <4>1, <4>2
      <4>4. QED BY <2>7, <3>2, <4>3 DEF OpensSubsection
    <3>4. EndsWith(pieces[k], key, ss[n].value)
      BY <1>8, <2>4, <3>2, <3>3
    <3>5. ASSUME NEW m \in 1..l, m > k PROVE None(pieces[m], key)
      <4>1. CASE opens(m)
        <5>1. k \in 1..(m - 1)
          BY <1>1, <3>2, <3>5
        <5>2. ss[m].sub # sub
          BY <3>2, <4>1, <5>1 DEF OpensSubsection
        <5>3. QED BY <1>10, <2>5, <5>2
      <4>2. CASE ~opens(m)
        BY <1>8, <4>2, NoneOfNothing
      <4>3. QED BY <4>1, <4>2
    <3>6. LastEnds(pieces, key, ss[n].value)
      BY <1>5, <3>2, <3>4, <3>5 DEF LastEnds
    <3>7. EndsWith(Flat(pieces), key, ss[n].value)
      BY <1>7, <3>6 DEF FlatSays
    <3>8. QED BY <1>7, <3>7, EndsOfConcat
  <2>8. QED BY <2>6, <2>7
<1>13. QED BY <1>6, <1>7, <1>11, <1>12 DEF block

LEMMA SectionSays ==
  ASSUME NEW ss \in Seq(Settings), NEW section, NEW scope \in ConfigScopes, NEW file \in STRING, NEW key,
         NEW fs, \A n \in SectionAt(ss, section) : fs[n] = <<GitSetting(ss[n])>>
  PROVE  BlockAgrees(Entries(ss, section, scope, file), fs, SectionAt(ss, section), key)
<1> DEFINE es == Entries(ss, section, scope, file)
           block == SectionAt(ss, section)
           said == OfKey(ss, block, key)
<1>1. Len(ss) \in Nat /\ DOMAIN ss = 1..Len(ss) /\ \A n \in block : n \in 1..Len(ss) /\ ss[n] \in Settings
  BY SettingsType DEF SectionAt
<1>2. /\ said = {} => None(es, key)
      /\ \A n \in block : LastOfKey(ss, block, key, n) => EndsWith(es, key, ss[n].value)
  BY EntriesSay
<1> HIDE DEF es, block
<1>3. ASSUME NEW n \in block, KeyOf(ss[n]) # key PROVE None(fs[n], key)
  <2>1. fs[n] = <<GitSetting(ss[n])>> /\ GitSetting(ss[n]).key # key
    BY <1>3 DEF block, GitSetting
  <2>2. QED BY <2>1, NoneOfOne
<1>4. CASE said = {}
  <2>1. \A n \in block : KeyOf(ss[n]) # key
    BY <1>4 DEF OfKey
  <2>2. QED BY <1>2, <1>3, <1>4, <2>1 DEF BlockAgrees, es, block
<1>5. CASE said # {}
  <2>1. PICK n \in said : \A m \in said : m <= n
    <3>1. \A n \in said : n \in Nat /\ n <= Len(ss)
      BY <1>1 DEF OfKey
    <3> HIDE DEF said
    <3>2. QED BY <1>1, <1>5, <3>1, LargestOfNat
  <2>2. n \in block /\ KeyOf(ss[n]) = key
    BY DEF OfKey
  <2>3. ASSUME NEW m \in block, m > n PROVE KeyOf(ss[m]) # key
    <3>1. m \notin said
      BY <1>1, <2>1, <2>2, <2>3
    <3>2. QED BY <3>1 DEF OfKey
  <2>4. LastOfKey(ss, block, key, n)
    BY <2>3 DEF LastOfKey
  <2>5. EndsWith(es, key, ss[n].value)
    BY <1>2, <2>2, <2>4
  <2>6. EndsWith(fs[n], key, ss[n].value)
    <3>1. fs[n] = <<GitSetting(ss[n])>> /\ GitSetting(ss[n]).key = key /\ GitSetting(ss[n]).value = ss[n].value
      BY <2>2 DEF block, GitSetting
    <3>2. QED BY <3>1, EndsOfOne
  <2>7. \A m \in block : m > n => None(fs[m], key)
    BY <1>3, <2>3
  <2> HIDE DEF said
  <2>8. QED BY <2>2, <2>5, <2>6, <2>7 DEF BlockAgrees, es, block
<1>6. QED BY <1>4, <1>5

-----------------------------------------------------------------------------
(* What is loaded, and what git reads: if nothing was skipped the two end   *)
(* alike, as far as a key goes.                                             *)

Skipping == {"include", "includeIf", "unreadable", "depth"}
ConfigNote == [why : Skipping, what : STRING \cup Seq(STRING)]
WellLoaded(r) == r.ok \in BOOLEAN /\ r.entries \in Seq(ConfigEntry) /\ r.skipped \in Seq(ConfigNote)
Unskipped(r) == r.ok = TRUE /\ r.skipped = <<>>
Sound(r, gs, key) == WellLoaded(r) /\ gs \in Seq(GitEntry) /\ (Unskipped(r) => Agree(r.entries, gs, key))
BlockSound(r, fs, block, key) ==
  WellLoaded(r) /\ r.ok = TRUE /\ (Unskipped(r) => BlockAgrees(r.entries, fs, block, key))

LEMMA LoadedFields ==
  \A es, sk : /\ Loaded(es, sk).ok = TRUE /\ Loaded(es, sk).entries = es /\ Loaded(es, sk).skipped = sk
              /\ es \in Seq(ConfigEntry) /\ sk \in Seq(ConfigNote) => WellLoaded(Loaded(es, sk))
BY DEF Loaded, WellLoaded

LEMMA NothingLoaded ==
  /\ NoEntries.ok = TRUE /\ NoEntries.entries = <<>> /\ NoEntries.skipped = <<>> /\ WellLoaded(NoEntries)
  /\ \A why : Unloadable(why).ok = FALSE /\ WellLoaded(Unloadable(why))
<1>1. WellLoaded(NoEntries) /\ NoEntries.ok = TRUE /\ NoEntries.entries = <<>> /\ NoEntries.skipped = <<>>
  BY LoadedFields, OneOfSeq DEF NoEntries
<1>2. \A why : Unloadable(why).ok = FALSE /\ Unloadable(why).entries = <<>> /\ Unloadable(why).skipped = <<>>
  BY DEF Unloadable
<1>3. \A why : WellLoaded(Unloadable(why))
  BY <1>2, OneOfSeq DEF WellLoaded
<1>4. QED BY <1>1, <1>2, <1>3

LEMMA JoinedFields ==
  ASSUME NEW l \in Nat, NEW parts, DOMAIN parts = 1..l, \A n \in 1..l : WellLoaded(parts[n])
  PROVE  LET es == [n \in 1..l |-> parts[n].entries]
             r == Joined(parts)
         IN /\ r.ok = TRUE /\ r.entries = Flat(es) /\ WellLoaded(r) /\ es \in Seq(Seq(ConfigEntry)) /\ Len(es) = l
            /\ r.skipped = <<>> => \A n \in 1..l : parts[n].skipped = <<>>
<1> DEFINE es == [n \in 1..l |-> parts[n].entries]
           sk == [n \in 1..l |-> parts[n].skipped]
<1>1. Joined(parts) = Loaded(Flat(es), Flat(sk))
  BY DEF Joined
<1>2. \A n \in 1..l : parts[n].entries \in Seq(ConfigEntry) /\ parts[n].skipped \in Seq(ConfigNote)
  BY DEF WellLoaded
<1>3. es \in Seq(Seq(ConfigEntry)) /\ Len(es) = l
  <2>1. es \in [1..l -> Seq(ConfigEntry)]
    BY <1>2
  <2>2. QED BY <2>1
<1>4. sk \in Seq(Seq(ConfigNote)) /\ Len(sk) = l /\ \A n \in 1..l : sk[n] = parts[n].skipped
  <2>1. sk \in [1..l -> Seq(ConfigNote)]
    BY <1>2
  <2>2. QED BY <2>1
<1> HIDE DEF es, sk
<1>5. Flat(es) \in Seq(ConfigEntry)
  BY <1>3, FlatType
<1>6. Flat(sk) \in Seq(ConfigNote) /\ (Flat(sk) = <<>> => \A n \in 1..l : sk[n] = <<>>)
  BY <1>4, FlatType
<1>7. QED BY <1>1, <1>3, <1>4, <1>5, <1>6, LoadedFields DEF es

LEMMA BlockJoined ==
  ASSUME NEW l \in Nat, NEW parts, DOMAIN parts = 1..l, NEW fs \in Seq(Seq(GitEntry)), Len(fs) = l, NEW key,
         NEW block \in SUBSET (1..l),
         \A n \in block : Sound(parts[n], fs[n], key) /\ parts[n].ok = TRUE,
         \A n \in 1..l : n \notin block => parts[n] = NoEntries
  PROVE  BlockSound(Joined(parts), fs, block, key)
<1> DEFINE es == [n \in 1..l |-> parts[n].entries]
           r == Joined(parts)
<1>1. \A n \in 1..l : WellLoaded(parts[n])
  BY NothingLoaded DEF Sound
<1>2. /\ r.ok = TRUE /\ r.entries = Flat(es) /\ WellLoaded(r) /\ es \in Seq(Seq(ConfigEntry)) /\ Len(es) = l
      /\ r.skipped = <<>> => \A n \in 1..l : parts[n].skipped = <<>>
  BY <1>1, JoinedFields
<1>3. \A n \in 1..l : es[n] = parts[n].entries
  OBVIOUS
<1> HIDE DEF es, r
<1>4. ASSUME r.skipped = <<>> PROVE BlockAgrees(Flat(es), fs, block, key)
  <2>1. \A n \in block : Agree(es[n], fs[n], key)
    BY <1>2, <1>3, <1>4 DEF Sound, Unskipped
  <2>2. \A n \in 1..l : n \notin block => None(es[n], key)
    BY <1>3, NothingLoaded, NoneOfNothing
  <2>3. QED BY <1>2, <2>1, <2>2, BlockOfPieces
<1>5. QED BY <1>2, <1>4 DEF BlockSound, Unskipped, r

LEMMA SectionsJoined ==
  ASSUME NEW ss \in Seq(Settings), Straight(ss), NEW parts, DOMAIN parts = 1..Len(ss), NEW key,
         NEW fs \in Seq(Seq(GitEntry)), Len(fs) = Len(ss),
         \A n \in 1..Len(ss) : /\ OpensSection(ss, n) => BlockSound(parts[n], fs, SectionAt(ss, ss[n].section), key)
                               /\ ~OpensSection(ss, n) => parts[n] = NoEntries
  PROVE  Sound(Joined(parts), Flat(fs), key) /\ Joined(parts).ok = TRUE
<1> DEFINE l == Len(ss)
           es == [n \in 1..l |-> parts[n].entries]
           r == Joined(parts)
<1>0. l \in Nat
  BY LenProperties
<1>1. \A n \in 1..l : WellLoaded(parts[n])
  BY NothingLoaded DEF BlockSound
<1>2. /\ r.ok = TRUE /\ r.entries = Flat(es) /\ WellLoaded(r) /\ es \in Seq(Seq(ConfigEntry)) /\ Len(es) = l
      /\ r.skipped = <<>> => \A n \in 1..l : parts[n].skipped = <<>>
  <2> HIDE DEF l
  <2> QED BY <1>0, <1>1, JoinedFields DEF l
<1>3. \A n \in 1..l : es[n] = parts[n].entries
  OBVIOUS
<1>4. Flat(fs) \in Seq(GitEntry)
  BY FlatType
<1> HIDE DEF es, r
<1>5. ASSUME r.skipped = <<>> PROVE Agree(Flat(es), Flat(fs), key)
  <2>1. SectionsSay(ss, es, fs, key)
    <3>1. ASSUME NEW n \in 1..l, OpensSection(ss, n) PROVE BlockAgrees(es[n], fs, SectionAt(ss, ss[n].section), key)
      BY <1>2, <1>3, <1>5, <3>1 DEF BlockSound, Unskipped
    <3>2. ASSUME NEW n \in 1..l, ~OpensSection(ss, n) PROVE None(es[n], key)
      BY <1>3, <3>2, NothingLoaded, NoneOfNothing
    <3>3. QED BY <3>1, <3>2 DEF SectionsSay
  <2>2. QED BY <1>2, <2>1, SectionsAgree
<1>6. QED BY <1>2, <1>4, <1>5 DEF Sound, Unskipped, r

-----------------------------------------------------------------------------
\* A file whose includes are noted and not followed (loadConfigFile).

ConfigTree(t) ==
  /\ DOMAIN t \subseteq STRING
  /\ \A p \in DOMAIN t :
       /\ t[p].settings \in Seq(Settings)
       /\ \A n \in DOMAIN t[p].settings : Includes(t[p].settings[n]) => t[p].settings[n].value \in DOMAIN t
Pieces(ss, read) == [n \in DOMAIN ss |-> IF GitFollows(ss[n]) THEN read[ss[n].value] ELSE <<GitSetting(ss[n])>>]
GitReadsOf(file, t, read) == IF t[file].state # "ok" THEN <<>> ELSE ReadWith(t[file].settings, read)
ReadsSettings(t, read) == \A f \in DOMAIN t : read[f] \in Seq(GitEntry)

PiecesAre(ss, fs, t, read) ==
  /\ ss \in Seq(Settings) /\ DOMAIN ss = 1..Len(ss) /\ Len(ss) \in Nat /\ \A n \in 1..Len(ss) : ss[n] \in Settings
  /\ fs \in Seq(Seq(GitEntry)) /\ Len(fs) = Len(ss)
  /\ \A n \in 1..Len(ss) : GitFollows(ss[n]) => fs[n] = read[ss[n].value] /\ ss[n].value \in DOMAIN t
  /\ \A n \in 1..Len(ss) : ~GitFollows(ss[n]) => fs[n] = <<GitSetting(ss[n])>>
  /\ ReadWith(ss, read) = Flat(fs)

LEMMA PiecesType ==
  ASSUME NEW t, ConfigTree(t), NEW file \in DOMAIN t, NEW read, ReadsSettings(t, read)
  PROVE  PiecesAre(t[file].settings, Pieces(t[file].settings, read), t, read)
<1> DEFINE ss == t[file].settings
           fs == Pieces(ss, read)
<1>1. ss \in Seq(Settings)
  BY DEF ConfigTree
<1>2. DOMAIN ss = 1..Len(ss) /\ Len(ss) \in Nat /\ \A n \in 1..Len(ss) : ss[n] \in Settings
  BY <1>1, SettingsType
<1>3. \A n \in 1..Len(ss) : GitFollows(ss[n]) => ss[n].value \in DOMAIN t
  <2>1. \A s : GitFollows(s) => Includes(s)
    BY DEF GitFollows, IncludesAlways, Includes
  <2>2. \A n \in DOMAIN ss : Includes(ss[n]) => ss[n].value \in DOMAIN t
    BY DEF ConfigTree
  <2>3. QED BY <1>2, <2>1, <2>2
<1>4. ReadWith(ss, read) = Flat(fs)
  BY DEF ReadWith, Pieces
<1> HIDE DEF ss
<1>5. \A n \in 1..Len(ss) : /\ GitFollows(ss[n]) => fs[n] = read[ss[n].value]
                            /\ ~GitFollows(ss[n]) => fs[n] = <<GitSetting(ss[n])>>
  BY <1>2 DEF Pieces
<1>6. \A n \in 1..Len(ss) : fs[n] \in Seq(GitEntry)
  <2>1. ASSUME NEW n \in 1..Len(ss) PROVE fs[n] \in Seq(GitEntry)
    <3>1. CASE GitFollows(ss[n])
      BY <1>3, <1>5, <3>1 DEF ReadsSettings
    <3>2. CASE ~GitFollows(ss[n])
      <4>1. GitSetting(ss[n]) \in GitEntry
        BY <1>2, GitSettingType
      <4>2. QED BY <1>5, <3>2, <4>1, OneOfSeq
    <3>3. QED BY <3>1, <3>2
  <2>2. QED BY <2>1
<1>7. DOMAIN fs = 1..Len(ss)
  BY <1>2 DEF Pieces
<1>8. fs = [n \in 1..Len(ss) |-> fs[n]]
  BY <1>2 DEF Pieces
<1> HIDE DEF fs
<1>9. fs \in Seq(Seq(GitEntry)) /\ Len(fs) = Len(ss)
  <2>1. fs \in [1..Len(ss) -> Seq(GitEntry)]
    BY <1>6, <1>8
  <2>2. QED BY <1>2, <2>1
<1>10. PiecesAre(ss, fs, t, read)
  BY <1>1, <1>2, <1>3, <1>4, <1>5, <1>9 DEF PiecesAre
<1>11. QED BY <1>10 DEF ss, fs

LEMMA OtherSection ==
  \A s \in Settings : \A key : s.section # key[1] => None(<<GitSetting(s)>>, key)
<1> SUFFICES ASSUME NEW s \in Settings, NEW key, s.section # key[1] PROVE None(<<GitSetting(s)>>, key)
  OBVIOUS
<1>1. GitSetting(s).key = KeyOf(s) /\ KeyOf(s)[1] = s.section
  BY GitSettingType, KeyParts
<1>2. GitSetting(s).key # key
  BY <1>1
<1>3. QED BY <1>2, NoneOfOne

\* In a section in one piece a condition stands once.
LEMMA ConditionsOpen ==
  ASSUME NEW ss \in Seq(Settings), Straight(ss), NEW n \in 1..Len(ss), ss[n].section = IncludeIf
  PROVE  /\ ss[n].sub # <<>> => ConditionOpens(ss, n)
         /\ \A m \in 1..Len(ss) : ss[m].section = IncludeIf /\ ss[m].sub = ss[n].sub => m = n
<1>1. DOMAIN ss = 1..Len(ss) /\ Len(ss) \in Nat
  BY SettingsType
<1>2. \A m, k \in 1..Len(ss) : m < k /\ ss[m].section = IncludeIf /\ ss[k].section = IncludeIf => ss[m].sub # ss[k].sub
  BY <1>1 DEF Straight
<1>3. ASSUME NEW m \in 1..Len(ss), ss[m].section = IncludeIf, ss[m].sub = ss[n].sub PROVE m = n
  <2>1. m < n \/ n < m \/ m = n
    BY <1>1
  <2>2. ~(m < n) /\ ~(n < m)
    BY <1>2, <1>3
  <2>3. QED BY <2>1, <2>2
<1>4. \A m \in 1..(n - 1) : m \in 1..Len(ss) /\ m # n
  BY <1>1
<1>5. ASSUME ss[n].sub # <<>> PROVE ConditionOpens(ss, n)
  <2>1. \A m \in 1..(n - 1) : ss[m].section = ss[n].section => ss[m].sub # ss[n].sub
    BY <1>3, <1>4
  <2>2. QED BY <1>5, <2>1 DEF ConditionOpens, OpensSubsection
<1>6. QED BY <1>3, <1>5

NotedIn(ss, section) ==
  Flat([n \in DOMAIN ss |->
    CASE section = Include /\ IncludesAlways(ss[n]) -> <<Note("include", ss[n].value)>>
      [] section = IncludeIf /\ ConditionOpens(ss, n) -> <<Note("includeIf", ss[n].sub)>>
      [] OTHER -> <<>>])

LEMMA NotesOfSection ==
  ASSUME NEW ss \in Seq(Settings), NEW section
  PROVE  /\ NotedIn(ss, section) \in Seq(ConfigNote)
         /\ NotedIn(ss, section) = <<>> =>
              \A n \in 1..Len(ss) : /\ section = Include => ~IncludesAlways(ss[n])
                                    /\ section = IncludeIf => ~ConditionOpens(ss, n)
<1> DEFINE l == Len(ss)
           piece(n) ==
             CASE section = Include /\ IncludesAlways(ss[n]) -> <<Note("include", ss[n].value)>>
               [] section = IncludeIf /\ ConditionOpens(ss, n) -> <<Note("includeIf", ss[n].sub)>>
               [] OTHER -> <<>>
           pieces == [n \in 1..l |-> piece(n)]
<1>1. l \in Nat /\ DOMAIN ss = 1..l /\ \A n \in 1..l : ss[n] \in Settings
  BY SettingsType
<1>2. NotedIn(ss, section) = Flat(pieces)
  <2>1. NotedIn(ss, section) = Flat([n \in DOMAIN ss |-> piece(n)])
    BY DEF NotedIn
  <2> HIDE DEF piece, l
  <2>2. [n \in DOMAIN ss |-> piece(n)] = pieces
    BY <1>1
  <2>3. QED BY <2>1, <2>2
<1> HIDE DEF l
<1>3. \A n \in 1..l : /\ Note("include", ss[n].value) \in ConfigNote /\ Note("includeIf", ss[n].sub) \in ConfigNote
  <2>1. \A s \in Settings : s.value \in STRING /\ s.sub \in Seq(STRING)
    BY DEF Settings
  <2>2. \A w \in Skipping, x \in STRING \cup Seq(STRING) : Note(w, x) \in ConfigNote
    BY DEF Note, ConfigNote
  <2>3. "include" \in Skipping /\ "includeIf" \in Skipping
    BY DEF Skipping
  <2>4. ASSUME NEW n \in 1..l PROVE Note("include", ss[n].value) \in ConfigNote /\ Note("includeIf", ss[n].sub) \in ConfigNote
    <3>1. ss[n].value \in STRING \cup Seq(STRING) /\ ss[n].sub \in STRING \cup Seq(STRING)
      BY <1>1, <2>1
    <3>2. QED BY <2>2, <2>3, <3>1
  <2>5. QED BY <2>4
<1>4. Include # IncludeIf
  BY DEF Include, IncludeIf
<1>5. \A n \in 1..l : /\ section = Include /\ IncludesAlways(ss[n]) => piece(n) = <<Note("include", ss[n].value)>>
                      /\ section = IncludeIf /\ ConditionOpens(ss, n) => piece(n) = <<Note("includeIf", ss[n].sub)>>
                      /\ ~(section = Include /\ IncludesAlways(ss[n])) /\ ~(section = IncludeIf /\ ConditionOpens(ss, n))
                           => piece(n) = <<>>
  BY <1>4
<1>6. \A n \in 1..l : pieces[n] = piece(n)
  OBVIOUS
<1> HIDE DEF piece
<1>7. \A n \in 1..l : pieces[n] \in Seq(ConfigNote)
  BY <1>3, <1>5, <1>6, OneOfSeq
<1>8. pieces \in Seq(Seq(ConfigNote)) /\ Len(pieces) = l
  <2>1. pieces \in [1..l -> Seq(ConfigNote)]
    BY <1>6, <1>7
  <2>2. QED BY <1>1, <2>1
<1> HIDE DEF pieces
<1>9. Flat(pieces) \in Seq(ConfigNote) /\ (Flat(pieces) = <<>> => \A n \in 1..l : pieces[n] = <<>>)
  BY <1>8, FlatType
<1>10. \A x : <<x>> # <<>>
  OBVIOUS
<1>11. QED BY <1>2, <1>5, <1>6, <1>9, <1>10 DEF l

LEMMA FileIsSound ==
  ASSUME NEW t, ConfigTree(t), NEW file \in DOMAIN t, Straight(t[file].settings), NEW scope \in ConfigScopes,
         NEW read, ReadsSettings(t, read), NEW key
  PROVE  Sound(LoadFile(file, scope, t), GitReadsOf(file, t, read), key)
<1> DEFINE ss == t[file].settings
           fs == Pieces(ss, read)
           part(section) == Loaded(Entries(ss, section, scope, file), NotedIn(ss, section))
           piece(n) == IF OpensSection(ss, n) THEN part(ss[n].section) ELSE NoEntries
           parts == [n \in 1..Len(ss) |-> piece(n)]
<1>0. file \in STRING
  BY DEF ConfigTree
<1>1. CASE t[file].state # "ok"
  <2>1. LoadFile(file, scope, t) = Unloadable(t[file].state) /\ GitReadsOf(file, t, read) = <<>>
    BY <1>1 DEF LoadFile, GitReadsOf
  <2>2. QED BY <2>1, NothingLoaded, OneOfSeq DEF Sound, Unskipped
<1>2. CASE t[file].state = "ok"
  <2>1. /\ ss \in Seq(Settings) /\ DOMAIN ss = 1..Len(ss) /\ Len(ss) \in Nat /\ \A n \in 1..Len(ss) : ss[n] \in Settings
        /\ fs \in Seq(Seq(GitEntry)) /\ Len(fs) = Len(ss)
        /\ \A n \in 1..Len(ss) : ~GitFollows(ss[n]) => fs[n] = <<GitSetting(ss[n])>>
        /\ ReadWith(ss, read) = Flat(fs)
    <3>1. PiecesAre(ss, fs, t, read)
      BY PiecesType
    <3> HIDE DEF ss, fs
    <3>2. QED BY <3>1 DEF PiecesAre
  <2>2. GitReadsOf(file, t, read) = Flat(fs)
    BY <1>2, <2>1 DEF GitReadsOf
  <2>3. LoadFile(file, scope, t) = Joined(parts)
    <3>1. LoadFile(file, scope, t) = Joined([n \in DOMAIN ss |-> piece(n)])
      BY <1>2 DEF LoadFile, NotedIn
    <3> HIDE DEF piece, ss
    <3>2. [n \in DOMAIN ss |-> piece(n)] = parts
      BY <2>1
    <3>3. QED BY <3>1, <3>2
  <2>4. Straight(ss)
    OBVIOUS
  <2> HIDE DEF ss, fs
  <2>5. ASSUME NEW n \in 1..Len(ss), OpensSection(ss, n)
        PROVE  BlockSound(part(ss[n].section), fs, SectionAt(ss, ss[n].section), key)
    <3> DEFINE section == ss[n].section
               es == Entries(ss, section, scope, file)
    <3>1. NotedIn(ss, section) \in Seq(ConfigNote) /\ es \in Seq(ConfigEntry)
      <4> HIDE DEF section
      <4>1. es \in Seq(ConfigEntry)
        BY <1>0, <2>1, EntriesSay
      <4>2. QED BY <2>1, <4>1, NotesOfSection
    <3>2. /\ part(section).ok = TRUE /\ part(section).entries = es /\ part(section).skipped = NotedIn(ss, section)
          /\ WellLoaded(part(section))
      BY <3>1, LoadedFields
    <3>3. ASSUME NotedIn(ss, section) = <<>>, NEW m \in SectionAt(ss, section) PROVE fs[m] = <<GitSetting(ss[m])>>
      <4>1. m \in 1..Len(ss) /\ ss[m].section = section
        BY <2>1 DEF SectionAt
      <4>2. ~IncludesAlways(ss[m])
        <5>1. section = Include => ~IncludesAlways(ss[m])
          BY <2>1, <3>3, <4>1, NotesOfSection
        <5>2. QED BY <4>1, <5>1 DEF IncludesAlways
      <4>3. ~(ss[m].section = IncludeIf /\ ss[m].sub \in Holding)
        <5>1. section = IncludeIf => ~ConditionOpens(ss, m)
          BY <2>1, <3>3, <4>1, NotesOfSection
        <5>2. ss[m].section = IncludeIf /\ ss[m].sub # <<>> => ConditionOpens(ss, m)
          BY <2>1, <2>4, <4>1, ConditionsOpen
        <5>3. <<>> \notin Holding
          BY PatternsAssumption DEF Holding
        <5>4. QED BY <4>1, <5>1, <5>2, <5>3
      <4>4. QED BY <2>1, <4>1, <4>2, <4>3 DEF GitFollows
    <3>4. ASSUME NotedIn(ss, section) = <<>> PROVE BlockAgrees(es, fs, SectionAt(ss, section), key)
      <4>1. \A m \in SectionAt(ss, section) : fs[m] = <<GitSetting(ss[m])>>
        BY <3>3, <3>4
      <4> HIDE DEF section
      <4>2. QED BY <1>0, <2>1, <4>1, SectionSays
    <3> HIDE DEF es
    <3>5. QED BY <3>2, <3>4 DEF BlockSound, Unskipped
  <2>6. DOMAIN parts = 1..Len(ss)
    OBVIOUS
  <2>7. \A n \in 1..Len(ss) : /\ OpensSection(ss, n) => parts[n] = part(ss[n].section)
                              /\ ~OpensSection(ss, n) => parts[n] = NoEntries
    OBVIOUS
  <2> HIDE DEF parts, part
  <2>8. \A n \in 1..Len(ss) : /\ OpensSection(ss, n) => BlockSound(parts[n], fs, SectionAt(ss, ss[n].section), key)
                              /\ ~OpensSection(ss, n) => parts[n] = NoEntries
    BY <2>5, <2>7
  <2>9. Sound(Joined(parts), Flat(fs), key)
    BY <2>1, <2>4, <2>6, <2>8, SectionsJoined
  <2>10. QED BY <2>2, <2>3, <2>9
<1>3. QED BY <1>1, <1>2

-----------------------------------------------------------------------------
\* A file whose includes are loaded (loadConfigWithIncludes).

LEMMA NothingIsSound ==
  ASSUME NEW gs \in Seq(GitEntry), NEW key, None(gs, key)
  PROVE  Sound(NoEntries, gs, key) /\ NoEntries.ok = TRUE
BY NothingLoaded, NoneOfNothing DEF Sound, Agree

LEMMA NotedIsSound ==
  ASSUME NEW gs \in Seq(GitEntry), NEW key, NEW note \in ConfigNote
  PROVE  Sound(Loaded(<<>>, <<note>>), gs, key) /\ Loaded(<<>>, <<note>>).ok = TRUE
<1>1. <<note>> \in Seq(ConfigNote) /\ <<note>> # <<>> /\ <<>> \in Seq(ConfigEntry)
  <2>1. \A x : <<x>> # <<>>
    OBVIOUS
  <2>2. QED BY <2>1, OneOfSeq
<1>2. QED BY <1>1, LoadedFields DEF Sound, Unskipped

NotesAre(value, sub) ==
  /\ Note("unreadable", value) \in ConfigNote /\ Note("depth", value) \in ConfigNote
  /\ Note("includeIf", sub) \in ConfigNote
LEMMA NoteType == \A value \in STRING, sub \in Seq(STRING) : NotesAre(value, sub)
<1>1. \A w \in Skipping, x \in STRING \cup Seq(STRING) : Note(w, x) \in ConfigNote
  BY DEF Note, ConfigNote
<1>2. "unreadable" \in Skipping /\ "depth" \in Skipping /\ "includeIf" \in Skipping
  BY DEF Skipping
<1>3. QED BY <1>1, <1>2 DEF NotesAre

LEMMA IncludedIsSound ==
  ASSUME NEW loaded, NEW read, NEW f \in STRING, NEW key, Sound(loaded[f], read[f], key)
  PROVE  Sound(Included(f, loaded), read[f], key) /\ Included(f, loaded).ok = TRUE
<1>1. read[f] \in Seq(GitEntry) /\ loaded[f].ok \in BOOLEAN
  BY DEF Sound, WellLoaded
<1>2. CASE loaded[f].ok = TRUE
  <2>1. Included(f, loaded) = loaded[f]
    BY <1>2 DEF Included
  <2>2. QED BY <1>2, <2>1
<1>3. CASE loaded[f].ok = FALSE
  <2>1. Included(f, loaded) = Loaded(<<>>, <<Note("unreadable", f)>>)
    BY <1>3 DEF Included
  <2>2. Note("unreadable", f) \in ConfigNote
    <3>1. <<>> \in Seq(STRING)
      BY OneOfSeq
    <3>2. QED BY <3>1, NoteType DEF NotesAre
  <2>3. QED BY <1>1, <2>1, <2>2, NotedIsSound
<1>4. QED BY <1>1, <1>2, <1>3

AllSound(t, loaded, read, key) == \A f \in DOMAIN t : Sound(loaded[f], read[f], key)

\* A condition whose pattern is not relative to its file holds where git says.
LEMMA LoweredType == \A names \in Seq(STRING) : Lowered(names) \in Seq(STRING)
<1> SUFFICES ASSUME NEW names \in Seq(STRING) PROVE Lowered(names) \in Seq(STRING)
  OBVIOUS
<1>1. DOMAIN names = 1..Len(names) /\ Len(names) \in Nat /\ \A n \in 1..Len(names) : names[n] \in STRING
  BY LenProperties, ElementOfSeq
<1>2. \A n \in 1..Len(names) : (IF names[n] \in DOMAIN Lower THEN Lower[names[n]] ELSE names[n]) \in STRING
  BY <1>1, PatternsAssumption
<1>3. QED BY <1>1, <1>2 DEF Lowered

LEMMA MatchesAsGit ==
  ASSUME NEW sub, sub \in DOMAIN Patterns => Patterns[sub].start # "here"
  PROVE  Matches(sub) <=> sub \in Holding
<1> SUFFICES ASSUME sub \in DOMAIN Patterns PROVE MatchesGitDir(Patterns[sub]) <=> GitHolds(Patterns[sub])
  BY DEF Matches, Holding
<1> DEFINE p == Patterns[sub]
           cased(names) == IF p.ignoreCase THEN Lowered(names) ELSE names
           names == IF p.start = "home" THEN home \o p.names ELSE p.names
           before == p.start = "any"
           dirs == IF p.slash THEN Beginnings(cased(gitDir)) ELSE {cased(gitDir)}
<1>1. /\ p.start \in {"root", "home", "any"} /\ p.names \in Seq(STRING) /\ p.slash \in BOOLEAN
      /\ gitDir \in Seq(STRING) /\ home \in Seq(STRING)
  BY PatternsAssumption
<1>2. names \in Seq(STRING)
  <2>1. home \o p.names \in Seq(STRING)
    BY <1>1, ConcatProperties
  <2>2. QED BY <1>1, <2>1
<1>3. \A ns \in Seq(STRING) : cased(ns) \in Seq(STRING)
  BY LoweredType
<1>4. Prepared(p).names = names /\ Prepared(p).before = before /\ Prepared(p).after = p.slash
  BY <1>1 DEF Prepared
<1>5. MatchesGitDir(p) <=> Glob(cased(names), before, p.slash, cased(gitDir))
  <2> HIDE DEF p, names, before
  <2>1. QED BY <1>4 DEF MatchesGitDir
<1>6. GitHolds(p) <=> \E d \in dirs :
                        \/ p.start = "root" /\ d = cased(p.names)
                        \/ p.start = "home" /\ d = cased(home \o p.names)
                        \/ p.start = "any" /\ EndingIs(d, cased(p.names))
  <2> HIDE DEF p
  <2>1. \A s : Above(s) = Beginnings(s)
    BY DEF Above, Beginnings
  <2>2. \A s, ns : EndsIn(s, ns) <=> EndingIs(s, ns)
    BY DEF EndsIn, EndingIs
  <2>3. QED BY <2>1, <2>2 DEF GitHolds
<1>7. GitHolds(p) <=> \E d \in dirs : IF before THEN EndingIs(d, cased(names)) ELSE d = cased(names)
  <2> HIDE DEF p, cased, dirs
  <2>1. CASE p.start = "any"
    BY <1>6, <2>1
  <2>2. CASE p.start = "home"
    BY <1>6, <2>2
  <2>3. CASE p.start = "root"
    BY <1>6, <2>3
  <2>4. QED BY <1>1, <2>1, <2>2, <2>3
<1> DEFINE s == cased(gitDir)
           ns == cased(names)
<1>8. s \in Seq(STRING) /\ ns \in Seq(STRING) /\ before \in BOOLEAN
  BY <1>1, <1>2, <1>3
<1>9. Glob(ns, before, p.slash, s) <=>
        \E x \in 0..(Len(s) - Len(ns)) :
          (before \/ x = 0) /\ (p.slash \/ x + Len(ns) = Len(s)) /\ FoundAt(s, ns, x)
  <2> HIDE DEF p, s, ns, before
  <2>1. QED BY DEF Glob, FoundAt
<1>10. dirs = IF p.slash THEN Beginnings(s) ELSE {s}
  OBVIOUS
<1> HIDE DEF p, names, before, cased, dirs
<1>11. /\ MatchesGitDir(p) <=> Glob(ns, before, p.slash, s)
       /\ GitHolds(p) <=> \E d \in dirs : IF before THEN EndingIs(d, ns) ELSE d = ns
  BY <1>5, <1>7
<1> HIDE DEF s, ns
<1>12. Glob(ns, before, p.slash, s) <=> \E d \in dirs : IF before THEN EndingIs(d, ns) ELSE d = ns
  <2> DEFINE after == p.slash
  <2>1. after \in BOOLEAN /\ dirs = IF after THEN Beginnings(s) ELSE {s}
    BY <1>1, <1>10
  <2>2. Glob(ns, before, after, s) <=> PlacedIn(s, ns, before, after)
    BY <1>9 DEF PlacedIn
  <2> HIDE DEF after
  <2>3. (\E d \in dirs : IF before THEN EndingIs(d, ns) ELSE d = ns) <=> EndsABeginning(s, ns, before, after)
    BY <2>1 DEF EndsABeginning
  <2>4. PlacedIn(s, ns, before, after) <=> EndsABeginning(s, ns, before, after)
    BY <1>8, <2>1, PatternIsFound
  <2>5. QED BY <2>2, <2>3, <2>4 DEF after
<1>13. QED BY <1>11, <1>12 DEF p

LEMMA ConditionalIsSound ==
  ASSUME NEW t, ConfigTree(t), NEW loaded, NEW read, NEW key, AllSound(t, loaded, read, key),
         NEW ss, NEW fs, PiecesAre(ss, fs, t, read), Straight(ss), key[1] # IncludeIf,
         NEW n \in 1..Len(ss), ss[n].section = IncludeIf, ss[n].sub # <<>>
  PROVE  Sound(Conditional(ss, ss[n].sub, loaded), fs[n], key) /\ Conditional(ss, ss[n].sub, loaded).ok = TRUE
<1> DEFINE sub == ss[n].sub
           paths == {m \in DOMAIN ss : ss[m].section = IncludeIf /\ ss[m].sub = sub /\ ss[m].name = PathKey}
           r == Conditional(ss, sub, loaded)
           unheld == Loaded(<<>>, IF IsSupported(sub) THEN <<>> ELSE <<Note("includeIf", sub)>>)
<1>1. /\ ss \in Seq(Settings) /\ DOMAIN ss = 1..Len(ss) /\ n \in Nat /\ ss[n] \in Settings
      /\ GitFollows(ss[n]) => fs[n] = read[ss[n].value] /\ ss[n].value \in DOMAIN t
      /\ ~GitFollows(ss[n]) => fs[n] = <<GitSetting(ss[n])>>
  BY DEF PiecesAre
<1>2. None(<<GitSetting(ss[n])>>, key) /\ <<GitSetting(ss[n])>> \in Seq(GitEntry)
  <2>1. GitSetting(ss[n]) \in GitEntry /\ ss[n].section # key[1]
    BY <1>1, GitSettingType
  <2>2. QED BY <1>1, <2>1, OtherSection, OneOfSeq
<1>3. Include # IncludeIf
  BY DEF Include, IncludeIf
<1>4. \A m \in paths : m = n
  <2>1. \A m \in 1..Len(ss) : ss[m].section = IncludeIf /\ ss[m].sub = ss[n].sub => m = n
    BY <1>1, ConditionsOpen
  <2>2. QED BY <1>1, <2>1
<1>5. /\ GitFollows(ss[n]) <=> sub \in Holding /\ ss[n].name = PathKey
      /\ Matches(sub) <=> sub \in Holding
  <2>1. sub \in DOMAIN Patterns => Patterns[sub].start # "here"
    BY <1>1 DEF Straight
  <2>2. QED BY <1>3, <2>1, MatchesAsGit DEF GitFollows, IncludesAlways
<1>6. r = CASE paths = {} -> NoEntries
            [] paths # {} /\ Matches(sub) -> Included(ss[Max(paths)].value, loaded)
            [] OTHER -> unheld
  BY DEF Conditional
<1>7. n \in paths <=> ss[n].name = PathKey
  BY <1>1
<1> HIDE DEF paths, r, unheld
<1>8. CASE ss[n].name # PathKey
  <2>1. paths = {}
    BY <1>4, <1>7, <1>8
  <2>2. r = NoEntries
    BY <1>6, <2>1
  <2>3. fs[n] = <<GitSetting(ss[n])>>
    BY <1>1, <1>5, <1>8
  <2>4. QED BY <1>2, <2>2, <2>3, NothingIsSound DEF r
<1>9. CASE ss[n].name = PathKey /\ sub \in Holding
  <2>1. paths = {n}
    BY <1>4, <1>7, <1>9
  <2>2. Max(paths) = n
    BY <1>1, <2>1, GreatestOfOne
  <2>3. r = Included(ss[n].value, loaded)
    BY <1>5, <1>6, <1>9, <2>1, <2>2
  <2>4. fs[n] = read[ss[n].value] /\ ss[n].value \in DOMAIN t
    BY <1>1, <1>5, <1>9
  <2>5. ss[n].value \in STRING /\ Sound(loaded[ss[n].value], read[ss[n].value], key)
    <3>1. DOMAIN t \subseteq STRING
      BY DEF ConfigTree
    <3>2. \A f \in DOMAIN t : Sound(loaded[f], read[f], key)
      BY DEF AllSound
    <3>3. QED BY <2>4, <3>1, <3>2
  <2> DEFINE f == ss[n].value
  <2>6. f \in STRING /\ Sound(loaded[f], read[f], key)
    BY <2>5
  <2> HIDE DEF f
  <2>7. Sound(Included(f, loaded), read[f], key) /\ Included(f, loaded).ok = TRUE
    BY <2>6, IncludedIsSound
  <2>8. r = Included(f, loaded) /\ fs[n] = read[f]
    BY <2>3, <2>4 DEF f
  <2>9. Sound(r, fs[n], key) /\ r.ok = TRUE
    BY <2>7, <2>8
  <2>10. QED BY <2>9 DEF r
<1>10. CASE ss[n].name = PathKey /\ sub \notin Holding
  <2>1. paths # {} /\ ~Matches(sub)
    BY <1>5, <1>7, <1>10
  <2>2. r = unheld
    BY <1>6, <2>1
  <2>3. fs[n] = <<GitSetting(ss[n])>>
    BY <1>1, <1>5, <1>10
  <2>4. CASE IsSupported(sub)
    <3>1. unheld = NoEntries
      BY <2>4 DEF unheld, NoEntries
    <3>2. QED BY <1>2, <2>2, <2>3, <3>1, NothingIsSound DEF r
  <2>5. CASE ~IsSupported(sub)
    <3>1. unheld = Loaded(<<>>, <<Note("includeIf", sub)>>)
      BY <2>5 DEF unheld
    <3>2. Note("includeIf", sub) \in ConfigNote
      <4>1. sub \in Seq(STRING) /\ ss[n].value \in STRING
        BY <1>1 DEF Settings
      <4>2. QED BY <4>1, NoteType DEF NotesAre
    <3>3. QED BY <1>2, <2>2, <2>3, <3>1, <3>2, NotedIsSound DEF r
  <2>6. QED BY <2>4, <2>5
<1>11. QED BY <1>8, <1>9, <1>10

NoIncludeKey(key) == key[1] # Include /\ key[1] # IncludeIf

LEMMA IncludeSectionIsSound ==
  ASSUME NEW t, ConfigTree(t), NEW loaded, NEW read, NEW key, AllSound(t, loaded, read, key), NoIncludeKey(key),
         NEW ss, NEW fs, PiecesAre(ss, fs, t, read), Straight(ss), NEW scope, NEW file
  PROVE  BlockSound(LoadSection(ss, Include, scope, file, loaded), fs, SectionAt(ss, Include), key)
<1> DEFINE l == Len(ss)
           piece(n) == IF IncludesAlways(ss[n]) THEN Included(ss[n].value, loaded) ELSE NoEntries
           parts == [n \in 1..l |-> piece(n)]
           block == SectionAt(ss, Include)
<1>1. /\ DOMAIN ss = 1..l /\ l \in Nat /\ \A n \in 1..l : ss[n] \in Settings
      /\ fs \in Seq(Seq(GitEntry)) /\ Len(fs) = l
      /\ \A n \in 1..l : GitFollows(ss[n]) => fs[n] = read[ss[n].value] /\ ss[n].value \in DOMAIN t
      /\ \A n \in 1..l : ~GitFollows(ss[n]) => fs[n] = <<GitSetting(ss[n])>>
  BY DEF PiecesAre
<1>2. Include # IncludeIf
  BY DEF Include, IncludeIf
<1>3. LoadSection(ss, Include, scope, file, loaded) = Joined(parts)
  <2>1. LoadSection(ss, Include, scope, file, loaded) = Joined([n \in DOMAIN ss |-> piece(n)])
    BY <1>2 DEF LoadSection
  <2> HIDE DEF piece, l
  <2>2. [n \in DOMAIN ss |-> piece(n)] = parts
    BY <1>1
  <2>3. QED BY <2>1, <2>2
<1> HIDE DEF l
<1>4. block \in SUBSET (1..l)
  BY <1>1 DEF SectionAt
<1>5. ASSUME NEW n \in block PROVE Sound(piece(n), fs[n], key) /\ piece(n).ok = TRUE
  <2>1. n \in 1..l /\ ss[n].section = Include
    BY <1>1 DEF SectionAt
  <2>2. CASE IncludesAlways(ss[n])
    <3> DEFINE f == ss[n].value
    <3>1. fs[n] = read[f] /\ f \in DOMAIN t
      BY <1>1, <2>1, <2>2 DEF GitFollows
    <3>2. piece(n) = Included(f, loaded)
      BY <2>2
    <3> HIDE DEF f, piece
    <3>3. f \in STRING /\ Sound(loaded[f], read[f], key)
      <4>1. DOMAIN t \subseteq STRING
        BY DEF ConfigTree
      <4>2. f \in STRING
        BY <3>1, <4>1
      <4>3. \A g \in DOMAIN t : Sound(loaded[g], read[g], key)
        BY DEF AllSound
      <4>4. Sound(loaded[f], read[f], key)
        BY <3>1, <4>3
      <4>5. QED BY <4>2, <4>4
    <3>4. Sound(Included(f, loaded), read[f], key) /\ Included(f, loaded).ok = TRUE
      BY <3>3, IncludedIsSound
    <3>5. QED BY <3>1, <3>2, <3>4
  <2>3. CASE ~IncludesAlways(ss[n])
    <3>1. fs[n] = <<GitSetting(ss[n])>> /\ ss[n] \in Settings
      BY <1>1, <1>2, <2>1, <2>3 DEF GitFollows
    <3>2. None(fs[n], key) /\ fs[n] \in Seq(GitEntry)
      BY <2>1, <3>1, OtherSection, GitSettingType, OneOfSeq DEF NoIncludeKey
    <3>3. piece(n) = NoEntries
      BY <2>3
    <3> HIDE DEF piece
    <3>4. QED BY <3>2, <3>3, NothingIsSound
  <2>4. QED BY <2>2, <2>3
<1>6. ASSUME NEW n \in 1..l, n \notin block PROVE piece(n) = NoEntries
  <2>1. ss[n].section # Include
    BY <1>1, <1>6 DEF SectionAt
  <2>2. QED BY <2>1 DEF IncludesAlways
<1>7. DOMAIN parts = 1..l /\ \A n \in 1..l : parts[n] = piece(n)
  OBVIOUS
<1> HIDE DEF parts, piece, block
<1>8. /\ \A n \in block : Sound(parts[n], fs[n], key) /\ parts[n].ok = TRUE
      /\ \A n \in 1..l : n \notin block => parts[n] = NoEntries
  BY <1>4, <1>5, <1>6, <1>7
<1>9. BlockSound(Joined(parts), fs, block, key)
  BY <1>1, <1>4, <1>7, <1>8, BlockJoined
<1>10. QED BY <1>3, <1>9 DEF block

LEMMA IncludeIfSectionIsSound ==
  ASSUME NEW t, ConfigTree(t), NEW loaded, NEW read, NEW key, AllSound(t, loaded, read, key), NoIncludeKey(key),
         NEW ss, NEW fs, PiecesAre(ss, fs, t, read), Straight(ss), NEW scope, NEW file
  PROVE  BlockSound(LoadSection(ss, IncludeIf, scope, file, loaded), fs, SectionAt(ss, IncludeIf), key)
<1> DEFINE l == Len(ss)
           piece(n) == IF ConditionOpens(ss, n) THEN Conditional(ss, ss[n].sub, loaded) ELSE NoEntries
           parts == [n \in 1..l |-> piece(n)]
           block == SectionAt(ss, IncludeIf)
<1>1. /\ ss \in Seq(Settings) /\ DOMAIN ss = 1..l /\ l \in Nat /\ \A n \in 1..l : ss[n] \in Settings
      /\ fs \in Seq(Seq(GitEntry)) /\ Len(fs) = l
      /\ \A n \in 1..l : ~GitFollows(ss[n]) => fs[n] = <<GitSetting(ss[n])>>
  BY DEF PiecesAre
<1>2. Include # IncludeIf /\ <<>> \notin Holding
  BY PatternsAssumption DEF Include, IncludeIf, Holding
<1>3. LoadSection(ss, IncludeIf, scope, file, loaded) = Joined(parts)
  <2>1. LoadSection(ss, IncludeIf, scope, file, loaded) = Joined([n \in DOMAIN ss |-> piece(n)])
    BY <1>2 DEF LoadSection
  <2> HIDE DEF piece, l
  <2>2. [n \in DOMAIN ss |-> piece(n)] = parts
    BY <1>1
  <2>3. QED BY <2>1, <2>2
<1>4. block \in SUBSET (1..l)
  BY <1>1 DEF SectionAt
<1>5. ASSUME NEW n \in block PROVE Sound(piece(n), fs[n], key) /\ piece(n).ok = TRUE
  <2>1. n \in 1..Len(ss) /\ ss[n].section = IncludeIf
    BY <1>1 DEF SectionAt
  <2>2. CASE ConditionOpens(ss, n)
    <3>1. ss[n].sub # <<>>
      BY <2>2 DEF ConditionOpens, OpensSubsection
    <3>2. piece(n) = Conditional(ss, ss[n].sub, loaded)
      BY <2>2
    <3> HIDE DEF piece, block
    <3>3. Sound(Conditional(ss, ss[n].sub, loaded), fs[n], key) /\ Conditional(ss, ss[n].sub, loaded).ok = TRUE
      BY <2>1, <3>1, ConditionalIsSound DEF NoIncludeKey
    <3>4. QED BY <3>2, <3>3
  <2>3. CASE ~ConditionOpens(ss, n)
    <3>1. ss[n].sub = <<>>
      BY <1>1, <2>1, <2>3, ConditionsOpen
    <3>2. ~GitFollows(ss[n])
      BY <1>2, <2>1, <3>1 DEF GitFollows, IncludesAlways
    <3>3. fs[n] = <<GitSetting(ss[n])>> /\ ss[n] \in Settings
      BY <1>1, <2>1, <3>2
    <3>4. None(fs[n], key) /\ fs[n] \in Seq(GitEntry)
      BY <2>1, <3>3, OtherSection, GitSettingType, OneOfSeq DEF NoIncludeKey
    <3>5. piece(n) = NoEntries
      BY <2>3
    <3> HIDE DEF piece
    <3>6. QED BY <3>4, <3>5, NothingIsSound
  <2>4. QED BY <2>2, <2>3
<1> HIDE DEF l
<1>6. ASSUME NEW n \in 1..l, n \notin block PROVE piece(n) = NoEntries
  <2>1. ss[n].section # IncludeIf
    BY <1>1, <1>6 DEF SectionAt
  <2>2. QED BY <2>1 DEF ConditionOpens
<1>7. DOMAIN parts = 1..l /\ \A n \in 1..l : parts[n] = piece(n)
  OBVIOUS
<1> HIDE DEF parts, piece, block
<1>8. /\ \A n \in block : Sound(parts[n], fs[n], key) /\ parts[n].ok = TRUE
      /\ \A n \in 1..l : n \notin block => parts[n] = NoEntries
  BY <1>4, <1>5, <1>6, <1>7
<1>9. BlockSound(Joined(parts), fs, block, key)
  BY <1>1, <1>4, <1>7, <1>8, BlockJoined
<1>10. QED BY <1>3, <1>9 DEF block

LEMMA OtherSectionIsSound ==
  ASSUME NEW t, NEW read, NEW key, NEW ss, NEW fs, PiecesAre(ss, fs, t, read), NEW loaded,
         NEW scope \in ConfigScopes, NEW file \in STRING, NEW section, section # Include, section # IncludeIf
  PROVE  BlockSound(LoadSection(ss, section, scope, file, loaded), fs, SectionAt(ss, section), key)
<1> DEFINE es == Entries(ss, section, scope, file)
           r == LoadSection(ss, section, scope, file, loaded)
<1>1. /\ ss \in Seq(Settings) /\ DOMAIN ss = 1..Len(ss)
      /\ \A n \in 1..Len(ss) : ~GitFollows(ss[n]) => fs[n] = <<GitSetting(ss[n])>>
  BY DEF PiecesAre
<1>2. \A n \in SectionAt(ss, section) : fs[n] = <<GitSetting(ss[n])>>
  <2>1. \A n \in SectionAt(ss, section) : n \in 1..Len(ss) /\ ss[n].section = section
    BY <1>1 DEF SectionAt
  <2>2. \A n \in SectionAt(ss, section) : ~GitFollows(ss[n])
    BY <2>1 DEF GitFollows, IncludesAlways
  <2>3. QED BY <1>1, <2>1, <2>2
<1>3. es \in Seq(ConfigEntry)
  BY <1>1, EntriesSay
<1>4. BlockAgrees(es, fs, SectionAt(ss, section), key)
  BY <1>1, <1>2, SectionSays
<1>5. r = Loaded(es, <<>>)
  BY DEF LoadSection
<1> HIDE DEF es, r
<1>6. WellLoaded(r) /\ r.ok = TRUE /\ r.entries = es
  BY <1>3, <1>5, LoadedFields, OneOfSeq
<1>7. BlockSound(r, fs, SectionAt(ss, section), key)
  BY <1>4, <1>6 DEF BlockSound
<1>8. QED BY <1>7 DEF r

LEMMA FileWithIncludesIsSound ==
  ASSUME NEW t, ConfigTree(t), NEW loaded, NEW read, NEW key, AllSound(t, loaded, read, key), NoIncludeKey(key),
         NEW file \in DOMAIN t, Straight(t[file].settings), NEW scope \in ConfigScopes
  PROVE  Sound(LoadWith(file, scope, t, loaded), GitReadsOf(file, t, read), key)
<1> DEFINE ss == t[file].settings
           fs == Pieces(ss, read)
           part(section) == LoadSection(ss, section, scope, file, loaded)
           piece(n) == IF OpensSection(ss, n) THEN part(ss[n].section) ELSE NoEntries
           parts == [n \in 1..Len(ss) |-> piece(n)]
<1>0. file \in STRING /\ ReadsSettings(t, read)
  <2>1. file \in STRING
    BY DEF ConfigTree
  <2>2. ReadsSettings(t, read)
    BY DEF AllSound, Sound, ReadsSettings
  <2>3. QED BY <2>1, <2>2
<1>1. CASE t[file].state # "ok"
  <2>1. LoadWith(file, scope, t, loaded) = Unloadable(t[file].state) /\ GitReadsOf(file, t, read) = <<>>
    BY <1>1 DEF LoadWith, GitReadsOf
  <2>2. QED BY <2>1, NothingLoaded, OneOfSeq DEF Sound, Unskipped
<1>2. CASE t[file].state = "ok"
  <2>0. PiecesAre(ss, fs, t, read)
    BY <1>0, PiecesType
  <2>4. Straight(ss)
    OBVIOUS
  <2>2. GitReadsOf(file, t, read) = ReadWith(ss, read)
    BY <1>2 DEF GitReadsOf
  <2>3. LoadWith(file, scope, t, loaded) = Joined([n \in DOMAIN ss |-> piece(n)])
    BY <1>2 DEF LoadWith
  <2> HIDE DEF ss, fs
  <2>1. /\ ss \in Seq(Settings) /\ DOMAIN ss = 1..Len(ss) /\ Len(ss) \in Nat
        /\ fs \in Seq(Seq(GitEntry)) /\ Len(fs) = Len(ss) /\ ReadWith(ss, read) = Flat(fs)
    BY <2>0 DEF PiecesAre
  <2>5. ASSUME NEW section PROVE BlockSound(part(section), fs, SectionAt(ss, section), key)
    <3>1. CASE section = Include
      BY <2>0, <2>4, <3>1, IncludeSectionIsSound
    <3>2. CASE section = IncludeIf
      BY <2>0, <2>4, <3>2, IncludeIfSectionIsSound
    <3>3. CASE section # Include /\ section # IncludeIf
      BY <1>0, <2>0, <3>3, OtherSectionIsSound
    <3>4. QED BY <3>1, <3>2, <3>3
  <2>6. LoadWith(file, scope, t, loaded) = Joined(parts)
    <3> HIDE DEF piece
    <3>1. [n \in DOMAIN ss |-> piece(n)] = parts
      BY <2>1
    <3>2. QED BY <2>3, <3>1
  <2>7. /\ DOMAIN parts = 1..Len(ss)
        /\ \A n \in 1..Len(ss) : /\ OpensSection(ss, n) => parts[n] = part(ss[n].section)
                                 /\ ~OpensSection(ss, n) => parts[n] = NoEntries
    OBVIOUS
  <2> HIDE DEF parts, part
  <2>8. \A n \in 1..Len(ss) : /\ OpensSection(ss, n) => BlockSound(parts[n], fs, SectionAt(ss, ss[n].section), key)
                              /\ ~OpensSection(ss, n) => parts[n] = NoEntries
    BY <2>5, <2>7
  <2>9. Sound(Joined(parts), Flat(fs), key)
    BY <2>1, <2>4, <2>7, <2>8, SectionsJoined
  <2>10. QED BY <2>1, <2>2, <2>6, <2>9
<1>3. QED BY <1>1, <1>2

-----------------------------------------------------------------------------
(* Files that include one another, level by level: what aifr has loaded of   *)
(* each file, and what git reads of it, at each depth of include.            *)

LoadLevel(scope, t, f, depth) ==
  [file \in DOMAIN t |->
    IF depth > maxIncludeDepth THEN Loaded(<<>>, <<Note("depth", file)>>)
    ELSE LoadWith(file, IF depth = 0 THEN scope ELSE Include, t, f[depth + 1])]
ReadLevel(t, f, depth) ==
  [file \in DOMAIN t |->
    IF depth > maxIncludeDepth \/ t[file].state # "ok" THEN <<>> ELSE ReadWith(t[file].settings, f[depth + 1])]
DepthLevel(reads, scope, t, f, depth) == IF reads THEN ReadLevel(t, f, depth) ELSE LoadLevel(scope, t, f, depth)

DeepestInclude == maxIncludeDepth + 1
LevelsFrom(reads, scope, t, f, low) == f = [depth \in low..DeepestInclude |-> DepthLevel(reads, scope, t, f, depth)]

LEMMA LevelsExist == ASSUME NEW reads \in BOOLEAN, NEW scope, NEW t PROVE \E f : LevelsFrom(reads, scope, t, f, 0)
<1> DEFINE D == DeepestInclude
           L(f, depth) == DepthLevel(reads, scope, t, f, depth)
           From(f, low) == LevelsFrom(reads, scope, t, f, low)
           Q == {m \in Nat : m <= D => \E f : From(f, D - m)}
<1>1. D \in Nat /\ D = maxIncludeDepth + 1 /\ maxIncludeDepth \in Nat
  BY ConfigBoundsAssumption DEF DeepestInclude
<1>2. \A f, g : L(f, D) = L(g, D)
  <2>1. D > maxIncludeDepth
    BY <1>1
  <2> HIDE DEF D
  <2>2. \A f, g : ReadLevel(t, f, D) = ReadLevel(t, g, D) /\ LoadLevel(scope, t, f, D) = LoadLevel(scope, t, g, D)
    BY <2>1 DEF ReadLevel, LoadLevel
  <2>3. QED BY <2>2 DEF DepthLevel
<1>3. \A f, g, depth : f[depth + 1] = g[depth + 1] => L(f, depth) = L(g, depth)
  <2>1. ASSUME NEW f, NEW g, NEW depth, f[depth + 1] = g[depth + 1] PROVE L(f, depth) = L(g, depth)
    <3>1. ReadLevel(t, f, depth) = ReadLevel(t, g, depth)
      BY <2>1 DEF ReadLevel
    <3>2. LoadLevel(scope, t, f, depth) = LoadLevel(scope, t, g, depth)
      BY <2>1 DEF LoadLevel
    <3>3. QED BY <3>1, <3>2 DEF DepthLevel
  <2>2. QED BY <2>1
<1>4. \A f, low : From(f, low) <=> f = [depth \in low..D |-> L(f, depth)]
  BY DEF LevelsFrom
<1> HIDE DEF D, L, From
<1>5. 0 \in Q
  <2> DEFINE f == [depth \in D..D |-> L(<<>>, depth)]
  <2>1. \A depth \in D..D : depth = D
    BY <1>1
  <2>2. \A depth \in D..D : f[depth] = L(<<>>, depth)
    OBVIOUS
  <2>3. f = [depth \in D..D |-> f[depth]]
    OBVIOUS
  <2> HIDE DEF f
  <2>4. \A depth \in D..D : f[depth] = L(f, depth)
    BY <1>2, <2>1, <2>2
  <2>5. f = [depth \in D..D |-> L(f, depth)]
    BY <2>3, <2>4
  <2>6. From(f, D)
    BY <1>4, <2>5
  <2>7. D - 0 = D
    BY <1>1
  <2>8. QED BY <2>6, <2>7
<1>6. ASSUME NEW m \in Nat, m \in Q PROVE m + 1 \in Q
  <2> SUFFICES ASSUME m + 1 <= D PROVE \E g : From(g, D - (m + 1))
    OBVIOUS
  <2> DEFINE low == D - (m + 1)
  <2>1. low \in Nat /\ D - m = low + 1 /\ low < D /\ low \in low..D
    BY <1>1
  <2>2. PICK f : From(f, low + 1)
    BY <1>1, <1>6, <2>1
  <2> DEFINE g == [depth \in low..D |-> IF depth = low THEN L(f, low) ELSE f[depth]]
  <2> HIDE DEF low
  <2>3. /\ g[low] = L(f, low)
        /\ \A depth \in (low + 1)..D : g[depth] = f[depth]
        /\ \A depth \in low..D : depth = low \/ depth \in (low + 1)..D
    BY <1>1, <2>1
  <2>4. g = [depth \in low..D |-> g[depth]]
    OBVIOUS
  <2> HIDE DEF g
  <2>5. \A depth \in (low + 1)..D : f[depth] = L(f, depth)
    <3>1. f = [depth \in (low + 1)..D |-> L(f, depth)]
      BY <1>4, <2>2
    <3>2. QED BY <3>1
  <2>6. \A depth \in low..D : L(f, depth) = L(g, depth)
    <3>1. ASSUME NEW depth \in low..D PROVE depth = D \/ depth + 1 \in (low + 1)..D
      BY <1>1, <2>1
    <3>2. QED BY <1>2, <1>3, <2>3, <3>1
  <2>7. \A depth \in low..D : g[depth] = L(g, depth)
    BY <2>3, <2>5, <2>6
  <2>8. g = [depth \in low..D |-> L(g, depth)]
    BY <2>4, <2>7
  <2>9. From(g, low)
    BY <1>4, <2>8
  <2>10. QED BY <2>9 DEF low
<1>7. D \in Q
  <2> HIDE DEF Q
  <2> QED BY <1>1, <1>5, <1>6, InductionOnNat
<1>8. D - D = 0 /\ D <= D
  BY <1>1
<1>9. \E f : From(f, 0)
  BY <1>7, <1>8
<1>10. QED BY <1>9 DEF From

Loads(scope, t) == CHOOSE f : LevelsFrom(FALSE, scope, t, f, 0)
Reads(t) == CHOOSE f : LevelsFrom(TRUE, "", t, f, 0)

LEMMA LevelsUnfold ==
  ASSUME NEW scope, NEW t
  PROVE  /\ \A depth \in 0..DeepestInclude : Loads(scope, t)[depth] = LoadLevel(scope, t, Loads(scope, t), depth)
         /\ \A depth \in 0..DeepestInclude : Reads(t)[depth] = ReadLevel(t, Reads(t), depth)
         /\ \A file : LoadWithIncludes(file, scope, t) = Loads(scope, t)[0][file]
         /\ \A file : ReadsInPlace(file, t) = Reads(t)[0][file]
<1>1. LevelsFrom(FALSE, scope, t, Loads(scope, t), 0)
  BY LevelsExist DEF Loads
<1>2. LevelsFrom(TRUE, "", t, Reads(t), 0)
  BY LevelsExist DEF Reads
<1>3. \A f, depth : /\ DepthLevel(FALSE, scope, t, f, depth) = LoadLevel(scope, t, f, depth)
                    /\ DepthLevel(TRUE, "", t, f, depth) = ReadLevel(t, f, depth)
  BY DEF DepthLevel
<1>4. \A depth \in 0..DeepestInclude : Loads(scope, t)[depth] = LoadLevel(scope, t, Loads(scope, t), depth)
  <2> DEFINE f == Loads(scope, t)
  <2>1. f = [depth \in 0..DeepestInclude |-> DepthLevel(FALSE, scope, t, f, depth)]
    BY <1>1 DEF LevelsFrom
  <2> HIDE DEF f
  <2>2. \A depth \in 0..DeepestInclude : f[depth] = DepthLevel(FALSE, scope, t, f, depth)
    BY <2>1
  <2>3. QED BY <1>3, <2>2 DEF f
<1>5. \A depth \in 0..DeepestInclude : Reads(t)[depth] = ReadLevel(t, Reads(t), depth)
  <2> DEFINE f == Reads(t)
  <2>1. f = [depth \in 0..DeepestInclude |-> DepthLevel(TRUE, "", t, f, depth)]
    BY <1>2 DEF LevelsFrom
  <2> HIDE DEF f
  <2>2. \A depth \in 0..DeepestInclude : f[depth] = DepthLevel(TRUE, "", t, f, depth)
    BY <2>1
  <2>3. QED BY <1>3, <2>2 DEF f
<1>6. \A file : LoadWithIncludes(file, scope, t) = Loads(scope, t)[0][file]
  <2>1. \A f : LevelsFrom(FALSE, scope, t, f, 0) <=> f = [depth \in 0..(maxIncludeDepth + 1) |-> LoadLevel(scope, t, f, depth)]
    BY <1>3 DEF LevelsFrom, DeepestInclude
  <2>2. Loads(scope, t) = CHOOSE f : f = [depth \in 0..(maxIncludeDepth + 1) |-> LoadLevel(scope, t, f, depth)]
    BY <2>1 DEF Loads
  <2>3. QED BY <2>2 DEF LoadWithIncludes, LoadLevel
<1>7. \A file : ReadsInPlace(file, t) = Reads(t)[0][file]
  <2>1. \A f : LevelsFrom(TRUE, "", t, f, 0) <=> f = [depth \in 0..(maxIncludeDepth + 1) |-> ReadLevel(t, f, depth)]
    BY <1>3 DEF LevelsFrom, DeepestInclude
  <2>2. Reads(t) = CHOOSE f : f = [depth \in 0..(maxIncludeDepth + 1) |-> ReadLevel(t, f, depth)]
    BY <2>1 DEF Reads
  <2>3. QED BY <2>2 DEF ReadsInPlace, ReadLevel
<1>8. QED BY <1>4, <1>5, <1>6, <1>7

Whole(t) == ConfigTree(t) /\ \A f \in DOMAIN t : Straight(t[f].settings)

LEMMA DeepestIsSound ==
  ASSUME NEW t, ConfigTree(t), NEW key, NEW scope
  PROVE  AllSound(t, Loads(scope, t)[DeepestInclude], Reads(t)[DeepestInclude], key)
<1> DEFINE D == DeepestInclude
<1>1. D \in 0..DeepestInclude /\ D > maxIncludeDepth
  BY ConfigBoundsAssumption DEF DeepestInclude
<1>2. Loads(scope, t)[D] = LoadLevel(scope, t, Loads(scope, t), D) /\ Reads(t)[D] = ReadLevel(t, Reads(t), D)
  BY <1>1, LevelsUnfold
<1> HIDE DEF D
<1>3. \A file \in DOMAIN t : Loads(scope, t)[D][file] = Loaded(<<>>, <<Note("depth", file)>>)
  BY <1>1, <1>2 DEF LoadLevel
<1>4. \A file \in DOMAIN t : Reads(t)[D][file] = <<>>
  BY <1>1, <1>2 DEF ReadLevel
<1>5. ASSUME NEW file \in DOMAIN t PROVE Sound(Loads(scope, t)[D][file], Reads(t)[D][file], key)
  <2>1. DOMAIN t \subseteq STRING
    BY DEF ConfigTree
  <2>2. file \in STRING
    BY <2>1
  <2>3. <<>> \in Seq(STRING) /\ <<>> \in Seq(GitEntry)
    BY OneOfSeq
  <2>4. Note("depth", file) \in ConfigNote
    BY <2>2, <2>3, NoteType DEF NotesAre
  <2>5. QED BY <1>3, <1>4, <2>3, <2>4, NotedIsSound
<1>6. QED BY <1>5 DEF AllSound, D

LEMMA DepthIsSound ==
  ASSUME NEW t, Whole(t), NEW key, NoIncludeKey(key), NEW scope \in ConfigScopes, NEW depth \in 0..maxIncludeDepth,
         AllSound(t, Loads(scope, t)[depth + 1], Reads(t)[depth + 1], key)
  PROVE  AllSound(t, Loads(scope, t)[depth], Reads(t)[depth], key)
<1> DEFINE loaded == Loads(scope, t)[depth + 1]
           read == Reads(t)[depth + 1]
           under == IF depth = 0 THEN scope ELSE Include
<1>1. depth \in 0..DeepestInclude /\ ~(depth > maxIncludeDepth)
  BY ConfigBoundsAssumption DEF DeepestInclude
<1>2. Loads(scope, t)[depth] = LoadLevel(scope, t, Loads(scope, t), depth) /\ Reads(t)[depth] = ReadLevel(t, Reads(t), depth)
  BY <1>1, LevelsUnfold
<1>3. under \in ConfigScopes
  BY DEF ConfigScopes, Include
<1>4. \A file \in DOMAIN t : Loads(scope, t)[depth][file] = LoadWith(file, under, t, loaded)
  BY <1>1, <1>2 DEF LoadLevel
<1>5. \A file \in DOMAIN t : Reads(t)[depth][file] = GitReadsOf(file, t, read)
  BY <1>1, <1>2 DEF ReadLevel, GitReadsOf
<1>6. AllSound(t, loaded, read, key)
  OBVIOUS
<1> HIDE DEF loaded, read, under
<1>7. ASSUME NEW file \in DOMAIN t PROVE Sound(LoadWith(file, under, t, loaded), GitReadsOf(file, t, read), key)
  <2>1. ConfigTree(t) /\ Straight(t[file].settings)
    BY DEF Whole
  <2>2. QED BY <1>3, <1>6, <2>1, FileWithIncludesIsSound
<1>8. QED BY <1>4, <1>5, <1>7 DEF AllSound

LEMMA AllDepthsAreSound ==
  ASSUME NEW t, Whole(t), NEW key, NoIncludeKey(key), NEW scope \in ConfigScopes
  PROVE  \A depth \in 0..DeepestInclude : AllSound(t, Loads(scope, t)[depth], Reads(t)[depth], key)
<1> DEFINE D == DeepestInclude
           S(depth) == AllSound(t, Loads(scope, t)[depth], Reads(t)[depth], key)
           Q == {m \in Nat : m <= D => S(D - m)}
<1>1. D \in Nat /\ D = maxIncludeDepth + 1 /\ maxIncludeDepth \in Nat
  BY ConfigBoundsAssumption DEF DeepestInclude
<1>2. S(D)
  BY DeepestIsSound DEF Whole
<1>3. \A depth \in 0..maxIncludeDepth : S(depth + 1) => S(depth)
  BY DepthIsSound
<1> HIDE DEF D, S
<1>4. 0 \in Q
  <2>1. D - 0 = D
    BY <1>1
  <2>2. QED BY <1>2, <2>1
<1>5. ASSUME NEW m \in Nat, m \in Q PROVE m + 1 \in Q
  <2> SUFFICES ASSUME m + 1 <= D PROVE S(D - (m + 1))
    OBVIOUS
  <2>1. D - (m + 1) \in 0..maxIncludeDepth /\ (D - (m + 1)) + 1 = D - m /\ m <= D
    BY <1>1
  <2>2. S(D - m)
    BY <1>5, <2>1
  <2>3. QED BY <1>3, <2>1, <2>2
<1>6. Nat \subseteq Q
  <2> HIDE DEF Q
  <2> QED BY <1>4, <1>5, InductionOnNat
<1>7. ASSUME NEW depth \in 0..D PROVE S(depth)
  <2>1. D - depth \in Nat /\ D - depth <= D /\ D - (D - depth) = depth
    BY <1>1
  <2>2. D - depth \in Q
    BY <1>6, <2>1
  <2>3. QED BY <2>1, <2>2
<1>8. QED BY <1>7 DEF S, D

\* What a file at the top comes to, its includes loaded or only noted.
TopSound(r, t, file, key) == Sound(r, ReadsInPlace(file, t), key) /\ (r.ok = FALSE => ReadsInPlace(file, t) = <<>>)

LEMMA TopFilesAreSound ==
  ASSUME NEW t, Whole(t), NEW key, NoIncludeKey(key), NEW scope \in ConfigScopes, NEW file \in DOMAIN t
  PROVE  TopSound(LoadFile(file, scope, t), t, file, key) /\ TopSound(LoadWithIncludes(file, scope, t), t, file, key)
<1> DEFINE loaded == Loads(scope, t)[1]
           read == Reads(t)[1]
<1>1. 0 \in 0..DeepestInclude /\ 1 \in 0..DeepestInclude /\ ~(0 > maxIncludeDepth) /\ 0 + 1 = 1
  BY ConfigBoundsAssumption DEF DeepestInclude
<1>2. /\ Loads(scope, t)[0] = LoadLevel(scope, t, Loads(scope, t), 0) /\ Reads(t)[0] = ReadLevel(t, Reads(t), 0)
      /\ LoadWithIncludes(file, scope, t) = Loads(scope, t)[0][file] /\ ReadsInPlace(file, t) = Reads(t)[0][file]
  BY <1>1, LevelsUnfold
<1>3. LoadWithIncludes(file, scope, t) = LoadWith(file, scope, t, loaded)
  BY <1>1, <1>2 DEF LoadLevel
<1>4. ReadsInPlace(file, t) = GitReadsOf(file, t, read)
  BY <1>1, <1>2 DEF ReadLevel, GitReadsOf
<1>5. AllSound(t, loaded, read, key)
  BY <1>1, AllDepthsAreSound
<1> HIDE DEF loaded, read
<1>6. ConfigTree(t) /\ Straight(t[file].settings) /\ ReadsSettings(t, read)
  <2>1. ConfigTree(t) /\ Straight(t[file].settings)
    BY DEF Whole
  <2>2. ReadsSettings(t, read)
    BY <1>5 DEF AllSound, Sound, ReadsSettings
  <2>3. QED BY <2>1, <2>2
<1>7. Sound(LoadFile(file, scope, t), GitReadsOf(file, t, read), key)
  BY <1>6, FileIsSound
<1>8. Sound(LoadWith(file, scope, t, loaded), GitReadsOf(file, t, read), key)
  BY <1>5, <1>6, FileWithIncludesIsSound
<1>9. \A parts : Joined(parts).ok = TRUE
  BY LoadedFields DEF Joined
<1>10. t[file].state = "ok" => LoadFile(file, scope, t).ok = TRUE /\ LoadWith(file, scope, t, loaded).ok = TRUE
  BY <1>9 DEF LoadFile, LoadWith
<1>11. t[file].state # "ok" => GitReadsOf(file, t, read) = <<>>
  BY DEF GitReadsOf
<1>12. QED BY <1>3, <1>4, <1>7, <1>8, <1>10, <1>11 DEF TopSound

-----------------------------------------------------------------------------
(* All the files, and the value a merged answer takes for a key.            *)

TopFilesIn(t) ==
  /\ SystemFile \in DOMAIN t /\ LocalFile \in DOMAIN t /\ WorktreeFile \in DOMAIN t
  /\ \A n \in DOMAIN GlobalFiles : GlobalFiles[n] \in DOMAIN t
LEMMA TreesAreConfigTrees == \A t \in ConfigTrees : ConfigTree(t) /\ TopFilesIn(t)
<1> SUFFICES ASSUME NEW t \in ConfigTrees PROVE ConfigTree(t) /\ TopFilesIn(t)
  OBVIOUS
<1>1. /\ DOMAIN t \subseteq STRING /\ {SystemFile, LocalFile, WorktreeFile} \cup ToSet(GlobalFiles) \subseteq DOMAIN t
      /\ \A p \in DOMAIN t :
           /\ t[p].settings \in Seq(Settings)
           /\ \A n \in DOMAIN t[p].settings : Includes(t[p].settings[n]) => t[p].settings[n].value \in DOMAIN t
  BY ConfigTreesAssumption
<1>2. ConfigTree(t)
  BY <1>1 DEF ConfigTree
<1>3. \A n \in DOMAIN GlobalFiles : GlobalFiles[n] \in ToSet(GlobalFiles)
  BY DEF ToSet
<1>4. QED BY <1>1, <1>2, <1>3 DEF TopFilesIn

\* Of the global files that git reads aifr reads the one there is.
GlobalReads(t) == [n \in DOMAIN GlobalFiles |-> ReadsInPlace(GlobalFiles[n], t)]

LEMMA OneGlobalFile ==
  ASSUME NEW t, Ordinary(t)
  PROVE  \E g \in DOMAIN GlobalFiles :
           /\ GlobalFile(t) = GlobalFiles[g]
           /\ \A n \in DOMAIN GlobalFiles : n # g => t[GlobalFiles[n]].state = "missing"
<1> DEFINE existing == {n \in DOMAIN GlobalFiles : t[GlobalFiles[n]].state # "missing"}
<1>1. DOMAIN GlobalFiles = 1..Len(GlobalFiles) /\ Len(GlobalFiles) \in Nat /\ Len(GlobalFiles) # 0
  BY ConfigBoundsAssumption, LenProperties, EmptySeq
<1>2. \A m, n \in DOMAIN GlobalFiles :
        m # n => t[GlobalFiles[m]].state = "missing" \/ t[GlobalFiles[n]].state = "missing"
  BY DEF Ordinary
<1>3. CASE existing = {}
  <2>1. GlobalFile(t) = GlobalFiles[Len(GlobalFiles)]
    BY <1>3 DEF GlobalFile, Last
  <2>2. Len(GlobalFiles) \in DOMAIN GlobalFiles
    BY <1>1
  <2>3. QED BY <1>3, <2>1, <2>2
<1>4. CASE existing # {}
  <2>1. PICK g \in DOMAIN GlobalFiles : t[GlobalFiles[g]].state # "missing"
    BY <1>4
  <2>2. existing = {g} /\ g \in Nat
    BY <1>1, <1>2, <2>1
  <2>3. GlobalFile(t) = GlobalFiles[Min(existing)]
    BY <1>4 DEF GlobalFile
  <2>4. Min(existing) = g
    <3> HIDE DEF existing
    <3> QED BY <2>2, LeastOfOne
  <2>5. QED BY <1>2, <2>1, <2>3, <2>4
<1>5. QED BY <1>3, <1>4

SourceSound(r, gs, key) == Sound(r, gs, key) /\ (r.ok = FALSE => None(gs, key))

LEMMA TopIsSource ==
  \A r, t, file, key : TopSound(r, t, file, key) => SourceSound(r, ReadsInPlace(file, t), key)
BY NoneOfNothing DEF TopSound, SourceSound

LEMMA MissingReadsNothing ==
  ASSUME NEW t, NEW file \in DOMAIN t, t[file].state = "missing"
  PROVE  ReadsInPlace(file, t) = <<>>
<1>1. Reads(t)[0] = ReadLevel(t, Reads(t), 0) /\ ReadsInPlace(file, t) = Reads(t)[0][file]
  <2>1. 0 \in 0..DeepestInclude
    BY ConfigBoundsAssumption DEF DeepestInclude
  <2>2. QED BY <2>1, LevelsUnfold
<1>2. QED BY <1>1 DEF ReadLevel

LEMMA GlobalIsSound ==
  ASSUME NEW t, Whole(t), TopFilesIn(t), Ordinary(t), NEW key, NoIncludeKey(key)
  PROVE  SourceSound(LoadWithIncludes(GlobalFile(t), "global", t), Flat(GlobalReads(t)), key)
<1> DEFINE gs == GlobalReads(t)
           r == LoadWithIncludes(GlobalFile(t), "global", t)
           l == Len(GlobalFiles)
<1>1. PICK g \in DOMAIN GlobalFiles :
        /\ GlobalFile(t) = GlobalFiles[g]
        /\ \A n \in DOMAIN GlobalFiles : n # g => t[GlobalFiles[n]].state = "missing"
  BY OneGlobalFile
<1>2. DOMAIN GlobalFiles = 1..l /\ l \in Nat
  BY ConfigBoundsAssumption, LenProperties
<1>3. \A n \in DOMAIN GlobalFiles : GlobalFiles[n] \in DOMAIN t
  BY DEF TopFilesIn
<1>4. "global" \in ConfigScopes
  BY DEF ConfigScopes
<1>5. ASSUME NEW n \in 1..l PROVE gs[n] \in Seq(GitEntry)
  <2>1. gs[n] = ReadsInPlace(GlobalFiles[n], t) /\ GlobalFiles[n] \in DOMAIN t
    BY <1>2, <1>3 DEF GlobalReads
  <2>2. QED BY <1>4, <2>1, TopFilesAreSound DEF TopSound, Sound
<1>6. gs \in Seq(Seq(GitEntry)) /\ Len(gs) = l
  <2>1. DOMAIN gs = 1..l /\ gs = [n \in 1..l |-> gs[n]]
    BY <1>2 DEF GlobalReads
  <2> HIDE DEF gs
  <2>2. gs \in [1..l -> Seq(GitEntry)]
    BY <1>5, <2>1
  <2>3. QED BY <1>2, <2>2
<1>7. \A n \in 1..l : n # g => gs[n] = <<>>
  BY <1>1, <1>2, <1>3, MissingReadsNothing DEF GlobalReads
<1>8. TopSound(r, t, GlobalFiles[g], key) /\ gs[g] = ReadsInPlace(GlobalFiles[g], t)
  BY <1>1, <1>3, <1>4, TopFilesAreSound DEF GlobalReads
<1>9. SourceSound(r, gs[g], key)
  BY <1>8, TopIsSource
<1> HIDE DEF gs, r, l
<1>10. \A n \in 1..l : n # g => None(gs[n], key)
  BY <1>7, NoneOfNothing
<1>11. FlatSays(gs, key) /\ Flat(gs) \in Seq(GitEntry)
  BY <1>6, FlatEnds, FlatType
<1>12. None(gs[g], key) => None(Flat(gs), key)
  BY <1>6, <1>10, <1>11 DEF FlatSays, NoneIn
<1>13. \A v : EndsWith(gs[g], key, v) => EndsWith(Flat(gs), key, v)
  <2>1. ASSUME NEW v, EndsWith(gs[g], key, v) PROVE LastEnds(gs, key, v)
    <3>1. \A m \in 1..l : m > g => None(gs[m], key)
      BY <1>1, <1>2, <1>10
    <3>2. QED BY <1>1, <1>2, <1>6, <2>1, <3>1 DEF LastEnds
  <2>2. QED BY <1>11, <2>1 DEF FlatSays
<1>14. Sound(r, gs[g], key) /\ (r.ok = FALSE => None(gs[g], key))
  BY <1>9 DEF SourceSound
<1>15. Agree(r.entries, gs[g], key) => Agree(r.entries, Flat(gs), key)
  BY <1>12, <1>13 DEF Agree
<1>16. Sound(r, Flat(gs), key)
  BY <1>11, <1>14, <1>15 DEF Sound
<1>17. QED BY <1>12, <1>14, <1>16 DEF SourceSound, gs, r

\* A file that cannot be loaded is passed over.
PassedOver(r) == IF r.ok THEN r ELSE NoEntries
LEMMA PassedOverIsSound ==
  ASSUME NEW r, NEW gs, NEW key, SourceSound(r, gs, key)
  PROVE  Sound(PassedOver(r), gs, key)
<1>1. Sound(r, gs, key) /\ gs \in Seq(GitEntry) /\ r.ok \in BOOLEAN
  BY DEF SourceSound, Sound, WellLoaded
<1>2. CASE r.ok = TRUE
  BY <1>1, <1>2 DEF PassedOver
<1>3. CASE r.ok = FALSE
  <2>1. None(gs, key) /\ PassedOver(r) = NoEntries
    BY <1>3 DEF SourceSound, PassedOver
  <2>2. QED BY <1>1, <2>1, NothingIsSound
<1>4. QED BY <1>1, <1>2, <1>3

LEMMA AllIsSound ==
  ASSUME NEW t, Whole(t), TopFilesIn(t), Ordinary(t), NEW key, NoIncludeKey(key)
  PROVE  Sound(LoadAll(t), GitReads(t), key) /\ LoadAll(t).ok = TRUE
<1> DEFINE parts == [n \in 1..4 |-> PassedOver(Merged(t)[n])]
           gs == << ReadsInPlace(SystemFile, t), Flat(GlobalReads(t)),
                    ReadsInPlace(LocalFile, t), ReadsInPlace(WorktreeFile, t) >>
           es == [n \in 1..4 |-> parts[n].entries]
           r == Joined(parts)
<1>1. LoadAll(t) = r
  BY DEF LoadAll, PassedOver
<1>2. GitReads(t) = Flat(gs)
  <2>1. ~WorktreeConfigured(t) => ReadsInPlace(WorktreeFile, t) = <<>>
    BY MissingReadsNothing DEF Ordinary, TopFilesIn
  <2>2. (IF WorktreeConfigured(t) THEN ReadsInPlace(WorktreeFile, t) ELSE <<>>) = ReadsInPlace(WorktreeFile, t)
    BY <2>1
  <2>3. QED BY <2>2 DEF GitReads, GlobalReads
<1>3. /\ SourceSound(LoadFile(SystemFile, "system", t), ReadsInPlace(SystemFile, t), key)
      /\ SourceSound(LoadWithIncludes(LocalFile, "local", t), ReadsInPlace(LocalFile, t), key)
      /\ SourceSound(LoadFile(WorktreeFile, "worktree", t), ReadsInPlace(WorktreeFile, t), key)
  <2>1. SystemFile \in DOMAIN t /\ LocalFile \in DOMAIN t /\ WorktreeFile \in DOMAIN t
    BY DEF TopFilesIn
  <2>2. "system" \in ConfigScopes /\ "local" \in ConfigScopes /\ "worktree" \in ConfigScopes
    BY DEF ConfigScopes
  <2>3. TopSound(LoadFile(SystemFile, "system", t), t, SystemFile, key)
    BY <2>1, <2>2, TopFilesAreSound
  <2>4. TopSound(LoadWithIncludes(LocalFile, "local", t), t, LocalFile, key)
    BY <2>1, <2>2, TopFilesAreSound
  <2>5. TopSound(LoadFile(WorktreeFile, "worktree", t), t, WorktreeFile, key)
    BY <2>1, <2>2, TopFilesAreSound
  <2>6. QED BY <2>3, <2>4, <2>5, TopIsSource
<1>4. SourceSound(LoadWithIncludes(GlobalFile(t), "global", t), Flat(GlobalReads(t)), key)
  BY GlobalIsSound
<1>5. /\ parts[1] = PassedOver(LoadFile(SystemFile, "system", t))
      /\ parts[2] = PassedOver(LoadWithIncludes(GlobalFile(t), "global", t))
      /\ parts[3] = PassedOver(LoadWithIncludes(LocalFile, "local", t))
      /\ parts[4] = PassedOver(LoadFile(WorktreeFile, "worktree", t))
      /\ DOMAIN parts = 1..4
  BY DEF Merged
<1>6. gs[1] = ReadsInPlace(SystemFile, t) /\ gs[2] = Flat(GlobalReads(t)) /\ gs[3] = ReadsInPlace(LocalFile, t)
      /\ gs[4] = ReadsInPlace(WorktreeFile, t) /\ Len(gs) = 4 /\ gs = [n \in 1..4 |-> gs[n]]
  OBVIOUS
<1> HIDE DEF parts, gs
<1>7. \A n \in 1..4 : Sound(parts[n], gs[n], key)
  <2>1. Sound(parts[1], gs[1], key) /\ Sound(parts[2], gs[2], key) /\ Sound(parts[3], gs[3], key) /\ Sound(parts[4], gs[4], key)
    BY <1>3, <1>4, <1>5, <1>6, PassedOverIsSound
  <2>2. \A n \in 1..4 : n = 1 \/ n = 2 \/ n = 3 \/ n = 4
    OBVIOUS
  <2>3. QED BY <2>1, <2>2
<1>8. \A n \in 1..4 : WellLoaded(parts[n]) /\ gs[n] \in Seq(GitEntry)
  BY <1>7 DEF Sound
<1>9. gs \in Seq(Seq(GitEntry))
  <2> DEFINE w == ReadsInPlace(SystemFile, t)
             x == Flat(GlobalReads(t))
             y == ReadsInPlace(LocalFile, t)
             z == ReadsInPlace(WorktreeFile, t)
  <2>1. w \in Seq(GitEntry) /\ x \in Seq(GitEntry) /\ y \in Seq(GitEntry) /\ z \in Seq(GitEntry)
    BY <1>6, <1>8
  <2>2. gs = <<w, x, y, z>>
    BY DEF gs
  <2> HIDE DEF w, x, y, z
  <2>3. <<w, x, y, z>> \in Seq(Seq(GitEntry))
    BY <2>1
  <2>4. QED BY <2>2, <2>3
<1>10. /\ r.ok = TRUE /\ r.entries = Flat(es) /\ WellLoaded(r) /\ es \in Seq(Seq(ConfigEntry)) /\ Len(es) = 4
       /\ r.skipped = <<>> => \A n \in 1..4 : parts[n].skipped = <<>>
  BY <1>5, <1>8, JoinedFields
<1>11. \A n \in 1..4 : es[n] = parts[n].entries
  OBVIOUS
<1>12. \A n \in 1..4 : parts[n].ok = TRUE
  <2>1. \A x : x.ok \in BOOLEAN => PassedOver(x).ok = TRUE
    BY NothingLoaded DEF PassedOver
  <2>2. \A x, y : SourceSound(x, y, key) => x.ok \in BOOLEAN
    BY DEF SourceSound, Sound, WellLoaded
  <2>3. parts[1].ok = TRUE /\ parts[2].ok = TRUE /\ parts[3].ok = TRUE /\ parts[4].ok = TRUE
    BY <1>3, <1>4, <1>5, <2>1, <2>2
  <2>4. \A n \in 1..4 : n = 1 \/ n = 2 \/ n = 3 \/ n = 4
    OBVIOUS
  <2>5. QED BY <2>3, <2>4
<1> HIDE DEF es, r
<1>13. ASSUME r.skipped = <<>> PROVE Agree(Flat(es), Flat(gs), key)
  <2>1. \A n \in 1..4 : Agree(es[n], gs[n], key)
    BY <1>7, <1>10, <1>11, <1>12, <1>13 DEF Sound, Unskipped
  <2>2. QED BY <1>6, <1>9, <1>10, <2>1, AllAgree
<1>14. Flat(gs) \in Seq(GitEntry)
  BY <1>9, FlatType
<1>15. Sound(r, Flat(gs), key)
  BY <1>10, <1>13, <1>14 DEF Sound, Unskipped
<1>16. QED BY <1>1, <1>2, <1>10, <1>15

\* The last entry of a key, where entries end with it.
LEMMA LastOfNone == \A es, key : None(es, key) => LastOf(es, key) = <<>>
BY DEF None, LastOf

LEMMA LastOfEnds ==
  ASSUME NEW S, NEW es \in Seq(S), NEW key, NEW v, EndsWith(es, key, v)
  PROVE  \E e \in S : LastOf(es, key) = <<e>> /\ e.key = key /\ e.value = v
<1> DEFINE found == {n \in DOMAIN es : es[n].key = key}
<1>1. DOMAIN es = 1..Len(es) /\ Len(es) \in Nat
  BY LenProperties
<1>2. PICK n \in DOMAIN es : es[n].key = key /\ es[n].value = v /\ \A m \in DOMAIN es : m > n => es[m].key # key
  BY DEF EndsWith
<1>3. n \in found /\ \A m \in found : m <= n /\ m \in Nat
  BY <1>1, <1>2
<1>4. LastOf(es, key) = <<es[Max(found)]>>
  BY <1>3 DEF LastOf
<1> HIDE DEF found
<1>5. Max(found) = n
  <2>1. n \in Nat /\ \E x \in found : \A y \in found : x >= y
    BY <1>3
  <2>2. Max(found) \in found /\ \A y \in found : Max(found) >= y
    BY <2>1 DEF Max
  <2>3. QED BY <1>3, <2>1, <2>2
<1>6. es[n] \in S
  BY <1>2, ElementOfSeq
<1>7. QED BY <1>2, <1>4, <1>5, <1>6

\* Of settings whose keys are in one spelling, those that read the same but for
\* case are those of the key.
LEMMA FoldedParts ==
  ASSUME NEW key, NEW other, key # <<>>, key \in Seq(STRING), other \in Seq(STRING), other # <<>>, EqualFold(other, key)
  PROVE  other[1] = key[1]
<1>1. DOMAIN key = 1..Len(key) /\ DOMAIN other = 1..Len(other) /\ Len(key) \in Nat \ {0} /\ Len(other) \in Nat \ {0}
  BY LenProperties, EmptySeq
<1>2. FoldedKey(other) = FoldedKey(key)
  BY DEF EqualFold
<1>3. FoldedKey(other)[1] = other[1] /\ FoldedKey(key)[1] = key[1]
  BY <1>1 DEF FoldedKey
<1>4. QED BY <1>2, <1>3

LEMMA KeyIsOneSpelling ==
  ASSUME NEW t, Whole(t), TopFilesIn(t), Ordinary(t), NEW key \in Seq(STRING), key # <<>>, NoIncludeKey(key),
         OneSpelling(t, key), LoadAll(t).skipped = <<>>
  PROVE  KeyEntries(LoadAll(t).entries, key) = LastOf(LoadAll(t).entries, key)
<1> DEFINE es == LoadAll(t).entries
           gs == GitReads(t)
<1>1. es \in Seq(ConfigEntry)
  BY AllIsSound DEF Sound, WellLoaded
<1>2. ASSUME NEW n \in DOMAIN es, EqualFold(es[n].key, key) PROVE es[n].key = key
  <2> DEFINE other == es[n].key
  <2>1. other \in Seq(STRING)
    <3> HIDE DEF es
    <3>1. n \in 1..Len(es)
      BY <1>1, LenProperties
    <3>2. es[n] \in ConfigEntry
      BY <1>1, <3>1, ElementOfSeq
    <3>3. QED BY <3>2 DEF ConfigEntry
  <2>2. CASE other = <<>>
    <3>1. DOMAIN FoldedKey(other) = DOMAIN other /\ DOMAIN FoldedKey(key) = DOMAIN key
      BY DEF FoldedKey
    <3>2. DOMAIN other = DOMAIN key
      BY <1>2, <3>1 DEF EqualFold
    <3>3. QED BY <2>2, <3>2
  <2>3. CASE other # <<>> /\ other # key
    <3>1. NoIncludeKey(other)
      BY <1>2, <2>1, <2>3, FoldedParts DEF NoIncludeKey
    <3>2. Agree(es, gs, other)
      BY <3>1, AllIsSound DEF Sound, Unskipped
    <3>3. ~None(es, other)
      BY DEF None
    <3>4. \E m \in DOMAIN gs : gs[m].key = other
      BY <3>2, <3>3 DEF Agree, EndsWith
    <3>5. QED BY <1>2, <2>3, <3>4 DEF OneSpelling
  <2>4. QED BY <2>2, <2>3
<1>3. \A n \in DOMAIN es : es[n].key = key => EqualFold(es[n].key, key)
  BY DEF EqualFold
<1>4. {n \in DOMAIN es : EqualFold(es[n].key, key)} = {n \in DOMAIN es : es[n].key = key}
  BY <1>2, <1>3
<1>5. QED BY <1>4 DEF KeyEntries, LastOf

LEMMA MergedAnswerIsGits == \A c \in ConfigCalls : \A t \in ConfigTrees : UnnotedConfigIsGits(c, t, ConfigAnswer(c, t))
<1> SUFFICES ASSUME NEW c \in ConfigCalls, NEW t \in ConfigTrees, ScopeOf(c) = "merged", c.mode = "key",
                    c.key[1] \notin {Include, IncludeIf}, ConfigAnswer(c, t).skipped = <<>>, Ordinary(t), OneSpelling(t, c.key)
             PROVE  LET meant == LastOf(GitReads(t), c.key)
                        answer == ConfigAnswer(c, t)
                    IN IF meant = <<>> THEN answer.entries = <<>>
                       ELSE /\ Len(answer.entries) = 1
                            /\ answer.entries[1].value = IF Redacts(c, meant[1]) THEN redacted ELSE meant[1].value
  BY DEF UnnotedConfigIsGits
<1> DEFINE meant == LastOf(GitReads(t), c.key)
           answer == ConfigAnswer(c, t)
           r == LoadAll(t)
           found == LastOf(r.entries, c.key)
           said == [n \in DOMAIN found |-> IF Redacts(c, found[n]) THEN [found[n] EXCEPT !.value = redacted] ELSE found[n]]
           keyed == KeyEntries(r.entries, c.key)
<1>0. Whole(t) /\ TopFilesIn(t) /\ NoIncludeKey(c.key)
  BY TreesAreConfigTrees DEF Whole, Ordinary, NoIncludeKey
<1>1. Sound(r, GitReads(t), c.key) /\ r.ok = TRUE
  BY <1>0, AllIsSound
<1>2. Load(ScopeOf(c), t) = r /\ Filtered(c, r.entries) = found
  <2>1. Load(ScopeOf(c), t) = r /\ Filtered(c, r.entries) = keyed
    BY DEF Load, Filtered
  <2>2. r.skipped = <<>>
    BY <1>1, <2>1 DEF ConfigAnswer
  <2>3. c.key \in Seq(STRING) /\ c.key # <<>>
    BY ConfigCallsAssumption
  <2>4. QED BY <1>0, <2>1, <2>2, <2>3, KeyIsOneSpelling
<1>3. answer.skipped = r.skipped /\ answer.entries = said
  BY <1>1, <1>2 DEF ConfigAnswer
<1>4. r.skipped = <<>>
  BY <1>3
<1>5. r.entries \in Seq(ConfigEntry) /\ GitReads(t) \in Seq(GitEntry) /\ Agree(r.entries, GitReads(t), c.key)
  BY <1>1, <1>4 DEF Sound, WellLoaded, Unskipped
<1> HIDE DEF r, answer
<1>6. CASE None(r.entries, c.key) /\ None(GitReads(t), c.key)
  <2>1. found = <<>> /\ meant = <<>>
    BY <1>6, LastOfNone
  <2>2. DOMAIN found = {} /\ DOMAIN <<>> = {}
    BY <2>1, EmptySeq
  <2> HIDE DEF found
  <2>3. said = <<>>
    BY <2>2
  <2>4. answer.entries = <<>>
    BY <1>3, <2>3
  <2>5. QED BY <2>1, <2>4 DEF answer
<1>7. CASE \E v : EndsWith(r.entries, c.key, v) /\ EndsWith(GitReads(t), c.key, v)
  <2>1. PICK v : EndsWith(r.entries, c.key, v) /\ EndsWith(GitReads(t), c.key, v)
    BY <1>7
  <2>2. PICK e \in ConfigEntry : found = <<e>> /\ e.key = c.key /\ e.value = v
    BY <1>5, <2>1, LastOfEnds
  <2>3. PICK g \in GitEntry : meant = <<g>> /\ g.key = c.key /\ g.value = v
    BY <1>5, <2>1, LastOfEnds
  <2> DEFINE put == IF Redacts(c, e) THEN [e EXCEPT !.value = redacted] ELSE e
  <2>4. said = <<put>>
    <3> HIDE DEF found
    <3>1. DOMAIN found = 1..1 /\ found[1] = e
      BY <2>2
    <3>2. said = [n \in 1..1 |-> put]
      BY <3>1
    <3> HIDE DEF put, said
    <3>3. QED BY <3>2
  <2>5. Redacts(c, e) <=> Redacts(c, g)
    BY <2>2, <2>3 DEF Redacts
  <2>6. put.value = IF Redacts(c, g) THEN redacted ELSE v
    <3>1. [e EXCEPT !.value = redacted].value = redacted
      BY DEF ConfigEntry
    <3>2. CASE Redacts(c, g)
      BY <2>5, <3>1, <3>2
    <3>3. CASE ~Redacts(c, g)
      BY <2>2, <2>5, <3>3
    <3>4. QED BY <3>2, <3>3
  <2> HIDE DEF put, said, found, meant
  <2>7. Len(answer.entries) = 1 /\ answer.entries[1] = put
    BY <1>3, <2>4
  <2>8. meant # <<>> /\ meant[1] = g
    BY <2>3
  <2>9. QED BY <2>3, <2>6, <2>7, <2>8 DEF meant, answer
<1>8. QED BY <1>5, <1>6, <1>7 DEF Agree

\* However the configuration files include one another, and whatever the
\* gitdir: conditions of their includes, a merged answer for a key that reports
\* no include it has skipped is the value git itself would use, or its
\* redaction (loadGitConfig, loadConfigWithIncludes, matchesGitDir): of
\* Ordinary files, for keys in one spelling, other than those of includes.
THEOREM MergedConfigIsGits == Spec => []ConfigIsGits
<1>1. Init => CallsIInv
  BY InitIsCalled
<1>2. CallsIInv /\ [Next]_requestVars => CallsIInv'
  BY NextKeepsCalls
<1>3. CallsIInv => ConfigIsGits
  BY MergedAnswerIsGits DEF CallsIInv, ConfigIsGits, Answered
<1>4. QED BY <1>1, <1>2, <1>3, PTL DEF Spec

=============================================================================
