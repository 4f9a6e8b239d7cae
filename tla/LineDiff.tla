----------------------------- MODULE LineDiff ------------------------------
(***************************************************************************)
(* aifr_diff (Diff, computeDiff, computeByteDiff in                        *)
(* internal/engine/gitops.go): two contents are read and compared, line by *)
(* line into hunks or byte by byte up to the first difference.  One step   *)
(* is one turn of a loop of the code.                                      *)
(*                                                                         *)
(* i and j count the lines of linesA and linesB that are behind the loop,  *)
(* so the code's linesA[i] is linesA[i + 1] here.                          *)
(***************************************************************************)
EXTENDS Texts

CONSTANT Contents   \* what a path may hold
ASSUME ContentsAssumption == \A t \in Contents : IsText(t)

VARIABLES
  dphase,           \* where Diff is
  byteLevel,        \* DiffParams
  linesA, linesB,   \* the contents read, split
  i, j,             \* the loop of computeDiff
  start,            \* hunkStartA, hunkStartB
  changed,          \* the lines of the hunk under way, with their sign
  hunks,
  at,               \* the loop of computeByteDiff: offset, line, column
  identical

diffVars == <<dphase, byteLevel, linesA, linesB, i, j, start, changed, hunks, at, identical>>

Window == 3   \* how far ahead a line is looked for
NoAt == [offset |-> 0, line |-> 1, column |-> 1]
Hunk(oldStart, oldLines, newStart, newLines, lines) ==
  [oldStart |-> oldStart, oldLines |-> oldLines,
   newStart |-> newStart, newLines |-> newLines, lines |-> lines]

DiffTypeOK ==
  /\ dphase \in {"off", "readA", "readB", "compare", "scan", "old", "new", "bytes", "diffed", "failed"}
  /\ byteLevel \in BOOLEAN /\ identical \in BOOLEAN
  /\ linesA \in Contents \cup {<<>>} /\ linesB \in Contents \cup {<<>>}
  /\ i \in 0..Len(linesA) /\ j \in 0..Len(linesB)
  /\ start.old \in 0..i /\ start.new \in 0..j
  /\ at.offset \in Nat /\ at.line \in 1..(at.offset + 1) /\ at.column \in 1..(at.offset + 1)
  /\ \A n \in DOMAIN hunks : hunks[n].lines # <<>>
  /\ dphase \in {"old", "new"} => Len(changed) = (i - start.old) + (j - start.new)

-----------------------------------------------------------------------------
\* readContentForDiff, from the file system or from a commit.

ReadA ==
  /\ dphase = "readA"
  /\ \/ linesA' \in Contents /\ dphase' = "readB"
     \/ dphase' = "failed" /\ UNCHANGED linesA
  /\ UNCHANGED <<byteLevel, linesB, i, j, start, changed, hunks, at, identical>>

ReadB ==
  /\ dphase = "readB"
  /\ \/ linesB' \in Contents /\ dphase' = "compare"
     \/ dphase' = "failed" /\ UNCHANGED linesB
  /\ UNCHANGED <<byteLevel, linesA, i, j, start, changed, hunks, at, identical>>

Compare ==
  /\ dphase = "compare"
  /\ identical' = (linesA = linesB)
  /\ dphase' = IF linesA = linesB THEN "diffed" ELSE IF byteLevel THEN "bytes" ELSE "scan"
  /\ UNCHANGED <<byteLevel, linesA, linesB, i, j, start, changed, hunks, at>>

-----------------------------------------------------------------------------
\* computeDiff.

MoreA == i < Len(linesA)
MoreB == j < Len(linesB)
LineA == linesA[i + 1]
LineB == linesB[j + 1]

\* The line appears among the next lines of the other side.
Soon(line, lines, from) ==
  \E k \in (from + 1)..(from + Window) : k <= Len(lines) /\ lines[k] = line

\* The conditions of the two inner loops, with their break.
TakesOld == MoreA /\ (MoreB => LineA # LineB) /\ ~Soon(LineA, linesB, j)

\* Mutant: the loop stops when the old side has run out.
TakesNewBesideOld == MoreB /\ MoreA /\ LineB # LineA /\ ~Soon(LineB, linesA, i)

TakesNew == MoreB /\ (MoreA => LineB # LineA) /\ ~Soon(LineB, linesA, i)

DiffDone ==
  /\ dphase = "scan" /\ ~MoreA /\ ~MoreB
  /\ dphase' = "diffed"
  /\ UNCHANGED <<byteLevel, linesA, linesB, i, j, start, changed, hunks, at, identical>>

SkipCommon ==
  /\ dphase = "scan" /\ MoreA /\ MoreB /\ LineA = LineB
  /\ i' = i + 1 /\ j' = j + 1
  /\ UNCHANGED <<dphase, byteLevel, linesA, linesB, start, changed, hunks, at, identical>>

\* Mutant: a hunk's new side is counted from where its old side starts.
StartHunkAtOld ==
  /\ dphase = "scan" /\ (MoreA \/ MoreB) /\ ~(MoreA /\ MoreB /\ LineA = LineB)
  /\ dphase' = "old" /\ start' = [old |-> i, new |-> i] /\ changed' = <<>>
  /\ UNCHANGED <<byteLevel, linesA, linesB, i, j, hunks, at, identical>>

StartHunk ==
  /\ dphase = "scan" /\ (MoreA \/ MoreB) /\ ~(MoreA /\ MoreB /\ LineA = LineB)
  /\ dphase' = "old" /\ start' = [old |-> i, new |-> j] /\ changed' = <<>>
  /\ UNCHANGED <<byteLevel, linesA, linesB, i, j, hunks, at, identical>>

TakeOld ==
  /\ dphase = "old" /\ TakesOld
  /\ changed' = Append(changed, [sign |-> "-", line |-> LineA]) /\ i' = i + 1
  /\ UNCHANGED <<dphase, byteLevel, linesA, linesB, j, start, hunks, at, identical>>

EndOld ==
  /\ dphase = "old" /\ ~TakesOld
  /\ dphase' = "new"
  /\ UNCHANGED <<byteLevel, linesA, linesB, i, j, start, changed, hunks, at, identical>>

TakeNew ==
  /\ dphase = "new" /\ TakesNew
  /\ changed' = Append(changed, [sign |-> "+", line |-> LineB]) /\ j' = j + 1
  /\ UNCHANGED <<dphase, byteLevel, linesA, linesB, i, start, hunks, at, identical>>

\* A hunk without lines is not kept.
EndHunk ==
  /\ dphase = "new" /\ ~TakesNew
  /\ hunks' = IF changed = <<>> THEN hunks
              ELSE Append(hunks, Hunk(start.old + 1, i - start.old, start.new + 1, j - start.new, changed))
  /\ dphase' = "scan" /\ changed' = <<>>
  /\ UNCHANGED <<byteLevel, linesA, linesB, i, j, start, at, identical>>

-----------------------------------------------------------------------------
\* computeByteDiff.

BytesA == Bytes(linesA)
BytesB == Bytes(linesB)
SameByte ==
  /\ at.offset < Len(BytesA) /\ at.offset < Len(BytesB)
  /\ BytesA[at.offset + 1] = BytesB[at.offset + 1]

\* Mutant: the column goes on counting after a newline.
PassByteInRow(byte) ==
  [offset |-> at.offset + 1, line |-> IF byte = NL THEN at.line + 1 ELSE at.line, column |-> at.column + 1]

PassByte(byte) ==
  IF byte = NL THEN [offset |-> at.offset + 1, line |-> at.line + 1, column |-> 1]
  ELSE [at EXCEPT !.offset = @ + 1, !.column = @ + 1]

NextByte ==
  /\ dphase = "bytes" /\ SameByte
  /\ at' = PassByte(BytesA[at.offset + 1])
  /\ UNCHANGED <<dphase, byteLevel, linesA, linesB, i, j, start, changed, hunks, identical>>

\* A different byte, or the end of one of them.
ByteFound ==
  /\ dphase = "bytes" /\ ~SameByte
  /\ dphase' = "diffed"
  /\ UNCHANGED <<byteLevel, linesA, linesB, i, j, start, changed, hunks, at, identical>>

-----------------------------------------------------------------------------
DiffInit(first) ==
  /\ dphase = first /\ byteLevel \in BOOLEAN
  /\ linesA = <<>> /\ linesB = <<>> /\ i = 0 /\ j = 0
  /\ start = [old |-> 0, new |-> 0] /\ changed = <<>> /\ hunks = <<>>
  /\ at = NoAt /\ identical = FALSE

DiffLines == SkipCommon \/ StartHunk \/ TakeOld \/ EndOld \/ TakeNew \/ EndHunk \/ DiffDone
DiffNext == ReadA \/ ReadB \/ Compare \/ DiffLines \/ NextByte \/ ByteFound

-----------------------------------------------------------------------------
(* What the hunks mean: the old side with the first n of them applied, and *)
(* how much of it that has used up.                                        *)
\* The lines of a hunk that have the sign, in their order.
LinesWith(sign, cs) ==
  LET lines[n \in 0..Len(cs)] ==
        IF n = 0 THEN <<>>
        ELSE IF cs[n].sign = sign THEN Append(lines[n - 1], cs[n].line) ELSE lines[n - 1]
  IN lines[Len(cs)]

Patched[n \in 0..Len(hunks)] ==
  IF n = 0 THEN [text |-> <<>>, used |-> 0]
  ELSE [text |-> Patched[n - 1].text \o SubSeq(linesA, Patched[n - 1].used + 1, hunks[n].oldStart - 1)
                   \o LinesWith("+", hunks[n].lines),
        used |-> hunks[n].oldStart - 1 + hunks[n].oldLines]

\* Whenever the loop is between hunks, the hunks collected so far turn the
\* part of A behind it into the part of B behind it; each takes away the lines
\* it names and its starts and lengths say where its two sides lie.
HunksRebuild ==
  LET all == Patched[Len(hunks)]
  IN /\ ~identical => all.text \o SubSeq(linesA, all.used + 1, i) = SubSeq(linesB, 1, j)
     /\ \A n \in DOMAIN hunks :
          LET h == hunks[n]
          IN /\ LinesWith("-", h.lines) = SubSeq(linesA, h.oldStart, h.oldStart + h.oldLines - 1)
             /\ LinesWith("+", h.lines) = SubSeq(linesB, h.newStart, h.newStart + h.newLines - 1)
             /\ h.newStart - h.oldStart = Len(Patched[n - 1].text) - Patched[n - 1].used

\* The position of the longest common prefix of the two contents: its length,
\* the newlines in it and the bytes since the last of them.
AtFirstDifference ==
  LET prefix == SubSeq(BytesA, 1, at.offset)
      newlines == {n \in DOMAIN prefix : prefix[n] = NL}
  IN /\ prefix = SubSeq(BytesB, 1, at.offset)
     /\ at.offset < Len(BytesA) => ~IsPrefix(SubSeq(BytesA, 1, at.offset + 1), BytesB)
     /\ at.line = Cardinality(newlines) + 1
     /\ at.column = at.offset + 1 - (IF newlines = {} THEN 0 ELSE CHOOSE n \in newlines : \A m \in newlines : m <= n)

\* A diff by lines has hunks that rebuild B from A, at every point between two
\* of them and not only at the end, and none exactly for identical contents
\* (computeDiff); a diff by bytes names the first difference (computeByteDiff).
DiffIsExact ==
  /\ dphase \in {"scan", "diffed"} /\ ~byteLevel => HunksRebuild
  /\ dphase = "diffed" /\ ~byteLevel => (hunks = <<>>) = (linesA = linesB)
  /\ dphase = "diffed" /\ byteLevel /\ ~identical => AtFirstDifference

\* Two common lines in opposite order, each within the window of the other.
Crossed ==
  \E a \in DOMAIN linesA, b \in DOMAIN linesB :
    /\ linesA[a] # linesB[b]
    /\ Soon(linesA[a], linesB, b - 1) /\ Soon(linesB[b], linesA, a - 1)

DiffReturned == dphase \in {"diffed", "failed"}

\* A diff that has read both contents ends, if no two lines they share change
\* places within the window: then one of the inner loops always moves
\* (computeDiff).
DiffReturnsUnlessCrossed == [](dphase = "compare" => <>DiffReturned \/ (~byteLevel /\ Crossed))

\* Every diff returns the hunks between its two contents, as the comment of
\* computeDiff says.
DiffReturns == dphase = "readA" ~> DiffReturned
=============================================================================
