------------------------------- MODULE Texts -------------------------------
(***************************************************************************)
(* Texts as the tools cut them: the sequence of lines between newlines, as *)
(* strings.Split(content, "\n") gives it.  The last line is what follows   *)
(* the last newline, so a text that ends in one has an empty last line.    *)
(***************************************************************************)
EXTENDS Integers, Sequences, SequencesExt

NL == 0   \* bytes are numbers; a line is a sequence of other bytes
CR == 13

IsText(t) == t \in Seq(Seq(Nat \ {NL})) /\ t # <<>>

Bytes(t) == FlattenSeq([n \in DOMAIN t |-> IF n = Len(t) THEN t[n] ELSE Append(t[n], NL)])
Size(t) == Len(Bytes(t))
EndsInNewline(t) == t[Len(t)] = <<>>   \* of a text that is not empty

\* Counting newlines, and one more for a last line without.
LineCount(t) == IF EndsInNewline(t) THEN Len(t) - 1 ELSE Len(t)

\* bufio.ScanLines drops one carriage return from the end of a line.
DropCR(line) ==
  IF line # <<>> /\ line[Len(line)] = CR THEN SubSeq(line, 1, Len(line) - 1) ELSE line
ScanLines(t) == [n \in 1..LineCount(t) |-> DropCR(t[n])]

\* Every line ended by a newline.
Ended(lines) == Append(lines, <<>>)
=============================================================================
