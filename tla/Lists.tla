------------------------------- MODULE Lists -------------------------------
(***************************************************************************)
(* Operators on sequences and numbers that several modules use.            *)
(***************************************************************************)
EXTENDS Integers, Sequences, SequencesExt

Least(a, b) == IF a < b THEN a ELSE b
Most(a, b) == IF a < b THEN b ELSE a

\* The numbers of a sequence, added up.
SumOfSeq(s) ==
  LET upTo[n \in 0..Len(s)] == IF n = 0 THEN 0 ELSE upTo[n - 1] + s[n]
  IN upTo[Len(s)]

\* Sequences laid end to end; TLC evaluates each of them once.
Flat(ss) == FlattenSeq(<<<<>>>> \o ss)
=============================================================================
