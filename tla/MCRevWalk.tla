----------------------------- MODULE MCRevWalk -----------------------------
(* RevWalk for TLC: a fork that is merged twice, with skewed clocks and a shallow end. *)
EXTENDS RevWalk, TLC

CONSTANTS base, ours, theirs, merge, tip

\* A merge of two branches and a commit on one of them; the branches merged both ways.
Graphs ==
  { base :> <<>> @@ ours :> <<base>> @@ theirs :> <<base>>
      @@ merge :> <<ours, theirs>> @@ tip :> tipParents :
    tipParents \in {<<theirs>>, <<theirs, ours>>} }

\* In order with a tie, and with a root that is newer than what follows it.
Clocks ==
  { base :> 1 @@ ours :> 2 @@ theirs :> 3 @@ merge :> 4 @@ tip :> 4,
    base :> 3 @@ ours :> 1 @@ theirs :> 2 @@ merge :> 1 @@ tip :> 3 }

MCHistories ==
  [parents : Graphs, time : Clocks, head : {merge},
   present : {{base, ours, theirs, merge, tip}, {ours, theirs, merge, tip}}]

MCToken(op, from, rev, n) == [op |-> op, from |-> from, rev |-> rev, n |-> n]
Unary ==
  {MCToken(op, merge, r, 1) : op \in {"exclude", "only", "parents", "plain"},
                              r \in {base, theirs, merge, tip}}
Binary ==
  {MCToken(op, l, r, 1) : op \in {"symmetric", "range"},
                          l \in {ours, merge, tip}, r \in {ours, merge, tip}}
Minus == {MCToken("minus", merge, r, n) : r \in {merge, tip}, n \in {1, 2}}

\* Every token alone, and pairs that share tips and excludes.
Pairs ==
  { MCToken("exclude", merge, ours, 1), MCToken("exclude", merge, tip, 1),
    MCToken("symmetric", merge, tip, 1), MCToken("symmetric", ours, theirs, 1),
    MCToken("range", ours, merge, 1), MCToken("only", merge, merge, 1),
    MCToken("parents", merge, merge, 1), MCToken("minus", merge, merge, 2),
    MCToken("plain", merge, tip, 1) }

\* Excluded together, merge and tip reach every commit: more than maxWalk.
BothExcluded == <<MCToken("exclude", merge, merge, 1), MCToken("exclude", merge, tip, 1)>>

MCSpecs ==
  {<<>>} \cup {<<t>> : t \in Unary \cup Binary \cup Minus} \cup (Pairs \X Pairs)
    \cup {Append(BothExcluded, t) : t \in Pairs}
=============================================================================
