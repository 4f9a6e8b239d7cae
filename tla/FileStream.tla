----------------------------- MODULE FileStream -----------------------------
(***************************************************************************)
(* What a client that follows continuation tokens is promised, with no     *)
(* chunks, tokens, descriptors or newlines in it: the bytes of one         *)
(* snapshot of the file, in order, from an offset to the end.              *)
(*                                                                         *)
(* The promise has one hole, which the abstraction names instead of        *)
(* hiding: the last delivery of a stream may be torn, that is not from the *)
(* snapshot.  Once it is, nothing more is delivered: the stream is over,   *)
(* or it is refused.                                                       *)
(***************************************************************************)
EXTENDS Naturals, Sequences

VARIABLES
  snapshot,  \* the bytes of the file as the stream saw it first
  start,     \* the offset the stream starts at
  out,       \* the bytes delivered so far
  state      \* "none", "reading", "done", "stale" or "failed"

svars == <<snapshot, start, out, state>>

\* What was delivered is what the snapshot holds from start on.
Faithful ==
  /\ start + Len(out) <= Len(snapshot)
  /\ out = SubSeq(snapshot, start + 1, start + Len(out))

Exhausted == start + Len(out) = Len(snapshot)

Extends == Len(out') >= Len(out) /\ SubSeq(out', 1, Len(out)) = out

Init == state = "none" /\ out = <<>>

Begin ==
  /\ state # "reading"
  /\ out' = <<>>
  /\ state' \in {"reading", "failed"}

\* More of the snapshot; the stream is done when, and only when, it has all of it.
Deliver ==
  /\ state = "reading" /\ Faithful
  /\ Extends /\ Faithful'
  /\ state' = IF Exhausted' THEN "done" ELSE "reading"
  /\ UNCHANGED <<snapshot, start>>

\* Something else than the snapshot, or an end before the snapshot's.
Tear ==
  /\ state = "reading" /\ Faithful
  /\ Extends
  /\ state' \in {"reading", "done"}
  /\ ~Faithful' \/ (state' = "done" /\ ~Exhausted')
  /\ UNCHANGED <<snapshot, start>>

Refuse ==
  /\ state = "reading"
  /\ state' \in {"stale", "failed"}
  /\ out' = out

Next == Begin \/ Deliver \/ Tear \/ Refuse

Spec == Init /\ [][Next]_svars
=============================================================================
