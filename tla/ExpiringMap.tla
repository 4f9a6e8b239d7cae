---------------------------- MODULE ExpiringMap ----------------------------
(***************************************************************************)
(* What the git object cache promises its callers, whatever its limits: a  *)
(* map that may forget any entry at any time, but answers a Get with the   *)
(* value last put under that very key and not forgotten since, and never   *)
(* with one that was put longer ago than the time to live.                 *)
(***************************************************************************)
EXTENDS Integers

CONSTANTS Keys, Values, TTL, Absent

VARIABLES
  store,  \* store[k]: the value put last and when, or Absent
  now,
  reply   \* the answer when the last operation was a Get, else Absent

vars == <<store, now, reply>>

Init ==
  /\ store = [k \in Keys |-> Absent]
  /\ now \in Nat
  /\ reply = Absent

\* Any entries but those of Keep may be forgotten along with a step.
Forgets(new, Keep) ==
  \E lost \in SUBSET (Keys \ Keep) :
    store' = [k \in Keys |-> IF k \in lost THEN Absent ELSE new[k]]

Put(k, v) ==
  /\ Forgets([store EXCEPT ![k] = [value |-> v, born |-> now]], {k})
  /\ reply' = Absent
  /\ UNCHANGED now

Hit(k) ==
  /\ store[k] # Absent
  /\ now - store[k].born <= TTL
  /\ reply' = [key |-> k, value |-> store[k].value]
  /\ UNCHANGED <<store, now>>

Miss(k) ==
  /\ Forgets(store, {})
  /\ reply' = [key |-> k, value |-> Absent]
  /\ UNCHANGED now

Forget ==
  /\ Forgets(store, {})
  /\ reply' = Absent
  /\ UNCHANGED now

Tick ==
  /\ now' > now
  /\ reply' = Absent
  /\ UNCHANGED store

Next ==
  \/ \E k \in Keys : Hit(k) \/ Miss(k) \/ \E v \in Values : Put(k, v)
  \/ Forget
  \/ Tick

Spec == Init /\ [][Next]_vars
=============================================================================
