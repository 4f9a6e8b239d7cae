---------------------------- MODULE ObjectCache ----------------------------
(***************************************************************************)
(* The LRU cache of git objects (internal/gitprovider/cache.go): a map     *)
(* from key to list element, a list in order of use, and a running total   *)
(* of the sizes, kept in step by every operation.  Each operation runs     *)
(* under the mutex, so one operation is one step.                          *)
(*                                                                         *)
(* A list element is named by its key: the map holds at most one per key.  *)
(***************************************************************************)
EXTENDS Integers, Sequences, FiniteSets, FiniteSetsExt, SequencesExt

CONSTANTS
  Repos, Hashes, Values,
  nil,          \* no value
  SizesOf,      \* the sizes an entry may have
  NamedUnder,   \* pairs <<r, s>> of repos: the name s begins with r and a colon
  maxEntries, maxMem, ttl,
  MaxTime       \* bound on the clock

ASSUME LimitsAssumption ==
  /\ maxEntries \in Nat \ {0} /\ maxMem \in Nat \ {0} /\ ttl \in Nat \ {0}
  /\ \A s \in SizesOf : s \in Nat
  /\ NamedUnder \subseteq Repos \X Repos
  /\ MaxTime \in Nat
ASSUME NilAssumption == nil \notin [value : Values, born : Int]

VARIABLES
  entries,  \* the map: key -> entry
  order,    \* the list, the element used last in front
  memUsed,
  now,      \* the clock
  reply,    \* the answer when the last operation was a Get, else nil
  used      \* history: the keys in the order they were last got or put, newest first

vars == <<entries, order, memUsed, now, reply, used>>

Keys == Repos \X Hashes   \* cacheKey

Entry == [value : Values, size : SizesOf, expires : Nat]
Sum(S) == MapThenSumSet(LAMBDA k : entries[k].size, S)
OnList == ToSet(order)

TypeOK ==
  /\ DOMAIN entries \subseteq Keys
  /\ \A k \in DOMAIN entries : entries[k] \in Entry
  /\ order \in Seq(Keys)
  /\ memUsed \in Nat
  /\ now \in 0..MaxTime
  /\ reply = nil \/ reply \in [key : Keys, value : Values \cup {nil}]
  /\ used \in Seq(Keys)

-----------------------------------------------------------------------------
\* Helpers of the operations

Without(f, S) == [k \in DOMAIN f \ S |-> f[k]]

\* The elements of s that are in S, in their order.
Only(s, S) ==
  LET kept[n \in 0..Len(s)] ==
        IF n = 0 THEN <<>>
        ELSE IF s[n] \in S THEN Append(kept[n - 1], s[n]) ELSE kept[n - 1]
  IN kept[Len(s)]
NotIn(s, S) == Only(s, ToSet(s) \ S)

\* MoveToFront, and PushFront of a new element.
ToFront(k) == <<k>> \o NotIn(order, {k})

\* Mutant: the size stays in the total.
RemoveElementsKeepMem(S) ==
  /\ entries' = Without(entries, S)
  /\ order' = NotIn(order, S)
  /\ memUsed' = memUsed

\* removeElement, of each of S: out of the map, off the list, off the total.
RemoveElements(S) ==
  /\ entries' = Without(entries, S)
  /\ order' = NotIn(order, S)
  /\ memUsed' = memUsed - Sum(S)

\* The n elements used longest ago.
Back(n) == {order[i] : i \in (Len(order) - n + 1)..Len(order)}

\* Mutant: the size of the new entry is forgotten.
RoomAfterIgnoringSize(n, size) ==
  /\ Len(order) - n < maxEntries
  /\ memUsed - Sum(Back(n)) <= maxMem

\* The condition of Put's loop, negated, after n calls of removeLRU.
RoomAfter(n, size) ==
  /\ Len(order) - n < maxEntries
  /\ memUsed - Sum(Back(n)) + size <= maxMem

\* What Put's loop evicts: it stops when there is room or nothing left.
Evicted(size) ==
  LET enough == {n \in 0..Len(order) : RoomAfter(n, size) \/ n = Len(order)}
  IN Back(Min(enough))

-----------------------------------------------------------------------------
\* Operations

Answer(k, v) == reply' = [key |-> k, value |-> v]

Miss(k) ==
  /\ k \notin DOMAIN entries
  /\ Answer(k, nil)
  /\ UNCHANGED <<entries, order, memUsed, now, used>>

\* Mutant: an entry is served in the tick after it expired, too.
ExpiredLate(k) == now > entries[k].expires + 1

Expired(k) == now > entries[k].expires

GetExpired(k) ==
  /\ k \in DOMAIN entries /\ Expired(k)
  /\ RemoveElements({k})
  /\ Answer(k, nil)
  /\ UNCHANGED <<now, used>>

Hit(k) ==
  /\ k \in DOMAIN entries /\ ~Expired(k)
  /\ order' = ToFront(k)
  /\ used' = <<k>> \o NotIn(used, {k})
  /\ Answer(k, entries[k].value)
  /\ UNCHANGED <<entries, memUsed, now>>

Get(k) == Miss(k) \/ GetExpired(k) \/ Hit(k)

NewEntry(value, size) == [value |-> value, size |-> size, expires |-> now + ttl]

\* Mutants: the list is left alone; old and new size swapped.
UpdateInPlace(k, value, size) ==
  /\ k \in DOMAIN entries
  /\ entries' = [entries EXCEPT ![k] = NewEntry(value, size)]
  /\ memUsed' = memUsed - entries[k].size + size
  /\ used' = <<k>> \o NotIn(used, {k})
  /\ reply' = nil
  /\ UNCHANGED <<order, now>>

UpdateSwapped(k, value, size) ==
  /\ k \in DOMAIN entries
  /\ entries' = [entries EXCEPT ![k] = NewEntry(value, size)]
  /\ memUsed' = memUsed - size + entries[k].size
  /\ order' = ToFront(k)
  /\ used' = <<k>> \o NotIn(used, {k})
  /\ reply' = nil
  /\ UNCHANGED now

\* Put of a key that is there, expired or not: no eviction.
Update(k, value, size) ==
  /\ k \in DOMAIN entries
  /\ entries' = [entries EXCEPT ![k] = NewEntry(value, size)]
  /\ memUsed' = memUsed - entries[k].size + size
  /\ order' = ToFront(k)
  /\ used' = <<k>> \o NotIn(used, {k})
  /\ reply' = nil
  /\ UNCHANGED now

Insert(k, value, size) ==
  /\ k \notin DOMAIN entries
  /\ LET out == Evicted(size)
         kept == Without(entries, out)
     IN /\ entries' = [j \in DOMAIN kept \cup {k} |->
                         IF j = k THEN NewEntry(value, size) ELSE kept[j]]
        /\ order' = <<k>> \o NotIn(order, out)
        /\ memUsed' = memUsed - Sum(out) + size
  /\ used' = <<k>> \o NotIn(used, {k})
  /\ reply' = nil
  /\ UNCHANGED now

Put(k, value, size) == Update(k, value, size) \/ Insert(k, value, size)

\* The key begins with the repo's name and a colon.
Covers(repo, k) == k[1] = repo \/ <<repo, k[1]>> \in NamedUnder

InvalidateRepo(repo) ==
  /\ RemoveElements({k \in DOMAIN entries : Covers(repo, k)})
  /\ reply' = nil
  /\ UNCHANGED <<now, used>>

Clear ==
  /\ entries' = <<>> /\ order' = <<>> /\ memUsed' = 0 /\ reply' = nil
  /\ UNCHANGED <<now, used>>

Tick ==
  /\ now < MaxTime
  /\ now' = now + 1
  /\ reply' = nil
  /\ UNCHANGED <<entries, order, memUsed, used>>

Init ==
  /\ entries = <<>> /\ order = <<>> /\ memUsed = 0
  /\ now = 0 /\ reply = nil /\ used = <<>>

Next ==
  \/ \E k \in Keys : Get(k) \/ \E v \in Values, s \in SizesOf : Put(k, v, s)
  \/ \E r \in Repos : InvalidateRepo(r)
  \/ Clear
  \/ Tick

Spec == Init /\ [][Next]_vars

-----------------------------------------------------------------------------
\* Properties

\* The map, the list and the running total describe the same entries after every operation,
\* and no more of them than the limit: an element that is in one only would leak or be evicted
\* twice (cache.go:163-168), and the loop of Put makes room before it adds one.
Coherent ==
  /\ OnList = DOMAIN entries
  /\ IsInjective(order)
  /\ memUsed = Sum(DOMAIN entries)
  /\ Len(order) <= maxEntries

\* After an insertion the total is within maxMem, unless the new entry alone exceeds it; only
\* Put of a key that is there may exceed it, and the next insertion makes up for it.
InsertionFitsMemory ==
  [][DOMAIN entries' \subseteq DOMAIN entries \/ memUsed' <= maxMem \/ Len(order') = 1]_vars

\* The list is in order of use, whatever was expired, invalidated or updated in between, so
\* what an insertion evicts was used longer ago than what it keeps.
ListIsInOrderOfUse == order = Only(used, OnList)

\* The cache answers as a map that may forget but never mixes up, revives or outlives.
Map == INSTANCE ExpiringMap WITH
  TTL <- ttl, Absent <- nil,
  store <- [k \in Keys |->
              IF k \in DOMAIN entries
              THEN [value |-> entries[k].value, born |-> entries[k].expires - ttl] ELSE nil]
AnswersAsExpiringMap == Map!Spec
=============================================================================
