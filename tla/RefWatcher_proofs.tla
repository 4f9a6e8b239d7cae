--------------------------- MODULE RefWatcher_proofs ---------------------------
(***************************************************************************)
(* Theorems about RefWatcher, for any set of repositories, any number of   *)
(* callbacks under way at once, of changes, any length of the queue, and   *)
(* whatever the paths of the repositories are to each other.               *)
(***************************************************************************)
EXTENDS RefWatcher, SequenceTheorems, FiniteSetTheorems, TLAPS

\* The type invariant, made inductive: only what is registered is watched, and
\* the counters have their domains.
TypeInv ==
  /\ TypeOK
  /\ watched \subseteq repos \X Places
  /\ changes \in [Repos -> Nat] /\ announced \in [Repos -> Nat]
  /\ cache \in [Repos -> Nat \cup {None}]

-----------------------------------------------------------------------------
\* What an event does to the queue.

LEMMA NotifyQueues ==
  ASSUME TypeInv, NEW r \in Repos, NEW p, Notify(r, p)
  PROVE  /\ events' \in Seq(repos) /\ due' \in [Repos -> Nat]
         /\ \/ /\ events' = Append(events, r) /\ r \in repos /\ Len(events') = Len(events) + 1
               /\ due' = [due EXCEPT ![r] = @ + 1]
            \/ events' = events /\ due' = due
<1>1. CASE <<r, p>> \in watched /\ ~closed /\ Len(events) < QueueLimit
  <2>1. r \in repos /\ repos \subseteq Repos /\ events \in Seq(repos) /\ due \in [Repos -> Nat]
    BY <1>1 DEF TypeInv, TypeOK
  <2>2. events' = Append(events, r) /\ due' = [due EXCEPT ![r] = @ + 1]
    BY <1>1 DEF Notify
  <2>3. QED BY <2>1, <2>2, AppendProperties
<1>2. CASE ~(<<r, p>> \in watched /\ ~closed /\ Len(events) < QueueLimit)
  BY <1>2 DEF Notify, TypeInv, TypeOK
<1>3. QED BY <1>1, <1>2

\* Every element of the queue is a registered repository; its head leaves it.
LEMMA QueueOfRepos ==
  ASSUME NEW S, NEW s \in Seq(S)
  PROVE  /\ \A i \in 1..Len(s) : s[i] \in S
         /\ s # <<>> => /\ Head(s) \in S /\ Tail(s) \in Seq(S) /\ Len(Tail(s)) = Len(s) - 1
                        /\ \A i \in 1..Len(s) : s[i] = Head(s) \/ (i > 1 /\ Tail(s)[i - 1] = s[i])
<1>1. Len(s) \in Nat /\ \A i \in 1..Len(s) : s[i] \in S
  BY ElementOfSeq
<1>2. CASE s # <<>>
  <2>1. /\ Head(s) \in S /\ Tail(s) \in Seq(S) /\ Len(Tail(s)) = Len(s) - 1
        /\ \A i \in 1..Len(Tail(s)) : Tail(s)[i] = s[i + 1]
        /\ Head(s) = s[1]
    BY <1>2, HeadTailProperties
  <2>2. \A i \in 1..Len(s) : i > 1 => i - 1 \in 1..Len(Tail(s)) /\ (i - 1) + 1 = i
    BY <1>1, <2>1
  <2>3. \A i \in 1..Len(s) : i > 1 => Tail(s)[i - 1] = s[i]
    BY <2>1, <2>2
  <2>4. \A i \in 1..Len(s) : i = 1 \/ i > 1
    BY <1>1
  <2>5. QED BY <1>1, <2>1, <2>3, <2>4
<1>3. QED BY <1>1, <1>2

LEMMA LessIsNatural == ASSUME NEW n \in Nat, NEW k \in Nat PROVE Less(n, k) \in Nat
BY DEF Less

\* How often a repository is queued, or in the hands of a callback, is a number.
Holders(r) == {c \in Callbacks : r \in callback[c].todo}

LEMMA CountsAreNumbers ==
  ASSUME TypeInv
  PROVE  \A r : /\ Queued(r) \in Nat /\ IsFiniteSet({i \in 1..Len(events) : events[i] = r})
               /\ Cardinality(Holders(r)) \in Nat /\ IsFiniteSet(Holders(r))
<1>1. Len(events) \in Nat
  BY DEF TypeInv, TypeOK
<1>2. ASSUME NEW r
      PROVE  Queued(r) \in Nat /\ IsFiniteSet({i \in 1..Len(events) : events[i] = r})
  <2>1. IsFiniteSet(1..Len(events))
    BY <1>1, FS_Interval
  <2>2. {i \in 1..Len(events) : events[i] = r} \in SUBSET (1..Len(events))
    OBVIOUS
  <2>3. QED BY <2>1, <2>2, FS_Subset, FS_CardinalityType DEF Queued
<1>3. ASSUME NEW r PROVE Cardinality(Holders(r)) \in Nat /\ IsFiniteSet(Holders(r))
  <2>1. Holders(r) \in SUBSET Callbacks
    BY DEF Holders
  <2>2. QED BY <2>1, CallbacksAssumption, FS_Subset, FS_CardinalityType
<1>4. QED BY <1>2, <1>3

-----------------------------------------------------------------------------
\* Type correctness.

LEMMA InitTyped == Init => TypeInv
<1> SUFFICES ASSUME Init PROVE TypeInv
  OBVIOUS
<1>1. dirs \subseteq Repos \X Places
  BY DEF Init, Places
<1>2. callback \in [Callbacks -> [at : {"none", "swap", "invalidate"}, todo : SUBSET repos]]
  BY DEF Init, Free
<1>3. events \in Seq(repos)
  BY EmptySeq DEF Init
<1>4. /\ \A r \in Repos : announced[r] \in 0..changes[r] /\ cache[r] \in {None} \cup 0..changes[r]
      /\ changes \in [Repos -> Nat] /\ announced \in [Repos -> Nat]
      /\ cache \in [Repos -> Nat \cup {None}]
  BY DEF Init, None
<1>5. /\ repos = {} /\ watched = {} /\ pending = {} /\ loop = "select" /\ timer = FALSE
      /\ done = FALSE /\ closed = FALSE /\ naming \in Namings /\ edits \in 0..MaxChanges
      /\ due \in [Repos -> Nat]
  BY BoundsAssumption DEF Init
<1>6. QED BY <1>1, <1>2, <1>3, <1>4, <1>5 DEF TypeInv, TypeOK

LEMMA NextTyped == TypeInv /\ [Next]_vars => TypeInv'
<1> SUFFICES ASSUME TypeInv, [Next]_vars PROVE TypeInv'
  OBVIOUS
<1> USE BoundsAssumption DEF TypeInv, TypeOK, None
<1>1. ASSUME NEW r \in Repos, NEW p \in Places, RefChange(r, p) PROVE TypeInv'
  <2>1. /\ Notify(r, p) /\ edits < MaxChanges /\ edits' = edits + 1
        /\ changes' = [changes EXCEPT ![r] = @ + 1]
        /\ announced' \in {announced, [announced EXCEPT ![r] = changes'[r]]}
        /\ UNCHANGED <<naming, repos, watched, dirs, pending, loop, timer, callback, done, closed, cache>>
    BY <1>1 DEF RefChange
  <2>2. events' \in Seq(repos') /\ due' \in [Repos -> Nat]
    BY <2>1, NotifyQueues
  <2>3. changes' \in [Repos -> Nat] /\ announced' \in [Repos -> Nat]
    <3>1. changes' \in [Repos -> Nat] /\ changes'[r] \in Nat
      BY <2>1
    <3>2. [announced EXCEPT ![r] = changes'[r]] \in [Repos -> Nat]
      BY <3>1
    <3>3. QED BY <2>1, <3>1, <3>2
  <2>4. ASSUME NEW q \in Repos
        PROVE  announced'[q] \in 0..changes'[q] /\ cache'[q] \in {None} \cup 0..changes'[q]
    <3>1. changes'[q] \in Nat /\ changes[q] \in Nat /\ changes[q] <= changes'[q]
      BY <2>1
    <3>2. announced'[q] = announced[q] \/ announced'[q] = changes'[q]
      BY <2>1
    <3>3. QED BY <2>1, <3>1, <3>2
  <2>5. edits' \in 0..MaxChanges
    BY <2>1
  <2>6. QED BY <2>1, <2>2, <2>3, <2>4, <2>5
<1>2. ASSUME NEW r \in Repos, NEW parent \in Places, NEW p \in Places, MakeDir(r, parent, p)
      PROVE  TypeInv'
  <2>1. /\ Notify(r, parent) /\ edits < MaxChanges /\ edits' = edits + 1
        /\ dirs' = dirs \cup {<<r, p>>}
        /\ UNCHANGED <<naming, repos, watched, pending, loop, timer, callback, done, closed, changes,
                       announced, cache>>
    BY <1>2 DEF MakeDir
  <2>2. events' \in Seq(repos') /\ due' \in [Repos -> Nat]
    BY <2>1, NotifyQueues
  <2>3. QED BY <2>1, <2>2
<1>3. ASSUME NEW r \in Repos, Fill(r) PROVE TypeInv'
  BY <1>3 DEF Fill, changing
<1>4. ASSUME NEW r \in Repos, WatchRepo(r) PROVE TypeInv'
  <2>1. /\ repos' = repos \cup {r} /\ watched' = watched \cup (dirs \cap ({r} \X WatchedPlaces))
        /\ UNCHANGED <<events, pending, loop, timer, callback, done, closed, changes,
                       announced, due, naming, dirs, edits, cache>>
    BY <1>4 DEF WatchRepo, changing
  <2>2. events' \in Seq(repos')
    BY <2>1, SeqMonotonic
  <2>3. watched' \subseteq dirs' /\ watched' \subseteq repos' \X Places
    BY <2>1 DEF WatchedPlaces, Places
  <2>4. QED BY <2>1, <2>2, <2>3
<1>5. CASE Close
  <2>1. CASE CloseDone
    BY <2>1 DEF CloseDone, changing
  <2>2. CASE CloseWatcher
    <3>1. due' \in [Repos -> Nat]
      <4>1. \A q \in Repos : Less(due[q], Queued(q)) \in Nat
        BY CountsAreNumbers, LessIsNatural
      <4>2. QED BY <2>2, <4>1 DEF CloseWatcher
    <3>2. QED BY <2>2, <3>1, EmptySeq DEF CloseWatcher, changing
  <2>3. QED BY <1>5, <2>1, <2>2 DEF Close
<1>6. CASE Receive
  <2>1. PICK s \in FindRepo(Head(events)) :
               /\ pending' = pending \cup {s}
               /\ due' = IF s \in pending \/ s # Head(events)
                         THEN [due EXCEPT ![Head(events)] = Less(@, 1)] ELSE due
    BY <1>6 DEF Receive
  <2>2. /\ events # <<>> /\ events' = Tail(events) /\ loop' = "pended"
        /\ UNCHANGED <<naming, repos, watched, timer, callback, done, closed, changes, announced,
                       dirs, edits, cache>>
    BY <1>6 DEF Receive, changing
  <2>3. s \in repos /\ Tail(events) \in Seq(repos)
    BY <2>1, <2>2, QueueOfRepos DEF FindRepo
  <2>4. due' \in [Repos -> Nat]
    <3>1. \A q \in Repos : Less(due[q], 1) \in Nat
      BY LessIsNatural
    <3>2. [due EXCEPT ![Head(events)] = Less(@, 1)] \in [Repos -> Nat]
      BY <3>1
    <3>3. QED BY <2>1, <3>2
  <2>5. QED BY <2>1, <2>2, <2>3, <2>4
<1>7. CASE Debounce \/ Stop
  <2>1. loop' \in {"select", "stopped"} /\ timer' \in BOOLEAN
    BY <1>7 DEF Debounce, Stop
  <2>2. UNCHANGED <<naming, repos, watched, events, pending, callback, done, closed, changes,
                    announced, due, dirs, edits, cache>>
    BY <1>7 DEF Debounce, Stop, changing
  <2>3. QED BY <2>1, <2>2
<1>8. ASSUME NEW c \in Callbacks, Fire(c) PROVE TypeInv'
  BY <1>8 DEF Fire, changing
<1>9. ASSUME NEW c \in Callbacks, Swap(c) PROVE TypeInv'
  BY <1>9 DEF Swap, Free, changing
<1>10. ASSUME NEW c \in Callbacks, NEW r \in Repos, InvalidateRepo(c, r) PROVE TypeInv'
  <2>1. UNCHANGED <<naming, repos, watched, events, pending, loop, timer, done, closed, changes,
                    announced, dirs, edits>>
    BY <1>10 DEF InvalidateRepo, changing
  <2>2. \E new \in [at : {"none", "swap", "invalidate"}, todo : SUBSET repos] :
          callback' = [callback EXCEPT ![c] = new]
    <3>1. callback[c].todo \subseteq repos
      OBVIOUS
    <3>2. callback' \in {[callback EXCEPT ![c] = Free],
                         [callback EXCEPT ![c] = [at |-> "invalidate", todo |-> callback[c].todo \ {r}]]}
      BY <1>10 DEF InvalidateRepo
    <3>3. QED BY <3>1, <3>2 DEF Free
  <2>3. callback' \in [Callbacks -> [at : {"none", "swap", "invalidate"}, todo : SUBSET repos]]
    BY <2>2
  <2>4. /\ cache' \in [Repos -> Nat \cup {None}]
        /\ \A q \in Repos : cache'[q] \in {None} \cup 0..changes[q]
    BY <1>10 DEF InvalidateRepo, Without
  <2>5. due' \in [Repos -> Nat]
    BY <1>10 DEF InvalidateRepo, Less
  <2>6. QED BY <2>1, <2>3, <2>4, <2>5
<1>11. CASE UNCHANGED vars
  BY <1>11 DEF vars
<1>12. QED
  BY <1>1, <1>2, <1>3, <1>4, <1>5, <1>6, <1>7, <1>8, <1>9, <1>10, <1>11
     DEF Next, Environment, Loop, Timer, Callback

\* The type invariant, for any number of repositories and callbacks.
THEOREM TypeCorrect == Spec => []TypeOK
<1>1. TypeInv => TypeOK
  BY DEF TypeInv
<1>2. QED BY <1>1, InitTyped, NextTyped, PTL DEF Spec

-----------------------------------------------------------------------------
\* No change is lost.

\* Only a callback that invalidates has something to do, so one that starts or
\* swaps overwrites nothing; and the loop ends with the watcher only.
InvalidationsAreKept ==
  /\ \A c \in Callbacks : callback[c].at # "invalidate" => callback[c].todo = {}
  /\ loop = "stopped" => done
  /\ NoChangeIsLost

\* An obligation that is there after a step was there before, unless the step
\* is the change itself.
Owed(r) == Unmistaken(r) /\ cache[r] # None /\ cache[r] < announced[r] /\ ~done

LEMMA InitKept == Init => InvalidationsAreKept
BY DEF Init, InvalidationsAreKept, NoChangeIsLost, Free

\* The first two conjuncts.
LEMMA NextKeepsShape ==
  ASSUME TypeInv, InvalidationsAreKept, [Next]_vars
  PROVE  /\ \A c \in Callbacks : callback'[c].at # "invalidate" => callback'[c].todo = {}
         /\ loop' = "stopped" => done'
<1> USE DEF TypeInv, TypeOK, InvalidationsAreKept
<1>1. CASE UNCHANGED <<callback, loop>> /\ (done => done')
  BY <1>1
<1>2. CASE Loop
  BY <1>2 DEF Loop, Receive, Debounce, Stop
<1>3. ASSUME NEW c \in Callbacks, Fire(c) \/ Swap(c) \/ \E r \in Repos : InvalidateRepo(c, r)
      PROVE  /\ \A b \in Callbacks : callback'[b].at # "invalidate" => callback'[b].todo = {}
             /\ loop' = "stopped" => done'
  <2>1. UNCHANGED <<loop, done>>
    BY <1>3 DEF Fire, Swap, InvalidateRepo
  <2>2. ASSUME NEW b \in Callbacks PROVE callback'[b] = callback[b] \/ callback'[b].at = "invalidate" \/ callback'[b].todo = {}
    <3>1. CASE Fire(c)
      BY <3>1 DEF Fire
    <3>2. CASE Swap(c)
      BY <3>2 DEF Swap, Free
    <3>3. CASE \E r \in Repos : InvalidateRepo(c, r)
      BY <3>3 DEF InvalidateRepo, Free
    <3>4. QED BY <1>3, <3>1, <3>2, <3>3
  <2>3. QED BY <2>1, <2>2
<1>4. CASE Environment \/ UNCHANGED vars
  <2>1. UNCHANGED <<callback, loop>> /\ (done => done')
    BY <1>4 DEF Environment, RefChange, MakeDir, Fill, WatchRepo, Close, CloseDone, CloseWatcher, vars
  <2>2. QED BY <2>1, <1>1
<1>5. QED BY <1>2, <1>3, <1>4 DEF Next, Timer, Callback

\* Paths do not change.
LEMMA NamesStay == ASSUME [Next]_vars, NEW r PROVE naming' = naming /\ (Unmistaken(r)' => Unmistaken(r))
<1>1. naming' = naming
  BY DEF Next, Environment, RefChange, MakeDir, Fill, WatchRepo, Close, CloseDone, CloseWatcher,
         Loop, Receive, Debounce, Stop, Timer, Fire, Callback, Swap, InvalidateRepo, changing, vars
<1>2. QED BY <1>1 DEF Unmistaken

\* A step that leaves the loop, the timer and the callbacks alone and takes
\* nothing off the queue keeps an invalidation on its way.
LEMMA UnderwayStays ==
  ASSUME TypeInv, NEW r \in Repos, Underway(r),
         UNCHANGED <<pending, loop, timer, callback>>,
         Len(events') >= Len(events), \A i \in 1..Len(events) : events'[i] = events[i],
         Len(events') \in Nat
  PROVE  Underway(r)'
<1>1. CASE \E i \in 1..Len(events) : events[i] = r
  <2>1. PICK i \in 1..Len(events) : events[i] = r
    BY <1>1
  <2>2. Len(events) \in Nat
    BY DEF TypeInv, TypeOK
  <2>3. i \in 1..Len(events') /\ events'[i] = r
    BY <2>1, <2>2
  <2>4. QED BY <2>3 DEF Underway
<1>2. CASE ~ \E i \in 1..Len(events) : events[i] = r
  BY <1>2 DEF Underway
<1>3. QED BY <1>1, <1>2

\* A step of the environment either owes nothing new, or has put it in the queue.
LEMMA EnvironmentLosesNothing ==
  ASSUME TypeInv, InvalidationsAreKept, Environment, NEW r \in Repos, Owed(r)'
  PROVE  Underway(r)'
<1> USE DEF InvalidationsAreKept, NoChangeIsLost, Owed
<1>0. events \in Seq(repos) /\ Len(events) \in Nat
  BY DEF TypeInv, TypeOK
<1>names. Unmistaken(r)
  BY NamesStay DEF Next
<1>1. ASSUME NEW q \in Repos, NEW p \in Places, RefChange(q, p) PROVE Underway(r)'
  <2>1. /\ Notify(q, p) /\ UNCHANGED <<pending, loop, timer, callback, cache, done>>
        /\ announced' = IF Len(events') > Len(events) THEN [announced EXCEPT ![q] = changes'[q]] ELSE announced
    BY <1>1 DEF RefChange
  <2>2. CASE events' = Append(events, q) /\ Len(events') = Len(events) + 1
    <3>1. Len(events') \in Nat /\ \A i \in 1..Len(events) : events'[i] = events[i]
      BY <1>0, <2>2
    <3>2. CASE q = r
      <4>1. Len(events') \in 1..Len(events') /\ events'[Len(events')] = r
        BY <1>0, <2>2, <3>2
      <4>2. QED BY <4>1 DEF Underway
    <3>3. CASE q # r
      <4>1. announced'[r] = announced[r]
        BY <2>1, <3>3 DEF TypeInv
      <4>2. Underway(r)
        BY <1>names, <2>1, <4>1
      <4>3. QED BY <2>1, <2>2, <3>1, <4>2, <1>0, UnderwayStays
    <3>4. QED BY <3>2, <3>3
  <2>3. CASE events' = events
    <3>1. announced' = announced
      BY <1>0, <2>1, <2>3
    <3>2. QED BY <1>0, <1>names, <2>1, <2>3, <3>1, UnderwayStays
  <2>4. QED BY <2>1, <2>2, <2>3, NotifyQueues
<1>2. ASSUME NEW q \in Repos, NEW a \in Places, NEW p \in Places, MakeDir(q, a, p) PROVE Underway(r)'
  <2>1. Notify(q, a) /\ UNCHANGED <<pending, loop, timer, callback, cache, done, announced>>
    BY <1>2 DEF MakeDir
  <2>2. /\ Len(events') \in Nat /\ Len(events') >= Len(events)
        /\ \A i \in 1..Len(events) : events'[i] = events[i]
    BY <1>0, <2>1, NotifyQueues
  <2>3. QED BY <1>names, <2>1, <2>2, UnderwayStays
<1>3. ASSUME NEW q \in Repos, Fill(q) PROVE Underway(r)'
  <2>1. UNCHANGED <<pending, loop, timer, callback, events, announced, done>>
    BY <1>3 DEF Fill, changing
  <2>2. r # q
    BY <1>3, <2>1 DEF Fill, TypeInv, TypeOK
  <2>3. cache'[r] = cache[r]
    BY <1>3, <2>2 DEF Fill, TypeInv
  <2>4. QED BY <1>0, <1>names, <2>1, <2>3, UnderwayStays
<1>4. ASSUME NEW q \in Repos, WatchRepo(q) PROVE Underway(r)'
  BY <1>0, <1>names, <1>4, UnderwayStays DEF WatchRepo, changing
<1>5. CASE Close
  BY <1>5 DEF Close, CloseDone, CloseWatcher, TypeInv, TypeOK
<1>6. QED BY <1>1, <1>2, <1>3, <1>4, <1>5 DEF Environment

\* The loop moves an event on: from the queue to the pending set, and to the timer.
LEMMA LoopLosesNothing ==
  ASSUME TypeInv, InvalidationsAreKept, Loop, NEW r \in Repos, Owed(r)'
  PROVE  Underway(r)'
<1>1. UNCHANGED <<callback, done, announced, cache>>
  BY DEF Loop, Receive, Debounce, Stop, changing
<1>names. Unmistaken(r)
  BY NamesStay DEF Next, Owed
<1>2. Underway(r)
  BY <1>1, <1>names DEF InvalidationsAreKept, NoChangeIsLost, Owed
<1>3. CASE Receive
  <2>0. PICK s \in FindRepo(Head(events)) : pending' = pending \cup {s}
    BY <1>3 DEF Receive
  <2>1. /\ loop' = "pended" /\ events # <<>> /\ events' = Tail(events) /\ UNCHANGED callback
        /\ pending \subseteq pending'
    BY <1>3, <2>0 DEF Receive
  <2>2. CASE \E i \in 1..Len(events) : events[i] = r
    <3>1. PICK i \in 1..Len(events) : events[i] = r
      BY <2>2
    <3>2. events \in Seq(repos) /\ Len(events) \in Nat
      BY DEF TypeInv, TypeOK
    <3>3. CASE r = Head(events)
      <4>1. s = r
        BY <1>names, <2>0, <3>3 DEF FindRepo, Unmistaken, TypeInv, TypeOK
      <4>2. QED BY <2>0, <2>1, <4>1 DEF Underway
    <3>4. CASE r # Head(events)
      <4>1. i > 1 /\ events'[i - 1] = r /\ Len(events') = Len(events) - 1
        BY <2>1, <3>1, <3>2, <3>4, QueueOfRepos
      <4>2. i - 1 \in 1..Len(events')
        BY <3>2, <4>1
      <4>3. QED BY <4>1, <4>2 DEF Underway
    <3>5. QED BY <3>3, <3>4
  <2>3. CASE r \in pending
    BY <2>1, <2>3 DEF Underway
  <2>4. CASE \E c \in Callbacks : r \in callback[c].todo
    BY <2>1, <2>4 DEF Underway
  <2>5. QED BY <1>2, <2>2, <2>3, <2>4 DEF Underway
<1>4. CASE Debounce
  BY <1>2, <1>4 DEF Debounce, Underway
<1>5. CASE Stop
  BY <1>1, <1>5 DEF Stop, Owed, TypeInv, TypeOK
<1>6. QED BY <1>3, <1>4, <1>5 DEF Loop

\* The timer and its callbacks take over what is pending, and drop what they owe.
LEMMA CallbacksLoseNothing ==
  ASSUME TypeInv, InvalidationsAreKept, NEW r \in Repos, Owed(r)', NEW c \in Callbacks,
         Fire(c) \/ Callback(c)
  PROVE  Underway(r)'
<1>1. UNCHANGED <<events, done, announced>>
  BY DEF Fire, Callback, Swap, InvalidateRepo, changing
<1>names. Unmistaken(r)
  BY NamesStay DEF Next, Timer, Owed
<1>2. cache'[r] = cache[r]
  BY DEF Fire, Callback, Swap, InvalidateRepo, Without, Owed, TypeInv, None
<1>3. Underway(r)
  BY <1>1, <1>2, <1>names DEF InvalidationsAreKept, NoChangeIsLost, Owed
<1>4. CASE \E i \in 1..Len(events) : events[i] = r
  BY <1>1, <1>4 DEF Underway
<1>5. CASE Fire(c)
  <2>1. /\ callback' = [callback EXCEPT ![c] = [at |-> "swap", todo |-> {}]]
        /\ callback[c].at = "none" /\ UNCHANGED <<pending, loop>>
    BY <1>5 DEF Fire
  <2>2. callback'[c].at = "swap"
    BY <2>1 DEF TypeInv, TypeOK
  <2>3. \A b \in Callbacks : r \in callback[b].todo => r \in callback'[b].todo
    BY <2>1 DEF TypeInv, TypeOK, InvalidationsAreKept
  <2>4. QED BY <1>3, <1>4, <2>1, <2>2, <2>3 DEF Underway
<1>6. CASE Swap(c)
  <2>1. /\ callback' = [callback EXCEPT ![c] =
                          IF pending = {} THEN Free ELSE [at |-> "invalidate", todo |-> pending]]
        /\ callback[c].at = "swap"
    BY <1>6 DEF Swap
  <2>2. r \in pending => r \in callback'[c].todo
    BY <2>1 DEF TypeInv, TypeOK
  <2>3. \A b \in Callbacks : r \in callback[b].todo => r \in callback'[b].todo
    BY <2>1 DEF TypeInv, TypeOK, InvalidationsAreKept
  <2>4. QED BY <1>3, <1>4, <2>2, <2>3 DEF Underway
<1>7. ASSUME NEW q \in Repos, InvalidateRepo(c, q) PROVE Underway(r)'
  <2>1. /\ callback' = [callback EXCEPT ![c] =
                          IF @.todo = {q} THEN Free ELSE [at |-> "invalidate", todo |-> @.todo \ {q}]]
        /\ callback[c].at = "invalidate" /\ q \in callback[c].todo
        /\ cache' = Without(q) /\ UNCHANGED <<pending, loop, timer>>
    BY <1>7 DEF InvalidateRepo
  <2>2. r # q
    BY <2>1, NamingsAssumption DEF Owed, Without, TypeInv, TypeOK
  <2>3. \A b \in Callbacks : r \in callback[b].todo => r \in callback'[b].todo
    BY <2>1, <2>2 DEF TypeInv, TypeOK
  <2>4. \A b \in Callbacks : callback[b].at = "swap" => callback'[b].at = "swap"
    BY <2>1 DEF TypeInv, TypeOK
  <2>5. QED BY <1>3, <1>4, <2>1, <2>3, <2>4 DEF Underway
<1>8. QED BY <1>5, <1>6, <1>7 DEF Callback

LEMMA NextLosesNothing == TypeInv /\ InvalidationsAreKept /\ [Next]_vars => InvalidationsAreKept'
<1> SUFFICES ASSUME TypeInv, InvalidationsAreKept, [Next]_vars PROVE InvalidationsAreKept'
  OBVIOUS
<1>1. ASSUME NEW r \in Repos, Owed(r)' PROVE Underway(r)'
  <2>1. CASE Environment
    BY <1>1, <2>1, EnvironmentLosesNothing
  <2>2. CASE Loop
    BY <1>1, <2>2, LoopLosesNothing
  <2>3. ASSUME NEW c \in Callbacks, Fire(c) \/ Callback(c) PROVE Underway(r)'
    BY <1>1, <2>3, CallbacksLoseNothing
  <2>4. CASE UNCHANGED vars
    BY <1>1, <2>4 DEF vars, InvalidationsAreKept, NoChangeIsLost, Owed, Underway, Unmistaken
  <2>5. QED BY <2>1, <2>2, <2>3, <2>4 DEF Next, Timer
<1>2. QED BY <1>1, NextKeepsShape DEF InvalidationsAreKept, NoChangeIsLost, Owed

\* As long as entries older than a queued change are cached, their invalidation
\* is on its way: in the queue, pending with a timer or a callback to take it, or
\* in a callback's hands (eventLoop, the AfterFunc callback).
THEOREM NothingIsLost == Spec => []NoChangeIsLost
<1>1. InvalidationsAreKept => NoChangeIsLost
  BY DEF InvalidationsAreKept
<1>2. QED BY <1>1, InitTyped, NextTyped, InitKept, NextLosesNothing, PTL DEF Spec

-----------------------------------------------------------------------------
\* Only what changed is dropped.

\* Where a value occurs in a queue.
IndexesOf(q, r) == {i \in 1..Len(q) : q[i] = r}

LEMMA IndexesAreFinite ==
  ASSUME NEW S, NEW q \in Seq(S), NEW r
  PROVE  IsFiniteSet(IndexesOf(q, r)) /\ Cardinality(IndexesOf(q, r)) \in Nat
<1>1. IndexesOf(q, r) \in SUBSET (1..Len(q)) /\ IsFiniteSet(1..Len(q))
  BY LenProperties, FS_Interval DEF IndexesOf
<1>2. QED BY <1>1, FS_Subset, FS_CardinalityType

\* An event more, or the first one less.
LEMMA CountAfterAppend ==
  ASSUME NEW S, NEW q \in Seq(S), NEW e \in S, NEW r
  PROVE  Cardinality(IndexesOf(Append(q, e), r)) = Cardinality(IndexesOf(q, r)) + (IF e = r THEN 1 ELSE 0)
<1>1. /\ Len(q) \in Nat /\ Len(Append(q, e)) = Len(q) + 1
      /\ \A i \in 1..Len(q) : Append(q, e)[i] = q[i]
      /\ Append(q, e)[Len(q) + 1] = e
  BY LenProperties, AppendProperties
<1>2. \A i : i \in 1..Len(q) + 1 <=> (i \in 1..Len(q) \/ i = Len(q) + 1)
  BY <1>1
<1>3. IndexesOf(Append(q, e), r) = IF e = r THEN IndexesOf(q, r) \cup {Len(q) + 1} ELSE IndexesOf(q, r)
  BY <1>1, <1>2 DEF IndexesOf
<1>4. Len(q) + 1 \notin IndexesOf(q, r)
  BY <1>1 DEF IndexesOf
<1>5. CASE e = r
  <2>1. IsFiniteSet(IndexesOf(q, r))
    BY IndexesAreFinite
  <2>2. QED BY <1>3, <1>4, <1>5, <2>1, FS_AddElement
<1>6. CASE e # r
  BY <1>3, <1>6, IndexesAreFinite
<1>7. QED BY <1>5, <1>6

LEMMA CountAfterTail ==
  ASSUME NEW S, NEW q \in Seq(S), q # <<>>, NEW r
  PROVE  Cardinality(IndexesOf(q, r)) = Cardinality(IndexesOf(Tail(q), r)) + (IF Head(q) = r THEN 1 ELSE 0)
<1> DEFINE later == IndexesOf(q, r) \ {1}
           shift == [i \in IndexesOf(Tail(q), r) |-> i + 1]
<1>1. /\ Len(q) \in Nat /\ Tail(q) \in Seq(S) /\ Len(Tail(q)) = Len(q) - 1 /\ Head(q) = q[1]
      /\ \A i \in 1..Len(Tail(q)) : Tail(q)[i] = q[i + 1]
  BY LenProperties, HeadTailProperties
<1>2. 1 \in 1..Len(q)
  BY <1>1, EmptySeq
<1>3. \A i \in IndexesOf(Tail(q), r) : i \in Nat /\ i + 1 \in later
  BY <1>1 DEF IndexesOf
<1>4. \A j \in later : j - 1 \in IndexesOf(Tail(q), r) /\ (j - 1) + 1 = j
  <2> SUFFICES ASSUME NEW j \in later PROVE j - 1 \in IndexesOf(Tail(q), r) /\ (j - 1) + 1 = j
    OBVIOUS
  <2>1. j \in 1..Len(q) /\ j # 1 /\ q[j] = r
    BY DEF IndexesOf
  <2>2. j - 1 \in 1..Len(Tail(q)) /\ (j - 1) + 1 = j
    BY <1>1, <2>1
  <2>3. QED BY <1>1, <2>1, <2>2 DEF IndexesOf
<1>5. shift \in Bijection(IndexesOf(Tail(q), r), later)
  <2>1. shift \in [IndexesOf(Tail(q), r) -> later]
    BY <1>3
  <2>2. \A a, b \in IndexesOf(Tail(q), r) : shift[a] = shift[b] => a = b
    BY <1>3
  <2>3. \A j \in later : \E i \in IndexesOf(Tail(q), r) : shift[i] = j
    BY <1>4
  <2> HIDE DEF shift, later
  <2>4. QED BY <2>1, <2>2, <2>3 DEF Bijection, Injection, Surjection, IsInjective
<1> HIDE DEF shift
<1>6. Cardinality(later) = Cardinality(IndexesOf(Tail(q), r))
  <2>1. IsFiniteSet(IndexesOf(Tail(q), r))
    BY <1>1, IndexesAreFinite
  <2>2. ExistsBijection(IndexesOf(Tail(q), r), later)
    BY <1>5 DEF ExistsBijection
  <2> HIDE DEF later
  <2>3. QED BY <2>1, <2>2, FS_Bijection
<1>7. 1 \in IndexesOf(q, r) <=> Head(q) = r
  BY <1>1, <1>2 DEF IndexesOf
<1>8. /\ Cardinality(later) = IF 1 \in IndexesOf(q, r) THEN Cardinality(IndexesOf(q, r)) - 1
                                                       ELSE Cardinality(IndexesOf(q, r))
      /\ Cardinality(IndexesOf(q, r)) \in Nat
  BY IndexesAreFinite, FS_RemoveElement
<1>9. QED BY <1>6, <1>7, <1>8

\* The invalidations of r that are on their way, each counted where it is.
Accounted(r) == Queued(r) + (IF r \in pending THEN 1 ELSE 0) + Cardinality(Holders(r))

\* The events of a repository that is apart account for every invalidation of it.
DropsAreDue == \A r \in Repos : Apart(r) => due[r] >= Accounted(r)

LEMMA InitDue == Init => DropsAreDue
<1> SUFFICES ASSUME Init, NEW r \in Repos PROVE due[r] >= Accounted(r)
  BY DEF DropsAreDue
<1>1. {i \in 1..Len(events) : events[i] = r} = {} /\ Holders(r) = {} /\ r \notin pending /\ due[r] = 0
  BY EmptySeq DEF Init, Holders, Free
<1>2. Queued(r) = 0 /\ Cardinality(Holders(r)) = 0
  BY <1>1, FS_EmptySet DEF Queued
<1>3. QED BY <1>1, <1>2 DEF Accounted

\* What an event, or a change in the hands of one callback, does to the count.
LEMMA NotifiedIsDue ==
  ASSUME TypeInv, DropsAreDue, NEW q \in Repos, NEW p, Notify(q, p), UNCHANGED <<pending, callback>>,
         NEW r \in Repos, Apart(r)
  PROVE  due'[r] >= Accounted(r)'
<1>1. Queued(r) \in Nat /\ Cardinality(Holders(r)) \in Nat /\ Holders(r)' = Holders(r)
  BY CountsAreNumbers DEF Holders
<1>2. due \in [Repos -> Nat] /\ events \in Seq(repos) /\ due[r] >= Accounted(r)
  BY DEF TypeInv, TypeOK, DropsAreDue
<1>3. CASE events' = Append(events, q) /\ q \in repos /\ due' = [due EXCEPT ![q] = @ + 1]
  <2>1. Queued(r)' = Queued(r) + (IF q = r THEN 1 ELSE 0)
    <3>1. Cardinality(IndexesOf(Append(events, q), r)) = Cardinality(IndexesOf(events, r)) + (IF q = r THEN 1 ELSE 0)
      BY <1>2, <1>3, CountAfterAppend
    <3>2. QED BY <1>3, <3>1 DEF Queued, IndexesOf
  <2>2. due'[r] = due[r] + (IF q = r THEN 1 ELSE 0)
    BY <1>2, <1>3
  <2>3. QED BY <1>1, <1>2, <2>1, <2>2 DEF Accounted
<1>4. CASE events' = events /\ due' = due
  BY <1>1, <1>2, <1>4 DEF Accounted, Queued
<1>5. QED BY <1>3, <1>4, NotifyQueues

LEMMA ReceivedIsDue ==
  ASSUME TypeInv, DropsAreDue, Receive, NEW r \in Repos, Apart(r)
  PROVE  due'[r] >= Accounted(r)'
<1> DEFINE q == Head(events)
<1>1. PICK s \in FindRepo(q) :
             /\ pending' = pending \cup {s}
             /\ due' = IF s \in pending \/ s # q THEN [due EXCEPT ![q] = Less(@, 1)] ELSE due
  BY DEF Receive
<1>2. events # <<>> /\ events' = Tail(events) /\ UNCHANGED callback
  BY DEF Receive
<1>3. Queued(r) \in Nat /\ Cardinality(Holders(r)) \in Nat /\ Holders(r)' = Holders(r)
  BY <1>2, CountsAreNumbers DEF Holders
<1>4. due \in [Repos -> Nat] /\ events \in Seq(repos) /\ due[r] >= Accounted(r) /\ repos \subseteq Repos
  BY DEF TypeInv, TypeOK, DropsAreDue
<1>5. q \in Repos /\ s \in Repos
  BY <1>1, <1>2, <1>4, QueueOfRepos DEF FindRepo
<1>6. Queued(r) = Queued(r)' + (IF q = r THEN 1 ELSE 0) /\ Queued(r)' \in Nat
  <2>1. Tail(events) \in Seq(repos)
    BY <1>2, <1>4, HeadTailProperties
  <2>2. Cardinality(IndexesOf(events, r)) = Cardinality(IndexesOf(Tail(events), r)) + (IF q = r THEN 1 ELSE 0)
    BY <1>2, <1>4, CountAfterTail
  <2>3. Cardinality(IndexesOf(Tail(events), r)) \in Nat
    BY <2>1, IndexesAreFinite
  <2>4. QED BY <1>2, <2>2, <2>3 DEF Queued, IndexesOf
<1>7. s = r => q = r
  BY <1>1, <1>5 DEF FindRepo, Apart
<1> HIDE DEF q
<1>8. due'[r] = IF q = r /\ (s \in pending \/ s # q) THEN Less(due[r], 1) ELSE due[r]
  BY <1>1, <1>4, <1>5
<1>9. r \in pending' <=> r \in pending \/ s = r
  BY <1>1
<1>10. QED BY <1>3, <1>4, <1>6, <1>7, <1>8, <1>9 DEF Accounted, Less

LEMMA CallbackIsDue ==
  ASSUME TypeInv, InvalidationsAreKept, DropsAreDue, NEW c \in Callbacks, Fire(c) \/ Callback(c),
         NEW r \in Repos, Apart(r)
  PROVE  due'[r] >= Accounted(r)'
<1>1. UNCHANGED events
  BY DEF Fire, Callback, Swap, InvalidateRepo
<1>2. /\ Queued(r) \in Nat /\ Cardinality(Holders(r)) \in Nat /\ IsFiniteSet(Holders(r))
      /\ Queued(r)' = Queued(r)
  BY <1>1, CountsAreNumbers DEF Queued
<1>3. due \in [Repos -> Nat] /\ due[r] >= Accounted(r)
  BY DEF TypeInv, TypeOK, DropsAreDue
<1>4. callback[c].at # "invalidate" => c \notin Holders(r)
  BY DEF InvalidationsAreKept, Holders
<1>5. CASE Fire(c)
  <2>1. callback' = [callback EXCEPT ![c] = [at |-> "swap", todo |-> {}]] /\ callback[c].at = "none"
        /\ UNCHANGED <<pending, due>>
    BY <1>5 DEF Fire
  <2>2. \A b \in Callbacks : b # c => callback'[b] = callback[b]
    BY <2>1 DEF TypeInv, TypeOK
  <2>3. callback'[c].todo = {}
    BY <2>1 DEF TypeInv, TypeOK
  <2>4. Holders(r)' = Holders(r)
    BY <1>4, <2>1, <2>2, <2>3 DEF Holders
  <2>5. QED BY <1>2, <1>3, <2>1, <2>4 DEF Accounted
<1>6. CASE Swap(c)
  <2>1. /\ callback' = [callback EXCEPT ![c] =
                          IF pending = {} THEN Free ELSE [at |-> "invalidate", todo |-> pending]]
        /\ callback[c].at = "swap" /\ pending' = {} /\ UNCHANGED due
    BY <1>6 DEF Swap
  <2>2. \A b \in Callbacks : b # c => callback'[b] = callback[b]
    BY <2>1 DEF TypeInv, TypeOK
  <2>3. callback'[c].todo = pending
    BY <2>1 DEF TypeInv, TypeOK, Free
  <2>4. Holders(r)' = IF r \in pending THEN Holders(r) \cup {c} ELSE Holders(r)
    BY <1>4, <2>1, <2>2, <2>3 DEF Holders
  <2>5. Cardinality(Holders(r)') = Cardinality(Holders(r)) + (IF r \in pending THEN 1 ELSE 0)
    <3>1. Cardinality(Holders(r) \cup {c}) = Cardinality(Holders(r)) + 1
      BY <1>2, <1>4, <2>1, FS_AddElement
    <3>2. QED BY <1>2, <2>4, <3>1
  <2>6. QED BY <1>2, <1>3, <2>1, <2>5 DEF Accounted
<1>7. ASSUME NEW q \in Repos, InvalidateRepo(c, q) PROVE due'[r] >= Accounted(r)'
  <2>1. /\ callback' = [callback EXCEPT ![c] =
                          IF @.todo = {q} THEN Free ELSE [at |-> "invalidate", todo |-> @.todo \ {q}]]
        /\ q \in callback[c].todo /\ due' = [due EXCEPT ![q] = Less(@, 1)] /\ UNCHANGED pending
    BY <1>7 DEF InvalidateRepo
  <2>2. \A b \in Callbacks : b # c => callback'[b] = callback[b]
    BY <2>1 DEF TypeInv, TypeOK
  <2>3. callback'[c].todo = callback[c].todo \ {q}
    BY <2>1 DEF TypeInv, TypeOK, Free
  <2>4. CASE q = r
    <3>1. Holders(r)' = Holders(r) \ {c} /\ c \in Holders(r)
      BY <2>1, <2>2, <2>3, <2>4 DEF Holders
    <3>2. Cardinality(Holders(r)') = Cardinality(Holders(r)) - 1
      BY <1>2, <3>1, FS_RemoveElement
    <3>3. due'[r] = Less(due[r], 1)
      BY <1>3, <2>1, <2>4
    <3>4. QED BY <1>2, <1>3, <2>1, <3>2, <3>3 DEF Accounted, Less
  <2>5. CASE q # r
    <3>1. Holders(r)' = Holders(r)
      BY <2>1, <2>2, <2>3, <2>5 DEF Holders
    <3>2. due'[r] = due[r]
      BY <1>3, <2>1, <2>5
    <3>3. QED BY <1>2, <1>3, <2>1, <3>1, <3>2 DEF Accounted
  <2>6. QED BY <2>4, <2>5
<1>8. QED BY <1>5, <1>6, <1>7 DEF Callback

LEMMA NextKeepsDue == TypeInv /\ InvalidationsAreKept /\ DropsAreDue /\ [Next]_vars => DropsAreDue'
<1> SUFFICES ASSUME TypeInv, InvalidationsAreKept, DropsAreDue, [Next]_vars, NEW r \in Repos, Apart(r)'
             PROVE  due'[r] >= Accounted(r)'
  BY DEF DropsAreDue
<1>1. naming' = naming
  BY DEF Next, Environment, RefChange, MakeDir, Fill, WatchRepo, Close, CloseDone, CloseWatcher,
         Loop, Receive, Debounce, Stop, Timer, Fire, Callback, Swap, InvalidateRepo, changing, vars
<1>2. Apart(r)
  BY <1>1 DEF Apart
<1>3. CASE UNCHANGED <<events, pending, callback, due>>
  BY <1>2, <1>3 DEF DropsAreDue, Accounted, Queued, Holders
<1>4. ASSUME NEW q \in Repos, NEW p \in Places, RefChange(q, p) PROVE due'[r] >= Accounted(r)'
  BY <1>2, <1>4, NotifiedIsDue DEF RefChange
<1>5. ASSUME NEW q \in Repos, NEW a \in Places, NEW p \in Places, MakeDir(q, a, p)
      PROVE  due'[r] >= Accounted(r)'
  BY <1>2, <1>5, NotifiedIsDue DEF MakeDir
<1>6. CASE CloseWatcher
  <2>1. /\ events' = <<>> /\ due' = [q \in Repos |-> Less(due[q], Queued(q))]
        /\ UNCHANGED <<pending, callback>>
    BY <1>6 DEF CloseWatcher
  <2>2. /\ Queued(r) \in Nat /\ Cardinality(Holders(r)) \in Nat
        /\ Holders(r)' = Holders(r) /\ due[r] \in Nat /\ due[r] >= Accounted(r)
    BY <1>2, <2>1, CountsAreNumbers DEF Holders, DropsAreDue, TypeInv, TypeOK
  <2>3. {i \in 1..Len(events') : events'[i] = r} = {}
    BY <2>1, EmptySeq
  <2>4. Queued(r)' = 0
    BY <2>3, FS_EmptySet DEF Queued
  <2>5. due'[r] = Less(due[r], Queued(r))
    BY <2>1
  <2>6. QED BY <2>1, <2>2, <2>4, <2>5 DEF Accounted, Less
<1>7. CASE Receive
  BY <1>2, <1>7, ReceivedIsDue
<1>8. ASSUME NEW c \in Callbacks, Fire(c) \/ Callback(c) PROVE due'[r] >= Accounted(r)'
  BY <1>2, <1>8, CallbackIsDue
<1>9. CASE (\E q \in Repos : Fill(q) \/ WatchRepo(q)) \/ CloseDone \/ Debounce \/ Stop \/ UNCHANGED vars
  <2>1. UNCHANGED <<events, pending, callback, due>>
    BY <1>9 DEF Fill, WatchRepo, CloseDone, Debounce, Stop, vars
  <2>2. QED BY <1>3, <2>1
<1>10. QED
  BY <1>4, <1>5, <1>6, <1>7, <1>8, <1>9 DEF Next, Environment, Close, Loop, Timer

\* Entries of a repository that is apart are dropped on account of its own
\* events only, and once for all that were pending together, whatever other
\* repositories do (findRepo, the AfterFunc callback, Cache.InvalidateRepo).
THEOREM OthersAreKept == Spec => OnlyChangedReposAreDropped
<1>1. ASSUME TypeInv, DropsAreDue, [Next]_vars, NEW r \in Repos, Apart(r), cache[r] # None, cache'[r] = None
      PROVE  due[r] > 0
  <2>1. ASSUME NEW c \in Callbacks, NEW q \in Repos, InvalidateRepo(c, q) PROVE due[r] > 0
    <3>1. q \in callback[c].todo /\ cache' = Without(q)
      BY <2>1 DEF InvalidateRepo
    <3>2. <<q, r>> \in naming.covered
      BY <1>1, <3>1 DEF Without, TypeInv
    <3>3. q = r
      BY <1>1, <3>2 DEF Apart
    <3>4. c \in Holders(r) /\ IsFiniteSet(Holders(r)) /\ Cardinality(Holders(r)) \in Nat /\ Queued(r) \in Nat
      BY <1>1, <3>1, <3>3, CountsAreNumbers DEF Holders
    <3>5. Cardinality(Holders(r)) # 0
      BY <3>4, FS_EmptySet
    <3>6. due[r] >= Accounted(r) /\ due[r] \in Nat
      BY <1>1 DEF DropsAreDue, TypeInv, TypeOK
    <3>7. QED BY <3>4, <3>5, <3>6 DEF Accounted
  <2>2. CASE \E q \in Repos : Fill(q)
    BY <1>1, <2>2 DEF Fill, TypeInv, TypeOK, None
  <2>3. CASE UNCHANGED cache
    BY <1>1, <2>3
  <2>4. QED
    BY <1>1, <2>1, <2>2, <2>3
       DEF Next, Environment, RefChange, MakeDir, WatchRepo, Close, CloseDone, CloseWatcher,
           Loop, Receive, Debounce, Stop, Timer, Fire, Callback, Swap, vars
<1>2. DropsAreDue /\ TypeInv /\ [Next]_vars =>
        [\A r \in Repos : (Apart(r) /\ cache[r] # None /\ cache'[r] = None) => due[r] > 0]_vars
  BY <1>1
<1>3. QED
  BY <1>2, InitTyped, NextTyped, InitKept, NextLosesNothing, InitDue, NextKeepsDue, PTL
     DEF Spec, OnlyChangedReposAreDropped
=============================================================================
