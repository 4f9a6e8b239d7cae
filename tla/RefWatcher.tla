----------------------------- MODULE RefWatcher -----------------------------
(***************************************************************************)
(* The watcher that empties the object cache when refs change              *)
(* (internal/gitprovider/watcher.go): WatchRepo registers directories with *)
(* fsnotify, the event loop collects the repos that changed and re-arms a  *)
(* debounce timer on every event, and the timer's callback, in a goroutine *)
(* of its own, swaps the collected set and invalidates repo after repo.    *)
(*                                                                         *)
(* The timer may fire between any two steps of the loop; Stop does not     *)
(* recall a callback that has started, so several may be under way.  Of    *)
(* the cache only what the watcher touches is kept: which repos it holds   *)
(* entries of, and what the refs were when they were put.                  *)
(*                                                                         *)
(* A repo is known by its path alone, and twice a path is compared as a    *)
(* prefix: findRepo asks whether an event's path begins with a repo's      *)
(* .git, without a separator after it, and Cache.InvalidateRepo whether a  *)
(* key begins with a repo's path and a colon.  What such a comparison      *)
(* answers for the paths at hand is a naming.                              *)
(***************************************************************************)
EXTENDS Integers, Sequences, FiniteSets

CONSTANTS
  Repos,
  Callbacks,    \* identities of timer callbacks that may be under way at once
  MaxChanges,   \* bound on ref changes and new directories together
  QueueLimit,   \* events fsnotify holds before it drops some
  Namings       \* what the paths of the repos may be to each other, see naming

ASSUME BoundsAssumption == MaxChanges \in Nat /\ QueueLimit \in Nat

ASSUME CallbacksAssumption == IsFiniteSet(Callbacks)

\* A path is a prefix of itself.
ASSUME NamingsAssumption ==
  \A n \in Namings, r \in Repos : <<r, r>> \in n.taken /\ <<r, r>> \in n.covered

\* Where a ref may live below .git: .git itself (HEAD, packed-refs), refs, a directory of
\* refs (refs/heads), a directory below that (refs/remotes/origin).
Places == {"git", "refs", "dir", "deep"}

VARIABLES
  naming,     \* naming.taken: the <<q, s>> such that the path of an event of q begins with
              \* the .git of s; naming.covered: the <<s, r>> such that the keys of r begin
              \* with s and a colon
  repos,      \* the repos registered
  watched,    \* the <<repo, place>> added to fsnotify
  dirs,       \* the <<repo, place>> that exist
  events,     \* fsnotify's events not yet received: the repo each belongs to
  pending,    \* repos with a pending invalidation
  loop,       \* the event loop: "select", "pended" between pending and timer, "stopped"
  timer,      \* TRUE: the timer is armed
  callback,   \* what each callback does: "none", "swap", or the repos still to invalidate
  done,       \* Close has closed w.done
  closed,     \* fsnotify is closed
  changes,    \* changes[r]: how often the refs of r changed since it was registered
  announced,  \* history: changes[r] at the last change that was put in the queue
  edits,      \* counts ref changes and new directories
  due,        \* history: due[r] is how many invalidations of r its events still account for
  cache       \* cache[r]: changes[r] when the entries of r were put, None without entries

None == -1
changing == <<naming, changes, announced, dirs, edits>>
vars == <<naming, repos, watched, dirs, events, pending, loop, timer, callback, done, closed,
          changes, announced, edits, due, cache>>

Free == [at |-> "none", todo |-> {}]

TypeOK ==
  /\ naming \in Namings
  /\ repos \subseteq Repos
  /\ watched \subseteq dirs /\ dirs \subseteq Repos \X Places
  /\ events \in Seq(repos)
  /\ pending \subseteq repos
  /\ loop \in {"select", "pended", "stopped"}
  /\ timer \in BOOLEAN
  /\ callback \in [Callbacks -> [at : {"none", "swap", "invalidate"}, todo : SUBSET repos]]
  /\ done \in BOOLEAN /\ closed \in BOOLEAN /\ (closed => done)
  /\ due \in [Repos -> Nat] /\ edits \in 0..MaxChanges
  /\ \A r \in Repos : announced[r] \in 0..changes[r] /\ cache[r] \in {None} \cup 0..changes[r]

-----------------------------------------------------------------------------
\* The environment: git changes refs and creates directories, a user of the cache fills it.

\* fsnotify drops events when its queue is full; the loop only logs that.
Notify(r, p) ==
  IF <<r, p>> \in watched /\ ~closed /\ Len(events) < QueueLimit
  THEN events' = Append(events, r) /\ due' = [due EXCEPT ![r] = @ + 1]
  ELSE UNCHANGED <<events, due>>

\* What changes before WatchRepo the watcher does not know of.
RefChange(r, p) ==
  /\ r \in repos /\ <<r, p>> \in dirs
  /\ edits < MaxChanges
  /\ edits' = edits + 1
  /\ changes' = [changes EXCEPT ![r] = @ + 1]
  /\ Notify(r, p)
  /\ announced' = IF Len(events') > Len(events) THEN [announced EXCEPT ![r] = changes'[r]] ELSE announced
  /\ UNCHANGED <<naming, repos, watched, dirs, pending, loop, timer, callback, done, closed, cache>>

\* A directory of refs appears, and announces itself in the directory it is created in.
MakeDir(r, parent, p) ==
  /\ <<parent, p>> \in {<<"refs", "dir">>, <<"dir", "deep">>}
  /\ <<r, parent>> \in dirs /\ <<r, p>> \notin dirs
  /\ edits < MaxChanges
  /\ edits' = edits + 1
  /\ dirs' = dirs \cup {<<r, p>>}
  /\ Notify(r, parent)
  /\ UNCHANGED <<naming, repos, watched, pending, loop, timer, callback, done, closed,
                 changes, announced, cache>>

Fill(r) ==
  /\ cache[r] = None
  /\ cache' = [cache EXCEPT ![r] = changes[r]]
  /\ UNCHANGED <<repos, watched, events, pending, loop, timer, callback, done, closed, changing, due>>

-----------------------------------------------------------------------------
\* WatchRepo: .git, refs and the directories refs holds now; Start and Close.

WatchedPlaces == {"git", "refs", "dir"}

\* Mutant: the directories are added to fsnotify, the repo is not recorded.
WatchRepoUnrecorded(r) ==
  /\ ~done
  /\ <<r, "git">> \in dirs
  /\ watched' = watched \cup (dirs \cap ({r} \X WatchedPlaces))
  /\ UNCHANGED <<repos, events, pending, loop, timer, callback, done, closed, changing, due, cache>>

WatchRepo(r) ==
  /\ ~done
  /\ <<r, "git">> \in dirs
  /\ repos' = repos \cup {r}
  /\ watched' = watched \cup (dirs \cap ({r} \X WatchedPlaces))
  /\ UNCHANGED <<events, pending, loop, timer, callback, done, closed, changing, due, cache>>

CloseDone ==
  /\ ~done
  /\ done' = TRUE
  /\ UNCHANGED <<repos, watched, events, pending, loop, timer, callback, closed, changing, due, cache>>

Queued(r) == Cardinality({i \in 1..Len(events) : events[i] = r})

Less(n, k) == IF n > k THEN n - k ELSE 0

CloseWatcher ==
  /\ done /\ ~closed
  /\ closed' = TRUE
  /\ events' = <<>>   \* what was not received yet is gone
  /\ due' = [r \in Repos |-> Less(due[r], Queued(r))]
  /\ UNCHANGED <<repos, watched, pending, loop, timer, callback, done, changing, cache>>

Close == CloseDone \/ CloseWatcher

-----------------------------------------------------------------------------
\* The event loop.

\* findRepo: the repos an event of q may be taken for.  The map is searched in any order, the
\* first prefix wins.  There is always one: only registered repos are watched.
FindRepo(q) == {s \in repos : <<q, s>> \in naming.taken}

\* Two events that are pending together account for one invalidation, and one that is taken
\* for another repo's for none of its own.
Receive ==
  /\ loop = "select"
  /\ events # <<>>
  /\ events' = Tail(events)
  /\ \E s \in FindRepo(Head(events)) :
       /\ pending' = pending \cup {s}
       /\ due' = IF s \in pending \/ s # Head(events)
                   THEN [due EXCEPT ![Head(events)] = Less(@, 1)] ELSE due
  /\ loop' = "pended"
  /\ UNCHANGED <<repos, watched, timer, callback, done, closed, changing, cache>>

\* Mutant: a callback that is under way is trusted to take the new repo along.
DebounceUnlessRunning ==
  /\ loop = "pended"
  /\ timer' = (timer \/ \A c \in Callbacks : callback[c] = Free)
  /\ loop' = "select"
  /\ UNCHANGED <<repos, watched, events, pending, callback, done, closed, changing, due, cache>>

\* Mutant: a timer that is armed is reset, none is made.
DebounceResets ==
  /\ loop = "pended"
  /\ loop' = "select"
  /\ UNCHANGED <<repos, watched, events, pending, timer, callback, done, closed, changing, due, cache>>

\* timer.Stop and AfterFunc: one timer, not yet fired.
Debounce ==
  /\ loop = "pended"
  /\ timer' = TRUE
  /\ loop' = "select"
  /\ UNCHANGED <<repos, watched, events, pending, callback, done, closed, changing, due, cache>>

\* select takes w.done, which stops the timer, or the closed channels, which does not.
Stop ==
  /\ loop = "select"
  /\ \/ done /\ timer' = FALSE
     \/ closed /\ UNCHANGED timer
  /\ loop' = "stopped"
  /\ UNCHANGED <<repos, watched, events, pending, callback, done, closed, changing, due, cache>>

-----------------------------------------------------------------------------
\* The timer and its callbacks.

\* A fresh goroutine; which of the free identities it gets makes no difference.
Unused == CHOOSE c \in Callbacks : callback[c].at = "none"

Fire(c) ==
  /\ timer
  /\ callback[c].at = "none" /\ c = Unused
  /\ timer' = FALSE
  /\ callback' = [callback EXCEPT ![c] = [at |-> "swap", todo |-> {}]]
  /\ UNCHANGED <<repos, watched, events, pending, loop, done, closed, changing, due, cache>>

\* Mutant: the set is taken, and not replaced by an empty one.
SwapKeepsPending(c) ==
  /\ callback[c].at = "swap"
  /\ callback' = [callback EXCEPT ![c] =
                    IF pending = {} THEN Free ELSE [at |-> "invalidate", todo |-> pending]]
  /\ UNCHANGED <<repos, watched, events, pending, loop, timer, done, closed, changing, due, cache>>

Swap(c) ==
  /\ callback[c].at = "swap"
  /\ callback' = [callback EXCEPT ![c] =
                    IF pending = {} THEN Free ELSE [at |-> "invalidate", todo |-> pending]]
  /\ pending' = {}
  /\ UNCHANGED <<repos, watched, events, loop, timer, done, closed, changing, due, cache>>

\* Cache.InvalidateRepo drops every entry whose key begins with the repo and a colon.
Without(r) == [q \in Repos |-> IF <<r, q>> \in naming.covered THEN None ELSE cache[q]]

InvalidateRepo(c, r) ==
  /\ callback[c].at = "invalidate" /\ r \in callback[c].todo
  /\ cache' = Without(r)
  /\ due' = [due EXCEPT ![r] = Less(@, 1)]
  /\ callback' = [callback EXCEPT ![c] =
                    IF @.todo = {r} THEN Free ELSE [at |-> "invalidate", todo |-> @.todo \ {r}]]
  /\ UNCHANGED <<repos, watched, events, pending, loop, timer, done, closed, changing>>

-----------------------------------------------------------------------------
Init ==
  /\ naming \in Namings
  /\ repos = {} /\ watched = {}
  /\ dirs = Repos \X {"git", "refs"}
  /\ events = <<>> /\ pending = {} /\ loop = "select" /\ timer = FALSE
  /\ callback = [c \in Callbacks |-> Free]
  /\ done = FALSE /\ closed = FALSE
  /\ changes = [r \in Repos |-> 0] /\ announced = [r \in Repos |-> 0]
  /\ due = [r \in Repos |-> 0] /\ edits = 0
  /\ cache = [r \in Repos |-> None]

Loop == Receive \/ Debounce \/ Stop
Timer == \E c \in Callbacks : Fire(c)
Callback(c) == Swap(c) \/ \E r \in Repos : InvalidateRepo(c, r)

Environment ==
  \/ \E r \in Repos, p \in Places : RefChange(r, p)
  \/ \E r \in Repos, parent \in Places, p \in Places : MakeDir(r, parent, p)
  \/ \E r \in Repos : Fill(r) \/ WatchRepo(r)
  \/ Close

Next == Environment \/ Loop \/ Timer \/ \E c \in Callbacks : Callback(c)

Spec == Init /\ [][Next]_vars

\* The loop, the timer and every callback's goroutine go on; nobody need change, fill,
\* watch or close anything.
FairSpec ==
  Spec /\ WF_vars(Loop) /\ WF_vars(Timer) /\ \A c \in Callbacks : WF_vars(Callback(c))

-----------------------------------------------------------------------------
\* Properties

\* Where an invalidation of r is on its way.
Underway(r) ==
  \/ \E i \in 1..Len(events) : events[i] = r
  \/ r \in pending /\ (loop = "pended" \/ timer \/ \E c \in Callbacks : callback[c].at = "swap")
  \/ \E c \in Callbacks : r \in callback[c].todo

\* The events of r are taken for no other repo.
Unmistaken(r) == \A s \in Repos \ {r} : <<r, s>> \notin naming.taken

\* No other repo's events are taken for r, no other repo's invalidation covers its keys.
Apart(r) == \A q \in Repos \ {r} : <<q, r>> \notin naming.taken /\ <<q, r>> \notin naming.covered

\* No change that was put in the queue is lost between the loop, the timer that is stopped or
\* fires, and the callbacks that overtake each other: as long as entries older than it are
\* cached and the watcher is not closed, their invalidation is on its way.  It is not so for a
\* repo whose events findRepo may give to another.
NoChangeIsLost ==
  \A r \in Repos : (Unmistaken(r) /\ cache[r] # None /\ cache[r] < announced[r] /\ ~done) => Underway(r)

\* Entries of a repo are dropped on account of its own events only, once for all the events
\* that were pending together, whatever other repos do and however many callbacks are under
\* way (TestWatcherDoesNotInvalidateOtherRepo).  It is not so for a repo that findRepo may
\* take another's events for, or whose keys begin with another repo and a colon.
OnlyChangedReposAreDropped ==
  [][\A r \in Repos : (Apart(r) /\ cache[r] # None /\ cache'[r] = None) => due[r] > 0]_vars

\* Entries older than a change that was put in the queue are dropped in the end, once the
\* changes stop (each one re-arms the timer).
AnnouncedChangeInvalidates ==
  \A r \in Repos :
    (Unmistaken(r) /\ cache[r] # None /\ cache[r] < announced[r])
      ~> (cache[r] = None \/ cache[r] >= announced[r] \/ done)

\* watcher.go:15: the watcher monitors git repository metadata files for changes and
\* invalidates the cache when refs may have changed.
RefChangeInvalidates ==
  \A r \in Repos :
    (cache[r] # None /\ cache[r] < changes[r])
      ~> (cache[r] = None \/ cache[r] >= changes[r] \/ done)
=============================================================================
