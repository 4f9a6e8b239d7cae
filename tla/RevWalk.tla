------------------------------ MODULE RevWalk ------------------------------
(***************************************************************************)
(* The commits aifr_log shows for a gitrevisions(7) range: ParseRevSet     *)
(* turns the tokens of the spec into tips and excludes                     *)
(* (internal/gitprovider/revrange.go), Walk enumerates what the excludes   *)
(* reach, walks every tip around that, sorts what each tip yields by       *)
(* committer time and merges the lists (internal/gitprovider/walker.go).   *)
(*                                                                         *)
(* A step is one token, one commit taken off a queue, one parent looked at *)
(* or one commit sorted or merged.  The heap of the merge is any cursor    *)
(* whose head is newest: which of several, the properties do not depend on.*)
(***************************************************************************)
EXTENDS Integers, Sequences, FiniteSets, SequencesExt

CONSTANTS
  Commits,
  Histories,  \* repositories: parents, committer times, which objects are there, HEAD
  Specs,      \* revision specs: sequences of tokens
  maxWalk     \* MaxExcludeWalk

ASSUME CommitsAssumption == IsFiniteSet(Commits)
\* A commit is named by the hash of its content, which names its parents: none
\* is among its own ancestors.
ASSUME HistoriesAssumption ==
  \A h \in Histories :
    /\ h.parents \in [Commits -> Seq(Commits)]
    /\ \A c \in Commits : \E older \in SUBSET (Commits \ {c}) :
         \A d \in older \cup {c} : ToSet(h.parents[d]) \subseteq older
    /\ h.time \in [Commits -> Nat]
    /\ \A c \in h.present : c \in Commits
    /\ h.head \in Commits
ASSUME SpecsAssumption ==
  \A s \in Specs :
    s \in Seq([op : {"exclude", "symmetric", "range", "only", "parents", "minus", "plain"},
               from : Commits, rev : Commits, n : Nat \ {0}])
ASSUME MaxWalkAssumption == maxWalk \in Nat

VARIABLES
  history, spec, firstParent,  \* the repository and the arguments; never changed
  phase,     \* where Walk is
  at,        \* the token, or the tip, it is at
  tips,      \* RevSet.Tips
  excludes,  \* RevSet.GlobalExcludes
  queue,     \* of reachableSet or walkTip
  parents,   \* hashes still to be looked at before the next commit leaves the queue
  found,     \* out of reachableSet, seen of walkTip
  global,    \* globalExcl
  excl,      \* what the walk of this tip must not enter
  commits,   \* what the walk of this tip found, then sorts
  sorted,    \* how many of them are in order
  perTip,    \* the sorted lists, one for each tip walked
  pos,       \* the cursors of the merge
  result     \* the commits in the order shown, each with its side

input == <<history, spec, firstParent>>
revset == <<tips, excludes>>
search == <<queue, parents, found>>
vars == <<input, phase, at, revset, search, global, excl, commits, sorted, perTip, pos, result>>

-----------------------------------------------------------------------------
Time(c) == history.time[c]
Present(c) == c \in history.present   \* repo.CommitObject finds it

\* The parents a walk follows.
Followed(c) ==
  LET ps == history.parents[c]
  IN IF firstParent /\ Len(ps) > 1 THEN <<ps[1]>> ELSE ps

Sides == {"none", "left", "right"}
Tip(hash, side, locals) == [hash |-> hash, side |-> side, locals |-> locals]
Tips == [hash : Commits, side : Sides, locals : Seq(Commits)]

TypeOK ==
  /\ history \in Histories /\ spec \in Specs /\ firstParent \in BOOLEAN
  /\ phase \in {"parse", "exclude", "tip", "local", "walk", "sort", "merge",
                "done", "invalid", "capped"}
  /\ at \in Nat \ {0}
  /\ tips \in Seq(Tips) /\ excludes \in Seq(Commits)
  /\ queue \in Seq(Commits) /\ parents \in Seq(Commits)
  /\ found \subseteq Commits /\ global \subseteq Commits /\ excl \subseteq Commits
  /\ commits \in Seq(Commits) /\ sorted \in Nat
  /\ perTip \in Seq(Seq(Commits)) /\ pos \in Seq(Nat \ {0})
  /\ result \in Seq([commit : Commits, side : Sides])
  /\ phase \in {"local", "walk", "sort"} => at <= Len(tips) /\ Len(perTip) = at - 1
  /\ phase \in {"merge", "done"} => Len(perTip) = Len(tips)

-----------------------------------------------------------------------------
\* ParseRevSet, token by token.

Token == spec[at]

\* applyToken has resolved everything it needs.
Add(newTips, newExcludes) ==
  /\ tips' = tips \o newTips
  /\ excludes' = excludes \o newExcludes
  /\ at' = at + 1
  /\ UNCHANGED <<input, phase, search, global, excl, commits, sorted, perTip, pos, result>>

ParentsOf(c) == history.parents[c]

\* What ResolveRef must find for the token.
Resolves(t) ==
  /\ Present(t.rev)
  /\ t.op \in {"symmetric", "range"} => Present(t.from)
  /\ t.op = "parents" => ParentsOf(t.rev) # <<>>
  /\ t.op = "minus" => t.n <= Len(ParentsOf(t.rev)) /\ Present(ParentsOf(t.rev)[t.n])

\* Mutant: each side excludes itself.
SymmetricTipsSwapped(l, r) == <<Tip(r, "left", <<l>>), Tip(l, "right", <<r>>)>>

SymmetricTips(l, r) == <<Tip(l, "left", <<r>>), Tip(r, "right", <<l>>)>>

ApplyToken(t) ==
  \/ t.op = "exclude"   /\ Add(<<>>, <<t.rev>>)
  \/ t.op = "symmetric" /\ Add(SymmetricTips(t.from, t.rev), <<>>)
  \/ t.op = "range"     /\ Add(<<Tip(t.rev, "none", <<>>)>>, <<t.from>>)
  \/ t.op = "only"      /\ Add(<<Tip(t.rev, "none", ParentsOf(t.rev))>>, <<>>)
  \/ t.op = "parents"   /\ Add([i \in DOMAIN ParentsOf(t.rev) |->
                                  Tip(ParentsOf(t.rev)[i], "none", <<>>)], <<>>)
  \/ t.op = "minus"     /\ Add(<<Tip(t.rev, "none", <<>>)>>, <<ParentsOf(t.rev)[t.n]>>)
  \/ t.op = "plain"     /\ Add(<<Tip(t.rev, "none", <<>>)>>, <<>>)

Stop(how) ==
  /\ phase' = how
  /\ UNCHANGED <<input, at, revset, search, global, excl, commits, sorted, perTip, pos, result>>

ParseToken ==
  /\ phase = "parse" /\ at <= Len(spec)
  /\ IF Resolves(Token) THEN ApplyToken(Token) ELSE Stop("invalid")

\* A search starts with its start hashes as the ones to look at.
Search(starts) == queue' = <<>> /\ parents' = starts /\ found' = {}

\* An empty spec is HEAD; a spec of excludes only is refused.
Parsed ==
  /\ phase = "parse" /\ at > Len(spec)
  /\ LET all == IF spec = <<>> THEN <<Tip(history.head, "none", <<>>)>> ELSE tips
     IN IF all = <<>> \/ (spec = <<>> /\ ~Present(history.head))
        THEN Stop("invalid")
        ELSE /\ tips' = all
             /\ phase' = "exclude"
             /\ Search(excludes)
             /\ UNCHANGED <<input, at, excludes, global, excl, commits, sorted, perTip, pos, result>>

-----------------------------------------------------------------------------
\* reachableSet (phases "exclude" and "local") and walkTip (phase "walk").

Searching == phase \in {"exclude", "local", "walk"}

\* Mutant: walkTip enters the exclusion set.
BarrierOpen == {}

Barrier == IF phase = "walk" THEN excl ELSE {}

LookAtParent ==
  /\ Searching /\ parents # <<>>
  /\ LET p == Head(parents)
     IN /\ queue' = IF p \in found \cup Barrier THEN queue ELSE Append(queue, p)
        /\ found' = found \cup {p}
  /\ parents' = Tail(parents)
  /\ UNCHANGED <<input, phase, at, revset, global, excl, commits, sorted, perTip, pos, result>>

\* Mutant: the cap itself is one too many.
OverCapInclusive == phase # "walk" /\ Cardinality(found) >= maxWalk

OverCap == phase # "walk" /\ Cardinality(found) > maxWalk

\* Mutant: the commit stays in the queue.
VisitAgain ==
  /\ Searching /\ parents = <<>> /\ queue # <<>>
  /\ ~OverCap
  /\ parents' = IF Present(Head(queue)) THEN Followed(Head(queue)) ELSE <<>>
  /\ commits' = IF phase = "walk" /\ Present(Head(queue)) THEN Append(commits, Head(queue))
                ELSE commits
  /\ UNCHANGED <<input, phase, at, revset, queue, found, global, excl, sorted, perTip, pos, result>>

\* The next commit leaves the queue; one that is missing is passed over.
Visit ==
  /\ Searching /\ parents = <<>> /\ queue # <<>>
  /\ ~OverCap
  /\ queue' = Tail(queue)
  /\ parents' = IF Present(Head(queue)) THEN Followed(Head(queue)) ELSE <<>>
  /\ commits' = IF phase = "walk" /\ Present(Head(queue)) THEN Append(commits, Head(queue))
                ELSE commits
  /\ UNCHANGED <<input, phase, at, revset, found, global, excl, sorted, perTip, pos, result>>

RefuseCap ==
  /\ Searching /\ parents = <<>> /\ queue # <<>>
  /\ OverCap
  /\ Stop("capped")

Exhausted == parents = <<>> /\ queue = <<>>

GlobalDone ==
  /\ phase = "exclude" /\ Exhausted
  /\ global' = found
  /\ phase' = "tip" /\ at' = 1
  /\ UNCHANGED <<input, revset, search, excl, commits, sorted, perTip, pos, result>>

StartTip ==
  /\ phase = "tip" /\ at <= Len(tips)
  /\ phase' = "local"
  /\ Search(tips[at].locals)
  /\ UNCHANGED <<input, at, revset, global, excl, commits, sorted, perTip, pos, result>>

LocalDone ==
  /\ phase = "local" /\ Exhausted
  /\ excl' = global \cup found
  /\ commits' = <<>>
  /\ phase' = "walk"
  /\ Search(<<tips[at].hash>>)
  /\ UNCHANGED <<input, at, revset, global, sorted, perTip, pos, result>>

WalkDone ==
  /\ phase = "walk" /\ Exhausted
  /\ phase' = "sort" /\ sorted' = 0
  /\ UNCHANGED <<input, at, revset, search, global, excl, commits, perTip, pos, result>>

-----------------------------------------------------------------------------
\* sortByCommitterTimeDesc: commit sorted + 1 is swapped down past every older one.

NotOlder(c) == {j \in 1..sorted : Time(commits[j]) >= Time(c)}

\* Mutant: the comparison of the swap turned round.
SlotAscending(c) == Cardinality({j \in 1..sorted : Time(commits[j]) <= Time(c)})

\* Where it ends up: behind the last that is not older.
Slot(c) ==
  IF NotOlder(c) = {} THEN 0 ELSE CHOOSE j \in NotOlder(c) : \A k \in NotOlder(c) : k <= j

Insert ==
  /\ phase = "sort" /\ sorted < Len(commits)
  /\ LET c == commits[sorted + 1]
     IN commits' = SubSeq(commits, 1, Slot(c)) \o <<c>> \o SubSeq(commits, Slot(c) + 1, sorted)
                     \o SubSeq(commits, sorted + 2, Len(commits))
  /\ sorted' = sorted + 1
  /\ UNCHANGED <<input, phase, at, revset, search, global, excl, perTip, pos, result>>

\* Mutant: the next tip is not moved on to.
SortDoneSameTip ==
  /\ phase = "sort" /\ sorted = Len(commits)
  /\ perTip' = Append(perTip, commits)
  /\ phase' = "tip"
  /\ UNCHANGED <<input, at, revset, search, global, excl, commits, sorted, pos, result>>

SortDone ==
  /\ phase = "sort" /\ sorted = Len(commits)
  /\ perTip' = Append(perTip, commits)
  /\ at' = at + 1
  /\ phase' = "tip"
  /\ UNCHANGED <<input, revset, search, global, excl, commits, sorted, pos, result>>

-----------------------------------------------------------------------------
\* mergeByCommitterTime.

StartMerge ==
  /\ phase = "tip" /\ at > Len(tips)
  /\ phase' = "merge"
  /\ pos' = [i \in DOMAIN tips |-> 1]
  /\ UNCHANGED <<input, at, revset, search, global, excl, commits, sorted, perTip, result>>

Cursors == {i \in DOMAIN pos : pos[i] <= Len(perTip[i])}
HeadOf(i) == perTip[i][pos[i]]
Shown == {result[j].commit : j \in DOMAIN result}

Merge(i) ==
  /\ phase = "merge"
  /\ i \in Cursors
  /\ \A j \in Cursors : Time(HeadOf(i)) >= Time(HeadOf(j))
  /\ pos' = [pos EXCEPT ![i] = @ + 1]
  /\ result' = IF HeadOf(i) \in Shown THEN result
               ELSE Append(result, [commit |-> HeadOf(i), side |-> tips[i].side])
  /\ UNCHANGED <<input, phase, at, revset, search, global, excl, commits, sorted, perTip>>

MergeDone == phase = "merge" /\ Cursors = {} /\ Stop("done")

-----------------------------------------------------------------------------
Init ==
  /\ history \in Histories /\ spec \in Specs /\ firstParent \in BOOLEAN
  /\ phase = "parse" /\ at = 1
  /\ tips = <<>> /\ excludes = <<>>
  /\ queue = <<>> /\ parents = <<>> /\ found = {}
  /\ global = {} /\ excl = {}
  /\ commits = <<>> /\ sorted = 0
  /\ perTip = <<>> /\ pos = <<>> /\ result = <<>>

Next ==
  \/ ParseToken \/ Parsed
  \/ LookAtParent \/ Visit \/ RefuseCap
  \/ GlobalDone \/ StartTip \/ LocalDone \/ WalkDone
  \/ Insert \/ SortDone
  \/ StartMerge \/ (\E i \in DOMAIN pos : Merge(i)) \/ MergeDone

Spec == Init /\ [][Next]_vars

\* Walk is one goroutine that runs on until it returns.
FairSpec == Spec /\ WF_vars(Next)

-----------------------------------------------------------------------------
\* Properties

\* What a set of hashes reaches: the least set that holds them and, with every commit that
\* is there, the parents a walk follows.
Closed(S) == \A c \in S : Present(c) => ToSet(Followed(c)) \subseteq S
Reach(S) == {c \in Commits : \A T \in SUBSET Commits : (S \subseteq T /\ Closed(T)) => c \in T}

\* What each token adds and bans (revrange.go:57-66).
Adds(t) ==
  CASE t.op = "exclude"   -> {}
    [] t.op = "symmetric" -> (Reach({t.from}) \ Reach({t.rev})) \cup (Reach({t.rev}) \ Reach({t.from}))
    [] t.op = "only"      -> {t.rev}
    [] t.op = "parents"   -> Reach(ToSet(ParentsOf(t.rev)))
    [] OTHER              -> Reach({t.rev})
Bans(t) ==
  CASE t.op = "exclude" -> {t.rev}
    [] t.op = "range"   -> {t.from}
    [] t.op = "minus"   -> {ParentsOf(t.rev)[t.n]}
    [] OTHER            -> {}

Added == IF spec = <<>> THEN Reach({history.head}) ELSE UNION {Adds(t) : t \in ToSet(spec)}
Banned == Reach(UNION {Bans(t) : t \in ToSet(spec)})

\* The log shows exactly the commits the tokens together mean, though every tip is walked on
\* its own, pruned at its own excludes, and missing objects cut branches short.
RangeIsExact == phase = "done" => Shown = (Added \ Banned) \cap history.present

\* Newest first and no commit twice, at every point of the merge and however the clocks of
\* the committers were skewed.
NewestFirst ==
  \A i, j \in DOMAIN result :
    i < j => /\ Time(result[i].commit) >= Time(result[j].commit)
             /\ result[i].commit # result[j].commit

\* A commit labelled with a side is reached from that side of a symmetric difference and not
\* from the other; a spec of nothing else labels every commit.
SidesAreExact ==
  \A i \in DOMAIN result :
    LET c == result[i].commit
        From(this, other) == c \in Reach({this}) \ Reach({other})
        symmetric == {t \in ToSet(spec) : t.op = "symmetric"}
    IN /\ result[i].side = "left" => \E t \in symmetric : From(t.from, t.rev)
       /\ result[i].side = "right" => \E t \in symmetric : From(t.rev, t.from)
       /\ result[i].side = "none" =>
            spec = <<>> \/ \E t \in ToSet(spec) \ symmetric : c \in Adds(t)

\* The cap refuses a walk when, and only when, one of the sets it enumerates for exclusion
\* exceeds it (walker.go:28).
CapIsExact ==
  LET Large(S) == Cardinality(Reach(S)) > maxWalk
      Locals == {ToSet(tips[i].locals) : i \in DOMAIN tips}
  IN /\ phase = "capped" => Large(ToSet(excludes)) \/ \E S \in Locals : Large(S)
     /\ phase = "done" => ~Large(ToSet(excludes)) /\ \A S \in Locals : ~Large(S)

\* Every walk returns.
WalkReturns == <>(phase \in {"done", "invalid", "capped"})
=============================================================================
