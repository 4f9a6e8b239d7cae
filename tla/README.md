# aifr: specification, model checking and proofs

aifr gives programs read access to files and git repositories, as a command line
tool and as an MCP server. This directory holds TLA+ specifications of the parts of
it that keep state between two steps, or whose result is hard to get right; TLC
checks them on small instances, and TLAPS proves some of their properties for every
instance. `PROJECT.json` lists the runs, the theorems, the code every definition
stands for, the hazards the properties are aimed at, and the places where the code
and what it says of itself differ.

Run a check with `tlc -workers 2 -config MCChunkedRead.cfg MCChunkedRead.tla` and a
proof with `tlapm ChunkedRead_proofs.tla`; the modules with proofs are those named
`*_proofs` and `SequenceFacts`.

## The system

| Component | Code | State | Operations | What is hard |
|---|---|---|---|---|
| chunked read | `internal/engine/read.go`, `engine.go` | none but the signed token the client holds; the file, which others change | read by default, bytes, lines, continuation | Stat, Open and reads are separate; tokens outlive files and keys; cutting at newlines |
| paged tools | `internal/engine/{list,find,search,gitops,reflog}.go` | the token: an offset or a commit hash | list, find, search, log, reflog, stash_list | the listing moves between pages |
| MCP server | `internal/mcpserver` | `s.engine`, replaced by a reload | one handler per tool, `aifr_self reload` | handlers run concurrently and read `s.engine` without the mutex; two reloads at once |
| object cache | `internal/gitprovider/cache.go` | map, LRU list, total of sizes | Get, Put, InvalidateRepo, Clear | three records of the same thing; limits on count, bytes and age |
| ref watcher | `internal/gitprovider/watcher.go` | repos, pending set, debounce timer | WatchRepo, Start, Close, event loop, timer callback | the timer's callback is a goroutine of its own and is not recalled |
| ranges and walker | `internal/gitprovider/{revrange,walker}.go` | queues and sets of one walk | ParseRevSet, Walk | shared and local excludes, missing objects, clock skew, the cap |
| git provider | `provider.go`, `pathparse.go` | named repos | parse repo:ref:path, open, resolve, read a blob | three ways to name a repository, two to resolve a ref |
| git operations | `gitops.go` | none | log, diff, refs, list, stat and read of blobs | the diff's loop over two texts |
| access control | `internal/accessctl` | pattern lists, cwd fallback | Check | order of the lists; links in patterns and in paths |
| configuration | `internal/config`, `buildEngine` in `cmd/aifr/main.go` | the loaded file | Load, PathAllowPatterns | first file found wins; files and links change while it loads |
| cat | `internal/engine/cat.go` | counters of one call | Cat | limits on files, lines and bytes together; files change between discovery, Stat and read |
| git configuration | `internal/engine/gitconfig.go` | entries of one call | query, includes | include cycles and depth, order of scopes |
| text tools | `wc.go`, `hexdump.go`, `checksum.go`, `sortlimit.go`, `readLines` | none | one call each | boundaries; one implementation for files, another for blobs |
| path lookup | `pathfind.go`, `stat.go`, `revparse.go` | none | one call each | a directory that is listed twice, masking |
| hook command | `internal/hookcmd` | none | parse a shell command, suggest a tool call | the suggestion must do what the command did |
| system inspection | `sysinfo*.go`, `getent.go` | none | one call each | pure I/O |
| output | `internal/output` | none | formatting | layout |
| command line | `cmd/aifr` | flags | one process, one request | |

How they interact: the server's handlers verify a token with the engine and call the
engine for the answer; the engine checks access, reads files or asks the git
provider, and signs the next token with a key drawn when the engine was made; a
reload makes a new engine, hence a new key and new access rules. The watcher calls
the cache's InvalidateRepo. Cache and watcher are complete and tested but nothing in
`cmd/` creates them yet, so they are composed with an environment that stands for
their future users. Where a component has properties of correctness they are in the
section of its module.

## Modules

### ChunkedRead (with FileStream, ChunkedReadRefinement, ChunkedRead_proofs)

A file is a sequence of *versions*, each with an mtime; `inode` says which version an
inode holds and `path` which inode the path leads to, so an overwrite in place (seen
by an open descriptor) and a rename over the path (not seen) differ. A request goes
through the phases of the code: `Read` or `Continue` (Stat, and for a token the
signature and the comparison of mtime and size), `Open`, then `ReadAll` block by
block, `ReadFirstChunk`, or `ReadRange` and, when the boundary has to move,
`ExtendRange`. Between any two of them the environment may `Overwrite`, `Replace`,
`Unlink` or `Reload`. `chain` is what the client holds.

Properties: chunks lie end to end (`ChainTiles`); only the last chunk of a chain may
be torn (`SnapshotButLast`); over a quiet file a finished chain is exact
(`QuietChainIsExact`); a chunk labelled "newline" ends with one
(`NewlineLabelIsHonest`); a chain that is begun ends (`ChainEnds`). `FileStream` says
what a client may rely on, a stream of one version with a last chunk that may be of
any, and `ChunkedReadRefinement` maps the one to the other (`RefinesFileStream`).

Abstractions: a byte is newline, NUL or text; sizes are constants. One read call of
the kernel is one step. Nobody renames an old inode back over the path. A client
asks for ranges with a start that is not negative. The path is a file the client may
read: the access check of a read and of a continuation (read.go:40, 331-334) and the
refusal of a directory (read.go:53) come before anything that is modelled, and a refused
request ends there. `readLines`, which scans once and
issues no token, is in FileTools. `CoarseClock = TRUE` would let two writes share an
mtime; what the code then cannot see is excluded from the two properties that speak
of versions.

### PagedTools (with PagedTools_proofs)

The client calls one of the paged tools and follows its tokens; each request is
`Decode` (verify the token against the engine of the moment) and `Serve` (walk, cut
the page, sign the next token). What a tool lists is a set of positive integers in
increasing order, so `Drop` and `Take` are the slices of the code and a name that
appears may land in front of the offset as well as behind it. `ReloadLoad` reads the
configuration and `ReloadInstall` takes the mutex and replaces the engine: two steps,
as in `handleSelf`. A handler that reads `s.engine` without the mutex sees any engine
installed since it last looked.

Properties: growth never makes a chain skip what was there from the start
(`GrowthNeverSkips`), shrinking never makes a chain of offset tokens repeat
(`ShrinkingNeverRepeats`; `aifr_search`, which does not look at its offset, is the
finding of `search_pages`), new commits never make `aifr_log` repeat
(`LogGrowthNeverRepeats`), and every chain ends (`PagesEnd`). The converses are false
by design of an offset. They are stated for chains served under the same rules: a
reload between two pages of a chain has its token refused unless it falls between
`Decode` and `Serve`. `GrowthNeverSkips` leaves out a client that repeats a positive
skip with its token, which the handler applies again. Histories `original` and
`drift` record what the first page had to deliver and what happened to the listing
since then.

Abstractions: one walk of a directory or one read of a reflog is one step; filters,
sort order and recursion only decide which names there are and in which order; a
client keeps its filters; a reload that fails changes nothing and is left out; of the
checks of a git tool the one of its request is kept, and not the one of `openGitRepo` on
the repository found (gitops.go:38-42), which refuses more of the same requests.

### ObjectCache (with ExpiringMap, ObjectCache_proofs)

One action per branch of Get and Put, and InvalidateRepo, Clear and the clock. The
eviction loop is the least number of elements off the back that makes room, or all of
them. `Coherent` ties map, list and total together and bounds their number;
`InsertionFitsMemory` and `ListIsInOrderOfUse` are the limit of bytes and the LRU order;
`ExpiringMap` is the promise: a map that may forget anything but never answers with a
value of another key, an overwritten one or one past its time
(`AnswersAsExpiringMap`). An update evicts nothing (cache.go:92-102), so
`InsertionFitsMemory` speaks of insertions only. The mutex makes an operation a step.
The answer "nothing" is no entry (`NilAssumption`).

### RefWatcher (with RefWatcher_proofs)

The event loop's `Receive`, `Debounce` and `Stop`, the timer's `Fire`, the callback's
`Swap` and its `InvalidateRepo` for one repo after the other, `WatchRepo` and the two
steps of `Close`. The environment changes refs, creates directories of refs and fills
the cache; fsnotify queues an event for a watched directory and drops it when the
queue is full.

Twice the code tells repos apart by a prefix of a path. `findRepo` takes the first repo of
a map, in any order, whose .git the path of the event begins with, so that an event below
`/w/.github/.git` may be taken for `/w`; `Cache.InvalidateRepo` drops the keys that begin with
the repo and a colon, and with those of `/w` the keys of `/w:old`. What such comparisons answer
for the paths at hand is `naming`: `FindRepo(q)` is every repo an event of `q` may be taken
for, `Without(r)` the cache without all that an invalidation of `r` covers.

`NoChangeIsLost` says that while entries older than an announced change are cached, their
invalidation is on its way, wherever it is; `AnnouncedChangeInvalidates` that it arrives.
Both speak of a repo whose events are taken for no other (`Unmistaken`).
`OnlyChangedReposAreDropped` counts: `due[r]` is how many invalidations the events of `r`
still account for, one for all that were pending together and none for one that went to
another repo, and entries are dropped only while that is positive. So neither a set that is
invalidated twice nor a callback that repeats what another has done goes unseen. It speaks of
a repo that no other is mistaken for and no other's invalidation covers (`Apart`). For repos
that are neither, both promises are false in the code, and findings say so. What changes
before WatchRepo the watcher cannot know, and an event that fsnotify drops is lost.

### RevWalk (with RevWalk_proofs)

One step is one token of the spec (`ApplyToken`, a disjunct per form), one commit off
a queue (`Visit`), one parent looked at (`LookAtParent`), one commit put in order
(`Insert`) or shown (`Merge`). `Reach` is the reference: the least set closed under
the parents a walk follows. `RangeIsExact` compares the result with what the tokens
mean as sets; `NewestFirst`, `SidesAreExact`, `CapIsExact` and `WalkReturns` are
order and uniqueness, labels, the cap, termination. The heap of the merge is replaced
by the choice of any newest head. A commit object is there or missing for the whole
walk. A history is acyclic: every commit has a set of older ones that its parents are in
(`HistoriesAssumption`), as commits name their parents by hash.

### Requests (with LineDiff, Cat, Calls and their parts, Requests_proofs)

One request of a client that leaves nothing behind. `Requests` composes three kinds:
a diff (`LineDiff`), a cat (`Cat`), or a call that gives one answer (`Calls`). A
behaviour is one request, so that the three do not multiply; the files it reads may
change under it.

*LineDiff* is `Diff`: two reads, then the loops of `computeDiff` with one turn per
step (`SkipCommon`, `StartHunk`, `TakeOld`, `EndOld`, `TakeNew`, `EndHunk`) or the loop
of `computeByteDiff` (`NextByte`, `ByteFound`). `DiffIsExact`: at every point between
two hunks, patching what is behind the loop in A with the hunks so far gives what is
behind it in B, and a byte diff names the position of the longest common prefix.
`DiffReturnsUnlessCrossed`: a diff ends unless two common lines change places within
the window of three; `DiffReturns`, without that condition, is false.

*Cat* is `Cat`, both modes: roots are walked (`WalkRoot`), then each file goes through
`Access`, `Stat`, `Peek` and `Read` or `ReadLimit`, with `Change` by others in between.
`CatAnswersInOrder`: however files change, the answer is a prefix of the files asked
for, says that it is truncated exactly when it leaves some out, and keeps to both
limits. `QuietCatIsExact`: while nothing changes, each entry says of its file what it
is and holds and a limit is named only if the next file would exceed it
(`QuietEntriesAreExact`), and the files are those the paths or roots stand for
(`ListIsWhatTheyStandFor`).

*Calls* gives every tool that answers in one go its requests:

* `FileTools`: wc, checksum, hexdump, stat and reading by lines, on a file, where Stat
  and read are two steps with a writer between them, and on a blob, where the code is
  another; a path the checker refuses gets its answer before either (`DeniedAnswer`).
  `FileAnswersAreExact` compares both with one definition over the bytes. Offsets of a
  hexdump are integers: before the start of a file the code panics on a blob and dumps
  another place than it says on a file (two findings), and of those dumps the property says
  nothing.
  `GitPaths` is the way to a blob: repo:ref:path, the repository named, given by path or
  found upwards, the ref as it is or as a remote's.
* `HookCommand`: what the parser keeps of a command or of a pipe of two, then one
  operator per suggestion. `SuggestionsKeepTheirLines` takes a head or sed of one file, its
  own or that of the cat it reads from (`OneFile`), runs the suggested read, by the
  `ReadLines` of FileTools, and compares file and lines with what the command prints. A command
  that names several files, or whose second stage does not read the pipe, is suggested as a
  read of one file all the same: two findings. The operators for the other tools are there
  because the property also says of every pipe that its suggestion, whatever tool it is for,
  carries the limit or range of the second stage.
* `GitConfig`: sections as go-git keeps them, includes to their depth, scopes, queries.
  `ConfigIsGits`: the value of a key in the merged scope is the one git would use. Git is
  defined on its own, by its manual (`GitReads`): settings in the order they are written, an
  include's where it is included, of all global files, `config.worktree` only if the
  repository's own file has `extensions.worktreeConfig`, subsections by case, and a `gitdir:`
  condition by where the git directory lies (`GitHolds`). The code reads `config.worktree`
  always, folds the case of whole keys, and turns a condition into a glob (`Prepared`,
  `MatchesGitDir`). Recursion over includes is a function of the depth.
* `Pathfind`: `UnmaskedIsFirst` - just the first match of a name in the list as given
  is unmasked, whatever the order and repetitions.
* `Sorting`: `ListingsAreSorted` against an order that compares no pairs step by step.

`Texts` (a text cut at its newlines) and `Lists` (sums, sequences laid end to end) hold what
several of these use.

Abstractions: a text is a sequence of lines, a line a sequence of bytes of which only
newline, carriage return, blank and a UTF-8 continuation byte are told apart; a digest
is the bytes it is of; a commit's tree has one entry; a word of a command is its kind
with the number it holds; a glob of names is the set of names it matches. In
`ConfigIsGits`, `SuggestionsKeepTheirLines` and `ListingsAreSorted` the preconditions
leave out what the findings are about (sections split around others, several files, tail,
ranges that start with empty lines, numbers beyond 64 bits). What the answer of `ConfigIsGits`
may differ in, with nothing that says so, is named by its hypotheses. `Straight`: sections
in one piece, one path per condition, no pattern relative to its file (`gitdir:./x`, which
the code matches with nothing). `Ordinary`: not two global files at once, of which git reads
both and `globalConfigPath` one; no `config.worktree` that git passes over; no file git cannot
parse, where git gives no value at all. `OneSpelling`: the key does not occur with its
subsection in another case. And not the keys of the includes themselves, which
`loadConfigWithIncludes` does not list and git does. Not modelled are wildcards in a
`gitdir:` pattern other than its `**` at either end, a worktree whose .git is a file, the
conditions git compares with the real path of a repository reached through a link, and what
git takes from the environment (`GIT_CONFIG_*`) or the command line.

### AccessPolicy (with AccessPolicy_proofs)

A load goes through the phases of `Load` and `buildEngine`: `FindExplicit` or
`FindFirst` (the places, in one step), `ReadConfig`, `ResolvePatterns`, `ResolveRepos`,
`Build`. `Check` judges a path by the rules in force: sensitive, deny, allow, the
current directory. Files are edited and a link is moved between any two steps. The
first load ends the program when it fails, a later one leaves the rules as they are.

Properties: while the links are those the rules were loaded under, every path that
exists gets the verdict its configuration means for the node it leads to, by whatever
links path and pattern are written (`QuietRulesMeanWhatTheySay`, against `Meant`, which
knows nodes only); what a load installs is one content of one file held during the load,
and no earlier place had a file all the time (`RulesComeFromOneFile`). When a link moves
under loaded rules the verdicts follow the old one until the next load: the code
resolves patterns once, and that is left out of the first property by `outdated`. A pattern
or an entry of `$PATH` whose directory leads to `/` gets a second separator and stands for
`/` at most (`doubled`; a finding), and `Meant` follows the code in that. Left open is a
credential pattern for all that is below a directory which is not there: the lowercased
name of a node may be that directory's (`CredsAreThere`).

Abstractions: `FindFirst` sees all places at one moment, where the code stats one after
another (config.go:191-195); `RulesComeFromOneFile` is worded for the code's order, as a
place is only said to have had no file if it had one all the time. A path is its names, a
pattern its literal directory and `**`, `*` or one name; `filepath.EvalSymlinks` and the
glob matcher are external; the table of sensitive patterns is a list of names.

## Runs

| Run | Instance and bounds | Shows |
|---|---|---|
| chunked_read | chunk of 2 bytes, overshoot 1, five contents (empty, one chunk, three chunks with and without a newline in reach, binary), three ranges, `MaxWrites` 2, `MaxReloads` 1 | the properties above and the refinement |
| torn_chain | two contents of 3 bytes, `MaxWrites` 1 | a chain completes with a last chunk of another version (SKILL.md says STALE_CONTINUATION) |
| paged_tools | `MaxName` 3, limits 0 and 1 with a default of 2, skip 0 and 1, `MaxTreeEdits` 2, `MaxConfigEdits` 1, `MaxReloads` 1, five tools | the properties above |
| search_pages | as paged_tools, search only, `MaxTreeEdits` 1, no reload | the second page of a search is the first again |
| reload_race | two operators, `MaxConfigEdits` 1, `MaxReloads` 2 | the older configuration may win |
| object_cache | three repos (one name extends another by a colon), two entries, 3 bytes, sizes 1, 2 and 4, time to live 1, `MaxTime` 3 | the properties above and the refinement |
| ref_watcher | two repos, one whose events may be taken for the other's, or one whose keys the other's invalidation covers; two callbacks at once, `MaxChanges` 3, `QueueLimit` 2 | the properties above |
| deep_refs | one repo, `MaxChanges` 2 | a ref below refs/remotes/origin changes and stale entries stay |
| rev_walk | two graphs of five commits, two clocks, complete and shallow, first parent or all, 38 single tokens, 81 pairs, 9 triples whose excludes exceed the cap, and the empty spec, `maxWalk` 4 | the properties above |
| requests | pairs of 41 texts of up to three lines over three contents and two of four, for a diff; six trees of six paths, 45 calls of cat, `maxWrites` 2; 100 calls of the file tools on four texts and three repositories, `maxToolWrites` 1; 1713 commands; 552 trees of seven configuration files with nine conditions, 18 queries of each; lookups in up to three of four directories; listings of up to three of six names in every order | the properties above |
| diff_returns | as requests | a diff of two texts whose lines cross does not return |
| access_policy | three directories, a link that leads to two of them or to the root, five configurations at four places, `maxLoads` 2, `maxEdits` 1 | the properties above |

Why the bounds suffice. A chain of three chunks has a first, a middle and a last; two
writes allow one before and one within a request, and a chunk of two bytes with one of
overshoot takes every branch of the boundary code. Three names with pages of one give
three pages, with an insertion in front of, at and behind every offset; two edits
allow one before each of the last two pages. The cache's sizes fit, fill and exceed
the limit, and 3 is the least time that sees an entry put, expired and put again. Two
callbacks and three changes let one callback swap while another is armed, and the third of
three changes finds a queue of two full: its event is dropped, which the watcher's promises
exclude and nothing in the code makes up for. Every promise is about one repo, so that the
two namings hold the plain one: in each there is a repo that the other does not touch. The
cap of 4 lies between the 4 and 5 commits the graphs' merges reach.

The window of a diff is three lines, so texts of three lines meet every case of the
lookahead but a line beyond it, which the two of four lines add. Six paths have a root with a file, a link and a
refused file at depths 0 and 1; limits of 2 files and of 4 or 6 bytes fall between
entries. Rows of 2 bytes and a length of at most 4 give a dump of a full and a short row
and an offset at, before and past the end. Three files that include one another, with a
limit of 3, reach the limit and one less. Of the nine conditions, with the git directory
`/w/r/.git`, some hold and some fail for each beginning (absolute, `~/`, none) and each ending
of a pattern. One edit during a load falls in front of every
one of its steps, and the second load replaces rules in force.

Deadlock is checked for chunked_read, where the client can always begin again. The
other systems may stop: bounds on edits, time and changes run out, a closed watcher
a finished walk and an answered request have no next step.

## Fairness

ChunkedRead and PagedTools: weak fairness of the server's steps (a handler is a
goroutine that runs on) and of the client's next request while it holds a token (it
follows the chain); none for writers, reloads or new chains. RefWatcher: weak
fairness of the event loop, of the timer (`time.AfterFunc` fires) and of each
callback's goroutine; none for git, the cache's users or Close. RevWalk: weak fairness
of its one goroutine. Requests: weak fairness of the steps of a diff, a loop of one
goroutine over contents it has read. ObjectCache and AccessPolicy state no liveness.

## Proofs

TLC checks small instances; the theorems hold for every value of the constants that
meets the assumptions named in the modules. `SequenceFacts` holds the lemmas on sequences
and numbers the proofs share: least and greatest elements, the elements of appended,
cut, flattened and rearranged sequences, sums and counts over them, what a sequence of
entries says last of a key, where a pattern is found in a sequence, the bytes of a text line
by line, and induction, which is stated for a *set* `Q` (`0 \in Q`,
`n \in Q => n + 1 \in Q`), since the provers do not instantiate the library's theorems over
operators.

`ChunkedRead_proofs`, for every chunk size, overshoot, set of contents and of ranges:

* `TypeCorrect`. The last conjuncts of `TypeOK` say what a request in each phase may hold
  (its descriptor is an inode, its range is not empty), which makes the slices of the
  following steps well defined.
* `ChunksLieEndToEnd`: `ChainTiles` is inductive with a conjunct that ties the request
  being served to the token: a continuation starts at the token's offset, and that is the
  end of the last chunk (`TileInv`).
* `TornChunkIsLast` and `QuietChainIsWhole`, from one invariant, `SnapInv`. Its parts say
  that the path leads to the newest version and mtimes grow strictly (`ClockInv`), that a
  request and its token carry the signature of the version the first Stat saw (`StatInv`),
  what a request's descriptor and buffer hold while nothing is written (`OpenInv`,
  `BufInv`), and that a chunk is of that version while nothing is written, and for good
  once another request follows it (`ChainInv`): the Stat of `Continue` proves the chunk
  delivered before it clean. Only that last argument needs a clock that tells writes
  apart; `QuietChainIsWhole` holds with any.
* `NewlineLabelsHold`: what `adjustTextBoundary` labels "newline" ends with one, for every
  length of what the range read returned (`AdjustedEnd`, `LabelInv`).
* `ReadsAreAStream`: if mtimes tell writes apart, `Spec => RefinesFileStream`, step by step.
  Every step keeps the stream's variables, sets them back, ends the stream, begins one or
  delivers a chunk (`StepKinds`), and a delivered chunk extends the concatenation
  (`FlattenOfAppend`) by a part of the snapshot unless it is the last (`AnswerRefines`).
  `FileStream` states no fairness, so this is all of the refinement; the
  signature of a token cannot tell two writes of one mtime and size apart, hence the
  assumption.

`PagedTools_proofs`, for every set of names, tools, arguments, rules and operators:

* `TypeCorrect`.
* `GrowthKeepsAll` (`GrowthNeverSkips`), `ShrinkingRepeatsNothing` (`ShrinkingNeverRepeats`)
  and `LogRepeatsNothing` (`LogGrowthNeverRepeats`), from `LinkInv` (request, token and chain
  are of one tool and at one place) and `FlowInv`. The latter speaks of the listing as it
  is *now*: as long as nothing was removed, whatever is still to be delivered ranks at the
  token's offset or behind; as long as nothing was added, whatever was delivered ranks in
  front of it; and the commit a log token names lies between the two. That is kept by
  every edit, because an insertion can only raise ranks and a removal only lower them
  (`RankMonotone`), and by every page, because a page is a window of ranks that is full
  unless it reaches the end (`WindowIsTaken`, `WindowRanks`).

`ObjectCache_proofs`, for all limits, sizes and times:

* `TypeCorrect`, `MapAndListAgree` (`Coherent`), `EvictionIsLRU` (`ListIsInOrderOfUse`), from
  one invariant, `CacheInv`: none of the three is inductive alone. The list is the history
  of uses restricted to the keys in the map, and each operation is shown to leave a list
  of that form. The running total is compared with a number of bytes, the cardinality of
  a set that has an element per byte of each entry (`TotalIsSum`): the library's sum is a
  fold, and a cardinality can be split by the theorems on finite sets.
* `InsertionsFit` (`InsertionFitsMemory`), over `EvictedMakesRoom` for the eviction loop.
* `CacheIsExpiringMap`: `Spec => AnswersAsExpiringMap`, every operation a step of the map
  that may forget. Where an eviction, an expiry or the prefix match of `InvalidateRepo`
  drops entries, the map forgets a set of keys.

`RefWatcher_proofs`, for every set of repositories and callbacks and every queue limit:

* `TypeCorrect`; `NothingIsLost` (`NoChangeIsLost`), for every repo whose events are taken for no
  other, inductive with the facts that only a callback in the act of invalidating has
  repositories in hand and that the loop stops after `done` only; a prefix that covers more
  keys only drops more.
* `OthersAreKept` (`OnlyChangedReposAreDropped`), for every repo that is apart, from
  `DropsAreDue`: the invalidations its events account for are at least as many as its events
  in the queue, its place in the pending set and the callbacks that hold it together
  (`Accounted`). Every step of the loop and of a callback moves one of these to the next or
  gives one up; `ReceivedIsDue` and `CallbackIsDue` count them, over the cardinalities of what
  is queued and of who holds the repo. What paths are to each other is not expanded: any set of
  namings in which a path is a prefix of itself will do.

`RevWalk_proofs`, for every acyclic history, clock, set of missing objects, spec and cap:

* `TypeCorrect`.
* `RangeCorrect` (`RangeIsExact`) and `SidesCorrect` (`SidesAreExact`), from an invariant per
  phase: `TokenInv` (tips and excludes mean what the tokens so far mean), `SearchInv` (what is
  reached and not yet found lies behind a commit that is still queued), `WalkInv` (what each
  tip's walk keeps) and `MergeInv` (what is shown is what the cursors have passed). `Reach` is a
  least fixed point; the proofs use that it is one (`ReachIsLeast`) and never compute it.
* `OrderCorrect` (`NewestFirst`): each list is sorted, a list that is sorted holds nothing
  newer behind its cursor, and what is shown is no older than any head (`OrderInv`). Clocks
  are arbitrary; a commit is shown once because the merge has a set of those it showed.
* `CapCorrect` (`CapIsExact`): a set under enumeration is within the cap or has commits left
  to visit (`CapInv`).

`AccessPolicy_proofs`, for every file system, set of configurations, number of loads and
of edits:

* `RulesAreOneFile`: `Spec => RulesComeFromOneFile`. The property is about the step that
  installs rules, but what it claims was decided steps before; the invariant
  `LoadIsHonest` carries it there: while a load runs, what each place holds now is among
  what it has held since the load began, the place found and the places before it are
  justified by those histories, and so is the content read. It rests on `FirstOfIsFirst`
  (what `FirstOf` returns has no present place before it). Neither the resolution of
  links nor the matching of patterns is expanded: the result does not depend on them.

* `TypeCorrect`, and `VerdictsAreMeant` (`QuietRulesMeanWhatTheySay`). Where a path leads is a
  recursion on the number of links, and by induction on it: what a path leads to has no
  link in it and leads to itself (`LeadsToCanonical`), and where a path leads, more of it
  leads from there (`MoreLeadsFromThere`). Hence a resolved pattern has the directory its own
  leads to, and if that does not exist, one that no node is at or below
  (`PatternIsResolved`, over `OneMoreExists`); so it matches the nodes it stands for
  (`MatchesAsItStands`), and the lists of a checker say what the configuration means
  (`VerdictIsMeant`, `ReposAreRight`). `Underway` and `InForce` carry that from the step that
  resolves, over any number of edits, to the one that judges. `EvalStays` is the fact that
  nothing but the tree decides it.

`Requests_proofs`, for all contents, trees, calls, limits and changes of files:

* `HunksAreExact` (`DiffIsExact`). The property speaks of the turns between two hunks; the
  invariant has a part per phase. Between hunks, those collected rebuild the part of B
  behind the loop from the part of A behind it (`Rebuilds`); inside one, they rebuild what
  lies before its start, and the hunk under way holds with "-" the lines passed in A since
  then and with "+" those passed in B (`InHunk`); in the byte loop the two prefixes agree,
  and line and column are those of the newlines in them (`Agreed`). `EndedRebuilds` is the
  step that closes a hunk. `Compared` carries `identical` from the comparison to the end:
  contents that differ cannot end without a hunk (`NoHunksNoChange`). The window is not
  expanded: the hunks are right whatever `Soon` answers, they are only longer or shorter.
* `CatIsInOrder` (`CatAnswersInOrder`): each file in front of the next has one entry
  (`OnePerFile`), the counters are those of the entries (`CountsAddUp`) and an answer is
  called truncated only as it ends (`LimitIsHonest`). The first two bind each other: that a
  file which is being read still has its place within the limit was decided at `Access`.
  Total bytes are the length of the contents laid end to end, which `FlattenOfAppend`
  extends. What the walk of a root finds is not expanded: the order of the answer is that
  of the list, whatever it holds.
* `TypeCorrect`, from these two invariants and what they leave open: a hunk under way is as
  long as the loop has gone since its start (`DiffIsTyped`), a tool that waits for a second
  system call has a path left to answer (`ToolIsTyped`).
* `QuietEntriesAreRight` (`QuietEntriesAreExact`, the half of `QuietCatIsExact` that speaks of
  entries). While nothing has changed, what an earlier system call saw of the file is still
  so at the next (`FileIsWhatWasSeen`), so each entry is made under the case of `Means` its
  file is in (`MeansDenied` to `MeansText`); `ContentMeans` is what `readFirstNLines` and
  `readFullFile` return, for every text.

* `ListingsAreStable` (`ListingsAreSorted`): `CompareVersions` is a weak order of names
  (`VersionsInOrder`, over `SegmentsCompared`) because a segment is digits or begins with none, so
  that a text stands before all numbers or behind all of them, and because the numbers fit
  (`Sortable`); insertion then keeps what is sorted sorted, with the place each entry was found
  at (`OneMoreSorted`, `SortedFrom`), by induction over the entries taken up. Orders of a
  single text or number are the order of integers. Two equal entries keep their order, up or
  down, so the result is the only one a stable sort can have.
* `FirstIsUnmasked` (`UnmaskedIsFirst`). A lookup is followed directory by directory and,
  within one, file by file. After the first `n` directories the answer has an entry for each
  place searched so far that holds a match, no two for one place, and each entry leads to the
  directory that stands first for its name in the list as given, duplicates included
  (`EntriesRight`, `SearchedRight`). One more file keeps that (`OneMoreEntered`): either no
  entry has its name, and then no directory before this one holds a match of it, or the first
  entry of that name already leads there. A directory seen before adds nothing, because all it
  holds is entered already (`SearchedOneMore`); the rest is induction over the files
  (`AllEnteredRight`) and over the list (`AllSearchedRight`).

* `QuietCatIsRight` (`QuietCatIsExact`). A walk is a function of the depth, and by induction
  from the deepest level up, what is found below a directory is what lies below it, selected
  and not too deep (`FindsAll`, `LevelFinds`): a path is below a directory if it is a child or
  below a child that is a directory, because what a tree holds lies in a directory of it
  (`TreesAssumption`). The list then holds what is below the roots walked so far, and for one
  root nothing else and nothing twice (`ListInv`).
* `FileAnswersAreRight` (`FileAnswersAreExact`). Both ways of counting are compared with the
  bytes over the lines in front of each line (`Led`): newlines, words and characters of a text
  are those of its lines one after another (`CountsOfLine`, `LedCounts`), because a word ends
  where a line does. `bufio.Scanner` drops the carriage return of a line and the empty rest
  after the last newline, `strings.Split` keeps both, and both add up to the same counts
  (`ScannedCounts`, `SplitCounts`). The rows of a dump tile the piece that was read (`RowsTile`),
  a range of lines is a piece of the text from the file (`RangeIsRead`) and from the blob
  (`RangeIsSplit`). Calls range over every offset, and the case in which the property is silent
  is a case of the proof. `AnswersFit` keeps each answer fitting to the text at its path, as long as
  that is not written, between the two system calls and over the paths that follow.
* `SuggestionsAreFaithful` (`SuggestionsKeepTheirLines`). A head or a `sed -n` whose suggestion
  has a range prints a piece of its file, cut at two numbers (`Cuts`, over the cases of the
  numbers' parser), and the suggested read names that file, the first of the command's words
  that is no flag or value, and returns that piece (`RangeIsPrinted`, over the `RangeIsRead` of
  the files' tools); the suggestion for a pipe has a range of lines, or
  the limit of its second stage, in each of its forms (`PipeIsCarried`). Lines that begin
  with an empty one are left out, as in the property: `readLines` drops those.
* `MergedConfigIsGits` (`ConfigIsGits`). Of a key a sequence of entries has none, or it ends
  with a value (`None`, `EndsWith`); two sequences agree if both have none or both end with the same
  (`Agree`), and sequences laid end to end do if each pair does (`AllAgree`). go-git regroups
  the settings of a section, so pieces do not agree one by one; but a section in one piece is a
  block of what git reads, a key lies in one section, and in it in one subsection, so that
  regrouping keeps what is said of it last (`BlockAgrees`, `SectionSays`, `SectionsAgree`).
  Loading is sound if, with nothing skipped, what is loaded agrees with what git reads
  (`Sound`); what cannot be followed leaves a note, so it is sound without agreeing. From the
  includes' depth limit up, each level of includes is sound if the next is
  (`FileWithIncludesIsSound`, `AllDepthsAreSound`), files that include one another included;
  then the four sources are laid end to end (`AllIsSound`). That includes are followed where
  git follows them is `MatchesAsGit`: a pattern with a `**` before and after it is found in the
  path of the git directory somewhere, and what git asks, whether some directory the git
  directory lies in has a path that ends with it, is the same place told from its end
  (`PatternIsFound`). The keys of which `KeyEntries` takes the last are compared case apart, and
  with one spelling among what git reads they are those of the key (`KeyIsOneSpelling`).

Between them the theorems state every safety property the passing runs check. Only
model-checked are the liveness properties (`ChainEnds`, `PagesEnd`,
`AnnouncedChangeInvalidates`, `WalkReturns`, `DiffReturnsUnlessCrossed`), which rest on fairness
and on ENABLED.

The proofs about `Requests` rest on assumptions that say what the constants stand for: a text
is a sequence of lines of bytes, what a tree of files holds lies in a directory of it, paths
are listed once, a tool is given a path of its kind, includes name a file of the configuration
tree, a pattern begins in one of four ways, and names that are not in lower case have one that
is. TLC evaluates them on the run `requests`.

## Where code and documents differ

Each difference is an entry of "findings" in `PROJECT.json`; five have a run that
exhibits it (`torn_chain`, `search_pages`, `reload_race`, `deep_refs`,
`diff_returns`). The others were met while the code was translated:

* reading: an offset before the start of a file panics `hexdump` on a blob and mislabels the
  rows of a file; continuation chunks number their lines from 1 again; `readLines` drops
  leading empty lines; binary chunks are not aligned; `max_depth` of find and cat
  defaults to 0 in the server; a line range whose end lies before its start panics on a
  blob; wc counts the characters of a file and of the same blob differently;
* rules and server: the key of tokens does not survive a reload; the current-directory
  mode is not entered while `path_readable` is on, and allows nothing below `/`; a pattern
  or a directory of `$PATH` that resolves to `/` matches nothing below it either;
  `s.engine` is read without its mutex;
* watcher and cache: an event may be taken for another repo's, whose path with `/.git` is a
  prefix of its own; an invalidation covers repos whose path goes on with a colon;
* git: `first_parent` shortens the excluded side as well; settings of a section that
  occurs twice are joined, so the last value is not always the last; a remote with a dot
  in its name is missing; `config.worktree` is read without the extension that enables it; the
  case of subsections is folded; `gitdir:./x` matches nothing;
* the hook: of several files of a head or sed the first alone is read, and a second stage that
  names a file is taken to read the pipe; `tail -n N` is suggested as the whole file,
  `head -n 0` too; the value of a
  flag such as `head -c 100` is taken for the file, the pattern of `grep -e` for none;
  the count of `git log -5` is lost; the suggestion for `git diff a b` always fails;
* sorting by version has no order between numbers beyond 64 bits and others.

## Not modelled

System inspection (`sysinfo`, `getent`) is pure I/O, output is layout, the command line
is one request per process. `Refs`, `GitList` and the filters of `Log` copy and filter
what go-git enumerates; `coerceType` of the git configuration reformats one value.
go-git, fsnotify, the shell parser, TOML, the regular expressions and the glob matcher
are libraries and appear only as what the code uses of them. Data races on `s.engine`
are modelled as reading an old pointer, not as a torn one.
