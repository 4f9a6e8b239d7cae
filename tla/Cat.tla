-------------------------------- MODULE Cat ---------------------------------
(***************************************************************************)
(* aifr_cat (internal/engine/cat.go): the files named by the call, or found*)
(* below its roots, are read one after the other until a limit is reached. *)
(* A step is one root walked, or one system call on one file; the files    *)
(* may change between any two steps.                                       *)
(*                                                                         *)
(* A path is the sequence of its names.  Links are followed one hop, and   *)
(* lie at the end of a path; an answer's Root and Source are left out.     *)
(***************************************************************************)
EXTENDS Texts

CONSTANTS
  PathOrder,  \* every path, as strings.Compare orders them
  Trees,      \* what the paths may hold at first
  NewNodes,   \* what a file may become
  Changing,   \* the paths of files that change
  Denied,     \* resolved paths the checker refuses
  CatCalls,
  maxToken,   \* the longest line bufio.Scanner takes
  maxWrites   \* bound on changes during the call

Paths == {PathOrder[n] : n \in DOMAIN PathOrder}
Names == UNION {ToSet(p) : p \in Paths}
Kinds == {"none", "dir", "file", "link", "locked"}
IsNode(x) ==
  /\ x.kind \in Kinds /\ x.to \in Paths /\ IsText(x.text)
  /\ x.binary \in BOOLEAN /\ (x.binary => Size(x.text) > 0)

ASSUME PathOrderAssumption ==
  /\ PathOrder \in Seq(Paths) /\ PathOrder # <<>> /\ IsInjective(PathOrder)
  /\ Paths \subseteq Seq(Names)
\* What a tree holds lies in a directory of it, or at its top.
ASSUME TreesAssumption ==
  /\ \A t \in Trees : DOMAIN t = Paths /\ \A p \in Paths : IsNode(t[p])
  /\ \A t \in Trees : \A p \in Paths :
       t[p].kind # "none" /\ Len(p) > 1 => Front(p) \in Paths /\ t[Front(p)].kind = "dir"
  /\ \A x \in NewNodes : IsNode(x) /\ x.kind \notin {"dir", "link"}
ASSUME CatCallsAssumption ==
  \A c \in CatCalls :
    /\ c.paths \in Seq(Paths) /\ c.roots \in Seq(Paths) /\ c.matching \subseteq Paths
    /\ c.type \in {"", "f", "d", "l", "other"} /\ c.maxDepth \in Int
    /\ c.lines \in Int /\ c.maxTotal \in Int /\ c.maxFiles \in Int
ASSUME CatBoundsAssumption == maxToken \in Nat \ {0} /\ maxWrites \in Nat

VARIABLES
  cphase,      \* where Cat is
  call,        \* its arguments
  tree,        \* what each path holds
  rootAt,      \* the root to walk next
  list,        \* the files to read
  next,        \* the one that is read next
  target,      \* its resolved path, size and whether it was empty to Stat
  entries,     \* CatResponse.Files
  totals,      \* totalBytes, FilesRead, FilesSkipped
  limit,       \* Warning: what truncated the answer
  catWrites    \* changes made so far

catVars == <<cphase, call, tree, rootAt, list, next, target, entries, totals, limit, catWrites>>

\* CatParams with its defaults.
MaxTotal == IF call.maxTotal <= 0 THEN 2 * 1024 * 1024 ELSE call.maxTotal
MaxFiles == IF call.maxFiles <= 0 THEN 1000 ELSE call.maxFiles

EmptyText == <<<<>>>>
Nothing == [content |-> EmptyText, lines |-> 0, truncated |-> FALSE]
Entry(path, size, error, binary, c) ==
  [path |-> path, size |-> size, error |-> error, binary |-> binary,
   content |-> c.content, lines |-> c.lines, truncated |-> c.truncated]
NoTotals == [bytes |-> 0, read |-> 0, skipped |-> 0]
NoTarget(path) == [path |-> path, size |-> 0]

CatTypeOK ==
  /\ cphase \in {"off", "begin", "roots", "files", "stat", "peek", "read", "served", "refused"}
  /\ call \in CatCalls /\ catWrites \in 0..maxWrites
  /\ \A p \in Paths : IsNode(tree[p])
  /\ rootAt \in 1..(Len(call.roots) + 1) /\ list \in Seq(Paths) /\ next \in 1..(Len(list) + 1)
  /\ target.path \in Paths /\ target.size \in Nat
  /\ \A n \in DOMAIN entries : entries[n].path \in Paths /\ IsText(entries[n].content)
  /\ totals \in [bytes : Nat, read : Nat, skipped : Nat]
  /\ limit \in {"none", "max_files_limit", "output_size_limit"}
  /\ cphase \in {"stat", "peek", "read"} => next <= Len(list) /\ Len(entries) < MaxFiles

-----------------------------------------------------------------------------
\* The file system, and checkAccess.

Exists(p) == tree[p].kind # "none"
Resolved(p) == IF tree[p].kind = "link" THEN tree[p].to ELSE p
Resolves(p) == Exists(Resolved(p))
\* A path that does not resolve is judged by its own name.
Refused(p) == (IF Resolves(p) THEN Resolved(p) ELSE p) \in Denied

Change ==
  /\ cphase \notin {"off", "served", "refused"} /\ catWrites < maxWrites
  /\ \E p \in Changing, x \in NewNodes : tree[p] # x /\ tree' = [tree EXCEPT ![p] = x]
  /\ catWrites' = catWrites + 1
  /\ UNCHANGED <<cphase, call, rootAt, list, next, target, entries, totals, limit>>

-----------------------------------------------------------------------------
\* catDiscover.

\* The paths of a set, sorted.
InOrder(ps) ==
  LET upTo[n \in 0..Len(PathOrder)] ==
        IF n = 0 THEN <<>>
        ELSE IF PathOrder[n] \in ps THEN Append(upTo[n - 1], PathOrder[n]) ELSE upTo[n - 1]
  IN upTo[Len(PathOrder)]

Children(dir) == InOrder({p \in Paths : Len(p) = Len(dir) + 1 /\ Front(p) = dir /\ Exists(p)})

OfType(p) ==
  CASE call.type \in {"", "f"} -> tree[p].kind # "link"
    [] call.type = "l" -> tree[p].kind = "link"
    [] call.type = "d" -> FALSE   \* a directory never comes this far
    [] OTHER -> TRUE
Selects(p) == OfType(p) /\ p \in call.matching /\ ~Refused(p)

\* Mutant: the limit is one level late.
DescendsOneMore(depth) == call.maxDepth < 0 \/ depth <= call.maxDepth

Descends(depth) == call.maxDepth < 0 \/ depth < call.maxDepth

Deepest == Max({Len(p) : p \in Paths})   \* no path has more names
Walk[depth \in 0..Deepest] ==
  [dir \in Paths |->
    FlattenSeq([n \in DOMAIN Children(dir) |->
      LET p == Children(dir)[n]
      IN IF tree[p].kind = "dir"
         THEN IF depth < Deepest /\ Descends(depth) THEN Walk[depth + 1][p] ELSE <<>>
         ELSE IF Selects(p) THEN <<p>> ELSE <<>>])]

\* The files below a root, sorted by their paths.
Discovered(root) == InOrder(ToSet(Walk[0][root]))

-----------------------------------------------------------------------------
\* Cat.

Begin ==
  /\ cphase = "begin"
  /\ list' = call.paths
  /\ cphase' = IF call.paths # <<>> THEN "files" ELSE IF call.roots # <<>> THEN "roots" ELSE "refused"
  /\ UNCHANGED <<call, tree, rootAt, next, target, entries, totals, limit, catWrites>>

Root == call.roots[rootAt]
RootIsDir == ~Refused(Root) /\ Resolves(Root) /\ tree[Resolved(Root)].kind = "dir"

WalkRoot ==
  /\ cphase = "roots" /\ rootAt <= Len(call.roots) /\ RootIsDir
  /\ list' = list \o Discovered(Resolved(Root)) /\ rootAt' = rootAt + 1
  /\ UNCHANGED <<cphase, call, tree, next, target, entries, totals, limit, catWrites>>

RefuseRoot ==
  /\ cphase = "roots" /\ rootAt <= Len(call.roots) /\ ~RootIsDir
  /\ cphase' = "refused"
  /\ UNCHANGED <<call, tree, rootAt, list, next, target, entries, totals, limit, catWrites>>

RootsDone ==
  /\ cphase = "roots" /\ rootAt > Len(call.roots)
  /\ cphase' = "files"
  /\ UNCHANGED <<call, tree, rootAt, list, next, target, entries, totals, limit, catWrites>>

-----------------------------------------------------------------------------
\* catReadFiles.

File == list[next]
NoMoreThan(n) == Len(entries) >= n

Serve(why) ==
  /\ limit' = why /\ cphase' = "served"
  /\ UNCHANGED <<call, tree, rootAt, list, next, target, entries, totals, catWrites>>

FilesDone == cphase = "files" /\ next > Len(list) /\ Serve("none")
FilesLimit == cphase = "files" /\ next <= Len(list) /\ NoMoreThan(MaxFiles) /\ Serve("max_files_limit")

\* The entry is appended as it is and the file counts as skipped.
Skip(entry) ==
  /\ entries' = Append(entries, entry) /\ totals' = [totals EXCEPT !.skipped = @ + 1]
  /\ next' = next + 1 /\ cphase' = "files"
  /\ UNCHANGED <<call, tree, rootAt, list, target, limit, catWrites>>
SkipAs(size, error) == Skip(Entry(File, size, error, FALSE, Nothing))

GoOn(phase, size) ==
  /\ cphase' = phase /\ target' = [path |-> IF cphase = "files" THEN Resolved(File) ELSE target.path, size |-> size]
  /\ UNCHANGED <<call, tree, rootAt, list, next, entries, totals, limit, catWrites>>

Access ==
  /\ cphase = "files" /\ next <= Len(list) /\ ~NoMoreThan(MaxFiles)
  /\ \/ Refused(File) /\ SkipAs(0, "ACCESS_DENIED")
     \/ ~Refused(File) /\ ~Resolves(File) /\ SkipAs(0, "NOT_FOUND")
     \/ ~Refused(File) /\ Resolves(File) /\ GoOn("stat", 0)

Node == tree[target.path]
StatSize == IF Node.kind = "file" THEN Size(Node.text) ELSE 1

Stat ==
  /\ cphase = "stat"
  /\ \/ Node.kind = "none" /\ SkipAs(0, "NOT_FOUND")
     \/ Node.kind = "dir" /\ SkipAs(0, "IS_DIRECTORY")
     \/ Node.kind \in {"file", "locked"} /\ GoOn(IF StatSize = 0 THEN "read" ELSE "peek", StatSize)

Opens == Node.kind = "file"

Peek ==
  /\ cphase = "peek"
  /\ \/ ~Opens /\ SkipAs(target.size, "CANNOT_READ")
     \/ Opens /\ Node.binary /\ Skip(Entry(File, target.size, "none", TRUE, Nothing))
     \/ Opens /\ ~Node.binary /\ GoOn("read", target.size)

\* readFirstNLines (lines > 0) and readFullFile.
FirstLines(text, n) ==
  LET lines == ScanLines(text)
      kept == SubSeq(lines, 1, IF Len(lines) < n THEN Len(lines) ELSE n)
  IN [content |-> Ended(kept), lines |-> Len(kept), truncated |-> Len(lines) > n]
FullFile(text) == [content |-> text, lines |-> LineCount(text), truncated |-> FALSE]

ContentOf(text) == IF call.lines > 0 THEN FirstLines(text, call.lines) ELSE FullFile(text)
LineTooLong(text) == call.lines > 0 /\ \E n \in DOMAIN text : Len(text[n]) > maxToken
OverSize(text) == totals.bytes + Size(ContentOf(text).content) > MaxTotal

ReadFails == cphase = "read" /\ (~Opens \/ LineTooLong(Node.text)) /\ SkipAs(target.size, "CANNOT_READ")

\* Mutant: a file that exceeds the limit is passed over, and smaller ones after it are read.
ReadLimitPasses ==
  /\ cphase = "read" /\ Opens /\ ~LineTooLong(Node.text) /\ OverSize(Node.text)
  /\ limit' = "output_size_limit" /\ next' = next + 1 /\ cphase' = "files"
  /\ UNCHANGED <<call, tree, rootAt, list, target, entries, totals, catWrites>>

ReadLimit ==
  /\ cphase = "read" /\ Opens /\ ~LineTooLong(Node.text) /\ OverSize(Node.text)
  /\ Serve("output_size_limit")

Read ==
  /\ cphase = "read" /\ Opens /\ ~LineTooLong(Node.text) /\ ~OverSize(Node.text)
  /\ LET c == ContentOf(Node.text)
     IN /\ entries' = Append(entries, Entry(File, target.size, "none", FALSE, c))
        /\ totals' = [totals EXCEPT !.bytes = @ + Size(c.content), !.read = @ + 1]
  /\ next' = next + 1 /\ cphase' = "files"
  /\ UNCHANGED <<call, tree, rootAt, list, target, limit, catWrites>>

-----------------------------------------------------------------------------
CatInit(first) ==
  /\ cphase = first /\ call \in CatCalls /\ tree \in Trees
  /\ rootAt = 1 /\ list = <<>> /\ next = 1 /\ target = NoTarget(PathOrder[1])
  /\ entries = <<>> /\ totals = NoTotals /\ limit = "none" /\ catWrites = 0

CatFile == Access \/ Stat \/ Peek \/ ReadFails \/ ReadLimit \/ Read
CatNext == Begin \/ WalkRoot \/ RefuseRoot \/ RootsDone \/ FilesDone \/ FilesLimit \/ CatFile \/ Change

-----------------------------------------------------------------------------
EntryPaths == [n \in DOMAIN entries |-> entries[n].path]
\* All contents, one behind the other.
Total(es) == Len(FlattenSeq([n \in DOMAIN es |-> Bytes(es[n].content)]))

\* However files change meanwhile, an answer takes the files in their order and
\* leaves out none but those after the last; it says that it is truncated
\* exactly when it leaves some out; its counts add up, and it is within both
\* limits (catReadFiles).
CatAnswersInOrder ==
  /\ totals.read + totals.skipped = Len(entries)
  /\ totals.bytes = Total(entries) /\ totals.bytes <= MaxTotal
  /\ Len(entries) <= MaxFiles
  /\ cphase = "served" => IsPrefix(EntryPaths, list) /\ (limit # "none") = (Len(entries) < Len(list))

\* What an entry has to say of a file.
Means(entry, p) ==
  LET x == tree[Resolved(p)]
      unreadable == x.kind = "locked" \/ LineTooLong(x.text)
  IN CASE Refused(p) -> entry.error = "ACCESS_DENIED"
       [] ~Refused(p) /\ x.kind = "none" -> entry.error = "NOT_FOUND"
       [] ~Refused(p) /\ x.kind = "dir" -> entry.error = "IS_DIRECTORY"
       [] ~Refused(p) /\ x.binary /\ x.kind = "file" -> entry.binary /\ entry.content = EmptyText
       [] OTHER -> IF unreadable THEN entry.error = "CANNOT_READ"
                   ELSE /\ entry.error = "none"
                        /\ entry.truncated = (call.lines > 0 /\ LineCount(x.text) > call.lines)
                        /\ IF entry.truncated THEN entry.lines = call.lines ELSE entry.lines = LineCount(x.text)
                        /\ LineCount(entry.content) = entry.lines
                        /\ \A n \in 1..entry.lines : entry.content[n] = IF call.lines > 0 THEN DropCR(x.text[n]) ELSE x.text[n]

\* The files a root stands for: those below it, through no more directories
\* than the depth, that pass the filters.
Below(root) ==
  {p \in Paths : /\ Len(p) > Len(root) /\ IsPrefix(root, p) /\ tree[p].kind \notin {"none", "dir"}
                 /\ call.maxDepth < 0 \/ Len(p) - Len(root) - 1 <= call.maxDepth
                 /\ Selects(p)}

\* The files read are those the paths or roots stand for.
ListIsWhatTheyStandFor ==
  IF call.paths # <<>> THEN list = call.paths
  ELSE \A r \in ToSet(call.roots) :
         /\ \A p \in Below(Resolved(r)) : Contains(list, p)
         /\ Len(call.roots) = 1 => ToSet(list) = Below(Resolved(r)) /\ IsInjective(list)

\* As long as no file has changed, every entry says what its file is and
\* holds, and a limit is named only if the next file would exceed it.
QuietEntriesAreExact ==
  catWrites = 0 =>
    /\ \A n \in DOMAIN entries : Means(entries[n], list[n])
    /\ limit = "max_files_limit" => Len(entries) = MaxFiles
    /\ limit = "output_size_limit" => OverSize(tree[Resolved(list[Len(entries) + 1])].text)

\* A call during which no file changes lists exactly the files its paths or
\* roots stand for, says of each what it is and holds, and ends at a limit
\* only if the next file would exceed it (Cat, catDiscover, catReadFiles).
QuietCatIsExact ==
  /\ QuietEntriesAreExact
  /\ cphase = "served" /\ catWrites = 0 => ListIsWhatTheyStandFor
=============================================================================
