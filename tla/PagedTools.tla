----------------------------- MODULE PagedTools -----------------------------
(***************************************************************************)
(* The paginated tools of the MCP server: aifr_list, aifr_find,            *)
(* aifr_search, aifr_log, aifr_reflog and aifr_stash_list, from the        *)
(* handler (internal/mcpserver/tools.go) to the page the engine cuts       *)
(* (internal/engine/list.go, find.go, search.go, gitops.go, reflog.go),    *)
(* and aifr_self reload, which replaces the engine under them.             *)
(*                                                                         *)
(* A continuation token carries an offset, or for aifr_log the hash of the *)
(* last commit delivered; nothing holds the listing still from one page to *)
(* the next.  A handler reads s.engine twice, without s.mu: once to verify *)
(* the token and once to serve the page.                                   *)
(*                                                                         *)
(* What a tool lists is a set of positive integers, delivered in           *)
(* increasing order: the directory's entries by file name, or the commits  *)
(* and reflog lines from the newest on.                                    *)
(***************************************************************************)
EXTENDS Integers, Sequences, FiniteSets

CONSTANTS
  MaxName,         \* names are 1..MaxName
  Tools,           \* the tools the client may call
  Limits,          \* limit / max_count arguments, 0: not given
  Skips,           \* skip arguments of aifr_log
  DefaultCount,    \* page size without a limit: 500, 20 and 50 in the code
  Rules,           \* access rules a configuration may hold: sets of readable paths
  Operators,       \* who may call aifr_self reload
  MaxTreeEdits, MaxConfigEdits, MaxReloads   \* bounds

Root == 0                      \* the directory, or the reflog file or repository
Names == 1..MaxName
AllTools == {"list", "find", "search", "log", "reflog", "stash_list"}
FileTools == {"list", "find", "search"}

ASSUME NamesAssumption == MaxName \in Nat
ASSUME ToolsAssumption == Tools \subseteq AllTools
ASSUME ArgumentsAssumption ==
  /\ \A l \in Limits : l \in Nat
  /\ \A k \in Skips : k \in Nat
  /\ DefaultCount \in Nat \ {0}
ASSUME RulesAssumption == Rules # {} /\ \A r \in Rules : r \subseteq (Names \cup {Root})
ASSUME BoundsAssumption ==
  MaxTreeEdits \in Nat /\ MaxConfigEdits \in Nat /\ MaxReloads \in Nat

VARIABLES
  tree,      \* the paths that exist
  edits,     \* how often the tree was changed
  disk,      \* the configuration on disk: its rules, and how often it was edited
  engines,   \* the engines s.engine has held, oldest first; each has its own hmacKey
  reload,    \* reload[o]: the engine operator o has built and not yet installed, or Idle
  request,   \* the client's request, NoRequest between requests
  chain,     \* the pages of the client's chain: the tool, the entries, the engine that served
  token,     \* the continuation token of the last page, NoToken if none
  outcome,   \* how the chain stands
  original,  \* history: what the chain's first walk had to deliver
  drift      \* history: what happened to the listing since then

server == <<engines, reload>>
client == <<chain, token, outcome, original>>
vars == <<tree, edits, disk, engines, reload, request, chain, token, outcome, original, drift>>

-----------------------------------------------------------------------------
\* Slices of a listing.

Rank(S, e) == Cardinality({d \in S : d < e})
Drop(S, n) == {e \in S : Rank(S, e) >= n}
Take(S, n) == {e \in S : Rank(S, e) < n}
Largest(S) == CHOOSE e \in S : \A d \in S : d <= e

Idle == [built |-> FALSE]
NoRequest == [phase |-> "none"]
NoToken == [signed |-> 0]
NoDrift == [grown |-> FALSE, shrunk |-> FALSE, reskipped |-> FALSE]

Editions == [rules : Rules, edition : Nat]
Built == [built : {TRUE}, engine : Editions]
Tokens == [signed : Nat \ {0}, tool : Tools, offset : Nat, limit : Nat, hash : Nat]
Requests ==
  [phase : {"decode", "serve"}, tool : Tools, limit : Nat, skip : Nat, offset : Nat,
   hash : Nat, seen : Nat]

TypeOK ==
  /\ Root \in tree => tree \subseteq (Names \cup {Root})
  /\ Root \notin tree => tree = {}
  /\ edits \in 0..MaxTreeEdits
  /\ disk \in Editions
  /\ engines \in Seq(Editions) /\ engines # <<>>
  /\ reload \in [Operators -> {Idle} \cup Built]
  /\ request = NoRequest \/ (request \in Requests /\ request.seen \in 1..Len(engines))
  /\ chain \in Seq([tool : Tools, entries : SUBSET Names, engine : 1..Len(engines)])
  /\ token = NoToken \/ (token \in Tokens /\ token.signed <= Len(engines))
  /\ outcome \in {"none", "reading", "done", "stale", "failed"}
  /\ original \subseteq Names
  /\ drift \in [grown : BOOLEAN, shrunk : BOOLEAN, reskipped : BOOLEAN]
  /\ request.phase = "decode" => token # NoToken

-----------------------------------------------------------------------------
\* The environment.

Edit(new) ==
  /\ edits < MaxTreeEdits
  /\ edits' = edits + 1
  /\ tree' = new
  /\ UNCHANGED <<disk, server, request, client>>

\* A file appears; a commit or a reflog line is added.
Insert(e) ==
  /\ Root \in tree /\ e \notin tree
  /\ Edit(tree \cup {e})
  /\ drift' = [drift EXCEPT !.grown = TRUE]

\* A file goes; history is rewritten, a stash dropped.
Remove(e) ==
  /\ e \in tree \ {Root}
  /\ Edit(tree \ {e})
  /\ drift' = [drift EXCEPT !.shrunk = TRUE]

RemoveRoot ==
  /\ Root \in tree
  /\ Edit({})
  /\ drift' = [drift EXCEPT !.shrunk = TRUE]

EditConfig(rules) ==
  /\ disk.edition < MaxConfigEdits
  /\ disk' = [rules |-> rules, edition |-> disk.edition + 1]
  /\ UNCHANGED <<tree, edits, server, request, client, drift>>

-----------------------------------------------------------------------------
\* aifr_self reload: reloadFunc builds an engine from the disk, and only then is s.mu taken.

ReloadLoad(o) ==
  /\ reload[o] = Idle
  /\ Len(engines) + Cardinality({p \in Operators : reload[p] # Idle}) <= MaxReloads
  /\ reload' = [reload EXCEPT ![o] = [built |-> TRUE, engine |-> disk]]
  /\ UNCHANGED <<tree, edits, disk, engines, request, client, drift>>

ReloadInstall(o) ==
  /\ reload[o] # Idle
  /\ engines' = Append(engines, reload[o].engine)
  /\ reload' = [reload EXCEPT ![o] = Idle]
  /\ UNCHANGED <<tree, edits, disk, request, client, drift>>

-----------------------------------------------------------------------------
\* A client that follows tokens: a call without one, then one call per token.

Call(tool, limit, skip) ==
  /\ request = NoRequest /\ outcome # "reading"
  /\ tool # "log" => skip = 0
  /\ request' = [phase |-> "serve", tool |-> tool, limit |-> limit, skip |-> skip,
                 offset |-> 0, hash |-> 0, seen |-> Len(engines)]
  /\ chain' = <<>> /\ token' = NoToken /\ outcome' = "reading" /\ original' = {}
  /\ drift' = NoDrift
  /\ UNCHANGED <<tree, edits, disk, server>>

\* The client repeats its arguments or leaves them out.
Follow(limit, skip) ==
  /\ request = NoRequest /\ outcome = "reading" /\ token # NoToken
  /\ token.tool # "log" => skip = 0
  /\ request' = [phase |-> "decode", tool |-> token.tool, limit |-> limit, skip |-> skip,
                 offset |-> 0, hash |-> 0, seen |-> Len(engines)]
  /\ drift' = [drift EXCEPT !.reskipped = @ \/ skip > 0]
  /\ UNCHANGED <<tree, edits, disk, server, client>>

\* s.engine read without s.mu: any engine it has held since the last read, in that order.
EnginesSeen == request.seen..Len(engines)

\* Mutants: a refusal that leaves the request as it is; one that is never answered.
RefuseSilently(how) == UNCHANGED vars
RefuseUnfinished(how) ==
  /\ outcome' = how /\ token' = NoToken
  /\ UNCHANGED <<tree, edits, disk, server, request, chain, original, drift>>

\* An error answer.
Refuse(how) ==
  /\ outcome' = how /\ token' = NoToken /\ request' = NoRequest
  /\ UNCHANGED <<tree, edits, disk, server, chain, original, drift>>

\* The token's limit stands in for one that is not given; aifr_log's token overrides it.
LimitOf(arg) ==
  IF token.limit > 0 /\ (arg = 0 \/ token.tool = "log") THEN token.limit ELSE arg

\* DecodeListContinuation: every engine has drawn a key of its own.
SignedBy(tok, e) == tok.signed = e

\* decodeContinuation, and what the handler takes from the token.
Decode(e) ==
  /\ request.phase = "decode"
  /\ e \in EnginesSeen
  /\ IF ~SignedBy(token, e)
     THEN Refuse("stale")
     ELSE /\ request' = [request EXCEPT !.phase = "serve", !.seen = e, !.offset = token.offset,
                                        !.hash = token.hash, !.limit = LimitOf(request.limit)]
          /\ UNCHANGED <<tree, edits, disk, server, client, drift>>

-----------------------------------------------------------------------------
\* The pages.  Each is [entries, complete, offset, hash, limit]: the last three are for the token.

\* What a walk of the root yields under the rules of engine e: entries that fail
\* checker.Check are left out; git tools read the repository whatever the rules.
Listing(tool, e) ==
  IF tool \in FileTools THEN tree \cap Names \cap engines[e].rules ELSE tree \cap Names

CountOf(limit) == IF limit > 0 THEN limit ELSE DefaultCount

\* Mutants: the token counts one entry too many; one too few.
NextOffsetPastNext(offset, entries) == offset + Cardinality(entries) + 1
NextOffsetOnLast(offset, entries) ==
  IF entries = {} THEN offset ELSE offset + Cardinality(entries) - 1

NextOffset(offset, entries) == offset + Cardinality(entries)

OffsetPage(S, offset, entries, limit) ==
  [entries |-> entries, complete |-> offset + Cardinality(entries) >= Cardinality(S),
   offset |-> NextOffset(offset, entries), hash |-> 0, limit |-> limit]

\* Engine.List and Engine.Find: no limit, no paging.
ListPage(S, r) ==
  LET rest == Drop(S, r.offset)
  IN OffsetPage(S, r.offset, IF r.limit > 0 THEN Take(rest, r.limit) ELSE rest, r.limit)

FindPage(S, r) ==
  LET rest == Drop(S, r.offset)
  IN OffsetPage(S, r.offset, IF r.limit > 0 THEN Take(rest, r.limit) ELSE rest, r.limit)

\* The newest n lines; their number is that of all of S.
ParseReflogFile(S, n) == Take(S, n)

ReflogPage(S, r) ==
  LET count == CountOf(r.limit)
      parsed == ParseReflogFile(S, r.offset + count)
  IN OffsetPage(S, r.offset, Take(Drop(parsed, r.offset), count), count)

StashPage(S, r) ==
  LET count == CountOf(r.limit)
      parsed == ParseReflogFile(S, r.offset + count)
  IN OffsetPage(S, r.offset, Take(Drop(parsed, r.offset), count), count)

\* searchDir and searchFile stop when there are enough matches.
SearchDir(S, count) == Take(S, count)

\* Engine.Search does not look at the offset but for the next token.
SearchPage(S, r) ==
  LET count == CountOf(r.limit)
      entries == SearchDir(S, count)
  IN [entries |-> entries, complete |-> Cardinality(entries) < count,
      offset |-> r.offset + Cardinality(entries), hash |-> 0, limit |-> count]

\* Mutant: the commit the token names is delivered again.
AfterHashInclusive(S, hash) == IF hash \in S THEN {e \in S : e >= hash} ELSE S

\* Engine.Log: past the commit the token names, everything when the walk does not meet it.
AfterHash(S, hash) == IF hash \in S THEN {e \in S : e > hash} ELSE S

LogPage(S, r) ==
  LET count == CountOf(r.limit)
      kept == Drop(AfterHash(S, r.hash), r.skip)
      entries == Take(kept, count)
  IN [entries |-> entries, complete |-> Cardinality(kept) <= count, offset |-> 0,
      hash |-> IF entries = {} THEN 0 ELSE Largest(entries), limit |-> count]

PageOf(S, r) ==
  CASE r.tool = "list" -> ListPage(S, r)
    [] r.tool = "find" -> FindPage(S, r)
    [] r.tool = "search" -> SearchPage(S, r)
    [] r.tool = "log" -> LogPage(S, r)
    [] r.tool = "reflog" -> ReflogPage(S, r)
    [] r.tool = "stash_list" -> StashPage(S, r)

\* checkAccess and Stat of the root; a missing refs/stash log is an empty list.
RootAnswers(tool, e) ==
  /\ Root \in tree \/ tool = "stash_list"
  /\ tool \in FileTools => Root \in engines[e].rules

Serve(e) ==
  /\ request.phase = "serve"
  /\ e \in EnginesSeen
  /\ IF ~RootAnswers(request.tool, e)
     THEN Refuse("failed")
     ELSE LET S == Listing(request.tool, e)
              page == PageOf(S, request)
          IN /\ chain' = Append(chain, [tool |-> request.tool, entries |-> page.entries,
                                        engine |-> e])
             /\ token' = IF page.complete THEN NoToken
                         ELSE [signed |-> e, tool |-> request.tool, offset |-> page.offset,
                               limit |-> page.limit, hash |-> page.hash]
             /\ outcome' = IF page.complete THEN "done" ELSE "reading"
             /\ request' = NoRequest
             /\ IF chain = <<>>
                THEN original' = Drop(S, request.skip) /\ drift' = NoDrift
                ELSE UNCHANGED <<original, drift>>
             /\ UNCHANGED <<tree, edits, disk, server>>

-----------------------------------------------------------------------------
Init ==
  /\ tree \in {T \in SUBSET (Names \cup {Root}) : Root \in T}
  /\ edits = 0
  /\ \E r \in Rules : disk = [rules |-> r, edition |-> 0]
  /\ engines = <<disk>>
  /\ reload = [o \in Operators |-> Idle]
  /\ request = NoRequest
  /\ chain = <<>> /\ token = NoToken /\ outcome = "none" /\ original = {}
  /\ drift = NoDrift

Environment ==
  \/ \E e \in Names : Insert(e) \/ Remove(e)
  \/ RemoveRoot
  \/ \E r \in Rules : EditConfig(r)
  \/ \E o \in Operators : ReloadLoad(o) \/ ReloadInstall(o)

ClientFollows == \E l \in Limits, k \in Skips : Follow(l, k)

Server == \E e \in 1..Len(engines) : Decode(e) \/ Serve(e)

Next ==
  \/ Environment
  \/ \E t \in Tools, l \in Limits, k \in Skips : Call(t, l, k)
  \/ ClientFollows
  \/ Server

Spec == Init /\ [][Next]_vars

\* A request is served to its end and a client uses the token it holds.  Nobody need
\* start a chain, change the tree or reload.
FairSpec == Spec /\ WF_vars(Server) /\ WF_vars(ClientFollows)

-----------------------------------------------------------------------------
\* Properties

Delivered == UNION {chain[i].entries : i \in 1..Len(chain)}

Disjoint == \A i, j \in 1..Len(chain) : i # j => chain[i].entries \cap chain[j].entries = {}

\* Every page of the chain was cut under the same access rules.
SameRules ==
  \A i, j \in 1..Len(chain) : engines[chain[i].engine].rules = engines[chain[j].engine].rules

\* However the listing grows between the pages, nothing that was there from the start is
\* skipped, by an offset token (list.go:61, find.go:63, reflog.go:42) or by the hash of
\* aifr_log's (gitops.go:372).
GrowthNeverSkips ==
  (outcome = "done" /\ ~drift.shrunk /\ ~drift.reskipped /\ SameRules) =>
    original \subseteq Delivered

\* However the listing shrinks between the pages, an offset token never repeats an entry
\* (list.go:61, find.go:63, reflog.go:42); aifr_search takes the first matches whatever its
\* token says, see SearchPagesAdvance.
ShrinkingNeverRepeats ==
  (chain # <<>> /\ chain[1].tool \notin {"log", "search"} /\ ~drift.grown /\ SameRules) => Disjoint

\* aifr_log goes on after the commit its token names: commits that appear anywhere in the
\* walk between two pages do not make it repeat one (gitops.go:372).
LogGrowthNeverRepeats ==
  (chain # <<>> /\ chain[1].tool = "log" /\ ~drift.shrunk) => Disjoint

\* A chain ends in a complete page or an error: each token asks for less than the one before.
PagesEnd == (outcome = "reading") ~> (outcome # "reading")

\* search.go:29: Offset skips the first N matches, so over a tree that stays as it is the next
\* page of aifr_search holds other matches.
SearchPagesAdvance ==
  (chain # <<>> /\ chain[1].tool = "search" /\ ~drift.grown /\ ~drift.shrunk /\ SameRules) =>
    Disjoint

\* tools.go:1381: a reload that has answered "configuration reloaded successfully" stays in
\* effect: s.engine never goes back to an older configuration.
ReloadsNeverGoBack ==
  [][engines' # engines =>
       engines'[Len(engines')].edition >= engines[Len(engines)].edition]_vars
=============================================================================
