---------------------------- MODULE AccessPolicy ----------------------------
(***************************************************************************)
(* The rules aifr answers under: a configuration file is found, read and   *)
(* its patterns resolved (internal/config), the directories of $PATH are   *)
(* added (buildEngine), and a checker built from them judges each path     *)
(* (internal/accessctl).  The files and the links of the tree may change   *)
(* between the steps of a load and while its rules are in force.           *)
(*                                                                         *)
(* A path is the sequence of its names from the root; a tilde is expanded  *)
(* and "." and ".." are gone.  A pattern is its literal directory and what *)
(* follows: everything below ("**"), one level ("*") or one name; floating *)
(* patterns ("**/name") have no directory.  A pattern whose directory      *)
(* resolves to the root begins with two separators.                        *)
(***************************************************************************)
EXTENDS Integers, Sequences, FiniteSets, SequencesExt

CONSTANTS
  NameOrder,    \* every name, as strings.Compare orders them
  Trees,        \* what the file system may look like: nodes by their path
  Lower,        \* strings.ToLower on names
  RepoName,     \* deriveRepoName on names
  SecretNames,  \* names of the built-in sensitive patterns
  Configs,      \* contents of a configuration file
  PathDirs,     \* $PATH
  cwd,
  Requests,     \* paths asked for
  nil,          \* no file, no rules, no answer
  maxLinks,     \* how many links filepath.EvalSymlinks follows (255)
  maxLoads, maxEdits   \* bounds

Names == {NameOrder[n] : n \in DOMAIN NameOrder}
PathSet == Seq(Names)
Places == {"explicit", "local", "xdg", "home"}
Patterns ==
  [floating : BOOLEAN, doubled : BOOLEAN, dir : PathSet, tail : {"**", "*", "name"}, name : Names]

ASSUME TreesAssumption ==
  \A t \in Trees :
    /\ <<>> \in DOMAIN t /\ t[<<>>].kind = "dir" /\ DOMAIN t \subseteq PathSet
    /\ \A p \in DOMAIN t :
         /\ t[p].kind \in {"dir", "file", "link"} /\ t[p].to \in PathSet
         /\ p # <<>> => Front(p) \in DOMAIN t /\ t[Front(p)].kind = "dir"
ASSUME NamesAssumption ==
  /\ Lower \in [Names -> Names] /\ RepoName \in [Names -> Names] /\ SecretNames \in Seq(Names)
  /\ NameOrder \in Seq(Names) \ {<<>>} /\ cwd \in PathSet /\ PathDirs \in Seq(PathSet) /\ Requests \subseteq PathSet
ASSUME ConfigsAssumption ==
  \A c \in Configs :
    /\ c.state \in {"ok", "unparsable", "bad_pattern"} /\ c.pathReadable \in BOOLEAN
    /\ \A ps \in {c.allow, c.deny, c.creds, c.globs} : ps \in Seq({p \in Patterns : ~p.doubled})
    /\ DOMAIN c.repos \subseteq Names /\ \A r \in DOMAIN c.repos : c.repos[r] \in PathSet
ASSUME AccessBoundsAssumption == maxLinks \in Nat /\ maxLoads \in Nat /\ maxEdits \in Nat

VARIABLES
  explicit, xdgSet,  \* is --config given, is XDG_CONFIG_HOME set; never changed
  files,      \* the configuration file of each place
  tree,
  lphase,     \* where the load is
  place,      \* the file found
  conf,       \* what was read from it
  patterns,   \* its patterns, resolved
  repos,      \* Git.Repos
  rules,      \* the checker and repositories in force
  seen,       \* what each place has held since the load began
  relinked,   \* the tree has changed since the load began
  outdated,   \* and since the load of the rules in force began
  answer,     \* the last path judged
  loads, edits

input == <<explicit, xdgSet>>
load == <<lphase, place, conf, patterns, repos, loads>>
vars == <<input, files, tree, load, rules, seen, relinked, outdated, answer, edits>>

DefaultConfig ==
  [state |-> "ok", allow |-> <<>>, deny |-> <<>>, creds |-> <<>>, pathReadable |-> TRUE,
   repos |-> <<>>, globs |-> <<>>]
NoPatterns == [allow |-> <<>>, deny |-> <<>>, creds |-> <<>>]

-----------------------------------------------------------------------------
\* filepath.EvalSymlinks: the first link of a path is followed, from the root
\* again, until there is none; at a name that is missing it fails.

Failed == <<FALSE, <<>>>>
Stops(path) ==
  {n \in 1..Len(path) : SubSeq(path, 1, n) \in DOMAIN tree => tree[SubSeq(path, 1, n)].kind = "link"}
Eval[links \in 0..maxLinks] ==
  [path \in PathSet |->
    LET stop == CHOOSE n \in Stops(path) : \A m \in Stops(path) : n <= m
        p == SubSeq(path, 1, stop)
    IN IF Stops(path) = {} THEN <<TRUE, path>>
       ELSE IF p \in DOMAIN tree /\ links # 0
            THEN Eval[links - 1][tree[p].to \o SubSeq(path, stop + 1, Len(path))] ELSE Failed]
Exists(path) == Eval[maxLinks][path][1]
Real(path) == Eval[maxLinks][path][2]
IsDir(path) == Exists(path) /\ tree[Real(path)].kind = "dir"

\* ResolvePath.
ResolvePath(path) == IF Exists(path) THEN Real(path) ELSE path

\* Mutant: a pattern is kept as it is written.
ResolvePatternPrefixNever(p) == p

\* resolvePatternPrefix: the longest part of the directory that exists is
\* resolved; the root alone does not count.
ResolvePatternPrefix(p) ==
  LET existing == {n \in 1..Len(p.dir) : Exists(SubSeq(p.dir, 1, n))}
      longest == CHOOSE n \in existing : \A m \in existing : m <= n
      real == Real(SubSeq(p.dir, 1, longest))
  IN IF p.floating \/ existing = {} THEN p
     ELSE [p EXCEPT !.dir = real \o SubSeq(p.dir, longest + 1, Len(p.dir)), !.doubled = real = <<>>]
Resolve(ps) == [n \in DOMAIN ps |-> ResolvePatternPrefix(ps[n])]

\* doublestar.Match on a resolved path; of those, only the root matches "//**".
Match(p, path) ==
  CASE p.floating -> path # <<>> /\ Last(path) = p.name
    [] ~p.floating /\ p.doubled -> p.dir = <<>> /\ p.tail = "**" /\ path = <<>>
    [] ~p.floating /\ ~p.doubled /\ p.tail = "**" -> IsPrefix(p.dir, path)
    [] ~p.floating /\ ~p.doubled /\ p.tail = "*" -> path # <<>> /\ Front(path) = p.dir
    [] OTHER -> path = Append(p.dir, p.name)
MatchAny(ps, path) == \E n \in DOMAIN ps : Match(ps[n], path)

-----------------------------------------------------------------------------
\* findConfigFile.

Candidates == IF xdgSet THEN <<"local", "xdg", "home">> ELSE <<"local", "home">>
Present(c) == files[c] # nil

\* Mutant: the last candidate that is there.
FirstOfLast(cs) == CHOOSE c \in ToSet(cs) : Present(c) /\ \A n \in DOMAIN cs : Present(cs[n]) => n <= CHOOSE k \in DOMAIN cs : cs[k] = c

FirstOf(cs) ==
  CHOOSE c \in ToSet(cs) : Present(c) /\ \A n \in DOMAIN cs : Present(cs[n]) => n >= CHOOSE k \in DOMAIN cs : cs[k] = c

NothingSeen == [c \in Places |-> {}]
Unloaded ==
  /\ place' = "none" /\ conf' = DefaultConfig /\ patterns' = NoPatterns /\ repos' = <<>>
  /\ seen' = NothingSeen /\ relinked' = FALSE

\* Mutant: a failed reload ends the server.
FailExits ==
  /\ lphase' = "exited"
  /\ Unloaded
  /\ UNCHANGED <<input, files, tree, rules, outdated, answer, loads, edits>>

\* A failed load leaves the rules in force; a process that has none ends.
Fail ==
  /\ lphase' = IF rules = nil THEN "exited" ELSE "idle"
  /\ Unloaded
  /\ UNCHANGED <<input, files, tree, rules, outdated, answer, loads, edits>>

GoOn(phase) ==
  /\ lphase' = phase
  /\ UNCHANGED <<input, files, tree, rules, seen, relinked, outdated, answer, loads, edits>>

\* A command, the server when it starts, or aifr_self reload.
StartLoad ==
  /\ lphase = "idle" /\ loads < maxLoads
  /\ lphase' = "find" /\ loads' = loads + 1
  /\ seen' = [c \in Places |-> {files[c]}] /\ answer' = nil
  /\ UNCHANGED <<input, files, tree, place, conf, patterns, repos, rules, relinked, outdated, edits>>

FindExplicit ==
  /\ lphase = "find" /\ explicit
  /\ \/ ~Present("explicit") /\ Fail
     \/ Present("explicit") /\ place' = "explicit" /\ UNCHANGED <<conf, patterns, repos>> /\ GoOn("read")

FindFirst ==
  /\ lphase = "find" /\ ~explicit
  /\ UNCHANGED <<conf, patterns, repos>>
  /\ \/ /\ \E n \in DOMAIN Candidates : Present(Candidates[n])
        /\ place' = FirstOf(Candidates) /\ GoOn("read")
     \/ /\ \A n \in DOMAIN Candidates : ~Present(Candidates[n])
        /\ place' = "none" /\ GoOn("build")

\* Load: the file found may be gone, or another, when it is read.
ReadConfig ==
  /\ lphase = "read"
  /\ \/ (Present(place) => files[place].state = "unparsable") /\ Fail
     \/ /\ Present(place) /\ files[place].state # "unparsable"
        /\ conf' = files[place]
        /\ UNCHANGED <<place, patterns, repos>> /\ GoOn("resolve")

ResolvePatterns ==
  /\ lphase = "resolve"
  /\ patterns' = [allow |-> Resolve(conf.allow), deny |-> Resolve(conf.deny), creds |-> Resolve(conf.creds)]
  /\ UNCHANGED <<place, conf, repos>> /\ GoOn("repos")

\* expandReposGlob: directories in the order of their names; a name that is
\* taken stays with its first owner.
Matches(glob) ==
  FlattenSeq([n \in DOMAIN NameOrder |->
    LET p == Append(glob.dir, NameOrder[n])
    IN IF IsDir(p) /\ (glob.tail = "name" => NameOrder[n] = glob.name) THEN <<p>> ELSE <<>>])
AllMatches == FlattenSeq([n \in DOMAIN conf.globs |-> Matches(conf.globs[n])])

ExpandRepos(explicitRepos, found) ==
  [r \in DOMAIN explicitRepos \cup {RepoName[Last(found[n])] : n \in DOMAIN found} |->
     LET owners == {n \in DOMAIN found : RepoName[Last(found[n])] = r}
     IN IF r \in DOMAIN explicitRepos THEN explicitRepos[r]
        ELSE ResolvePath(found[CHOOSE n \in owners : \A m \in owners : n <= m])]

ResolveRepos ==
  /\ lphase = "repos"
  /\ repos' = ExpandRepos([r \in DOMAIN conf.repos |-> ResolvePath(conf.repos[r])], AllMatches)
  /\ UNCHANGED <<place, conf, patterns>> /\ GoOn("build")

\* PathAllowPatterns: one level of each directory of $PATH.
OneLevel(dir) ==
  [floating |-> FALSE, doubled |-> dir = <<>>, dir |-> dir, tail |-> "*", name |-> NameOrder[1]]
PathAllowPatterns ==
  FlattenSeq([n \in DOMAIN PathDirs |->
    IF IsDir(PathDirs[n]) THEN <<OneLevel(ResolvePath(PathDirs[n]))>> ELSE <<>>])

\* The built-in patterns; all that is kept of the table is that they need no directory.
SensitivePatterns ==
  [n \in DOMAIN SecretNames |->
     [floating |-> TRUE, doubled |-> FALSE, dir |-> <<>>, tail |-> "name", name |-> SecretNames[n]]]

Allow == patterns.allow \o (IF conf.pathReadable THEN PathAllowPatterns ELSE <<>>)

\* buildEngine and NewChecker.
Build ==
  /\ lphase = "build"
  /\ \/ conf.state = "bad_pattern" /\ Fail
     \/ /\ conf.state = "ok"
        /\ rules' = [sensitive |-> SensitivePatterns \o patterns.creds,
                     deny |-> patterns.deny, allow |-> Allow,
                     cwdOnly |-> Allow = <<>>, cwdAllow |-> ResolvePath(cwd),
                     repos |-> repos, from |-> place, read |-> conf]
        /\ lphase' = "idle" /\ outdated' = relinked /\ answer' = nil /\ Unloaded
        /\ UNCHANGED <<input, files, tree, loads, edits>>

-----------------------------------------------------------------------------
\* Checker.Check.

WithLowercaseBasename(path) ==
  IF path = <<>> THEN path ELSE Append(Front(path), Lower[Last(path)])
MatchesSensitive(path) ==
  MatchAny(rules.sensitive, path) \/ MatchAny(rules.sensitive, WithLowercaseBasename(path))
MatchesAllow(path) ==
  IF rules.cwdOnly THEN path = rules.cwdAllow \/ (rules.cwdAllow # <<>> /\ IsPrefix(rules.cwdAllow, path))
  ELSE MatchAny(rules.allow, path)

Verdict(path) ==
  LET resolved == ResolvePath(path)
  IN CASE MatchesSensitive(resolved) -> "sensitive"
       [] ~MatchesSensitive(resolved) /\ MatchAny(rules.deny, resolved) -> "denied"
       [] ~MatchesSensitive(resolved) /\ ~MatchAny(rules.deny, resolved) /\ MatchesAllow(resolved) -> "allowed"
       [] OTHER -> "denied"

Check(path) ==
  /\ rules # nil
  /\ answer' = [path |-> path, verdict |-> Verdict(path)]
  /\ UNCHANGED <<input, files, tree, load, rules, seen, relinked, outdated, edits>>

-----------------------------------------------------------------------------
\* The world.

Loading == lphase \notin {"idle", "exited"}

EditConfig ==
  /\ edits < maxEdits /\ edits' = edits + 1
  /\ \E c \in Places, x \in Configs \cup {nil} :
       /\ files[c] # x /\ (c = "explicit") = explicit
       /\ files' = [files EXCEPT ![c] = x]
       /\ seen' = IF Loading THEN [seen EXCEPT ![c] = @ \cup {x}] ELSE seen
  /\ UNCHANGED <<input, tree, load, rules, relinked, outdated, answer>>

\* An answer is kept only as long as the tree it was given on.
Relink ==
  /\ edits < maxEdits /\ edits' = edits + 1
  /\ tree' \in Trees \ {tree}
  /\ relinked' = Loading /\ outdated' = (rules # nil) /\ answer' = nil
  /\ UNCHANGED <<input, files, load, rules, seen>>

-----------------------------------------------------------------------------
Init ==
  /\ explicit \in BOOLEAN /\ xdgSet \in BOOLEAN
  /\ files \in [Places -> Configs \cup {nil}]
  /\ IF explicit THEN \A c \in Places \ {"explicit"} : files[c] = nil
     ELSE files["explicit"] = nil /\ (~xdgSet => files["xdg"] = nil)
  /\ tree \in Trees
  /\ lphase = "idle" /\ place = "none" /\ conf = DefaultConfig
  /\ patterns = NoPatterns /\ repos = <<>>
  /\ rules = nil /\ seen = NothingSeen /\ relinked = FALSE /\ outdated = FALSE
  /\ answer = nil /\ loads = 0 /\ edits = 0

Load == StartLoad \/ FindExplicit \/ FindFirst \/ ReadConfig \/ ResolvePatterns \/ ResolveRepos \/ Build
Next == Load \/ EditConfig \/ Relink \/ \E p \in Requests : Check(p)

Spec == Init /\ [][Next]_vars

-----------------------------------------------------------------------------
TypeOK ==
  /\ explicit \in BOOLEAN /\ xdgSet \in BOOLEAN
  /\ files \in [Places -> Configs \cup {nil}] /\ tree \in Trees
  /\ lphase \in {"idle", "find", "read", "resolve", "repos", "build", "exited"}
  /\ place \in Places \cup {"none"} /\ conf \in Configs \cup {DefaultConfig}
  /\ \A ps \in {patterns.allow, patterns.deny, patterns.creds} : \A n \in DOMAIN ps : ps[n] \in Patterns
  /\ \A c \in Places : seen[c] \subseteq Configs \cup {nil}
  /\ lphase \in {"read", "resolve", "repos"} => place # "none"
  /\ lphase = "exited" => rules = nil
  /\ answer # nil => rules # nil /\ answer.verdict \in {"allowed", "denied", "sensitive"}

\* What the rules say, in terms of the nodes of the tree: a pattern stands for
\* nodes at or below what its directory leads to, a path for the node it leads
\* to.  If a directory leads to the root, only the root itself is left.
Stands(p, node) ==
  IF p.floating THEN node # <<>> /\ Last(node) = p.name
  ELSE /\ Exists(p.dir)
       /\ Real(p.dir) = <<>> /\ p.dir # <<>> => p.tail = "**" /\ node = <<>>
       /\ CASE p.tail = "**" -> IsPrefix(Real(p.dir), node)
            [] p.tail = "*" -> node # <<>> /\ Front(node) = Real(p.dir)
            [] OTHER -> node = Append(Real(p.dir), p.name)
StandsAny(ps, node) == \E n \in DOMAIN ps : Stands(ps[n], node)
Secret(c, node) ==
  \E x \in {node, WithLowercaseBasename(node)} :
    (x # <<>> /\ Last(x) \in ToSet(SecretNames)) \/ StandsAny(c.creds, x)
InPath(node) ==
  /\ node # <<>> /\ Front(node) # <<>>
  /\ \E n \in DOMAIN PathDirs : IsDir(PathDirs[n]) /\ Real(PathDirs[n]) = Front(node)
InCwd(node) == Exists(cwd) /\ IF Real(cwd) = <<>> THEN node = <<>> ELSE IsPrefix(Real(cwd), node)
NoAllowRules(c) == c.allow = <<>> /\ (c.pathReadable => \A n \in DOMAIN PathDirs : ~IsDir(PathDirs[n]))
Allowed(c, node) ==
  \/ StandsAny(c.allow, node)
  \/ c.pathReadable /\ InPath(node)
  \/ NoAllowRules(c) /\ InCwd(node)
Meant(c, node) ==
  IF Secret(c, node) THEN "sensitive"
  ELSE IF Allowed(c, node) /\ ~StandsAny(c.deny, node) THEN "allowed" ELSE "denied"

\* A lowercased name may be that of a directory that is not there, which no
\* node is in: what a pattern with such a directory means is left open.
CredsAreThere(c) ==
  \A n \in DOMAIN c.creds : c.creds[n].floating \/ c.creds[n].tail # "**" \/ Exists(c.creds[n].dir)

\* While the links of the tree are those the rules were loaded under, every
\* path that exists gets the verdict its configuration means for the node it
\* leads to, by whatever links path and pattern are written; and each
\* repository of the configuration is where it says, each other name a
\* directory that is called so (resolvePatternPrefix, Check, expandReposGlob).
QuietRulesMeanWhatTheySay ==
  /\ answer # nil /\ ~outdated /\ Exists(answer.path) /\ CredsAreThere(rules.read) =>
       answer.verdict = Meant(rules.read, Real(answer.path))
  /\ rules # nil /\ ~outdated =>
       \A r \in DOMAIN rules.repos :
         IF r \in DOMAIN rules.read.repos THEN rules.repos[r] = ResolvePath(rules.read.repos[r])
         ELSE /\ IsDir(rules.repos[r])
              /\ \E n \in DOMAIN rules.read.globs, x \in Names :
                   RepoName[x] = r /\ IsDir(Append(rules.read.globs[n].dir, x))
                     /\ Real(Append(rules.read.globs[n].dir, x)) = rules.repos[r]

Before(p) ==
  {c \in ToSet(Candidates) : \E m, n \in DOMAIN Candidates : Candidates[m] = c /\ Candidates[n] = p /\ m < n}

\* Whatever happens to the files meanwhile, the rules a load installs are one
\* content of one file, which that file held during the load; a place before
\* it did not have a file all the time; with --config no other place counts; and
\* the defaults stand only if each place lacked a file at some time (Load,
\* findConfigFile).
RulesComeFromOneFile ==
  [][ rules' # rules =>
        LET before == IF rules'.from = "none" THEN ToSet(Candidates) ELSE Before(rules'.from)
        IN /\ explicit => rules'.from = "explicit"
           /\ \A c \in before : ~explicit => nil \in seen[c]
           /\ IF rules'.from = "none" THEN rules'.read = DefaultConfig
              ELSE rules'.read \in seen[rules'.from] /\ rules'.from \in ToSet(Candidates) \cup {"explicit"} ]_vars
=============================================================================
