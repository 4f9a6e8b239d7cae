------------------------------ MODULE GitConfig ------------------------------
(***************************************************************************)
(* aifr_git_config (internal/engine/gitconfig.go): the entries of one      *)
(* configuration file of git, or of all of them with their includes, and   *)
(* the queries on those.                                                   *)
(*                                                                         *)
(* A file is the sequence of its settings.  A key is the sequence of its   *)
(* parts between dots: a section, a subsection in one part or more, a name.*)
(* Sections and names are in lower case, subsections as they are written.  *)
(* The value of an include is a file.  Type coercion of values, and the    *)
(* wildcards of a gitdir: pattern other than its ** at either end, are     *)
(* left out.                                                               *)
(***************************************************************************)
EXTENDS FiniteSets, Lists

CONSTANTS
  ConfigTrees,      \* what the configuration files may hold, by path
  ConfigCalls,
  SystemFile, GlobalFiles, LocalFile, WorktreeFile,
  Patterns,         \* every gitdir: and gitdir/i: condition to its pattern
  gitDir, home,     \* the paths of the git directory and of the home directory
  Lower,            \* the names that are not in lower case to what they are there
  Sensitive,        \* beginnings of keys whose values are redacted
  redacted,
  maxIncludeDepth

Include == "include"
IncludeIf == "includeif"
PathKey == "path"
Setting(section, sub, name, value) == [section |-> section, sub |-> sub, name |-> name, value |-> value]
KeyOf(s) == <<s.section>> \o s.sub \o <<s.name>>

ConfigPaths == UNION {DOMAIN t : t \in ConfigTrees}
Settings == [section : STRING, sub : Seq(STRING), name : STRING, value : STRING]
Includes(s) == s.section \in {Include, IncludeIf} /\ s.name = PathKey
ASSUME ConfigTreesAssumption ==
  \A t \in ConfigTrees :
    /\ "" \notin DOMAIN t
    /\ DOMAIN t \subseteq STRING /\ {SystemFile, LocalFile, WorktreeFile} \cup ToSet(GlobalFiles) \subseteq DOMAIN t
    /\ \A p \in DOMAIN t :
         /\ t[p].state \in {"ok", "missing", "unparsable"} /\ t[p].settings \in Seq(Settings)
         /\ \A n \in DOMAIN t[p].settings : Includes(t[p].settings[n]) => t[p].settings[n].value \in DOMAIN t
ASSUME ConfigCallsAssumption ==
  \A c \in ConfigCalls :
    /\ c.scope \in {"", "local", "global", "system", "merged", "other"}
    /\ c.mode \in {"key", "regexp", "section", "list", "identity", "remotes", "branches", "unknown", "none"}
    /\ c.key \in Seq(STRING) /\ c.key # <<>> /\ c.noRedact \in BOOLEAN
ASSUME ConfigBoundsAssumption ==
  /\ maxIncludeDepth \in Nat
  /\ GlobalFiles \in Seq(STRING) /\ GlobalFiles # <<>>
ASSUME PatternsAssumption ==
  /\ <<>> \notin DOMAIN Patterns
  /\ \A c \in DOMAIN Patterns :
       /\ Patterns[c].start \in {"root", "home", "here", "any"}   \* /x, ~/x, ./x or x
       /\ Patterns[c].names \in Seq(STRING) /\ Patterns[c].slash \in BOOLEAN /\ Patterns[c].ignoreCase \in BOOLEAN
  /\ gitDir \in Seq(STRING) /\ home \in Seq(STRING)
  /\ DOMAIN Lower \subseteq STRING /\ \A name \in DOMAIN Lower : Lower[name] \in STRING

-----------------------------------------------------------------------------

Loaded(entries, skipped) == [ok |-> TRUE, entries |-> entries, skipped |-> skipped]
NoEntries == Loaded(<<>>, <<>>)
Unloadable(why) == [ok |-> FALSE, entries |-> <<>>, skipped |-> <<>>, why |-> why]
Joined(parts) ==
  Loaded(Flat([n \in DOMAIN parts |-> parts[n].entries]), Flat([n \in DOMAIN parts |-> parts[n].skipped]))
SettingEntry(s, scope, file) == [key |-> KeyOf(s), value |-> s.value, scope |-> scope, source |-> file]
Note(why, what) == [why |-> why, what |-> what]

\* go-git's decoder: settings of one section, and in it of one subsection,
\* come together where the first of them is.
OpensSection(settings, n) == \A m \in 1..(n - 1) : settings[m].section # settings[n].section
OpensSubsection(settings, n) ==
  /\ settings[n].sub # <<>>
  /\ \A m \in 1..(n - 1) : settings[m].section = settings[n].section => settings[m].sub # settings[n].sub
Options(settings, section, sub, scope, file) ==
  Flat([n \in DOMAIN settings |->
    IF settings[n].section = section /\ settings[n].sub = sub THEN <<SettingEntry(settings[n], scope, file)>> ELSE <<>>])
Entries(settings, section, scope, file) ==
  Options(settings, section, <<>>, scope, file)
    \o Flat([n \in DOMAIN settings |->
         IF settings[n].section = section /\ OpensSubsection(settings, n)
         THEN Options(settings, section, settings[n].sub, scope, file) ELSE <<>>])

IncludesAlways(s) == s.section = Include /\ s.sub = <<>> /\ s.name = PathKey
ConditionOpens(settings, n) == settings[n].section = IncludeIf /\ OpensSubsection(settings, n)

\* loadConfigFile: includes are noted, and listed with the other entries.
LoadFile(file, scope, tree) ==
  LET settings == tree[file].settings
      noted(section) ==
        Flat([n \in DOMAIN settings |->
          CASE section = Include /\ IncludesAlways(settings[n]) -> <<Note("include", settings[n].value)>>
            [] section = IncludeIf /\ ConditionOpens(settings, n) -> <<Note("includeIf", settings[n].sub)>>
            [] OTHER -> <<>>])
      part(section) == Loaded(Entries(settings, section, scope, file), noted(section))
  IN IF tree[file].state # "ok" THEN Unloadable(tree[file].state)
     ELSE Joined([n \in DOMAIN settings |-> IF OpensSection(settings, n) THEN part(settings[n].section) ELSE NoEntries])

\* strings.ToLower, name by name.
Lowered(names) == [n \in DOMAIN names |-> IF names[n] \in DOMAIN Lower THEN Lower[names[n]] ELSE names[n]]

\* Mutant: no **/ before a pattern that is not absolute.
PreparedAsWritten(p) ==
  [names |-> IF p.start = "home" THEN home \o p.names ELSE p.names, before |-> FALSE, after |-> p.slash]

\* matchesGitDir: the pattern once ~ is expanded and a ** stands before it and
\* after it; "." is a name like any other.
Prepared(p) ==
  [names |-> CASE p.start = "home" -> home \o p.names
               [] p.start = "here" -> <<".">> \o p.names
               [] OTHER -> p.names,
   before |-> p.start \in {"here", "any"}, after |-> p.slash]

\* doublestar.Match; it is tried with a slash after the path as well, so that
\* the ** at the end may stand for no name.
Glob(names, before, after, path) ==
  \E at \in 0..(Len(path) - Len(names)) :
    /\ (before \/ at = 0) /\ (after \/ at + Len(names) = Len(path))
    /\ \A k \in 1..Len(names) : names[k] = path[at + k]
MatchesGitDir(p) ==
  LET pattern == Prepared(p)
      cased(names) == IF p.ignoreCase THEN Lowered(names) ELSE names
  IN Glob(cased(pattern.names), pattern.before, pattern.after, cased(gitDir))

\* matchesIncludeCondition and isSupportedCondition.
Matches(condition) == condition \in DOMAIN Patterns /\ MatchesGitDir(Patterns[condition])
IsSupported(condition) == condition \in DOMAIN Patterns

\* loadConfigWithIncludes, of one file when those it includes are loaded.
Included(file, loaded) ==
  LET r == loaded[file] IN IF r.ok THEN r ELSE Loaded(<<>>, <<Note("unreadable", file)>>)
Conditional(settings, sub, loaded) ==
  LET paths == {n \in DOMAIN settings : settings[n].section = IncludeIf /\ settings[n].sub = sub /\ settings[n].name = PathKey}
  IN CASE paths = {} -> NoEntries
       [] paths # {} /\ Matches(sub) -> Included(settings[Max(paths)].value, loaded)
       [] OTHER -> Loaded(<<>>, IF IsSupported(sub) THEN <<>> ELSE <<Note("includeIf", sub)>>)
LoadSection(settings, section, scope, file, loaded) ==
  CASE section = Include ->
         Joined([n \in DOMAIN settings |->
           IF IncludesAlways(settings[n]) THEN Included(settings[n].value, loaded) ELSE NoEntries])
    [] section = IncludeIf ->
         Joined([n \in DOMAIN settings |->
           IF ConditionOpens(settings, n) THEN Conditional(settings, settings[n].sub, loaded) ELSE NoEntries])
    [] OTHER -> Loaded(Entries(settings, section, scope, file), <<>>)
LoadWith(file, scope, tree, loaded) ==
  LET settings == tree[file].settings
  IN IF tree[file].state # "ok" THEN Unloadable(tree[file].state)
     ELSE Joined([n \in DOMAIN settings |->
            IF OpensSection(settings, n) THEN LoadSection(settings, settings[n].section, scope, file, loaded) ELSE NoEntries])
LoadWithIncludes(top, scope, tree) ==
  LET load[depth \in 0..(maxIncludeDepth + 1)] ==
        [file \in DOMAIN tree |->
          IF depth > maxIncludeDepth THEN Loaded(<<>>, <<Note("depth", file)>>)
          ELSE LoadWith(file, IF depth = 0 THEN scope ELSE Include, tree, load[depth + 1])]
  IN load[0][top]

\* globalConfigPath: the first candidate that exists, or the last.
GlobalFile(tree) ==
  LET existing == {n \in DOMAIN GlobalFiles : tree[GlobalFiles[n]].state # "missing"}
  IN IF existing = {} THEN Last(GlobalFiles) ELSE GlobalFiles[Min(existing)]

Merged(tree) ==
  << LoadFile(SystemFile, "system", tree), LoadWithIncludes(GlobalFile(tree), "global", tree),
     LoadWithIncludes(LocalFile, "local", tree), LoadFile(WorktreeFile, "worktree", tree) >>

\* loadGitConfig: a missing file is empty; merged passes over any that fails.
LoadAll(tree) == Joined([n \in 1..4 |-> IF Merged(tree)[n].ok THEN Merged(tree)[n] ELSE NoEntries])
Load(scope, tree) ==
  LET one(file) == LET r == LoadFile(file, scope, tree)
                   IN IF ~r.ok /\ r.why = "missing" THEN NoEntries ELSE r
  IN CASE scope = "system" -> one(SystemFile)
       [] scope = "global" -> one(GlobalFile(tree))
       [] scope = "local" -> one(LocalFile)
       [] scope = "merged" -> LoadAll(tree)
       [] OTHER -> Unloadable("scope")

-----------------------------------------------------------------------------
\* structuredConfigQuery.
LastOf(entries, key) ==
  LET found == {n \in DOMAIN entries : entries[n].key = key} IN IF found = {} THEN <<>> ELSE <<entries[Max(found)]>>
IdentityKeys ==
  Flat([n \in 1..3 |-> LET who == <<"user", "author", "committer">>[n] IN << <<who, "name">>, <<who, "email">> >>])
Identity(entries) == Flat([n \in DOMAIN IdentityKeys |-> LastOf(entries, IdentityKeys[n])])

\* The name of a remote or branch is what lies between the first two dots, the
\* field what follows the second; names come in any order.
Field(e) == SubSeq(e.key, 3, Len(e.key))
About(entries, section) == SelectSeq(entries, LAMBDA e : e.key[1] = section /\ Len(e.key) >= 3)
NamesIn(entries) == SetToSeq({entries[n].key[2] : n \in DOMAIN entries})
Remotes(entries) ==
  LET about == About(entries, "remote")
      of(name, field) == SelectSeq(about, LAMBDA e : e.key[2] = name /\ Field(e) = <<field>>)
  IN Flat([n \in DOMAIN NamesIn(about) |->
       of(NamesIn(about)[n], "url") \o of(NamesIn(about)[n], "fetch") \o of(NamesIn(about)[n], "pushurl")])
Branches(entries) ==
  LET about == About(entries, "branch")
      keys == SetToSeq({about[n].key : n \in DOMAIN about})
  IN Flat([n \in DOMAIN keys |-> LastOf(about, keys[n])])

\* strings.EqualFold: the case of subsections makes no difference either.
FoldedKey(key) == [n \in DOMAIN key |-> IF n \in {1, Len(key)} THEN key[n] ELSE Lowered(key)[n]]
EqualFold(key, other) == FoldedKey(key) = FoldedKey(other)
KeyEntries(entries, key) ==
  LET found == {n \in DOMAIN entries : EqualFold(entries[n].key, key)}
  IN IF found = {} THEN <<>> ELSE <<entries[Max(found)]>>

Matching(entries, keys) == SelectSeq(entries, LAMBDA e : e.key \in keys)
InSection(entries, section) == SelectSeq(entries, LAMBDA e : IsStrictPrefix(Lowered(section), Lowered(e.key)))

Filtered(c, entries) ==
  CASE c.mode = "key" -> KeyEntries(entries, c.key)
    [] c.mode = "regexp" -> Matching(entries, c.matching)
    [] c.mode = "section" -> InSection(entries, c.key)
    [] c.mode = "list" -> entries
    [] c.mode = "identity" -> Identity(entries)
    [] c.mode = "remotes" -> Remotes(entries)
    [] OTHER -> Branches(entries)

IsStructured(c) == c.mode \in {"identity", "remotes", "branches", "unknown"}
Redacts(c, e) == ~IsStructured(c) /\ ~c.noRedact /\ \E p \in Sensitive : IsPrefix(p, e.key)

\* GitConfig: the local file is the default, and for an identity all of them.
ScopeOf(c) ==
  CASE c.mode = "identity" /\ c.scope \in {"", "local"} -> "merged"
    [] c.mode # "identity" /\ c.scope = "" -> "local"
    [] OTHER -> c.scope

ConfigAnswer(c, tree) ==
  LET loaded == Load(ScopeOf(c), tree)
      found == Filtered(c, loaded.entries)
  IN IF ~loaded.ok \/ c.mode \in {"none", "unknown"} THEN [failed |-> TRUE]
     ELSE [failed |-> FALSE, skipped |-> loaded.skipped,
           entries |-> [n \in DOMAIN found |->
              IF Redacts(c, found[n]) THEN [found[n] EXCEPT !.value = redacted] ELSE found[n]],
           redactedKeys |-> Cardinality({n \in DOMAIN found : Redacts(c, found[n])})]

-----------------------------------------------------------------------------
(* What git reads, by its manual: settings in the order they are written,   *)
(* an include's where it is included.                                       *)

\* A gitdir: condition holds if the git directory, or with a slash at its end a
\* directory that one lies in, is at the path it gives, or has a path that ends
\* with it.
Above(path) == {SubSeq(path, 1, n) : n \in 0..Len(path)}
EndsIn(path, names) == \E n \in 1..(Len(path) + 1) : SubSeq(path, n, Len(path)) = names
GitHolds(p) ==
  LET cased(names) == IF p.ignoreCase THEN Lowered(names) ELSE names
      dirs == IF p.slash THEN Above(cased(gitDir)) ELSE {cased(gitDir)}
  IN \E d \in dirs :
       \/ p.start = "root" /\ d = cased(p.names)
       \/ p.start = "home" /\ d = cased(home \o p.names)
       \/ p.start = "any" /\ EndsIn(d, cased(p.names))
Holding == {c \in DOMAIN Patterns : GitHolds(Patterns[c])}

GitFollows(s) == IncludesAlways(s) \/ (s.section = IncludeIf /\ s.sub \in Holding /\ s.name = PathKey)
GitSetting(s) == [key |-> KeyOf(s), value |-> s.value]
ReadWith(settings, read) ==
  Flat([n \in DOMAIN settings |-> IF GitFollows(settings[n]) THEN read[settings[n].value] ELSE <<GitSetting(settings[n])>>])
ReadsInPlace(top, tree) ==
  LET read[depth \in 0..(maxIncludeDepth + 1)] ==
        [file \in DOMAIN tree |->
          IF depth > maxIncludeDepth \/ tree[file].state # "ok" THEN <<>> ELSE ReadWith(tree[file].settings, read[depth + 1])]
  IN read[0][top]

\* config.worktree is read only with an extension that the repository's own
\* file switches on.
WorktreeConfigured(tree) ==
  LET settings == tree[LocalFile].settings
      at == {n \in DOMAIN settings : KeyOf(settings[n]) = <<"extensions", "worktreeconfig">>}
  IN tree[LocalFile].state = "ok" /\ at # {} /\ settings[Max(at)].value = "true"
GitReads(tree) ==
  Flat(<< ReadsInPlace(SystemFile, tree), Flat([n \in DOMAIN GlobalFiles |-> ReadsInPlace(GlobalFiles[n], tree)]),
          ReadsInPlace(LocalFile, tree), IF WorktreeConfigured(tree) THEN ReadsInPlace(WorktreeFile, tree) ELSE <<>> >>)

\* Sections written in one piece; conditions with one path, whose pattern is
\* not relative to the file it stands in.
Straight(settings) ==
  /\ \A m, n \in DOMAIN settings : m < n /\ settings[m].section = settings[n].section =>
       \A k \in m..n : settings[k].section = settings[m].section
  /\ \A m, n \in DOMAIN settings : m < n /\ settings[m].section = IncludeIf /\ settings[n].section = IncludeIf =>
       settings[m].sub # settings[n].sub
  /\ \A n \in DOMAIN settings : settings[n].section = IncludeIf /\ settings[n].sub \in DOMAIN Patterns =>
       Patterns[settings[n].sub].start # "here"

\* Not two global files, of which git reads both; no config.worktree that git
\* passes over; no file that git would refuse.
Ordinary(tree) ==
  /\ \A f \in DOMAIN tree : Straight(tree[f].settings)
  /\ \A m, n \in DOMAIN GlobalFiles :
       m # n => tree[GlobalFiles[m]].state = "missing" \/ tree[GlobalFiles[n]].state = "missing"
  /\ WorktreeConfigured(tree) \/ tree[WorktreeFile].state = "missing"
  /\ \A f \in {SystemFile, LocalFile, WorktreeFile} \cup ToSet(GlobalFiles) : tree[f].state # "unparsable"

\* No setting has the key but for the case of its subsection.
OneSpelling(tree, key) ==
  \A n \in DOMAIN GitReads(tree) : EqualFold(GitReads(tree)[n].key, key) => GitReads(tree)[n].key = key

\* A merged answer for a key that reports no include it has skipped is the
\* value git itself would use, or its redaction, however files include one
\* another and whatever their gitdir: conditions are (loadGitConfig,
\* loadConfigWithIncludes, matchesGitDir, KeyEntries).  Left out are the files
\* that are not Ordinary, keys in two spellings, and the keys of includes: of
\* those the answer may differ from git's, and nothing says so.
UnnotedConfigIsGits(c, tree, answer) ==
  LET meant == LastOf(GitReads(tree), c.key)
  IN /\ ScopeOf(c) = "merged" /\ c.mode = "key" /\ c.key[1] \notin {Include, IncludeIf}
     /\ answer.skipped = <<>> /\ Ordinary(tree) /\ OneSpelling(tree, c.key)
     => IF meant = <<>> THEN answer.entries = <<>>
        ELSE /\ Len(answer.entries) = 1
             /\ answer.entries[1].value = IF Redacts(c, meant[1]) THEN redacted ELSE meant[1].value
=============================================================================
