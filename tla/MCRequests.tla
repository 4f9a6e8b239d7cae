----------------------------- MODULE MCRequests -----------------------------
(* Requests for TLC: pairs of texts of up to four lines to compare, a tree of six paths *)
(* for cat, and a handful of calls of every other tool that meet its cases.             *)
EXTENDS Requests

CONSTANTS
  dir, sub, plain, link, other,
  here, there, inner, file, shut, topic, repo, lost

MCContents ==
  UNION {[1..n -> {<<>>, <<1>>, <<2>>}] : n \in 1..3}
    \cup { << <<1>>, <<>>, <<>>, <<2>> >>, << <<2>>, <<3>>, <<3>>, <<1>> >> }

MCPathOrder == << <<dir>>, <<dir, plain>>, <<dir, sub>>, <<dir, sub, link>>, <<dir, sub, plain>>, <<other>> >>
MCPaths == {MCPathOrder[n] : n \in DOMAIN MCPathOrder}
MCNode(kind, text, binary, to) == [kind |-> kind, text |-> text, binary |-> binary, to |-> to]
MCFile(text) == MCNode("file", text, FALSE, <<other>>)
Short == << <<1>>, <<>> >>
Long == << <<1>>, <<1, CR>>, <<2>> >>
Wide == << <<1, 2, 1, 2>>, <<>> >>
Binary == MCNode("file", << <<2>> >>, TRUE, <<other>>)
MCNewNodes ==
  {MCFile(Long), MCFile(EmptyText), Binary, MCNode("locked", EmptyText, FALSE, <<other>>),
   MCNode("none", EmptyText, FALSE, <<other>>)}
MCTrees ==
  { <<dir>> :> MCNode("dir", EmptyText, FALSE, <<other>>)
      @@ <<dir, plain>> :> first @@ <<dir, sub>> :> MCNode("dir", EmptyText, FALSE, <<other>>)
      @@ <<dir, sub, link>> :> MCNode("link", EmptyText, FALSE, <<dir, plain>>)
      @@ <<dir, sub, plain>> :> MCFile(Short) @@ <<other>> :> last :
    first \in {MCFile(Long), MCFile(Wide), Binary}, last \in {MCFile(Short), MCNode("none", EmptyText, FALSE, <<other>>)} }
MCChanging == { <<dir, plain>>, <<other>> }
MCDenied == { <<dir, sub, plain>> }

MCCall(paths, roots, type, depth, lines, total, files) ==
  [paths |-> paths, roots |-> roots, matching |-> MCPaths, type |-> type, maxDepth |-> depth,
   lines |-> lines, maxTotal |-> total, maxFiles |-> files]
MCCatCalls ==
  {MCCall(ps, <<>>, "", 0, lines, total, files) :
     ps \in { << <<dir, plain>>, <<dir, sub, plain>>, <<other>> >>,
              << <<dir>>, <<dir, sub, link>>, <<other>>, <<other>> >> },
     lines \in {0, 1}, total \in {0, 4}, files \in {0, 2}}
  \cup {MCCall(<<>>, rs, type, depth, 0, 6, 0) :
     rs \in { << <<dir>> >>, << <<dir, sub>>, <<dir>> >>, << <<other>> >> },
     type \in {"", "l", "other"}, depth \in {-1, 0, 1}}
  \cup {MCCall(<<>>, <<>>, "", 0, 0, 0, 0), MCCall(<<>>, << <<dir>> >>, "d", -1, 0, 0, 0)}
-----------------------------------------------------------------------------
\* Two repositories, one in the other, and one the checker refuses.
MCBlob(text) == [kind |-> "file", text |-> text]
MCGitTree(node) == <<Named(inner)>> :> node
MCOne == MCGitTree(MCBlob(<< <<1>>, <<SPACE, 2>>, <<>> >>))
MCTwo == MCGitTree(MCBlob(<< <<2, CONT>>, <<1>>, <<3, 3>> >>))
MCGitDirs ==
  <<here>> :> [refs |-> HeadPart :> MCOne @@ Named(topic) :> MCGitTree([kind |-> "dir", text |-> <<>>]),
               origin |-> Named(topic) :> MCOne @@ Named(inner) :> MCTwo]
  @@ <<here, there>> :> [refs |-> HeadPart :> MCTwo, origin |-> Named(topic) :> MCTwo]
  @@ <<there>> :> [refs |-> HeadPart :> MCOne, origin |-> Named(topic) :> MCOne]
MCNamedRepos == Named(repo) :> <<here, there>> @@ Named(lost) :> <<lost>>
MCCwd == <<here, inner>>
MCDeniedDirs == {<<there>>}
MCRevCalls ==
  [repo: {NoPart, DotPart, Named(repo), Named(lost), Named(topic), Dir(<<here, there, inner>>), Dir(<<there>>), Dir(<<lost>>)},
   ref: {NoPart, AtPart, HeadPart, Named(topic), Named(inner)}]

MCOnDisk == <<Dir(<<here, file>>)>>
MCShut == <<Dir(<<here, shut>>)>>
MCFiles == {MCOnDisk, MCShut}
MCRefusedFiles == {MCShut}
MCFileContents ==
  { << <<>> >>, << <<1>>, <<SPACE, 2>>, <<>> >>, << <<2, CONT>>, <<1, CR>>, <<>>, <<3>> >>, << <<1, 1, 1, 1>>, <<2>> >> }
MCBlobPaths ==
  { <<HeadPart, Named(inner)>>, <<Named(inner), Named(inner)>>, <<Named(topic), Named(inner)>>, <<AtPart, DotPart>>,
    <<Named(repo), HeadPart, Named(inner)>>, <<Dir(<<there>>), HeadPart, Named(inner)>>, <<Named(topic), NoPart, Named(inner)>> }
MCToolCall(t, algorithm, flags, offset, length, from, to, paths) ==
  [tool |-> t, algorithm |-> algorithm, flags |-> flags, offset |-> offset, length |-> length,
   start |-> from, end |-> to, paths |-> paths]
MCOnePath == {<<p>> : p \in MCFiles \cup MCBlobPaths}
MCToolCalls ==
  {MCToolCall("wc", "known", f, 0, 0, 0, 0, ps) :
     f \in {{}, {"bytes"}, {"lines", "chars"}},
     ps \in {<<>>, <<MCOnDisk>>, <<MCShut>>, <<MCOnDisk, <<HeadPart, Named(inner)>>, MCShut>>, <<<<Named(topic), Named(inner)>>, MCOnDisk>>}}
  \cup {MCToolCall("checksum", a, {}, 0, 0, 0, 0, <<MCOnDisk, <<Named(repo), HeadPart, Named(inner)>> >>) : a \in {"known", "unknown"}}
  \cup {MCToolCall("hexdump", "known", {}, o, l, 0, 0, ps) : o \in {-1, 0, 1, 4}, l \in {-1, 2, 9}, ps \in {<<MCOnDisk>>, <<<<HeadPart, Named(inner)>>>>}}
  \cup {MCToolCall("lines", "known", {}, 0, 0, s, e, ps) : s \in {-1, 0, 1, 2, 5}, e \in {0, 1, 2, 3}, ps \in {<<MCOnDisk>>, <<<<HeadPart, Named(inner)>>>>}}
  \cup {MCToolCall("stat", "known", {}, 0, 0, 0, 0, ps) : ps \in MCOnePath}
  \cup {MCToolCall(t, "known", {}, 0, 2, 1, 0, <<MCShut>>) : t \in {"checksum", "hexdump", "lines"}}
  \cup {MCToolCall("whole", "known", {}, 0, 0, 1, 0, <<p>>) : p \in MCBlobPaths}

\* Commands the hook is asked about.
MCOf(name, args) == Stage(name, args)
MCCommand(shape, stages) ==
  [statements |-> 1, control |-> FALSE, shape |-> shape, stages |-> stages, bash |-> TRUE, mcp |-> "listed"]
MCF == Name("f")
MCCounted(name) ==
  {MCOf(name, args) : args \in
     { <<>>, <<Flag("-n"), Number(2)>>, <<MCF>>, <<Flag("-n"), Number(2), MCF>>, <<Attached(2), MCF>>, <<Dash(1), MCF>>, <<Flag("-n"), Dash(1), MCF>>,
       <<Flag("-n"), Number(0), MCF>>, <<Flag("-n"), Number(1), Flag("-n"), Number(2), MCF>>, <<Flag("-f"), MCF>>,
       <<MCF, Name("g"), Flag("-n"), Number(3)>> }}
MCSed ==
  {MCOf("sed", args) : args \in
     { <<Flag("-n"), Script(1, 2), MCF>>, <<Flag("-n"), Script(2, 0), MCF>>, <<Flag("-n"), Script(2, 3), MCF>>,
       <<Flag("-n"), Script(1, 0)>>, <<Flag("-n"), Script(1, 2)>>, <<Flag("-n"), Script(2, 3)>>,
       <<Script(1, 2), MCF>>, <<Flag("-n"), Number(2), MCF>> }}
MCFirst ==
  {MCOf("cat", <<MCF>>), MCOf("cat", <<MCF, Name("g")>>), MCOf("cat", <<>>),
   MCOf("grep", <<Flag("-r"), Name("p"), Name("d")>>), MCOf("grep", <<Name("p")>>), MCOf("rg", <<Flag("-A"), Number(1), Name("p"), MCF>>),
   MCOf("find", <<Name("d"), Flag("-name"), Name("x"), Flag("-type"), MCF>>), MCOf("ls", <<Flag("-R")>>), MCOf("ls", <<Name("d")>>),
   MCOf("wc", <<Flag("-l"), MCF>>), MCOf("stat", <<MCF>>), MCOf("xxd", <<>>), MCOf("od", <<MCF>>),
   MCOf("diff", <<MCF, Name("g")>>), MCOf("diff", <<MCF>>), MCOf("shasum", <<Flag("-a"), Number(256), MCF>>), MCOf("md5sum", <<MCF>>),
   MCOf("git", <<Name("log"), Flag("-n"), Number(3)>>), MCOf("git", <<Name("log"), Flag("--oneline"), MaxCount(2), Name("r")>>),
   MCOf("git", <<Name("diff"), Name("r"), Name("s")>>), MCOf("git", <<Name("push")>>), MCOf("make", <<>>)}
MCStages == MCCounted("head") \cup MCCounted("tail") \cup MCSed \cup MCFirst
MCHookCalls ==
  {MCCommand("call", <<s>>) : s \in MCStages}
    \cup {MCCommand("pipe", <<s, t>>) : s \in MCStages, t \in MCCounted("head") \cup MCCounted("tail") \cup MCSed \cup {MCOf("wc", <<>>)}}
    \cup {MCCommand("pipe", <<MCOf("cat", <<MCF>>), MCOf("head", <<>>), MCOf("tail", <<>>)>>)}
    \cup {[MCCommand(shape, <<MCOf("cat", <<MCF>>)>>) EXCEPT !.statements = n, !.bash = bash, !.control = control, !.mcp = "none"] :
            shape \in {"call", "and_or", "compound", "unparsable"}, n \in 0..2, bash \in BOOLEAN, control \in BOOLEAN}
MCHookTexts ==
  { << <<1>>, <<2>>, <<3>>, <<>> >>, << <<1>>, <<>>, <<2>>, <<3>> >>, << <<>> >>, << <<1>>, <<2>>, <<1>>, <<2>>, <<1>>, <<2>>,
       <<1>>, <<2>>, <<1>>, <<2>>, <<3>>, <<>> >> }

\* Configuration files of git.
MCOk(settings) == [state |-> "ok", settings |-> settings]
MCNo(state) == [state |-> state, settings |-> <<>>]
MCUser(v) == Setting("user", <<>>, "name", v)
MCInclude(f) == Setting("include", <<>>, "path", f)
MCIncludeIf(c, f) == Setting("includeif", <<c>>, "path", f)
MCWorktrees == Setting("extensions", <<>>, "worktreeconfig", "true")
MCRemote(name) == Setting("remote", <<name>>, "url", name)
MCLocals ==
  {MCOk(<<MCUser("l"), MCInclude("inc")>>), MCOk(<<MCWorktrees, MCUser("l"), MCRemote("O")>>), MCNo("unparsable"),
   MCOk(<<MCIncludeIf("gitdir:r/", "inc"), MCIncludeIf("gitdir:R/", "deep"), MCIncludeIf("onbranch:", "deep")>>)}
MCConditions == {"gitdir:r/", "gitdir:R/", "gitdir/i:~/R/", "gitdir:~/w/", "gitdir:w", "gitdir:r/.git", "gitdir:/w/", "gitdir:/r/", "gitdir:./r/"}
MCConditionals ==
  {MCOk(<<MCUser("l"), MCIncludeIf(c, "inc"), MCWorktrees>>) : c \in MCConditions}
    \cup {MCOk(<<MCIncludeIf(c, "inc"), MCUser("l")>>) : c \in MCConditions}
MCNone == MCNo("missing")
MCGlobals ==
  {<<MCNone, MCNone>>, <<MCOk(<<MCInclude("inc"), MCUser("g")>>), MCNone>>,
   <<MCOk(<<MCUser("g"), Setting("core", <<>>, "path", "p"), MCUser("h")>>), MCNone>>,
   <<MCNone, MCOk(<<MCUser("h"), MCRemote("o")>>)>>, <<MCOk(<<MCUser("g")>>), MCOk(<<MCUser("h")>>)>>}
MCIncluded == {MCOk(<<MCUser("i"), MCInclude("deep")>>), MCOk(<<MCInclude("inc"), MCUser("i")>>), MCNone}
MCConfigs(systems, globals, locals, included) ==
  {[system |-> s, global1 |-> g[1], global2 |-> g[2], local |-> l, worktree |-> w, inc |-> inc, deep |-> d] :
     s \in systems, g \in globals, l \in locals,
     w \in {MCNone, MCOk(<<MCUser("w"), Setting("branch", <<"b">>, "merge", "m")>>)},
     inc \in included, d \in {MCOk(<<MCUser("d")>>), MCNo("unparsable")}}
MCConfigTrees ==
  MCConfigs({MCOk(<<MCUser("s")>>), MCNone}, MCGlobals, MCLocals, MCIncluded)
    \cup MCConfigs({MCNone}, {<<MCNone, MCNone>>}, MCConditionals, {MCOk(<<MCUser("i"), MCInclude("deep")>>)})
MCGlobalFiles == <<"global1", "global2">>
MCGitDir == <<"w", "r", ".git">>
MCHome == <<"w">>
MCLower == [R |-> "r", O |-> "o"]
MCPattern(from, names, slash, ignore) == [start |-> from, names |-> names, slash |-> slash, ignoreCase |-> ignore]
MCPatterns ==
  <<"gitdir:r/">> :> MCPattern("any", <<"r">>, TRUE, FALSE) @@ <<"gitdir:R/">> :> MCPattern("any", <<"R">>, TRUE, FALSE)
  @@ <<"gitdir:/w/">> :> MCPattern("root", <<"w">>, TRUE, FALSE) @@ <<"gitdir:/r/">> :> MCPattern("root", <<"r">>, TRUE, FALSE)
  @@ <<"gitdir:./r/">> :> MCPattern("here", <<"r">>, TRUE, FALSE)
  @@ <<"gitdir/i:~/R/">> :> MCPattern("home", <<"R">>, TRUE, TRUE) @@ <<"gitdir:~/w/">> :> MCPattern("home", <<"w">>, TRUE, FALSE)
  @@ <<"gitdir:w">> :> MCPattern("any", <<"w">>, FALSE, FALSE) @@ <<"gitdir:r/.git">> :> MCPattern("any", <<"r", ".git">>, FALSE, FALSE)
MCSensitive == {<<"core">>}
MCKey == <<"user", "name">>
MCAsk(scope, mode, no) == [scope |-> scope, mode |-> mode, key |-> MCKey, matching |-> {MCKey, <<"core", "path">>}, noRedact |-> no]
MCConfigCalls ==
  {MCAsk("merged", "key", no) : no \in BOOLEAN}
    \cup {MCAsk(scope, mode, TRUE) : scope \in {"", "global", "system", "other"}, mode \in {"list", "identity"}}
    \cup {MCAsk("merged", mode, FALSE) : mode \in {"regexp", "remotes", "branches", "unknown", "none"}}
    \cup {[MCAsk("merged", "key", TRUE) EXCEPT !.key = <<"remote", name, "url">>] : name \in {"o", "O"}}
    \cup {[MCAsk("local", "section", FALSE) EXCEPT !.key = <<"user">>]}

\* Directories to look a command up in.
MCDirNames == [bin |-> "bin", link |-> "bin", sbin |-> "sbin", shut |-> "shut"]
MCDirFiles ==
  [bin |-> <<NamedFile("a", TRUE), NamedFile("b", TRUE)>>, sbin |-> <<NamedFile("a", FALSE), NamedFile("b", TRUE), Vanishing("c")>>]
MCDeniedFiles == {<<"bin", "b">>}
MCEnvironment == [PATH |-> <<"bin", "sbin">>]
MCSpec(kind, name, dirs) == [kind |-> kind, name |-> name, dirs |-> dirs]
MCLookupCalls ==
  {[named |-> TRUE, matching |-> m, spec |-> MCSpec("dirlist", "", dirs)] :
     m \in {{"a"}, {"a", "b", "c"}}, dirs \in UNION {[1..n -> DOMAIN MCDirNames] : n \in 0..3}}
  \cup {[named |-> named, matching |-> {"a"}, spec |-> MCSpec(kind, name, <<>>)] :
     named \in BOOLEAN, kind \in {"", "envvar", "other"}, name \in {"PATH", "UNSET"}}

\* Listings to sort: v9, v10, v09, v, v10.x and a number that does not fit.
MCEntries ==
  {ListEntry(1, 3, <<Text(5), Digits(9, 4)>>, 1, 1), ListEntry(2, 2, <<Text(5), Digits(10, 2)>>, 1, 2),
   ListEntry(3, 1, <<Text(5), Digits(9, 1)>>, 2, 1), ListEntry(4, 3, <<Text(5)>>, 2, 3),
   ListEntry(5, 5, <<Text(5), Digits(10, 2), Text(0)>>, 3, 3), ListEntry(6, 4, <<Text(5), Digits(11, 3)>>, 1, 1)}
MCListings == UNION {{s \in [1..n -> MCEntries] : IsInjective(s)} : n \in 0..3}
MCSortCalls == [order: SortOrders, descending: BOOLEAN, of: {"list", "find"}, entries: MCListings]
=============================================================================
