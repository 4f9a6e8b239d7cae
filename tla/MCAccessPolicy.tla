--------------------------- MODULE MCAccessPolicy ---------------------------
(* AccessPolicy for TLC: three directories and a link that leads to two of them
   or to the root. *)
EXTENDS AccessPolicy, TLC

CONSTANTS this, that, link, file, upper, secret, repo, gone

MCNameOrder == <<this, that, link, file, upper, secret, repo, gone>>
MCDirNode == [kind |-> "dir", to |-> <<>>]
MCFileNode == [kind |-> "file", to |-> <<>>]
MCLinkNode(to) == [kind |-> "link", to |-> to]
MCTree(target) ==
  <<>> :> MCDirNode @@ <<this>> :> MCDirNode @@ <<that>> :> MCDirNode @@ <<repo>> :> MCDirNode
    @@ <<link>> :> MCLinkNode(target)
    @@ <<this, file>> :> MCFileNode @@ <<this, secret>> :> MCFileNode
    @@ <<that, file>> :> MCLinkNode(<<link, file>>)
    @@ <<that, upper>> :> MCFileNode @@ <<repo, file>> :> MCFileNode
MCTrees == {MCTree(<<this>>), MCTree(<<that>>), MCTree(<<>>)}

MCLower == [n \in {MCNameOrder[k] : k \in DOMAIN MCNameOrder} |-> IF n = upper THEN file ELSE n]
MCRepoName == [n \in {MCNameOrder[k] : k \in DOMAIN MCNameOrder} |-> IF n = repo THEN this ELSE n]

MCBelow(dir) == [floating |-> FALSE, doubled |-> FALSE, dir |-> dir, tail |-> "**", name |-> gone]
MCIn(dir) == [floating |-> FALSE, doubled |-> FALSE, dir |-> dir, tail |-> "*", name |-> gone]
MCOne(dir, n) == [floating |-> FALSE, doubled |-> FALSE, dir |-> dir, tail |-> "name", name |-> n]
MCAny(n) == [floating |-> TRUE, doubled |-> FALSE, dir |-> <<>>, tail |-> "name", name |-> n]
MCConfig(state, allow, deny, creds, pathReadable, rs, globs) ==
  [state |-> state, allow |-> allow, deny |-> deny, creds |-> creds,
   pathReadable |-> pathReadable, repos |-> rs, globs |-> globs]
MCConfigs ==
  { MCConfig("ok", <<MCBelow(<<link>>), MCBelow(<<repo, file>>)>>, <<MCOne(<<this>>, file)>>, <<>>, FALSE, this :> <<link>>, <<MCIn(<<>>)>>),
    MCConfig("ok", <<MCBelow(<<link, gone>>), MCBelow(<<>>)>>, <<MCIn(<<link>>)>>, <<MCAny(file)>>, TRUE, <<>>, <<MCIn(<<>>)>>),
    MCConfig("ok", <<>>, <<MCOne(<<link>>, upper)>>, <<>>, FALSE, <<>>, <<>>),
    MCConfig("bad_pattern", <<>>, <<>>, <<>>, TRUE, <<>>, <<>>),
    MCConfig("unparsable", <<>>, <<>>, <<>>, TRUE, <<>>, <<>>) }

MCSecretNames == <<secret>>
MCPathDirs == << <<link>>, <<gone>>, <<repo>> >>
MCCwd == <<that>>
MCRequests ==
  { <<this, secret>>, <<link, file>>, <<that, file>>, <<that, upper>>,
    <<repo, file>>, <<gone, file>> }
=============================================================================
