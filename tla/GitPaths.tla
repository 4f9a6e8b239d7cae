------------------------------ MODULE GitPaths ------------------------------
(***************************************************************************)
(* How a path of a call leads to a blob: ref:path and repo:ref:path        *)
(* (internal/gitprovider/pathparse.go), the repository it names            *)
(* (openGitRepo, provider.go), its commit and the file in the commit's     *)
(* tree.  go-git resolves one revision; that is a function here.           *)
(*                                                                         *)
(* A text is the sequence of its parts between colons.  A part is empty,   *)
(* "." or "@", a plain name, or a path (from the root, its links resolved).*)
(***************************************************************************)
EXTENDS Integers, Sequences, FiniteSets, SequencesExt

CONSTANTS
  GitDirs,      \* repositories by their directory: [refs, origin]: names to trees
  NamedRepos,   \* Git.Repos: names to directories
  gitCwd,
  DeniedDirs    \* directories the checker refuses

Part(kind, path) == [kind |-> kind, path |-> path]
NoPart == Part("empty", <<>>)
DotPart == Part("dot", <<>>)
AtPart == Part("at", <<>>)
HeadPart == Part("name", <<"HEAD">>)
Named(n) == Part("name", <<n>>)
Dir(p) == Part("path", p)

TreesOf(d) ==
  {GitDirs[d].refs[r] : r \in DOMAIN GitDirs[d].refs} \cup {GitDirs[d].origin[r] : r \in DOMAIN GitDirs[d].origin}
ASSUME GitDirsAssumption ==
  /\ \A d \in DOMAIN GitDirs : \A t \in TreesOf(d) : \A p \in DOMAIN t : t[p].kind \in {"file", "dir"}
  /\ \A n \in DOMAIN NamedRepos : n.kind = "name"

-----------------------------------------------------------------------------
\* IsGitPath: a colon with something before it, and two for a path from the root.
IsGitPath(s) ==
  /\ Len(s) > 1 /\ s[1] # NoPart
  /\ s[1].kind = "path" => Len(s) > 2

NoGitPath == [repo |-> NoPart, ref |-> NoPart, path |-> <<>>]

\* ParseGitPath: a third colon belongs to the path; an empty ref is refused.
ParseGitPath(s) ==
  CASE Len(s) = 2 -> [repo |-> NoPart, ref |-> s[1], path |-> <<s[2]>>]
    [] Len(s) > 2 /\ s[1] # NoPart -> [repo |-> s[1], ref |-> s[2], path |-> SubSeq(s, 3, Len(s))]
    [] OTHER -> NoGitPath

-----------------------------------------------------------------------------
\* openRepoFromWalk: the nearest directory at or above that opens.
ReposAbove(dir) == {n \in 0..Len(dir) : SubSeq(dir, 1, n) \in DOMAIN GitDirs}
Nearest(dir) == {SubSeq(dir, 1, n) : n \in {k \in ReposAbove(dir) : \A m \in ReposAbove(dir) : m <= k}}

LooksLikePath(id) == id.kind \in {"path", "dot"}

\* OpenRepo: the repository opened, if one is.
OpenRepo(id) ==
  CASE id = NoPart -> Nearest(gitCwd)
    [] id # NoPart /\ id \in DOMAIN NamedRepos -> {NamedRepos[id]} \cap DOMAIN GitDirs
    [] id # NoPart /\ id \notin DOMAIN NamedRepos /\ LooksLikePath(id) -> Nearest(id.path)
    [] OTHER -> {}

\* openGitRepo: "." is the current directory; only a repository named by its
\* path is judged by the checker.
OpenGitRepo(id) ==
  LET given == IF id = DotPart THEN NoPart ELSE id
  IN {d \in OpenRepo(given) : LooksLikePath(given) => d \notin DeniedDirs}

-----------------------------------------------------------------------------
\* tryResolve on a name, and under refs/remotes/origin.
TryResolve(names, ref) == IF ref \in DOMAIN names THEN {names[ref]} ELSE {}

\* ResolveRef: the tree of the commit, if there is one.
ResolveRef(dir, ref) ==
  LET canonical == IF ref = AtPart THEN HeadPart ELSE ref
      found == TryResolve(GitDirs[dir].refs, canonical)
  IN IF found = {} /\ ref.kind = "name" THEN TryResolve(GitDirs[dir].origin, ref) ELSE found

\* RevParse: an empty ref is HEAD.
RevParse(id, ref) ==
  UNION {ResolveRef(dir, IF ref = NoPart THEN HeadPart ELSE ref) : dir \in OpenGitRepo(id)}

IsRoot(path) == path \in {<<NoPart>>, <<DotPart>>}

GetTree(s) == UNION {ResolveRef(dir, ParseGitPath(s).ref) : dir \in OpenGitRepo(ParseGitPath(s).repo)}

\* GetBlob, and tree.File: the file at the path, if there is one.
Blob(s) ==
  LET path == ParseGitPath(s).path
  IN {t[path].text : t \in {x \in GetTree(s) :
        ~IsRoot(path) /\ path \in DOMAIN x /\ x[path].kind = "file"}}

\* GitStat: the kind of what is there; ListTree fails for all but directories.
GitStat(s) ==
  LET path == ParseGitPath(s).path
  IN {IF IsRoot(path) THEN "dir" ELSE t[path].kind : t \in {x \in GetTree(s) : IsRoot(path) \/ path \in DOMAIN x}}
=============================================================================
