------------------------------ MODULE Pathfind ------------------------------
(***************************************************************************)
(* aifr_pathfind (internal/engine/pathfind.go): the files a command name   *)
(* stands for in a list of directories, and which of them comes first.     *)
(*                                                                         *)
(* A name of a directory leads to the directory it resolves to; a          *)
(* directory is the sequence of its files by name.  A command, plain or a  *)
(* glob, is the set of the names it matches.                               *)
(***************************************************************************)
EXTENDS Integers, Sequences, FiniteSets, SequencesExt

CONSTANTS
  DirNames,      \* names of directories, to the directory they resolve to
  DirFiles,      \* readable directories to their files; others cannot be read
  DeniedFiles,   \* <<directory, name>> the checker refuses
  Environment,   \* variables to the names of directories they list
  LookupCalls

NamedFile(name, executable) == [name |-> name, executable |-> executable, gone |-> FALSE]
Vanishing(name) == [name |-> name, executable |-> TRUE, gone |-> TRUE]

ASSUME LookupCallsAssumption ==
  /\ \A c \in LookupCalls :
       /\ c.named \in BOOLEAN
       /\ c.spec.kind \in {"", "envvar", "dirlist", "other"}
       /\ c.spec.kind = "dirlist" => c.spec.dirs \in Seq(DOMAIN DirNames)
  /\ \A v \in DOMAIN Environment : Environment[v] \in Seq(DOMAIN DirNames)
ASSUME DirFilesAssumption ==
  \A d \in DOMAIN DirFiles :
    /\ DirFiles[d] \in Seq([name : STRING, executable : BOOLEAN, gone : BOOLEAN])
    /\ \A m, n \in DOMAIN DirFiles[d] : m # n => DirFiles[d][m].name # DirFiles[d][n].name

-----------------------------------------------------------------------------
\* parseSearchList; PATH is the default, and an empty list is refused.
ParseSearchList(spec) ==
  CASE spec.kind = "dirlist" -> spec.dirs
    [] spec.kind = "envvar" /\ spec.name \in DOMAIN Environment -> Environment[spec.name]
    [] spec.kind = "" /\ "PATH" \in DOMAIN Environment -> Environment["PATH"]
    [] OTHER -> <<>>

ResolveDir(name) == DirNames[name]

\* A directory that cannot be read is searched and has no files.
FilesOf(dir) == IF dir \in DOMAIN DirFiles THEN DirFiles[dir] ELSE <<>>

\* The files of a directory that match, may be seen and can still be looked at.
Reported(c, dir, file) == file.name \in c.matching /\ <<dir, file.name>> \notin DeniedFiles /\ ~file.gone

\* firstMatch: an entry is masked by the first of its name before it.
Entered(entries, file, dir, index) ==
  LET same == {n \in DOMAIN entries : entries[n].name = file.name}
      first == CHOOSE n \in same : \A m \in same : n <= m
  IN Append(entries,
       [dir |-> dir, name |-> file.name, executable |-> file.executable, dirIndex |-> index,
        maskedBy |-> IF same = {} THEN <<>> ELSE <<<<entries[first].dir, file.name>>>>])

\* One file of a directory after another, in the order of their names.
AllEntered(c, entries, dir, index) ==
  LET entered[k \in 0..Len(FilesOf(dir))] ==
        CASE k = 0 -> entries
          [] k > 0 /\ Reported(c, dir, FilesOf(dir)[k]) -> Entered(entered[k - 1], FilesOf(dir)[k], dir, index)
          [] OTHER -> entered[k - 1]
  IN entered[Len(FilesOf(dir))]

\* Mutant: a directory is searched again under each of its names.
SearchedAgain(c, so, dir) ==
  [searchList |-> Append(so.searchList, dir),
   entries |-> AllEntered(c, so.entries, dir, Len(so.searchList) + 1)]

\* A directory is searched under the first of its names, readable or not.
Searched(c, so, dir) ==
  IF dir \in ToSet(so.searchList) THEN so
  ELSE [searchList |-> Append(so.searchList, dir),
        entries |-> AllEntered(c, so.entries, dir, Len(so.searchList) + 1)]

AllSearched(c, dirs) ==
  LET searched[n \in 0..Len(dirs)] ==
        IF n = 0 THEN [searchList |-> <<>>, entries |-> <<>>]
        ELSE Searched(c, searched[n - 1], ResolveDir(dirs[n]))
  IN searched[Len(dirs)]

PathfindAnswer(c) ==
  LET dirs == ParseSearchList(c.spec)
      all == AllSearched(c, dirs)
  IN IF ~c.named \/ dirs = <<>> THEN [failed |-> TRUE]
     ELSE [failed |-> FALSE, searchList |-> all.searchList, entries |-> all.entries]

-----------------------------------------------------------------------------
HoldsMatch(c, dir, name) == \E k \in DOMAIN FilesOf(dir) : FilesOf(dir)[k].name = name /\ Reported(c, dir, FilesOf(dir)[k])

\* What stands first for a name: the first name of a directory in the list as
\* it was given whose directory holds it where it may be seen.
FirstPlace(c, name) ==
  LET dirs == ParseSearchList(c.spec)
      holding == {n \in DOMAIN dirs : HoldsMatch(c, DirNames[dirs[n]], name)}
  IN {DirNames[dirs[n]] : n \in {m \in holding : \A k \in holding : m <= k}}

\* However often and under whatever names the list has a directory, each file
\* is reported once, just the one that comes first for its name in the list as
\* given is unmasked, every other names that one, and an entry's index leads to
\* its directory in the answer (Pathfind).
UnmaskedComesFirst(c, answer) ==
  ~answer.failed =>
    LET es == answer.entries IN
      /\ {<<es[n].dir, es[n].name>> : n \in DOMAIN es} =
           {place \in ToSet(answer.searchList) \X c.matching : HoldsMatch(c, place[1], place[2])}
      /\ \A m, n \in DOMAIN es : m # n => <<es[m].dir, es[m].name>> # <<es[n].dir, es[n].name>>
      /\ \A n \in DOMAIN es :
           /\ FirstPlace(c, es[n].name) = {IF es[n].maskedBy = <<>> THEN es[n].dir ELSE es[n].maskedBy[1][1]}
           /\ answer.searchList[es[n].dirIndex] = es[n].dir
=============================================================================
