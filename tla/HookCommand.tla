----------------------------- MODULE HookCommand -----------------------------
(***************************************************************************)
(* aifr hook check-command (internal/hookcmd): a shell command is parsed,  *)
(* and if aifr has a tool for it a suggestion takes its place.             *)
(*                                                                         *)
(* A word is what it is to the analysis: a flag, "-nK", "-K", a number, a  *)
(* sed script "a,bp" or a name.  The shell's grammar (mvdan.cc/sh) is left *)
(* to the command: its statements, operators and the stages of its pipe.   *)
(***************************************************************************)
EXTENDS FileTools

CONSTANTS
  HookCalls,    \* commands the hook is asked about
  HookTexts     \* what the file of a command may hold

Word(kind, text, from, to) == [kind |-> kind, text |-> text, from |-> from, to |-> to]
Flag(f) == Word("flag", f, 0, 0)
Attached(k) == Word("attached", "", k, 0)   \* -nK
Dash(k) == Word("dash", "", k, 0)           \* -K
Number(k) == Word("number", "", k, 0)
Plus(k) == Word("plus", "", k, 0)           \* +K
Script(from, to) == Word("script", "", from, to)   \* from,top and, without to, fromp
Name(n) == Word("name", n, 0, 0)
MaxCount(k) == Word("max_count", "", k, 0)  \* --max-count=K
WordKinds == {"flag", "max_count", "attached", "dash", "number", "plus", "script", "name"}
NoWord == Name("")

Stage(name, args) == [name |-> name, args |-> args]
Words == [kind : WordKinds, text : STRING, from : Int, to : Int]
Stages == [name : STRING, args : Seq(Words)]
ASSUME HookCallsAssumption ==
  /\ \A t \in HookTexts : IsText(t)
  /\ \A c \in HookCalls :
       /\ c.statements \in Nat /\ c.control \in BOOLEAN /\ c.bash \in BOOLEAN
       /\ c.mcp \in {"forced", "env", "listed", "none"}
       /\ c.shape \in {"call", "pipe", "and_or", "compound", "unparsable"}
       /\ c.stages \in Seq(Stages)
       /\ c.shape = "call" => Len(c.stages) = 1
       /\ c.shape = "pipe" => Len(c.stages) \in {2, 3}

-----------------------------------------------------------------------------
\* Arguments.

IsFlag(w) == w.kind \in {"flag", "max_count", "attached", "dash"}
NonFlags(args) == SelectSeq(args, LAMBDA w : ~IsFlag(w))
HasFlag(args, flags) == \E n \in DOMAIN args : args[n].kind = "flag" /\ args[n].text \in flags
FirstOr(s, default) == IF s = <<>> THEN default ELSE s[1]

\* strconv.Atoi: the number, if the word is one.
Atoi(w) ==
  CASE w.kind \in {"number", "plus"} -> <<w.from>>
    [] w.kind = "dash" -> <<-w.from>>
    [] OTHER -> <<>>

\* Which words a loop passes over as the value of the flag before them.
Values(args, takes) ==
  LET value[n \in DOMAIN args] == n > 1 /\ ~value[n - 1] /\ args[n - 1].kind = "flag" /\ args[n - 1].text \in takes
  IN value
Positional(args, takes) ==
  LET at == SetToSortSeq({n \in DOMAIN args : ~IsFlag(args[n]) /\ ~Values(args, takes)[n]}, <)
  IN [k \in DOMAIN at |-> args[at[k]]]

\* The counts of -n N, -nN and -N, in their order.
Counts(args) ==
  FlattenSeq(<<<<>>>> \o [n \in DOMAIN args |->
    CASE Values(args, {"-n"})[n] -> Atoi(args[n])
      [] ~Values(args, {"-n"})[n] /\ args[n].kind \in {"attached", "dash"} -> <<args[n].from>>
      [] OTHER -> <<>>])
ParseHeadTailN(args) == FirstOr(Counts(args), 10)

\* One of the flags is there, and not as a value.
Given(args, takes, flags) ==
  \E n \in DOMAIN args : args[n].kind = "flag" /\ args[n].text \in flags /\ ~Values(args, takes)[n]

\* The value of the last such flag.
LastValue(args, takes, flags, default) ==
  LET at == {n \in DOMAIN args : Values(args, takes)[n] /\ args[n - 1].text \in flags}
  IN IF at = {} THEN default ELSE args[CHOOSE n \in at : \A m \in at : m <= n]

-----------------------------------------------------------------------------
\* parseShellCommand: the command and the modifier of its pipe.

NoModifier == [head |-> 0, tail |-> 0, start |-> 0, end |-> 0]
IsSet(mod) == mod.head > 0 \/ mod.tail > 0 \/ mod.start > 0

\* The words after the first -n; the first of them is the script.
AfterN(args) ==
  LET n == CHOOSE n \in DOMAIN args : args[n] = Flag("-n") /\ \A m \in 1..(n - 1) : args[m] # Flag("-n")
  IN IF HasFlag(args, {"-n"}) THEN NonFlags(SubSeq(args, n, Len(args))) ELSE <<>>
SedRange(w) ==
  CASE w.kind \in {"number", "plus"} -> <<w.from, w.from>>
    [] w.kind = "script" -> <<w.from, IF w.to = 0 THEN w.from ELSE w.to>>
    [] OTHER -> <<>>

\* Mutant: a range that starts at line one keeps its start only.
ParseSedModifierFirstOnly(args) ==
  LET range == SedRange(FirstOr(AfterN(args), NoWord))
  IN IF range = <<>> THEN NoModifier ELSE
     IF range[1] <= 0 \/ range[2] <= 0 THEN NoModifier
     ELSE IF range[1] = 1 THEN [NoModifier EXCEPT !.head = 1]
     ELSE [NoModifier EXCEPT !.start = range[1], !.end = range[2]]

ParseSedModifier(args) ==
  LET range == SedRange(FirstOr(AfterN(args), NoWord))
  IN IF range = <<>> THEN NoModifier ELSE
     IF range[1] <= 0 \/ range[2] <= 0 THEN NoModifier
     ELSE IF range[1] = 1 THEN [NoModifier EXCEPT !.head = range[2]]
     ELSE [NoModifier EXCEPT !.start = range[1], !.end = range[2]]

Follows(args) == HasFlag(args, {"-f", "--follow", "-F"})

PipeTailModifier(stage) ==
  CASE stage.name = "head" -> [NoModifier EXCEPT !.head = ParseHeadTailN(stage.args)]
    [] stage.name = "tail" /\ ~Follows(stage.args) -> [NoModifier EXCEPT !.tail = ParseHeadTailN(stage.args)]
    [] stage.name = "sed" -> ParseSedModifier(stage.args)
    [] OTHER -> NoModifier

\* The stages it understands: one, or two of which the second only cuts.
Parses1(c) == c.statements = 1 /\ ~c.control /\ c.shape = "call"
Parses2(c) == c.statements = 1 /\ ~c.control /\ c.shape = "pipe" /\ Len(c.stages) = 2 /\ IsSet(PipeTailModifier(c.stages[2]))
ModifierOf(c) == IF Parses2(c) THEN PipeTailModifier(c.stages[2]) ELSE NoModifier
-----------------------------------------------------------------------------
\* The arguments of a suggested tool; limit stands for limit, max_matches and
\* max_count, and 0 or an empty value for an argument that is not given.
NoArgs ==
  [paths |-> <<>>, lines |-> <<>>, limit |-> 0, pattern |-> NoWord, name |-> NoWord, type |-> NoWord,
   flags |-> {}, algorithm |-> NoWord, oneline |-> FALSE]
Suggestion(name, args) == <<[tool |-> name, args |-> args]>>
NoSuggestion == <<>>
ReadOf(file, from, to) == Suggestion("aifr_read", [NoArgs EXCEPT !.paths = <<file>>, !.lines = <<from, to>>])
Listed(name, args, mod) == Suggestion(name, [args EXCEPT !.limit = mod.head])

SuggestCat(args, mod) ==
  LET files == NonFlags(args)
  IN CASE files = <<>> \/ (IsSet(mod) /\ Len(files) # 1) -> NoSuggestion
       [] mod.head > 0 /\ Len(files) = 1 -> ReadOf(files[1], 1, mod.head)
       [] mod.tail > 0 /\ Len(files) = 1 -> ReadOf(files[1], -mod.tail, 0)
       [] mod.start > 0 /\ Len(files) = 1 -> ReadOf(files[1], mod.start, mod.end)
       [] OTHER -> Suggestion(IF Len(files) = 1 THEN "aifr_read" ELSE "aifr_cat", [NoArgs EXCEPT !.paths = files])

\* The last count and the first file.
CountOr10(args) == IF Counts(args) = <<>> THEN 10 ELSE Last(Counts(args))
FileOf(args) == FirstOr(Positional(args, {"-n"}), NoWord)

SuggestHead(args, mod) ==
  IF IsSet(mod) \/ FileOf(args) = NoWord THEN NoSuggestion ELSE ReadOf(FileOf(args), 1, CountOr10(args))
SuggestTail(args, mod) ==
  IF IsSet(mod) \/ Follows(args) \/ FileOf(args) = NoWord THEN NoSuggestion
  ELSE ReadOf(FileOf(args), -CountOr10(args), 0)

SuggestSed(args, mod) ==
  LET words == AfterN(args)
      range == SedRange(FirstOr(words, NoWord))
  IN IF IsSet(mod) \/ Len(words) < 2 \/ range = <<>> THEN NoSuggestion ELSE ReadOf(words[2], range[1], range[2])

FlagsWithValue ==
  {"-e", "-f", "--regexp", "--file", "-m", "--max-count", "-A", "--after-context", "-B", "--before-context",
   "-C", "--context", "--include", "--exclude", "--exclude-dir", "--color", "--colour", "-d", "--directories",
   "-D", "--devices", "--label", "--binary-files"}
NotOnlyHead(mod) == mod.tail > 0 \/ mod.start > 0

SuggestSearch(args, mod) ==
  LET words == Positional(args, FlagsWithValue)
      path == IF Len(words) > 1 THEN words[2] ELSE Name(".")
      fromStdin == Len(words) < 2 /\ ~Given(args, FlagsWithValue, {"-r", "-R", "--recursive"})
  IN IF NotOnlyHead(mod) \/ words = <<>> \/ fromStdin THEN NoSuggestion
     ELSE Listed("aifr_search", [NoArgs EXCEPT !.pattern = words[1], !.paths = <<path>>], mod)

FindTests == {"-name", "-iname", "-type"}
SuggestFind(args, mod) ==
  IF NotOnlyHead(mod) THEN NoSuggestion
  ELSE Listed("aifr_find",
         [NoArgs EXCEPT !.paths = <<FirstOr(Positional(args, FindTests), Name("."))>>,
            !.name = LastValue(args, FindTests, {"-name", "-iname"}, NoWord),
            !.type = LastValue(args, FindTests, {"-type"}, NoWord)], mod)

SuggestList(args, mod) ==
  IF NotOnlyHead(mod) THEN NoSuggestion
  ELSE Listed(IF HasFlag(args, {"-R", "--recursive"}) THEN "aifr_find" ELSE "aifr_list",
              [NoArgs EXCEPT !.paths = <<FirstOr(NonFlags(args), Name("."))>>], mod)

\* The tools a pipe does not combine with, on the words that are not flags.
Unpiped(name, args, mod, files) ==
  IF IsSet(mod) \/ files = <<>> THEN NoSuggestion ELSE Suggestion(name, [args EXCEPT !.paths = files])
SuggestWc(args, mod) ==
  Unpiped("aifr_wc", [NoArgs EXCEPT !.flags = {f \in {"-l", "-w", "-c", "-m"} : HasFlag(args, {f})}], mod, NonFlags(args))
SuggestOne(name, args, mod) ==
  Unpiped(name, NoArgs, mod, IF NonFlags(args) = <<>> THEN <<>> ELSE <<NonFlags(args)[1]>>)
SuggestDiff(args, mod) == Unpiped("aifr_diff", NoArgs, mod, IF Len(NonFlags(args)) = 2 THEN NonFlags(args) ELSE <<>>)

Digests == {"sha256sum", "sha1sum", "md5sum", "sha384sum", "sha512sum"}
SuggestChecksum(name, args, mod) ==
  Unpiped("aifr_checksum",
    [NoArgs EXCEPT !.algorithm = IF name = "shasum" THEN LastValue(args, {"-a"}, {"-a"}, Number(1)) ELSE Name(name)],
    mod, NonFlags(args))

\* The last count; one that is no number is zero.
LogCounts(args) ==
  FlattenSeq(<<<<>>>> \o [n \in DOMAIN args |->
    CASE Values(args, {"-n"})[n] -> <<FirstOr(Atoi(args[n]), 0)>>
      [] ~Values(args, {"-n"})[n] /\ args[n].kind \in {"max_count", "attached"} /\ args[n].from >= 0 -> <<args[n].from>>
      [] OTHER -> <<>>])
SuggestGitLog(args, mod) ==
  LET count == IF mod.head > 0 THEN mod.head ELSE IF LogCounts(args) = <<>> THEN 0 ELSE Last(LogCounts(args))
      refs == Positional(args, {"-n"})
  IN IF NotOnlyHead(mod) THEN NoSuggestion
     ELSE Suggestion("aifr_log", [NoArgs EXCEPT !.oneline = Given(args, {"-n"}, {"--oneline"}), !.limit = IF count > 0 THEN count ELSE 0,
                                    !.paths = IF refs = <<>> THEN <<>> ELSE <<refs[1]>>])

\* Two commits are compared at the root of their trees.
AtRoot(ref) == Name(<<ref, ".">>)
SuggestGitDiff(args, mod) ==
  LET refs == NonFlags(args)
  IN IF IsSet(mod) THEN NoSuggestion
     ELSE Suggestion("aifr_diff", [NoArgs EXCEPT !.paths = IF Len(refs) = 2 THEN <<AtRoot(refs[1]), AtRoot(refs[2])>> ELSE <<>>])
SuggestGit(args, mod) ==
  CASE args # <<>> /\ args[1] = Name("log") -> SuggestGitLog(Tail(args), mod)
    [] args # <<>> /\ args[1] = Name("diff") -> SuggestGitDiff(Tail(args), mod)
    [] OTHER -> NoSuggestion

AnalyzeStage(stage, mod) ==
  LET args == stage.args
  IN CASE stage.name = "cat" -> SuggestCat(args, mod)
       [] stage.name = "head" -> SuggestHead(args, mod)
       [] stage.name = "tail" -> SuggestTail(args, mod)
       [] stage.name = "sed" -> SuggestSed(args, mod)
       [] stage.name \in {"grep", "egrep", "fgrep", "rg"} -> SuggestSearch(args, mod)
       [] stage.name = "find" -> SuggestFind(args, mod)
       [] stage.name = "ls" -> SuggestList(args, mod)
       [] stage.name = "wc" -> SuggestWc(args, mod)
       [] stage.name = "stat" -> SuggestOne("aifr_stat", args, mod)
       [] stage.name \in {"hexdump", "xxd", "od"} -> SuggestOne("aifr_hexdump", args, mod)
       [] stage.name = "diff" -> SuggestDiff(args, mod)
       [] stage.name \in Digests \cup {"shasum"} -> SuggestChecksum(stage.name, args, mod)
       [] stage.name = "git" -> SuggestGit(args, mod)
       [] OTHER -> NoSuggestion

\* AnalyzeCommand.
Analyze(c) == IF Parses1(c) \/ Parses2(c) THEN AnalyzeStage(c.stages[1], ModifierOf(c)) ELSE NoSuggestion

\* CheckCommand: nothing, or the command is denied for a tool call or a subcommand.
CheckCommand(c) ==
  LET s == IF c.bash THEN Analyze(c) ELSE NoSuggestion
  IN [deny |-> s # NoSuggestion, suggestion |-> s, byTool |-> c.mcp # "none"]
-----------------------------------------------------------------------------
(* What the commands print of one text, by the manuals of head, tail and sed. *)
HeadOf(lines, k) == SubSeq(lines, 1, Least(k, Len(lines)))
TailOf(lines, k) == SubSeq(lines, Most(Len(lines) - k, 0) + 1, Len(lines))
SedOf(lines, from, to) == SubSeq(lines, from, Least(Most(from, to), Len(lines)))

\* A stage that only selects lines by number, written with one count.
SelectsByNumber(stage) ==
  LET script == FirstOr(AfterN(stage.args), NoWord)
  IN \/ /\ stage.name \in {"head", "tail"} /\ Len(Counts(stage.args)) <= 1 /\ CountOr10(stage.args) > 0
        /\ \A n \in DOMAIN stage.args :
             /\ stage.args[n].kind = "flag" => stage.args[n] = Flag("-n")
             /\ Values(stage.args, {"-n"})[n] => stage.args[n].kind = "number"
     \/ /\ stage.name = "sed" /\ stage.args # <<>> /\ stage.args[1] = Flag("-n")
        /\ script.kind = "script" /\ script.from \in Nat \ {0} /\ script.to \in Nat
        /\ (script.to = 0 \/ script.to >= script.from)
        /\ Cardinality({n \in DOMAIN stage.args : IsFlag(stage.args[n])}) = 1
Selected(stage, lines) ==
  CASE stage.name = "head" -> HeadOf(lines, CountOr10(stage.args))
    [] stage.name = "tail" -> TailOf(lines, CountOr10(stage.args))
    [] OTHER -> SedOf(lines, AfterN(stage.args)[1].from, AfterN(stage.args)[1].to)

\* The files a stage names: with sed, what follows the script.
NamesFiles(stage, count) ==
  IF stage.name = "sed" THEN Len(AfterN(stage.args)) = count + 1 ELSE Len(Positional(stage.args, {"-n"})) = count
FirstNamed(stage) == IF stage.name = "sed" THEN AfterN(stage.args)[2] ELSE Positional(stage.args, {"-n"})[1]

\* The stage of a command that selects lines, and the file it selects them of
\* if that is one file: its own, or that of the cat it reads from.
Selector(c) == IF c.shape = "pipe" THEN c.stages[2] ELSE c.stages[1]
OneFile(c) ==
  IF c.shape = "pipe"
  THEN /\ NamesFiles(Selector(c), 0)
       /\ c.stages[1].name = "cat" /\ Len(c.stages[1].args) = 1 /\ ~IsFlag(c.stages[1].args[1])
  ELSE NamesFiles(Selector(c), 1)
FileRead(c) == IF c.shape = "pipe" THEN NonFlags(c.stages[1].args)[1] ELSE FirstNamed(Selector(c))
SelectsLines(c, s) == s # NoSuggestion /\ s[1].tool = "aifr_read" /\ SelectsByNumber(Selector(c)) /\ OneFile(c)

\* The suggested read prints the lines the command prints, of the same file.  A
\* range that starts with empty lines is left out: readLines drops those.
ReadPrints(c, s, text) ==
  LET range == s[1].args.lines
      printed == Selected(Selector(c), ScanLines(text))
  IN /\ s[1].args.paths = <<FileRead(c)>>
     /\ (printed # <<>> /\ printed[1] = <<>>) \/ ReadLines(text, range[1], range[2]).data = printed

\* A head or a sed -n that selects lines of one file, named by it or by the cat
\* it reads from, is denied for a read that prints the same lines of the same
\* file, whatever the file holds; and whatever the first stage of a pipe is, its
\* suggestion carries the limit or the range of the second (AnalyzeCommand,
\* pipeTailModifier, parseLineRange, readLines).  Of a command that reads
\* several files, or that does not read the pipe it ends, nothing is said: the
\* read suggested for it is of one file all the same.
SuggestionKeepsLines(c, answer) ==
  LET s == answer.suggestion
  IN /\ SelectsLines(c, s) /\ Selector(c).name # "tail" => \A t \in HookTexts : ReadPrints(c, s, t)
     /\ s # NoSuggestion /\ c.shape = "pipe" =>
          LET head == PipeTailModifier(c.stages[2]).head
          IN s[1].args.lines # <<>> \/ (s[1].args.limit = head /\ head > 0)
=============================================================================
