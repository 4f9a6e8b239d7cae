-------------------------------- MODULE Calls --------------------------------
(***************************************************************************)
(* One call of a tool that answers and keeps nothing: the tools on the     *)
(* content of files (FileTools), the hook (HookCommand), aifr_git_config   *)
(* (GitConfig), aifr_pathfind (Pathfind), aifr_rev_parse (GitPaths) and    *)
(* the sorting of a listing (Sorting).                                     *)
(***************************************************************************)
EXTENDS HookCommand, GitConfig, Pathfind, Sorting

CONSTANTS
  RevCalls,   \* repository and ref
  nil

VARIABLES
  request,   \* the tool and what it is called with
  reply

callVars == <<request, reply, toolVars>>

Request(kind, with, files) == [kind |-> kind, with |-> with, files |-> files]
Requests ==
  {Request("file", nil, nil)} \cup {Request("hook", c, nil) : c \in HookCalls}
    \cup {Request("config", c, t) : c \in ConfigCalls, t \in ConfigTrees}
    \cup {Request("pathfind", c, nil) : c \in LookupCalls}
    \cup {Request("sort", c, nil) : c \in SortCalls}
    \cup {Request("revparse", c, nil) : c \in RevCalls}

OneTool == CHOOSE c \in ToolCalls : TRUE

NoCall == request = Request("none", nil, nil) /\ reply = nil
NoTool == ToolsInit("idle") /\ tool = OneTool /\ disk = [f \in Files |-> noText]

CallsInit ==
  /\ request \in Requests /\ reply = nil
  /\ \/ request.kind = "file" /\ ToolsInit("off")
     \/ request.kind # "file" /\ NoTool

\* A call that is one step, for nothing it reads is read twice.
Reply(kind, answer) ==
  /\ request.kind = kind /\ reply = nil /\ reply' = answer /\ UNCHANGED <<request, toolVars>>

AnswerHook == Reply("hook", CheckCommand(request.with))
AnswerConfig == Reply("config", ConfigAnswer(request.with, request.files))
AnswerPathfind == Reply("pathfind", PathfindAnswer(request.with))
AnswerSorted == Reply("sort", SortEntries(request.with))
AnswerRevParse == Reply("revparse", RevParse(request.with.repo, request.with.ref))
FileStep == FileToolsNext /\ UNCHANGED <<request, reply>>

CallsNext == AnswerHook \/ AnswerConfig \/ AnswerPathfind \/ AnswerSorted \/ AnswerRevParse \/ FileStep
-----------------------------------------------------------------------------
Answered(kind) == request.kind = kind /\ reply # nil

\* SuggestionKeepsLines of every command the hook has answered (AnalyzeCommand).
SuggestionsKeepTheirLines == Answered("hook") => SuggestionKeepsLines(request.with, reply)

\* UnnotedConfigIsGits of every answer of aifr_git_config (loadGitConfig).
ConfigIsGits == Answered("config") => UnnotedConfigIsGits(request.with, request.files, reply)

\* UnmaskedComesFirst of every answer of aifr_pathfind (Pathfind).
UnmaskedIsFirst == Answered("pathfind") => UnmaskedComesFirst(request.with, reply)

\* SortedAndWhole of every listing (SortEntries, SortFindEntries).
ListingsAreSorted == Answered("sort") => SortedAndWhole(request.with, reply)
=============================================================================
