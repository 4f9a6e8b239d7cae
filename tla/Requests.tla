------------------------------ MODULE Requests ------------------------------
(***************************************************************************)
(* One request of a client that leaves nothing behind: aifr_diff           *)
(* (handleDiff), aifr_cat (handleCat), or one of the calls of Calls.       *)
(***************************************************************************)
EXTENDS LineDiff, Cat, Calls

requestVars == <<diffVars, catVars, callVars>>

OneCat == CHOOSE c \in CatCalls : TRUE
NoDiff == DiffInit("off") /\ byteLevel = FALSE
NoCat == CatInit("off") /\ call = OneCat /\ tree = CHOOSE t \in Trees : TRUE

Init ==
  \/ DiffInit("readA") /\ NoCat /\ NoCall /\ NoTool
  \/ NoDiff /\ CatInit("begin") /\ NoCall /\ NoTool
  \/ NoDiff /\ NoCat /\ CallsInit

DiffStep == DiffNext /\ UNCHANGED <<catVars, callVars>>
CatStep == CatNext /\ UNCHANGED <<diffVars, callVars>>
CallStep == CallsNext /\ UNCHANGED <<diffVars, catVars>>
Next == DiffStep \/ CatStep \/ CallStep

Spec == Init /\ [][Next]_requestVars

\* The goroutine of a diff runs.  It reads nothing that changes; the other
\* requests are loops over what they were given, and no property is about
\* their end.
FairSpec == Spec /\ WF_requestVars(DiffStep)

TypeOK ==
  /\ DiffTypeOK /\ CatTypeOK
  /\ tool \in ToolCalls /\ disk \in [Files -> FileContents \cup {noText}]
  /\ Len(answers) <= Len(tool.paths) /\ toolWrites \in 0..maxToolWrites
  /\ tphase \in {"idle", "off", "refused", "path", "second", "done"}
  /\ tphase = "done" => Len(answers) = Len(tool.paths)
=============================================================================
