------------------------------ MODULE FileTools ------------------------------
(***************************************************************************)
(* The one-shot tools on the content of files: aifr_wc, aifr_checksum,     *)
(* aifr_hexdump and the line ranges of aifr_read (wc.go, checksum.go,      *)
(* hexdump.go, read.go), each written twice, for the file system and for a *)
(* commit.  A step is one system call; files may change between two steps. *)
(***************************************************************************)
EXTENDS Texts, GitPaths, Lists

CONSTANTS
  Files,         \* paths of the file system; a missing one holds noText
  RefusedFiles,  \* paths the checker refuses
  FileContents,
  ToolCalls,
  noText,
  maxLine,       \* the longest line bufio.Scanner takes
  hexdumpDefaultLength, hexdumpMaxLength, hexdumpBytesPerLine,
  maxToolWrites  \* bound on changes during the call

SPACE == 32
CONT == 128   \* a byte that continues a rune

Tools == {"wc", "checksum", "hexdump", "lines", "whole", "stat"}
ASSUME FileContentsAssumption == \A t \in FileContents : IsText(t)
ASSUME BlobsAssumption ==
  \A d \in DOMAIN GitDirs : \A t \in TreesOf(d) : \A p \in DOMAIN t : t[p].kind = "file" => IsText(t[p].text)
ASSUME ToolCallsAssumption ==
  \A c \in ToolCalls :
    /\ c.tool \in Tools /\ c.algorithm \in {"known", "unknown"}
    /\ c.flags \subseteq {"lines", "words", "bytes", "chars"}
    /\ c.offset \in Int /\ c.length \in Int /\ c.start \in Int /\ c.end \in Int
    /\ Len(c.paths) \in Nat /\ (c.tool \notin {"wc", "checksum"} => Len(c.paths) = 1)
    /\ \A n \in 1..Len(c.paths) : IsGitPath(c.paths[n]) \/ c.paths[n] \in Files
    /\ c.tool = "whole" => IsGitPath(c.paths[1]) /\ c.start = 1 /\ c.end = 0   \* no range
ASSUME FileToolsBoundsAssumption ==
  /\ maxLine \in Nat /\ maxToolWrites \in Nat /\ hexdumpMaxLength \in Nat
  /\ hexdumpBytesPerLine \in Nat \ {0}
  /\ hexdumpDefaultLength \in 1..hexdumpMaxLength

VARIABLES
  tphase,    \* idle, off, refused, path, second (a second system call), done
  tool,      \* the call
  disk,      \* what each file holds
  held,      \* what the first system call saw: a size or a text
  answers,   \* one per path
  toolWrites

toolVars == <<tphase, tool, disk, held, answers, toolWrites>>

Failure(why) == [failed |-> TRUE, why |-> why]

-----------------------------------------------------------------------------
\* Wc.  wcDefaults; strings.Fields and utf8.RuneCount on bytes.
Flags == IF tool.flags = {} THEN {"lines", "words", "bytes"} ELSE tool.flags

Blank == {NL, CR, SPACE}
Fields(bytes) == Cardinality({k \in DOMAIN bytes : bytes[k] \notin Blank /\ (k > 1 => bytes[k - 1] \in Blank)})
Runes(bytes) == Cardinality({k \in DOMAIN bytes : bytes[k] # CONT})

TooLong(text) == \E n \in DOMAIN text : Len(text[n]) > maxLine

\* fsWc: line by line; the bytes are counted as if every line ended in a newline.
FsCounts(text) ==
  LET lines == ScanLines(text)
  IN [lines |-> Len(lines),
      words |-> SumOfSeq([n \in DOMAIN lines |-> Fields(lines[n])]),
      bytes |-> SumOfSeq([n \in DOMAIN lines |-> Len(lines[n]) + 1]),
      chars |-> SumOfSeq([n \in DOMAIN lines |-> Runes(lines[n]) + 1])]

\* gitWc: the lines are those of a split, without an empty last one.
GitCounts(text) ==
  [lines |-> IF EndsInNewline(text) THEN Len(text) - 1 ELSE Len(text),
   words |-> Fields(Bytes(text)), bytes |-> Size(text), chars |-> Runes(Bytes(text))]

Counted(counts) == [failed |-> FALSE, counts |-> [f \in Flags |-> counts[f]]]

\* The combined entry: files that failed count nothing.
WcTotal(entries) ==
  [f \in Flags |-> SumOfSeq([n \in DOMAIN entries |-> IF entries[n].failed THEN 0 ELSE entries[n].counts[f]])]

-----------------------------------------------------------------------------
\* Checksum: a digest stands for the bytes it is of.
Checksummed(text) == [failed |-> FALSE, of |-> Bytes(text), size |-> Size(text)]

-----------------------------------------------------------------------------
\* Hexdump.
ClampLength(length) ==
  IF length <= 0 THEN hexdumpDefaultLength ELSE Least(length, hexdumpMaxLength)

\* Mutant: the last row is given only when it is full.
FormatHexLinesFull(data, base) ==
  [n \in 1..(Len(data) \div hexdumpBytesPerLine) |->
     [offset |-> base + (n - 1) * hexdumpBytesPerLine,
      bytes |-> SubSeq(data, (n - 1) * hexdumpBytesPerLine + 1, n * hexdumpBytesPerLine)]]

FormatHexLines(data, base) ==
  [n \in 1..((Len(data) + hexdumpBytesPerLine - 1) \div hexdumpBytesPerLine) |->
     [offset |-> base + (n - 1) * hexdumpBytesPerLine,
      bytes |-> SubSeq(data, (n - 1) * hexdumpBytesPerLine + 1, Least(n * hexdumpBytesPerLine, Len(data)))]]

Dump(totalSize, data) ==
  [failed |-> FALSE, totalSize |-> totalSize, length |-> Len(data),
   rows |-> FormatHexLines(data, tool.offset), complete |-> tool.offset + Len(data) >= totalSize]
PastEnd(totalSize) == tool.offset >= totalSize

\* io.ReadFull: what is there, up to the length.  Only a positive offset is
\* sought, so before the start of the file it reads from the start.
ReadFull(bytes, length) ==
  LET from == Most(tool.offset, 0) IN SubSeq(bytes, from + 1, Least(from + length, Len(bytes)))

\* data[offset:end]: a slice from before the start panics.
GitDump(bytes) ==
  CASE PastEnd(Len(bytes)) -> Dump(Len(bytes), <<>>)
    [] ~PastEnd(Len(bytes)) /\ tool.offset < 0 -> Failure("panic")
    [] OTHER -> Dump(Len(bytes), SubSeq(bytes, tool.offset + 1, Least(tool.offset + ClampLength(tool.length), Len(bytes))))

-----------------------------------------------------------------------------
\* readLines: an end that is not positive is the end of the file.
FirstFull(lines) == CHOOSE n \in 1..(Len(lines) + 1) :
  (n <= Len(lines) => lines[n] # <<>>) /\ \A m \in 1..(n - 1) : lines[m] = <<>>

\* A newline goes before a line only if something was collected before.
Collected(lines) == SubSeq(lines, FirstFull(lines), Len(lines))

ReadLines(text, start, end) ==
  LET lines == ScanLines(text)
      total == Len(lines)
      stop == Most(start, end + 1)   \* the line the loop leaves at
      left == end > 0 /\ stop <= total
      lineNum == IF left THEN stop ELSE total
      data == Collected(SubSeq(lines, Most(start, 1), IF left THEN Least(end, stop - 1) ELSE total))
      before == IF start <= total THEN SumOfSeq([n \in 1..(Most(start, 1) - 1) |-> Len(lines[n]) + 1]) ELSE 0
      last == IF end > 0 /\ end < lineNum THEN end ELSE lineNum
  IN [failed |-> FALSE, data |-> data, totalLines |-> total, startLine |-> start, endLine |-> last,
      startByte |-> before, complete |-> end = 0 \/ last >= total]

\* GitRead with a range: lines of the split, the empty one after the last newline included.
GitLines(text, start, end) ==
  LET to == IF end = 0 \/ end > Len(text) THEN Len(text) ELSE end
      from == Most(start - 1, 0)
  IN CASE from >= Len(text) -> Failure("out_of_range")
       [] from < Len(text) /\ from > to -> Failure("panic")
       [] OTHER -> [failed |-> FALSE, data |-> SubSeq(text, from + 1, to), totalLines |-> LineCount(text),
                    startLine |-> start, endLine |-> to, startByte |-> 0, complete |-> TRUE]

\* GitRead of all of it.
GitWhole(text) ==
  [failed |-> FALSE, data |-> text, totalLines |-> LineCount(text), startLine |-> 1,
   endLine |-> LineCount(text), startByte |-> 0, complete |-> TRUE]

-----------------------------------------------------------------------------
Path == tool.paths[Len(answers) + 1]
InGit == IsGitPath(Path)
Here == disk[Path]
There == Here # noText
Waiting == tphase = "path" /\ Len(answers) < Len(tool.paths)

Answer(entry) ==
  /\ answers' = Append(answers, entry) /\ tphase' = "path" /\ held' = noText
  /\ UNCHANGED <<tool, disk, toolWrites>>
Hold(what) == held' = what /\ tphase' = "second" /\ UNCHANGED <<tool, disk, answers, toolWrites>>

\* handleChecksum and Checksum: the algorithm is looked up once, before any path.
Start ==
  /\ tphase = "off"
  /\ tphase' = IF tool.paths = <<>> \/ tool.algorithm = "unknown" THEN "refused" ELSE "path"
  /\ UNCHANGED <<tool, disk, held, answers, toolWrites>>

\* A blob is in memory as a whole and does not change.
OfBlob(text) ==
  CASE tool.tool = "wc" -> Counted(GitCounts(text))
    [] tool.tool = "checksum" -> Checksummed(text)
    [] tool.tool = "hexdump" -> GitDump(Bytes(text))
    [] tool.tool = "lines" -> GitLines(text, tool.start, tool.end)
    [] OTHER -> GitWhole(text)

GitAnswer ==
  /\ Waiting /\ InGit /\ tool.tool # "stat"
  /\ IF Blob(Path) = {} THEN Answer(Failure("not_found"))
     ELSE \E text \in Blob(Path) : Answer(OfBlob(text))

StatAnswer ==
  /\ Waiting /\ tool.tool = "stat" /\ (InGit \/ Path \notin RefusedFiles)
  /\ Answer(IF InGit THEN [failed |-> GitStat(Path) = {}, types |-> GitStat(Path)]
            ELSE [failed |-> ~There, types |-> IF There THEN {"file"} ELSE {}])

\* e.checkAccess comes first; it looks at the path and reads nothing of the file.
DeniedAnswer ==
  /\ Waiting /\ ~InGit /\ Path \in RefusedFiles
  /\ Answer(Failure("denied"))

OnDisk == Waiting /\ ~InGit /\ Path \notin RefusedFiles

Missing == OnDisk /\ tool.tool # "stat" /\ ~There /\ Answer(Failure("not_found"))

\* Only bytes wanted: the file is not read.
WcStat ==
  /\ OnDisk /\ tool.tool = "wc" /\ Flags = {"bytes"} /\ There
  /\ Answer([failed |-> FALSE, counts |-> [f \in Flags |-> Size(Here)]])

WcScan ==
  /\ OnDisk /\ tool.tool = "wc" /\ Flags # {"bytes"} /\ There
  /\ IF TooLong(Here) THEN Answer(Failure("too_long"))
     ELSE IF "bytes" \in Flags THEN Hold(Here) ELSE Answer(Counted(FsCounts(Here)))

\* The size comes from a Stat after the scan; if that fails the sum stands.
WcSize ==
  /\ tphase = "second" /\ tool.tool = "wc"
  /\ Answer(Counted(IF There THEN [FsCounts(held) EXCEPT !.bytes = Size(Here)] ELSE FsCounts(held)))

ChecksumRead == OnDisk /\ tool.tool = "checksum" /\ There /\ Answer(Checksummed(Here))

HexdumpStat ==
  /\ OnDisk /\ tool.tool = "hexdump" /\ There
  /\ IF PastEnd(Size(Here)) THEN Answer(Dump(Size(Here), <<>>)) ELSE Hold(Here)

\* The size is the one of the Stat before.
HexdumpRead ==
  /\ tphase = "second" /\ tool.tool = "hexdump"
  /\ Answer(IF There THEN Dump(Size(held), ReadFull(Bytes(Here), ClampLength(tool.length))) ELSE Failure("not_found"))

LinesStat == OnDisk /\ tool.tool = "lines" /\ There /\ Hold(Here)

LinesRead ==
  /\ tphase = "second" /\ tool.tool = "lines"
  /\ Answer(IF ~There THEN Failure("not_found")
            ELSE IF TooLong(Here) THEN Failure("too_long") ELSE ReadLines(Here, tool.start, tool.end))

Done ==
  /\ tphase = "path" /\ Len(answers) = Len(tool.paths)
  /\ tphase' = "done" /\ UNCHANGED <<tool, disk, held, answers, toolWrites>>

Write ==
  /\ tphase \in {"path", "second"} /\ toolWrites < maxToolWrites
  /\ \E f \in Files, t \in FileContents \cup {noText} : disk[f] # t /\ disk' = [disk EXCEPT ![f] = t]
  /\ toolWrites' = toolWrites + 1
  /\ UNCHANGED <<tphase, tool, held, answers>>

ToolsInit(first) ==
  /\ tphase = first /\ tool \in ToolCalls /\ disk \in [Files -> FileContents \cup {noText}]
  /\ held = noText /\ answers = <<>> /\ toolWrites = 0

FileToolsNext ==
  \/ Start \/ GitAnswer \/ StatAnswer \/ DeniedAnswer \/ Missing \/ WcStat \/ WcScan \/ WcSize
  \/ ChecksumRead \/ HexdumpStat \/ HexdumpRead \/ LinesStat \/ LinesRead \/ Done \/ Write
-----------------------------------------------------------------------------
(* What an answer has to say of a text. *)
Newlines(text) == Cardinality({k \in DOMAIN Bytes(text) : Bytes(text)[k] = NL})
HasCR(text) == \E k \in DOMAIN Bytes(text) : Bytes(text)[k] = CR

CountsAreOf(counts, text) ==
  /\ "lines" \in Flags => counts.lines = Newlines(text) + (IF EndsInNewline(text) THEN 0 ELSE 1)
  /\ "words" \in Flags => counts.words = Fields(Bytes(text))
  /\ "bytes" \in Flags => counts.bytes = Size(text)
  /\ "chars" \in Flags /\ EndsInNewline(text) /\ ~HasCR(text) => counts.chars = Runes(Bytes(text))

DumpIsOf(entry, bytes) ==
  LET rows == entry.rows
      to == tool.offset + entry.length
  IN /\ FlattenSeq([n \in DOMAIN rows |-> rows[n].bytes]) = SubSeq(bytes, tool.offset + 1, to)
     /\ entry.length <= ClampLength(tool.length) /\ (to < Len(bytes) => entry.length = ClampLength(tool.length))
     /\ entry.complete = (to >= Len(bytes))
     /\ \A n \in DOMAIN rows :
          /\ rows[n].bytes[1] = bytes[rows[n].offset + 1]
          /\ n < Len(rows) => rows[n + 1].offset = rows[n].offset + hexdumpBytesPerLine

ForwardRange == tool.start > 0 /\ (tool.end = 0 \/ tool.end >= tool.start)
LinesAreOf(entry, text, scanned) ==
  LET last == IF tool.end = 0 THEN LineCount(text) ELSE Least(tool.end, LineCount(text))
  IN ForwardRange /\ (scanned /\ tool.start <= LineCount(text) => DropCR(text[tool.start]) # <<>>) =>
       /\ \A n \in tool.start..last :
            entry.data[n - tool.start + 1] = IF scanned THEN DropCR(text[n]) ELSE text[n]
       /\ Len(entry.data) - Most(last - tool.start + 1, 0) \in IF scanned THEN {0} ELSE {0, 1}
       /\ entry.totalLines = LineCount(text)
       /\ scanned => entry.complete = (last = LineCount(text)) /\ entry.endLine = last
       /\ scanned /\ ~HasCR(text) /\ tool.start <= last =>
            SubSeq(Bytes(text), entry.startByte + 1, entry.startByte + Len(text[tool.start])) = text[tool.start]

\* What a path leads to: nothing if it is refused.
TextAt(path) ==
  IF IsGitPath(path) THEN Blob(path) ELSE IF path \in RefusedFiles THEN {} ELSE {disk[path]} \ {noText}
Unreadable(path, text) ==
  \/ tool.tool \in {"wc", "lines"} /\ ~IsGitPath(path) /\ TooLong(text) /\ (tool.tool = "wc" => Flags # {"bytes"})
  \/ tool.tool = "lines" /\ IsGitPath(path) /\ tool.start > Len(text)

\* Whatever of the two sources it is read from, a file that does not change
\* meanwhile is counted, digested, dumped and cut as its bytes say: rows tile
\* the range, the lines are those of the numbers asked for, a total is that of
\* the files that could be read, and an answer fails where the path leads to
\* nothing the caller may read, and else only where it must (Wc, Checksum,
\* Hexdump, readLines, GitRead).  Of an offset before the start of the file and
\* of a range that runs backwards the tools promise nothing: the first panics on
\* a blob and is answered with the wrong offsets on a file.
FileAnswersAreExact ==
  toolWrites = 0 /\ tool.tool # "stat" =>
    /\ \A n \in DOMAIN answers :
         LET path == tool.paths[n]
             entry == answers[n]
         IN \/ TextAt(path) = {} /\ entry.failed
            \/ \E text \in TextAt(path) :
                 CASE Unreadable(path, text) -> entry.failed
                   [] ~Unreadable(path, text) /\ tool.tool = "wc" -> ~entry.failed /\ CountsAreOf(entry.counts, text)
                   [] ~Unreadable(path, text) /\ tool.tool = "checksum" -> ~entry.failed /\ entry.of = Bytes(text) /\ entry.size = Len(entry.of)
                   [] ~Unreadable(path, text) /\ tool.tool = "hexdump" -> tool.offset >= 0 => ~entry.failed /\ DumpIsOf(entry, Bytes(text))
                   [] OTHER -> ForwardRange => ~entry.failed /\ LinesAreOf(entry, text, ~IsGitPath(path))
    /\ tphase = "done" /\ tool.tool = "wc" /\ "bytes" \in Flags =>
         WcTotal(answers).bytes = SumOfSeq([n \in DOMAIN answers |-> IF answers[n].failed THEN 0 ELSE
                                       Size(CHOOSE t \in TextAt(tool.paths[n]) : TRUE)])
=============================================================================
