---------------------------- MODULE ChunkedRead ----------------------------
(***************************************************************************)
(* aifr_read of a filesystem path: Engine.Read, readDefault, readBytes,    *)
(* readContinuation, and the signed token that carries a chain of chunks   *)
(* from one request to the next (internal/engine/read.go, engine.go).      *)
(*                                                                         *)
(* A request is os.Stat, then os.Open, then one or more reads, and nothing *)
(* holds the file still between them: another process may overwrite it in  *)
(* place, rename a new file over it or remove it at any point.  The server *)
(* may also be told to reload, which replaces the engine and with it the   *)
(* key the tokens are signed with.                                         *)
(*                                                                         *)
(* A byte is "nl" (newline), "nul" or "txt": no more is told apart by the  *)
(* code that cuts chunks.  Sizes are scaled down through the constants.    *)
(***************************************************************************)
EXTENDS Integers, Sequences, FiniteSets

CONSTANTS
  DefaultChunkSize,  \* 64 KiB in the code
  MaxByteOvershoot,  \* 1024 in the code
  BinaryDetectSize,  \* 8192 in the code
  ReadAllBlock,      \* bytes io.ReadAll takes per read call
  Contents,          \* what the writer may store in the file
  ByteRanges,        \* the <<start, end>> a client may ask for, end = -1: to EOF
  MaxWrites,         \* bound on changes by the writer
  MaxReloads,        \* bound on reloads of the engine
  CoarseClock        \* TRUE: two writes may fall into one mtime tick

Byte == {"txt", "nl", "nul"}

ASSUME SizesAssumption ==
  /\ DefaultChunkSize \in Nat \ {0}
  /\ MaxByteOvershoot \in Nat
  /\ BinaryDetectSize \in Nat \ {0}
  /\ ReadAllBlock \in Nat \ {0}
ASSUME InputsAssumption ==
  /\ Contents \subseteq Seq(Byte)
  /\ ByteRanges \subseteq Nat \X (Nat \cup {-1})
ASSUME BoundsAssumption ==
  /\ MaxWrites \in Nat
  /\ MaxReloads \in Nat
  /\ CoarseClock \in BOOLEAN

VARIABLES
  versions,  \* every content the file has had, each with its mtime, oldest first
  inode,     \* inode[i]: the version inode i holds now
  path,      \* the inode the path leads to, 0 when there is none
  key,       \* identifies the hmacKey of the engine the server holds
  request,   \* the request being served, NoRequest between requests
  chain,     \* the chunks the client has received, oldest first
  token,     \* the continuation token of the last answer, NoToken if none
  outcome,   \* how the client's chain stands
  base       \* history: the version the chain's first Stat saw

file == <<versions, inode, path>>
client == <<chain, token, outcome, base>>
vars == <<versions, inode, path, key, request, chain, token, outcome, base>>

-----------------------------------------------------------------------------
\* Byte sequences.  Offsets are 0-based as in the code, sequences 1-based.

\* What ReadAt returns for the bytes from..to of content c: less at the end of the file.
Slice(c, from, to) == SubSeq(c, from + 1, IF to < Len(c) THEN to + 1 ELSE Len(c))

IsBinary(d) == \E i \in 1..Len(d) : d[i] = "nul"

Newlines(d) == {i \in 1..Len(d) : d[i] = "nl"}

LastOf(S) == CHOOSE i \in S : \A j \in S : j <= i
FirstOf(S) == CHOOSE i \in S : \A j \in S : i <= j

\* truncateToLastNewline: everything when there is no newline.
TruncateToLastNewline(d) ==
  IF Newlines(d) = {} THEN d ELSE SubSeq(d, 1, LastOf(Newlines(d)))

\* countLinesInRange numbers the lines of every chunk from 1.
StartLine(d) == IF d = <<>> THEN 0 ELSE 1

-----------------------------------------------------------------------------
\* Records

VersionBytes(v) == versions[v].bytes
Signature(v) == [mtime |-> versions[v].mtime, size |-> Len(VersionBytes(v))]
StatPath == Signature(inode[path])          \* os.Stat, when path # 0
FdBytes == VersionBytes(inode[request.fd])  \* what the open descriptor reads now

NoRequest == [phase |-> "none"]
NoToken == [signed |-> 0]

Stats == [mtime : Nat, size : Nat]
Requests ==
  [phase : {"open", "read", "extend", "readall"}, mode : {"default", "bytes"},
   key : Nat, stat : Stats, start : Nat, end : Int, fd : Nat, buf : Seq(Byte)]
Tokens ==
  [signed : Nat \ {0}, stat : Stats, offset : Nat, size : Nat]
Chunks ==
  [start : Nat, data : Seq(Byte), encoding : {"utf-8", "base64"}, line : {0, 1},
   at : {"none", "newline", "boundary"}, complete : BOOLEAN]

TypeOK ==
  /\ versions \in Seq([bytes : Seq(Byte), mtime : Nat])
  /\ inode \in Seq(1..Len(versions))
  /\ path \in 0..Len(inode)
  /\ key \in Nat \ {0}
  /\ request = NoRequest \/ request \in Requests
  /\ chain \in Seq(Chunks)
  /\ token = NoToken \/ token \in Tokens
  /\ outcome \in {"none", "reading", "done", "stale", "failed"}
  /\ base \in 1..Len(versions)
  /\ request # NoRequest =>
       /\ outcome = "reading"
       /\ request.key # 0
       /\ request.mode = "default" => request.start = 0
       /\ request.fd <= Len(inode)
       /\ request.phase # "open" => request.fd # 0 /\ request.start <= request.end

-----------------------------------------------------------------------------
\* The environment: another process changes the file, an operator reloads the server.

NewVersion(bytes, tick) ==
  /\ Len(versions) <= MaxWrites
  /\ versions' = Append(versions, [bytes |-> bytes,
                                   mtime |-> versions[Len(versions)].mtime + tick])

Ticks == IF CoarseClock THEN {0, 1} ELSE {1}

\* Truncate and write the same inode: an open descriptor sees it.
Overwrite(bytes, tick) ==
  /\ path # 0
  /\ NewVersion(bytes, tick)
  /\ inode' = [inode EXCEPT ![path] = Len(versions) + 1]
  /\ UNCHANGED <<path, key, request, client>>

\* Create the path anew (write a temporary, rename it over): an open descriptor does not see it.
Replace(bytes, tick) ==
  /\ NewVersion(bytes, tick)
  /\ inode' = Append(inode, Len(versions) + 1)
  /\ path' = Len(inode) + 1
  /\ UNCHANGED <<key, request, client>>

Unlink ==
  /\ path # 0
  /\ path' = 0
  /\ UNCHANGED <<versions, inode, key, request, client>>

\* A new engine draws a new random key.
Reload ==
  /\ key <= MaxReloads
  /\ key' = key + 1
  /\ UNCHANGED <<file, request, client>>

-----------------------------------------------------------------------------
\* A request for the start of a chain.  A client that follows tokens asks for it
\* when it has no chain under way.

\* Read up to its dispatch: os.Stat fails on a missing path.
Read(mode, range) ==
  /\ request = NoRequest
  /\ outcome # "reading"
  /\ chain' = <<>>
  /\ token' = NoToken
  /\ IF path = 0
     THEN outcome' = "failed" /\ UNCHANGED <<request, base>>
     ELSE /\ outcome' = "reading"
          /\ base' = inode[path]
          /\ request' = [phase |-> "open", mode |-> mode, key |-> key, stat |-> StatPath,
                         start |-> range[1], end |-> range[2], fd |-> 0, buf |-> <<>>]
  /\ UNCHANGED <<file, key>>

\* Mutant: an error that is swallowed and leaves the client waiting.
EndChainSilently(how) == UNCHANGED vars

\* A chain that ends in an error: nothing is kept of the request.
EndChain(how) ==
  /\ outcome' = how
  /\ token' = NoToken
  /\ request' = NoRequest
  /\ UNCHANGED <<file, key, chain, base>>

\* Mutants: the Stat of readContinuation compares only the size; nothing.
TokenAcceptedBySize(tok) == /\ tok.signed = key
                            /\ path # 0
                            /\ StatPath.size = tok.stat.size
TokenAcceptedUnchecked(tok) == tok.signed = key /\ path # 0

\* readContinuation up to readBytes: the signature, then Stat against the token.
TokenAccepted(tok) == /\ tok.signed = key
                      /\ path # 0
                      /\ StatPath = tok.stat

Continue ==
  /\ request = NoRequest
  /\ outcome = "reading"
  /\ token # NoToken
  /\ IF ~TokenAccepted(token)
     THEN EndChain("stale")
     ELSE /\ request' = [phase |-> "open", mode |-> "bytes", key |-> key, stat |-> StatPath,
                         start |-> token.offset, end |-> token.offset + token.size - 1,
                         fd |-> 0, buf |-> <<>>]
          /\ UNCHANGED <<file, key, client>>

\* readBytes clips the end of the range to the size Stat reported.
Clip(end, size) == IF end < 0 \/ end >= size THEN size - 1 ELSE end

\* os.Open at the top of readBytes and readDefault, and readBytes' range check.
Open ==
  /\ request.phase = "open"
  /\ LET size == request.stat.size
         end == Clip(request.end, size)
     IN IF path = 0 \/ (request.mode = "bytes" /\ request.start > end)
        THEN EndChain("failed")
        ELSE /\ request' =
                  [request EXCEPT
                     !.fd = path,
                     !.end = IF request.mode = "bytes" THEN end ELSE DefaultChunkSize - 1,
                     !.phase = IF request.mode = "default" /\ size <= DefaultChunkSize
                               THEN "readall" ELSE "read"]
             /\ UNCHANGED <<file, key, client>>

-----------------------------------------------------------------------------
\* Answers.

\* Mutant: the inclusive EndByte taken for the next offset.
NextOffsetInclusive(data) == request.start + Len(data) - 1

\* The token names the byte after the last one delivered.
NextOffset(data) == request.start + Len(data)

\* A chunk is delivered; an incomplete one comes with a token signed by the engine that served it.
Answer(data, encoding, at, complete) ==
  /\ chain' = Append(chain, [start |-> request.start, data |-> data, encoding |-> encoding,
                             line |-> StartLine(data), at |-> at, complete |-> complete])
  /\ token' = IF complete THEN NoToken
              ELSE [signed |-> request.key, stat |-> request.stat,
                    offset |-> NextOffset(data), size |-> request.end - request.start + 1]
  /\ outcome' = IF complete THEN "done" ELSE "reading"
  /\ request' = NoRequest
  /\ UNCHANGED <<file, key, base>>

\* Mutant: the next offset, not EndByte, compared with the last byte.
ReachesEndEarly(data) == NextOffset(data) >= request.stat.size - 1

\* readBytes is complete when its chunk reaches the size Stat reported.
ReachesEnd(data) == NextOffset(data) >= request.stat.size

\* io.ReadAll reads block by block until a read returns nothing.
ReadAll ==
  /\ request.phase = "readall"
  /\ LET block == Slice(FdBytes, Len(request.buf), Len(request.buf) + ReadAllBlock - 1)
     IN IF block # <<>>
        THEN /\ request' = [request EXCEPT !.buf = @ \o block]
             /\ UNCHANGED <<file, key, client>>
        ELSE Answer(request.buf, IF IsBinary(request.buf) THEN "base64" ELSE "utf-8", "none", TRUE)

\* readDefault, a file larger than one chunk: all of the buffer decides between text and binary.
ReadFirstChunk ==
  /\ request.phase = "read"
  /\ request.mode = "default"
  /\ LET buf == Slice(FdBytes, 0, request.end)
     IN IF IsBinary(buf)
        THEN Answer(buf, "base64", "none", FALSE)
        ELSE Answer(TruncateToLastNewline(buf), "utf-8", "newline", FALSE)

\* readBytes up to adjustTextBoundary: its first BinaryDetectSize bytes decide.
ReadRange ==
  /\ request.phase = "read"
  /\ request.mode = "bytes"
  /\ LET buf == Slice(FdBytes, request.start, request.end)
     IN IF IsBinary(Slice(buf, 0, BinaryDetectSize - 1))
        THEN Answer(buf, "base64", "none", ReachesEnd(buf))
        ELSE IF buf = <<>> \/ buf[Len(buf)] = "nl" \/ ReachesEnd(buf)
        THEN Answer(buf, "utf-8", IF buf = <<>> THEN "none" ELSE "newline", ReachesEnd(buf))
        ELSE /\ request' = [request EXCEPT !.phase = "extend", !.buf = buf]
             /\ UNCHANGED <<file, key, client>>

\* adjustTextBoundary: to the next newline within MaxByteOvershoot, else back to the last
\* one in the buffer, else as it is.
AdjustText(buf, extra) ==
  IF Newlines(extra) # {} THEN buf \o SubSeq(extra, 1, FirstOf(Newlines(extra)))
  ELSE TruncateToLastNewline(buf)

\* Mutant: the label of the other branches.
BoundaryKindNewline(buf, extra) == "newline"

BoundaryKind(buf, extra) ==
  IF Newlines(buf) \cup Newlines(extra) = {} THEN "boundary" ELSE "newline"

ExtendRange ==
  /\ request.phase = "extend"
  /\ LET extra == Slice(FdBytes, request.end + 1, request.end + MaxByteOvershoot)
         data == AdjustText(request.buf, extra)
     IN Answer(data, "utf-8", BoundaryKind(request.buf, extra), ReachesEnd(data))

-----------------------------------------------------------------------------
Init ==
  /\ \E c \in Contents : versions = <<[bytes |-> c, mtime |-> 1]>>
  /\ inode = <<1>>
  /\ path = 1
  /\ key = 1
  /\ request = NoRequest
  /\ chain = <<>>
  /\ token = NoToken
  /\ outcome = "none"
  /\ base = 1

Environment ==
  \/ \E c \in Contents, t \in Ticks : Overwrite(c, t) \/ Replace(c, t)
  \/ Unlink
  \/ Reload

Server == Open \/ ReadAll \/ ReadFirstChunk \/ ReadRange \/ ExtendRange

Next ==
  \/ Environment
  \/ Read("default", <<0, -1>>)
  \/ \E r \in ByteRanges : Read("bytes", r)
  \/ Continue
  \/ Server

Spec == Init /\ [][Next]_vars

\* A request that is being served is served to its end, and a client that holds a token
\* uses it; nobody need start a chain, write or reload.
FairSpec == Spec /\ WF_vars(Server) /\ WF_vars(Continue)

-----------------------------------------------------------------------------
\* Properties

\* d is what content c holds from offset s on.
Holds(c, s, d) ==
  /\ s + Len(d) <= Len(c)
  /\ \A i \in 1..Len(d) : d[i] = c[s + i]

\* The chunks of a chain lie end to end: each starts at the byte after the one before it,
\* and the token asks for the byte after the last, whatever the file did in between and
\* however each chunk was cut back or extended (the Offset of read.go:217 and read.go:302).
ChainTiles ==
  /\ \A i \in 1..Len(chain) - 1 :
       chain[i + 1].start = chain[i].start + Len(chain[i].data)
  /\ token # NoToken =>
       /\ chain # <<>>
       /\ token.offset = chain[Len(chain)].start + Len(chain[Len(chain)].data)

\* A torn chunk is the last of its chain.  Every chunk before the last comes from the very
\* version the chain's first Stat saw, though none of the requests held the file still: the
\* Stat of the next request (read.go:326) finds the change.  Needs an mtime that tells writes apart.
SnapshotButLast ==
  ~CoarseClock =>
    \A i \in 1..Len(chain) - 1 : Holds(VersionBytes(base), chain[i].start, chain[i].data)

\* Over a file nobody writes a finished chain is exact: it ends with the last byte, and (with
\* ChainTiles) delivers every byte from its first offset once.
QuietChainIsExact ==
  (Len(versions) = base /\ outcome = "done") =>
    /\ \A i \in 1..Len(chain) : Holds(VersionBytes(base), chain[i].start, chain[i].data)
    /\ chain[Len(chain)].start + Len(chain[Len(chain)].data) = Len(VersionBytes(base))

\* A chunk cut by adjustTextBoundary and labelled "newline" ends with one or at the end of
\* the file its Stat saw, also when the file shrank under the read.
NewlineLabelIsHonest ==
  \A i \in 2..Len(chain) :
    LET c == chain[i]
    IN c.at = "newline" =>
         \/ c.complete
         \/ c.data # <<>> /\ c.data[Len(c.data)] = "nl"

\* A chain that was begun ends: it completes, is refused as stale or fails (the retry loop of
\* the client needs every answered token to move forward or be refused).
ChainEnds == (outcome = "reading") ~> (outcome # "reading")

\* skill.md:90, SKILL.md:187: a file that changed since the token was issued is answered
\* STALE_CONTINUATION, so a chain that completes is of one version.
CompleteChainIsOneVersion ==
  (~CoarseClock /\ outcome = "done" /\ Len(chain) > 1) =>
    \A i \in 1..Len(chain) : Holds(VersionBytes(base), chain[i].start, chain[i].data)
=============================================================================
