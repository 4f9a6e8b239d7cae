------------------------- MODULE ChunkedRead_proofs -------------------------
(***************************************************************************)
(* Theorems about ChunkedRead, for every chunk size, every set of contents *)
(* and any number of writes and reloads.                                   *)
(***************************************************************************)
EXTENDS ChunkedReadRefinement, SequenceFacts

-----------------------------------------------------------------------------
\* What the operators that cut chunks return.

LEMMA SliceLemma ==
  ASSUME NEW c \in Seq(Byte), NEW from \in Nat, NEW to \in Int
  PROVE  LET s == Slice(c, from, to)
         IN /\ s \in Seq(Byte)
            /\ from <= Len(c) => Holds(c, from, s)
            /\ s # <<>> => from + Len(s) <= Len(c)
            /\ \A i \in 1..Len(s) : s[i] = c[from + i]
            /\ (from <= to /\ to < Len(c)) => Len(s) = to - from + 1
            /\ (from <= to /\ s = <<>>) => Len(c) <= from
            /\ Len(s) <= to - from + 1 \/ s = <<>>
<1> DEFINE hi == IF to < Len(c) THEN to + 1 ELSE Len(c)
           s == SubSeq(c, from + 1, hi)
<1>1. hi \in Int /\ hi <= Len(c) /\ from + 1 \in Int /\ Len(c) \in Nat
  OBVIOUS
<1>2. \A i \in (from + 1)..hi : c[i] \in Byte
  BY <1>1
<1>3. /\ s \in Seq(Byte)
      /\ Len(s) = IF from + 1 <= hi THEN hi - (from + 1) + 1 ELSE 0
      /\ \A i \in 1..(hi - (from + 1) + 1) : s[i] = c[from + 1 + i - 1]
  <2> HIDE DEF hi
  <2> QED BY <1>1, <1>2, SubSeqProperties
<1>4. \A i \in 1..Len(s) : s[i] = c[from + i]
  BY <1>1, <1>3
<1>5. from <= Len(c) => from + Len(s) <= Len(c)
  BY <1>1, <1>3
<1>6. s # <<>> => Len(s) \in Nat \ {0}
  BY <1>3, EmptySeq
<1>7. s # <<>> => from + Len(s) <= Len(c)
  BY <1>1, <1>3, <1>6
<1>8. (from <= to /\ to < Len(c)) => Len(s) = to - from + 1
  BY <1>1, <1>3
<1>9. s = Slice(c, from, to)
  BY DEF Slice
<1>10. s = <<>> => Len(s) = 0
  BY EmptySeq
<1> HIDE DEF s
<1>11. (from <= to /\ s = <<>>) => Len(c) <= from
  BY <1>1, <1>3, <1>10
<1>12. Len(s) <= to - from + 1 \/ s = <<>>
  BY <1>1, <1>3, <1>6
<1>13. QED BY <1>3, <1>4, <1>5, <1>7, <1>8, <1>9, <1>11, <1>12 DEF Holds

\* A prefix: d cut somewhere, not made empty.
IsCut(p, d) ==
  /\ p \in Seq(Byte)
  /\ Len(p) <= Len(d)
  /\ \A i \in 1..Len(p) : p[i] = d[i]

LEMMA CutLemma ==
  ASSUME NEW d \in Seq(Byte), NEW n \in 0..Len(d)
  PROVE  IsCut(SubSeq(d, 1, n), d) /\ Len(SubSeq(d, 1, n)) = n
<1>1. \A i \in 1..n : d[i] \in Byte
  OBVIOUS
<1>2. QED BY <1>1, SubSeqProperties DEF IsCut

LEMMA NewlinesLemma ==
  ASSUME NEW d \in Seq(Byte), Newlines(d) # {}
  PROVE  /\ LastOf(Newlines(d)) \in 1..Len(d) /\ FirstOf(Newlines(d)) \in 1..Len(d)
         /\ d[LastOf(Newlines(d))] = "nl" /\ d[FirstOf(Newlines(d))] = "nl"
<1> DEFINE N == Newlines(d)
<1>1. /\ N # {} /\ Len(d) \in Nat
      /\ \A i \in N : i \in Nat
      /\ \A i \in N : i <= Len(d)
      /\ \A i \in N : i \in 1..Len(d) /\ d[i] = "nl"
  BY DEF Newlines
<1>2. \E i \in N : \A j \in N : j <= i
  <2> HIDE DEF N
  <2> DEFINE n == Len(d)
  <2>1. n \in Nat /\ \A i \in N : i <= n
    BY <1>1
  <2> HIDE DEF n
  <2>2. QED BY <1>1, <2>1, LargestOfNat
<1>3. \E i \in N : \A j \in N : i <= j
  <2> HIDE DEF N
  <2> QED BY <1>1, SmallestOfNat
<1> HIDE DEF N
<1>4. LastOf(N) \in N /\ FirstOf(N) \in N
  BY <1>2, <1>3 DEF LastOf, FirstOf
<1>5. QED BY <1>1, <1>4 DEF N

LEMMA TruncateLemma ==
  ASSUME NEW d \in Seq(Byte)
  PROVE  IsCut(TruncateToLastNewline(d), d)
<1>1. CASE Newlines(d) = {}
  BY <1>1 DEF TruncateToLastNewline, IsCut
<1>2. CASE Newlines(d) # {}
  BY <1>2, NewlinesLemma, CutLemma DEF TruncateToLastNewline
<1>3. QED BY <1>1, <1>2

\* A cut of what a file holds is held by the file.
LEMMA CutHolds ==
  ASSUME NEW c \in Seq(Byte), NEW s \in Nat, NEW d \in Seq(Byte), Holds(c, s, d),
         NEW p, IsCut(p, d)
  PROVE  Holds(c, s, p)
<1>1. Len(p) \in Nat /\ Len(d) \in Nat /\ Len(c) \in Nat
  BY DEF IsCut
<1>2. QED BY <1>1 DEF IsCut, Holds

\* Two adjacent pieces of a file make one.
LEMMA ConcatHolds ==
  ASSUME NEW c \in Seq(Byte), NEW s \in Nat, NEW d \in Seq(Byte), NEW e \in Seq(Byte),
         Holds(c, s, d), Holds(c, s + Len(d), e)
  PROVE  Holds(c, s, d \o e)
<1>1. Len(d) \in Nat /\ Len(e) \in Nat /\ Len(c) \in Nat
  OBVIOUS
<1>2. /\ Len(d \o e) = Len(d) + Len(e)
      /\ \A i \in 1..(Len(d) + Len(e)) :
           (d \o e)[i] = IF i <= Len(d) THEN d[i] ELSE e[i - Len(d)]
  BY ConcatProperties
<1>3. s + Len(d \o e) <= Len(c)
  BY <1>1, <1>2 DEF Holds
<1>4. ASSUME NEW i \in 1..Len(d \o e)
      PROVE  (d \o e)[i] = c[s + i]
  <2>1. CASE i <= Len(d)
    BY <1>1, <1>2, <2>1 DEF Holds
  <2>2. CASE i > Len(d)
    <3>1. i - Len(d) \in 1..Len(e)
      BY <1>1, <1>2, <2>2
    <3>2. e[i - Len(d)] = c[s + Len(d) + (i - Len(d))]
      BY <3>1 DEF Holds
    <3>3. s + Len(d) + (i - Len(d)) = s + i
      BY <1>1, <1>2
    <3>4. QED BY <1>1, <1>2, <2>2, <3>2, <3>3
  <2>3. QED BY <1>1, <1>2, <2>1, <2>2
<1>5. QED BY <1>3, <1>4 DEF Holds

LEMMA AdjustLemma ==
  ASSUME NEW buf \in Seq(Byte), NEW extra \in Seq(Byte)
  PROVE  /\ AdjustText(buf, extra) \in Seq(Byte)
         /\ \/ IsCut(AdjustText(buf, extra), buf)
            \/ \E p : IsCut(p, extra) /\ AdjustText(buf, extra) = buf \o p
<1>1. CASE Newlines(extra) = {}
  BY <1>1, TruncateLemma DEF AdjustText, IsCut
<1>2. CASE Newlines(extra) # {}
  <2> DEFINE p == SubSeq(extra, 1, FirstOf(Newlines(extra)))
  <2>1. IsCut(p, extra)
    BY <1>2, NewlinesLemma, CutLemma
  <2>2. AdjustText(buf, extra) = buf \o p
    BY <1>2 DEF AdjustText
  <2>3. buf \o p \in Seq(Byte)
    BY <2>1, ConcatProperties DEF IsCut
  <2> HIDE DEF p
  <2>4. QED BY <2>1, <2>2, <2>3
<1>3. QED BY <1>1, <1>2

-----------------------------------------------------------------------------
\* Type correctness.

LEMMA VersionTypes ==
  ASSUME TypeOK
  PROVE  /\ Len(versions) \in Nat /\ Len(inode) \in Nat
         /\ \A v \in 1..Len(versions) :
              VersionBytes(v) \in Seq(Byte) /\ versions[v].mtime \in Nat /\ Signature(v) \in Stats
         /\ \A i \in 1..Len(inode) : inode[i] \in 1..Len(versions)
         /\ path # 0 => path \in 1..Len(inode) /\ StatPath \in Stats
<1>1. /\ Len(versions) \in Nat /\ Len(inode) \in Nat
      /\ \A i \in 1..Len(inode) : inode[i] \in 1..Len(versions)
  BY LenProperties, ElementOfSeq DEF TypeOK
<1>2. ASSUME NEW v \in 1..Len(versions)
      PROVE  /\ VersionBytes(v) \in Seq(Byte) /\ versions[v].mtime \in Nat
             /\ Signature(v) \in Stats
  <2>1. versions[v] \in [bytes : Seq(Byte), mtime : Nat]
    BY ElementOfSeq DEF TypeOK
  <2>2. QED BY <2>1 DEF VersionBytes, Signature, Stats
<1>3. path # 0 => path \in 1..Len(inode)
  BY <1>1 DEF TypeOK
<1>4. QED BY <1>1, <1>2, <1>3 DEF StatPath

LEMMA RequestTypes ==
  ASSUME TypeOK, request # NoRequest, request.phase # "open"
  PROVE  /\ request \in Requests
         /\ request.fd \in 1..Len(inode)
         /\ FdBytes \in Seq(Byte)
         /\ request.start \in Nat /\ request.end \in Nat /\ request.start <= request.end
         /\ request.buf \in Seq(Byte)
         /\ request.stat \in Stats /\ request.key \in Nat \ {0}
         /\ outcome = "reading"
<1>1. request \in Requests
  BY DEF TypeOK
<1>2. request.fd \in 1..Len(inode)
  BY <1>1, VersionTypes DEF TypeOK, Requests
<1>3. FdBytes \in Seq(Byte)
  BY <1>2, VersionTypes DEF FdBytes
<1>4. /\ request.start \in Nat /\ request.end \in Int /\ request.start <= request.end
      /\ request.buf \in Seq(Byte) /\ request.stat \in Stats /\ request.key \in Nat \ {0}
      /\ outcome = "reading"
  BY <1>1 DEF TypeOK, Requests
<1>5. QED BY <1>1, <1>2, <1>3, <1>4

LEMMA PhaseIsRequest ==
  ASSUME request.phase \in {"open", "read", "extend", "readall"}
  PROVE  request # NoRequest
BY DEF NoRequest

LEMMA EndChainType ==
  ASSUME TypeOK, NEW how \in {"stale", "failed"}, EndChain(how)
  PROVE  TypeOK'
BY DEF TypeOK, EndChain, file, NoRequest, NoToken

LEMMA AnswerType ==
  ASSUME TypeOK, request # NoRequest, request.phase # "open",
         NEW data \in Seq(Byte), NEW encoding \in {"utf-8", "base64"},
         NEW at \in {"none", "newline", "boundary"}, NEW complete \in BOOLEAN,
         Answer(data, encoding, at, complete)
  PROVE  TypeOK'
<1> DEFINE c == [start |-> request.start, data |-> data, encoding |-> encoding,
                 line |-> StartLine(data), at |-> at, complete |-> complete]
           t == [signed |-> request.key, stat |-> request.stat,
                 offset |-> NextOffset(data), size |-> request.end - request.start + 1]
<1>1. c \in Chunks
  BY RequestTypes DEF Chunks, StartLine
<1>2. t \in Tokens
  <2>1. /\ request.start \in Nat /\ request.end \in Nat /\ request.start <= request.end
        /\ request.key \in Nat \ {0} /\ request.stat \in Stats /\ Len(data) \in Nat
    BY RequestTypes
  <2>2. NextOffset(data) \in Nat
    BY <2>1 DEF NextOffset
  <2>3. request.end - request.start + 1 \in Nat
    BY <2>1
  <2>4. QED BY <2>1, <2>2, <2>3 DEF Tokens
<1>3. chain' \in Seq(Chunks)
  <2> HIDE DEF c
  <2>1. chain' = Append(chain, c) /\ chain \in Seq(Chunks)
    BY DEF Answer, TypeOK, c
  <2>2. QED BY <1>1, <2>1, AppendProperties
<1>4. token' = NoToken \/ token' \in Tokens
  BY <1>2 DEF Answer
<1>5. outcome' \in {"none", "reading", "done", "stale", "failed"}
  BY DEF Answer
<1>6. QED BY <1>3, <1>4, <1>5 DEF Answer, TypeOK, file

LEMMA NewVersionType ==
  ASSUME TypeOK, NEW bytes \in Contents, NEW tick \in Ticks, NewVersion(bytes, tick)
  PROVE  /\ versions' \in Seq([bytes : Seq(Byte), mtime : Nat])
         /\ Len(versions') = Len(versions) + 1
         /\ \A v \in 1..Len(versions) : versions'[v] = versions[v]
         /\ versions'[Len(versions) + 1].mtime = versions[Len(versions)].mtime + tick
         /\ 1..Len(versions) \subseteq 1..Len(versions')
         /\ Len(versions) + 1 \in 1..Len(versions')
<1> DEFINE v == [bytes |-> bytes, mtime |-> versions[Len(versions)].mtime + tick]
<1>1. Len(versions) \in 1..Len(versions) /\ tick \in Nat
  BY VersionTypes DEF TypeOK, Ticks
<1>2. v \in [bytes : Seq(Byte), mtime : Nat]
  <2>1. bytes \in Seq(Byte)
    BY InputsAssumption
  <2>2. versions[Len(versions)].mtime + tick \in Nat
    BY <1>1, VersionTypes
  <2>3. QED BY <2>1, <2>2
<1>3. versions' = Append(versions, v) /\ versions \in Seq([bytes : Seq(Byte), mtime : Nat])
  BY DEF NewVersion, TypeOK
<1>4. v.mtime = versions[Len(versions)].mtime + tick
  OBVIOUS
<1> HIDE DEF v
<1>5. QED BY <1>1, <1>2, <1>3, <1>4, AppendProperties

LEMMA OverwriteType ==
  ASSUME TypeOK, NEW bytes \in Contents, NEW tick \in Ticks, Overwrite(bytes, tick)
  PROVE  TypeOK'
<1>1. NewVersion(bytes, tick) /\ path \in 1..Len(inode)
  BY VersionTypes DEF Overwrite
<1>2. inode \in Seq(1..Len(versions'))
  BY <1>1, NewVersionType, SeqMonotonic DEF TypeOK
<1>3. inode' \in Seq(1..Len(versions')) /\ Len(inode') = Len(inode)
  BY <1>1, <1>2, NewVersionType, ExceptSeq DEF Overwrite
<1>4. QED BY <1>1, <1>3, NewVersionType DEF Overwrite, TypeOK, client

LEMMA ReplaceType ==
  ASSUME TypeOK, NEW bytes \in Contents, NEW tick \in Ticks, Replace(bytes, tick)
  PROVE  TypeOK'
<1>1. NewVersion(bytes, tick)
  BY DEF Replace
<1>2. inode \in Seq(1..Len(versions'))
  BY <1>1, NewVersionType, SeqMonotonic DEF TypeOK
<1>3. inode' \in Seq(1..Len(versions')) /\ Len(inode') = Len(inode) + 1
  BY <1>1, <1>2, NewVersionType, AppendProperties DEF Replace
<1>4. Len(inode) \in Nat
  BY VersionTypes
<1>5. path' \in 0..Len(inode')
  BY <1>3, <1>4 DEF Replace
<1>6. request' # NoRequest => request'.fd <= Len(inode')
  <2>1. SUFFICES ASSUME request # NoRequest PROVE request.fd <= Len(inode) + 1
    BY <1>3 DEF Replace
  <2>2. request.fd \in Nat /\ request.fd <= Len(inode)
    BY <2>1 DEF TypeOK, Requests
  <2>3. QED BY <1>4, <2>2
<1>7. QED BY <1>1, <1>3, <1>5, <1>6, NewVersionType DEF Replace, TypeOK, client

LEMMA ReadType ==
  ASSUME TypeOK, NEW mode \in {"default", "bytes"}, NEW range \in Nat \X (Nat \cup {-1}),
         mode = "default" => range[1] = 0, Read(mode, range)
  PROVE  TypeOK'
<1> DEFINE r == [phase |-> "open", mode |-> mode, key |-> key, stat |-> StatPath,
                 start |-> range[1], end |-> range[2], fd |-> 0, buf |-> <<>>]
<1>1. CASE path = 0
  BY <1>1 DEF Read, TypeOK, file, NoToken
<1>2. CASE path # 0
  <2>1. StatPath \in Stats /\ inode[path] \in 1..Len(versions)
    BY <1>2, VersionTypes
  <2>2. range[1] \in Nat /\ range[2] \in Int /\ key \in Nat \ {0}
    BY DEF TypeOK
  <2>3. r \in Requests
    BY <2>1, <2>2, EmptySeq DEF Requests
  <2>4. /\ r.fd <= Len(inode) /\ r.phase = "open" /\ r.key # 0
        /\ r.mode = "default" => r.start = 0
    BY <2>2, VersionTypes
  <2>5. /\ request' = r /\ outcome' = "reading" /\ chain' = <<>> /\ token' = NoToken
        /\ base' = inode[path] /\ UNCHANGED <<versions, inode, path, key>>
    BY <1>2 DEF Read, file
  <2> HIDE DEF r
  <2>6. QED BY <2>1, <2>3, <2>4, <2>5, EmptySeq DEF TypeOK
<1>3. QED BY <1>1, <1>2

LEMMA ContinueType ==
  ASSUME TypeOK, Continue
  PROVE  TypeOK'
<1> DEFINE r == [phase |-> "open", mode |-> "bytes", key |-> key, stat |-> StatPath,
                 start |-> token.offset, end |-> token.offset + token.size - 1,
                 fd |-> 0, buf |-> <<>>]
<1>1. CASE ~TokenAccepted(token)
  BY <1>1, EndChainType DEF Continue
<1>2. CASE TokenAccepted(token)
  <2>1. StatPath \in Stats
    BY <1>2, VersionTypes DEF TokenAccepted
  <2>2. /\ token.offset \in Nat /\ token.size \in Nat /\ key \in Nat \ {0}
        /\ outcome = "reading"
    BY DEF TypeOK, Continue, Tokens
  <2>3. r \in Requests
    BY <2>1, <2>2, EmptySeq DEF Requests
  <2>4. r.fd <= Len(inode) /\ r.phase = "open" /\ r.key # 0 /\ r.mode # "default"
    BY <2>2, VersionTypes
  <2>5. request' = r /\ UNCHANGED <<file, key, client>>
    BY <1>2 DEF Continue
  <2> HIDE DEF r
  <2>6. QED BY <2>2, <2>3, <2>4, <2>5 DEF TypeOK, file, client
<1>3. QED BY <1>1, <1>2

LEMMA OpenType ==
  ASSUME TypeOK, Open
  PROVE  TypeOK'
<1> DEFINE size == request.stat.size
           end == Clip(request.end, size)
           r == [request EXCEPT
                  !.fd = path,
                  !.end = IF request.mode = "bytes" THEN end ELSE DefaultChunkSize - 1,
                  !.phase = IF request.mode = "default" /\ size <= DefaultChunkSize
                            THEN "readall" ELSE "read"]
<1>1. /\ request \in Requests /\ outcome = "reading" /\ request.key # 0
      /\ size \in Nat /\ request.end \in Int /\ request.start \in Nat
  BY PhaseIsRequest DEF Open, TypeOK, Requests, Stats
<1>2. CASE path = 0 \/ (request.mode = "bytes" /\ request.start > end)
  BY <1>2, EndChainType DEF Open
<1>3. CASE ~(path = 0 \/ (request.mode = "bytes" /\ request.start > end))
  <2>1. path \in 1..Len(inode) /\ Len(inode) \in Nat
    BY <1>3, VersionTypes
  <2>2. end \in Int /\ DefaultChunkSize - 1 \in Nat
    BY <1>1, SizesAssumption DEF Clip
  <2> HIDE DEF end, size
  <2>3. r \in Requests
    <3> DEFINE e == IF request.mode = "bytes" THEN end ELSE DefaultChunkSize - 1
               p == IF request.mode = "default" /\ size <= DefaultChunkSize
                    THEN "readall" ELSE "read"
    <3>1. e \in Int /\ p \in {"open", "read", "extend", "readall"} /\ path \in Nat
      BY <2>1, <2>2
    <3> HIDE DEF e, p
    <3>2. [request EXCEPT !.fd = path, !.end = e, !.phase = p] \in Requests
      BY <1>1, <3>1 DEF Requests
    <3>3. QED BY <3>2 DEF e, p
  <2>4. /\ r.fd = path /\ r.key = request.key
        /\ r.mode = "default" => r.start = 0
    BY <1>1, PhaseIsRequest DEF Open, TypeOK, Requests
  <2>5. r.start <= r.end
    <3>1. CASE request.mode = "bytes"
      BY <1>1, <1>3, <2>2, <3>1 DEF Requests
    <3>2. CASE request.mode = "default"
      <4>1. r.end = DefaultChunkSize - 1 /\ r.start = request.start
        BY <1>1, <3>2 DEF Requests
      <4>2. request.start = 0
        BY <1>1, <3>2, PhaseIsRequest DEF Open, TypeOK
      <4>3. QED BY <2>2, <4>1, <4>2
    <3>3. QED BY <1>1, <3>1, <3>2 DEF Requests
  <2>6. request' = r /\ UNCHANGED <<file, key, client>>
    BY <1>3 DEF Open, end, size
  <2> HIDE DEF r
  <2>7. QED BY <1>1, <2>1, <2>3, <2>4, <2>5, <2>6 DEF TypeOK, file, client
<1>4. QED BY <1>2, <1>3

LEMMA ReadAllType ==
  ASSUME TypeOK, ReadAll
  PROVE  TypeOK'
<1> DEFINE block == Slice(FdBytes, Len(request.buf), Len(request.buf) + ReadAllBlock - 1)
           r == [request EXCEPT !.buf = @ \o block]
<1>1. /\ request # NoRequest /\ request.phase # "open" /\ request \in Requests
      /\ request.buf \in Seq(Byte) /\ FdBytes \in Seq(Byte)
  BY PhaseIsRequest, RequestTypes DEF ReadAll
<1>2. CASE block # <<>>
  <2>1. Len(request.buf) \in Nat /\ Len(request.buf) + ReadAllBlock - 1 \in Int
    BY <1>1, SizesAssumption
  <2>2. block \in Seq(Byte)
    BY <1>1, <2>1, SliceLemma
  <2>3. request.buf \o block \in Seq(Byte)
    BY <1>1, <2>2, ConcatProperties
  <2> HIDE DEF block
  <2>4. r \in Requests
    BY <1>1, <2>3 DEF Requests
  <2>5. /\ r.fd = request.fd /\ r.key = request.key /\ r.start = request.start
        /\ r.end = request.end /\ r.phase = request.phase /\ r.mode = request.mode
    BY <1>1 DEF Requests
  <2>6. request' = r /\ UNCHANGED <<file, key, client>>
    BY <1>2 DEF ReadAll, block
  <2> HIDE DEF r
  <2>7. QED BY <1>1, <2>4, <2>5, <2>6 DEF TypeOK, file, client
<1>3. CASE block = <<>>
  <2>1. \E e \in {"utf-8", "base64"} : Answer(request.buf, e, "none", TRUE)
    BY <1>3 DEF ReadAll
  <2>2. QED BY <1>1, <2>1, AnswerType
<1>4. QED BY <1>2, <1>3

LEMMA ReadFirstChunkType ==
  ASSUME TypeOK, ReadFirstChunk
  PROVE  TypeOK'
<1> DEFINE buf == Slice(FdBytes, 0, request.end)
<1>1. /\ request # NoRequest /\ request.phase # "open"
      /\ request.end \in Nat /\ FdBytes \in Seq(Byte)
  BY PhaseIsRequest, RequestTypes DEF ReadFirstChunk
<1>2. buf \in Seq(Byte)
  BY <1>1, SliceLemma
<1>3. TruncateToLastNewline(buf) \in Seq(Byte)
  <2> HIDE DEF buf
  <2> QED BY <1>2, TruncateLemma DEF IsCut
<1>4. \/ Answer(buf, "base64", "none", FALSE)
      \/ Answer(TruncateToLastNewline(buf), "utf-8", "newline", FALSE)
  BY DEF ReadFirstChunk
<1> HIDE DEF buf
<1>5. QED BY <1>1, <1>2, <1>3, <1>4, AnswerType

LEMMA ReadRangeType ==
  ASSUME TypeOK, ReadRange
  PROVE  TypeOK'
<1> DEFINE buf == Slice(FdBytes, request.start, request.end)
           r == [request EXCEPT !.phase = "extend", !.buf = buf]
<1>1. /\ request # NoRequest /\ request.phase # "open" /\ request \in Requests
      /\ request.start \in Nat /\ request.end \in Nat /\ FdBytes \in Seq(Byte)
  BY PhaseIsRequest, RequestTypes DEF ReadRange
<1>2. buf \in Seq(Byte)
  BY <1>1, SliceLemma
<1>3. ReachesEnd(buf) \in BOOLEAN
  BY DEF ReachesEnd
<1>4. \/ Answer(buf, "base64", "none", ReachesEnd(buf))
      \/ Answer(buf, "utf-8", "none", ReachesEnd(buf))
      \/ Answer(buf, "utf-8", "newline", ReachesEnd(buf))
      \/ request' = r /\ UNCHANGED <<file, key, client>>
  BY DEF ReadRange
<1> HIDE DEF buf
<1>5. CASE request' = r /\ UNCHANGED <<file, key, client>>
  <2>1. r \in Requests
    BY <1>1, <1>2 DEF Requests
  <2>2. /\ r.fd = request.fd /\ r.key = request.key /\ r.start = request.start
        /\ r.end = request.end /\ r.phase # "open" /\ r.mode = request.mode
    BY <1>1 DEF Requests
  <2> HIDE DEF r
  <2>3. QED BY <1>1, <1>5, <2>1, <2>2 DEF TypeOK, file, client
<1> HIDE DEF r
<1>6. QED BY <1>1, <1>2, <1>3, <1>4, <1>5, AnswerType

LEMMA ExtendRangeType ==
  ASSUME TypeOK, ExtendRange
  PROVE  TypeOK'
<1> DEFINE extra == Slice(FdBytes, request.end + 1, request.end + MaxByteOvershoot)
           data == AdjustText(request.buf, extra)
<1>1. /\ request # NoRequest /\ request.phase # "open" /\ request.buf \in Seq(Byte)
      /\ request.end \in Nat /\ FdBytes \in Seq(Byte)
  BY PhaseIsRequest, RequestTypes DEF ExtendRange
<1>2. request.end + 1 \in Nat /\ request.end + MaxByteOvershoot \in Int
  BY <1>1, SizesAssumption
<1>3. extra \in Seq(Byte)
  BY <1>1, <1>2, SliceLemma
<1>4. BoundaryKind(request.buf, extra) \in {"none", "newline", "boundary"}
  BY DEF BoundaryKind
<1>5. Answer(data, "utf-8", BoundaryKind(request.buf, extra), ReachesEnd(data))
  BY DEF ExtendRange
<1> HIDE DEF extra
<1>6. data \in Seq(Byte)
  BY <1>1, <1>3, AdjustLemma
<1>7. ReachesEnd(data) \in BOOLEAN
  BY DEF ReachesEnd
<1> HIDE DEF data
<1>8. QED BY <1>1, <1>4, <1>5, <1>6, <1>7, AnswerType

LEMMA InitType == Init => TypeOK
<1> SUFFICES ASSUME Init PROVE TypeOK
  OBVIOUS
<1>1. PICK c \in Contents : versions = <<[bytes |-> c, mtime |-> 1]>>
  BY DEF Init
<1>2. c \in Seq(Byte)
  BY InputsAssumption
<1>3. versions \in Seq([bytes : Seq(Byte), mtime : Nat]) /\ Len(versions) = 1
  BY <1>1, <1>2
<1>4. inode \in Seq(1..Len(versions)) /\ Len(inode) = 1
  BY <1>3 DEF Init
<1>5. QED BY <1>3, <1>4, EmptySeq DEF Init, TypeOK

LEMMA StepType ==
  ASSUME TypeOK, [Next]_vars
  PROVE  TypeOK'
<1>1. CASE UNCHANGED vars
  BY <1>1 DEF vars, TypeOK, NoRequest, NoToken
<1>2. ASSUME NEW c \in Contents, NEW t \in Ticks, Overwrite(c, t) \/ Replace(c, t)
      PROVE  TypeOK'
  BY <1>2, OverwriteType, ReplaceType
<1>3. CASE Unlink
  BY <1>3, VersionTypes DEF Unlink, TypeOK, client
<1>4. CASE Reload
  BY <1>4 DEF Reload, TypeOK, file, client
<1>5. CASE Read("default", <<0, -1>>)
  BY <1>5, ReadType
<1>6. ASSUME NEW r \in ByteRanges, Read("bytes", r)
      PROVE  TypeOK'
  BY <1>6, ReadType, InputsAssumption
<1>7. CASE Continue
  BY <1>7, ContinueType
<1>8. CASE Server
  BY <1>8, OpenType, ReadAllType, ReadFirstChunkType, ReadRangeType, ExtendRangeType DEF Server
<1>9. QED
  BY <1>1, <1>2, <1>3, <1>4, <1>5, <1>6, <1>7, <1>8 DEF Next, Environment

\* Every variable of ChunkedRead keeps its type; among the types, that a request past its
\* os.Open holds a descriptor and a range that is not empty (readBytes refuses the others).
THEOREM TypeCorrect == Spec => []TypeOK
<1>1. TypeOK /\ [Next]_vars => TypeOK'
  BY StepType
<1>2. QED BY <1>1, InitType, PTL DEF Spec

-----------------------------------------------------------------------------
\* Chunks lie end to end.

\* What an answer does to the chain.
LEMMA AnswerChain ==
  ASSUME TypeOK, request # NoRequest, request.phase # "open",
         NEW data \in Seq(Byte), NEW encoding \in {"utf-8", "base64"},
         NEW at \in {"none", "newline", "boundary"}, NEW complete \in BOOLEAN,
         Answer(data, encoding, at, complete)
  PROVE  /\ Len(chain') = Len(chain) + 1 /\ Len(chain) \in Nat /\ chain' # <<>>
         /\ \A i \in 1..Len(chain) : chain'[i] = chain[i]
         /\ chain'[Len(chain')].start = request.start
         /\ chain'[Len(chain')].data = data
         /\ chain'[Len(chain')].at = at /\ chain'[Len(chain')].complete = complete
         /\ request' = NoRequest
         /\ token' # NoToken => token'.offset = request.start + Len(data)
                               /\ token'.stat = request.stat
         /\ UNCHANGED <<versions, inode, path, key, base>>
<1> DEFINE c == [start |-> request.start, data |-> data, encoding |-> encoding,
                 line |-> StartLine(data), at |-> at, complete |-> complete]
<1>1. c \in Chunks /\ c.start = request.start /\ c.data = data /\ c.at = at /\ c.complete = complete
  BY RequestTypes DEF Chunks, StartLine
<1>2. chain' = Append(chain, c) /\ chain \in Seq(Chunks)
  BY DEF Answer, TypeOK
<1> HIDE DEF c
<1>3. /\ Len(chain') = Len(chain) + 1 /\ Len(chain) \in Nat /\ chain' # <<>>
      /\ \A i \in 1..Len(chain) : chain'[i] = chain[i]
      /\ chain'[Len(chain) + 1] = c
  BY <1>1, <1>2, AppendProperties
<1>4. token' # NoToken => token'.offset = request.start + Len(data)
                          /\ token'.stat = request.stat
  BY DEF Answer, NextOffset
<1>5. QED BY <1>1, <1>3, <1>4 DEF Answer, file

\* Every step of the server answers, ends the chain or goes on with the same request.
ServerKeeps ==
  /\ UNCHANGED <<file, key, client>>
  /\ request' # NoRequest
  /\ request'.start = request.start

ServerAnswers ==
  \E data \in Seq(Byte), encoding \in {"utf-8", "base64"},
     at \in {"none", "newline", "boundary"}, complete \in BOOLEAN :
       Answer(data, encoding, at, complete)

LEMMA ServerStep ==
  ASSUME TypeOK, Server
  PROVE  /\ request # NoRequest
         /\ \/ EndChain("failed")
            \/ ServerKeeps
            \/ request.phase # "open" /\ ServerAnswers
<1>1. CASE Open
  <2>1. request \in Requests
    BY <1>1, PhaseIsRequest DEF Open, TypeOK
  <2>2. ASSUME NEW f, NEW e, NEW p \in {"readall", "read"},
               request' = [request EXCEPT !.fd = f, !.end = e, !.phase = p]
        PROVE  request'.start = request.start /\ request' # NoRequest
    BY <2>1, <2>2 DEF Requests, NoRequest
  <2>3. \/ EndChain("failed")
        \/ /\ UNCHANGED <<file, key, client>>
           /\ \E f, e, p : p \in {"readall", "read"}
                          /\ request' = [request EXCEPT !.fd = f, !.end = e, !.phase = p]
    BY <1>1 DEF Open
  <2>4. request # NoRequest
    BY <1>1, PhaseIsRequest DEF Open
  <2>5. QED BY <2>2, <2>3, <2>4 DEF ServerKeeps
<1>2. CASE ReadAll
  <2>1. request \in Requests /\ request # NoRequest /\ request.phase # "open"
        /\ request.buf \in Seq(Byte)
    BY <1>2, PhaseIsRequest, RequestTypes DEF ReadAll
  <2>2. ASSUME NEW b, request' = [request EXCEPT !.buf = b]
        PROVE  request'.start = request.start /\ request' # NoRequest
    BY <2>1, <2>2 DEF Requests, NoRequest
  <2>3. QED BY <1>2, <2>1, <2>2 DEF ReadAll, ServerKeeps, ServerAnswers
<1>3. CASE ReadFirstChunk
  <2>1. request # NoRequest /\ request.phase # "open"
        /\ request.end \in Nat /\ FdBytes \in Seq(Byte)
    BY <1>3, PhaseIsRequest, RequestTypes DEF ReadFirstChunk
  <2>2. Slice(FdBytes, 0, request.end) \in Seq(Byte)
    BY <2>1, SliceLemma
  <2>3. TruncateToLastNewline(Slice(FdBytes, 0, request.end)) \in Seq(Byte)
    BY <2>2, TruncateLemma DEF IsCut
  <2>4. QED BY <1>3, <2>1, <2>2, <2>3 DEF ReadFirstChunk, ServerAnswers
<1>4. CASE ReadRange
  <2> DEFINE buf == Slice(FdBytes, request.start, request.end)
  <2>1. /\ request # NoRequest /\ request.phase # "open" /\ request \in Requests
        /\ request.start \in Nat /\ request.end \in Nat /\ FdBytes \in Seq(Byte)
    BY <1>4, PhaseIsRequest, RequestTypes DEF ReadRange
  <2>2. buf \in Seq(Byte) /\ ReachesEnd(buf) \in BOOLEAN
    BY <2>1, SliceLemma DEF ReachesEnd
  <2>3. ASSUME request' = [request EXCEPT !.phase = "extend", !.buf = buf]
        PROVE  request'.start = request.start /\ request' # NoRequest
    BY <2>1, <2>3 DEF Requests, NoRequest
  <2>4. \/ Answer(buf, "base64", "none", ReachesEnd(buf))
        \/ Answer(buf, "utf-8", "none", ReachesEnd(buf))
        \/ Answer(buf, "utf-8", "newline", ReachesEnd(buf))
        \/ /\ request' = [request EXCEPT !.phase = "extend", !.buf = buf]
           /\ UNCHANGED <<file, key, client>>
    BY <1>4 DEF ReadRange
  <2> HIDE DEF buf
  <2>5. QED BY <2>1, <2>2, <2>3, <2>4 DEF ServerKeeps, ServerAnswers
<1>5. CASE ExtendRange
  <2> DEFINE extra == Slice(FdBytes, request.end + 1, request.end + MaxByteOvershoot)
             data == AdjustText(request.buf, extra)
  <2>1. /\ request # NoRequest /\ request.phase # "open" /\ request.buf \in Seq(Byte)
        /\ request.end + 1 \in Nat /\ request.end + MaxByteOvershoot \in Int
        /\ FdBytes \in Seq(Byte)
    BY <1>5, PhaseIsRequest, RequestTypes, SizesAssumption DEF ExtendRange
  <2>2. extra \in Seq(Byte)
    BY <2>1, SliceLemma
  <2>3. Answer(data, "utf-8", BoundaryKind(request.buf, extra), ReachesEnd(data))
    BY <1>5 DEF ExtendRange
  <2>4. BoundaryKind(request.buf, extra) \in {"none", "newline", "boundary"}
    BY DEF BoundaryKind
  <2> HIDE DEF extra
  <2>5. data \in Seq(Byte) /\ ReachesEnd(data) \in BOOLEAN
    BY <2>1, <2>2, AdjustLemma DEF ReachesEnd
  <2> HIDE DEF data
  <2>6. QED BY <2>1, <2>3, <2>4, <2>5 DEF ServerAnswers
<1>6. QED BY <1>1, <1>2, <1>3, <1>4, <1>5 DEF Server

\* The byte after the last one delivered.
ChainEnd == chain[Len(chain)].start + Len(chain[Len(chain)].data)

TileInv ==
  /\ ChainTiles
  /\ request # NoRequest /\ chain # <<>> => request.start = ChainEnd

LEMMA StepTile ==
  ASSUME TypeOK, TileInv, [Next]_vars
  PROVE  TileInv'
<1>1. CASE UNCHANGED <<request, chain, token>>
  BY <1>1 DEF TileInv, ChainTiles, ChainEnd
<1>2. ASSUME NEW how, EndChain(how)
      PROVE  TileInv'
  BY <1>2 DEF EndChain, TileInv, ChainTiles, ChainEnd
<1>3. ASSUME NEW mode, NEW range, Read(mode, range)
      PROVE  TileInv'
  <2>1. chain' = <<>> /\ token' = NoToken
    BY <1>3 DEF Read
  <2>2. Len(chain') = 0
    BY <2>1
  <2>3. QED BY <2>1, <2>2 DEF TileInv, ChainTiles
<1>4. ASSUME Continue, TokenAccepted(token)
      PROVE  TileInv'
  <2>1. request'.start = token.offset /\ UNCHANGED <<chain, token>> /\ token # NoToken
    BY <1>4 DEF Continue, client
  <2>2. QED BY <2>1 DEF TileInv, ChainTiles, ChainEnd
<1>5. CASE Server
  <2>1. CASE ServerKeeps
    BY <1>5, <2>1, ServerStep DEF ServerKeeps, client, TileInv, ChainTiles, ChainEnd
  <2>2. ASSUME request.phase # "open", NEW data \in Seq(Byte),
               NEW encoding \in {"utf-8", "base64"},
               NEW at \in {"none", "newline", "boundary"}, NEW complete \in BOOLEAN,
               Answer(data, encoding, at, complete)
        PROVE  TileInv'
    <3>1. /\ Len(chain') = Len(chain) + 1 /\ Len(chain) \in Nat /\ chain' # <<>>
          /\ \A i \in 1..Len(chain) : chain'[i] = chain[i]
          /\ chain'[Len(chain')].start = request.start
          /\ chain'[Len(chain')].data = data
          /\ request' = NoRequest
          /\ token' # NoToken => token'.offset = request.start + Len(data)
      BY <1>5, <2>2, ServerStep, AnswerChain
    <3>2. ASSUME NEW i \in 1..Len(chain') - 1
          PROVE  chain'[i + 1].start = chain'[i].start + Len(chain'[i].data)
      <4>1. i \in 1..Len(chain)
        BY <3>1
      <4>2. CASE i = Len(chain)
        <5>1. chain # <<>> /\ request # NoRequest
          BY <1>5, <4>1, <4>2, ServerStep
        <5>2. request.start = ChainEnd
          BY <5>1 DEF TileInv
        <5>3. QED BY <3>1, <4>1, <4>2, <5>2 DEF ChainEnd
      <4>3. CASE i # Len(chain)
        <5>1. i \in 1..Len(chain) - 1 /\ i + 1 \in 1..Len(chain)
          BY <3>1, <4>1, <4>3
        <5>2. QED BY <3>1, <5>1 DEF TileInv, ChainTiles
      <4>4. QED BY <4>2, <4>3
    <3>3. QED BY <3>1, <3>2 DEF TileInv, ChainTiles
  <2>3. QED BY <1>2, <1>5, <2>1, <2>2, ServerStep DEF ServerAnswers
<1>6. CASE Environment
  BY <1>1, <1>6 DEF Environment, Overwrite, Replace, Unlink, Reload, client
<1>7. QED
  BY <1>1, <1>2, <1>3, <1>4, <1>5, <1>6 DEF Next, Continue, vars

\* Whatever happens to the file between and within requests, the chunks a client receives
\* overlap nowhere and leave no gap, and its token asks for the byte after the last.
THEOREM ChunksLieEndToEnd == Spec => []ChainTiles
<1>1. Init => TileInv
  BY EmptySeq DEF Init, TileInv, ChainTiles
<1>2. TypeOK /\ TileInv /\ [Next]_vars => TileInv'
  BY StepTile
<1>3. TileInv => ChainTiles
  BY DEF TileInv
<1>4. QED BY <1>1, <1>2, <1>3, TypeCorrect, PTL DEF Spec

-----------------------------------------------------------------------------
\* A torn chunk is the last of its chain.

\* Nothing was written since the chain's first Stat.
Quiet == Len(versions) = base

BaseBytes == VersionBytes(base)

\* The path leads to the newest version, and mtimes tell versions apart if the clock does.
ClockInv ==
  /\ path # 0 => inode[path] = Len(versions)
  /\ ~CoarseClock =>
       \A i, j \in 1..Len(versions) : i < j => versions[i].mtime < versions[j].mtime

StatInv ==
  /\ request # NoRequest => request.stat = Signature(base)
  /\ token # NoToken => token.stat = Signature(base)

OpenInv ==
  /\ request # NoRequest /\ request.phase = "open" => request.buf = <<>>
  /\ request # NoRequest /\ request.phase # "open" =>
       /\ Quiet => inode[request.fd] = base
       /\ request.mode = "bytes" => request.end < request.stat.size
       /\ request.phase = "readall" => request.mode = "default"
       /\ request.phase = "extend" => request.mode = "bytes"
       /\ request.phase = "read" /\ request.mode = "default" =>
            request.end + 1 < request.stat.size

BufInv ==
  request # NoRequest /\ Quiet =>
    /\ request.phase = "readall" => Holds(BaseBytes, 0, request.buf)
    /\ request.phase = "extend" =>
         /\ Holds(BaseBytes, request.start, request.buf)
         /\ Len(request.buf) = request.end - request.start + 1

\* A chunk is of the snapshot as long as nothing is written; and, if mtimes tell versions
\* apart, when another follows it or another request is under way, for that request's Stat
\* found the snapshot in place.
ChainInv ==
  \A i \in 1..Len(chain) :
    Quiet \/ (~CoarseClock /\ (i < Len(chain) \/ request # NoRequest)) =>
      Holds(BaseBytes, chain[i].start, chain[i].data)

\* A chain that completes while nothing is written has reached the end.
DoneInv ==
  outcome = "done" =>
    /\ request = NoRequest /\ chain # <<>>
    /\ Quiet => ChainEnd = Len(BaseBytes)

SnapInv == ClockInv /\ StatInv /\ OpenInv /\ BufInv /\ ChainInv /\ DoneInv

LEMMA InitSnap == Init => SnapInv
<1> SUFFICES ASSUME Init PROVE SnapInv
  OBVIOUS
<1>1. Len(versions) = 1 /\ Len(chain) = 0 /\ inode[path] = 1
  BY EmptySeq DEF Init
<1>2. request = NoRequest /\ token = NoToken /\ outcome = "none"
  BY DEF Init
<1>3. QED BY <1>1, <1>2 DEF SnapInv, ClockInv, StatInv, OpenInv, BufInv, ChainInv, DoneInv

\* A write leaves the old versions alone and takes the path away from them.
LEMMA WriteFacts ==
  ASSUME TypeOK, ClockInv, NEW bytes \in Contents, NEW tick \in Ticks,
         Overwrite(bytes, tick) \/ Replace(bytes, tick)
  PROVE  /\ VersionBytes(base)' = VersionBytes(base)
         /\ Signature(base)' = Signature(base)
         /\ ~Quiet'
         /\ ClockInv'
         /\ UNCHANGED <<request, client>>
<1>1. NewVersion(bytes, tick) /\ (~CoarseClock => tick = 1) /\ UNCHANGED <<request, client>>
  BY DEF Overwrite, Replace, Ticks
<1>2. /\ Len(versions') = Len(versions) + 1 /\ Len(versions) \in Nat
      /\ \A v \in 1..Len(versions) : versions'[v] = versions[v]
      /\ versions'[Len(versions) + 1].mtime = versions[Len(versions)].mtime + tick
      /\ base \in 1..Len(versions) /\ base' = base
  BY <1>1, NewVersionType, VersionTypes DEF TypeOK, client
<1>3. VersionBytes(base)' = VersionBytes(base) /\ Signature(base)' = Signature(base)
  BY <1>2 DEF VersionBytes, Signature
<1>4. path' # 0 => inode'[path'] = Len(versions) + 1
  <2>1. CASE Overwrite(bytes, tick)
    <3>1. path \in 1..Len(inode) /\ inode \in Seq(1..Len(versions)) /\ path' = path
      BY <2>1, VersionTypes DEF Overwrite, TypeOK
    <3>2. inode' = [inode EXCEPT ![path] = Len(versions) + 1]
      BY <2>1 DEF Overwrite
    <3>3. QED BY <3>1, <3>2
  <2>2. CASE Replace(bytes, tick)
    <3>1. inode \in Seq(Nat) /\ Len(versions) + 1 \in Nat
      BY <1>2, SeqMonotonic DEF TypeOK
    <3>2. inode' = Append(inode, Len(versions) + 1) /\ path' = Len(inode) + 1
      BY <2>2 DEF Replace
    <3>3. QED BY <3>1, <3>2, AppendProperties
  <2>3. QED BY <2>1, <2>2
<1>5. ~Quiet'
  BY <1>2 DEF Quiet
<1>6. ASSUME ~CoarseClock, NEW i \in 1..Len(versions'), NEW j \in 1..Len(versions'), i < j
      PROVE  versions'[i].mtime < versions'[j].mtime
  <2>1. i \in 1..Len(versions) /\ versions'[i] = versions[i]
    BY <1>2, <1>6
  <2>2. CASE j \in 1..Len(versions)
    BY <1>2, <1>6, <2>1, <2>2 DEF ClockInv
  <2>3. CASE j = Len(versions) + 1
    <3>1. Len(versions) \in 1..Len(versions)
      BY <1>2
    <3>2. versions[i].mtime \in Nat /\ versions[Len(versions)].mtime \in Nat
      BY <2>1, <3>1, VersionTypes
    <3>3. versions[i].mtime <= versions[Len(versions)].mtime
      BY <1>2, <1>6, <2>1, <3>1, <3>2 DEF ClockInv
    <3>4. QED BY <1>1, <1>2, <1>6, <2>1, <2>3, <3>2, <3>3
  <2>4. QED BY <1>2, <2>2, <2>3
<1>7. ClockInv'
  BY <1>2, <1>4, <1>6 DEF ClockInv
<1>8. QED BY <1>1, <1>3, <1>5, <1>7

\* The next request's Stat agrees with the token only while the snapshot is in place.
LEMMA AcceptedIsQuiet ==
  ASSUME TypeOK, ~CoarseClock, ClockInv, StatInv, token # NoToken, TokenAccepted(token)
  PROVE  Quiet
<1>1. path # 0 /\ inode[path] \in 1..Len(versions) /\ base \in 1..Len(versions)
  BY VersionTypes DEF TokenAccepted, TypeOK
<1>2. Signature(inode[path]) = Signature(base)
  BY DEF TokenAccepted, StatPath, StatInv
<1>3. versions[inode[path]].mtime = versions[base].mtime
  BY <1>2 DEF Signature
<1>4. versions[inode[path]].mtime \in Nat /\ versions[base].mtime \in Nat
  BY <1>1, VersionTypes
<1>5. inode[path] \in Nat /\ base \in Nat
  BY <1>1
<1>6. inode[path] = base
  BY <1>1, <1>3, <1>4, <1>5 DEF ClockInv
<1>7. QED BY <1>1, <1>6 DEF Quiet, ClockInv

\* While nothing is written, an open descriptor reads the snapshot.
LEMMA FdReadsBase ==
  ASSUME TypeOK, StatInv, OpenInv, request # NoRequest, request.phase # "open"
  PROVE  /\ Quiet => FdBytes = BaseBytes
         /\ request.stat.size = Len(BaseBytes)
<1>1. Quiet => FdBytes = BaseBytes
  BY DEF OpenInv, FdBytes, BaseBytes
<1>2. request.stat.size = Len(BaseBytes)
  BY DEF StatInv, Signature, BaseBytes
<1>3. QED BY <1>1, <1>2

LEMMA BaseBytesType == ASSUME TypeOK PROVE BaseBytes \in Seq(Byte)
BY VersionTypes DEF TypeOK, BaseBytes

LEMMA EndChainSnap ==
  ASSUME TypeOK, SnapInv, NEW how \in {"stale", "failed"}, EndChain(how)
  PROVE  SnapInv'
<1>1. /\ request' = NoRequest /\ token' = NoToken /\ outcome' # "done"
      /\ UNCHANGED <<versions, inode, path, chain, base>>
  BY DEF EndChain, file
<1>2. ClockInv' /\ StatInv' /\ OpenInv' /\ BufInv' /\ DoneInv'
  BY <1>1 DEF SnapInv, ClockInv, StatInv, OpenInv, BufInv, DoneInv
<1>3. ChainInv'
  BY <1>1 DEF SnapInv, ChainInv, Quiet, BaseBytes, VersionBytes
<1>4. QED BY <1>2, <1>3 DEF SnapInv

\* An answer that holds the snapshot's bytes, up to its end if it is the last, while nothing
\* is written.
LEMMA AnswerSnap ==
  ASSUME TypeOK, SnapInv, request # NoRequest, request.phase # "open",
         NEW data \in Seq(Byte), NEW encoding \in {"utf-8", "base64"},
         NEW at \in {"none", "newline", "boundary"}, NEW complete \in BOOLEAN,
         Answer(data, encoding, at, complete),
         Quiet => Holds(BaseBytes, request.start, data),
         Quiet /\ complete => ReachesEnd(data)
  PROVE  SnapInv'
<1>1. /\ Len(chain') = Len(chain) + 1 /\ Len(chain) \in Nat
      /\ \A i \in 1..Len(chain) : chain'[i] = chain[i]
      /\ chain'[Len(chain')].start = request.start
      /\ chain'[Len(chain')].data = data
      /\ request' = NoRequest
      /\ token' # NoToken => token'.stat = request.stat
      /\ UNCHANGED <<versions, inode, path, key, base>>
      /\ chain' # <<>>
  BY AnswerChain
<1>2. ClockInv' /\ OpenInv' /\ BufInv'
  BY <1>1 DEF SnapInv, ClockInv, OpenInv, BufInv
<1>3. StatInv'
  BY <1>1 DEF SnapInv, StatInv, Signature, VersionBytes
<1>4. /\ BaseBytes' = BaseBytes
      /\ Quiet' = Quiet
  BY <1>1 DEF BaseBytes, VersionBytes, Quiet
<1>5. ASSUME NEW i \in 1..Len(chain'), Quiet' \/ (~CoarseClock /\ i < Len(chain'))
      PROVE  Holds(BaseBytes', chain'[i].start, chain'[i].data)
  <2>1. CASE i = Len(chain')
    BY <1>1, <1>4, <1>5, <2>1
  <2>2. CASE i # Len(chain')
    <3>1. i \in 1..Len(chain)
      BY <1>1, <2>2
    <3>2. Holds(BaseBytes, chain[i].start, chain[i].data)
      BY <1>4, <1>5, <3>1 DEF SnapInv, ChainInv
    <3>3. QED BY <1>1, <1>4, <3>1, <3>2
  <2>3. QED BY <2>1, <2>2
<1>6. ChainInv'
  <2>1. \A i \in 1..Len(chain') :
          Quiet' \/ (~CoarseClock /\ i < Len(chain')) =>
            Holds(BaseBytes', chain'[i].start, chain'[i].data)
    BY <1>5
  <2>2. QED BY <1>1, <2>1 DEF ChainInv
<1>7. DoneInv'
  <2>1. outcome' = "done" => complete
    BY DEF Answer
  <2>2. ASSUME complete, Quiet PROVE request.start + Len(data) = Len(BaseBytes)
    <3>1. request.start + Len(data) >= Len(BaseBytes)
      BY <2>2 DEF ReachesEnd, NextOffset, SnapInv, StatInv, Signature, BaseBytes
    <3>2. request.start + Len(data) <= Len(BaseBytes) /\ request.start \in Nat /\ Len(data) \in Nat
      BY <2>2, RequestTypes DEF Holds
    <3>3. Len(BaseBytes) \in Nat
      BY BaseBytesType
    <3>4. QED BY <3>1, <3>2, <3>3
  <2>3. ChainEnd' = request.start + Len(data)
    BY <1>1 DEF ChainEnd
  <2>4. QED BY <1>1, <1>4, <2>1, <2>2, <2>3 DEF DoneInv
<1>8. QED BY <1>2, <1>3, <1>6, <1>7 DEF SnapInv

\* A step that goes on with the same request in the same file.
LEMMA KeepsSnap ==
  ASSUME TypeOK, SnapInv, request # NoRequest, UNCHANGED <<file, key, client>>,
         request'.stat = request.stat, request' # NoRequest, OpenInv', BufInv'
  PROVE  SnapInv'
<1>1. UNCHANGED <<versions, inode, path, chain, token, base>>
  BY DEF file, client
<1>2. DoneInv'
  <2>1. outcome' = "reading"
    BY DEF TypeOK, client
  <2>2. QED BY <2>1 DEF DoneInv
<1>3. ClockInv' /\ StatInv'
  BY <1>1 DEF SnapInv, ClockInv, StatInv, Signature, VersionBytes
<1>4. ChainInv'
  BY <1>1 DEF SnapInv, ChainInv, Quiet, BaseBytes, VersionBytes
<1>5. QED BY <1>2, <1>3, <1>4 DEF SnapInv

LEMMA OpenSnap ==
  ASSUME TypeOK, SnapInv, Open
  PROVE  SnapInv'
<1> DEFINE size == request.stat.size
           end == Clip(request.end, size)
           e == IF request.mode = "bytes" THEN end ELSE DefaultChunkSize - 1
           p == IF request.mode = "default" /\ size <= DefaultChunkSize
                THEN "readall" ELSE "read"
<1>1. /\ request \in Requests /\ request # NoRequest /\ size \in Nat /\ request.end \in Int
      /\ request.phase = "open"
  BY PhaseIsRequest DEF Open, TypeOK, Requests, Stats
<1>2. CASE EndChain("failed")
  BY <1>2, EndChainSnap
<1>3. CASE ~EndChain("failed")
  <2>1. /\ request' = [request EXCEPT !.fd = path, !.end = e, !.phase = p]
        /\ UNCHANGED <<file, key, client>>
    BY <1>3 DEF Open
  <2>2. /\ end < size
        /\ p \in {"readall", "read"} /\ (p = "readall" => request.mode = "default")
        /\ request.mode = "bytes" => e = end
        /\ p = "read" /\ request.mode = "default" => e + 1 < size
    BY <1>1, SizesAssumption DEF Clip, Requests
  <2> HIDE DEF e, p, end
  <2>3. /\ request'.fd = path /\ request'.end = e /\ request'.phase = p
        /\ request'.mode = request.mode /\ request'.stat = request.stat
        /\ request'.start = request.start /\ request'.buf = request.buf
    BY <1>1, <2>1 DEF Requests
  <2>4. request' # NoRequest
    BY <2>2, <2>3 DEF NoRequest
  <2>5. OpenInv'
    <3>1. path # 0 /\ UNCHANGED <<versions, inode, path, base>>
      BY <1>3, <2>1 DEF Open, file, client
    <3>2. Quiet' => inode'[request'.fd] = base'
      BY <2>3, <3>1 DEF SnapInv, ClockInv, Quiet
    <3>3. QED BY <2>2, <2>3, <3>2 DEF OpenInv
  <2>6. request.buf = <<>>
    BY <1>1 DEF SnapInv, OpenInv
  <2>7. Holds(BaseBytes', 0, request.buf)
    <3>1. BaseBytes' = BaseBytes /\ Len(BaseBytes) \in Nat /\ Len(<<>>) = 0
      BY <2>1, BaseBytesType, EmptySeq DEF file, client, BaseBytes, VersionBytes
    <3>2. QED BY <2>6, <3>1 DEF Holds
  <2>8. BufInv'
    BY <2>2, <2>3, <2>7 DEF BufInv
  <2>9. QED BY <1>1, <2>1, <2>3, <2>4, <2>5, <2>8, KeepsSnap
<1>4. QED BY <1>2, <1>3

LEMMA ReadAllSnap ==
  ASSUME TypeOK, SnapInv, ReadAll
  PROVE  SnapInv'
<1> DEFINE block == Slice(FdBytes, Len(request.buf), Len(request.buf) + ReadAllBlock - 1)
<1>1. /\ request # NoRequest /\ request.phase = "readall" /\ request \in Requests
      /\ request.buf \in Seq(Byte) /\ FdBytes \in Seq(Byte)
      /\ Len(request.buf) \in Nat /\ Len(request.buf) + ReadAllBlock - 1 \in Int
      /\ request.mode = "default" /\ request.start = 0
  <2>1. /\ request.phase = "readall" /\ request # NoRequest /\ request \in Requests
        /\ FdBytes \in Seq(Byte)
    BY PhaseIsRequest, RequestTypes DEF ReadAll
  <2>2. request.buf \in Seq(Byte)
    BY <2>1 DEF Requests
  <2>3. Len(request.buf) \in Nat /\ Len(request.buf) + ReadAllBlock - 1 \in Int
    BY <2>2, LenProperties, SizesAssumption
  <2>4. request.mode = "default"
    BY <2>1 DEF SnapInv, OpenInv
  <2>5. request.start = 0
    BY <2>1, <2>4 DEF TypeOK
  <2>6. QED BY <2>1, <2>2, <2>3, <2>4, <2>5
<1>2. Quiet => Holds(BaseBytes, 0, request.buf) /\ FdBytes = BaseBytes
  BY <1>1, FdReadsBase DEF SnapInv, BufInv
<1>3. CASE block # <<>>
  <2>1. block \in Seq(Byte) /\ (Len(request.buf) <= Len(FdBytes) => Holds(FdBytes, Len(request.buf), block))
    BY <1>1, SliceLemma
  <2>2. request' = [request EXCEPT !.buf = @ \o block] /\ UNCHANGED <<file, key, client>>
    BY <1>3 DEF ReadAll
  <2> HIDE DEF block
  <2>3. /\ request'.buf = request.buf \o block /\ request'.phase = "readall"
        /\ request'.mode = request.mode /\ request'.stat = request.stat
        /\ request'.fd = request.fd /\ request'.end = request.end
    BY <1>1, <2>2 DEF Requests
  <2>4. Quiet => Holds(BaseBytes, 0, request.buf \o block)
    <3> SUFFICES ASSUME Quiet PROVE Holds(BaseBytes, 0, request.buf \o block)
      OBVIOUS
    <3>1. Holds(BaseBytes, 0, request.buf) /\ FdBytes = BaseBytes /\ BaseBytes \in Seq(Byte)
      BY <1>2, BaseBytesType
    <3>2. Len(request.buf) <= Len(BaseBytes)
      BY <1>1, <3>1 DEF Holds
    <3>3. Holds(BaseBytes, 0 + Len(request.buf), block)
      BY <1>1, <2>1, <3>1, <3>2
    <3>4. QED BY <1>1, <2>1, <3>1, <3>3, ConcatHolds
  <2>5. UNCHANGED <<versions, inode, path, base>>
    BY <2>2 DEF file, client
  <2>6. BufInv'
    BY <2>3, <2>4, <2>5 DEF BufInv, Quiet, BaseBytes, VersionBytes
  <2>7. OpenInv'
    BY <1>1, <2>3, <2>5 DEF SnapInv, OpenInv, Quiet
  <2>8. request' # NoRequest
    BY <2>3 DEF NoRequest
  <2>9. QED BY <1>1, <2>2, <2>3, <2>6, <2>7, <2>8, KeepsSnap
<1>4. CASE block = <<>>
  <2>1. \E e \in {"utf-8", "base64"} : Answer(request.buf, e, "none", TRUE)
    BY <1>4 DEF ReadAll
  <2>2. Len(FdBytes) <= Len(request.buf)
    <3>1. Len(request.buf) <= Len(request.buf) + ReadAllBlock - 1
      BY <1>1, SizesAssumption
    <3>2. QED BY <1>1, <1>4, <3>1, SliceLemma
  <2>3. Quiet => ReachesEnd(request.buf)
    BY <1>1, <1>2, <2>2, BaseBytesType DEF ReachesEnd, NextOffset, SnapInv, StatInv, Signature, BaseBytes
  <2>4. QED BY <1>1, <1>2, <2>1, <2>3, AnswerSnap
<1>5. QED BY <1>3, <1>4

LEMMA ReadFirstChunkSnap ==
  ASSUME TypeOK, SnapInv, ReadFirstChunk
  PROVE  SnapInv'
<1> DEFINE buf == Slice(FdBytes, 0, request.end)
           cut == TruncateToLastNewline(buf)
<1>1. /\ request # NoRequest /\ request.phase # "open" /\ request.start = 0
      /\ request.end \in Nat /\ FdBytes \in Seq(Byte) /\ 0 <= Len(FdBytes)
  BY PhaseIsRequest, RequestTypes DEF ReadFirstChunk, TypeOK
<1>2. buf \in Seq(Byte) /\ Holds(FdBytes, 0, buf)
  BY <1>1, SliceLemma
<1>3. Answer(buf, "base64", "none", FALSE) \/ Answer(cut, "utf-8", "newline", FALSE)
  BY DEF ReadFirstChunk
<1> HIDE DEF buf
<1>4. cut \in Seq(Byte) /\ Holds(FdBytes, 0, cut)
  BY <1>1, <1>2, TruncateLemma, CutHolds DEF IsCut
<1> HIDE DEF cut
<1>5. Quiet => FdBytes = BaseBytes
  BY <1>1, FdReadsBase DEF SnapInv
<1>6. QED BY <1>1, <1>2, <1>3, <1>4, <1>5, AnswerSnap

LEMMA ReadRangeSnap ==
  ASSUME TypeOK, SnapInv, ReadRange
  PROVE  SnapInv'
<1> DEFINE buf == Slice(FdBytes, request.start, request.end)
<1>1. /\ request # NoRequest /\ request.phase # "open" /\ request \in Requests
      /\ request.start \in Nat /\ request.end \in Nat /\ request.start <= request.end
      /\ FdBytes \in Seq(Byte) /\ request.mode = "bytes" /\ Len(FdBytes) \in Nat
  BY PhaseIsRequest, RequestTypes DEF ReadRange
<1>2. Quiet => FdBytes = BaseBytes /\ request.end < Len(FdBytes)
  BY <1>1, FdReadsBase DEF SnapInv, OpenInv
<1>3. /\ buf \in Seq(Byte)
      /\ Quiet => Holds(FdBytes, request.start, buf)
                    /\ Len(buf) = request.end - request.start + 1
  BY <1>1, <1>2, SliceLemma
<1>4. ReachesEnd(buf) \in BOOLEAN
  BY DEF ReachesEnd
<1>5. \/ Answer(buf, "base64", "none", ReachesEnd(buf))
      \/ Answer(buf, "utf-8", "none", ReachesEnd(buf))
      \/ Answer(buf, "utf-8", "newline", ReachesEnd(buf))
      \/ /\ request' = [request EXCEPT !.phase = "extend", !.buf = buf]
         /\ UNCHANGED <<file, key, client>>
  BY DEF ReadRange
<1> HIDE DEF buf
<1>6. ASSUME request' = [request EXCEPT !.phase = "extend", !.buf = buf],
             UNCHANGED <<file, key, client>>
      PROVE  SnapInv'
  <2>1. /\ request'.buf = buf /\ request'.phase = "extend" /\ request'.mode = request.mode
        /\ request'.stat = request.stat /\ request'.fd = request.fd
        /\ request'.start = request.start /\ request'.end = request.end
    BY <1>1, <1>6 DEF Requests
  <2>2. UNCHANGED <<versions, inode, path, base>>
    BY <1>6 DEF file, client
  <2>3. OpenInv'
    BY <1>1, <2>1, <2>2 DEF SnapInv, OpenInv, Quiet
  <2>4. BufInv'
    BY <1>2, <1>3, <2>1, <2>2 DEF BufInv, Quiet, BaseBytes, VersionBytes
  <2>5. request' # NoRequest
    BY <2>1 DEF NoRequest
  <2>6. QED BY <1>1, <1>6, <2>1, <2>3, <2>4, <2>5, KeepsSnap
<1>7. QED BY <1>1, <1>2, <1>3, <1>4, <1>5, <1>6, AnswerSnap

LEMMA ExtendRangeSnap ==
  ASSUME TypeOK, SnapInv, ExtendRange
  PROVE  SnapInv'
<1> DEFINE extra == Slice(FdBytes, request.end + 1, request.end + MaxByteOvershoot)
           data == AdjustText(request.buf, extra)
<1>1. /\ request # NoRequest /\ request.phase = "extend" /\ request.buf \in Seq(Byte)
      /\ request.start \in Nat /\ request.end \in Nat /\ request.start <= request.end
      /\ FdBytes \in Seq(Byte) /\ Len(FdBytes) \in Nat /\ request.mode = "bytes"
      /\ request.end + 1 \in Nat /\ request.end + MaxByteOvershoot \in Int
  BY PhaseIsRequest, RequestTypes, SizesAssumption DEF ExtendRange, SnapInv, OpenInv
<1>2. /\ extra \in Seq(Byte)
      /\ request.end + 1 <= Len(FdBytes) => Holds(FdBytes, request.end + 1, extra)
  BY <1>1, SliceLemma
<1>3. Answer(data, "utf-8", BoundaryKind(request.buf, extra), ReachesEnd(data))
  BY DEF ExtendRange
<1>4. /\ BoundaryKind(request.buf, extra) \in {"none", "newline", "boundary"}
      /\ ReachesEnd(data) \in BOOLEAN
  BY DEF BoundaryKind, ReachesEnd
<1> HIDE DEF extra
<1>5. /\ data \in Seq(Byte)
      /\ \/ IsCut(data, request.buf)
         \/ \E p : IsCut(p, extra) /\ data = request.buf \o p
  BY <1>1, <1>2, AdjustLemma
<1> HIDE DEF data
<1>6. ASSUME Quiet
      PROVE  Holds(BaseBytes, request.start, data)
  <2>1. /\ FdBytes = BaseBytes /\ request.end < Len(FdBytes)
        /\ Holds(BaseBytes, request.start, request.buf)
        /\ Len(request.buf) = request.end - request.start + 1
    BY <1>1, <1>6, FdReadsBase DEF SnapInv, OpenInv, BufInv
  <2>2. CASE IsCut(data, request.buf)
    BY <1>1, <2>1, <2>2, CutHolds
  <2>3. ASSUME NEW p, IsCut(p, extra), data = request.buf \o p
        PROVE  Holds(BaseBytes, request.start, data)
    <3>1. request.end + 1 = request.start + Len(request.buf)
      BY <1>1, <2>1
    <3>2. Holds(BaseBytes, request.end + 1, extra)
      BY <1>1, <1>2, <2>1
    <3>3. Holds(BaseBytes, request.end + 1, p) /\ p \in Seq(Byte)
      BY <1>1, <1>2, <2>1, <2>3, <3>2, CutHolds DEF IsCut
    <3>4. QED BY <1>1, <2>1, <2>3, <3>1, <3>3, ConcatHolds
  <2>4. QED BY <1>5, <2>2, <2>3
<1>7. QED BY <1>1, <1>3, <1>4, <1>5, <1>6, AnswerSnap

\* The parts of the invariant that a step which leaves the file and the chain alone keeps.
LEMMA SameSnap ==
  ASSUME SnapInv, UNCHANGED <<versions, inode, chain, token, outcome, base, request>>,
         path' = path \/ path' = 0
  PROVE  SnapInv'
<1>1. Quiet' = Quiet /\ BaseBytes' = BaseBytes /\ Signature(base)' = Signature(base)
  BY DEF Quiet, BaseBytes, VersionBytes, Signature
<1>2. ClockInv' /\ StatInv' /\ OpenInv'
  BY <1>1 DEF SnapInv, ClockInv, StatInv, OpenInv
<1>3. BufInv' /\ ChainInv' /\ DoneInv'
  BY <1>1 DEF SnapInv, BufInv, ChainInv, DoneInv, ChainEnd
<1>4. QED BY <1>2, <1>3 DEF SnapInv

LEMMA StepSnap ==
  ASSUME TypeOK, SnapInv, [Next]_vars
  PROVE  SnapInv'
<1>1. CASE UNCHANGED vars \/ Unlink \/ Reload
  BY <1>1, SameSnap DEF vars, Unlink, Reload, file, client
<1>2. ASSUME NEW bytes \in Contents, NEW tick \in Ticks,
             Overwrite(bytes, tick) \/ Replace(bytes, tick)
      PROVE  SnapInv'
  <2>1. /\ VersionBytes(base)' = VersionBytes(base)
        /\ Signature(base)' = Signature(base)
        /\ ~Quiet'
        /\ ClockInv'
        /\ UNCHANGED <<request, client>>
    BY <1>2, WriteFacts DEF SnapInv
  <2>2. request' = request /\ token' = token /\ chain' = chain /\ outcome' = outcome
    BY <2>1 DEF client
  <2>3. StatInv'
    BY <2>1, <2>2 DEF SnapInv, StatInv
  <2>4. OpenInv' /\ BufInv' /\ DoneInv'
    BY <2>1, <2>2 DEF SnapInv, OpenInv, BufInv, DoneInv
  <2>5. ChainInv'
    BY <2>1, <2>2 DEF SnapInv, ChainInv, BaseBytes
  <2>6. QED BY <2>1, <2>3, <2>4, <2>5 DEF SnapInv
<1>3. ASSUME NEW mode, NEW range, Read(mode, range)
      PROVE  SnapInv'
  <2>1. /\ request = NoRequest /\ UNCHANGED <<versions, inode, path>>
        /\ chain' = <<>> /\ Len(chain') = 0 /\ token' = NoToken /\ outcome' # "done"
    BY <1>3, EmptySeq DEF Read, file
  <2>2. ClockInv' /\ ChainInv' /\ DoneInv'
    BY <2>1 DEF SnapInv, ClockInv, ChainInv, DoneInv
  <2>3. CASE path = 0
    BY <2>1, <2>2, <2>3, <1>3 DEF Read, SnapInv, StatInv, OpenInv, BufInv
  <2>4. CASE path # 0
    <3>1. /\ request'.phase = "open" /\ request'.stat = StatPath /\ request'.buf = <<>>
          /\ base' = inode[path]
      BY <2>4, <1>3 DEF Read
    <3>2. StatInv'
      BY <2>1, <3>1 DEF StatInv, StatPath, Signature, VersionBytes
    <3>3. OpenInv' /\ BufInv'
      BY <3>1 DEF OpenInv, BufInv
    <3>4. QED BY <2>2, <3>2, <3>3 DEF SnapInv
  <2>5. QED BY <2>3, <2>4
<1>4. CASE Continue
  <2>1. CASE EndChain("stale")
    BY <2>1, EndChainSnap
  <2>2. CASE ~EndChain("stale")
    <3>1. /\ request = NoRequest /\ token # NoToken /\ TokenAccepted(token)
          /\ request'.phase = "open" /\ request'.stat = StatPath /\ request'.buf = <<>>
          /\ UNCHANGED <<versions, inode, path, chain, token, base>> /\ outcome' = "reading"
      BY <1>4, <2>2 DEF Continue, file, client
    <3>2. StatPath = Signature(base) /\ (~CoarseClock => Quiet)
      BY <3>1, AcceptedIsQuiet DEF SnapInv, StatInv, TokenAccepted
    <3>3. StatInv'
      BY <3>1, <3>2 DEF SnapInv, StatInv, Signature, VersionBytes
    <3>4. ClockInv' /\ OpenInv' /\ BufInv' /\ DoneInv'
      BY <3>1 DEF SnapInv, ClockInv, OpenInv, BufInv, DoneInv
    <3>5. ChainInv'
      BY <3>1, <3>2 DEF SnapInv, ChainInv, BaseBytes, VersionBytes, Quiet
    <3>6. QED BY <3>3, <3>4, <3>5 DEF SnapInv
  <2>3. QED BY <2>1, <2>2
<1>5. CASE Server
  BY <1>5, OpenSnap, ReadAllSnap, ReadFirstChunkSnap, ReadRangeSnap, ExtendRangeSnap DEF Server
<1>6. QED BY <1>1, <1>2, <1>3, <1>4, <1>5 DEF Next, Environment

LEMMA SnapHolds == Spec => []SnapInv
<1>1. TypeOK /\ SnapInv /\ [Next]_vars => SnapInv'
  BY StepSnap
<1>2. QED BY <1>1, InitSnap, TypeCorrect, PTL DEF Spec

\* Whoever writes, renames or removes the file between any two steps of any request: every
\* chunk but the last of a chain is of the version its first Stat saw (SnapshotButLast).
THEOREM TornChunkIsLast == Spec => []SnapshotButLast
<1>1. TypeOK /\ SnapInv => SnapshotButLast
  <2> SUFFICES ASSUME TypeOK, SnapInv PROVE SnapshotButLast
    OBVIOUS
  <2>1. Len(chain) \in Nat
    BY LenProperties DEF TypeOK
  <2>2. QED BY <2>1 DEF SnapInv, ChainInv, SnapshotButLast, BaseBytes
<1>2. QED BY <1>1, SnapHolds, TypeCorrect, PTL

\* A chain that finishes over a file nobody wrote is the file from its first offset to the last
\* byte, even if the clock cannot tell writes apart and the path was removed meanwhile: cuts,
\* extensions and the test for completeness (read.go:205) agree.
THEOREM QuietChainIsWhole == Spec => []QuietChainIsExact
<1>1. SnapInv => QuietChainIsExact
  BY DEF SnapInv, ChainInv, DoneInv, Quiet, ChainEnd, BaseBytes, QuietChainIsExact
<1>2. QED BY <1>1, SnapHolds, PTL

-----------------------------------------------------------------------------
\* The label of a chunk that was cut at a newline.

EndsWithNewline(d) == d # <<>> /\ d[Len(d)] = "nl"

LEMMA PrefixToNewline ==
  ASSUME NEW d \in Seq(Byte), NEW n \in 1..Len(d), d[n] = "nl"
  PROVE  EndsWithNewline(SubSeq(d, 1, n)) /\ SubSeq(d, 1, n) \in Seq(Byte)
<1>1. n \in 0..Len(d) /\ n \in 1..n
  OBVIOUS
<1>2. IsCut(SubSeq(d, 1, n), d) /\ Len(SubSeq(d, 1, n)) = n
  BY <1>1, CutLemma
<1> DEFINE p == SubSeq(d, 1, n)
<1> HIDE DEF p
<1>3. p \in Seq(Byte) /\ Len(p) = n /\ p[n] = "nl"
  BY <1>1, <1>2 DEF IsCut, p
<1>4. p # <<>>
  BY <1>3, EmptySeq
<1>5. EndsWithNewline(p)
  BY <1>3, <1>4 DEF EndsWithNewline
<1>6. QED BY <1>3, <1>5 DEF p

\* Where adjustTextBoundary finds a newline, behind the range or in it, the chunk ends with one.
LEMMA AdjustedEnd ==
  ASSUME NEW buf \in Seq(Byte), NEW extra \in Seq(Byte), BoundaryKind(buf, extra) = "newline"
  PROVE  EndsWithNewline(AdjustText(buf, extra))
<1>1. CASE Newlines(extra) # {}
  <2> DEFINE p == SubSeq(extra, 1, FirstOf(Newlines(extra)))
  <2>1. EndsWithNewline(p) /\ p \in Seq(Byte)
    BY <1>1, NewlinesLemma, PrefixToNewline
  <2>2. AdjustText(buf, extra) = buf \o p
    BY <1>1 DEF AdjustText
  <2> HIDE DEF p
  <2>3. Len(p) \in Nat \ {0} /\ Len(buf) \in Nat /\ p[Len(p)] = "nl"
    BY <2>1, EmptySeq, LenProperties DEF EndsWithNewline
  <2>4. /\ buf \o p \in Seq(Byte) /\ Len(buf \o p) = Len(buf) + Len(p)
        /\ \A i \in 1..(Len(buf) + Len(p)) :
             (buf \o p)[i] = IF i <= Len(buf) THEN buf[i] ELSE p[i - Len(buf)]
    BY <2>1, ConcatProperties
  <2> DEFINE u == buf \o p
  <2> HIDE DEF u
  <2>5. /\ Len(u) = Len(buf) + Len(p) /\ Len(u) \in 1..(Len(buf) + Len(p))
        /\ ~(Len(u) <= Len(buf)) /\ Len(u) - Len(buf) = Len(p)
    BY <2>3, <2>4 DEF u
  <2>6. u[Len(u)] = p[Len(p)] /\ u # <<>>
    BY <2>3, <2>4, <2>5, EmptySeq DEF u
  <2>7. QED BY <2>2, <2>3, <2>6 DEF u, EndsWithNewline
<1>2. CASE Newlines(extra) = {}
  <2>1. Newlines(buf) # {}
    BY <1>2 DEF BoundaryKind
  <2>2. AdjustText(buf, extra) = SubSeq(buf, 1, LastOf(Newlines(buf)))
    BY <1>2, <2>1 DEF AdjustText, TruncateToLastNewline
  <2>3. QED BY <2>1, <2>2, NewlinesLemma, PrefixToNewline
<1>3. QED BY <1>1, <1>2

\* Only the first request of a chain reads by default.
LabelInv ==
  /\ NewlineLabelIsHonest
  /\ request # NoRequest /\ request.mode = "default" => chain = <<>>

LEMMA AnswerLabel ==
  ASSUME TypeOK, LabelInv, request # NoRequest, request.phase # "open",
         NEW data \in Seq(Byte), NEW encoding \in {"utf-8", "base64"},
         NEW at \in {"none", "newline", "boundary"}, NEW complete \in BOOLEAN,
         Answer(data, encoding, at, complete),
         at = "newline" => complete \/ request.mode = "default" \/ EndsWithNewline(data)
  PROVE  LabelInv'
<1>1. /\ Len(chain') = Len(chain) + 1 /\ Len(chain) \in Nat
      /\ \A i \in 1..Len(chain) : chain'[i] = chain[i]
      /\ chain'[Len(chain')].data = data
      /\ chain'[Len(chain')].at = at /\ chain'[Len(chain')].complete = complete
      /\ request' = NoRequest
  BY AnswerChain
<1>2. ASSUME NEW i \in 2..Len(chain'), chain'[i].at = "newline"
      PROVE  chain'[i].complete \/ EndsWithNewline(chain'[i].data)
  <2>1. CASE i = Len(chain')
    <3>1. chain # <<>>
      BY <1>1, <2>1, EmptySeq
    <3>2. request.mode # "default"
      BY <3>1 DEF LabelInv
    <3>3. QED BY <1>1, <1>2, <2>1, <3>2
  <2>2. CASE i # Len(chain')
    <3>1. i \in 2..Len(chain) /\ i \in 1..Len(chain)
      BY <1>1, <2>2
    <3>2. QED BY <1>1, <1>2, <3>1 DEF LabelInv, NewlineLabelIsHonest, EndsWithNewline
  <2>3. QED BY <2>1, <2>2
<1>3. NewlineLabelIsHonest'
  BY <1>2 DEF NewlineLabelIsHonest, EndsWithNewline
<1>4. QED BY <1>1, <1>3 DEF LabelInv

LEMMA StepLabel ==
  ASSUME TypeOK, LabelInv, [Next]_vars
  PROVE  LabelInv'
<1>1. ASSUME chain' = chain, request' = request \/ request' = NoRequest
      PROVE  LabelInv'
  BY <1>1 DEF LabelInv, NewlineLabelIsHonest
<1>2. ASSUME NEW mode, NEW range, Read(mode, range)
      PROVE  LabelInv'
  <2>1. chain' = <<>> /\ Len(chain') = 0
    BY <1>2, EmptySeq DEF Read
  <2>2. \A i \in 2..Len(chain') : FALSE
    BY <2>1
  <2>3. QED BY <2>1, <2>2 DEF LabelInv, NewlineLabelIsHonest
<1>3. ASSUME Continue, TokenAccepted(token)
      PROVE  LabelInv'
  <2>1. chain' = chain /\ request'.mode = "bytes"
    BY <1>3 DEF Continue, client
  <2>2. QED BY <2>1 DEF LabelInv, NewlineLabelIsHonest
<1>4. CASE Open
  <2>1. request \in Requests /\ request # NoRequest
    BY <1>4, PhaseIsRequest DEF Open, TypeOK
  <2>2. CASE EndChain("failed")
    BY <1>1, <2>2 DEF EndChain
  <2>3. ASSUME NEW f, NEW e, NEW p, request' = [request EXCEPT !.fd = f, !.end = e, !.phase = p],
               UNCHANGED chain
        PROVE  LabelInv'
    <3>1. request'.mode = request.mode
      BY <2>1, <2>3 DEF Requests
    <3>2. QED BY <2>1, <2>3, <3>1 DEF LabelInv, NewlineLabelIsHonest
  <2>4. \/ EndChain("failed")
        \/ /\ UNCHANGED <<file, key, client>>
           /\ \E f, e, p : p \in {"readall", "read"}
                          /\ request' = [request EXCEPT !.fd = f, !.end = e, !.phase = p]
    BY <1>4 DEF Open
  <2>5. QED BY <2>2, <2>3, <2>4 DEF client
<1>5. CASE ReadAll
  <2>1. /\ request \in Requests /\ request # NoRequest /\ request.phase # "open"
        /\ request.buf \in Seq(Byte)
    BY <1>5, PhaseIsRequest, RequestTypes DEF ReadAll
  <2>2. ASSUME NEW b, request' = [request EXCEPT !.buf = b], UNCHANGED chain
        PROVE  LabelInv'
    <3>1. request'.mode = request.mode
      BY <2>1, <2>2 DEF Requests
    <3>2. QED BY <2>1, <2>2, <3>1 DEF LabelInv, NewlineLabelIsHonest
  <2>3. \/ \E b : request' = [request EXCEPT !.buf = b] /\ UNCHANGED chain
        \/ \E e \in {"utf-8", "base64"} : Answer(request.buf, e, "none", TRUE)
    BY <1>5 DEF ReadAll, client
  <2>4. QED BY <2>1, <2>2, <2>3, AnswerLabel
<1>6. CASE ReadFirstChunk
  <2> DEFINE buf == Slice(FdBytes, 0, request.end)
             cut == TruncateToLastNewline(buf)
  <2>1. /\ request # NoRequest /\ request.phase # "open" /\ request.mode = "default"
        /\ request.end \in Nat /\ FdBytes \in Seq(Byte)
    BY <1>6, PhaseIsRequest, RequestTypes DEF ReadFirstChunk
  <2>2. buf \in Seq(Byte)
    BY <2>1, SliceLemma
  <2>3. Answer(buf, "base64", "none", FALSE) \/ Answer(cut, "utf-8", "newline", FALSE)
    BY <1>6 DEF ReadFirstChunk
  <2> HIDE DEF buf
  <2>4. cut \in Seq(Byte)
    BY <2>2, TruncateLemma DEF IsCut
  <2> HIDE DEF cut
  <2>5. QED BY <2>1, <2>2, <2>3, <2>4, AnswerLabel
<1>7. CASE ReadRange
  <2> DEFINE buf == Slice(FdBytes, request.start, request.end)
  <2>1. /\ request # NoRequest /\ request.phase # "open" /\ request \in Requests
        /\ request.start \in Nat /\ request.end \in Nat /\ FdBytes \in Seq(Byte)
    BY <1>7, PhaseIsRequest, RequestTypes DEF ReadRange
  <2>2. buf \in Seq(Byte) /\ ReachesEnd(buf) \in BOOLEAN
    BY <2>1, SliceLemma DEF ReachesEnd
  <2>3. \/ Answer(buf, "base64", "none", ReachesEnd(buf))
        \/ Answer(buf, "utf-8", "none", ReachesEnd(buf))
        \/ /\ Answer(buf, "utf-8", "newline", ReachesEnd(buf))
           /\ ReachesEnd(buf) \/ EndsWithNewline(buf)
        \/ request' = [request EXCEPT !.phase = "extend", !.buf = buf] /\ UNCHANGED chain
    BY <1>7 DEF ReadRange, EndsWithNewline, client
  <2> HIDE DEF buf
  <2>4. ASSUME request' = [request EXCEPT !.phase = "extend", !.buf = buf], UNCHANGED chain
        PROVE  LabelInv'
    <3>1. request'.mode = request.mode
      BY <2>1, <2>4 DEF Requests
    <3>2. QED BY <2>1, <2>4, <3>1 DEF LabelInv, NewlineLabelIsHonest
  <2>5. QED BY <2>1, <2>2, <2>3, <2>4, AnswerLabel
<1>8. CASE ExtendRange
  <2> DEFINE extra == Slice(FdBytes, request.end + 1, request.end + MaxByteOvershoot)
             data == AdjustText(request.buf, extra)
  <2>1. /\ request # NoRequest /\ request.phase # "open" /\ request.buf \in Seq(Byte)
        /\ request.end + 1 \in Nat /\ request.end + MaxByteOvershoot \in Int
        /\ FdBytes \in Seq(Byte)
    BY <1>8, PhaseIsRequest, RequestTypes, SizesAssumption DEF ExtendRange
  <2>2. extra \in Seq(Byte)
    BY <2>1, SliceLemma
  <2>3. Answer(data, "utf-8", BoundaryKind(request.buf, extra), ReachesEnd(data))
    BY <1>8 DEF ExtendRange
  <2>4. BoundaryKind(request.buf, extra) \in {"none", "newline", "boundary"}
    BY DEF BoundaryKind
  <2> HIDE DEF extra
  <2>5. /\ data \in Seq(Byte) /\ ReachesEnd(data) \in BOOLEAN
        /\ BoundaryKind(request.buf, extra) = "newline" => EndsWithNewline(data)
    BY <2>1, <2>2, AdjustLemma, AdjustedEnd DEF ReachesEnd
  <2> HIDE DEF data
  <2>6. QED BY <2>1, <2>3, <2>4, <2>5, AnswerLabel
<1>9. CASE Environment
  BY <1>1, <1>9 DEF Environment, Overwrite, Replace, Unlink, Reload, client
<1>10. QED
  BY <1>1, <1>2, <1>3, <1>4, <1>5, <1>6, <1>7, <1>8, <1>9
     DEF Next, Server, Continue, EndChain, vars

\* A chunk that adjustTextBoundary cut and labelled "newline" ends with one or is the last,
\* also when the file shrank or grew under the read.
THEOREM NewlineLabelsHold == Spec => []NewlineLabelIsHonest
<1>1. Init => LabelInv
  <2> SUFFICES ASSUME Init PROVE LabelInv
    OBVIOUS
  <2>1. chain = <<>> /\ Len(chain) = 0
    BY EmptySeq DEF Init
  <2>2. \A i \in 2..Len(chain) : FALSE
    BY <2>1
  <2>3. QED BY <2>1, <2>2 DEF LabelInv, NewlineLabelIsHonest
<1>2. TypeOK /\ LabelInv /\ [Next]_vars => LabelInv'
  BY StepLabel
<1>3. LabelInv => NewlineLabelIsHonest
  BY DEF LabelInv
<1>4. QED BY <1>1, <1>2, <1>3, TypeCorrect, PTL DEF Spec


-----------------------------------------------------------------------------
\* ChunkedRead implements FileStream.

LEMMA AnswerReadsOn ==
  ASSUME TypeOK, request # NoRequest, request.phase # "open",
         NEW data \in Seq(Byte), NEW encoding \in {"utf-8", "base64"},
         NEW at \in {"none", "newline", "boundary"}, NEW complete \in BOOLEAN,
         Answer(data, encoding, at, complete), outcome' = "reading",
         complete \/ NextOffset(data) < request.stat.size
  PROVE  ChainEnd' < request.stat.size
<1>1. ChainEnd' = NextOffset(data)
  BY AnswerChain DEF ChainEnd, NextOffset
<1>2. ~complete
  BY DEF Answer
<1>3. QED BY <1>1, <1>2

\* An answer that leaves the chain to be continued stops short of the size its Stat saw.
LEMMA ReadsOn ==
  ASSUME TypeOK, SnapInv, Server, chain' # chain, outcome' = "reading"
  PROVE  ChainEnd' < request.stat.size
<1> USE DEF client
<1>1. CASE Open
  BY <1>1 DEF Open, EndChain
<1>2. CASE ReadAll
  <2>1. request # NoRequest /\ request.phase # "open" /\ request.buf \in Seq(Byte)
    BY <1>2, PhaseIsRequest, RequestTypes DEF ReadAll
  <2>2. \E e \in {"utf-8", "base64"} : Answer(request.buf, e, "none", TRUE)
    BY <1>2 DEF ReadAll
  <2>3. QED BY <2>1, <2>2, AnswerReadsOn
<1>3. ASSUME NEW data \in Seq(Byte), request \in Requests, ReachesEnd(data) = FALSE
      PROVE  NextOffset(data) < request.stat.size
  BY <1>3, LenProperties DEF ReachesEnd, NextOffset, Requests, Stats
<1>4. CASE ReadFirstChunk
  <2> DEFINE buf == Slice(FdBytes, 0, request.end)
             cut == TruncateToLastNewline(buf)
  <2>1. /\ request # NoRequest /\ request.phase = "read" /\ request.mode = "default"
        /\ request.end \in Nat /\ FdBytes \in Seq(Byte) /\ request.start = 0
        /\ request.stat.size \in Nat
    BY <1>4, PhaseIsRequest, RequestTypes DEF ReadFirstChunk, TypeOK, Stats
  <2>2. request.end + 1 < request.stat.size
    BY <2>1 DEF SnapInv, OpenInv
  <2>3. buf \in Seq(Byte) /\ (Len(buf) <= request.end - 0 + 1 \/ buf = <<>>)
    BY <2>1, SliceLemma
  <2>4. Answer(buf, "base64", "none", FALSE) \/ Answer(cut, "utf-8", "newline", FALSE)
    BY <1>4 DEF ReadFirstChunk
  <2> HIDE DEF buf
  <2>5. cut \in Seq(Byte) /\ Len(cut) <= Len(buf) /\ Len(cut) \in Nat /\ Len(buf) \in Nat
    BY <2>3, TruncateLemma, LenProperties DEF IsCut
  <2> HIDE DEF cut
  <2>6. Len(buf) <= request.end + 1
    BY <2>1, <2>3, EmptySeq
  <2>7. NextOffset(buf) < request.stat.size /\ NextOffset(cut) < request.stat.size
    BY <2>1, <2>2, <2>5, <2>6 DEF NextOffset
  <2>8. QED BY <2>1, <2>3, <2>4, <2>5, <2>7, AnswerReadsOn
<1>5. CASE ReadRange
  <2> DEFINE buf == Slice(FdBytes, request.start, request.end)
  <2>1. /\ request # NoRequest /\ request.phase # "open" /\ request \in Requests
        /\ request.start \in Nat /\ request.end \in Nat /\ FdBytes \in Seq(Byte)
    BY <1>5, PhaseIsRequest, RequestTypes DEF ReadRange
  <2>2. buf \in Seq(Byte) /\ ReachesEnd(buf) \in BOOLEAN
    BY <2>1, SliceLemma DEF ReachesEnd
  <2>3. \/ Answer(buf, "base64", "none", ReachesEnd(buf))
        \/ Answer(buf, "utf-8", "none", ReachesEnd(buf))
        \/ Answer(buf, "utf-8", "newline", ReachesEnd(buf))
    BY <1>5 DEF ReadRange
  <2> HIDE DEF buf
  <2>4. QED BY <1>3, <2>1, <2>2, <2>3, AnswerReadsOn
<1>6. CASE ExtendRange
  <2> DEFINE extra == Slice(FdBytes, request.end + 1, request.end + MaxByteOvershoot)
             data == AdjustText(request.buf, extra)
  <2>1. /\ request # NoRequest /\ request.phase # "open" /\ request.buf \in Seq(Byte)
        /\ request.end + 1 \in Nat /\ request.end + MaxByteOvershoot \in Int
        /\ FdBytes \in Seq(Byte) /\ request \in Requests
    BY <1>6, PhaseIsRequest, RequestTypes, SizesAssumption DEF ExtendRange
  <2>2. extra \in Seq(Byte)
    BY <2>1, SliceLemma
  <2>3. Answer(data, "utf-8", BoundaryKind(request.buf, extra), ReachesEnd(data))
    BY <1>6 DEF ExtendRange
  <2>4. BoundaryKind(request.buf, extra) \in {"none", "newline", "boundary"}
    BY DEF BoundaryKind
  <2> HIDE DEF extra
  <2>5. data \in Seq(Byte) /\ ReachesEnd(data) \in BOOLEAN
    BY <2>1, <2>2, AdjustLemma DEF ReachesEnd
  <2> HIDE DEF data
  <2>6. QED BY <1>3, <2>1, <2>3, <2>4, <2>5, AnswerReadsOn
<1>7. QED BY <1>1, <1>2, <1>4, <1>5, <1>6 DEF Server

\* What was delivered before an answer, and the answer's data behind it.
LEMMA DeliveredGrows ==
  ASSUME TypeOK, request # NoRequest, request.phase # "open",
         NEW data \in Seq(Byte), NEW encoding \in {"utf-8", "base64"},
         NEW at \in {"none", "newline", "boundary"}, NEW complete \in BOOLEAN,
         Answer(data, encoding, at, complete)
  PROVE  Delivered' = IF chain = <<>> THEN data ELSE Delivered \o data
<1> DEFINE Data(ch) == [i \in 1..Len(ch) |-> ch[i].data]
           n == Len(chain)
<1>1. /\ Len(chain') = n + 1 /\ n \in Nat
      /\ \A i \in 1..n : chain'[i] = chain[i]
      /\ chain'[n + 1].data = data
  BY AnswerChain
<1>2. \A i \in 1..n : chain[i].data \in Seq(Byte)
  <2>1. chain \in Seq(Chunks)
    BY DEF TypeOK
  <2>2. \A i \in 1..n : chain[i] \in Chunks
    BY <2>1, ElementOfSeq
  <2>3. QED BY <2>2 DEF Chunks
<1>3. Data(chain) \in Seq(Seq(Byte)) /\ Len(Data(chain)) = n
  <2> HIDE DEF n
  <2>1. n = Len(chain)
    BY DEF n
  <2>2. QED BY <1>1, <1>2, <2>1
<1>4. Data(chain') = Append(Data(chain), data)
  <2>1. /\ Append(Data(chain), data) \in Seq(Seq(Byte))
        /\ Len(Append(Data(chain), data)) = n + 1
        /\ \A i \in 1..n : Append(Data(chain), data)[i] = Data(chain)[i]
        /\ Append(Data(chain), data)[n + 1] = data
    BY <1>3, AppendProperties
  <2>2. Data(chain') = [i \in 1..(n + 1) |-> chain'[i].data]
    BY <1>1
  <2>3. \A i \in 1..(n + 1) : chain'[i].data = Append(Data(chain), data)[i]
    BY <1>1, <2>1
  <2>4. \A i \in 1..(n + 1) : chain'[i].data \in Seq(Byte)
    BY <1>1, <1>2
  <2>5. Data(chain') \in Seq(Seq(Byte)) /\ Len(Data(chain')) = n + 1
    BY <1>1, <2>2, <2>4
  <2>6. \A i \in 1..(n + 1) : Data(chain')[i] = chain'[i].data
    BY <1>1
  <2> DEFINE a == Append(Data(chain), data)
             b == Data(chain')
  <2>7. /\ a \in Seq(Seq(Byte)) /\ b \in Seq(Seq(Byte)) /\ Len(a) = Len(b) /\ Len(a) = n + 1
        /\ \A i \in 1..Len(a) : a[i] = b[i]
    BY <2>1, <2>3, <2>5, <2>6
  <2> HIDE DEF a, b
  <2>8. a = b
    BY <2>7, SeqEqual
  <2>9. QED BY <2>8 DEF a, b
<1>5. Data(chain) = <<>> <=> chain = <<>>
  BY <1>3, EmptySeq DEF TypeOK
<1>6. FlattenSeq(Append(Data(chain), data))
        = IF Data(chain) = <<>> THEN data ELSE FlattenSeq(Data(chain)) \o data
  BY <1>3, FlattenOfAppend
<1>7. QED BY <1>4, <1>5, <1>6 DEF Delivered


\* What was delivered reaches from the chain's start to its end, and is of the snapshot
\* under the conditions ChainInv states of the single chunks.
FlowInv ==
  chain # <<>> =>
    /\ Delivered \in Seq(Byte) /\ chain[1].start \in Nat
    /\ ChainEnd = chain[1].start + Len(Delivered)
    /\ Quiet \/ (~CoarseClock /\ request # NoRequest) =>
         Holds(BaseBytes, chain[1].start, Delivered)

LEMMA NothingDelivered ==
  ASSUME NEW ch, ch = <<>>
  PROVE  FlattenSeq([i \in 1..Len(ch) |-> ch[i].data]) = <<>>
<1>1. Len(ch) = 0
  BY EmptySeq
<1>2. [i \in 1..Len(ch) |-> ch[i].data] = <<>>
  BY <1>1
<1>3. FlattenSeq(<<>>) = <<>>
  <2>1. <<>> \in Seq(Seq(Byte)) /\ <<>> \in Seq(Byte)
    BY EmptySeq
  <2>2. QED BY <2>1, FlattenOfAppend
<1>4. QED BY <1>2, <1>3

LEMMA AnswerFlow ==
  ASSUME TypeOK, TypeOK', TileInv, SnapInv', FlowInv, request # NoRequest, request.phase # "open",
         NEW data \in Seq(Byte), NEW encoding \in {"utf-8", "base64"},
         NEW at \in {"none", "newline", "boundary"}, NEW complete \in BOOLEAN,
         Answer(data, encoding, at, complete)
  PROVE  FlowInv'
<1>1. /\ Len(chain') = Len(chain) + 1 /\ Len(chain) \in Nat
      /\ \A i \in 1..Len(chain) : chain'[i] = chain[i]
      /\ chain'[Len(chain')].start = request.start
      /\ chain'[Len(chain')].data = data
      /\ request' = NoRequest
      /\ UNCHANGED <<versions, inode, path, key, base>>
  BY AnswerChain
<1>2. Quiet' = Quiet /\ BaseBytes' = BaseBytes /\ BaseBytes \in Seq(Byte)
  BY <1>1, BaseBytesType DEF Quiet, BaseBytes, VersionBytes
<1>3. Quiet => Holds(BaseBytes, request.start, data)
  <2>1. Len(chain') \in 1..Len(chain')
    BY <1>1
  <2>2. QED BY <1>1, <1>2, <2>1 DEF SnapInv, ChainInv
<1>4. ChainEnd' = request.start + Len(data) /\ request.start \in Nat /\ Len(data) \in Nat
  BY <1>1, RequestTypes DEF ChainEnd
<1>5. Delivered' = IF chain = <<>> THEN data ELSE Delivered \o data
  BY DeliveredGrows
<1>6. CASE chain = <<>>
  <2>1. Len(chain) = 0
    BY <1>6, EmptySeq
  <2>2. chain'[1].start = request.start /\ Delivered' = data
    BY <1>1, <1>5, <1>6, <2>1
  <2>3. QED BY <1>1, <1>2, <1>3, <1>4, <2>2 DEF FlowInv
<1>7. CASE chain # <<>>
  <2>1. 1 \in 1..Len(chain)
    BY <1>1, <1>7, EmptySeq DEF TypeOK
  <2>2. chain'[1].start = chain[1].start /\ Delivered' = Delivered \o data
    BY <1>1, <1>5, <1>7, <2>1
  <2>3. /\ request.start = chain[1].start + Len(Delivered)
        /\ Delivered \in Seq(Byte) /\ chain[1].start \in Nat
    BY <1>7 DEF TileInv, FlowInv
  <2>4. /\ Delivered \o data \in Seq(Byte)
        /\ Len(Delivered \o data) = Len(Delivered) + Len(data)
        /\ Len(Delivered) \in Nat
    BY <2>3, ConcatProperties, LenProperties
  <2>5. Quiet => Holds(BaseBytes, chain[1].start, Delivered \o data)
    BY <1>2, <1>3, <1>7, <2>3, ConcatHolds DEF FlowInv
  <2>6. ChainEnd' = chain[1].start + Len(Delivered \o data)
    BY <1>4, <2>3, <2>4
  <2>7. QED BY <1>1, <1>2, <2>2, <2>3, <2>4, <2>5, <2>6 DEF FlowInv
<1>8. QED BY <1>6, <1>7

\* What a step is to the stream: nothing, a token that is accepted, an end in an error, a
\* new chain, or one more chunk.
Stays ==
  /\ UNCHANGED <<chain, outcome, base>> /\ VersionBytes(base)' = VersionBytes(base)
  /\ Quiet' => Quiet
  /\ \/ request = NoRequest /\ request' = NoRequest
     \/ request # NoRequest /\ request' # NoRequest /\ request'.start = request.start

Resumes ==
  /\ UNCHANGED <<versions, chain, outcome, base>>
  /\ chain # <<>> /\ request' # NoRequest
  /\ ~CoarseClock => Quiet

Ends == outcome = "reading" /\ \E how \in {"stale", "failed"} : EndChain(how)

Begins == \E mode, range : Read(mode, range)

Answers == Server /\ request # NoRequest /\ request.phase # "open" /\ ServerAnswers

LEMMA StepKinds ==
  ASSUME TypeOK, TileInv, SnapInv, [Next]_vars
  PROVE  Stays \/ Resumes \/ Ends \/ Begins \/ Answers
<1>1. CASE UNCHANGED vars \/ Unlink \/ Reload
  BY <1>1 DEF vars, Unlink, Reload, file, client, Stays, VersionBytes, Quiet
<1>2. ASSUME NEW bytes \in Contents, NEW tick \in Ticks,
             Overwrite(bytes, tick) \/ Replace(bytes, tick)
      PROVE  Stays
  BY <1>2, WriteFacts DEF SnapInv, client, Stays
<1>3. CASE Continue
  <2>1. CASE TokenAccepted(token)
    <3>1. /\ request' # NoRequest /\ token # NoToken
          /\ UNCHANGED <<versions, chain, outcome, base>>
      BY <1>3, <2>1 DEF Continue, file, client, NoRequest
    <3>2. chain # <<>>
      BY <3>1 DEF TileInv, ChainTiles
    <3>3. ~CoarseClock => Quiet
      BY <2>1, <3>1, AcceptedIsQuiet DEF SnapInv
    <3>4. QED BY <3>1, <3>2, <3>3 DEF Resumes
  <2>2. CASE ~TokenAccepted(token)
    BY <1>3, <2>2 DEF Continue, Ends
  <2>3. QED BY <2>1, <2>2
<1>4. CASE Server
  <2>1. request # NoRequest /\ outcome = "reading"
    BY <1>4, ServerStep DEF TypeOK
  <2>2. CASE ServerKeeps
    BY <2>1, <2>2 DEF ServerKeeps, Stays, file, client, VersionBytes, Quiet
  <2>3. QED BY <1>4, <2>1, <2>2, ServerStep DEF Ends, Answers
<1>5. QED BY <1>1, <1>2, <1>3, <1>4 DEF Next, Environment, Begins

LEMMA StepFlow ==
  ASSUME TypeOK, TypeOK', TileInv, SnapInv, SnapInv', FlowInv, [Next]_vars
  PROVE  FlowInv'
<1>1. CASE Stays
  <2>1. Delivered' = Delivered /\ ChainEnd' = ChainEnd /\ BaseBytes' = BaseBytes
    BY <1>1 DEF Stays, Delivered, ChainEnd, BaseBytes
  <2>2. QED BY <1>1, <2>1 DEF Stays, FlowInv
<1>2. CASE Resumes
  <2>1. /\ Delivered' = Delivered /\ ChainEnd' = ChainEnd /\ BaseBytes' = BaseBytes
        /\ Quiet' = Quiet
    BY <1>2 DEF Resumes, Delivered, ChainEnd, BaseBytes, VersionBytes, Quiet
  <2>2. QED BY <1>2, <2>1 DEF Resumes, FlowInv
<1>3. CASE Ends
  <2>1. request' = NoRequest /\ UNCHANGED <<versions, chain, base>>
    BY <1>3 DEF Ends, EndChain, file
  <2>2. /\ Delivered' = Delivered /\ ChainEnd' = ChainEnd /\ BaseBytes' = BaseBytes
        /\ Quiet' = Quiet
    BY <2>1 DEF Delivered, ChainEnd, BaseBytes, VersionBytes, Quiet
  <2>3. QED BY <2>1, <2>2 DEF FlowInv
<1>4. CASE Begins
  BY <1>4 DEF Begins, Read, FlowInv
<1>5. CASE Answers
  BY <1>5, AnswerFlow DEF Answers, ServerAnswers
<1>6. QED BY <1>1, <1>2, <1>3, <1>4, <1>5, StepKinds

-----------------------------------------------------------------------------
\* The steps as steps of FileStream.

LEMMA HoldsIsSubSeq ==
  ASSUME NEW c \in Seq(Byte), NEW s \in Nat, NEW d \in Seq(Byte), Holds(c, s, d)
  PROVE  s + Len(d) <= Len(c) /\ d = SubSeq(c, s + 1, s + Len(d))
<1> DEFINE hi == s + Len(d)
           p == SubSeq(c, s + 1, hi)
<1>1. Len(d) \in Nat /\ Len(c) \in Nat /\ hi \in Nat /\ hi <= Len(c)
  BY LenProperties DEF Holds
<1>2. \A i \in (s + 1)..hi : c[i] \in Byte
  BY <1>1
<1>3. /\ p \in Seq(Byte)
      /\ Len(p) = IF s + 1 <= hi THEN hi - (s + 1) + 1 ELSE 0
      /\ \A i \in 1..(hi - (s + 1) + 1) : p[i] = c[s + 1 + i - 1]
  <2> HIDE DEF hi
  <2> QED BY <1>1, <1>2, SubSeqProperties
<1>4. Len(p) = Len(d) /\ \A i \in 1..Len(d) : p[i] = c[s + i]
  BY <1>1, <1>3
<1>5. \A i \in 1..Len(d) : p[i] = d[i]
  BY <1>4 DEF Holds
<1> HIDE DEF p
<1>6. p = d
  BY <1>3, <1>4, <1>5, SeqEqual
<1>7. QED BY <1>1, <1>6 DEF p

LEMMA ConcatExtends ==
  ASSUME NEW d \in Seq(Byte), NEW e \in Seq(Byte)
  PROVE  Len(d \o e) >= Len(d) /\ SubSeq(d \o e, 1, Len(d)) = d
<1> DEFINE u == d \o e
<1>1. /\ u \in Seq(Byte) /\ Len(u) = Len(d) + Len(e) /\ Len(d) \in Nat /\ Len(e) \in Nat
      /\ \A i \in 1..Len(d) : u[i] = d[i]
  BY ConcatProperties, LenProperties
<1> HIDE DEF u
<1>2. Holds(u, 0, d)
  BY <1>1 DEF Holds
<1>3. d = SubSeq(u, 0 + 1, 0 + Len(d))
  BY <1>1, <1>2, HoldsIsSubSeq
<1>4. Len(u) >= Len(d) /\ SubSeq(u, 1, Len(d)) = d
  BY <1>1, <1>3
<1>5. QED BY <1>4 DEF u

\* While a request is served whose file can be told from its writes, what the client has is
\* the snapshot's.
LEMMA ServedIsFaithful ==
  ASSUME TypeOK, SnapInv, FlowInv, ~CoarseClock, request # NoRequest, request.phase # "open"
  PROVE  /\ Stream!Faithful
         /\ ChainStart \in Nat /\ Delivered \in Seq(Byte)
<1>1. Len(BaseBytes) \in Nat /\ BaseBytes \in Seq(Byte) /\ request.start \in Nat
  BY BaseBytesType, LenProperties, RequestTypes
<1>2. /\ Holds(BaseBytes, ChainStart, Delivered)
      /\ ChainStart \in Nat /\ Delivered \in Seq(Byte)
  <2>1. CASE chain = <<>>
    <3>1. Delivered = <<>> /\ ChainStart = request.start
      BY <2>1, NothingDelivered DEF Delivered, ChainStart
    <3>2. request.start <= Len(BaseBytes)
      <4>1. request.stat.size = Len(BaseBytes)
        BY FdReadsBase DEF SnapInv
      <4>2. CASE request.mode = "default"
        BY <1>1, <4>2 DEF TypeOK
      <4>3. CASE request.mode = "bytes"
        <5>1. request.start <= request.end /\ request.end < Len(BaseBytes) /\ request.end \in Nat
          BY <4>1, <4>3, RequestTypes DEF SnapInv, OpenInv
        <5>2. QED BY <1>1, <5>1
      <4>4. QED BY <4>2, <4>3, RequestTypes DEF Requests
    <3>3. Holds(BaseBytes, request.start, <<>>) /\ <<>> \in Seq(Byte)
      BY <1>1, <3>2, EmptySeq DEF Holds
    <3>4. QED BY <1>1, <3>1, <3>3
  <2>2. CASE chain # <<>>
    BY <2>2 DEF FlowInv, ChainStart
  <2>3. QED BY <2>1, <2>2
<1>3. QED BY <1>1, <1>2, HoldsIsSubSeq DEF Stream!Faithful, BaseBytes

LEMMA AnswerRefines ==
  ASSUME TypeOK, SnapInv, FlowInv, FlowInv', ~CoarseClock, Answers
  PROVE  Stream!Deliver \/ Stream!Tear
<1>1. PICK data \in Seq(Byte), encoding \in {"utf-8", "base64"},
           at \in {"none", "newline", "boundary"}, complete \in BOOLEAN :
             Answer(data, encoding, at, complete)
  BY DEF Answers, ServerAnswers
<1>2. request # NoRequest /\ request.phase # "open" /\ Server
  BY DEF Answers
<1>3. /\ Len(chain') = Len(chain) + 1 /\ Len(chain) \in Nat /\ chain' # <<>> /\ chain' # chain
      /\ \A i \in 1..Len(chain) : chain'[i] = chain[i]
      /\ chain'[Len(chain')].start = request.start
      /\ UNCHANGED <<versions, base>>
  BY <1>1, <1>2, AnswerChain
<1>4. outcome = "reading" /\ outcome' \in {"reading", "done"}
  BY <1>1, <1>2, RequestTypes DEF Answer
<1>5. Stream!Faithful /\ ChainStart \in Nat /\ Delivered \in Seq(Byte)
  BY <1>2, ServedIsFaithful
<1>6. VersionBytes(base)' = VersionBytes(base) /\ ChainStart' = ChainStart
  <2>1. CASE chain = <<>>
    <3>1. Len(chain') = 1
      BY <1>3, <2>1, EmptySeq
    <3>2. QED BY <1>2, <1>3, <2>1, <3>1 DEF ChainStart, VersionBytes
  <2>2. CASE chain # <<>>
    <3>1. 1 \in 1..Len(chain)
      BY <1>3, <2>2, EmptySeq DEF TypeOK
    <3>2. QED BY <1>2, <1>3, <2>2, <3>1 DEF ChainStart, VersionBytes
  <2>3. QED BY <2>1, <2>2
<1>7. Stream!Extends
  <2>1. Delivered' = IF chain = <<>> THEN data ELSE Delivered \o data
    BY <1>1, <1>2, DeliveredGrows
  <2>2. CASE chain = <<>>
    <3>1. Delivered = <<>> /\ Len(Delivered) = 0
      BY <2>2, NothingDelivered, EmptySeq DEF Delivered
    <3>2. Len(data) \in Nat /\ SubSeq(data, 1, 0) = <<>>
      BY LenProperties
    <3>3. Delivered' = data
      BY <2>1, <2>2
    <3>4. QED BY <3>1, <3>2, <3>3 DEF Stream!Extends
  <2>3. CASE chain # <<>>
    BY <1>5, <2>1, <2>3, ConcatExtends DEF Stream!Extends
  <2>4. QED BY <2>2, <2>3
<1>8. outcome' = "reading" => ~Stream!Exhausted'
  <2> SUFFICES ASSUME outcome' = "reading" PROVE ~Stream!Exhausted'
    OBVIOUS
  <2>1. ChainEnd' < Len(VersionBytes(base))
    BY <1>2, <1>3, ReadsOn, FdReadsBase DEF SnapInv, BaseBytes
  <2>2. ChainEnd' = ChainStart' + Len(Delivered') /\ ChainStart' \in Nat /\ Delivered' \in Seq(Byte)
    BY <1>3 DEF FlowInv, ChainStart
  <2>3. Len(VersionBytes(base)) \in Nat /\ Len(Delivered') \in Nat
    BY <2>2, BaseBytesType, LenProperties DEF BaseBytes
  <2>4. ChainStart' + Len(Delivered') # Len(VersionBytes(base)')
    BY <1>6, <2>1, <2>2, <2>3
  <2>5. QED BY <2>4 DEF Stream!Exhausted
<1>9. QED
  BY <1>4, <1>5, <1>6, <1>7, <1>8 DEF Stream!Deliver, Stream!Tear

LEMMA StepRefines ==
  ASSUME TypeOK, TileInv, SnapInv, FlowInv, FlowInv', ~CoarseClock, [Next]_vars
  PROVE  [Stream!Next]_(Stream!svars)
<1>1. CASE Stays
  BY <1>1 DEF Stays, Stream!svars, ChainStart, Delivered
<1>2. CASE Resumes
  BY <1>2 DEF Resumes, Stream!svars, ChainStart, Delivered, VersionBytes
<1>3. CASE Ends
  BY <1>3 DEF Ends, EndChain, Stream!Next, Stream!Refuse, Delivered
<1>4. CASE Begins
  <2>1. /\ outcome # "reading" /\ outcome' \in {"reading", "failed"} /\ chain' = <<>>
    BY <1>4 DEF Begins, Read
  <2>2. Delivered' = <<>>
    BY <2>1, NothingDelivered DEF Delivered
  <2>3. QED BY <2>1, <2>2 DEF Stream!Next, Stream!Begin
<1>5. CASE Answers
  BY <1>5, AnswerRefines DEF Stream!Next
<1>6. QED BY <1>1, <1>2, <1>3, <1>4, <1>5, StepKinds

\* A clock that tells writes apart makes every chain a stream of one snapshot, of which at most
\* the last delivery is torn: whatever the writer and reloads do, a step of the server or its
\* client delivers the bytes that follow, ends the stream, or refuses to go on.
THEOREM ReadsAreAStream ==
  ASSUME ~CoarseClock
  PROVE  Spec => RefinesFileStream
<1>1. Init => Stream!Init /\ TileInv /\ FlowInv
  <2> SUFFICES ASSUME Init PROVE Stream!Init /\ TileInv /\ FlowInv
    OBVIOUS
  <2>1. outcome = "none" /\ chain = <<>> /\ Len(chain) = 0 /\ token = NoToken /\ request = NoRequest
    BY EmptySeq DEF Init
  <2>2. Delivered = <<>>
    BY <2>1, NothingDelivered DEF Delivered
  <2>3. QED BY <2>1, <2>2 DEF Stream!Init, TileInv, ChainTiles, FlowInv
<1>2. TypeOK /\ TileInv /\ [Next]_vars => TileInv'
  BY StepTile
<1>3. TypeOK /\ TypeOK' /\ TileInv /\ SnapInv /\ SnapInv' /\ FlowInv /\ [Next]_vars => FlowInv'
  BY StepFlow
<1>4. TypeOK /\ TileInv /\ SnapInv /\ FlowInv /\ FlowInv' /\ [Next]_vars => [Stream!Next]_(Stream!svars)
  BY StepRefines
<1>5. QED
  BY <1>1, <1>2, <1>3, <1>4, TypeCorrect, SnapHolds, PTL
     DEF Spec, RefinesFileStream, Stream!Spec
=============================================================================
