----------------------- MODULE ChunkedReadRefinement -----------------------
(* ChunkedRead implements FileStream: chunks are deliveries, laid end to end. *)
EXTENDS ChunkedRead, SequencesExt

Delivered == FlattenSeq([i \in 1..Len(chain) |-> chain[i].data])

\* Where the chain starts: its first chunk's offset, or that of the request under way.
ChainStart ==
  IF chain # <<>> THEN chain[1].start
  ELSE IF request # NoRequest THEN request.start
  ELSE 0

Stream == INSTANCE FileStream WITH
  snapshot <- VersionBytes(base), start <- ChainStart, out <- Delivered, state <- outcome

\* Whatever the writer and reloads do between and within the requests, the client sees a
\* stream of its snapshot in which at most the last chunk is torn (readContinuation and readBytes).
RefinesFileStream == Stream!Spec
=============================================================================
