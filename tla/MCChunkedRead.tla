--------------------------- MODULE MCChunkedRead ---------------------------
(* Instance of ChunkedRead for TLC: a chunk of two bytes, one byte of overshoot. *)
EXTENDS ChunkedReadRefinement

\* Empty, one chunk, and up to three chunks: cut back to a newline, cut with none in reach,
\* binary.
MCContents ==
  { <<>>,
    <<"txt", "nl">>,
    <<"txt", "txt", "nl", "txt", "txt", "nl">>,
    <<"txt", "txt", "txt", "txt", "txt", "nl">>,
    <<"nl", "txt", "nul", "txt", "txt">> }

\* Two contents of one size that differ in the last chunk.
MCTornContents == { <<"txt", "txt", "txt">>, <<"txt", "txt", "nl">> }

MCByteRanges == { <<0, -1>>, <<1, 2>>, <<3, 9>> }
=============================================================================
