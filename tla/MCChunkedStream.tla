--------------------------- MODULE MCChunkedStream ---------------------------
(***************************************************************************)
(* Instances of ChunkedStream.                                             *)
(***************************************************************************)
EXTENDS ChunkedStream

\* Bytes that look like a seal and bytes that do not, in pieces shorter and
\* longer than the room of the buffer.
MCPiece == {<<0>>, <<1, 0, 2>>, <<1, 0, 0, 2, 1, 0>>}
=============================================================================
