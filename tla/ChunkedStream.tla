---------------------------- MODULE ChunkedStream ----------------------------
(***************************************************************************)
(* How the messages of a streaming session cross a WebSocket: the buffer   *)
(* of the server (streaming_response_buffer.h) cuts a message into chunks, *)
(* each after a header of two bytes with its size, and ends it by a seal,  *)
(* the header 00 00; whatever is in the buffer when it is full, or when a  *)
(* request has been answered, is one WebSocket frame.  So a frame may hold *)
(* many messages or a part of one.  The ChunkDecoder of the browser        *)
(* (index-CKywuBjz.js) puts the messages together again, one frame after   *)
(* the other, with no knowledge of where messages begin.                   *)
(*                                                                         *)
(* A WebSocket hands frames over in order and whole.  The decoder does not *)
(* rely on the second: with CutsFrames they arrive in parts.               *)
(***************************************************************************)
EXTENDS Integers, Sequences

CONSTANTS
  Base,        \* the number of values of a byte: 256
  BUFFER_SIZE, \* bytes of the buffer: 1400
  CutsFrames,  \* the transport may cut frames: FALSE for a WebSocket
  Piece,       \* what one call of xsputn may write
  MaxMessage,  \* bound: a message this long gets no further piece
  MaxMessages  \* bound: messages written

Byte == 0 .. Base - 1
HeaderSize == 2

\* What the two bytes of a header can say.
ChunkSize == 0 .. Base * Base - 1

\* A buffer takes a header and one byte, and a header holds the size of any chunk.
ASSUME SizesAssumption ==
  /\ Base \in Nat \ {0, 1}
  /\ BUFFER_SIZE \in Nat
  /\ HeaderSize < BUFFER_SIZE
  /\ BUFFER_SIZE <= Base * Base
ASSUME PieceAssumption == Piece \subseteq Seq(Byte) \ {<<>>}
ASSUME CutsFramesAssumption == CutsFrames \in BOOLEAN
ASSUME BoundsAssumption == MaxMessage \in Nat /\ MaxMessages \in Nat

VARIABLES
  closed,       \* server: bytes of the buffer before the open chunk
  chunk_open,   \* server: a header has been reserved behind them
  chunk,        \* server: the bytes that follow that header
  piece,        \* server: what the xsputn in progress has left to write
  message,      \* server: what was written since the last seal
  sealed,       \* history: the messages sealed so far
  frames,       \* frames under way
  frame,        \* browser: what is left of the frame being decoded
  state,        \* browser: _currentState
  remaining,    \* browser: _currentChunkRemaining
  slices,       \* browser: _currentDecodedSlices, one after the other
  decoded       \* history: the messages passed to _onDecode

bufferVars  == <<closed, chunk_open, chunk>>
serverVars  == <<bufferVars, piece, message, sealed>>
decoderVars == <<frame, state, remaining, slices, decoded>>
vars == <<serverVars, frames, decoderVars>>

Init ==
  /\ closed = <<>> /\ chunk_open = FALSE /\ chunk = <<>>
  /\ piece = <<>> /\ message = <<>> /\ sealed = <<>>
  /\ frames = <<>>
  /\ frame = <<>> /\ state = "FIRST_BYTE" /\ remaining = 0
  /\ slices = <<>> /\ decoded = <<>>

-----------------------------------------------------------------------------
(***************************************************************************)
(* The buffer of the server.                                               *)
(***************************************************************************)
Header(size) == <<size \div Base, size % Base>>
Closing(bytes, isOpen, body) ==
  IF isOpen THEN bytes \o Header(Len(body)) \o body ELSE bytes

\* The contents of the buffer once the open chunk, if any, is closed.
Contents == Closing(closed, chunk_open, chunk)
CurrentPos == Len(closed) + (IF chunk_open THEN HeaderSize + Len(chunk) ELSE 0)
RemainingSpace == BUFFER_SIZE - CurrentPos

\* A mistake: room for a header is taken to be enough to open a chunk.
MutNeedsFlush == RemainingSpace < (IF chunk_open THEN 1 ELSE HeaderSize)

\* ensure_write_space flushes the buffer when not even one byte fits.
NeedsFlush == RemainingSpace < (IF chunk_open THEN 1 ELSE HeaderSize + 1)

\* A response begins to write a piece of a message.
Write ==
  /\ piece = <<>>
  /\ Len(sealed) < MaxMessages
  /\ Len(message) < MaxMessage
  /\ piece' \in Piece
  /\ UNCHANGED <<bufferVars, message, sealed, frames, decoderVars>>

\* One round of the loop of xsputn, after ensure_write_space: base and body are
\* the buffer before the chunk and the chunk to write to, out the frames sent.
Put(base, body, out) ==
  LET room == BUFFER_SIZE - Len(base) - HeaderSize - Len(body)
      fits == Len(piece) <= room
      part == IF fits THEN piece ELSE SubSeq(piece, 1, room)
  IN  /\ message' = message \o part
      /\ piece' = IF fits THEN <<>> ELSE SubSeq(piece, room + 1, Len(piece))
      /\ chunk_open' = fits
      /\ chunk' = IF fits THEN body \o part ELSE <<>>
      /\ closed' = IF fits THEN base ELSE <<>>
      /\ frames' = IF fits THEN out
                   ELSE Append(out, Closing(base, TRUE, body \o part))

Xsputn ==
  /\ piece # <<>>
  /\ \/ NeedsFlush /\ Put(<<>>, <<>>, Append(frames, Contents))
     \/ ~NeedsFlush /\ Put(closed, chunk, frames)
  /\ UNCHANGED <<sealed, decoderVars>>

\* A mistake: the room for the seal is not looked at.
MutSealUnchecked ==
  /\ piece = <<>> /\ message # <<>>
  /\ closed' = Contents \o Header(0)
  /\ chunk_open' = FALSE /\ chunk' = <<>>
  /\ sealed' = Append(sealed, message)
  /\ message' = <<>>
  /\ UNCHANGED <<piece, frames, decoderVars>>

\* A mistake: the seal is written wherever the buffer has room for a byte of it.
MutSeal ==
  LET room == BUFFER_SIZE - Len(Contents)
      all == Contents \o Header(0)
      full == room < HeaderSize
  IN  /\ piece = <<>> /\ message # <<>>
      /\ closed' = IF full THEN SubSeq(all, BUFFER_SIZE + 1, Len(all)) ELSE all
      /\ frames' = IF full THEN Append(frames, SubSeq(all, 1, BUFFER_SIZE)) ELSE frames
      /\ chunk_open' = FALSE /\ chunk' = <<>>
      /\ sealed' = Append(sealed, message)
      /\ message' = <<>>
      /\ UNCHANGED <<piece, decoderVars>>

\* seal: the two bytes of a seal are never in two frames.
Seal ==
  LET full == BUFFER_SIZE - Len(Contents) < HeaderSize
  IN  /\ piece = <<>> /\ message # <<>>
      /\ closed' = (IF full THEN <<>> ELSE Contents) \o Header(0)
      /\ frames' = IF full THEN Append(frames, Contents) ELSE frames
      /\ chunk_open' = FALSE /\ chunk' = <<>>
      /\ sealed' = Append(sealed, message)
      /\ message' = <<>>
      /\ UNCHANGED <<piece, decoderVars>>

\* A mistake: a last frame that holds nothing but seals is not sent.
MutSync ==
  /\ message = <<>> /\ piece = <<>>
  /\ Len(closed) > HeaderSize
  /\ frames' = Append(frames, Contents)
  /\ closed' = <<>> /\ chunk_open' = FALSE /\ chunk' = <<>>
  /\ UNCHANGED <<piece, message, sealed, decoderVars>>

\* The flush at the end of an answer.
Sync ==
  /\ message = <<>> /\ piece = <<>>
  /\ closed # <<>>
  /\ frames' = Append(frames, Contents)
  /\ closed' = <<>> /\ chunk_open' = FALSE /\ chunk' = <<>>
  /\ UNCHANGED <<piece, message, sealed, decoderVars>>

-----------------------------------------------------------------------------
(***************************************************************************)
(* The ChunkDecoder of the browser.                                        *)
(***************************************************************************)
OnMessage ==
  /\ frame = <<>> /\ frames # <<>>
  /\ \E n \in 1 .. Len(Head(frames)) :
       LET rest == SubSeq(Head(frames), n + 1, Len(Head(frames)))
       IN  /\ CutsFrames \/ rest = <<>>
           /\ frame' = SubSeq(Head(frames), 1, n)
           /\ frames' = IF rest = <<>> THEN Tail(frames) ELSE <<rest>> \o Tail(frames)
  /\ UNCHANGED <<serverVars, state, remaining, slices, decoded>>

\* _handleDecodedHeader
DecodedHeader(size) ==
  /\ remaining' = size
  /\ IF size = 0
     THEN /\ decoded' = Append(decoded, slices)
          /\ slices' = <<>>
          /\ state' = "FIRST_BYTE"
     ELSE state' = "BODY" /\ UNCHANGED <<slices, decoded>>

HandleHeaderFirstByte ==
  /\ frame # <<>> /\ state = "FIRST_BYTE"
  /\ \/ /\ Len(frame) > 1
        /\ DecodedHeader(frame[1] * Base + frame[2])
        /\ frame' = SubSeq(frame, 3, Len(frame))
     \/ /\ Len(frame) = 1
        /\ remaining' = frame[1] * Base
        /\ frame' = <<>>
        /\ state' = "SECOND_BYTE"
        /\ UNCHANGED <<slices, decoded>>
  /\ UNCHANGED <<serverVars, frames>>

HandleHeaderSecondByte ==
  /\ frame # <<>> /\ state = "SECOND_BYTE"
  /\ DecodedHeader(remaining + frame[1])
  /\ frame' = Tail(frame)
  /\ UNCHANGED <<serverVars, frames>>

\* A mistake: the whole frame is counted, also what follows the chunk in it.
MutHandleBody ==
  /\ frame # <<>> /\ state = "BODY"
  /\ remaining' = remaining - Len(frame)
  /\ \/ /\ remaining > Len(frame)
        /\ slices' = slices \o frame
        /\ frame' = <<>>
        /\ UNCHANGED state
     \/ /\ remaining <= Len(frame)
        /\ slices' = slices \o SubSeq(frame, 1, remaining)
        /\ frame' = SubSeq(frame, remaining + 1, Len(frame))
        /\ state' = "FIRST_BYTE"
  /\ UNCHANGED <<serverVars, frames, decoded>>

HandleBody ==
  /\ frame # <<>> /\ state = "BODY"
  /\ \/ /\ remaining > Len(frame)
        /\ slices' = slices \o frame
        /\ remaining' = remaining - Len(frame)
        /\ frame' = <<>>
        /\ UNCHANGED state
     \/ /\ remaining <= Len(frame)
        /\ slices' = slices \o SubSeq(frame, 1, remaining)
        /\ frame' = SubSeq(frame, remaining + 1, Len(frame))
        /\ state' = "FIRST_BYTE"
        /\ UNCHANGED remaining
  /\ UNCHANGED <<serverVars, frames, decoded>>

Respond == Xsputn \/ Seal \/ Sync
Decode == OnMessage \/ HandleHeaderFirstByte \/ HandleHeaderSecondByte \/ HandleBody

Next == Write \/ Respond \/ Decode

Spec == Init /\ [][Next]_vars

\* The thread of the session goes on, and the browser gets what was sent to it.
LiveSpec == Spec /\ WF_vars(Respond) /\ WF_vars(Decode)

-----------------------------------------------------------------------------
(***************************************************************************)
(* Properties.                                                             *)
(***************************************************************************)
\* The variables have their types; a chunk under way is never longer than its
\* header can say.
TypeOK ==
  /\ closed \in Seq(Byte) /\ chunk_open \in BOOLEAN /\ chunk \in Seq(Byte)
  /\ piece \in Seq(Byte) /\ message \in Seq(Byte) /\ sealed \in Seq(Seq(Byte))
  /\ frames \in Seq(Seq(Byte)) /\ frame \in Seq(Byte)
  /\ state \in {"FIRST_BYTE", "SECOND_BYTE", "BODY"}
  /\ remaining \in ChunkSize
  /\ slices \in Seq(Byte) /\ decoded \in Seq(Seq(Byte))

\* No byte is written behind the end of the buffer: xsputn, seal and open_chunk
\* index it by current_pos and only ensure_write_space and seal look at the room
\* that is left.
BufferIsLargeEnough == CurrentPos <= BUFFER_SIZE

\* Every frame that the server writes is made of whole chunks and seals: no
\* header and no seal is cut in two, as the comment of seal demands.
WholeChunks[bytes \in Seq(Byte)] ==
  \/ bytes = <<>>
  \/ LET size == bytes[1] * Base + bytes[2]
     IN  /\ Len(bytes) >= HeaderSize
         /\ Len(bytes) >= HeaderSize + size
         /\ WholeChunks[SubSeq(bytes, HeaderSize + size + 1, Len(bytes))]

FramesAreWholeChunks ==
  [][\A i \in Len(frames) + 1 .. Len(frames') : WholeChunks[frames'[i]]]_vars

\* The driver gets the messages of the server whole, once and in order, however
\* they are cut into chunks and the chunks into frames.
Channel == INSTANCE MessageChannel
             WITH Message <- Seq(Byte), sent <- sealed, received <- decoded
DeliversMessages == Channel!Spec

\* A message that the server has sealed does reach the driver: nothing stays in
\* the buffer of the server or in the slices of the decoder.
MessagesArrive ==
  \A n \in 1 .. MaxMessages : Len(sealed) >= n ~> Len(decoded) >= n
=============================================================================
