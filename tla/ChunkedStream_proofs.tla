------------------------ MODULE ChunkedStream_proofs ------------------------
(***************************************************************************)
(* The buffer of ChunkedStream never overflows, whatever its size, the     *)
(* messages and the pieces in which they are written; its variables keep   *)
(* their types: the size of a chunk always fits in its header.             *)
(*                                                                         *)
(* The frames are made of whole chunks and seals, and what the decoder     *)
(* passes on are the messages of the server, whole, once each and in       *)
(* order: ChunkedStream implements MessageChannel.  The argument follows   *)
(* the bytes under way.  Decodings is the least relation between bytes and *)
(* what they do to the slices and the messages decoded; facts about all    *)
(* byte strings are proved from its being the least, not by induction.     *)
(* FlowInv says that the bytes in the decoder, in the frames and in the    *)
(* buffer lead, in this order, from the slices of the browser to the       *)
(* message that the server has begun.                                      *)
(***************************************************************************)
EXTENDS ChunkedStream, SequenceTheorems, TLAPS

USE DEF HeaderSize

\* The buffer has room for a header and a byte.
LEMMA BufferSize == BUFFER_SIZE \in Nat /\ BUFFER_SIZE > 2
BY SizesAssumption

\* Two sequences of bytes, one behind the other.
LEMMA BytesBehindBytes ==
  ASSUME NEW S, NEW s \in Seq(S), NEW t \in Seq(S)
  PROVE  s \o t \in Seq(S) /\ Len(s \o t) = Len(s) + Len(t)
BY ConcatProperties

\* A number below Base * Base is written with two bytes.
LEMMA HeaderIsTwoBytes ==
  ASSUME NEW size \in Nat, size < Base * Base
  PROVE  Header(size) \in Seq(Byte) /\ Len(Header(size)) = 2
<1> DEFINE q == size \div Base
           r == size % Base
<1>1. Base \in Nat /\ Base > 1 BY SizesAssumption
<1>2. q \in Nat /\ r \in 0 .. Base - 1 /\ size = Base * q + r BY <1>1
<1>3. q < Base
  <2> SUFFICES ASSUME q >= Base PROVE FALSE BY <1>1, <1>2
  <2> HIDE DEF q, r
  <2>1. PICK k \in Nat : q = Base + k BY <1>1, <1>2
  <2>2. Base * q = Base * Base + Base * k BY <1>1, <2>1
  <2>3. Base * k >= 0 BY <1>1, <2>1
  <2> QED BY <1>1, <1>2, <2>2, <2>3
<1>4. q \in Byte /\ r \in Byte BY <1>1, <1>2, <1>3 DEF Byte
<1> QED BY <1>4 DEF Header

\* Two bytes are a number below Base * Base.
LEMMA TwoBytesAreASize ==
  ASSUME NEW high \in Byte, NEW low \in Byte
  PROVE  high * Base \in ChunkSize /\ high * Base + low \in ChunkSize
<1>1. Base \in Nat /\ Base > 1 BY SizesAssumption
<1>2. PICK k \in Nat : high + k = Base - 1 BY <1>1 DEF Byte
<1>3. high * Base + k * Base = (Base - 1) * Base BY <1>1, <1>2 DEF Byte
<1>4. k * Base >= 0 /\ high * Base >= 0 BY <1>1, <1>2 DEF Byte
<1>5. (Base - 1) * Base = Base * Base - Base BY <1>1
<1> QED BY <1>1, <1>3, <1>4, <1>5 DEF Byte, ChunkSize

-----------------------------------------------------------------------------
\* The decoder that waits for a low byte has kept the high one, and nothing else.
HighByteKept ==
  state = "SECOND_BYTE" => \E high \in Byte : remaining = high * Base

\* An open chunk has a byte: its header is never a seal.
OpenChunksHaveBytes == chunk_open <=> chunk # <<>>

IInv == TypeOK /\ BufferIsLargeEnough /\ OpenChunksHaveBytes /\ HighByteKept

\* What is in the buffer once it is closed: as many bytes as before, and a chunk that
\* fits in the buffer has a header.
LEMMA ClosingIsBytes ==
  ASSUME NEW bytes \in Seq(Byte), NEW isOpen \in BOOLEAN, NEW body \in Seq(Byte),
         Len(bytes) + (IF isOpen THEN HeaderSize + Len(body) ELSE 0) <= BUFFER_SIZE
  PROVE  /\ Closing(bytes, isOpen, body) \in Seq(Byte)
         /\ Len(Closing(bytes, isOpen, body)) =
              Len(bytes) + (IF isOpen THEN HeaderSize + Len(body) ELSE 0)
<1>1. CASE isOpen
  <2>1. Len(body) \in Nat /\ Len(bytes) \in Nat BY LenProperties
  <2>2. Len(body) < Base * Base
    <3> DEFINE square == Base * Base
    <3>1. square \in Nat /\ BUFFER_SIZE <= square BY SizesAssumption
    <3>2. Len(bytes) + HeaderSize + Len(body) <= BUFFER_SIZE BY <1>1, <2>1, BufferSize
    <3> HIDE DEF square
    <3>3. Len(body) < square BY <2>1, <3>1, <3>2, BufferSize
    <3> QED BY <3>3 DEF square
  <2>3. Header(Len(body)) \in Seq(Byte) /\ Len(Header(Len(body))) = 2
    BY <2>1, <2>2, HeaderIsTwoBytes
  <2>4. /\ bytes \o Header(Len(body)) \in Seq(Byte)
        /\ Len(bytes \o Header(Len(body))) = Len(bytes) + 2
    BY <2>3, BytesBehindBytes
  <2> DEFINE front == bytes \o Header(Len(body))
  <2> HIDE DEF front
  <2>5. /\ front \o body \in Seq(Byte)
        /\ Len(front \o body) = Len(front) + Len(body)
    BY <2>4, BytesBehindBytes DEF front
  <2>6. Closing(bytes, isOpen, body) = front \o body BY <1>1 DEF Closing, front
  <2>7. Len(front) = Len(bytes) + 2 BY <2>4 DEF front
  <2>8. Len(front \o body) = Len(bytes) + (2 + Len(body)) BY <2>1, <2>5, <2>7
  <2>9. (IF isOpen THEN HeaderSize + Len(body) ELSE 0) = 2 + Len(body) BY <1>1
  <2> QED BY <2>5, <2>6, <2>8, <2>9, Zenon
<1>2. CASE ~isOpen BY <1>2, LenProperties DEF Closing
<1> QED BY <1>1, <1>2

LEMMA ContentsAreBytes ==
  ASSUME IInv
  PROVE  Contents \in Seq(Byte) /\ Len(Contents) = CurrentPos
BY ClosingIsBytes DEF IInv, TypeOK, BufferIsLargeEnough, CurrentPos, Contents

\* A round of xsputn with room for a byte.
LEMMA PutIsSafe ==
  ASSUME TypeOK, piece # <<>>,
         NEW base \in Seq(Byte), NEW body \in Seq(Byte), NEW out \in Seq(Seq(Byte)),
         Len(base) + HeaderSize + Len(body) < BUFFER_SIZE,
         Put(base, body, out)
  PROVE  /\ message' \in Seq(Byte) /\ piece' \in Seq(Byte) /\ frames' \in Seq(Seq(Byte))
         /\ closed' \in Seq(Byte) /\ chunk' \in Seq(Byte) /\ chunk_open' \in BOOLEAN
         /\ BufferIsLargeEnough' /\ OpenChunksHaveBytes'
<1> DEFINE room == BUFFER_SIZE - Len(base) - HeaderSize - Len(body)
           fits == Len(piece) <= room
           part == IF fits THEN piece ELSE SubSeq(piece, 1, room)
<1>1. room \in Nat \ {0} BY SizesAssumption
<1>2. /\ piece \in Seq(Byte) /\ message \in Seq(Byte) /\ Len(piece) > 0
      /\ Len(base) \in Nat /\ Len(body) \in Nat
  BY LenProperties DEF TypeOK
<1>3. /\ message' = message \o part
      /\ piece' = IF fits THEN <<>> ELSE SubSeq(piece, room + 1, Len(piece))
      /\ chunk_open' = fits
      /\ chunk' = IF fits THEN body \o part ELSE <<>>
      /\ closed' = IF fits THEN base ELSE <<>>
      /\ frames' = IF fits THEN out ELSE Append(out, Closing(base, TRUE, body \o part))
  BY DEF Put
<1>4. part \in Seq(Byte) /\ Len(part) > 0 /\ Len(part) <= room
  BY <1>1, <1>2
<1> HIDE DEF fits, part
<1>5. /\ body \o part \in Seq(Byte) /\ Len(body \o part) = Len(body) + Len(part)
      /\ message \o part \in Seq(Byte)
  BY <1>2, <1>4, BytesBehindBytes
<1>6. Len(base) + (HeaderSize + Len(body \o part)) <= BUFFER_SIZE
  BY <1>2, <1>4, <1>5, LenProperties, BufferSize
<1>7. Closing(base, TRUE, body \o part) \in Seq(Byte)
  <2>1. (IF TRUE THEN HeaderSize + Len(body \o part) ELSE 0) = HeaderSize + Len(body \o part)
    OBVIOUS
  <2>2. Len(base) + (IF TRUE THEN HeaderSize + Len(body \o part) ELSE 0) <= BUFFER_SIZE
    BY <1>6, <2>1, Zenon
  <2> QED BY <1>5, <2>2, ClosingIsBytes, Zenon
<1> DEFINE sent == Closing(base, TRUE, body \o part)
<1>8. <<>> \in Seq(Byte) /\ Len(<<>>) = 0 BY EmptySeq
<1>9. SubSeq(piece, room + 1, Len(piece)) \in Seq(Byte) BY <1>1, <1>2
<1>10. body \o part # <<>> BY <1>2, <1>4, <1>5, <1>8, LenProperties
<1>11. frames' = IF fits THEN out ELSE Append(out, sent) BY <1>3, Zenon
<1>12. sent \in Seq(Byte) BY <1>7
<1> HIDE DEF sent
<1>13. Append(out, sent) \in Seq(Seq(Byte)) BY <1>12
<1> HIDE DEF room
<1>14. CASE fits
  <2>1. /\ message' = message \o part /\ piece' = <<>> /\ chunk_open' = TRUE
        /\ chunk' = body \o part /\ closed' = base /\ frames' = out
    BY <1>3, <1>14
  <2>2. BufferIsLargeEnough' BY <1>6, <2>1 DEF BufferIsLargeEnough, CurrentPos
  <2> QED BY <1>5, <1>8, <1>10, <2>1, <2>2, Zenon DEF OpenChunksHaveBytes
<1>15. CASE ~fits
  <2>0. chunk_open' = FALSE
    <3>1. chunk_open' = fits BY <1>3, Zenon
    <3>2. fits \in BOOLEAN BY DEF fits
    <3> QED BY <1>15, <3>1, <3>2
  <2>1. /\ message' = message \o part /\ piece' = SubSeq(piece, room + 1, Len(piece))
        /\ chunk_open' = FALSE /\ chunk' = <<>> /\ closed' = <<>>
        /\ frames' = Append(out, sent)
    BY <1>3, <1>11, <1>15, <2>0, Zenon
  <2>2. BufferIsLargeEnough' BY <1>8, <2>1, BufferSize DEF BufferIsLargeEnough, CurrentPos
  <2> QED BY <1>5, <1>8, <1>9, <1>13, <2>1, <2>2, Zenon DEF OpenChunksHaveBytes
<1> QED BY <1>14, <1>15

LEMMA InitInvariant == Init => IInv
<1> SUFFICES ASSUME Init PROVE IInv OBVIOUS
<1>1. <<>> \in Seq(Byte) /\ <<>> \in Seq(Seq(Byte)) /\ Len(<<>>) = 0 BY EmptySeq
<1>2. 0 \in ChunkSize BY TwoBytesAreASize, SizesAssumption DEF Byte
<1>3. BufferIsLargeEnough
  BY <1>1, BufferSize DEF Init, BufferIsLargeEnough, CurrentPos
<1>4. TypeOK BY <1>1, <1>2 DEF Init, TypeOK
<1> QED BY <1>3, <1>4 DEF Init, IInv, OpenChunksHaveBytes, HighByteKept

\* The decoder after a header.
LEMMA DecodedHeaderIsSafe ==
  ASSUME IInv, NEW size \in ChunkSize, DecodedHeader(size)
  PROVE  /\ state' \in {"FIRST_BYTE", "BODY"} /\ remaining' \in ChunkSize
         /\ slices' \in Seq(Byte) /\ decoded' \in Seq(Seq(Byte))
<1>1. <<>> \in Seq(Byte) OBVIOUS
<1>2. slices \in Seq(Byte) /\ decoded \in Seq(Seq(Byte)) BY DEF IInv, TypeOK
<1>3. Append(decoded, slices) \in Seq(Seq(Byte)) BY <1>2
<1> QED BY <1>1, <1>2, <1>3 DEF DecodedHeader

\* The steps of the server leave the decoder alone, and the other way round.
LEMMA ServerStepIsSafe ==
  ASSUME IInv, Write \/ Respond
  PROVE  IInv'
<1> USE DEF decoderVars, bufferVars
<1>0. /\ closed \in Seq(Byte) /\ chunk_open \in BOOLEAN /\ chunk \in Seq(Byte)
      /\ piece \in Seq(Byte) /\ message \in Seq(Byte) /\ sealed \in Seq(Seq(Byte))
      /\ frames \in Seq(Seq(Byte))
      /\ Len(closed) \in Nat /\ Len(chunk) \in Nat
  BY LenProperties DEF IInv, TypeOK
<1>1. Contents \in Seq(Byte) /\ Len(Contents) = CurrentPos BY ContentsAreBytes
<1>2. Append(frames, Contents) \in Seq(Seq(Byte)) BY <1>0, <1>1
<1>3. <<>> \in Seq(Byte) OBVIOUS
<1>4. Header(0) \in Seq(Byte) /\ Len(Header(0)) = 2
  <2>1. 0 < Base * Base BY TwoBytesAreASize, SizesAssumption DEF Byte
  <2> QED BY <2>1, HeaderIsTwoBytes
<1>5. CASE Write
  <2>1. piece' \in Seq(Byte) BY <1>5, PieceAssumption DEF Write
  <2> QED
    BY <1>5, <2>1 DEF Write, IInv, TypeOK, BufferIsLargeEnough, OpenChunksHaveBytes,
                      HighByteKept, CurrentPos
<1>6. CASE Xsputn
  <2>1. CASE NeedsFlush /\ Put(<<>>, <<>>, Append(frames, Contents))
    <3>1. Len(<<>>) + HeaderSize + Len(<<>>) < BUFFER_SIZE
      BY SizesAssumption
    <3>2. /\ message' \in Seq(Byte) /\ piece' \in Seq(Byte) /\ frames' \in Seq(Seq(Byte))
          /\ closed' \in Seq(Byte) /\ chunk' \in Seq(Byte) /\ chunk_open' \in BOOLEAN
          /\ BufferIsLargeEnough' /\ OpenChunksHaveBytes'
      BY <1>2, <1>3, <1>6, <2>1, <3>1, PutIsSafe DEF IInv, Xsputn
    <3> QED BY <1>6, <3>2 DEF Xsputn, IInv, TypeOK, HighByteKept
  <2>2. CASE ~NeedsFlush /\ Put(closed, chunk, frames)
    <3>1. Len(closed) + HeaderSize + Len(chunk) < BUFFER_SIZE
      <4>1. ~(BUFFER_SIZE - CurrentPos < (IF chunk_open THEN 1 ELSE HeaderSize + 1))
        BY <2>2 DEF NeedsFlush, RemainingSpace
      <4>2. CASE chunk_open
        BY <1>0, <4>1, <4>2, BufferSize DEF CurrentPos
      <4>3. CASE ~chunk_open
        <5>1. Len(chunk) = 0 BY <4>3, EmptySeq DEF IInv, OpenChunksHaveBytes
        <5> QED BY <1>0, <4>1, <4>3, <5>1, BufferSize DEF CurrentPos
      <4> QED BY <4>2, <4>3
    <3>2. /\ message' \in Seq(Byte) /\ piece' \in Seq(Byte) /\ frames' \in Seq(Seq(Byte))
          /\ closed' \in Seq(Byte) /\ chunk' \in Seq(Byte) /\ chunk_open' \in BOOLEAN
          /\ BufferIsLargeEnough' /\ OpenChunksHaveBytes'
      BY <1>0, <1>6, <2>2, <3>1, PutIsSafe DEF IInv, Xsputn
    <3> QED BY <1>6, <3>2 DEF Xsputn, IInv, TypeOK, HighByteKept
  <2> QED BY <1>6, <2>1, <2>2 DEF Xsputn
<1>7. CASE Seal
  <2> DEFINE full == BUFFER_SIZE - Len(Contents) < HeaderSize
  <2>1. /\ closed' = (IF full THEN <<>> ELSE Contents) \o Header(0)
        /\ frames' = IF full THEN Append(frames, Contents) ELSE frames
        /\ chunk_open' = FALSE /\ chunk' = <<>>
        /\ sealed' = Append(sealed, message) /\ message' = <<>>
        /\ UNCHANGED <<piece, decoderVars>>
    BY <1>7 DEF Seal
  <2>2. frames' \in Seq(Seq(Byte)) /\ sealed' \in Seq(Seq(Byte))
    BY <1>0, <1>1, <1>2, <2>1
  <2>3. closed' \in Seq(Byte) /\ Len(closed') <= BUFFER_SIZE
    <3>1. Len(Contents) \in Nat /\ Len(<<>>) = 0 BY <1>1, LenProperties, EmptySeq
    <3>2. CASE full
      <4>1. closed' = <<>> \o Header(0) BY <2>1, <3>2
      <4>2. closed' \in Seq(Byte) /\ Len(closed') = Len(<<>>) + Len(Header(0))
        BY <1>3, <1>4, <4>1, BytesBehindBytes
      <4>3. Len(closed') = 0 + 2 BY <1>4, <3>1, <4>2, Zenon
      <4>4. 0 + 2 <= BUFFER_SIZE BY BufferSize
      <4> QED BY <4>2, <4>3, <4>4, Zenon
    <3>3. CASE ~full
      <4>1. closed' = Contents \o Header(0) BY <2>1, <3>3
      <4>2. closed' \in Seq(Byte) /\ Len(closed') = Len(Contents) + Len(Header(0))
        BY <1>1, <1>4, <4>1, BytesBehindBytes
      <4>3. Len(closed') = Len(Contents) + 2 BY <1>4, <4>2, Zenon
      <4> HIDE DEF full
      <4>4. Len(Contents) + 2 <= BUFFER_SIZE BY <3>1, <3>3, BufferSize DEF full
      <4> QED BY <4>2, <4>3, <4>4, Zenon
    <3> QED BY <3>2, <3>3
  <2>4. BufferIsLargeEnough' BY <2>1, <2>3 DEF BufferIsLargeEnough, CurrentPos
  <2> QED
    BY <1>0, <1>3, <2>1, <2>2, <2>3, <2>4
    DEF IInv, TypeOK, OpenChunksHaveBytes, HighByteKept
<1>8. CASE Sync
  <2>1. BufferIsLargeEnough'
    BY <1>8, EmptySeq, BufferSize DEF Sync, BufferIsLargeEnough, CurrentPos
  <2> QED
    BY <1>0, <1>2, <1>3, <1>8, <2>1
    DEF Sync, IInv, TypeOK, OpenChunksHaveBytes, HighByteKept
<1> QED BY <1>5, <1>6, <1>7, <1>8 DEF Respond

LEMMA DecoderStepIsSafe ==
  ASSUME IInv, Decode
  PROVE  IInv'
<1> USE DEF serverVars, bufferVars
<1>0. /\ frames \in Seq(Seq(Byte)) /\ frame \in Seq(Byte)
      /\ remaining \in ChunkSize /\ slices \in Seq(Byte)
      /\ decoded \in Seq(Seq(Byte))
  BY DEF IInv, TypeOK
<1>1. <<>> \in Seq(Byte) OBVIOUS
<1>2. SUFFICES /\ frames' \in Seq(Seq(Byte)) /\ frame' \in Seq(Byte)
               /\ state' \in {"FIRST_BYTE", "SECOND_BYTE", "BODY"}
               /\ remaining' \in ChunkSize /\ slices' \in Seq(Byte)
               /\ decoded' \in Seq(Seq(Byte)) /\ HighByteKept'
  <2>1. UNCHANGED serverVars
    BY DEF Decode, OnMessage, HandleHeaderFirstByte, HandleHeaderSecondByte, HandleBody
  <2>2. BufferIsLargeEnough' /\ OpenChunksHaveBytes'
    BY <2>1 DEF IInv, BufferIsLargeEnough, OpenChunksHaveBytes, CurrentPos
  <2> QED BY <2>1, <2>2 DEF IInv, TypeOK
<1>3. CASE OnMessage
  <2>1. UNCHANGED <<state, remaining, slices, decoded>> BY <1>3 DEF OnMessage
  <2>2. frames' \in Seq(Seq(Byte)) /\ frame' \in Seq(Byte)
    <3>1. frames # <<>> BY <1>3 DEF OnMessage
    <3>2. Head(frames) \in Seq(Byte) /\ Tail(frames) \in Seq(Seq(Byte)) BY <1>0, <3>1
    <3>3. PICK n \in 1 .. Len(Head(frames)) :
            LET rest == SubSeq(Head(frames), n + 1, Len(Head(frames)))
            IN  /\ frame' = SubSeq(Head(frames), 1, n)
                /\ frames' = IF rest = <<>> THEN Tail(frames) ELSE <<rest>> \o Tail(frames)
      BY <1>3 DEF OnMessage
    <3>4. Len(Head(frames)) \in Nat BY <3>2, LenProperties
    <3> DEFINE head == Head(frames)
               rest == SubSeq(head, n + 1, Len(head))
    <3> HIDE DEF head
    <3>5. rest \in Seq(Byte) /\ SubSeq(head, 1, n) \in Seq(Byte)
      BY <3>2, <3>4 DEF head
    <3> HIDE DEF rest
    <3>6. <<rest>> \in Seq(Seq(Byte)) BY <3>5
    <3>7. <<rest>> \o Tail(frames) \in Seq(Seq(Byte)) BY <3>2, <3>6, BytesBehindBytes
    <3>8. /\ frame' = SubSeq(head, 1, n)
          /\ frames' = IF rest = <<>> THEN Tail(frames) ELSE <<rest>> \o Tail(frames)
      BY <3>3 DEF head, rest
    <3> QED BY <3>2, <3>5, <3>7, <3>8
  <2> QED BY <1>0, <2>1, <2>2 DEF IInv, TypeOK, HighByteKept
<1>4. CASE HandleHeaderFirstByte
  <2>1. frame # <<>> /\ UNCHANGED frames BY <1>4 DEF HandleHeaderFirstByte
  <2>2. Len(frame) \in Nat /\ Len(frame) >= 1 /\ frame[1] \in Byte
    BY <1>0, <2>1, LenProperties
  <2>3. CASE /\ Len(frame) > 1
             /\ DecodedHeader(frame[1] * Base + frame[2])
             /\ frame' = SubSeq(frame, 3, Len(frame))
    <3>1. frame[2] \in Byte BY <1>0, <2>2, <2>3
    <3>2. frame[1] * Base + frame[2] \in ChunkSize BY <2>2, <3>1, TwoBytesAreASize
    <3>3. /\ state' \in {"FIRST_BYTE", "BODY"} /\ remaining' \in ChunkSize
          /\ slices' \in Seq(Byte) /\ decoded' \in Seq(Seq(Byte))
      BY <2>3, <3>2, DecodedHeaderIsSafe
    <3>4. frame' \in Seq(Byte) BY <1>0, <2>2, <2>3
    <3> QED BY <1>0, <2>1, <3>3, <3>4 DEF HighByteKept
  <2>4. CASE /\ Len(frame) = 1
             /\ remaining' = frame[1] * Base
             /\ frame' = <<>>
             /\ state' = "SECOND_BYTE"
             /\ UNCHANGED <<slices, decoded>>
    <3>1. frame[1] * Base \in ChunkSize BY <2>2, TwoBytesAreASize
    <3>2. HighByteKept' BY <2>2, <2>4 DEF HighByteKept
    <3> QED BY <1>0, <1>1, <2>1, <2>4, <3>1, <3>2
  <2> QED BY <1>4, <2>3, <2>4 DEF HandleHeaderFirstByte
<1>5. CASE HandleHeaderSecondByte
  <2>1. /\ frame # <<>> /\ state = "SECOND_BYTE" /\ UNCHANGED frames
        /\ DecodedHeader(remaining + frame[1]) /\ frame' = Tail(frame)
    BY <1>5 DEF HandleHeaderSecondByte
  <2>2. frame[1] \in Byte /\ frame' \in Seq(Byte) BY <1>0, <2>1
  <2>3. PICK high \in Byte : remaining = high * Base
    BY <2>1 DEF IInv, HighByteKept
  <2>4. remaining + frame[1] \in ChunkSize BY <2>2, <2>3, TwoBytesAreASize
  <2>5. /\ state' \in {"FIRST_BYTE", "BODY"} /\ remaining' \in ChunkSize
        /\ slices' \in Seq(Byte) /\ decoded' \in Seq(Seq(Byte))
    BY <2>1, <2>4, DecodedHeaderIsSafe
  <2> QED BY <1>0, <2>1, <2>2, <2>5 DEF HighByteKept
<1>6. CASE HandleBody
  <2>1. remaining \in Nat /\ Len(frame) \in Nat
    BY <1>0, LenProperties DEF ChunkSize
  <2>2. UNCHANGED <<frames, decoded>> BY <1>6 DEF HandleBody
  <2>3. CASE /\ remaining > Len(frame)
             /\ slices' = slices \o frame
             /\ remaining' = remaining - Len(frame)
             /\ frame' = <<>>
             /\ UNCHANGED state
    <3>1. remaining' \in ChunkSize
      <4> DEFINE top == Base * Base - 1
      <4>1. top \in Int /\ remaining <= top BY <1>0, SizesAssumption DEF ChunkSize
      <4> HIDE DEF top
      <4>2. remaining' \in 0 .. top BY <2>1, <2>3, <4>1
      <4> QED BY <4>2 DEF top, ChunkSize
    <3>2. slices' \in Seq(Byte) BY <1>0, <2>3, BytesBehindBytes
    <3>3. state' = "BODY" BY <1>6, <2>3 DEF HandleBody
    <3> QED BY <1>0, <1>1, <2>2, <2>3, <3>1, <3>2, <3>3 DEF HighByteKept
  <2>4. CASE /\ remaining <= Len(frame)
             /\ slices' = slices \o SubSeq(frame, 1, remaining)
             /\ frame' = SubSeq(frame, remaining + 1, Len(frame))
             /\ state' = "FIRST_BYTE"
             /\ UNCHANGED remaining
    <3>1. SubSeq(frame, 1, remaining) \in Seq(Byte) /\ frame' \in Seq(Byte)
      BY <1>0, <2>1, <2>4
    <3>2. slices' \in Seq(Byte) BY <1>0, <2>4, <3>1, BytesBehindBytes
    <3> QED BY <1>0, <2>2, <2>4, <3>1, <3>2 DEF HighByteKept
  <2> QED BY <1>6, <2>3, <2>4 DEF HandleBody
<1> QED BY <1>3, <1>4, <1>5, <1>6 DEF Decode

-----------------------------------------------------------------------------
\* The types, the bound of the buffer and what they rest on hold in every state.
THEOREM Invariance == Spec => []IInv
<1>1. Init => IInv BY InitInvariant
<1>2. IInv /\ [Next]_vars => IInv'
  <2>1. ASSUME IInv, UNCHANGED vars PROVE IInv'
    BY <2>1
    DEF vars, serverVars, decoderVars, bufferVars, IInv, TypeOK, BufferIsLargeEnough,
        OpenChunksHaveBytes, HighByteKept, CurrentPos
  <2> QED BY <2>1, ServerStepIsSafe, DecoderStepIsSafe DEF Next
<1> QED BY <1>1, <1>2, PTL DEF Spec

\* Every chunk fits in the two bytes of its header: the variables keep their types.
THEOREM TypeCorrect == Spec => []TypeOK
<1>1. IInv => TypeOK BY DEF IInv
<1> QED BY <1>1, Invariance, PTL

\* xsputn, seal and open_chunk never write behind the end of the buffer.
THEOREM BufferNeverOverflows == Spec => []BufferIsLargeEnough
<1>1. IInv => BufferIsLargeEnough BY DEF IInv
<1> QED BY <1>1, Invariance, PTL
-----------------------------------------------------------------------------
(***************************************************************************)
(* What the decoder makes of whole chunks: the least relation that reads   *)
(* nothing, or a seal or a chunk before what it reads otherwise.           *)
(***************************************************************************)
Bytes == Seq(Byte)

\* <<b, s, c, t, d>>: with slices s and c messages decoded, the bytes b lead to
\* slices t and d messages decoded.
Decoding == Bytes \X Bytes \X Nat \X Bytes \X Nat

\* The messages decoded are to be those of m.
Reads(m, R, b, s, c, t, d) ==
  \/ b = <<>> /\ t = s /\ d = c
  \/ \E rest \in Bytes :
       /\ b = Header(0) \o rest
       /\ c < Len(m) /\ s = m[c + 1]
       /\ <<rest, <<>>, c + 1, t, d>> \in R
  \/ \E body \in Bytes, rest \in Bytes :
       /\ body # <<>> /\ Len(body) < Base * Base
       /\ b = Header(Len(body)) \o (body \o rest)
       /\ <<rest, s \o body, c, t, d>> \in R

IsReading(m, R) ==
  \A b \in Bytes, s \in Bytes, c \in Nat, t \in Bytes, d \in Nat :
    Reads(m, R, b, s, c, t, d) => <<b, s, c, t, d>> \in R

Decodings(m) ==
  {x \in Decoding : \A R \in SUBSET Decoding : IsReading(m, R) => x \in R}

\* The same for frames, each of whole chunks.
Delivery == Seq(Bytes) \X Bytes \X Nat \X Bytes \X Nat

ReadsFrames(m, R, fs, s, c, t, d) ==
  \/ fs = <<>> /\ t = s /\ d = c
  \/ /\ fs # <<>>
     /\ \E u \in Bytes, e \in Nat :
          /\ <<Head(fs), s, c, u, e>> \in Decodings(m)
          /\ <<Tail(fs), u, e, t, d>> \in R

IsReadingFrames(m, R) ==
  \A fs \in Seq(Bytes), s \in Bytes, c \in Nat, t \in Bytes, d \in Nat :
    ReadsFrames(m, R, fs, s, c, t, d) => <<fs, s, c, t, d>> \in R

Deliveries(m) ==
  {x \in Delivery : \A R \in SUBSET Delivery : IsReadingFrames(m, R) => x \in R}

LEMMA DecodingTypes ==
  ASSUME NEW m, NEW b, NEW s, NEW c, NEW t, NEW d, <<b, s, c, t, d>> \in Decodings(m)
  PROVE  b \in Bytes /\ s \in Bytes /\ c \in Nat /\ t \in Bytes /\ d \in Nat
BY DEF Decodings, Decoding

LEMMA DecodingsLeast ==
  ASSUME NEW m, NEW R \in SUBSET Decoding, IsReading(m, R)
  PROVE  Decodings(m) \subseteq R
BY DEF Decodings

LEMMA DecodingsRead ==
  ASSUME NEW m PROVE IsReading(m, Decodings(m))
<1> SUFFICES ASSUME NEW b \in Bytes, NEW s \in Bytes, NEW c \in Nat, NEW t \in Bytes, NEW d \in Nat,
                    Reads(m, Decodings(m), b, s, c, t, d)
             PROVE  <<b, s, c, t, d>> \in Decodings(m)
  BY DEF IsReading
<1>1. <<b, s, c, t, d>> \in Decoding
  BY DEF Decoding
<1>2. ASSUME NEW R \in SUBSET Decoding, IsReading(m, R)
      PROVE  <<b, s, c, t, d>> \in R
  <2>1. Decodings(m) \subseteq R
    BY <1>2, DecodingsLeast
  <2>2. Reads(m, R, b, s, c, t, d)
    BY <2>1 DEF Reads
  <2> QED BY <1>2, <2>2 DEF IsReading
<1> QED BY <1>1, <1>2 DEF Decodings

LEMMA DecodingsInvert ==
  ASSUME NEW m, NEW b, NEW s, NEW c, NEW t, NEW d, <<b, s, c, t, d>> \in Decodings(m)
  PROVE  Reads(m, Decodings(m), b, s, c, t, d)
<1> DEFINE R == {x \in Decodings(m) : Reads(m, Decodings(m), x[1], x[2], x[3], x[4], x[5])}
<1>1. R \subseteq Decodings(m) /\ Decodings(m) \subseteq Decoding
  BY DEF Decodings
<1>2. IsReading(m, R)
  <2> SUFFICES ASSUME NEW q \in Bytes, NEW p \in Bytes, NEW k \in Nat, NEW r \in Bytes, NEW l \in Nat,
                      Reads(m, R, q, p, k, r, l)
               PROVE  <<q, p, k, r, l>> \in R
    BY DEF IsReading
  <2> HIDE DEF R
  <2>1. Reads(m, Decodings(m), q, p, k, r, l)
    BY <1>1 DEF Reads
  <2>2. <<q, p, k, r, l>> \in Decodings(m)
    BY <2>1, DecodingsRead DEF IsReading
  <2> QED BY <2>1, <2>2 DEF R
<1> HIDE DEF R
<1>3. <<b, s, c, t, d>> \in R
  BY <1>1, <1>2, DecodingsLeast
<1> QED BY <1>3 DEF R

LEMMA DeliveryTypes ==
  ASSUME NEW m, NEW fs, NEW s, NEW c, NEW t, NEW d, <<fs, s, c, t, d>> \in Deliveries(m)
  PROVE  fs \in Seq(Bytes) /\ s \in Bytes /\ c \in Nat /\ t \in Bytes /\ d \in Nat
BY DEF Deliveries, Delivery

LEMMA DeliveriesLeast ==
  ASSUME NEW m, NEW R \in SUBSET Delivery, IsReadingFrames(m, R)
  PROVE  Deliveries(m) \subseteq R
BY DEF Deliveries

LEMMA DeliveriesRead ==
  ASSUME NEW m PROVE IsReadingFrames(m, Deliveries(m))
<1> SUFFICES ASSUME NEW fs \in Seq(Bytes), NEW s \in Bytes, NEW c \in Nat, NEW t \in Bytes, NEW d \in Nat,
                    ReadsFrames(m, Deliveries(m), fs, s, c, t, d)
             PROVE  <<fs, s, c, t, d>> \in Deliveries(m)
  BY DEF IsReadingFrames
<1>1. <<fs, s, c, t, d>> \in Delivery
  BY DEF Delivery
<1>2. ASSUME NEW R \in SUBSET Delivery, IsReadingFrames(m, R)
      PROVE  <<fs, s, c, t, d>> \in R
  <2>1. Deliveries(m) \subseteq R
    BY <1>2, DeliveriesLeast
  <2>2. ReadsFrames(m, R, fs, s, c, t, d)
    BY <2>1 DEF ReadsFrames
  <2> QED BY <1>2, <2>2 DEF IsReadingFrames
<1> QED BY <1>1, <1>2 DEF Deliveries

LEMMA DeliveriesInvert ==
  ASSUME NEW m, NEW fs, NEW s, NEW c, NEW t, NEW d, <<fs, s, c, t, d>> \in Deliveries(m)
  PROVE  ReadsFrames(m, Deliveries(m), fs, s, c, t, d)
<1> DEFINE R == {x \in Deliveries(m) : ReadsFrames(m, Deliveries(m), x[1], x[2], x[3], x[4], x[5])}
<1>1. R \subseteq Deliveries(m) /\ Deliveries(m) \subseteq Delivery
  BY DEF Deliveries
<1>2. IsReadingFrames(m, R)
  <2> SUFFICES ASSUME NEW q \in Seq(Bytes), NEW p \in Bytes, NEW k \in Nat, NEW r \in Bytes, NEW l \in Nat,
                      ReadsFrames(m, R, q, p, k, r, l)
               PROVE  <<q, p, k, r, l>> \in R
    BY DEF IsReadingFrames
  <2> HIDE DEF R
  <2>1. ReadsFrames(m, Deliveries(m), q, p, k, r, l)
    BY <1>1 DEF ReadsFrames
  <2>2. <<q, p, k, r, l>> \in Deliveries(m)
    BY <2>1, DeliveriesRead DEF IsReadingFrames
  <2> QED BY <2>1, <2>2 DEF R
<1> HIDE DEF R
<1>3. <<fs, s, c, t, d>> \in R
  BY <1>1, <1>2, DeliveriesLeast
<1> QED BY <1>3 DEF R

-----------------------------------------------------------------------------
(* Headers.                                                                *)

LEMMA Behind ==
  ASSUME NEW x \in Bytes, NEW y \in Bytes
  PROVE  /\ x \o y \in Bytes /\ Len(x \o y) = Len(x) + Len(y)
         /\ Len(x) \in Nat /\ Len(y) \in Nat
         /\ \A i \in 1 .. Len(x) : (x \o y)[i] = x[i]
<1>1. x \in Seq(Byte) /\ y \in Seq(Byte)
  BY DEF Bytes
<1>2. /\ x \o y \in Seq(Byte) /\ Len(x \o y) = Len(x) + Len(y)
      /\ \A i \in 1 .. Len(x) + Len(y) :
           (x \o y)[i] = IF i <= Len(x) THEN x[i] ELSE y[i - Len(x)]
  BY ONLY <1>1, ConcatProperties, Zenon
<1>3. Len(x) \in Nat /\ Len(y) \in Nat
  BY <1>1, LenProperties
<1>4. \A i \in 1 .. Len(x) : i \in 1 .. Len(x) + Len(y) /\ i <= Len(x)
  BY <1>3
<1> QED BY <1>2, <1>3, <1>4, Zenon DEF Bytes

\* Facts with a name, so that the provers instantiate them only where they are cited.
Associate(x, y, z) == (x \o y) \o z = x \o (y \o z)
Alike(p, u, q, v) == p \o u = q \o v

LEMMA BehindBehind ==
  ASSUME NEW x \in Bytes, NEW y \in Bytes, NEW z \in Bytes
  PROVE  Associate(x, y, z)
BY ConcatAssociative DEF Bytes, Associate

LEMMA SameFront ==
  ASSUME NEW x \in Bytes, NEW y \in Bytes, NEW z \in Bytes, x \o y = x \o z
  PROVE  y = z
BY ConcatSimplifications, Zenon DEF Bytes

LEMMA HeaderOf ==
  ASSUME NEW size \in Nat, size < Base * Base
  PROVE  /\ size \div Base \in Byte /\ size % Base \in Byte
         /\ (size \div Base) * Base + (size % Base) = size
         /\ Header(size) = <<size \div Base, size % Base>>
         /\ Header(size) \in Bytes /\ Len(Header(size)) = 2
<1>1. Header(size) \in Bytes /\ Len(Header(size)) = 2
  BY HeaderIsTwoBytes DEF Bytes
<1>2. Header(size) = <<size \div Base, size % Base>>
  BY DEF Header
<1>3. size \div Base = Header(size)[1] /\ size % Base = Header(size)[2]
  BY <1>2
<1>4. size \div Base \in Byte /\ size % Base \in Byte
  BY <1>1, <1>3, ElementOfSeq DEF Bytes
<1>5. (size \div Base) * Base + (size % Base) = size
  <2>1. Base \in Nat /\ Base > 1
    BY SizesAssumption
  <2> QED BY <2>1
<1> QED BY <1>1, <1>2, <1>4, <1>5

\* What follows bytes is what follows the same bytes.
LEMMA SameLength ==
  ASSUME NEW p \in Bytes, NEW q \in Bytes, Len(p) = Len(q),
         NEW u \in Bytes, NEW v \in Bytes, Alike(p, u, q, v)
  PROVE  p = q /\ u = v
<1>1. \A i \in 1 .. Len(p) : (p \o u)[i] = p[i]
  BY Behind, Zenon
<1>2. \A i \in 1 .. Len(q) : (q \o v)[i] = q[i]
  BY Behind, Zenon
<1>3. \A i \in 1 .. Len(p) : p[i] = q[i]
  BY <1>1, <1>2 DEF Alike
<1>4. p = q
  BY <1>3, SeqEqual, Zenon DEF Bytes
<1>5. u = v
  BY <1>4, SameFront DEF Alike
<1> QED BY <1>4, <1>5

\* Bytes behind a header are not nothing.
LEMMA TwoBytesAreSome ==
  ASSUME NEW h \in Bytes, Len(h) = 2, NEW x \in Bytes
  PROVE  h \o x \in Bytes /\ Len(h \o x) >= 2 /\ h \o x # <<>>
<1>0. h \o x \in Bytes /\ Len(h \o x) = Len(h) + Len(x) /\ Len(x) \in Nat
  BY Behind, Zenon
<1>1. h \o x \in Bytes /\ Len(h \o x) = 2 + Len(x) /\ Len(x) \in Nat
  BY <1>0, Zenon
<1> DEFINE b == h \o x
<1> HIDE DEF b
<1>2. b \in Bytes /\ Len(b) >= 2
  BY <1>1 DEF b
<1>3. b # <<>>
  BY <1>2, EmptySeq DEF Bytes
<1> QED BY <1>2, <1>3 DEF b

-----------------------------------------------------------------------------
(* Reading bytes.                                                          *)

LEMMA ZeroFits == 0 < Base * Base
BY TwoBytesAreASize, SizesAssumption DEF Byte

\* Nothing leads nowhere.
LEMMA ReadNothing ==
  ASSUME NEW m, NEW s, NEW c, NEW t, NEW d, <<<<>>, s, c, t, d>> \in Decodings(m)
  PROVE  t = s /\ d = c
<1>1. Reads(m, Decodings(m), <<>>, s, c, t, d)
  BY DecodingsInvert
<1>2. ASSUME NEW n \in Nat, n < Base * Base, NEW x \in Bytes
      PROVE  <<>> # Header(n) \o x
  BY <1>2, HeaderOf, TwoBytesAreSome
<1>3. ASSUME NEW rest \in Bytes
      PROVE  <<>> # Header(0) \o rest
  BY <1>2, ZeroFits
<1>4. ASSUME NEW body \in Bytes, NEW rest \in Bytes, Len(body) < Base * Base
      PROVE  <<>> # Header(Len(body)) \o (body \o rest)
  <2>1. Len(body) \in Nat /\ body \o rest \in Bytes
    BY LenProperties, ConcatProperties DEF Bytes
  <2> QED BY <1>2, <1>4, <2>1
<1> QED BY <1>1, <1>3, <1>4 DEF Reads

LEMMA ReadsNothing ==
  ASSUME NEW m, NEW s \in Bytes, NEW c \in Nat
  PROVE  <<<<>>, s, c, s, c>> \in Decodings(m)
<1>1. <<>> \in Bytes
  BY DEF Bytes
<1>2. Reads(m, Decodings(m), <<>>, s, c, s, c)
  BY DEF Reads
<1> QED BY <1>1, <1>2, DecodingsRead DEF IsReading

\* Behind a header that says n come the end of a message, or n bytes.
ReadsBehind(m, n, x, s, c, t, d) ==
  \/ /\ n = 0
     /\ c < Len(m) /\ s = m[c + 1]
     /\ <<x, <<>>, c + 1, t, d>> \in Decodings(m)
  \/ /\ n # 0
     /\ \E body \in Bytes, rest \in Bytes :
          Len(body) = n /\ x = body \o rest /\ <<rest, s \o body, c, t, d>> \in Decodings(m)

\* A header leads to the end of a message or to a chunk.
LEMMA ReadHeader ==
  ASSUME NEW m, NEW high \in Byte, NEW low \in Byte, NEW x \in Bytes,
         NEW s, NEW c, NEW t, NEW d, <<<<high, low>> \o x, s, c, t, d>> \in Decodings(m)
  PROVE  ReadsBehind(m, high * Base + low, x, s, c, t, d)
<1> DEFINE b == <<high, low>> \o x
<1>1. Reads(m, Decodings(m), b, s, c, t, d)
  BY DecodingsInvert
<1>2. b # <<>>
  <2>1. <<high, low>> \in Bytes /\ Len(<<high, low>>) = 2
    BY DEF Bytes
  <2> QED BY <2>1, TwoBytesAreSome
<1>3. ASSUME NEW n \in Nat, n < Base * Base, NEW y \in Bytes, b = Header(n) \o y
      PROVE  high * Base + low = n /\ x = y
  <2>1. /\ n \div Base \in Byte /\ n % Base \in Byte
        /\ (n \div Base) * Base + (n % Base) = n
        /\ Header(n) = <<n \div Base, n % Base>>
    BY <1>3, HeaderOf
  <2> DEFINE two == <<high, low>>  header == Header(n)
  <2>2. two \in Bytes /\ Len(two) = 2 /\ two[1] = high /\ two[2] = low
    BY DEF Bytes
  <2>3. header \in Bytes /\ Len(header) = 2
    BY <1>3, HeaderOf
  <2>4. header[1] = n \div Base /\ header[2] = n % Base
    BY DEF Header
  <2>5. Alike(two, x, header, y)
    BY <1>3 DEF Alike
  <2> HIDE DEF two, header
  <2>6. two = header /\ x = y
    BY <2>2, <2>3, <2>5, SameLength
  <2>7. high = n \div Base /\ low = n % Base
    BY <2>2, <2>4, <2>6
  <2> QED BY <2>1, <2>6, <2>7, Zenon
<1> HIDE DEF b
<1>4. CASE \E rest \in Bytes :
             /\ b = Header(0) \o rest
             /\ c < Len(m) /\ s = m[c + 1]
             /\ <<rest, <<>>, c + 1, t, d>> \in Decodings(m)
  <2>1. PICK rest \in Bytes :
             /\ b = Header(0) \o rest
             /\ c < Len(m) /\ s = m[c + 1]
             /\ <<rest, <<>>, c + 1, t, d>> \in Decodings(m)
    BY <1>4
  <2>2. high * Base + low = 0 /\ x = rest
    BY <1>3, <2>1, ZeroFits
  <2> QED BY <2>1, <2>2 DEF ReadsBehind
<1>5. CASE \E body \in Bytes, rest \in Bytes :
             /\ body # <<>> /\ Len(body) < Base * Base
             /\ b = Header(Len(body)) \o (body \o rest)
             /\ <<rest, s \o body, c, t, d>> \in Decodings(m)
  <2>1. PICK body \in Bytes, rest \in Bytes :
             /\ body # <<>> /\ Len(body) < Base * Base
             /\ b = Header(Len(body)) \o (body \o rest)
             /\ <<rest, s \o body, c, t, d>> \in Decodings(m)
    BY <1>5
  <2>2. Len(body) \in Nat \ {0} /\ body \o rest \in Bytes
    BY <2>1, EmptySeq, ConcatProperties DEF Bytes
  <2>3. high * Base + low = Len(body) /\ x = body \o rest
    BY <1>3, <2>1, <2>2
  <2> DEFINE size == high * Base + low
  <2>4. size = Len(body) /\ size # 0
    BY <2>2, <2>3
  <2> HIDE DEF size
  <2>5. ReadsBehind(m, size, x, s, c, t, d)
    BY <2>1, <2>3, <2>4 DEF ReadsBehind
  <2> QED BY <2>5 DEF size
<1> QED BY <1>1, <1>2, <1>4, <1>5 DEF Reads

\* A whole chunk goes to the slices.
LEMMA ReadsChunk ==
  ASSUME NEW m, NEW body \in Bytes, body # <<>>, Len(body) < Base * Base, NEW rest \in Bytes,
         NEW s \in Bytes, NEW c, NEW t, NEW d, <<rest, s \o body, c, t, d>> \in Decodings(m)
  PROVE  <<Header(Len(body)) \o (body \o rest), s, c, t, d>> \in Decodings(m)
<1>1. c \in Nat /\ t \in Bytes /\ d \in Nat
  BY DecodingTypes
<1> DEFINE b == Header(Len(body)) \o (body \o rest)
<1>2. b \in Bytes
  <2>1. body \o rest \in Bytes /\ Len(body) \in Nat
    BY ConcatProperties, LenProperties DEF Bytes
  <2>2. Header(Len(body)) \in Bytes /\ Len(Header(Len(body))) = 2
    BY <2>1, HeaderOf
  <2> QED BY <2>1, <2>2, TwoBytesAreSome
<1>3. Reads(m, Decodings(m), b, s, c, t, d)
  BY DEF Reads
<1> HIDE DEF b
<1>4. <<b, s, c, t, d>> \in Decodings(m)
  BY <1>1, <1>2, <1>3, DecodingsRead DEF IsReading
<1> QED BY <1>4 DEF b

\* A seal ends the next message.
LEMMA ReadsSeal ==
  ASSUME NEW m \in Seq(Bytes), NEW c \in Nat, c < Len(m)
  PROVE  <<Header(0), m[c + 1], c, <<>>, c + 1>> \in Decodings(m)
<1>1. Header(0) \in Bytes /\ <<>> \in Bytes
  BY HeaderOf, ZeroFits DEF Bytes
<1>2. Header(0) = Header(0) \o <<>>
  BY <1>1, ConcatEmptySeq DEF Bytes
<1>3. m[c + 1] \in Bytes
  BY LenProperties, ElementOfSeq
<1>4. <<<<>>, <<>>, c + 1, <<>>, c + 1>> \in Decodings(m)
  BY <1>1, ReadsNothing
<1>5. Reads(m, Decodings(m), Header(0), m[c + 1], c, <<>>, c + 1)
  BY <1>1, <1>2, <1>4 DEF Reads
<1> QED BY <1>1, <1>3, <1>5, DecodingsRead DEF IsReading

\* What leads from one state to a second, and on to a third, leads to the third.
LEMMA ReadOn ==
  ASSUME NEW m, NEW b, NEW s, NEW c, NEW t, NEW d, NEW b2, NEW t2, NEW d2,
         <<b, s, c, t, d>> \in Decodings(m), <<b2, t, d, t2, d2>> \in Decodings(m)
  PROVE  <<b \o b2, s, c, t2, d2>> \in Decodings(m)
<1> DEFINE R == {x \in Decoding : x[4] = t /\ x[5] = d =>
                    <<x[1] \o b2, x[2], x[3], t2, d2>> \in Decodings(m)}
<1>1. b2 \in Bytes /\ t2 \in Bytes /\ d2 \in Nat /\ t \in Bytes /\ d \in Nat
  BY DecodingTypes
<1>2. IsReading(m, R)
  <2> SUFFICES ASSUME NEW q \in Bytes, NEW p \in Bytes, NEW k \in Nat, NEW v \in Bytes, NEW l \in Nat,
                      Reads(m, R, q, p, k, v, l)
               PROVE  <<q, p, k, v, l>> \in R
    BY Zenon DEF IsReading
  <2> SUFFICES ASSUME v = t, l = d
               PROVE  <<q \o b2, p, k, t2, d2>> \in Decodings(m)
    BY DEF Decoding
  <2>0. Reads(m, R, q, p, k, t, d)
    OBVIOUS
  <2>1. ASSUME NEW x \in Bytes, NEW y \in Bytes, NEW z \in Nat, <<x, y, z, t, d>> \in R
        PROVE  <<x \o b2, y, z, t2, d2>> \in Decodings(m)
    BY <2>1
  <2>2. \A x \in Bytes : \A y \in Bytes : x \o y \in Bytes
    BY ConcatProperties DEF Bytes
  <2>3. <<>> \in Bytes /\ k + 1 \in Nat
    BY DEF Bytes
  <2> HIDE DEF R
  <2>4. CASE q = <<>> /\ t = p /\ d = k
    <3>1. <<>> \o b2 = b2
      BY <1>1, ConcatEmptySeq DEF Bytes
    <3> QED BY <2>4, <3>1
  <2>5. CASE \E rest \in Bytes :
               /\ q = Header(0) \o rest
               /\ k < Len(m) /\ p = m[k + 1]
               /\ <<rest, <<>>, k + 1, t, d>> \in R
    <3>1. PICK rest \in Bytes :
               /\ q = Header(0) \o rest
               /\ k < Len(m) /\ p = m[k + 1]
               /\ <<rest, <<>>, k + 1, t, d>> \in R
      BY <2>5
    <3>2. <<rest \o b2, <<>>, k + 1, t2, d2>> \in Decodings(m)
      BY <2>1, <2>3, <3>1
    <3>3. q \o b2 = Header(0) \o (rest \o b2)
      <4>1. Header(0) \in Bytes
        BY HeaderOf, ZeroFits
      <4>2. (Header(0) \o rest) \o b2 = Header(0) \o (rest \o b2)
        <5> DEFINE h == Header(0)
        <5>1. h \in Bytes
          BY <4>1
        <5> HIDE DEF h
        <5>2. Associate(h, rest, b2)
          BY <1>1, <5>1, BehindBehind
        <5> QED BY <5>2 DEF h, Associate
      <4> QED BY <3>1, <4>2
    <3>4. Reads(m, Decodings(m), q \o b2, p, k, t2, d2)
      BY <1>1, <2>2, <3>1, <3>2, <3>3 DEF Reads
    <3> QED BY <1>1, <2>2, <3>4, DecodingsRead DEF IsReading
  <2>6. CASE \E body \in Bytes, rest \in Bytes :
               /\ body # <<>> /\ Len(body) < Base * Base
               /\ q = Header(Len(body)) \o (body \o rest)
               /\ <<rest, p \o body, k, t, d>> \in R
    <3>1. PICK body \in Bytes, rest \in Bytes :
               /\ body # <<>> /\ Len(body) < Base * Base
               /\ q = Header(Len(body)) \o (body \o rest)
               /\ <<rest, p \o body, k, t, d>> \in R
      BY <2>6
    <3>2. <<rest \o b2, p \o body, k, t2, d2>> \in Decodings(m)
      BY <2>1, <2>2, <3>1
    <3>3. q \o b2 = Header(Len(body)) \o (body \o (rest \o b2))
      <4> DEFINE header == Header(Len(body))  br == body \o rest
      <4>1. header \in Bytes /\ br \in Bytes /\ q = header \o br
        BY <2>2, <3>1, HeaderOf, LenProperties DEF Bytes
      <4>2. Associate(body, rest, b2)
        BY <1>1, BehindBehind
      <4> HIDE DEF header, br
      <4>3. Associate(header, br, b2)
        BY <1>1, <4>1, BehindBehind
      <4> QED BY <4>1, <4>2, <4>3 DEF header, br, Associate
    <3> QED BY <1>1, <2>2, <3>1, <3>2, <3>3, ReadsChunk
  <2> QED BY <2>0, <2>4, <2>5, <2>6 DEF Reads
<1>3. R \subseteq Decoding
  OBVIOUS
<1>4. <<b, s, c, t, d>> \in R
  <2> HIDE DEF R
  <2> QED BY <1>2, <1>3, DecodingsLeast
<1> QED BY <1>4

\* One message more changes nothing that was read.
LEMMA ReadMore ==
  ASSUME NEW m \in Seq(Bytes), NEW x \in Bytes
  PROVE  Decodings(m) \subseteq Decodings(Append(m, x))
<1> DEFINE n == Append(m, x)
<1>1. /\ Len(n) = Len(m) + 1 /\ Len(m) \in Nat
      /\ \A i \in 1 .. Len(m) : n[i] = m[i]
  BY AppendProperties, LenProperties
<1> HIDE DEF n
<1>2. IsReading(m, Decodings(n))
  <2> SUFFICES ASSUME NEW b \in Bytes, NEW s \in Bytes, NEW c \in Nat, NEW t \in Bytes, NEW d \in Nat,
                      Reads(m, Decodings(n), b, s, c, t, d)
               PROVE  <<b, s, c, t, d>> \in Decodings(n)
    BY DEF IsReading
  <2>1. c < Len(m) => c < Len(n) /\ n[c + 1] = m[c + 1]
    BY <1>1
  <2>2. Reads(n, Decodings(n), b, s, c, t, d)
    BY <2>1 DEF Reads
  <2> QED BY <2>2, DecodingsRead DEF IsReading
<1>3. Decodings(n) \subseteq Decoding
  BY DEF Decodings
<1> QED BY <1>2, <1>3, DecodingsLeast DEF n

-----------------------------------------------------------------------------
(* Bytes taken apart.                                                      *)

LEMMA TakeDrop ==
  ASSUME NEW x \in Bytes, NEW n \in Nat, n <= Len(x)
  PROVE  /\ SubSeq(x, 1, n) \in Bytes /\ Len(SubSeq(x, 1, n)) = n
         /\ SubSeq(x, n + 1, Len(x)) \in Bytes /\ Len(SubSeq(x, n + 1, Len(x))) = Len(x) - n
         /\ Alike(SubSeq(x, 1, n), SubSeq(x, n + 1, Len(x)), x, <<>>)
<1>1. x \in Seq(Byte) /\ Len(x) \in Nat
  BY LenProperties DEF Bytes
<1>2. SubSeq(x, 1, n) \o SubSeq(x, n + 1, Len(x)) = SubSeq(x, 1, Len(x))
  <2>1. 1 \in 1 .. Len(x) + 1 /\ n \in 1 - 1 .. Len(x) /\ Len(x) \in n .. Len(x)
    BY <1>1
  <2> QED BY <1>1, <2>1, ConcatAdjacentSubSeq
<1>3. SubSeq(x, 1, Len(x)) = x
  BY <1>1, SubSeqFull
<1>4. x \o <<>> = x
  BY <1>1, ConcatEmptySeq
<1>5. /\ SubSeq(x, 1, n) \in Seq(Byte) /\ Len(SubSeq(x, 1, n)) = n
      /\ SubSeq(x, n + 1, Len(x)) \in Seq(Byte)
      /\ Len(SubSeq(x, n + 1, Len(x))) = Len(x) - n
  BY <1>1
<1> QED BY <1>2, <1>3, <1>4, <1>5 DEF Alike, Bytes

LEMMA NoBytes ==
  /\ <<>> \in Bytes /\ Len(<<>>) = 0
  /\ \A x \in Bytes : <<>> \o x = x /\ x \o <<>> = x /\ (x # <<>> => Len(x) \in Nat \ {0})
<1>1. <<>> \in Bytes /\ Len(<<>>) = 0
  BY EmptySeq DEF Bytes
<1>2. \A x \in Seq(Byte) : <<>> \o x = x /\ x \o <<>> = x
  BY ConcatEmptySeq, Zenon
<1>3. \A x \in Seq(Byte) : x # <<>> => Len(x) \in Nat \ {0}
  BY EmptySeq
<1> QED BY <1>1, <1>2, <1>3 DEF Bytes

\* The first of two parts begins q.
CutAt(p, u, q, v) ==
  /\ p = SubSeq(q, 1, Len(p))
  /\ u = SubSeq(q, Len(p) + 1, Len(q)) \o v
  /\ q = p \o SubSeq(q, Len(p) + 1, Len(q))

\* Of two ways to cut bytes in two, the first part of one begins the first of the other.
LEMMA TwoCuts ==
  ASSUME NEW p \in Bytes, NEW q \in Bytes, NEW u \in Bytes, NEW v \in Bytes,
         Len(p) <= Len(q), Alike(p, u, q, v)
  PROVE  CutAt(p, u, q, v)
<1> DEFINE front == SubSeq(q, 1, Len(p))
           back == SubSeq(q, Len(p) + 1, Len(q))
<1>1. Len(p) \in Nat
  BY LenProperties DEF Bytes
<1>2. front \in Bytes /\ Len(front) = Len(p) /\ back \in Bytes /\ Alike(front, back, q, <<>>)
  BY <1>1, TakeDrop
<1> HIDE DEF front, back
<1>3. front \o back = q
  BY <1>2, NoBytes DEF Alike
<1>4. back \o v \in Bytes
  BY <1>2, Behind
<1>5. Associate(front, back, v)
  BY <1>2, BehindBehind
<1>6. Alike(p, u, front, back \o v)
  BY <1>3, <1>5 DEF Alike, Associate
<1>7. p = front /\ u = back \o v
  BY <1>2, <1>4, <1>6, SameLength
<1> QED BY <1>3, <1>7 DEF front, back, CutAt

LEMMA DropFront ==
  ASSUME NEW x \in Bytes, NEW y \in Bytes
  PROVE  SubSeq(x \o y, Len(x) + 1, Len(x \o y)) = y
<1> DEFINE z == x \o y
<1>1. z \in Bytes /\ Len(z) = Len(x) + Len(y) /\ Len(x) \in Nat /\ Len(y) \in Nat
  BY Behind
<1>2. Alike(x, y, z, <<>>)
  BY <1>1, NoBytes DEF Alike
<1> HIDE DEF z
<1>3. <<>> \in Bytes /\ SubSeq(z, Len(x) + 1, Len(z)) \in Bytes
  <2>1. Len(x) \in Nat /\ Len(x) <= Len(z)
    BY <1>1
  <2>2. SubSeq(z, Len(x) + 1, Len(z)) \in Bytes
    BY <1>1, <2>1, TakeDrop, Zenon
  <2> QED BY <2>2, NoBytes
<1>4. y = SubSeq(z, Len(x) + 1, Len(z)) \o <<>>
  <2>1. Len(x) <= Len(z)
    BY <1>1
  <2>2. CutAt(x, y, z, <<>>)
    BY <1>1, <1>2, <1>3, <2>1, TwoCuts
  <2> QED BY <2>2 DEF CutAt
<1> QED BY <1>3, <1>4, NoBytes DEF z

-----------------------------------------------------------------------------
(* Reading frames.                                                         *)

LEMMA DeliversNothing ==
  ASSUME NEW m, NEW s \in Bytes, NEW c \in Nat
  PROVE  <<<<>>, s, c, s, c>> \in Deliveries(m)
<1>1. <<>> \in Seq(Bytes)
  BY EmptySeq
<1>2. ReadsFrames(m, Deliveries(m), <<>>, s, c, s, c)
  BY DEF ReadsFrames
<1> QED BY <1>1, <1>2, DeliveriesRead DEF IsReadingFrames

LEMMA DeliverFirst ==
  ASSUME NEW m, NEW fs, NEW s, NEW c, NEW t, NEW d,
         <<fs, s, c, t, d>> \in Deliveries(m), fs # <<>>
  PROVE  \E u \in Bytes, e \in Nat :
           /\ <<Head(fs), s, c, u, e>> \in Decodings(m)
           /\ <<Tail(fs), u, e, t, d>> \in Deliveries(m)
BY DeliveriesInvert DEF ReadsFrames

LEMMA DeliverLast ==
  ASSUME NEW m, NEW fs, NEW s, NEW c, NEW t, NEW d, NEW f, NEW t2, NEW d2,
         <<fs, s, c, t, d>> \in Deliveries(m), <<f, t, d, t2, d2>> \in Decodings(m)
  PROVE  <<Append(fs, f), s, c, t2, d2>> \in Deliveries(m)
<1> DEFINE R == {x \in Delivery : x[4] = t /\ x[5] = d =>
                    <<Append(x[1], f), x[2], x[3], t2, d2>> \in Deliveries(m)}
<1>1. f \in Bytes /\ t \in Bytes /\ d \in Nat /\ t2 \in Bytes /\ d2 \in Nat
  BY DecodingTypes
<1>2. IsReadingFrames(m, R)
  <2> SUFFICES ASSUME NEW gs \in Seq(Bytes), NEW p \in Bytes, NEW k \in Nat, NEW v \in Bytes, NEW l \in Nat,
                      ReadsFrames(m, R, gs, p, k, v, l)
               PROVE  <<gs, p, k, v, l>> \in R
    BY Zenon DEF IsReadingFrames
  <2> SUFFICES ASSUME v = t, l = d
               PROVE  <<Append(gs, f), p, k, t2, d2>> \in Deliveries(m)
    BY DEF Delivery
  <2>0. ReadsFrames(m, R, gs, p, k, t, d)
    OBVIOUS
  <2>1. Append(gs, f) \in Seq(Bytes) /\ Append(gs, f) # <<>>
    BY <1>1, AppendProperties
  <2>2. SUFFICES \E u \in Bytes, e \in Nat :
                    /\ <<Head(Append(gs, f)), p, k, u, e>> \in Decodings(m)
                    /\ <<Tail(Append(gs, f)), u, e, t2, d2>> \in Deliveries(m)
    <3>1. ReadsFrames(m, Deliveries(m), Append(gs, f), p, k, t2, d2)
      BY <2>1, <2>2 DEF ReadsFrames
    <3> QED BY <1>1, <2>1, <3>1, DeliveriesRead DEF IsReadingFrames
  <2>3. CASE gs = <<>> /\ t = p /\ d = k
    <3>1. Head(Append(gs, f)) = f /\ Tail(Append(gs, f)) = <<>>
      BY <1>1, <2>3, HeadTailAppend
    <3> QED BY <1>1, <2>3, <3>1, DeliversNothing
  <2>4. ASSUME gs # <<>>, NEW u \in Bytes, NEW e \in Nat,
               <<Head(gs), p, k, u, e>> \in Decodings(m), <<Tail(gs), u, e, t, d>> \in R
        PROVE  /\ <<Head(Append(gs, f)), p, k, u, e>> \in Decodings(m)
               /\ <<Tail(Append(gs, f)), u, e, t2, d2>> \in Deliveries(m)
    <3>1. Head(Append(gs, f)) = Head(gs) /\ Tail(Append(gs, f)) = Append(Tail(gs), f)
      BY <1>1, <2>4, HeadTailAppend
    <3>2. <<Append(Tail(gs), f), u, e, t2, d2>> \in Deliveries(m)
      BY <2>4
    <3> QED BY <2>4, <3>1, <3>2
  <2> HIDE DEF R
  <2> QED BY <2>0, <2>3, <2>4 DEF ReadsFrames
<1>3. R \subseteq Delivery
  OBVIOUS
<1>4. <<fs, s, c, t, d>> \in R
  <2> HIDE DEF R
  <2> QED BY <1>2, <1>3, DeliveriesLeast
<1> QED BY <1>4

LEMMA DeliverMore ==
  ASSUME NEW m \in Seq(Bytes), NEW x \in Bytes
  PROVE  Deliveries(m) \subseteq Deliveries(Append(m, x))
<1> DEFINE n == Append(m, x)
<1>1. Decodings(m) \subseteq Decodings(n)
  BY ReadMore
<1> HIDE DEF n
<1>2. IsReadingFrames(m, Deliveries(n))
  <2> SUFFICES ASSUME NEW fs \in Seq(Bytes), NEW s \in Bytes, NEW c \in Nat, NEW t \in Bytes, NEW d \in Nat,
                      ReadsFrames(m, Deliveries(n), fs, s, c, t, d)
               PROVE  <<fs, s, c, t, d>> \in Deliveries(n)
    BY DEF IsReadingFrames
  <2>1. ReadsFrames(n, Deliveries(n), fs, s, c, t, d)
    BY <1>1 DEF ReadsFrames
  <2> QED BY <2>1, DeliveriesRead DEF IsReadingFrames
<1>3. Deliveries(n) \subseteq Delivery
  BY DEF Deliveries
<1> QED BY <1>2, <1>3, DeliveriesLeast DEF n

-----------------------------------------------------------------------------
(***************************************************************************)
(* WholeChunks is defined by recursion: it is the least set of bytes that  *)
(* has nothing, and what has a chunk or a seal before a member.            *)
(***************************************************************************)
SizeOf(b) == b[1] * Base + b[2]
AfterFirst(b) == SubSeq(b, HeaderSize + SizeOf(b) + 1, Len(b))

IsWhole(W, b) ==
  \/ b = <<>>
  \/ Len(b) >= HeaderSize /\ Len(b) >= HeaderSize + SizeOf(b) /\ AfterFirst(b) \in W

Wholes ==
  {b \in Bytes : \A W \in SUBSET Bytes : (\A x \in Bytes : IsWhole(W, x) => x \in W) => b \in W}

LEMMA WholesFixpoint ==
  ASSUME NEW b \in Bytes PROVE (b \in Wholes) <=> IsWhole(Wholes, b)
<1>1. ASSUME NEW W \in SUBSET Bytes, \A x \in Bytes : IsWhole(W, x) => x \in W
      PROVE  Wholes \subseteq W
  BY <1>1 DEF Wholes
<1>2. ASSUME NEW x \in Bytes, IsWhole(Wholes, x) PROVE x \in Wholes
  <2>1. ASSUME NEW W \in SUBSET Bytes, \A y \in Bytes : IsWhole(W, y) => y \in W
        PROVE  x \in W
    <3>1. IsWhole(W, x)
      BY <1>1, <1>2, <2>1 DEF IsWhole
    <3> QED BY <2>1, <3>1
  <2> QED BY <2>1 DEF Wholes
<1>3. ASSUME b \in Wholes PROVE IsWhole(Wholes, b)
  <2> DEFINE W == {x \in Wholes : IsWhole(Wholes, x)}
  <2>1. W \in SUBSET Bytes /\ W \subseteq Wholes
    BY DEF Wholes
  <2>2. ASSUME NEW x \in Bytes, IsWhole(W, x) PROVE x \in W
    <3>1. IsWhole(Wholes, x)
      BY <2>1, <2>2 DEF IsWhole
    <3> QED BY <1>2, <3>1
  <2> HIDE DEF W
  <2>3. b \in W
    BY <1>1, <1>3, <2>1, <2>2
  <2> QED BY <2>3 DEF W
<1> QED BY <1>2, <1>3

LEMMA SizeOfBytes ==
  ASSUME NEW b \in Bytes, Len(b) >= HeaderSize
  PROVE  SizeOf(b) \in Nat /\ AfterFirst(b) \in Bytes
<1>1. b[1] \in Byte /\ b[2] \in Byte /\ Len(b) \in Nat
  BY LenProperties, ElementOfSeq DEF Bytes
<1>2. b[1] * Base + b[2] \in ChunkSize
  BY <1>1, TwoBytesAreASize
<1>3. SizeOf(b) \in Nat
  BY <1>2 DEF SizeOf, ChunkSize
<1>4. SubSeq(b, HeaderSize + SizeOf(b) + 1, Len(b)) \in Bytes
  BY <1>1, <1>3, SubSeqProperties DEF Bytes
<1> QED BY <1>3, <1>4 DEF AfterFirst

LEMMA WholeChunksIsRecursive ==
  WholeChunks =
    [bytes \in Seq(Byte) |->
      \/ bytes = <<>>
      \/ LET size == bytes[1] * Base + bytes[2]
         IN  /\ Len(bytes) >= HeaderSize
             /\ Len(bytes) >= HeaderSize + size
             /\ WholeChunks[SubSeq(bytes, HeaderSize + size + 1, Len(bytes))]]
<1> DEFINE Step(g) ==
             [bytes \in Seq(Byte) |->
               \/ bytes = <<>>
               \/ LET size == bytes[1] * Base + bytes[2]
                  IN  /\ Len(bytes) >= HeaderSize
                      /\ Len(bytes) >= HeaderSize + size
                      /\ g[SubSeq(bytes, HeaderSize + size + 1, Len(bytes))]]
           f == [b \in Bytes |-> b \in Wholes]
<1>1. ASSUME NEW b \in Seq(Byte) PROVE f[b] = Step(f)[b]
  <2>1. f[b] = (b \in Wholes) /\ (b \in Wholes) = IsWhole(Wholes, b)
    <3>1. b \in Bytes /\ IsWhole(Wholes, b) \in BOOLEAN
      BY <1>1 DEF Bytes, IsWhole
    <3>2. f[b] = (b \in Wholes)
      BY <3>1
    <3>3. (b \in Wholes) <=> IsWhole(Wholes, b)
      BY <3>1, WholesFixpoint
    <3> HIDE DEF f
    <3> QED BY <3>1, <3>2, <3>3
  <2>2. IsWhole(Wholes, b) = Step(f)[b]
    <3>1. ASSUME Len(b) >= HeaderSize PROVE f[AfterFirst(b)] = (AfterFirst(b) \in Wholes)
      BY <1>1, <3>1, SizeOfBytes DEF Bytes
    <3> HIDE DEF f
    <3>2. Step(f)[b] = (\/ b = <<>>
                        \/ /\ Len(b) >= HeaderSize
                           /\ Len(b) >= HeaderSize + SizeOf(b)
                           /\ f[AfterFirst(b)])
      BY <1>1 DEF AfterFirst, SizeOf
    <3> QED BY <3>1, <3>2 DEF IsWhole
  <2> QED BY <2>1, <2>2
<1>2. f = Step(f)
  <2>1. DOMAIN f = Seq(Byte) /\ DOMAIN Step(f) = Seq(Byte)
    BY DEF Bytes
  <2> DEFINE g == Step(f)
  <2>2. f = [b \in DOMAIN f |-> f[b]] /\ g = [b \in DOMAIN g |-> g[b]]
    OBVIOUS
  <2>3. DOMAIN g = Seq(Byte) /\ \A b \in Seq(Byte) : f[b] = g[b]
    BY <1>1
  <2> HIDE DEF f, g
  <2>4. f = g
    BY <2>1, <2>2, <2>3
  <2> QED BY <2>4 DEF g
<1>3. WholeChunks = CHOOSE g : g = Step(g)
  BY DEF WholeChunks
<1> HIDE DEF f, Step
<1>4. WholeChunks = Step(WholeChunks)
  BY <1>2, <1>3
<1> QED BY <1>4 DEF Step

LEMMA WholeChunksOf ==
  ASSUME NEW b \in Bytes
  PROVE  WholeChunks[b] <=>
           \/ b = <<>>
           \/ /\ Len(b) >= HeaderSize
              /\ Len(b) >= HeaderSize + SizeOf(b)
              /\ WholeChunks[AfterFirst(b)]
BY WholeChunksIsRecursive DEF Bytes, AfterFirst, SizeOf

\* Bytes that can be read are whole chunks and seals.
LEMMA WhatIsReadIsWhole ==
  ASSUME NEW m, NEW b, NEW s, NEW c, NEW t, NEW d, <<b, s, c, t, d>> \in Decodings(m)
  PROVE  WholeChunks[b]
<1> DEFINE R == {x \in Decoding : WholeChunks[x[1]]}
<1>1. ASSUME NEW body \in Bytes, Len(body) < Base * Base, NEW rest \in Bytes, WholeChunks[rest]
      PROVE  WholeChunks[Header(Len(body)) \o (body \o rest)]
  <2> DEFINE n == Len(body)
             front == Header(n) \o body
             whole == front \o rest
  <2>1. n \in Nat
    BY LenProperties DEF Bytes
  <2>2. /\ n \div Base \in Byte /\ n % Base \in Byte
        /\ (n \div Base) * Base + (n % Base) = n
        /\ Header(n) = <<n \div Base, n % Base>>
        /\ Header(n) \in Bytes /\ Len(Header(n)) = 2
    BY <1>1, <2>1, HeaderOf
  <2> DEFINE header == Header(n)
  <2>3. header \in Bytes /\ Len(header) = 2 /\ header[1] * Base + header[2] = n
    <3>1. Header(n)[1] = n \div Base /\ Header(n)[2] = n % Base
      BY <2>2
    <3> QED BY <2>2, <3>1, Zenon
  <2> HIDE DEF header
  <2>4. /\ front \in Bytes /\ Len(front) = 2 + n
        /\ front[1] = header[1] /\ front[2] = header[2]
    <3>1. /\ header \o body \in Bytes /\ Len(header \o body) = Len(header) + n
          /\ \A i \in 1 .. Len(header) : (header \o body)[i] = header[i]
      BY <2>3, Behind
    <3>2. 1 \in 1 .. Len(header) /\ 2 \in 1 .. Len(header)
      BY <2>3
    <3> QED BY <2>3, <3>1, <3>2, Zenon DEF header
  <2> HIDE DEF front, n
  <2>5. /\ whole \in Bytes /\ Len(whole) = Len(front) + Len(rest) /\ Len(rest) \in Nat
        /\ \A i \in 1 .. Len(front) : whole[i] = front[i]
    BY <2>4, Behind
  <2>6. Len(whole) >= 2 + n /\ Len(whole) >= 2
    BY <2>1, <2>4, <2>5
  <2>7. SizeOf(whole) = n
    <3>1. 1 \in 1 .. Len(front) /\ 2 \in 1 .. Len(front)
      BY <2>1, <2>4
    <3>2. whole[1] = header[1] /\ whole[2] = header[2]
      BY <2>4, <2>5, <3>1, Zenon
    <3> QED BY <2>3, <3>2, Zenon DEF SizeOf
  <2>8. AfterFirst(whole) = rest
    <3>1. SubSeq(whole, Len(front) + 1, Len(whole)) = rest
      BY <2>4, DropFront
    <3> HIDE DEF whole
    <3>2. HeaderSize + SizeOf(whole) + 1 = Len(front) + 1
      BY <2>1, <2>4, <2>7
    <3> QED BY <3>1, <3>2, Zenon DEF AfterFirst
  <2>9. whole = Header(Len(body)) \o (body \o rest)
    <3>1. Associate(header, body, rest)
      BY <2>3, BehindBehind
    <3> QED BY <3>1 DEF Associate, header, front, n
  <2> HIDE DEF whole
  <2>10. WholeChunks[whole]
    BY <1>1, <2>5, <2>6, <2>7, <2>8, WholeChunksOf
  <2> QED BY <2>9, <2>10
<1>2. IsReading(m, R)
  <2> SUFFICES ASSUME NEW q \in Bytes, NEW p \in Bytes, NEW k \in Nat, NEW r \in Bytes, NEW l \in Nat,
                      Reads(m, R, q, p, k, r, l)
               PROVE  WholeChunks[q]
    BY DEF IsReading, Decoding
  <2>1. ASSUME NEW x, NEW y, NEW z, NEW v, NEW w, <<x, y, z, v, w>> \in R
        PROVE  WholeChunks[x]
    BY <2>1
  <2> HIDE DEF R
  <2>2. ASSUME q = <<>> PROVE WholeChunks[q]
    BY <2>2, WholeChunksOf
  <2>3. ASSUME NEW rest \in Bytes, q = Header(0) \o rest, WholeChunks[rest] PROVE WholeChunks[q]
    <3>1. Len(<<>>) = 0 /\ <<>> \in Bytes /\ <<>> \o rest = rest
      BY NoBytes
    <3> QED BY <1>1, <2>3, <3>1, ZeroFits
  <2>4. ASSUME NEW body \in Bytes, NEW rest \in Bytes, Len(body) < Base * Base,
               q = Header(Len(body)) \o (body \o rest), WholeChunks[rest]
        PROVE  WholeChunks[q]
    BY <1>1, <2>4
  <2> QED BY <2>1, <2>2, <2>3, <2>4 DEF Reads
<1>3. R \subseteq Decoding
  OBVIOUS
<1>4. <<b, s, c, t, d>> \in R
  <2> HIDE DEF R
  <2> QED BY <1>2, <1>3, DecodingsLeast
<1> QED BY <1>4

-----------------------------------------------------------------------------
(***************************************************************************)
(* The messages under way.  What the decoder will have made of the frames  *)
(* under way are slices t and d messages; from there what the server has   *)
(* in its buffer leads to the message it has begun and to all the messages *)
(* sealed.                                                                 *)
(***************************************************************************)
\* The bytes of a header that the decoder has read, in the number it keeps; of a
\* chunk read in part, a header with what is left of its size.
Kept(st, r, p) ==
  \/ st = "FIRST_BYTE" /\ p = <<>>
  \/ /\ st = "SECOND_BYTE"
     /\ \E high \in Byte : r = high * Base /\ p = <<high>>
  \/ /\ st = "BODY"
     /\ \E high \in Byte, low \in Byte : r = high * Base + low /\ r # 0 /\ p = <<high, low>>

\* The frame being decoded is a frame of the server, or x is the rest of it.
ToCome(fs, x, y) ==
  \/ x = <<>> /\ y = fs
  \/ fs # <<>> /\ x = Head(fs) /\ y = Tail(fs)

BrowserFlow(fs, f, st, r, s, c, m, t, d) ==
  \E p \in Bytes, x \in Bytes, y \in Seq(Bytes), u \in Bytes, e \in Nat :
    /\ Kept(st, r, p) /\ ToCome(fs, x, y)
    /\ <<p \o (f \o x), s, c, u, e>> \in Decodings(m)
    /\ <<y, u, e, t, d>> \in Deliveries(m)

ServerFlow(cl, ch, msg, m, t, d) ==
  \E w \in Bytes : <<cl, t, d, w, Len(m)>> \in Decodings(m) /\ msg = w \o ch

FlowInv ==
  \E t \in Bytes, d \in Nat :
    /\ BrowserFlow(frames, frame, state, remaining, slices, Len(decoded), sealed, t, d)
    /\ ServerFlow(closed, chunk, message, sealed, t, d)

-----------------------------------------------------------------------------
(* The server.                                                             *)

\* A frame is sent that can be read behind the others.
LEMMA FlowSends ==
  ASSUME NEW fs \in Seq(Bytes), NEW f, NEW st, NEW r, NEW s, NEW c, NEW m, NEW t, NEW d,
         BrowserFlow(fs, f, st, r, s, c, m, t, d),
         NEW g, NEW t2, NEW d2, <<g, t, d, t2, d2>> \in Decodings(m)
  PROVE  BrowserFlow(Append(fs, g), f, st, r, s, c, m, t2, d2)
<1>1. PICK p \in Bytes, x \in Bytes, y \in Seq(Bytes), u \in Bytes, e \in Nat :
        /\ Kept(st, r, p) /\ ToCome(fs, x, y)
        /\ <<p \o (f \o x), s, c, u, e>> \in Decodings(m)
        /\ <<y, u, e, t, d>> \in Deliveries(m)
  BY DEF BrowserFlow
<1>2. g \in Bytes
  BY DecodingTypes
<1>3. <<Append(y, g), u, e, t2, d2>> \in Deliveries(m)
  BY <1>1, DeliverLast
<1>4. Append(y, g) \in Seq(Bytes) /\ Append(fs, g) # <<>>
  BY <1>2, AppendProperties
<1>5. ToCome(Append(fs, g), x, Append(y, g))
  <2>1. CASE x = <<>> /\ y = fs
    BY <2>1 DEF ToCome
  <2>2. CASE fs # <<>> /\ x = Head(fs) /\ y = Tail(fs)
    <3>1. Head(Append(fs, g)) = Head(fs) /\ Tail(Append(fs, g)) = Append(Tail(fs), g)
      BY <1>2, <2>2, HeadTailAppend
    <3> QED BY <1>4, <2>2, <3>1 DEF ToCome
  <2> QED BY <1>1, <2>1, <2>2 DEF ToCome
<1> QED BY <1>1, <1>3, <1>4, <1>5 DEF BrowserFlow

\* A message is sealed.
LEMMA FlowSeals ==
  ASSUME NEW fs, NEW f, NEW st, NEW r, NEW s, NEW c, NEW m \in Seq(Bytes), NEW t, NEW d,
         BrowserFlow(fs, f, st, r, s, c, m, t, d), NEW x \in Bytes
  PROVE  BrowserFlow(fs, f, st, r, s, c, Append(m, x), t, d)
<1>1. Decodings(m) \subseteq Decodings(Append(m, x)) /\ Deliveries(m) \subseteq Deliveries(Append(m, x))
  BY ReadMore, DeliverMore
<1> QED BY <1>1 DEF BrowserFlow

\* Closing the open chunk adds its bytes to the slices.
LEMMA ClosingReads ==
  ASSUME NEW m, NEW bytes, NEW isOpen \in BOOLEAN, NEW body \in Bytes,
         isOpen <=> body # <<>>, Len(body) < Base * Base,
         NEW t, NEW d, NEW w, NEW e, <<bytes, t, d, w, e>> \in Decodings(m)
  PROVE  <<Closing(bytes, isOpen, body), t, d, w \o body, e>> \in Decodings(m)
<1>1. bytes \in Bytes /\ t \in Bytes /\ d \in Nat /\ w \in Bytes /\ e \in Nat
  BY DecodingTypes
<1>2. CASE isOpen
  <2> DEFINE header == Header(Len(body))
  <2>1. w \o body \in Bytes /\ <<>> \in Bytes /\ body \o <<>> = body
    BY <1>1, Behind, NoBytes
  <2>2. <<<<>>, w \o body, e, w \o body, e>> \in Decodings(m)
    BY <1>1, <2>1, ReadsNothing
  <2>3. <<header \o (body \o <<>>), w, e, w \o body, e>> \in Decodings(m)
    BY <1>1, <1>2, <2>1, <2>2, ReadsChunk
  <2>4. <<header \o body, w, e, w \o body, e>> \in Decodings(m)
    BY <2>1, <2>3
  <2>5. header \in Bytes
    BY HeaderOf, LenProperties DEF Bytes
  <2>6. Closing(bytes, isOpen, body) = (bytes \o header) \o body
    BY <1>2 DEF Closing
  <2> HIDE DEF header
  <2>7. Associate(bytes, header, body)
    BY <1>1, <2>5, BehindBehind
  <2>8. <<bytes \o (header \o body), t, d, w \o body, e>> \in Decodings(m)
    BY <2>4, ReadOn
  <2> QED BY <2>6, <2>7, <2>8 DEF Associate
<1>3. CASE ~isOpen
  <2>1. body = <<>> /\ w \o body = w
    BY <1>1, <1>3, NoBytes
  <2> QED BY <1>3, <2>1 DEF Closing
<1> QED BY <1>2, <1>3

\* The open chunk is never longer than its header can say.
LEMMA ChunkFits ==
  ASSUME NEW n \in Nat, NEW k \in Nat, k + (HeaderSize + n) <= BUFFER_SIZE
  PROVE  n < Base * Base
<1> DEFINE square == Base * Base
<1>1. square \in Nat /\ BUFFER_SIZE <= square BY SizesAssumption
<1> HIDE DEF square
<1>2. n < square BY <1>1, BufferSize
<1> QED BY <1>2 DEF square

\* What is in the buffer leads to the message begun, whole.
LEMMA ContentsRead ==
  ASSUME IInv, NEW t, NEW d, ServerFlow(closed, chunk, message, sealed, t, d)
  PROVE  <<Contents, t, d, message, Len(sealed)>> \in Decodings(sealed)
<1>1. PICK w \in Bytes : <<closed, t, d, w, Len(sealed)>> \in Decodings(sealed) /\ message = w \o chunk
  BY DEF ServerFlow
<1>2. /\ chunk \in Bytes /\ chunk_open \in BOOLEAN /\ (chunk_open <=> chunk # <<>>)
      /\ Len(chunk) \in Nat /\ Len(closed) \in Nat
  BY LenProperties DEF IInv, TypeOK, OpenChunksHaveBytes, Bytes
<1>3. Len(chunk) < Base * Base
  <2>1. CASE chunk_open
    <3>1. Len(closed) + (HeaderSize + Len(chunk)) <= BUFFER_SIZE
      BY <2>1 DEF IInv, BufferIsLargeEnough, CurrentPos
    <3> QED BY <1>2, <3>1, ChunkFits
  <2>2. CASE ~chunk_open
    <3>1. Len(chunk) = 0
      BY <1>2, <2>2, NoBytes
    <3> QED BY <3>1, ZeroFits
  <2> QED BY <1>2, <2>1, <2>2
<1>4. <<Closing(closed, chunk_open, chunk), t, d, w \o chunk, Len(sealed)>> \in Decodings(sealed)
  BY <1>1, <1>2, <1>3, ClosingReads
<1> QED BY <1>1, <1>4 DEF Contents

\* One frame is sent, made of whole chunks and seals, or none.
Sends(fs, gs) ==
  \/ gs = fs
  \/ \E g \in Bytes : WholeChunks[g] /\ gs = Append(fs, g)

\* A round of xsputn: what was written is in the buffer, or in a frame that is sent.
LEMMA PutFlows ==
  ASSUME TypeOK, NEW base \in Bytes, NEW body \in Bytes, NEW out \in Seq(Bytes),
         Len(base) + HeaderSize + Len(body) < BUFFER_SIZE,
         piece # <<>>, Put(base, body, out), UNCHANGED <<sealed, decoderVars>>,
         NEW t \in Bytes, NEW d \in Nat, NEW w \in Bytes, message = w \o body,
         <<base, t, d, w, Len(sealed)>> \in Decodings(sealed),
         BrowserFlow(out, frame, state, remaining, slices, Len(decoded), sealed, t, d)
  PROVE  FlowInv' /\ Sends(out, frames')
<1> DEFINE room == BUFFER_SIZE - Len(base) - HeaderSize - Len(body)
           fits == Len(piece) <= room
           part == IF fits THEN piece ELSE SubSeq(piece, 1, room)
<1>1. /\ piece \in Seq(Byte) /\ Len(piece) \in Nat \ {0}
      /\ Len(base) \in Nat /\ Len(body) \in Nat /\ room \in Nat \ {0} /\ fits \in BOOLEAN
  <2>1. Len(base) \in Nat /\ Len(body) \in Nat
    BY LenProperties DEF Bytes
  <2>2. piece \in Seq(Byte) /\ Len(piece) \in Nat \ {0}
    <3>1. piece \in Bytes
      BY DEF TypeOK, Bytes
    <3> QED BY <3>1, NoBytes DEF Bytes
  <2>3. room \in Nat \ {0}
    BY <2>1, BufferSize
  <2> HIDE DEF room
  <2>4. fits \in BOOLEAN
    BY <2>2, <2>3
  <2> QED BY <2>1, <2>2, <2>3, <2>4, Zenon
<1>2. part \in Bytes /\ Len(part) \in Nat \ {0} /\ Len(part) <= room
  <2> HIDE DEF room
  <2>1. CASE fits
    BY <1>1, <2>1 DEF Bytes
  <2>2. CASE ~fits
    <3>1. part = SubSeq(piece, 1, room)
      BY <2>2
    <3>2. room \in Nat \ {0} /\ room <= Len(piece)
      BY <1>1, <2>2
    <3>3. piece \in Bytes /\ room \in Nat
      BY <1>1, <3>2 DEF Bytes
    <3>4. SubSeq(piece, 1, room) \in Bytes /\ Len(SubSeq(piece, 1, room)) = room
      BY <3>2, <3>3, TakeDrop, Zenon
    <3> HIDE DEF part
    <3>5. Len(part) = room
      BY <3>1, <3>4, Zenon
    <3> QED BY <3>1, <3>2, <3>4, <3>5
  <2> QED BY <2>1, <2>2
<1>3. /\ message' = message \o part
      /\ chunk' = IF fits THEN body \o part ELSE <<>>
      /\ closed' = IF fits THEN base ELSE <<>>
      /\ frames' = IF fits THEN out ELSE Append(out, Closing(base, TRUE, body \o part))
      /\ sealed' = sealed /\ frame' = frame /\ state' = state /\ remaining' = remaining
      /\ slices' = slices /\ decoded' = decoded
  BY DEF Put, decoderVars
<1> HIDE DEF fits, part
<1> DEFINE more == body \o part
<1>4. more \in Bytes /\ Len(more) = Len(body) + Len(part) /\ more # <<>>
  <2>1. more \in Bytes /\ Len(more) = Len(body) + Len(part)
    BY <1>2, Behind
  <2> HIDE DEF more
  <2>2. Len(more) # 0
    BY <1>1, <1>2, <2>1
  <2> QED BY <2>1, <2>2, NoBytes, Zenon
<1>5. message' = w \o more
  <2>1. Associate(w, body, part)
    BY <1>2, BehindBehind
  <2> QED BY <1>3, <2>1 DEF Associate
<1> HIDE DEF more
<1>6. CASE fits
  <2>1. chunk' = more /\ closed' = base /\ frames' = out
    BY <1>3, <1>6 DEF more
  <2>2. BrowserFlow(frames', frame', state', remaining', slices', Len(decoded'), sealed', t, d)
    BY <1>3, <2>1, Zenon
  <2>3. ServerFlow(closed', chunk', message', sealed', t, d)
    <3>1. <<base, t, d, w, Len(sealed')>> \in Decodings(sealed')
      BY <1>3
    <3> QED BY <1>5, <2>1, <3>1 DEF ServerFlow
  <2> QED BY <2>1, <2>2, <2>3 DEF FlowInv, Sends
<1>7. CASE ~fits
  <2> DEFINE sent == Closing(base, TRUE, more)
             n == Len(sealed)
  <2>1. chunk' = <<>> /\ closed' = <<>> /\ frames' = Append(out, sent)
    BY <1>1, <1>3, <1>7 DEF more
  <2>2. Len(more) < Base * Base
    <3>1. Len(base) + (HeaderSize + Len(more)) <= BUFFER_SIZE /\ Len(more) \in Nat
      BY <1>1, <1>2, <1>4, BufferSize DEF room
    <3> QED BY <1>1, <3>1, ChunkFits
  <2>3. <<sent, t, d, w \o more, n>> \in Decodings(sealed)
    BY <1>4, <2>2, ClosingReads
  <2> HIDE DEF sent
  <2>4. w \o more \in Bytes /\ n \in Nat
    BY <2>3, DecodingTypes
  <2>5. BrowserFlow(Append(out, sent), frame, state, remaining, slices, Len(decoded), sealed, w \o more, n)
    BY <2>3, FlowSends
  <2>6. BrowserFlow(frames', frame', state', remaining', slices', Len(decoded'), sealed', w \o more, n)
    BY <1>3, <2>1, <2>5, Zenon
  <2>7. ServerFlow(closed', chunk', message', sealed', w \o more, n)
    <3>1. <<<<>>, w \o more, n, w \o more, Len(sealed')>> \in Decodings(sealed')
      BY <1>3, <2>4, ReadsNothing
    <3>2. (w \o more) \o <<>> = w \o more
      BY <2>4, NoBytes
    <3> QED BY <1>5, <2>1, <2>4, <3>1, <3>2 DEF ServerFlow
  <2>8. FlowInv'
    BY <2>4, <2>6, <2>7 DEF FlowInv
  <2>9. sent \in Bytes /\ WholeChunks[sent]
    BY <2>3, DecodingTypes, WhatIsReadIsWhole
  <2> QED BY <2>1, <2>8, <2>9 DEF Sends
<1> QED BY <1>6, <1>7

LEMMA XsputnFlows ==
  ASSUME IInv, FlowInv, Xsputn
  PROVE  FlowInv' /\ \E out : Sends(frames, out) /\ Sends(out, frames')
<1>1. PICK t \in Bytes, d \in Nat :
        /\ BrowserFlow(frames, frame, state, remaining, slices, Len(decoded), sealed, t, d)
        /\ ServerFlow(closed, chunk, message, sealed, t, d)
  BY DEF FlowInv
<1>2. /\ TypeOK /\ piece # <<>> /\ UNCHANGED <<sealed, decoderVars>>
      /\ closed \in Bytes /\ chunk \in Bytes /\ message \in Bytes /\ frames \in Seq(Bytes)
      /\ Len(closed) \in Nat /\ Len(chunk) \in Nat /\ Len(sealed) \in Nat
  BY LenProperties DEF IInv, TypeOK, Bytes, Xsputn
<1>3. CASE NeedsFlush /\ Put(<<>>, <<>>, Append(frames, Contents))
  <2>1. <<Contents, t, d, message, Len(sealed)>> \in Decodings(sealed)
    BY <1>1, ContentsRead
  <2>2. BrowserFlow(Append(frames, Contents), frame, state, remaining, slices, Len(decoded), sealed,
                    message, Len(sealed))
    BY <1>1, <1>2, <2>1, FlowSends
  <2>3. <<<<>>, message, Len(sealed), message, Len(sealed)>> \in Decodings(sealed)
    BY <1>2, ReadsNothing
  <2>4. message = message \o <<>> /\ <<>> \in Bytes
    BY <1>2, NoBytes
  <2>5. Len(<<>>) + HeaderSize + Len(<<>>) < BUFFER_SIZE
    BY SizesAssumption
  <2>6. Append(frames, Contents) \in Seq(Bytes)
    BY <1>2, <2>1, DecodingTypes, AppendProperties
  <2>7. FlowInv' /\ Sends(Append(frames, Contents), frames')
    BY <1>2, <1>3, <2>1, <2>2, <2>3, <2>4, <2>5, <2>6, PutFlows
  <2>8. Contents \in Bytes /\ WholeChunks[Contents]
    BY <2>1, DecodingTypes, WhatIsReadIsWhole
  <2> QED BY <2>7, <2>8 DEF Sends
<1>4. CASE ~NeedsFlush /\ Put(closed, chunk, frames)
  <2>1. Len(closed) + HeaderSize + Len(chunk) < BUFFER_SIZE
    <3>1. ~(BUFFER_SIZE - CurrentPos < (IF chunk_open THEN 1 ELSE HeaderSize + 1))
      BY <1>4 DEF NeedsFlush, RemainingSpace
    <3>2. CASE chunk_open
      BY <1>2, <3>1, <3>2, BufferSize DEF CurrentPos
    <3>3. CASE ~chunk_open
      <4>1. Len(chunk) = 0 BY <3>3, EmptySeq DEF IInv, OpenChunksHaveBytes
      <4> QED BY <1>2, <3>1, <3>3, <4>1, BufferSize DEF CurrentPos
    <3> QED BY <3>2, <3>3
  <2>2. PICK w \in Bytes : <<closed, t, d, w, Len(sealed)>> \in Decodings(sealed) /\ message = w \o chunk
    BY <1>1 DEF ServerFlow
  <2>3. FlowInv' /\ Sends(frames, frames')
    BY <1>1, <1>2, <1>4, <2>1, <2>2, PutFlows
  <2> QED BY <2>3 DEF Sends
<1> QED BY <1>3, <1>4 DEF Xsputn

LEMMA SealFlows ==
  ASSUME IInv, FlowInv, Seal PROVE FlowInv' /\ Sends(frames, frames')
<1>1. PICK t \in Bytes, d \in Nat :
        /\ BrowserFlow(frames, frame, state, remaining, slices, Len(decoded), sealed, t, d)
        /\ ServerFlow(closed, chunk, message, sealed, t, d)
  BY DEF FlowInv
<1> DEFINE full == BUFFER_SIZE - Len(Contents) < HeaderSize
           more == Append(sealed, message)
           n == Len(sealed)
<1>2. /\ closed' = (IF full THEN <<>> ELSE Contents) \o Header(0)
      /\ frames' = IF full THEN Append(frames, Contents) ELSE frames
      /\ chunk' = <<>> /\ sealed' = more /\ message' = <<>>
      /\ frame' = frame /\ state' = state /\ remaining' = remaining
      /\ slices' = slices /\ decoded' = decoded
  BY DEF Seal, decoderVars
<1> HIDE DEF full
<1>3. message \in Bytes /\ frames \in Seq(Bytes) /\ sealed \in Seq(Bytes) /\ n \in Nat
  BY LenProperties DEF IInv, TypeOK, Bytes
<1>4. more \in Seq(Bytes) /\ Len(more) = n + 1 /\ more[n + 1] = message
  BY <1>3, AppendProperties
<1>5. Decodings(sealed) \subseteq Decodings(more)
  BY <1>3, ReadMore
<1>6. BrowserFlow(frames, frame, state, remaining, slices, Len(decoded), more, t, d)
  BY <1>1, <1>3, FlowSeals
<1>7. <<Contents, t, d, message, n>> \in Decodings(more)
  BY <1>1, <1>5, ContentsRead
<1> HIDE DEF more, n
<1>8. <<Header(0), message, n, <<>>, n + 1>> \in Decodings(more)
  <2>1. n < Len(more)
    BY <1>3, <1>4
  <2> QED BY <1>3, <1>4, <2>1, ReadsSeal
<1>9. <<>> \in Bytes /\ <<>> = <<>> \o <<>>
  BY NoBytes
<1>10. CASE full
  <2>1. closed' = Header(0) /\ frames' = Append(frames, Contents)
    <3>1. Header(0) \in Bytes
      BY HeaderOf, ZeroFits
    <3>2. <<>> \o Header(0) = Header(0)
      BY <3>1, NoBytes
    <3> QED BY <1>2, <1>10, <3>2
  <2>2. BrowserFlow(frames', frame', state', remaining', slices', Len(decoded'), sealed', message, n)
    <3>1. BrowserFlow(Append(frames, Contents), frame, state, remaining, slices, Len(decoded), more,
                      message, n)
      BY <1>3, <1>6, <1>7, FlowSends
    <3> QED BY <1>2, <2>1, <3>1, Zenon
  <2>3. ServerFlow(closed', chunk', message', sealed', message, n)
    BY <1>2, <1>4, <1>8, <1>9, <2>1 DEF ServerFlow
  <2>4. FlowInv'
    BY <1>3, <2>2, <2>3 DEF FlowInv
  <2>5. Contents \in Bytes /\ WholeChunks[Contents]
    BY <1>7, DecodingTypes, WhatIsReadIsWhole
  <2> QED BY <2>1, <2>4, <2>5 DEF Sends
<1>11. CASE ~full
  <2>1. closed' = Contents \o Header(0) /\ frames' = frames
    BY <1>2, <1>11
  <2>2. BrowserFlow(frames', frame', state', remaining', slices', Len(decoded'), sealed', t, d)
    BY <1>2, <1>6, <2>1, Zenon
  <2>3. <<Contents \o Header(0), t, d, <<>>, n + 1>> \in Decodings(more)
    BY <1>7, <1>8, ReadOn
  <2>4. ServerFlow(closed', chunk', message', sealed', t, d)
    BY <1>2, <1>4, <1>9, <2>1, <2>3 DEF ServerFlow
  <2> QED BY <1>1, <2>1, <2>2, <2>4 DEF FlowInv, Sends
<1> QED BY <1>10, <1>11

LEMMA SyncFlows ==
  ASSUME IInv, FlowInv, Sync PROVE FlowInv' /\ Sends(frames, frames')
<1>1. PICK t \in Bytes, d \in Nat :
        /\ BrowserFlow(frames, frame, state, remaining, slices, Len(decoded), sealed, t, d)
        /\ ServerFlow(closed, chunk, message, sealed, t, d)
  BY DEF FlowInv
<1> DEFINE n == Len(sealed)
<1>2. /\ frames' = Append(frames, Contents) /\ closed' = <<>> /\ chunk' = <<>>
      /\ message = <<>> /\ message' = <<>> /\ sealed' = sealed
      /\ frame' = frame /\ state' = state /\ remaining' = remaining
      /\ slices' = slices /\ decoded' = decoded
  BY DEF Sync, decoderVars
<1>3. frames \in Seq(Bytes) /\ n \in Nat
  BY LenProperties DEF IInv, TypeOK, Bytes
<1>4. <<>> \in Bytes /\ <<>> = <<>> \o <<>>
  BY NoBytes
<1>5. <<Contents, t, d, <<>>, n>> \in Decodings(sealed)
  BY <1>1, <1>2, ContentsRead
<1> HIDE DEF n
<1>6. BrowserFlow(frames', frame', state', remaining', slices', Len(decoded'), sealed', <<>>, n)
  <2>1. BrowserFlow(Append(frames, Contents), frame, state, remaining, slices, Len(decoded), sealed,
                    <<>>, n)
    BY <1>1, <1>3, <1>5, FlowSends
  <2> QED BY <1>2, <2>1, Zenon
<1>7. ServerFlow(closed', chunk', message', sealed', <<>>, n)
  <2>1. <<<<>>, <<>>, n, <<>>, n>> \in Decodings(sealed)
    BY <1>3, <1>4, ReadsNothing
  <2> QED BY <1>2, <1>4, <2>1 DEF ServerFlow, n
<1>8. FlowInv'
  BY <1>3, <1>4, <1>6, <1>7 DEF FlowInv
<1>9. Contents \in Bytes /\ WholeChunks[Contents]
  BY <1>5, DecodingTypes, WhatIsReadIsWhole
<1> QED BY <1>2, <1>8, <1>9 DEF Sends

-----------------------------------------------------------------------------
(* The decoder.                                                            *)

\* A header without its chunk cannot be read.
LEMMA KeptIsNotRead ==
  ASSUME NEW st, NEW r, NEW p \in Bytes, Kept(st, r, p),
         NEW m, NEW s, NEW c, NEW t, NEW d, <<p, s, c, t, d>> \in Decodings(m)
  PROVE  p = <<>> /\ t = s /\ d = c
<1>1. WholeChunks[p]
  BY WhatIsReadIsWhole
<1>2. p = <<>> \/ (Len(p) >= 2 /\ Len(p) >= 2 + SizeOf(p))
  BY <1>1, WholeChunksOf
<1>3. CASE p = <<>>
  BY <1>3, ReadNothing
<1>4. ASSUME NEW high \in Byte, p = <<high>> PROVE FALSE
  <2>1. Len(p) = 1
    BY <1>4
  <2> QED BY <1>2, <1>4, <2>1
<1>5. ASSUME NEW high \in Byte, NEW low \in Byte, r = high * Base + low, r # 0, p = <<high, low>>
      PROVE  FALSE
  <2>1. Len(p) = 2 /\ p # <<>> /\ p[1] = high /\ p[2] = low
    BY <1>5
  <2>2. SizeOf(p) = r
    BY <1>5, <2>1, Zenon DEF SizeOf
  <2>3. r \in Nat
    BY <1>5, TwoBytesAreASize DEF ChunkSize
  <2> QED BY <1>2, <1>5, <2>1, <2>2, <2>3
<1> QED BY <1>3, <1>4, <1>5 DEF Kept

LEMMA FirstOf ==
  ASSUME NEW S, NEW q \in Seq(S), NEW a \in S
  PROVE  <<a>> \o q # <<>> /\ Head(<<a>> \o q) = a /\ Tail(<<a>> \o q) = q
OBVIOUS

\* The decoder takes the next frame, or a part of it.
LEMMA FlowTakes ==
  ASSUME NEW fs \in Seq(Bytes), fs # <<>>, NEW st, NEW r, NEW s \in Bytes, NEW c \in Nat,
         NEW m, NEW t, NEW d, BrowserFlow(fs, <<>>, st, r, s, c, m, t, d),
         NEW n \in 1 .. Len(Head(fs))
  PROVE  LET rest == SubSeq(Head(fs), n + 1, Len(Head(fs)))
         IN  BrowserFlow(IF rest = <<>> THEN Tail(fs) ELSE <<rest>> \o Tail(fs),
                         SubSeq(Head(fs), 1, n), st, r, s, c, m, t, d)
<1>1. PICK p \in Bytes, x \in Bytes, y \in Seq(Bytes), u \in Bytes, e \in Nat :
        /\ Kept(st, r, p) /\ ToCome(fs, x, y)
        /\ <<p \o (<<>> \o x), s, c, u, e>> \in Decodings(m)
        /\ <<y, u, e, t, d>> \in Deliveries(m)
  BY DEF BrowserFlow
<1>2. Head(fs) \in Bytes /\ Tail(fs) \in Seq(Bytes) /\ Len(Head(fs)) \in Nat
  BY HeadTailProperties, LenProperties DEF Bytes
<1> DEFINE head == Head(fs)
           front == SubSeq(head, 1, n)
           rest == SubSeq(head, n + 1, Len(head))
<1>3. \E v \in Bytes, l \in Nat :
        /\ <<p \o head, s, c, v, l>> \in Decodings(m)
        /\ <<Tail(fs), v, l, t, d>> \in Deliveries(m)
  <2>1. CASE x = <<>> /\ y = fs
    <3>1. p \o (<<>> \o x) = p
      BY <1>1, <2>1, NoBytes
    <3>2. p = <<>> /\ u = s /\ e = c
      <4>1. <<p, s, c, u, e>> \in Decodings(m) /\ Kept(st, r, p)
        BY <1>1, <3>1
      <4> QED BY <4>1, KeptIsNotRead
    <3>3. <<fs, s, c, t, d>> \in Deliveries(m)
      BY <1>1, <2>1, <3>2
    <3>4. p \o head = head
      BY <1>2, <3>2, NoBytes
    <3>5. \E v \in Bytes, l \in Nat :
            /\ <<head, s, c, v, l>> \in Decodings(m)
            /\ <<Tail(fs), v, l, t, d>> \in Deliveries(m)
      BY <3>3, DeliverFirst
    <3> QED BY <3>4, <3>5
  <2>2. CASE x = head /\ y = Tail(fs)
    <3>1. <<>> \o x = head
      BY <1>2, <2>2, NoBytes
    <3> QED BY <1>1, <2>2, <3>1
  <2> QED BY <1>1, <2>1, <2>2 DEF ToCome
<1>4. PICK v \in Bytes, l \in Nat :
        /\ <<p \o head, s, c, v, l>> \in Decodings(m)
        /\ <<Tail(fs), v, l, t, d>> \in Deliveries(m)
  BY <1>3
<1> HIDE DEF head
<1>5. head \in Bytes /\ n \in Nat /\ n <= Len(head)
  BY <1>2 DEF head
<1>6. front \in Bytes /\ rest \in Bytes /\ front \o rest = head
  <2>1. front \in Bytes /\ rest \in Bytes /\ Alike(front, rest, head, <<>>)
    BY <1>5, TakeDrop
  <2> QED BY <1>5, <2>1, NoBytes DEF Alike
<1> HIDE DEF front, rest
<1>7. CASE rest = <<>>
  <2>1. ToCome(Tail(fs), <<>>, Tail(fs)) /\ <<>> \in Bytes
    BY NoBytes DEF ToCome
  <2>2. <<p \o (front \o <<>>), s, c, v, l>> \in Decodings(m)
    BY <1>4, <1>6, <1>7
  <2>3. BrowserFlow(Tail(fs), front, st, r, s, c, m, t, d)
    BY <1>1, <1>2, <1>4, <2>1, <2>2 DEF BrowserFlow
  <2> QED BY <1>7, <2>3 DEF front, rest, head
<1>8. CASE rest # <<>>
  <2> DEFINE gs == <<rest>> \o Tail(fs)
  <2>1. gs # <<>> /\ Head(gs) = rest /\ Tail(gs) = Tail(fs)
    BY <1>2, <1>6, FirstOf
  <2> HIDE DEF gs
  <2>2. ToCome(gs, rest, Tail(fs))
    BY <2>1 DEF ToCome
  <2>3. <<p \o (front \o rest), s, c, v, l>> \in Decodings(m)
    BY <1>4, <1>6
  <2>4. BrowserFlow(gs, front, st, r, s, c, m, t, d)
    BY <1>1, <1>2, <1>4, <1>6, <2>2, <2>3 DEF BrowserFlow
  <2> QED BY <1>8, <2>4 DEF front, rest, head, gs
<1> QED BY <1>7, <1>8

\* The decoder has the two bytes of a header: they end a message of the server, or
\* are the size of a chunk.
LEMMA FlowHeader ==
  ASSUME NEW fs, NEW f \in Bytes, NEW s \in Bytes, NEW c \in Nat, NEW m, NEW t, NEW d,
         NEW high \in Byte, NEW low \in Byte, NEW x \in Bytes, NEW y \in Seq(Bytes),
         NEW u \in Bytes, NEW e \in Nat, ToCome(fs, x, y),
         <<<<high, low>> \o (f \o x), s, c, u, e>> \in Decodings(m),
         <<y, u, e, t, d>> \in Deliveries(m)
  PROVE  LET size == high * Base + low
         IN  /\ size = 0 => /\ c < Len(m) /\ s = m[c + 1]
                            /\ BrowserFlow(fs, f, "FIRST_BYTE", size, <<>>, c + 1, m, t, d)
             /\ size # 0 => BrowserFlow(fs, f, "BODY", size, s, c, m, t, d)
<1> DEFINE size == high * Base + low
<1>1. f \o x \in Bytes
  BY Behind
<1>2. ASSUME size = 0
      PROVE  /\ c < Len(m) /\ s = m[c + 1]
             /\ BrowserFlow(fs, f, "FIRST_BYTE", size, <<>>, c + 1, m, t, d)
  <2>1. /\ c < Len(m) /\ s = m[c + 1]
        /\ <<f \o x, <<>>, c + 1, u, e>> \in Decodings(m)
    <3>1. ReadsBehind(m, size, f \o x, s, c, u, e)
      BY <1>1, ReadHeader
    <3> HIDE DEF size
    <3> QED BY <1>2, <3>1 DEF ReadsBehind
  <2>2. <<<<>> \o (f \o x), <<>>, c + 1, u, e>> \in Decodings(m) /\ <<>> \in Bytes
    BY <1>1, <2>1, NoBytes
  <2>3. Kept("FIRST_BYTE", size, <<>>)
    BY DEF Kept
  <2> HIDE DEF size
  <2> QED BY <2>1, <2>2, <2>3 DEF BrowserFlow
<1>3. ASSUME size # 0 PROVE BrowserFlow(fs, f, "BODY", size, s, c, m, t, d)
  <2>1. Kept("BODY", size, <<high, low>>)
    BY <1>3 DEF Kept
  <2>2. <<high, low>> \in Bytes
    BY DEF Bytes
  <2> HIDE DEF size
  <2> QED BY <2>1, <2>2 DEF BrowserFlow
<1> QED BY <1>2, <1>3

\* One byte and two bytes.
LEMMA ByteTuples ==
  ASSUME NEW a \in Byte, NEW b \in Byte
  PROVE  /\ <<a>> \in Bytes /\ Len(<<a>>) = 1 /\ <<a>>[1] = a
         /\ <<a, b>> \in Bytes /\ Len(<<a, b>>) = 2 /\ <<a, b>>[1] = a /\ <<a, b>>[2] = b
BY DEF Bytes

LEMMA ByteTuple ==
  ASSUME NEW x \in Bytes
  PROVE  /\ Len(x) = 1 => x[1] \in Byte /\ x = <<x[1]>>
         /\ Len(x) = 2 => x[1] \in Byte /\ x[2] \in Byte /\ x = <<x[1], x[2]>>
<1>1. ASSUME Len(x) = 1 PROVE x[1] \in Byte /\ x = <<x[1]>>
  <2>1. x[1] \in Byte
    BY <1>1, ElementOfSeq DEF Bytes
  <2> DEFINE y == <<x[1]>>
  <2>2. y \in Seq(Byte) /\ Len(y) = 1 /\ y[1] = x[1]
    BY <2>1, ByteTuples DEF Bytes
  <2> HIDE DEF y
  <2>3. \A i \in 1 .. Len(x) : x[i] = y[i]
    BY <1>1, <2>2
  <2>4. x = y
    BY <1>1, <2>2, <2>3, SeqEqual, Zenon DEF Bytes
  <2> QED BY <2>1, <2>4 DEF y
<1>2. ASSUME Len(x) = 2 PROVE x[1] \in Byte /\ x[2] \in Byte /\ x = <<x[1], x[2]>>
  <2>1. x[1] \in Byte /\ x[2] \in Byte
    <3>1. x \in Seq(Byte) /\ 1 \in 1 .. Len(x) /\ 2 \in 1 .. Len(x)
      BY <1>2 DEF Bytes
    <3> QED BY <3>1, ElementOfSeq, Zenon
  <2> DEFINE y == <<x[1], x[2]>>
  <2>2. y \in Seq(Byte) /\ Len(y) = 2 /\ y[1] = x[1] /\ y[2] = x[2]
    BY <2>1, ByteTuples DEF Bytes
  <2> HIDE DEF y
  <2>3. \A i \in 1 .. Len(x) : x[i] = y[i]
    BY <1>2, <2>2
  <2>4. x = y
    BY <1>2, <2>2, <2>3, SeqEqual, Zenon DEF Bytes
  <2> QED BY <2>1, <2>4 DEF y
<1> QED BY <1>1, <1>2

\* Bytes are their first byte and the others, or their first two and the others.
LEMMA FirstBytes ==
  ASSUME NEW f \in Bytes, f # <<>>
  PROVE  /\ f[1] \in Byte /\ Tail(f) \in Bytes /\ Alike(<<f[1]>>, Tail(f), f, <<>>)
         /\ Len(f) > 1 => /\ f[2] \in Byte /\ SubSeq(f, 3, Len(f)) \in Bytes
                          /\ Alike(<<f[1], f[2]>>, SubSeq(f, 3, Len(f)), f, <<>>)
<1>1. f \in Seq(Byte) /\ Len(f) \in Nat \ {0}
  BY NoBytes DEF Bytes
<1>2. f[1] \in Byte
  BY <1>1
<1>3. Tail(f) = SubSeq(f, 2, Len(f)) /\ SubSeq(f, 1, 1) = <<f[1]>>
  <2>1. Tail(f) = SubSeq(f, 2, Len(f))
    BY <1>1, TailIsSubSeq
  <2> DEFINE x == SubSeq(f, 1, 1)
  <2>2. x \in Bytes /\ Len(x) = 1 /\ x[1] = f[1]
    BY <1>1 DEF Bytes
  <2> HIDE DEF x
  <2>3. x = <<f[1]>>
    BY <2>2, ByteTuple
  <2> QED BY <2>1, <2>3 DEF x
<1>4. /\ SubSeq(f, 1 + 1, Len(f)) \in Bytes
      /\ Alike(SubSeq(f, 1, 1), SubSeq(f, 1 + 1, Len(f)), f, <<>>)
  <2>1. 1 \in Nat /\ 1 <= Len(f)
    BY <1>1
  <2> QED BY <2>1, TakeDrop
<1>5. ASSUME Len(f) > 1
      PROVE  /\ f[2] \in Byte /\ SubSeq(f, 3, Len(f)) \in Bytes
             /\ Alike(<<f[1], f[2]>>, SubSeq(f, 3, Len(f)), f, <<>>)
  <2>1. f[2] \in Byte /\ SubSeq(f, 1, 2) = <<f[1], f[2]>>
    <3> DEFINE x == SubSeq(f, 1, 2)
    <3>1. x \in Bytes /\ Len(x) = 2 /\ x[1] = f[1] /\ x[2] = f[2]
      BY <1>1, <1>5 DEF Bytes
    <3> HIDE DEF x
    <3>2. x = <<f[1], f[2]>> /\ x[2] \in Byte
      BY <3>1, ByteTuple
    <3> QED BY <3>1, <3>2 DEF x
  <2>2. /\ SubSeq(f, 2 + 1, Len(f)) \in Bytes
        /\ Alike(SubSeq(f, 1, 2), SubSeq(f, 2 + 1, Len(f)), f, <<>>)
    <3>1. 2 \in Nat /\ 2 <= Len(f)
      BY <1>1, <1>5
    <3> QED BY <3>1, TakeDrop
  <2>3. 2 + 1 = 3
    OBVIOUS
  <2> QED BY <2>1, <2>2, <2>3, Zenon
<1>6. 1 + 1 = 2
  OBVIOUS
<1>7. Tail(f) \in Bytes /\ Alike(<<f[1]>>, Tail(f), f, <<>>)
  BY <1>3, <1>4, <1>6, Zenon
<1> QED BY <1>2, <1>5, <1>7

\* Bytes before bytes, put together in another way.
Regrouped(f, a, b, x) == f \o x = a \o (b \o x)

LEMMA Regroup ==
  ASSUME NEW a \in Bytes, NEW b \in Bytes, NEW f \in Bytes, Alike(a, b, f, <<>>), NEW x \in Bytes
  PROVE  Regrouped(f, a, b, x)
<1>1. a \o b = f
  BY NoBytes DEF Alike
<1>2. Associate(a, b, x)
  BY BehindBehind
<1> QED BY <1>1, <1>2 DEF Associate, Regrouped

\* The first bytes of a frame are a header.
LEMMA FlowTwoBytes ==
  ASSUME NEW fs, NEW f \in Bytes, Len(f) > 1, NEW r, NEW s \in Bytes, NEW c \in Nat, NEW m,
         NEW t, NEW d, BrowserFlow(fs, f, "FIRST_BYTE", r, s, c, m, t, d)
  PROVE  LET size == f[1] * Base + f[2]
             rest == SubSeq(f, 3, Len(f))
         IN  /\ size = 0 => /\ c < Len(m) /\ s = m[c + 1]
                            /\ BrowserFlow(fs, rest, "FIRST_BYTE", size, <<>>, c + 1, m, t, d)
             /\ size # 0 => BrowserFlow(fs, rest, "BODY", size, s, c, m, t, d)
<1>1. PICK p \in Bytes, x \in Bytes, y \in Seq(Bytes), u \in Bytes, e \in Nat :
        /\ Kept("FIRST_BYTE", r, p) /\ ToCome(fs, x, y)
        /\ <<p \o (f \o x), s, c, u, e>> \in Decodings(m)
        /\ <<y, u, e, t, d>> \in Deliveries(m)
  BY DEF BrowserFlow
<1> DEFINE high == f[1]  low == f[2]  rest == SubSeq(f, 3, Len(f))
<1>2. f # <<>>
  BY NoBytes
<1>3. high \in Byte /\ low \in Byte /\ rest \in Bytes /\ Alike(<<high, low>>, rest, f, <<>>)
  BY <1>2, FirstBytes
<1> HIDE DEF high, low, rest
<1>4. p \o (f \o x) = <<high, low>> \o (rest \o x)
  <2>1. p = <<>>
    BY <1>1 DEF Kept
  <2>2. <<high, low>> \in Bytes
    BY <1>3 DEF Bytes
  <2>3. f \o x = <<high, low>> \o (rest \o x)
    <3> DEFINE two == <<high, low>>
    <3>1. two \in Bytes /\ Alike(two, rest, f, <<>>)
      BY <1>3, <2>2
    <3> HIDE DEF two
    <3>2. f \o x = two \o (rest \o x)
      <4>1. Regrouped(f, two, rest, x)
        BY <1>3, <3>1, Regroup
      <4> QED BY <4>1 DEF Regrouped
    <3> QED BY <3>2 DEF two
  <2>4. f \o x \in Bytes
    BY Behind
  <2> QED BY <2>1, <2>3, <2>4, NoBytes
<1>5. <<<<high, low>> \o (rest \o x), s, c, u, e>> \in Decodings(m)
  BY <1>1, <1>4
<1> QED BY <1>1, <1>3, <1>5, FlowHeader DEF high, low, rest

\* The only byte of a frame is the first of a header.
LEMMA FlowOneByte ==
  ASSUME NEW fs, NEW f \in Bytes, Len(f) = 1, NEW r, NEW s, NEW c, NEW m,
         NEW t, NEW d, BrowserFlow(fs, f, "FIRST_BYTE", r, s, c, m, t, d)
  PROVE  BrowserFlow(fs, <<>>, "SECOND_BYTE", f[1] * Base, s, c, m, t, d)
<1>1. PICK p \in Bytes, x \in Bytes, y \in Seq(Bytes), u \in Bytes, e \in Nat :
        /\ Kept("FIRST_BYTE", r, p) /\ ToCome(fs, x, y)
        /\ <<p \o (f \o x), s, c, u, e>> \in Decodings(m)
        /\ <<y, u, e, t, d>> \in Deliveries(m)
  BY DEF BrowserFlow
<1>2. f[1] \in Byte /\ f = <<f[1]>>
  BY ByteTuple
<1>3. Kept("SECOND_BYTE", f[1] * Base, f)
  BY <1>2, Zenon DEF Kept
<1>4. p \o (f \o x) = f \o (<<>> \o x)
  <2>1. p = <<>> /\ f \o x \in Bytes
    BY <1>1, Behind DEF Kept
  <2> QED BY <1>1, <2>1, NoBytes
<1>5. <<f \o (<<>> \o x), s, c, u, e>> \in Decodings(m)
  BY <1>1, <1>4
<1> DEFINE q == f[1] * Base
<1> HIDE DEF q
<1>6. Kept("SECOND_BYTE", q, f)
  BY <1>3 DEF q
<1>7. BrowserFlow(fs, <<>>, "SECOND_BYTE", q, s, c, m, t, d)
  BY <1>1, <1>5, <1>6 DEF BrowserFlow
<1> QED BY <1>7 DEF q

\* The first byte of a frame is the second of a header.
LEMMA FlowSecondByte ==
  ASSUME NEW fs, NEW f \in Bytes, f # <<>>, NEW r, NEW s \in Bytes, NEW c \in Nat, NEW m,
         NEW t, NEW d, BrowserFlow(fs, f, "SECOND_BYTE", r, s, c, m, t, d)
  PROVE  LET size == r + f[1]
         IN  /\ size = 0 => /\ c < Len(m) /\ s = m[c + 1]
                            /\ BrowserFlow(fs, Tail(f), "FIRST_BYTE", size, <<>>, c + 1, m, t, d)
             /\ size # 0 => BrowserFlow(fs, Tail(f), "BODY", size, s, c, m, t, d)
<1>1. PICK p \in Bytes, x \in Bytes, y \in Seq(Bytes), u \in Bytes, e \in Nat :
        /\ Kept("SECOND_BYTE", r, p) /\ ToCome(fs, x, y)
        /\ <<p \o (f \o x), s, c, u, e>> \in Decodings(m)
        /\ <<y, u, e, t, d>> \in Deliveries(m)
  BY DEF BrowserFlow
<1>2. PICK high \in Byte : r = high * Base /\ p = <<high>>
  BY <1>1 DEF Kept
<1> DEFINE low == f[1]  rest == Tail(f)
<1>3. low \in Byte /\ rest \in Bytes /\ Alike(<<low>>, rest, f, <<>>)
  BY FirstBytes
<1> HIDE DEF low, rest
<1>4. p \o (f \o x) = <<high, low>> \o (rest \o x)
  <2>1. <<low>> \in Bytes /\ rest \o x \in Bytes
    BY <1>3, Behind DEF Bytes
  <2> DEFINE one == <<low>>
             two == p \o one
  <2>2. one \in Bytes /\ Len(one) = 1 /\ one[1] = low /\ Alike(one, rest, f, <<>>)
    BY <1>3, <2>1, ByteTuples
  <2>3. p \in Bytes /\ Len(p) = 1 /\ p[1] = high
    BY <1>2, ByteTuples
  <2> HIDE DEF one
  <2>4. f \o x = one \o (rest \o x)
    <3>1. Regrouped(f, one, rest, x)
      BY <1>3, <2>2, Regroup
    <3> QED BY <3>1 DEF Regrouped
  <2>5. Associate(p, one, rest \o x)
    BY <2>1, <2>2, BehindBehind
  <2>6. two \in Bytes /\ Len(two) = 2 /\ two[1] = high /\ two[2] = low
    <3>1. /\ p \in Seq(Byte) /\ one \in Seq(Byte)
          /\ two \in Seq(Byte) /\ Len(two) = Len(p) + Len(one)
          /\ \A i \in 1 .. Len(p) + Len(one) : two[i] = IF i <= Len(p) THEN p[i] ELSE one[i - Len(p)]
      BY <2>2, <2>3, ConcatProperties, Zenon DEF Bytes
    <3> HIDE DEF two
    <3> QED BY <2>2, <2>3, <3>1 DEF Bytes
  <2> HIDE DEF two
  <2>7. two = <<high, low>>
    BY <2>6, ByteTuple
  <2> QED BY <2>4, <2>5, <2>7 DEF Associate, two
<1>5. <<<<high, low>> \o (rest \o x), s, c, u, e>> \in Decodings(m)
  BY <1>1, <1>4
<1>6. r + low = high * Base + low
  <2> DEFINE q == high * Base
  <2>1. r = q
    BY <1>2
  <2> HIDE DEF q
  <2>2. r + low = q + low
    BY <2>1
  <2> QED BY <2>2 DEF q
<1> DEFINE size == high * Base + low
<1>7. /\ size = 0 => /\ c < Len(m) /\ s = m[c + 1]
                     /\ BrowserFlow(fs, rest, "FIRST_BYTE", size, <<>>, c + 1, m, t, d)
      /\ size # 0 => BrowserFlow(fs, rest, "BODY", size, s, c, m, t, d)
  BY <1>1, <1>3, <1>5, FlowHeader
<1> HIDE DEF size
<1>8. r + low = size
  BY <1>6 DEF size
<1> QED BY <1>7, <1>8 DEF low, rest

\* The frame has the rest of the chunk.
LEMMA FlowBodyEnds ==
  ASSUME NEW fs, NEW f \in Bytes, NEW r \in Nat, r <= Len(f), NEW s \in Bytes, NEW c \in Nat,
         NEW m, NEW t, NEW d, BrowserFlow(fs, f, "BODY", r, s, c, m, t, d)
  PROVE  BrowserFlow(fs, SubSeq(f, r + 1, Len(f)), "FIRST_BYTE", r, s \o SubSeq(f, 1, r), c, m, t, d)
<1>1. PICK p \in Bytes, x \in Bytes, y \in Seq(Bytes), u \in Bytes, e \in Nat :
        /\ Kept("BODY", r, p) /\ ToCome(fs, x, y)
        /\ <<p \o (f \o x), s, c, u, e>> \in Decodings(m)
        /\ <<y, u, e, t, d>> \in Deliveries(m)
  BY DEF BrowserFlow
<1>2. PICK high \in Byte, low \in Byte : r = high * Base + low /\ r # 0 /\ p = <<high, low>>
  BY <1>1 DEF Kept
<1>3. f \o x \in Bytes
  BY Behind
<1>4. \E body \in Bytes, rest \in Bytes :
        Len(body) = r /\ f \o x = body \o rest /\ <<rest, s \o body, c, u, e>> \in Decodings(m)
  <2>1. <<<<high, low>> \o (f \o x), s, c, u, e>> \in Decodings(m)
    BY <1>1, <1>2
  <2>2. ReadsBehind(m, r, f \o x, s, c, u, e) /\ r # 0
    BY <1>2, <1>3, <2>1, ReadHeader, Zenon
  <2> QED BY <2>2 DEF ReadsBehind
<1>5. PICK body \in Bytes, rest \in Bytes :
        Len(body) = r /\ f \o x = body \o rest /\ <<rest, s \o body, c, u, e>> \in Decodings(m)
  BY <1>4
<1> DEFINE g == SubSeq(f, r + 1, Len(f))
<1>6. body = SubSeq(f, 1, r) /\ rest = g \o x
  <2>1. Alike(body, rest, f, x) /\ Len(body) <= Len(f)
    BY <1>5 DEF Alike
  <2>2. body = SubSeq(f, 1, Len(body)) /\ rest = SubSeq(f, Len(body) + 1, Len(f)) \o x
    <3>1. CutAt(body, rest, f, x)
      BY <2>1, TwoCuts
    <3> QED BY <3>1 DEF CutAt
  <2> QED BY <1>5, <2>2, Zenon
<1>7. g \in Bytes
  BY TakeDrop
<1> HIDE DEF g
<1>8. Kept("FIRST_BYTE", r, <<>>) /\ <<>> \in Bytes /\ <<>> \o (g \o x) = g \o x
  BY <1>7, Behind, NoBytes DEF Kept
<1>9. <<<<>> \o (g \o x), s \o body, c, u, e>> \in Decodings(m)
  BY <1>5, <1>6, <1>8
<1>10. BrowserFlow(fs, g, "FIRST_BYTE", r, s \o body, c, m, t, d)
  BY <1>1, <1>8, <1>9 DEF BrowserFlow
<1> QED BY <1>6, <1>10 DEF g

\* The chunk goes on in the next frame.
LEMMA FlowBodyGoesOn ==
  ASSUME NEW fs, NEW f \in Bytes, NEW r \in ChunkSize, r > Len(f), NEW s \in Bytes, NEW c \in Nat,
         NEW m, NEW t, NEW d, BrowserFlow(fs, f, "BODY", r, s, c, m, t, d)
  PROVE  BrowserFlow(fs, <<>>, "BODY", r - Len(f), s \o f, c, m, t, d)
<1>1. PICK p \in Bytes, x \in Bytes, y \in Seq(Bytes), u \in Bytes, e \in Nat :
        /\ Kept("BODY", r, p) /\ ToCome(fs, x, y)
        /\ <<p \o (f \o x), s, c, u, e>> \in Decodings(m)
        /\ <<y, u, e, t, d>> \in Deliveries(m)
  BY DEF BrowserFlow
<1>2. PICK high \in Byte, low \in Byte : r = high * Base + low /\ r # 0 /\ p = <<high, low>>
  BY <1>1 DEF Kept
<1>3. f \o x \in Bytes /\ Len(f) \in Nat
  BY Behind
<1>4. \E body \in Bytes, rest \in Bytes :
        Len(body) = r /\ f \o x = body \o rest /\ <<rest, s \o body, c, u, e>> \in Decodings(m)
  <2>1. <<<<high, low>> \o (f \o x), s, c, u, e>> \in Decodings(m)
    BY <1>1, <1>2
  <2>2. ReadsBehind(m, r, f \o x, s, c, u, e) /\ r # 0
    BY <1>2, <1>3, <2>1, ReadHeader, Zenon
  <2> QED BY <2>2 DEF ReadsBehind
<1>5. PICK body \in Bytes, rest \in Bytes :
        Len(body) = r /\ f \o x = body \o rest /\ <<rest, s \o body, c, u, e>> \in Decodings(m)
  BY <1>4
<1> DEFINE more == SubSeq(body, Len(f) + 1, Len(body))
           n == r - Len(f)
<1>6. x = more \o rest /\ body = f \o more
  <2>1. Alike(f, x, body, rest) /\ Len(f) <= Len(body)
    <3>1. Len(f) <= r
      BY <1>3 DEF ChunkSize
    <3> QED BY <1>5, <3>1 DEF Alike
  <2>2. CutAt(f, x, body, rest)
    BY <2>1, TwoCuts
  <2> QED BY <2>2, Zenon DEF CutAt
<1>7. more \in Bytes /\ Len(more) = n /\ n \in Nat \ {0} /\ n < Base * Base
  <2> DEFINE top == Base * Base
  <2>1. top \in Int /\ r \in 0 .. top - 1
    BY SizesAssumption DEF ChunkSize
  <2> HIDE DEF top
  <2>2. n \in Nat \ {0} /\ n < top /\ Len(f) <= r
    BY <1>3, <2>1
  <2>3. more \in Bytes /\ Len(more) = Len(body) - Len(f)
    BY <1>3, <1>5, <2>2, TakeDrop
  <2> HIDE DEF more
  <2> QED BY <1>5, <2>2, <2>3 DEF top
<1> HIDE DEF more, n
<1>8. <<Header(n) \o (more \o rest), s \o f, c, u, e>> \in Decodings(m)
  <2>1. s \o f \in Bytes /\ more # <<>>
    BY <1>7, Behind, NoBytes
  <2>2. (s \o f) \o more = s \o body
    <3>1. Associate(s, f, more)
      BY <1>7, BehindBehind
    <3> QED BY <1>6, <3>1 DEF Associate
  <2>3. <<rest, (s \o f) \o more, c, u, e>> \in Decodings(m)
    BY <1>5, <2>2
  <2>4. <<Header(Len(more)) \o (more \o rest), s \o f, c, u, e>> \in Decodings(m)
    BY <1>7, <2>1, <2>3, ReadsChunk
  <2> QED BY <1>7, <2>4
<1> DEFINE header == Header(n)
<1>9. Kept("BODY", n, header) /\ header \in Bytes
  <2>1. /\ n \div Base \in Byte /\ n % Base \in Byte
        /\ (n \div Base) * Base + (n % Base) = n
        /\ header = <<n \div Base, n % Base>> /\ header \in Bytes
    BY <1>7, HeaderOf
  <2> QED BY <1>7, <2>1, Zenon DEF Kept
<1> HIDE DEF header
<1>10. <<header \o (<<>> \o x), s \o f, c, u, e>> \in Decodings(m)
  <2>1. <<>> \o x = more \o rest
    BY <1>6, NoBytes
  <2> QED BY <1>8, <2>1 DEF header
<1>11. BrowserFlow(fs, <<>>, "BODY", n, s \o f, c, m, t, d)
  BY <1>1, <1>9, <1>10 DEF BrowserFlow
<1> QED BY <1>11 DEF n

-----------------------------------------------------------------------------
(* The steps of the decoder.                                               *)

\* The flow of the browser, in its variables.
Flows(t, d) == BrowserFlow(frames, frame, state, remaining, slices, Len(decoded), sealed, t, d)

\* The header that the decoder has read leads to the end of a message of the server or
\* to a chunk.
HeaderFlows(size, rest, t, d) ==
  /\ size = 0 => /\ Len(decoded) < Len(sealed) /\ slices = sealed[Len(decoded) + 1]
                 /\ BrowserFlow(frames, rest, "FIRST_BYTE", size, <<>>, Len(decoded) + 1, sealed, t, d)
  /\ size # 0 => BrowserFlow(frames, rest, "BODY", size, slices, Len(decoded), sealed, t, d)

LEMMA DecodedHeaderFlows ==
  ASSUME IInv, NEW size, NEW t, NEW d, HeaderFlows(size, frame', t, d), DecodedHeader(size),
         UNCHANGED <<serverVars, frames>>
  PROVE  /\ Flows(t, d)'
         /\ \/ UNCHANGED decoded
            \/ /\ Len(decoded) < Len(sealed)
               /\ decoded' = Append(decoded, sealed[Len(decoded) + 1])
<1>1. frames' = frames /\ sealed' = sealed /\ remaining' = size
  BY DEF serverVars, DecodedHeader
<1>2. CASE size = 0
  <2>1. /\ decoded' = Append(decoded, slices) /\ slices' = <<>> /\ state' = "FIRST_BYTE"
        /\ slices \in Bytes /\ decoded \in Seq(Bytes)
    BY <1>2 DEF DecodedHeader, IInv, TypeOK, Bytes
  <2>2. Len(decoded') = Len(decoded) + 1
    BY <2>1, AppendProperties
  <2>3. /\ Len(decoded) < Len(sealed) /\ slices = sealed[Len(decoded) + 1]
        /\ BrowserFlow(frames, frame', "FIRST_BYTE", size, <<>>, Len(decoded) + 1, sealed, t, d)
    BY <1>2 DEF HeaderFlows
  <2>4. BrowserFlow(frames', frame', state', remaining', slices', Len(decoded'), sealed', t, d)
    BY <1>1, <2>1, <2>2, <2>3, Zenon
  <2> QED BY <2>1, <2>3, <2>4 DEF Flows
<1>3. CASE size # 0
  <2>1. state' = "BODY" /\ slices' = slices /\ decoded' = decoded
    BY <1>3 DEF DecodedHeader
  <2>2. BrowserFlow(frames, frame', "BODY", size, slices, Len(decoded), sealed, t, d)
    BY <1>3 DEF HeaderFlows
  <2>3. BrowserFlow(frames', frame', state', remaining', slices', Len(decoded'), sealed', t, d)
    BY <1>1, <2>1, <2>2, Zenon
  <2> QED BY <2>1, <2>3 DEF Flows
<1> QED BY <1>2, <1>3

\* A step of the decoder keeps what the frames lead to; a message that it passes on is
\* the next one of the server.
LEMMA DecoderFlows ==
  ASSUME IInv, Decode, NEW t, NEW d, Flows(t, d)
  PROVE  /\ Flows(t, d)'
         /\ \/ UNCHANGED decoded
            \/ /\ Len(decoded) < Len(sealed)
               /\ decoded' = Append(decoded, sealed[Len(decoded) + 1])
<1>1. /\ frames \in Seq(Bytes) /\ frame \in Bytes /\ slices \in Bytes /\ Len(decoded) \in Nat
      /\ remaining \in ChunkSize /\ remaining \in Nat
  BY LenProperties DEF IInv, TypeOK, Bytes, ChunkSize
<1>2. CASE OnMessage
  <2>1. /\ frame = <<>> /\ frames # <<>> /\ sealed' = sealed
        /\ state' = state /\ remaining' = remaining /\ slices' = slices /\ decoded' = decoded
    BY <1>2 DEF OnMessage, serverVars
  <2>2. PICK n \in 1 .. Len(Head(frames)) :
          LET rest == SubSeq(Head(frames), n + 1, Len(Head(frames)))
          IN  /\ frame' = SubSeq(Head(frames), 1, n)
              /\ frames' = IF rest = <<>> THEN Tail(frames) ELSE <<rest>> \o Tail(frames)
    BY <1>2 DEF OnMessage
  <2> DEFINE rest == SubSeq(Head(frames), n + 1, Len(Head(frames)))
             fs == IF rest = <<>> THEN Tail(frames) ELSE <<rest>> \o Tail(frames)
             f == SubSeq(Head(frames), 1, n)
  <2>3. BrowserFlow(frames, <<>>, state, remaining, slices, Len(decoded), sealed, t, d)
    BY <2>1 DEF Flows
  <2>4. BrowserFlow(fs, f, state, remaining, slices, Len(decoded), sealed, t, d)
    BY <1>1, <2>1, <2>3, FlowTakes
  <2>5. frames' = fs /\ frame' = f
    BY <2>2
  <2> HIDE DEF fs, f
  <2>6. BrowserFlow(frames', frame', state', remaining', slices', Len(decoded'), sealed', t, d)
    BY <2>1, <2>4, <2>5, Zenon
  <2> QED BY <2>1, <2>6 DEF Flows
<1>3. CASE HandleHeaderFirstByte
  <2>1. frame # <<>> /\ state = "FIRST_BYTE" /\ UNCHANGED <<serverVars, frames>>
    BY <1>3 DEF HandleHeaderFirstByte
  <2>2. BrowserFlow(frames, frame, "FIRST_BYTE", remaining, slices, Len(decoded), sealed, t, d)
    BY <2>1 DEF Flows
  <2>3. CASE /\ Len(frame) > 1
             /\ DecodedHeader(frame[1] * Base + frame[2])
             /\ frame' = SubSeq(frame, 3, Len(frame))
    <3> DEFINE size == frame[1] * Base + frame[2]
    <3>1. HeaderFlows(size, SubSeq(frame, 3, Len(frame)), t, d)
      BY <1>1, <2>2, <2>3, FlowTwoBytes DEF HeaderFlows
    <3>2. HeaderFlows(size, frame', t, d)
      BY <2>3, <3>1
    <3>3. DecodedHeader(size)
      BY <2>3
    <3> HIDE DEF size
    <3> QED BY <2>1, <3>2, <3>3, DecodedHeaderFlows
  <2>4. CASE /\ Len(frame) = 1
             /\ remaining' = frame[1] * Base
             /\ frame' = <<>>
             /\ state' = "SECOND_BYTE"
             /\ UNCHANGED <<slices, decoded>>
    <3>1. BrowserFlow(frames, <<>>, "SECOND_BYTE", frame[1] * Base, slices, Len(decoded), sealed, t, d)
      BY <1>1, <2>2, <2>4, FlowOneByte
    <3>2. frames' = frames /\ sealed' = sealed /\ slices' = slices /\ decoded' = decoded
      BY <2>1, <2>4 DEF serverVars
    <3>3. BrowserFlow(frames', frame', state', remaining', slices', Len(decoded'), sealed', t, d)
      BY <2>4, <3>1, <3>2, Zenon
    <3> QED BY <3>2, <3>3 DEF Flows
  <2> QED BY <1>3, <2>3, <2>4 DEF HandleHeaderFirstByte
<1>4. CASE HandleHeaderSecondByte
  <2>1. /\ frame # <<>> /\ state = "SECOND_BYTE" /\ UNCHANGED <<serverVars, frames>>
        /\ DecodedHeader(remaining + frame[1]) /\ frame' = Tail(frame)
    BY <1>4 DEF HandleHeaderSecondByte
  <2>2. BrowserFlow(frames, frame, "SECOND_BYTE", remaining, slices, Len(decoded), sealed, t, d)
    BY <2>1 DEF Flows
  <2>3. HeaderFlows(remaining + frame[1], Tail(frame), t, d)
    BY <1>1, <2>1, <2>2, FlowSecondByte DEF HeaderFlows
  <2>4. HeaderFlows(remaining + frame[1], frame', t, d)
    BY <2>1, <2>3
  <2> QED BY <2>1, <2>4, DecodedHeaderFlows
<1>5. CASE HandleBody
  <2>1. frames' = frames /\ sealed' = sealed /\ decoded' = decoded /\ state = "BODY"
    BY <1>5 DEF HandleBody, serverVars
  <2>2. BrowserFlow(frames, frame, "BODY", remaining, slices, Len(decoded), sealed, t, d)
    BY <2>1 DEF Flows
  <2>3. CASE /\ remaining > Len(frame)
             /\ slices' = slices \o frame
             /\ remaining' = remaining - Len(frame)
             /\ frame' = <<>>
             /\ UNCHANGED state
    <3>1. BrowserFlow(frames, <<>>, "BODY", remaining - Len(frame), slices \o frame, Len(decoded),
                      sealed, t, d)
      BY <1>1, <2>2, <2>3, FlowBodyGoesOn
    <3>2. BrowserFlow(frames', frame', state', remaining', slices', Len(decoded'), sealed', t, d)
      BY <2>1, <2>3, <3>1, Zenon
    <3> QED BY <2>1, <3>2 DEF Flows
  <2>4. CASE /\ remaining <= Len(frame)
             /\ slices' = slices \o SubSeq(frame, 1, remaining)
             /\ frame' = SubSeq(frame, remaining + 1, Len(frame))
             /\ state' = "FIRST_BYTE"
             /\ UNCHANGED remaining
    <3>1. BrowserFlow(frames, SubSeq(frame, remaining + 1, Len(frame)), "FIRST_BYTE", remaining,
                      slices \o SubSeq(frame, 1, remaining), Len(decoded), sealed, t, d)
      BY <1>1, <2>2, <2>4, FlowBodyEnds
    <3>2. BrowserFlow(frames', frame', state', remaining', slices', Len(decoded'), sealed', t, d)
      BY <2>1, <2>4, <3>1, Zenon
    <3> QED BY <2>1, <3>2 DEF Flows
  <2> QED BY <1>5, <2>3, <2>4 DEF HandleBody
<1> QED BY <1>2, <1>3, <1>4, <1>5 DEF Decode

-----------------------------------------------------------------------------
(* The theorems.                                                           *)

LEMMA InitFlows == Init => FlowInv
<1> SUFFICES ASSUME Init PROVE FlowInv
  OBVIOUS
<1>1. <<>> \in Bytes /\ <<>> \o (<<>> \o <<>>) = <<>> /\ <<>> = <<>> \o <<>>
  BY NoBytes
<1>2. Len(<<>>) = 0 /\ <<>> \in Seq(Bytes)
  BY EmptySeq
<1>3. <<<<>>, <<>>, 0, <<>>, 0>> \in Decodings(<<>>)
  BY <1>1, ReadsNothing
<1>4. <<<<>>, <<>>, 0, <<>>, 0>> \in Deliveries(<<>>)
  BY <1>1, DeliversNothing
<1>5. Kept("FIRST_BYTE", 0, <<>>) /\ ToCome(<<>>, <<>>, <<>>)
  BY DEF Kept, ToCome
<1>6. <<<<>> \o (<<>> \o <<>>), <<>>, 0, <<>>, 0>> \in Decodings(<<>>)
  BY <1>1, <1>3
<1>7. BrowserFlow(<<>>, <<>>, "FIRST_BYTE", 0, <<>>, 0, <<>>, <<>>, 0)
  BY <1>1, <1>2, <1>4, <1>5, <1>6 DEF BrowserFlow
<1>8. ServerFlow(<<>>, <<>>, <<>>, <<>>, <<>>, 0)
  BY <1>1, <1>2, <1>3 DEF ServerFlow
<1>9. /\ BrowserFlow(frames, frame, state, remaining, slices, Len(decoded), sealed, <<>>, 0)
      /\ ServerFlow(closed, chunk, message, sealed, <<>>, 0)
  BY <1>2, <1>7, <1>8 DEF Init
<1> QED BY <1>1, <1>9 DEF FlowInv

\* What the steps of the decoder do to the server and to the messages passed on.
LEMMA DecodeReceives ==
  ASSUME IInv, FlowInv, Decode
  PROVE  /\ FlowInv' /\ sealed' = sealed
         /\ \/ decoded' = decoded
            \/ /\ Len(decoded) < Len(sealed)
               /\ decoded' = Append(decoded, sealed[Len(decoded) + 1])
<1>1. PICK t \in Bytes, d \in Nat : Flows(t, d) /\ ServerFlow(closed, chunk, message, sealed, t, d)
  BY DEF FlowInv, Flows
<1>2. closed' = closed /\ chunk' = chunk /\ message' = message /\ sealed' = sealed
  BY DEF Decode, OnMessage, HandleHeaderFirstByte, HandleHeaderSecondByte, HandleBody,
         serverVars, bufferVars
<1>3. /\ Flows(t, d)'
      /\ \/ decoded' = decoded
         \/ /\ Len(decoded) < Len(sealed)
            /\ decoded' = Append(decoded, sealed[Len(decoded) + 1])
  BY <1>1, DecoderFlows
<1>4. ServerFlow(closed', chunk', message', sealed', t, d)
  BY <1>1, <1>2
<1>5. BrowserFlow(frames', frame', state', remaining', slices', Len(decoded'), sealed', t, d)
  BY <1>3 DEF Flows
<1>6. FlowInv'
  BY <1>4, <1>5 DEF FlowInv
<1> QED BY <1>2, <1>3, <1>6

LEMMA NextFlows ==
  ASSUME IInv, FlowInv, [Next]_vars
  PROVE  FlowInv'
<1>1. CASE UNCHANGED <<closed, chunk, message, sealed, frames, frame, state, remaining, slices, decoded>>
  BY <1>1 DEF FlowInv
<1>2. CASE Write
  BY <1>1, <1>2 DEF Write, bufferVars, decoderVars
<1>3. CASE UNCHANGED vars
  BY <1>1, <1>3 DEF vars, serverVars, bufferVars, decoderVars
<1> QED BY <1>2, <1>3, XsputnFlows, SealFlows, SyncFlows, DecodeReceives DEF Next, Respond

\* The frames sent in one step are new and whole.
LEMMA SentAreWhole ==
  ASSUME NEW fs \in Seq(Bytes), NEW out, NEW gs, Sends(fs, out), Sends(out, gs),
         NEW i \in Len(fs) + 1 .. Len(gs)
  PROVE  WholeChunks[gs[i]]
<1>1. ASSUME NEW hs \in Seq(Bytes), NEW g \in Bytes
      PROVE  /\ Append(hs, g) \in Seq(Bytes) /\ Len(hs) \in Nat
             /\ Len(Append(hs, g)) = Len(hs) + 1 /\ Append(hs, g)[Len(hs) + 1] = g
             /\ \A k \in 1 .. Len(hs) : Append(hs, g)[k] = hs[k]
  BY AppendProperties, LenProperties
<1>2. out \in Seq(Bytes) /\ Len(out) >= Len(fs)
      /\ \A k \in Len(fs) + 1 .. Len(out) : WholeChunks[out[k]]
  <2>1. CASE out = fs
    BY <2>1, LenProperties
  <2>2. ASSUME NEW g \in Bytes, WholeChunks[g], out = Append(fs, g)
        PROVE  /\ out \in Seq(Bytes) /\ Len(out) >= Len(fs)
               /\ \A k \in Len(fs) + 1 .. Len(out) : WholeChunks[out[k]]
    <3>1. out \in Seq(Bytes) /\ Len(out) = Len(fs) + 1 /\ out[Len(fs) + 1] = g /\ Len(fs) \in Nat
      BY <1>1, <2>2
    <3>2. ASSUME NEW k \in Len(fs) + 1 .. Len(out) PROVE k = Len(fs) + 1
      BY <3>1
    <3> QED BY <2>2, <3>1, <3>2
  <2> QED BY <2>1, <2>2 DEF Sends
<1>3. CASE gs = out
  BY <1>2, <1>3
<1>4. ASSUME NEW g \in Bytes, WholeChunks[g], gs = Append(out, g)
      PROVE  WholeChunks[gs[i]]
  <2>1. /\ Len(gs) = Len(out) + 1 /\ gs[Len(out) + 1] = g /\ Len(out) \in Nat /\ Len(fs) \in Nat
        /\ \A k \in 1 .. Len(out) : gs[k] = out[k]
    BY <1>1, <1>2, <1>4
  <2>2. CASE i = Len(out) + 1
    BY <1>4, <2>1, <2>2
  <2>3. CASE i # Len(out) + 1
    <3>1. i \in Len(fs) + 1 .. Len(out) /\ i \in 1 .. Len(out)
      BY <2>1, <2>3
    <3> QED BY <1>2, <2>1, <3>1
  <2> QED BY <2>2, <2>3
<1> QED BY <1>3, <1>4 DEF Sends

LEMMA NextSendsWhole ==
  ASSUME IInv, FlowInv, [Next]_vars
  PROVE  \A i \in Len(frames) + 1 .. Len(frames') : WholeChunks[frames'[i]]
<1>1. frames \in Seq(Bytes) /\ Len(frames) \in Nat
  BY LenProperties DEF IInv, TypeOK, Bytes
<1>2. CASE \E out : Sends(frames, out) /\ Sends(out, frames')
  BY <1>1, <1>2, SentAreWhole
<1>3. CASE Sends(frames, frames')
  BY <1>2, <1>3 DEF Sends
<1>4. CASE frames' = frames
  BY <1>3, <1>4 DEF Sends
<1>5. CASE OnMessage
  <2>1. frames # <<>>
    BY <1>5 DEF OnMessage
  <2>2. \E g : frames' = Tail(frames) \/ frames' = <<g>> \o Tail(frames)
    BY <1>5 DEF OnMessage
  <2>3. PICK g : frames' = Tail(frames) \/ frames' = <<g>> \o Tail(frames)
    BY <2>2
  <2>4. Len(frames') <= Len(frames)
    BY <1>1, <2>1, <2>3
  <2>5. Len(frames') \in Nat
    BY <1>1, <2>1, <2>3
  <2> QED BY <1>1, <2>4, <2>5
<1>6. CASE Write
  BY <1>4, <1>6 DEF Write
<1>7. CASE Decode
  BY <1>4, <1>5, <1>7 DEF Decode, HandleHeaderFirstByte, HandleHeaderSecondByte, HandleBody
<1>8. CASE UNCHANGED vars
  BY <1>4, <1>8 DEF vars
<1>9. CASE Respond
  BY <1>2, <1>3, <1>9, XsputnFlows, SealFlows, SyncFlows DEF Respond
<1> QED BY <1>6, <1>7, <1>8, <1>9 DEF Next

\* Every frame that the server sends is made of whole chunks and seals: xsputn, seal
\* and the flush never cut a header, a seal or a chunk in two.
THEOREM FramesWhole == Spec => FramesAreWholeChunks
<1>1. IInv /\ FlowInv /\ [Next]_vars
        => \A i \in Len(frames) + 1 .. Len(frames') : WholeChunks[frames'[i]]
  BY NextSendsWhole
<1>2. IInv /\ FlowInv /\ [Next]_vars => FlowInv'
  BY NextFlows
<1>3. Init => FlowInv
  BY InitFlows
<1> QED BY <1>1, <1>2, <1>3, Invariance, PTL DEF Spec, FramesAreWholeChunks

\* Sealing a message is sending it over the channel.
LEMMA SealSends ==
  ASSUME IInv, Seal PROVE Channel!Send
<1>1. message \in Seq(Byte) /\ sealed \in Seq(Seq(Byte)) /\ Len(sealed) \in Nat
  BY LenProperties DEF IInv, TypeOK
<1>2. sealed' = Append(sealed, message) /\ decoded' = decoded
  BY DEF Seal, decoderVars
<1>3. /\ Len(sealed') = Len(sealed) + 1
      /\ SubSeq(sealed', 1, Len(sealed)) = sealed
      /\ sealed'[Len(sealed')] = message
  BY <1>1, <1>2
<1> QED BY <1>1, <1>2, <1>3 DEF Channel!Send

\* The driver gets the messages of the server whole, once each and in order, whatever
\* the size of the buffer, the pieces they are written in and the way frames are cut.
THEOREM Delivers == Spec => DeliversMessages
<1>1. Init => Channel!Init
  BY DEF Init, Channel!Init
<1>2. IInv /\ FlowInv /\ [Next]_vars => [Channel!Next]_(Channel!vars)
  <2> SUFFICES ASSUME IInv, FlowInv, [Next]_vars PROVE [Channel!Next]_(Channel!vars)
    OBVIOUS
  <2>1. CASE sealed' = sealed /\ decoded' = decoded
    BY <2>1 DEF Channel!vars
  <2>2. CASE Seal
    BY <2>2, SealSends DEF Channel!Next
  <2>3. CASE Decode
    <3>1. /\ sealed' = sealed
          /\ \/ decoded' = decoded
             \/ /\ Len(decoded) < Len(sealed)
                /\ decoded' = Append(decoded, sealed[Len(decoded) + 1])
      BY <2>3, DecodeReceives
    <3> QED BY <2>1, <3>1 DEF Channel!Next, Channel!Receive
  <2>4. CASE Write \/ Xsputn \/ Sync
    BY <2>1, <2>4 DEF Write, Xsputn, Sync, decoderVars
  <2>5. CASE UNCHANGED vars
    BY <2>1, <2>5 DEF vars, serverVars, decoderVars
  <2> QED BY <2>2, <2>3, <2>4, <2>5 DEF Next, Respond
<1>3. IInv /\ FlowInv /\ [Next]_vars => FlowInv'
  BY NextFlows
<1>4. Init => FlowInv
  BY InitFlows
<1> QED BY <1>1, <1>2, <1>3, <1>4, Invariance, PTL DEF Spec, DeliversMessages, Channel!Spec

=============================================================================
