--------------------------- MODULE FrameDecoder -----------------------------
(***************************************************************************)
(* The framed byte stream between coordinator and worker: encode_frame on  *)
(* one end, the incremental FrameDecoder on the other, and between them a  *)
(* socket that splits and joins the stream anywhere and a medium that may  *)
(* damage it.                                                              *)
(*                                                                         *)
(* The stream is a sequence of cells, one for each field of the header and *)
(* one for each byte of the payload; the cell of the type stands for the   *)
(* sequence number too.  next() leaves offset_ at 0 (it clears or compacts *)
(* the buffer), so the buffer begins with the next undecoded cell.         *)
(*                                                                         *)
(* Coordinator and worker read alike: receive, push, then next() until it  *)
(* has no frame, or until the reader has enough: max_frames_per_cycle      *)
(* frames in the one, its answer in the other.  Neither calls next() again *)
(* before it has received more.                                            *)
(***************************************************************************)
EXTENDS Naturals, FiniteSetsExt, SequencesExt

CONSTANTS
  Types, Bytes,    \* type and payload cells
  MaxPayload,      \* max_payload_ of both ends
  Longest,         \* the longest payload that is sent
  MaxChunk,        \* the size of the receive buffer
  MaxSent          \* bound

VARIABLES
  sent,       \* history: the frames that were encoded on this connection
  wire,       \* the cells in flight
  buffer,     \* buffer_ from offset_ on
  failed,     \* failed_
  decoding,   \* the reader is between a push and the end of its calls of next()
  delivered,  \* history: the frames next() has returned
  damaged,    \* history: the position in the stream of the damaged cell, or 0
  held        \* history: push() was called with a whole frame in the buffer

vars == <<sent, wire, buffer, failed, decoding, delivered, damaged, held>>

-----------------------------------------------------------------------------

HeaderCells     == 5
FrameMagic      == 7
ProtocolVersion == 2
Cells           == 0..7

ASSUME FrameAssumption ==
  /\ Types \subseteq Cells /\ Bytes \subseteq Cells
  /\ MaxPayload \in Nat /\ Longest \in 0..MaxPayload
  /\ MaxChunk \in Nat \ {0} /\ MaxSent \in Nat

Frames == [type : Types, payload : UNION {[1..n -> Bytes] : n \in 0..Longest}]

\* An ideal checksum: no two sequences of cells have the same.
crc32c(cells) ==
  LET Crc[i \in 0..Len(cells)] == IF i = 0 THEN 1 ELSE 8 * Crc[i - 1] + cells[i]
  IN Crc[Len(cells)]

\* Mutant: the checksum covers the payload only.
Checksum_payload(header, payload) == crc32c(payload)

Checksum(header, payload) == crc32c(header \o payload)

encode_frame(f) ==
  LET header == <<FrameMagic, ProtocolVersion, f.type, Len(f.payload)>>
  IN header \o <<Checksum(header, f.payload)>> \o f.payload

\* The cells of these frames, one after the other.
Stream(frames) ==
  LET Written[i \in 0..Len(frames)] == IF i = 0 THEN << >> ELSE Written[i - 1] \o encode_frame(frames[i])
  IN Written[Len(frames)]

Init ==
  /\ sent = << >> /\ wire = << >> /\ buffer = << >> /\ failed = FALSE /\ decoding = FALSE
  /\ delivered = << >> /\ damaged = 0 /\ held = FALSE

-----------------------------------------------------------------------------

\* A frame beyond the bound is refused by encode_frame and never sent.
Send(f) ==
  /\ Len(sent) < MaxSent
  /\ Len(f.payload) <= MaxPayload
  /\ sent' = Append(sent, f)
  /\ wire' = wire \o encode_frame(f)
  /\ UNCHANGED <<buffer, failed, decoding, delivered, damaged, held>>

\* One cell of the stream changes on its way.
Damage(i, cell) ==
  /\ damaged = 0
  /\ i \in DOMAIN wire /\ wire[i] # cell
  /\ wire' = [wire EXCEPT ![i] = cell]
  /\ damaged' = Len(Stream(sent)) - Len(wire) + i
  /\ UNCHANGED <<sent, buffer, failed, decoding, delivered, held>>

\* The frame at the head of the buffer, as far as next() can tell.
HasHeader == Len(buffer) >= HeaderCells

\* Mutant: a frame is complete when the next one has begun.
HasFrame_strict == HasHeader /\ Len(buffer) > HeaderCells + buffer[4]

HasFrame == HasHeader /\ Len(buffer) >= HeaderCells + buffer[4]

Bound == MaxPayload + HeaderCells

\* Mutant: off by one, a full buffer is refused.
Exceeds_early(n) == Len(buffer) + n >= Bound

\* Mutant: off by one, the buffer outgrows its bound.
Exceeds_late(n) == Len(buffer) + n > Bound + 1

Exceeds(n) == Len(buffer) + n > Bound

Push(n) ==
  LET chunk == SubSeq(wire, 1, n) IN
  /\ ~failed /\ ~decoding
  /\ n <= Len(wire)
  /\ wire' = SubSeq(wire, n + 1, Len(wire))
  /\ IF Exceeds(n)
     THEN failed' = TRUE /\ UNCHANGED <<buffer, decoding>>
     ELSE buffer' = buffer \o chunk /\ decoding' = TRUE /\ UNCHANGED failed
  /\ held' = (held \/ HasFrame)
  /\ UNCHANGED <<sent, delivered, damaged>>

\* The header at the head of the buffer cannot be believed; the declared length
\* is bounded before it is used.
BadHeader ==
  \/ buffer[1] # FrameMagic
  \/ buffer[2] # ProtocolVersion
  \/ buffer[4] > MaxPayload

BadChecksum ==
  buffer[5] # Checksum(SubSeq(buffer, 1, 4), SubSeq(buffer, 6, HeaderCells + buffer[4]))

NextFails ==
  /\ decoding /\ ~failed /\ HasHeader
  /\ BadHeader \/ (HasFrame /\ BadChecksum)
  /\ failed' = TRUE /\ decoding' = FALSE
  /\ UNCHANGED <<sent, wire, buffer, delivered, damaged, held>>

\* After any frame the reader may have had enough.
NextFrame ==
  LET total == HeaderCells + buffer[4] IN
  /\ decoding /\ ~failed /\ HasHeader
  /\ ~BadHeader /\ HasFrame /\ ~BadChecksum
  /\ delivered' = Append(delivered, [type    |-> buffer[3],
                                     payload |-> SubSeq(buffer, HeaderCells + 1, total)])
  /\ buffer' = SubSeq(buffer, total + 1, Len(buffer))
  /\ decoding' \in BOOLEAN
  /\ UNCHANGED <<sent, wire, failed, damaged, held>>

\* not_found: the frame is incomplete, and the reader goes back to its socket.
NextNotFound ==
  /\ decoding /\ ~failed
  /\ HasHeader => ~BadHeader /\ ~HasFrame
  /\ decoding' = FALSE
  /\ UNCHANGED <<sent, wire, buffer, failed, delivered, damaged, held>>

\* The peer connects again: the decoder is reset with the new socket.
Reconnect ==
  /\ sent # << >>
  /\ sent' = << >> /\ wire' = << >> /\ buffer' = << >> /\ failed' = FALSE /\ decoding' = FALSE
  /\ delivered' = << >> /\ damaged' = 0 /\ held' = FALSE

Decode == (\E n \in 1..MaxChunk : Push(n)) \/ NextFails \/ NextFrame \/ NextNotFound

Next ==
  \/ \E f \in Frames : Send(f)
  \/ \E i \in 1..(MaxSent * Bound), cell \in Cells : Damage(i, cell)
  \/ Decode
  \/ Reconnect

\* The reader receives as long as its socket is readable and makes its calls of
\* next() to the end, as run_once does, called in a loop.
Spec == Init /\ [][Next]_vars /\ WF_vars(Decode)

-----------------------------------------------------------------------------
(* Properties *)

\* Every variable has its type, and the buffer stays within its bound.
TypeOK ==
  /\ sent \in Seq(Frames) /\ wire \in Seq(Nat) /\ buffer \in Seq(Nat)
  /\ failed \in BOOLEAN /\ decoding \in BOOLEAN /\ held \in BOOLEAN
  /\ damaged \in 0..(MaxSent * Bound)
  /\ Len(buffer) <= Bound

\* However the stream was split, joined and damaged, next() has returned frames
\* that were sent, in their order and without a gap, and none that a damaged cell
\* is part of or precedes.
DeliversPrefix ==
  /\ IsPrefix(delivered, sent)
  /\ damaged # 0 => Len(Stream(delivered)) < damaged

\* A frame of any length that is sent has room in the buffer together with a
\* full receive buffer.
Roomy == (HeaderCells + Longest - 1) + MaxChunk <= Bound

\* README: malformed, truncated, oversized and checksum-failing frames are
\* refused.  No others are, wherever the stream is split, if the reader decodes
\* what it has before it pushes more and a receive buffer fits beside the longest
\* frame that is still incomplete.
LegalAccepted == Roomy /\ damaged = 0 /\ ~held => ~failed

\* The reader has stopped with a whole frame in its decoder, and nothing comes
\* that would make it look there again.
Stalled == wire = << >> /\ ~decoding /\ HasFrame

\* What was sent on an undamaged connection arrives in full: frames that a reader
\* has left in its decoder are decoded with the next ones, unless the peer falls
\* silent behind them or the decoder's bound was exceeded.
Arrives ==
  \A n \in 1..MaxSent :
    (Len(sent) = n) ~> (Len(delivered) >= n \/ damaged # 0 \/ failed \/ Stalled \/ sent = << >>)
=============================================================================
