------------------------------ MODULE FrameDecoder ------------------------------
(***************************************************************************)
(* protocol::encode_frame and protocol::FrameDecoder: frames in a stream   *)
(* of bytes that arrives in pieces of any size.  A header has two bytes    *)
(* here: a mark, which stands for magic, version, type and flags, and the  *)
(* size of the payload.                                                    *)
(***************************************************************************)
EXTENDS Naturals, Sequences

CONSTANTS
    kMaxPayloadSize,    \* largest payload a header may declare
    StreamLength        \* bound on the bytes of a stream

ASSUME Limits == kMaxPayloadSize \in Nat /\ StreamLength \in Nat

kHeaderSize == 2
kMagic == 0
Byte == 0..(kMaxPayloadSize + 1)

VARIABLES
    stream,     \* what the peer sends
    pushed,     \* how much of it has been pushed
    decoder,    \* the FrameDecoder
    returned    \* the payloads of the frames that push returned

streamVars == <<stream, pushed, decoder, returned>>

NewDecoder == [buffer_ |-> <<>>, offset_ |-> 0, failed_ |-> FALSE]

StreamInit ==
    /\ stream \in UNION {[1..n -> Byte] : n \in 0..StreamLength}
    /\ pushed = 0
    /\ decoder = NewDecoder
    /\ returned = <<>>

(* encode_frame.  It throws, and writes nothing, for a payload above the   *)
(* limit; the mark stands for a known type without flags, the only frames  *)
(* the two controllers make.                                               *)
encode_frame(payload) ==
    IF Len(payload) > kMaxPayloadSize THEN <<>> ELSE <<kMagic, Len(payload)>> \o payload

(* One round of the loop of push, on the frames so far, the offset and     *)
(* whether a header was refused; a loop that has ended stays as it is.     *)
Round(buffer, s) ==
    LET left == Len(buffer) - s.offset
        size == buffer[s.offset + 2]
    IN  IF s.failed \/ left < kHeaderSize THEN s
        ELSE IF buffer[s.offset + 1] # kMagic \/ size > kMaxPayloadSize THEN [s EXCEPT !.failed = TRUE]
        ELSE IF left < kHeaderSize + size THEN s
        ELSE [frames |-> Append(s.frames, SubSeq(buffer, s.offset + kHeaderSize + 1,
                                                         s.offset + kHeaderSize + size)),
              offset |-> s.offset + kHeaderSize + size, failed |-> FALSE]

(* The whole loop.  No round that goes on consumes nothing, so it has no   *)
(* more rounds than there are bytes.                                       *)
Scan(buffer) ==
    LET after[n \in 0..Len(buffer)] ==
            IF n = 0 THEN [frames |-> <<>>, offset |-> 0, failed |-> FALSE]
            ELSE Round(buffer, after[n - 1])
    IN  after[Len(buffer)]

\* Mutant: the consumed bytes are only dropped when the buffer is used up.
PushWithoutErase(d, data) ==
    LET buffer == d.buffer_ \o data
        scan == Scan(buffer)
        done == scan.offset = Len(buffer)
    IN  IF d.failed_ THEN [decoder |-> d, frames |-> <<>>]
        ELSE IF scan.failed THEN [decoder |-> [d EXCEPT !.failed_ = TRUE], frames |-> <<>>]
        ELSE [decoder |-> [buffer_ |-> IF done THEN <<>> ELSE buffer,
                           offset_ |-> IF done THEN 0 ELSE scan.offset, failed_ |-> FALSE],
              frames |-> scan.frames]

(* push drops the consumed bytes, adds the new ones and scans.  When a     *)
(* header is refused it throws: the frames before it, if they came in the  *)
(* same call, are lost with it.                                            *)
push(d, data) ==
    LET buffer == SubSeq(d.buffer_, d.offset_ + 1, Len(d.buffer_)) \o data
        scan == Scan(buffer)
        done == scan.offset = Len(buffer)
    IN  IF d.failed_ THEN [decoder |-> d, frames |-> <<>>]
        ELSE IF scan.failed
        THEN [decoder |-> [buffer_ |-> buffer, offset_ |-> scan.offset, failed_ |-> TRUE],
              frames |-> <<>>]
        ELSE [decoder |-> [buffer_ |-> IF done THEN <<>> ELSE buffer,
                           offset_ |-> IF done THEN 0 ELSE scan.offset, failed_ |-> FALSE],
              frames |-> scan.frames]

Arrive(n) ==
    /\ pushed + n <= Len(stream)
    /\ LET r == push(decoder, SubSeq(stream, pushed + 1, pushed + n))
       IN  decoder' = r.decoder /\ returned' = returned \o r.frames
    /\ pushed' = pushed + n
    /\ UNCHANGED stream

(* reset: the decoder starts afresh with the rest of the stream.           *)
reset ==
    /\ decoder' = NewDecoder
    /\ stream' = SubSeq(stream, pushed + 1, Len(stream))
    /\ pushed' = 0
    /\ returned' = <<>>

StreamNext == reset \/ \E n \in 0..StreamLength : Arrive(n)

StreamSpec == StreamInit /\ [][StreamNext]_streamVars
-------------------------------------------------------------------------------
(* The reference: one byte at a time, with the bytes of the frame so far.  *)
Read(r, byte) ==
    LET frame == Append(r.frame, byte)
        refused == \/ Len(frame) = 2 /\ (frame[1] # kMagic \/ frame[2] > kMaxPayloadSize)
        whole == Len(frame) >= 2 /\ Len(frame) = 2 + frame[2]
    IN  IF r.failed THEN r
        ELSE [failed |-> refused,
              frame |-> IF whole /\ ~refused THEN <<>> ELSE frame,
              frames |-> IF whole /\ ~refused THEN Append(r.frames, SubSeq(frame, 3, Len(frame)))
                         ELSE r.frames]

(* What it has after each number of bytes.                                 *)
Reference(bytes) ==
    LET at[n \in 0..Len(bytes)] ==
            IF n = 0 THEN [failed |-> FALSE, frame |-> <<>>, frames |-> <<>>]
            ELSE Read(at[n - 1], bytes[n])
    IN  at

(* However the stream is cut into reads, push returns the frames that a    *)
(* reader of single bytes finds, in order and each once.  It fails exactly *)
(* on a bad header, as soon as the header is there and without waiting for *)
(* a payload, and then for good, with at most the frames before it.  What  *)
(* encode_frame produces is what comes out, and a working decoder keeps    *)
(* less than one frame of the largest size.                                *)
DecodesStream ==
    LET r == Reference(stream)[pushed]
        payloads == UNION {[1..n -> Byte] : n \in 0..kMaxPayloadSize}
    IN  /\ decoder.failed_ <=> r.failed
        /\ returned = IF r.failed THEN SubSeq(r.frames, 1, Len(returned)) ELSE r.frames
        /\ ~decoder.failed_ => Len(decoder.buffer_) - decoder.offset_ < kHeaderSize + kMaxPayloadSize
        /\ \A p, q \in payloads :
              (pushed = Len(stream) /\ stream = encode_frame(p) \o encode_frame(q))
                 => returned = <<p, q>> /\ ~decoder.failed_
===============================================================================
