----------------------------- MODULE FrameProofs -----------------------------
(***************************************************************************)
(* The frames of one connection, in either direction and at either end:    *)
(* the queue of frames to write and their numbering, for any limits, and   *)
(* the decoder of the bytes that are read, for any stream cut in any way.  *)
(***************************************************************************)
EXTENDS OutboundFrameQueue, FrameDecoder, SequenceTheorems, WellFoundedInduction, TLAPS

USE QueueConstants

Kinds == {"HELLO", "IP_ASSIGN", "DATA", "PING", "PONG", "ERROR", "CLOSE"}
Outbound == [kind : Kinds, seq : Nat, size : Nat]
Streams == Seq(Outbound)                      \* frames in a queue or on the wire
Queues == [queue_ : Streams, queued_bytes_ : Nat]

(* The bytes of the frames from each position of a queue to its end add up *)
(* to the bytes that the queue accounts for.                               *)
Accounted(q) ==
    \E rest \in [1..(Len(q.queue_) + 1) -> Nat] :
        /\ rest[Len(q.queue_) + 1] = 0
        /\ \A i \in 1..Len(q.queue_) : rest[i] = q.queue_[i].size + rest[i + 1]
        /\ q.queued_bytes_ = rest[1]

Limited(q) == Len(q.queue_) <= maximum_frames_ /\ q.queued_bytes_ <= maximum_bytes_

(* Frames are numbered one after the other, beginning with n.              *)
NumberedFrom(queue, n) == \A i \in 1..Len(queue) : queue[i].seq = n + i - 1

(* What was numbered, beginning with first, is on the wire or in the queue. *)
Numbered(sent, q, first, next) ==
    /\ NumberedFrom(sent, first) /\ NumberedFrom(q.queue_, first + Len(sent))
    /\ next = first + Len(sent) + Len(q.queue_)
-------------------------------------------------------------------------------
(* Induction over the natural numbers, for a set.                          *)
LEMMA SetInduction ==
    ASSUME NEW T \in SUBSET Nat, 0 \in T, \A n \in T : n + 1 \in T
    PROVE  T = Nat
PROOF
<1> SUFFICES ASSUME Nat \ T # {} PROVE FALSE
    BY Zenon
<1> DEFINE less == OpToRel(<, Nat)
<1>1. IsWellFoundedOn(less, Nat)
    BY NatLessThanWellFounded, Zenon
<1>2. \A a, b \in Nat : <<b, a>> \notin less => a <= b
    BY DEF OpToRel
<1> HIDE DEF less
<1>3. PICK x \in Nat \ T : \A y \in Nat \ T : <<y, x>> \notin less
    BY <1>1, WFMin, Zenon
<1>4. \A y \in Nat \ T : x <= y
    BY <1>2, <1>3, Zenon
<1>5. x # 0 /\ x - 1 \in Nat /\ ~(x <= x - 1)
    OBVIOUS
<1>6. x - 1 \in T
    BY <1>4, <1>5
<1>7. (x - 1) + 1 = x
    BY <1>3
<1> QED BY <1>6, <1>7

(* f has the state before and after each of the N rounds of a loop.        *)
IsRun(f, Sound, s, N, body) ==
    f \in [0..N -> Sound] /\ f[0] = s /\ \A m \in 1..N : f[m] = body[m][f[m - 1]]

(* A loop whose body keeps a set runs through for every number of rounds.  *)
LEMMA LoopExists ==
    ASSUME NEW Sound, NEW s \in Sound, NEW N \in Nat, NEW body \in [1..N -> [Sound -> Sound]]
    PROVE  \E f : IsRun(f, Sound, s, N, body)
PROOF
<1> DEFINE Run(f, n) == f[0] = s /\ \A m \in 1..n : f[m] = body[m][f[m - 1]]
           T == {n \in Nat : n <= N => \E f \in [0..n -> Sound] : Run(f, n)}
<1>1. 0 \in T
    <2> DEFINE f == [m \in 0..0 |-> s]
    <2>1. f \in [0..0 -> Sound] /\ Run(f, 0)
        OBVIOUS
    <2> QED BY <2>1, Zenon
<1>2. ASSUME NEW n \in T PROVE n + 1 \in T
    <2>1. n \in Nat /\ n + 1 \in Nat
        OBVIOUS
    <2> SUFFICES ASSUME n + 1 <= N PROVE \E g \in [0..(n + 1) -> Sound] : Run(g, n + 1)
        BY <2>1
    <2>2. n <= N /\ n \in 0..n /\ n + 1 \in 1..N
        BY <2>1
    <2>3. PICK f \in [0..n -> Sound] : Run(f, n)
        BY <2>2
    <2> DEFINE next == body[n + 1][f[n]]
               g == [m \in 0..(n + 1) |-> IF m \in 0..n THEN f[m] ELSE next]
    <2>4. next \in Sound
        BY <2>2, <2>3
    <2>5. g \in [0..(n + 1) -> Sound]
        BY <2>3, <2>4
    <2>6. (\A m \in 0..n : g[m] = f[m]) /\ g[n + 1] = next
        BY <2>1
    <2>7. \A m \in 1..(n + 1) : \/ m \in 1..n /\ m \in 0..n /\ m - 1 \in 0..n
                                \/ m = n + 1 /\ m - 1 = n
        BY <2>1
    <2>8. 0 \in 0..n
        BY <2>1
    <2> HIDE DEF g
    <2>9. Run(g, n + 1)
        BY <2>2, <2>3, <2>6, <2>7, <2>8
    <2> QED BY <2>5, <2>9
<1>3. T = Nat
    <2> HIDE DEF T
    <2>1. T \in SUBSET Nat
        BY DEF T
    <2> QED BY <1>1, <1>2, <2>1, SetInduction
<1> QED BY <1>3 DEF IsRun

(* What the body of a loop keeps, the loop keeps.                          *)
LEMMA LoopKeeps ==
    ASSUME NEW Sound, NEW N \in Nat, NEW f, f[0] \in Sound,
           \A m \in 1..N : f[m - 1] \in Sound => f[m] \in Sound
    PROVE  f[N] \in Sound
PROOF
<1> DEFINE T == {n \in Nat : n <= N => f[n] \in Sound}
<1>1. 0 \in T
    OBVIOUS
<1>2. ASSUME NEW n \in T PROVE n + 1 \in T
    <2>1. n + 1 <= N => n <= N /\ n + 1 \in 1..N /\ (n + 1) - 1 = n
        OBVIOUS
    <2> QED BY <2>1
<1>3. T = Nat
    <2> HIDE DEF T
    <2>1. T \in SUBSET Nat
        BY DEF T
    <2> QED BY <1>1, <1>2, <2>1, SetInduction
<1> QED BY <1>3
-------------------------------------------------------------------------------
(* A queue without frames.                                                 *)
LEMMA EmptyFacts == EmptyQueue \in Queues /\ Accounted(EmptyQueue) /\ Limited(EmptyQueue)
PROOF
<1>1. <<>> \in Seq(Outbound) /\ Len(<<>>) = 0
    OBVIOUS
<1>2. EmptyQueue \in Queues
    BY <1>1 DEF EmptyQueue, Queues, Streams
<1>3. Limited(EmptyQueue)
    BY <1>1 DEF EmptyQueue, Limited
<1> DEFINE rest == [i \in 1..(0 + 1) |-> 0]
<1>4. rest \in [1..(0 + 1) -> Nat] /\ rest[0 + 1] = 0 /\ rest[1] = 0 /\ 1..0 = {}
    OBVIOUS
<1> HIDE DEF rest
<1>5. EmptyQueue.queue_ = <<>> /\ EmptyQueue.queued_bytes_ = 0
    BY DEF EmptyQueue
<1>6. Accounted(EmptyQueue)
    BY <1>1, <1>4, <1>5 DEF Accounted
<1> QED BY <1>2, <1>3, <1>6

(* The queue: a frame that is accepted is the last one and both limits     *)
(* hold; one that is refused changes nothing.                              *)
LEMMA EnqueueFacts ==
    ASSUME NEW q \in Queues, Accounted(q), Limited(q), NEW frame \in Outbound
    PROVE  LET r == try_enqueue(q, frame)
           IN  /\ r.ok \in BOOLEAN /\ r.queue \in Queues /\ Accounted(r.queue) /\ Limited(r.queue)
               /\ r.ok => r.queue.queue_ = Append(q.queue_, frame)
               /\ ~r.ok => r.queue = q
PROOF
<1> DEFINE r == try_enqueue(q, frame)
<1>1. q.queue_ \in Seq(Outbound) /\ q.queued_bytes_ \in Nat /\ frame.size \in Nat
    BY DEF Queues, Streams, Outbound
<1>2. CASE Len(q.queue_) >= maximum_frames_ \/ frame.size > maximum_bytes_ - q.queued_bytes_
    BY <1>2 DEF try_enqueue
<1>3. CASE ~(Len(q.queue_) >= maximum_frames_ \/ frame.size > maximum_bytes_ - q.queued_bytes_)
    <2> DEFINE longer == Append(q.queue_, frame)
               bytes == q.queued_bytes_ + frame.size
               n == Len(q.queue_)
    <2>1. r.ok = TRUE /\ r.queue = [queue_ |-> longer, queued_bytes_ |-> bytes]
        BY <1>3 DEF try_enqueue
    <2>2. longer \in Seq(Outbound) /\ Len(longer) = n + 1 /\ n \in Nat /\ bytes \in Nat
        BY <1>1
    <2>3. \A i \in 1..n : longer[i] = q.queue_[i]
        BY <1>1
    <2>4. longer[n + 1] = frame
        BY <1>1
    <2>5. n + 1 <= maximum_frames_ /\ bytes <= maximum_bytes_
        BY <1>1, <1>3, <2>2
    <2>6. PICK rest \in [1..(n + 1) -> Nat] :
              /\ rest[n + 1] = 0
              /\ \A i \in 1..n : rest[i] = q.queue_[i].size + rest[i + 1]
              /\ q.queued_bytes_ = rest[1]
        BY DEF Accounted
    <2>7. \A i \in 1..n : q.queue_[i].size \in Nat
        <3>1. \A i \in 1..n : q.queue_[i] \in Outbound
            BY <1>1
        <3> QED BY <3>1 DEF Outbound
    <2> HIDE DEF longer, n
    <2> DEFINE more == [i \in 1..(n + 2) |-> IF i = n + 2 THEN 0 ELSE rest[i] + frame.size]
    <2>8. more \in [1..(n + 2) -> Nat] /\ more[n + 2] = 0
        <3>1. n + 2 \in 1..(n + 2) /\ \A i \in 1..(n + 2) : i # n + 2 => i \in 1..(n + 1)
            BY <2>2
        <3>2. \A i \in 1..(n + 1) : rest[i] + frame.size \in Nat
            BY <1>1, <2>6
        <3> QED BY <3>1, <3>2
    <2>9. \A i \in 1..(n + 1) : more[i] = rest[i] + frame.size /\ rest[i] \in Nat
        BY <2>2
    <2> HIDE DEF more
    <2>10. ASSUME NEW i \in 1..(n + 1) PROVE more[i] = longer[i].size + more[i + 1]
        <3>1. CASE i = n + 1
            <4>1. more[i] = 0 + frame.size /\ more[i + 1] = 0
                BY <2>2, <2>6, <2>8, <2>9, <3>1
            <4> QED BY <1>1, <2>4, <3>1, <4>1
        <3>2. CASE i # n + 1
            <4>1. i \in 1..n /\ i + 1 \in 1..(n + 1)
                BY <2>2, <3>2
            <4>2. longer[i].size = q.queue_[i].size /\ rest[i] = q.queue_[i].size + rest[i + 1]
                BY <2>3, <2>6, <4>1
            <4>3. more[i] = rest[i] + frame.size /\ more[i + 1] = rest[i + 1] + frame.size
                  /\ rest[i + 1] \in Nat /\ q.queue_[i].size \in Nat
                BY <2>7, <2>9, <4>1
            <4> QED BY <1>1, <4>2, <4>3
        <3> QED BY <3>1, <3>2
    <2>11. bytes = more[1]
        <3>1. 1 \in 1..(n + 1)
            BY <2>2
        <3> QED BY <2>6, <2>9, <3>1
    <2>12. r.queue.queue_ = longer /\ r.queue.queued_bytes_ = bytes
        BY <2>1
    <2> HIDE DEF bytes, r
    <2>13. Accounted(r.queue)
        <3>1. Len(longer) + 1 = n + 2
            BY <2>2
        <3> QED BY <2>2, <2>8, <2>10, <2>11, <2>12, <3>1, Zenon DEF Accounted
    <2>14. r.queue \in Queues
        BY <2>1, <2>2 DEF Queues, Streams
    <2> QED BY <2>1, <2>2, <2>5, <2>12, <2>13, <2>14, Zenon DEF Limited, longer, r
<1> QED BY <1>2, <1>3

(* pop_front takes the first frame, and its bytes, away.                   *)
LEMMA PopFacts ==
    ASSUME NEW q \in Queues, Accounted(q), Limited(q), ~IsEmpty(q)
    PROVE  /\ pop_front(q) \in Queues /\ Accounted(pop_front(q)) /\ Limited(pop_front(q))
           /\ pop_front(q).queue_ = Tail(q.queue_) /\ front(q) = q.queue_[1] /\ front(q) \in Outbound
           /\ Len(q.queue_) \in Nat \ {0}
PROOF
<1> DEFINE p == pop_front(q)
           n == Len(q.queue_)
<1>1. q.queue_ \in Seq(Outbound) /\ q.queued_bytes_ \in Nat /\ q.queue_ # <<>>
    BY DEF Queues, Streams, IsEmpty
<1>2. front(q) = q.queue_[1] /\ front(q) \in Outbound /\ n \in Nat \ {0}
    BY <1>1 DEF front
<1>3. /\ Tail(q.queue_) \in Seq(Outbound) /\ Len(Tail(q.queue_)) = n - 1
      /\ \A i \in 1..(n - 1) : Tail(q.queue_)[i] = q.queue_[i + 1]
    BY <1>1
<1>4. PICK rest \in [1..(n + 1) -> Nat] :
          /\ rest[n + 1] = 0
          /\ \A i \in 1..n : rest[i] = q.queue_[i].size + rest[i + 1]
          /\ q.queued_bytes_ = rest[1]
    BY DEF Accounted
<1>5. p.queue_ = Tail(q.queue_) /\ p.queued_bytes_ = q.queued_bytes_ - front(q).size
    BY DEF pop_front
<1>6. q.queued_bytes_ - front(q).size = rest[2] /\ rest[2] \in Nat /\ rest[2] <= q.queued_bytes_
    <2>1. 1 \in 1..n /\ 2 \in 1..(n + 1) /\ front(q).size \in Nat
        BY <1>2 DEF Outbound
    <2>2. rest[1] = front(q).size + rest[2] /\ rest[2] \in Nat
        BY <1>2, <1>4, <2>1
    <2> QED BY <1>4, <2>1, <2>2
<1>7. p \in Queues
    BY <1>3, <1>6 DEF Queues, Streams, pop_front
<1> HIDE DEF n, p
<1>8. Accounted(p)
    <2> DEFINE less == [i \in 1..n |-> rest[i + 1]]
    <2>1. less \in [1..((n - 1) + 1) -> Nat]
        BY <1>2
    <2>2. less[(n - 1) + 1] = 0
        BY <1>2, <1>4
    <2>3. \A i \in 1..(n - 1) : less[i] = Tail(q.queue_)[i].size + less[i + 1]
        <3> TAKE i \in 1..(n - 1)
        <3>1. i \in 1..n /\ i + 1 \in 1..n
            BY <1>2
        <3> QED BY <1>3, <1>4, <3>1
    <2>4. p.queued_bytes_ = less[1]
        BY <1>2, <1>5, <1>6
    <2> HIDE DEF less
    <2> QED BY <1>3, <1>5, <2>1, <2>2, <2>3, <2>4, Zenon DEF Accounted
<1>9. Limited(p)
    BY <1>1, <1>2, <1>3, <1>5, <1>6 DEF Limited, n
<1> QED BY <1>2, <1>5, <1>7, <1>8, <1>9 DEF p, n

(* make_outbound gives the next number to the frame that is queued.        *)
LEMMA NumberedAppend ==
    ASSUME NEW sent \in Streams, NEW q \in Queues, NEW r \in Queues, NEW first \in Nat, NEW next \in Nat,
           NEW frame \in Outbound, Numbered(sent, q, first, next), frame.seq = next,
           r.queue_ = Append(q.queue_, frame)
    PROVE  Numbered(sent, r, first, next + 1)
PROOF
<1> DEFINE n == Len(q.queue_)
           w == first + Len(sent)
<1>1. q.queue_ \in Seq(Outbound) /\ n \in Nat /\ w \in Nat
    BY DEF Queues, Streams
<1>2. /\ Len(r.queue_) = n + 1 /\ r.queue_[n + 1] = frame
      /\ \A i \in 1..n : r.queue_[i] = q.queue_[i]
    BY <1>1
<1>3. next = w + n /\ \A i \in 1..n : q.queue_[i].seq = w + i - 1
    BY DEF Numbered, NumberedFrom
<1> HIDE DEF n, w
<1>4. ASSUME NEW i \in 1..(n + 1) PROVE r.queue_[i].seq = w + i - 1
    <2>1. CASE i = n + 1
        BY <1>1, <1>2, <1>3, <2>1
    <2>2. CASE i # n + 1
        <3>1. i \in 1..n
            BY <1>1, <2>2
        <3> QED BY <1>2, <1>3, <3>1
    <2> QED BY <2>1, <2>2, Zenon
<1>5. NumberedFrom(r.queue_, w)
    BY <1>2, <1>4, Zenon DEF NumberedFrom
<1>6. next + 1 = w + Len(r.queue_)
    BY <1>1, <1>2, <1>3
<1> QED BY <1>5, <1>6, Zenon DEF Numbered, w

(* The frame that was written is the next one of the wire.                 *)
LEMMA NumberedPop ==
    ASSUME NEW sent \in Streams, NEW q \in Queues, NEW p \in Queues, NEW first \in Nat, NEW next \in Nat,
           Numbered(sent, q, first, next), ~IsEmpty(q), p.queue_ = Tail(q.queue_),
           q.queue_[1] \in Outbound
    PROVE  /\ Append(sent, q.queue_[1]) \in Streams
           /\ Numbered(Append(sent, q.queue_[1]), p, first, next)
PROOF
<1> DEFINE n == Len(q.queue_)
           w == Len(sent)
           longer == Append(sent, q.queue_[1])
<1>1. /\ q.queue_ \in Seq(Outbound) /\ sent \in Seq(Outbound) /\ q.queue_ # <<>>
      /\ n \in Nat \ {0} /\ w \in Nat
    BY DEF Queues, Streams, IsEmpty
<1>2. Len(p.queue_) = n - 1 /\ \A i \in 1..(n - 1) : p.queue_[i] = q.queue_[i + 1]
    BY <1>1
<1>3. /\ longer \in Seq(Outbound) /\ Len(longer) = w + 1 /\ longer[w + 1] = q.queue_[1]
      /\ \A i \in 1..w : longer[i] = sent[i]
    BY <1>1
<1>4. /\ next = first + w + n /\ \A i \in 1..n : q.queue_[i].seq = (first + w) + i - 1
      /\ \A i \in 1..w : sent[i].seq = first + i - 1
    BY DEF Numbered, NumberedFrom
<1> HIDE DEF n, w, longer
<1>5. ASSUME NEW i \in 1..(w + 1) PROVE longer[i].seq = first + i - 1
    <2>1. CASE i = w + 1
        <3>1. q.queue_[1].seq = (first + w) + 1 - 1
            BY <1>1, <1>4
        <3> QED BY <1>1, <1>3, <2>1, <3>1
    <2>2. CASE i # w + 1
        <3>1. i \in 1..w
            BY <1>1, <2>2
        <3> QED BY <1>3, <1>4, <3>1
    <2> QED BY <2>1, <2>2
<1>6. ASSUME NEW i \in 1..(n - 1) PROVE p.queue_[i].seq = (first + (w + 1)) + i - 1
    <2>1. i + 1 \in 1..n /\ (first + w) + (i + 1) - 1 = (first + (w + 1)) + i - 1
        BY <1>1
    <2> QED BY <1>2, <1>4, <2>1
<1>7. next = first + (w + 1) + (n - 1)
    BY <1>1, <1>4
<1> QED BY <1>2, <1>3, <1>5, <1>6, <1>7, Zenon DEF Numbered, NumberedFrom, longer, Streams

(* A counter that grows stays a number.                                    *)
LEMMA Successor == \A n \in Nat : n + 1 \in Nat
PROOF OBVIOUS
-------------------------------------------------------------------------------
HIDE QueueConstants

(* The decoder of frames.  The reader of single bytes has a record of      *)
(* these; between two frames it has nothing of the next.                   *)
Payloads == Seq(Byte)
ReaderStates == [failed : BOOLEAN, frame : Payloads, frames : Seq(Payloads)]
Fresh(fs) == [failed |-> FALSE, frame |-> <<>>, frames |-> fs]

(* The header behind the first c bytes is accepted; k bytes behind them do *)
(* not show a bad header and are less than a frame.                        *)
HeaderGood(data, c) == data[c + 1] = kMagic /\ data[c + 2] <= kMaxPayloadSize
Inside(data, c, k) == k < 2 \/ (HeaderGood(data, c) /\ k < 2 + data[c + 2])

(* A reader has j bytes of the frame behind the first c bytes.             *)
Partial(data, c, fs, j, r) ==
    /\ r.failed = FALSE /\ r.frames = fs /\ Len(r.frame) = j
    /\ \A i \in 1..j : r.frame[i] = data[c + i]

(* Bytes are numbers.                                                      *)
LEMMA ByteFacts == Byte \subseteq Nat /\ kMaxPayloadSize \in Nat /\ kMagic \in Byte
PROOF BY Limits DEF Byte, kMagic

(* What a part of a sequence has.                                          *)
LEMMA PartFacts ==
    ASSUME NEW S, NEW q \in Seq(S), NEW low \in Nat \ {0}, NEW high \in Nat, high <= Len(q), low <= high + 1
    PROVE  /\ SubSeq(q, low, high) \in Seq(S) /\ Len(SubSeq(q, low, high)) = high - low + 1
           /\ \A i \in 1..(high - low + 1) : SubSeq(q, low, high)[i] = q[low + i - 1]
PROOF
<1>1. \A i \in low..high : i \in 1..Len(q)
    BY LenProperties
<1>2. \A i \in low..high : q[i] \in S
    BY <1>1, ElementOfSeq, Zenon
<1>3. low \in Int /\ high \in Int
    OBVIOUS
<1>4. /\ SubSeq(q, low, high) \in Seq(S)
      /\ Len(SubSeq(q, low, high)) = IF low <= high THEN high - low + 1 ELSE 0
      /\ \A i \in 1..(high - low + 1) : SubSeq(q, low, high)[i] = q[low + i - 1]
    BY ONLY <1>2, <1>3, SubSeqProperties
<1>5. (IF low <= high THEN high - low + 1 ELSE 0) = high - low + 1
    OBVIOUS
<1> QED BY <1>4, <1>5

(* One byte more.                                                          *)
LEMMA ReadFacts ==
    ASSUME NEW r \in ReaderStates, NEW byte \in Byte
    PROVE  /\ Read(r, byte) \in ReaderStates
           /\ r.failed => Read(r, byte) = r
PROOF
<1> DEFINE frame == Append(r.frame, byte)
           part == SubSeq(frame, 3, Len(frame))
<1>1. r.frame \in Seq(Byte) /\ r.frames \in Seq(Payloads) /\ r.failed \in BOOLEAN
    BY DEF ReaderStates, Payloads
<1>2. frame \in Seq(Byte) /\ Len(frame) \in Nat /\ <<>> \in Seq(Byte)
    BY <1>1, AppendProperties, LenProperties, EmptySeq
<1>3. Len(frame) >= 2 => part \in Seq(Byte)
    <2> HIDE DEF frame
    <2> QED BY <1>2, PartFacts
<1>4. Len(frame) >= 2 => Append(r.frames, part) \in Seq(Payloads)
    BY <1>1, <1>3, AppendProperties DEF Payloads
<1> HIDE DEF frame, part
<1>5. CASE r.failed
    BY <1>5 DEF Read
<1>6. CASE ~r.failed
    <2> DEFINE refused == \/ Len(frame) = 2 /\ (frame[1] # kMagic \/ frame[2] > kMaxPayloadSize)
               whole == Len(frame) >= 2 /\ Len(frame) = 2 + frame[2]
    <2>1. Read(r, byte) = [failed |-> refused,
                           frame |-> IF whole /\ ~refused THEN <<>> ELSE frame,
                           frames |-> IF whole /\ ~refused THEN Append(r.frames, part) ELSE r.frames]
        BY <1>6 DEF Read, frame, part
    <2>2. refused \in BOOLEAN /\ (whole => Len(frame) >= 2)
        OBVIOUS
    <2> HIDE DEF refused, whole
    <2>3. (IF whole /\ ~refused THEN <<>> ELSE frame) \in Seq(Byte)
        BY <1>2
    <2>4. (IF whole /\ ~refused THEN Append(r.frames, part) ELSE r.frames) \in Seq(Payloads)
        BY <1>1, <1>4, <2>2
    <2> QED BY <1>6, <2>1, <2>2, <2>3, <2>4 DEF ReaderStates, Payloads
<1> QED BY <1>5, <1>6

(* The reader of single bytes reads one after the other.                   *)
LEMMA ReferenceFacts ==
    ASSUME NEW data \in Payloads
    PROVE  /\ Reference(data)[0] = Fresh(<<>>)
           /\ \A n \in 0..Len(data) : Reference(data)[n] \in ReaderStates
           /\ \A n \in 1..Len(data) : Reference(data)[n] = Read(Reference(data)[n - 1], data[n])
PROOF
<1> DEFINE Sound == ReaderStates
           N == Len(data)
           s == Fresh(<<>>)
           step(u, m) == Read(u, data[m])
           body == [m \in 1..N |-> [u \in Sound |-> step(u, m)]]
           Loop(f) == f = [m \in 0..N |-> IF m = 0 THEN s ELSE step(f[m - 1], m)]
           at == CHOOSE f : Loop(f)
<1>1. s \in Sound /\ N \in Nat /\ \A m \in 1..N : data[m] \in Byte
    BY EmptySeq, LenProperties, ElementOfSeq DEF Fresh, ReaderStates, Payloads
<1>2. \A u \in Sound : \A m \in 1..N : step(u, m) \in Sound
    BY <1>1, ReadFacts
<1>3. Reference(data) = at
    BY DEF Reference, Fresh
<1> HIDE DEF Sound, N, step, s
<1>4. body \in [1..N -> [Sound -> Sound]]
    BY <1>2
<1>5. \A u \in Sound : \A m \in 1..N : body[m][u] = step(u, m)
    OBVIOUS
<1> HIDE DEF body
<1>6. PICK f : IsRun(f, Sound, s, N, body)
    BY <1>1, <1>4, LoopExists, Zenon
<1>7. f \in [0..N -> Sound] /\ f[0] = s /\ \A m \in 1..N : f[m] = body[m][f[m - 1]]
    BY <1>6 DEF IsRun
<1>8. \A m \in 0..N : m # 0 => m \in 1..N /\ m - 1 \in 0..N
    BY <1>1
<1>9. \A m \in 0..N : f[m] = IF m = 0 THEN s ELSE step(f[m - 1], m)
    BY <1>5, <1>7, <1>8
<1>10. Loop(f)
    BY <1>7, <1>9
<1>11. Loop(at)
    BY <1>10, Zenon
<1> HIDE DEF at
<1>12. 0 \in 0..N /\ \A m \in 1..N : m \in 0..N /\ m # 0
    BY <1>1
<1>13. at[0] = s /\ \A m \in 1..N : at[m] = step(at[m - 1], m)
    BY <1>11, <1>12, Zenon
<1>14. ASSUME NEW n \in 0..N PROVE at[n] \in Sound
    <2>1. n \in Nat /\ \A m \in 1..n : m \in 1..N
        BY <1>1
    <2>2. \A m \in 1..n : at[m - 1] \in Sound => at[m] \in Sound
        BY <1>2, <1>13, <2>1
    <2> QED BY <1>1, <1>13, <2>1, <2>2, LoopKeeps, Zenon
<1> QED BY <1>3, <1>13, <1>14 DEF Sound, N, s, step

(* A reader that has failed stays as it is.                                *)
LEMMA ReaderStays ==
    ASSUME NEW data \in Payloads, NEW n \in 0..Len(data), NEW m \in n..Len(data),
           Reference(data)[n].failed
    PROVE  Reference(data)[m] = Reference(data)[n]
PROOF
<1> DEFINE r == Reference(data)[n]
           f == [k \in 0..(m - n) |-> Reference(data)[n + k]]
           Sound == {r}
<1>1. Len(data) \in Nat /\ n \in Nat /\ m \in Nat /\ m - n \in Nat /\ n + (m - n) = m /\ n + 0 = n
    BY LenProperties DEF Payloads
<1>2. r \in ReaderStates
    BY ReferenceFacts
<1>3. ASSUME NEW k \in 1..(m - n), f[k - 1] \in Sound PROVE f[k] \in Sound
    <2>1. n + k \in 1..Len(data) /\ (n + k) - 1 = n + (k - 1) /\ k - 1 \in 0..(m - n) /\ k \in 0..(m - n)
        BY <1>1
    <2>2. Reference(data)[n + k] = Read(Reference(data)[n + (k - 1)], data[n + k])
        BY <2>1, ReferenceFacts
    <2>3. data[n + k] \in Byte
        BY <2>1, ElementOfSeq DEF Payloads
    <2>4. Reference(data)[n + (k - 1)] = r
        BY <1>3, <2>1
    <2>5. Read(r, data[n + k]) = r
        BY <1>2, <2>3, ReadFacts
    <2> QED BY <2>1, <2>2, <2>4, <2>5
<1>4. f[0] \in Sound /\ m - n \in 0..(m - n)
    BY <1>1
<1> HIDE DEF f, Sound
<1>5. f[m - n] \in Sound
    BY <1>1, <1>3, <1>4, LoopKeeps, Zenon
<1> QED BY <1>1, <1>4, <1>5 DEF f, Sound

(* A byte that completes nothing is kept.                                  *)
LEMMA ReadInside ==
    ASSUME NEW data \in Payloads, NEW c \in Nat, NEW fs, NEW j \in Nat, NEW r \in ReaderStates,
           Partial(data, c, fs, j, r), c + (j + 1) <= Len(data), Inside(data, c, j + 1)
    PROVE  Partial(data, c, fs, j + 1, Read(r, data[c + (j + 1)]))
PROOF
<1> DEFINE byte == data[c + (j + 1)]
           frame == Append(r.frame, byte)
           refused == \/ Len(frame) = 2 /\ (frame[1] # kMagic \/ frame[2] > kMaxPayloadSize)
           whole == Len(frame) >= 2 /\ Len(frame) = 2 + frame[2]
<1>1. Len(data) \in Nat /\ c + (j + 1) \in 1..Len(data)
    BY LenProperties DEF Payloads
<1>2. byte \in Byte /\ r.frame \in Seq(Byte)
    BY <1>1, ElementOfSeq DEF Payloads, ReaderStates
<1>3. Len(r.frame) = j /\ r.failed = FALSE /\ r.frames = fs
    BY DEF Partial
<1>4. /\ Len(frame) = j + 1 /\ frame[j + 1] = byte
      /\ \A i \in 1..j : frame[i] = r.frame[i]
    BY <1>2, <1>3, AppendProperties
<1> HIDE DEF frame
<1>5. ASSUME NEW i \in 1..(j + 1) PROVE frame[i] = data[c + i]
    <2>1. i \in 1..j \/ i = j + 1
        OBVIOUS
    <2> QED BY <1>4, <2>1 DEF Partial
<1>6. j + 1 >= 2 => /\ frame[1] = data[c + 1] /\ frame[2] = data[c + 2] /\ HeaderGood(data, c)
                    /\ j + 1 < 2 + data[c + 2] /\ data[c + 2] \in Nat
    <2> SUFFICES ASSUME j + 1 >= 2
                 PROVE  /\ frame[1] = data[c + 1] /\ frame[2] = data[c + 2] /\ HeaderGood(data, c)
                        /\ j + 1 < 2 + data[c + 2] /\ data[c + 2] \in Nat
        OBVIOUS
    <2>1. 1 \in 1..(j + 1) /\ 2 \in 1..(j + 1) /\ c + 2 \in 1..Len(data) /\ ~(j + 1 < 2)
        BY <1>1
    <2>2. data[c + 2] \in Nat
        BY <2>1, ElementOfSeq, ByteFacts DEF Payloads
    <2> QED BY <1>5, <2>1, <2>2 DEF Inside
<1>7. ~refused
    BY <1>4, <1>6, ByteFacts DEF HeaderGood
<1>8. ~whole
    BY <1>4, <1>6
<1> HIDE DEF refused, whole
<1>9. Read(r, byte) = [failed |-> FALSE, frame |-> frame, frames |-> fs]
    BY <1>3, <1>7, <1>8 DEF Read, frame, refused, whole
<1> QED BY <1>4, <1>5, <1>9 DEF Partial

(* Inside a frame the reader has what it read of it.                       *)
LEMMA ReaderInside ==
    ASSUME NEW data \in Payloads, NEW c \in Nat, NEW k \in Nat, c + k <= Len(data), NEW fs,
           Reference(data)[c] = Fresh(fs), Inside(data, c, k)
    PROVE  Partial(data, c, fs, k, Reference(data)[c + k])
PROOF
<1> DEFINE f == [j \in 0..k |-> <<j, Reference(data)[c + j]>>]
           Sound == {p \in Nat \X ReaderStates : Partial(data, c, fs, p[1], p[2])}
<1>1. Len(data) \in Nat /\ 0 \in 0..k /\ k \in 0..k /\ c + 0 = c /\ c \in 0..Len(data)
    BY LenProperties DEF Payloads
<1>2. f[0] \in Sound
    <2>1. Partial(data, c, fs, 0, Fresh(fs))
        BY EmptySeq DEF Partial, Fresh
    <2>2. Reference(data)[c] \in ReaderStates
        BY <1>1, ReferenceFacts
    <2> QED BY <1>1, <2>1, <2>2
<1>3. ASSUME NEW j \in 1..k, f[j - 1] \in Sound PROVE f[j] \in Sound
    <2> DEFINE r == Reference(data)[c + (j - 1)]
    <2>1. /\ j - 1 \in Nat /\ j \in Nat /\ (j - 1) + 1 = j /\ j - 1 \in 0..k /\ j \in 0..k
          /\ c + j \in 1..Len(data) /\ (c + j) - 1 = c + (j - 1) /\ c + j \in 0..Len(data) /\ j <= k
        BY <1>1
    <2>2. r \in ReaderStates /\ Partial(data, c, fs, j - 1, r)
        BY <1>3, <2>1
    <2>3. Inside(data, c, j)
        <3>1. CASE k < 2
            BY <2>1, <3>1 DEF Inside
        <3>2. CASE ~(k < 2)
            <4>1. c + 2 \in 1..Len(data)
                BY <1>1, <3>2
            <4>2. data[c + 2] \in Nat
                BY <4>1, ElementOfSeq, ByteFacts DEF Payloads
            <4> QED BY <2>1, <3>2, <4>2 DEF Inside
        <3> QED BY <3>1, <3>2
    <2>4. Reference(data)[c + j] = Read(r, data[c + j]) /\ Reference(data)[c + j] \in ReaderStates
        BY <2>1, ReferenceFacts
    <2> HIDE DEF r
    <2>5. Partial(data, c, fs, (j - 1) + 1, Read(r, data[c + ((j - 1) + 1)]))
        <3>1. c + ((j - 1) + 1) <= Len(data) /\ Inside(data, c, (j - 1) + 1)
            BY <2>1, <2>3
        <3> QED BY <2>1, <2>2, <3>1, ReadInside
    <2> QED BY <2>1, <2>4, <2>5
<1> HIDE DEF f, Sound
<1>4. f[k] \in Sound
    BY <1>2, <1>3, LoopKeeps, Zenon
<1> QED BY <1>1, <1>4 DEF f, Sound

(* With its last byte a frame is complete.                                 *)
LEMMA ReaderCompletes ==
    ASSUME NEW data \in Payloads, NEW c \in Nat, NEW fs, NEW size \in Nat, size = data[c + 2],
           HeaderGood(data, c), c + (2 + size) <= Len(data), Reference(data)[c] = Fresh(fs)
    PROVE  Reference(data)[c + (2 + size)]
              = Fresh(Append(fs, SubSeq(data, c + 3, c + (2 + size))))
PROOF
<1> DEFINE j == 1 + size
           n == c + (j + 1)
           r == Reference(data)[c + j]
           byte == data[n]
           frame == Append(r.frame, byte)
           part == SubSeq(frame, 3, Len(frame))
<1>1. Len(data) \in Nat
    BY LenProperties DEF Payloads
<1>2. /\ Len(data) \in Nat /\ j \in Nat /\ c + j <= Len(data) /\ c + j \in 0..Len(data)
      /\ n \in 1..Len(data) /\ n - 1 = c + j /\ n = c + (2 + size) /\ j + 1 = 2 + size
    <2>1. c + (2 + size) <= Len(data)
        OBVIOUS
    <2> QED BY ONLY <1>1, <2>1, c \in Nat, size \in Nat
<1>3. Inside(data, c, j)
    BY DEF Inside
<1>4. Partial(data, c, fs, j, r)
    BY <1>2, <1>3, ReaderInside
<1>5. r \in ReaderStates /\ byte \in Byte /\ Reference(data)[n] = Read(r, byte)
    BY <1>2, ReferenceFacts, ElementOfSeq DEF Payloads
<1>6. r.frame \in Seq(Byte)
    BY <1>5 DEF ReaderStates, Payloads
<1> HIDE DEF r, byte, n
<1>7. Len(r.frame) = j /\ r.failed = FALSE /\ r.frames = fs
    BY <1>4 DEF Partial
<1>8. /\ frame \in Seq(Byte) /\ Len(frame) = j + 1 /\ frame[j + 1] = byte
      /\ \A i \in 1..j : frame[i] = r.frame[i]
    BY <1>5, <1>6, <1>7, AppendProperties
<1> HIDE DEF frame
<1>9. ASSUME NEW i \in 1..(j + 1) PROVE frame[i] = data[c + i]
    <2>1. i \in 1..j \/ i = j + 1
        BY ONLY <1>2, i \in 1..(j + 1)
    <2> QED BY <1>4, <1>8, <2>1 DEF Partial, byte, n
<1>10. frame[1] = data[c + 1] /\ frame[2] = data[c + 2]
    <2>1. 1 \in 1..(j + 1) /\ 2 \in 1..(j + 1)
        OBVIOUS
    <2> QED BY <1>9, <2>1
<1>11. /\ ~(Len(frame) = 2 /\ (frame[1] # kMagic \/ frame[2] > kMaxPayloadSize))
       /\ Len(frame) >= 2 /\ Len(frame) = 2 + frame[2]
    <2>1. frame[1] = kMagic /\ frame[2] = size /\ size <= kMaxPayloadSize /\ kMaxPayloadSize \in Nat
        BY <1>10, ByteFacts DEF HeaderGood
    <2> HIDE DEF j
    <2> QED BY ONLY <1>2, <1>8, <2>1, size \in Nat
<1>12. Read(r, byte) = Fresh(Append(fs, part))
    BY <1>7, <1>11 DEF Read, frame, Fresh
<1>13. part = SubSeq(data, c + 3, c + (2 + size))
    <2> DEFINE low == c + 3
               high == c + (2 + size)
               other == SubSeq(data, low, high)
    <2>1. /\ part \in Seq(Byte) /\ Len(part) = Len(frame) - 3 + 1
          /\ \A i \in 1..(Len(frame) - 3 + 1) : part[i] = frame[3 + i - 1]
        <3>1. Len(frame) \in Nat /\ 3 \in Nat \ {0} /\ Len(frame) <= Len(frame) /\ 3 <= Len(frame) + 1
            BY ONLY <1>2, <1>8, size \in Nat
        <3> QED BY ONLY <1>8, <3>1, PartFacts
    <2>2. low \in Nat \ {0} /\ high \in Nat /\ low <= high + 1 /\ high - low + 1 = size
        BY ONLY c \in Nat, size \in Nat
    <2>3. high <= Len(data) /\ data \in Seq(Byte)
        BY DEF Payloads
    <2>4. \A i \in 1..size : low + i - 1 = c + (i + 2) /\ i + 2 \in 1..(j + 1) /\ 3 + i - 1 = i + 2
        BY ONLY <1>2, c \in Nat, size \in Nat
    <2> HIDE DEF low, high
    <2>5. /\ other \in Seq(Byte) /\ Len(other) = high - low + 1
          /\ \A i \in 1..(high - low + 1) : other[i] = data[low + i - 1]
        BY <2>2, <2>3, PartFacts
    <2> HIDE DEF part, other
    <2>6. Len(frame) - 3 + 1 = size
        <3>1. Len(frame) = 2 + size
            BY ONLY <1>2, <1>8
        <3> QED BY ONLY <3>1, size \in Nat
    <2>7. Len(part) = size /\ Len(other) = size
        BY <2>1, <2>2, <2>5, <2>6
    <2>8. ASSUME NEW i \in 1..size PROVE part[i] = other[i]
        <3>1. part[i] = frame[i + 2] /\ other[i] = data[c + (i + 2)]
            BY <2>1, <2>2, <2>4, <2>5, <2>6
        <3> QED BY <1>9, <2>4, <3>1
    <2> QED BY <2>1, <2>5, <2>7, <2>8, SeqEqual, Zenon DEF other, low, high
<1> QED BY <1>2, <1>5, <1>12, <1>13

(* A bad header is refused with its last byte.                             *)
LEMMA ReaderRefuses ==
    ASSUME NEW data \in Payloads, NEW c \in Nat, NEW fs,
           ~HeaderGood(data, c), c + 2 <= Len(data), Reference(data)[c] = Fresh(fs)
    PROVE  Reference(data)[c + 2].failed /\ Reference(data)[c + 2].frames = fs
PROOF
<1> DEFINE r == Reference(data)[c + 1]
           byte == data[c + 2]
           frame == Append(r.frame, byte)
<1>1. /\ Len(data) \in Nat /\ c + 1 <= Len(data) /\ c + 1 \in 0..Len(data) /\ 1 \in Nat
      /\ c + 2 \in 1..Len(data) /\ (c + 2) - 1 = c + 1
    BY LenProperties DEF Payloads
<1>2. Partial(data, c, fs, 1, r)
    BY <1>1, ReaderInside DEF Inside
<1>3. r \in ReaderStates /\ byte \in Byte /\ Reference(data)[c + 2] = Read(r, byte)
    BY <1>1, ReferenceFacts, ElementOfSeq DEF Payloads
<1>4. r.frame \in Seq(Byte)
    BY <1>3 DEF ReaderStates, Payloads
<1> HIDE DEF r
<1>5. Len(r.frame) = 1 /\ r.failed = FALSE /\ r.frames = fs /\ r.frame[1] = data[c + 1]
    BY <1>2 DEF Partial
<1>6. Len(frame) = 2 /\ frame[1] = data[c + 1] /\ frame[2] = byte
    BY <1>3, <1>4, <1>5, AppendProperties
<1>7. frame[1] # kMagic \/ frame[2] > kMaxPayloadSize
    <2>1. byte \in Nat /\ kMaxPayloadSize \in Nat
        BY <1>3, ByteFacts
    <2>2. data[c + 1] # kMagic \/ byte > kMaxPayloadSize
        BY <2>1 DEF HeaderGood
    <2> QED BY <1>6, <2>2
<1> HIDE DEF frame, byte
<1>8. Read(r, byte).failed /\ Read(r, byte).frames = fs
    BY <1>5, <1>6, <1>7 DEF Read, frame
<1> QED BY <1>3, <1>8

(* A buffer has the bytes behind the first c ones.                         *)
Buffered(buffer, data, c) ==
    c + Len(buffer) <= Len(data) /\ \A i \in 1..Len(buffer) : buffer[i] = data[c + i]

ScanStates(buffer) == [frames : Seq(Payloads), offset : 0..Len(buffer), failed : BOOLEAN]

(* What the loop of push has found is what the reader has at its offset;   *)
(* it has failed only because of a bad header there.                       *)
Scanned(buffer, data, c, fs, s) ==
    /\ Reference(data)[c + s.offset] = Fresh(fs \o s.frames)
    /\ s.failed => s.offset + 2 <= Len(buffer) /\ ~HeaderGood(data, c + s.offset)

(* The loop has ended.                                                     *)
Ended(buffer, data, c, s) == s.failed \/ Inside(data, c + s.offset, Len(buffer) - s.offset)

(* The places of the payload of a frame that begins behind o bytes of a   *)
(* buffer that has n, which begins behind the first c bytes.               *)
LEMMA PayloadPlaces ==
    ASSUME NEW c \in Nat, NEW o \in Nat, NEW n \in Nat, NEW size \in Nat, ~(n - o < 2 + size), NEW i \in 1..size
    PROVE  c + (o + 2 + 1 + i - 1) = (c + o) + 3 + i - 1 /\ o + 2 + 1 + i - 1 \in 1..n
PROOF OBVIOUS

(* One round keeps this, and the next begins further on unless it is the   *)
(* last.                                                                   *)
LEMMA RoundKeeps ==
    ASSUME NEW data \in Payloads, NEW c \in Nat, NEW fs \in Seq(Payloads), NEW buffer \in Payloads,
           Buffered(buffer, data, c), NEW s \in ScanStates(buffer), Scanned(buffer, data, c, fs, s)
    PROVE  /\ Round(buffer, s) \in ScanStates(buffer)
           /\ Scanned(buffer, data, c, fs, Round(buffer, s))
           /\ \/ Ended(buffer, data, c, Round(buffer, s))
              \/ Round(buffer, s).offset > s.offset /\ ~Ended(buffer, data, c, s)
PROOF
<1> DEFINE o == s.offset
           n == Len(buffer)
           left == n - o
           size == buffer[o + 2]
           t == Round(buffer, s)
<1>1. n \in Nat /\ o \in 0..n /\ s.frames \in Seq(Payloads) /\ s.failed \in BOOLEAN /\ Len(data) \in Nat
    BY LenProperties DEF Payloads, ScanStates
<1>2. c + n <= Len(data) /\ \A i \in 1..n : buffer[i] = data[c + i]
    BY DEF Buffered
<1>3. \A i \in 1..n : buffer[i] \in Nat
    BY ElementOfSeq, ByteFacts DEF Payloads
<1> HIDE DEF o, n, size
<1>4. o \in Nat /\ left \in Nat /\ c + o \in Nat
    BY ONLY <1>1, c \in Nat
<1>5. ~(left < 2) => /\ o + 1 \in 1..n /\ o + 2 \in 1..n /\ c + (o + 1) = (c + o) + 1 /\ c + (o + 2) = (c + o) + 2
    BY ONLY <1>1, <1>4, c \in Nat
<1>6. ~(left < 2) => /\ buffer[o + 1] = data[(c + o) + 1] /\ size = data[(c + o) + 2] /\ size \in Nat
    BY ONLY <1>2, <1>3, <1>5 DEF size
<1>7. CASE s.failed \/ left < 2
    <2>1. t = s
        BY <1>7 DEF Round, n, o, kHeaderSize
    <2>2. Ended(buffer, data, c, s)
        BY <1>7 DEF Ended, Inside, n, o
    <2> QED BY <2>1, <2>2
<1> HIDE DEF t
<1>8. CASE ~s.failed /\ ~(left < 2) /\ ~HeaderGood(data, c + o)
    <2>1. buffer[o + 1] # kMagic \/ size > kMaxPayloadSize
        BY <1>6, <1>8, ByteFacts DEF HeaderGood
    <2>2. t = [s EXCEPT !.failed = TRUE]
        BY <1>8, <2>1 DEF Round, t, n, o, size, kHeaderSize
    <2>3. t \in ScanStates(buffer) /\ t.failed /\ t.offset = s.offset /\ t.frames = s.frames
        BY <2>2 DEF ScanStates
    <2>4. s.offset + 2 <= Len(buffer)
        BY <1>1, <1>4, <1>8 DEF n, o
    <2> QED BY <1>8, <2>3, <2>4 DEF Scanned, Ended, t, o
<1>9. CASE ~s.failed /\ ~(left < 2) /\ HeaderGood(data, c + o) /\ left < 2 + size
    <2>1. ~(buffer[o + 1] # kMagic \/ size > kMaxPayloadSize)
        BY <1>6, <1>9, ByteFacts DEF HeaderGood
    <2>2. t = s
        BY <1>9, <2>1 DEF Round, t, n, o, size, kHeaderSize
    <2>3. Ended(buffer, data, c, s)
        BY <1>6, <1>9 DEF Ended, Inside, n, o
    <2> QED BY <2>2, <2>3 DEF t
<1>10. CASE ~s.failed /\ ~(left < 2) /\ HeaderGood(data, c + o) /\ ~(left < 2 + size)
    <2> DEFINE low == o + 2 + 1
               high == o + 2 + size
               part == SubSeq(buffer, low, high)
    <2>1. ~(buffer[o + 1] # kMagic \/ size > kMaxPayloadSize)
        BY <1>6, <1>10, ByteFacts DEF HeaderGood
    <2>2. t = [frames |-> Append(s.frames, part), offset |-> high, failed |-> FALSE]
        BY <1>10, <2>1 DEF Round, t, n, o, size, kHeaderSize
    <2>3. size \in Nat /\ size = data[(c + o) + 2]
        BY <1>6, <1>10
    <2> DEFINE first == (c + o) + 3
               last == (c + o) + (2 + size)
    <2>4. size \in Nat /\ n \in Nat /\ o \in Nat /\ Len(data) \in Nat /\ o <= n /\ c + n <= Len(data) /\ ~(n - o < 2 + size)
        BY <1>1, <1>2, <1>4, <1>10, <2>3
    <2>5. /\ high \in 0..n /\ last = c + high /\ last <= Len(data)
          /\ low \in Nat \ {0} /\ high \in Nat /\ high <= n
          /\ low <= high + 1 /\ high > o /\ high - low + 1 = size
          /\ first \in Nat \ {0} /\ last \in Nat /\ first <= last + 1 /\ last - first + 1 = size
        BY ONLY <2>4, c \in Nat
    <2>6. ASSUME NEW i \in 1..size PROVE c + (low + i - 1) = first + i - 1 /\ low + i - 1 \in 1..n
        BY ONLY <2>4, c \in Nat, i \in 1..size, PayloadPlaces
    <2> HIDE DEF low, high, first, last
    <2>7. /\ part \in Seq(Byte) /\ Len(part) = high - low + 1
          /\ \A i \in 1..(high - low + 1) : part[i] = buffer[low + i - 1]
        BY <2>5, PartFacts DEF Payloads, n
    <2>8. part = SubSeq(data, first, last)
        <3> DEFINE other == SubSeq(data, first, last)
        <3>1. /\ other \in Seq(Byte) /\ Len(other) = last - first + 1
              /\ \A i \in 1..(last - first + 1) : other[i] = data[first + i - 1]
            BY <2>5, PartFacts DEF Payloads
        <3> HIDE DEF part, other
        <3>2. Len(other) = size /\ Len(part) = size
            BY <2>5, <2>7, <3>1
        <3>3. ASSUME NEW i \in 1..size PROVE part[i] = other[i]
            <4>1. part[i] = buffer[low + i - 1] /\ other[i] = data[first + i - 1]
                BY <2>5, <2>7, <3>1
            <4>2. buffer[low + i - 1] = data[c + (low + i - 1)]
                BY <1>2, <2>6
            <4> QED BY <2>6, <4>1, <4>2
        <3> QED BY <2>7, <3>1, <3>2, <3>3, SeqEqual, Zenon DEF other
    <2> HIDE DEF part
    <2>9. Append(s.frames, part) \in Seq(Payloads)
        BY <1>1, <2>7, AppendProperties DEF Payloads
    <2>10. t \in ScanStates(buffer)
        BY <2>2, <2>5, <2>9 DEF ScanStates, n
    <2>11. Reference(data)[last] = Fresh(Append(fs \o s.frames, part))
        <3> DEFINE b == c + o
                   g == fs \o s.frames
        <3>1. b \in Nat /\ HeaderGood(data, b) /\ size = data[b + 2] /\ b + (2 + size) <= Len(data)
            BY <1>4, <1>10, <2>3, <2>5 DEF last
        <3>2. Reference(data)[b] = Fresh(g)
            BY DEF Scanned, o
        <3>3. last = b + (2 + size) /\ first = b + 3
            BY DEF first, last
        <3> HIDE DEF b, g
        <3>4. Reference(data)[b + (2 + size)] = Fresh(Append(g, SubSeq(data, b + 3, b + (2 + size))))
            BY <2>3, <3>1, <3>2, ReaderCompletes
        <3> QED BY <2>8, <3>3, <3>4 DEF g
    <2>12. Append(fs \o s.frames, part) = fs \o Append(s.frames, part)
        <3> DEFINE found == s.frames
        <3>1. part \in Payloads /\ found \in Seq(Payloads)
            BY <1>1, <2>7 DEF Payloads
        <3> HIDE DEF found
        <3>2. Append(fs \o found, part) = fs \o Append(found, part)
            BY ONLY <3>1, fs \in Seq(Payloads)
        <3> QED BY <3>2 DEF found
    <2>13. t.offset = high /\ ~t.failed /\ t.frames = Append(s.frames, part)
        BY <2>2
    <2>14. Scanned(buffer, data, c, fs, t)
        BY <2>5, <2>11, <2>12, <2>13 DEF Scanned
    <2>15. ~Ended(buffer, data, c, s)
        BY <1>6, <1>10 DEF Ended, Inside, n, o
    <2> QED BY <2>5, <2>10, <2>13, <2>14, <2>15 DEF t, o
<1> QED BY <1>7, <1>8, <1>9, <1>10

(* The loop of push finds what the reader finds and stops where the reader *)
(* is inside a frame or has met a bad header.                              *)
LEMMA ScanFacts ==
    ASSUME NEW data \in Payloads, NEW c \in Nat, NEW fs \in Seq(Payloads), NEW buffer \in Payloads,
           Buffered(buffer, data, c), Reference(data)[c] = Fresh(fs)
    PROVE  /\ Scan(buffer) \in ScanStates(buffer)
           /\ Scanned(buffer, data, c, fs, Scan(buffer))
           /\ Ended(buffer, data, c, Scan(buffer))
PROOF
<1> DEFINE Sound == {s \in ScanStates(buffer) : Scanned(buffer, data, c, fs, s)}
           N == Len(buffer)
           start == [frames |-> <<>>, offset |-> 0, failed |-> FALSE]
           step(u, m) == Round(buffer, u)
           body == [m \in 1..N |-> [u \in Sound |-> step(u, m)]]
           Loop(f) == f = [m \in 0..N |-> IF m = 0 THEN start ELSE step(f[m - 1], m)]
           after == CHOOSE f : Loop(f)
<1>1. N \in Nat
    BY LenProperties DEF Payloads
<1>2. start \in Sound
    <2>1. <<>> \in Seq(Payloads) /\ 0 \in 0..N
        BY <1>1, EmptySeq
    <2>2. start \in ScanStates(buffer) /\ start.offset = 0 /\ start.failed = FALSE /\ start.frames = <<>>
        BY <2>1 DEF ScanStates
    <2>3. fs \o <<>> = fs /\ c + 0 = c
        BY ConcatEmptySeq
    <2> HIDE DEF start
    <2> QED BY <2>2, <2>3 DEF Scanned
<1>3. \A u \in Sound : \A m \in 1..N : step(u, m) \in Sound
    BY RoundKeeps
<1>4. Scan(buffer) = after[N]
    BY DEF Scan
<1>5. \A u \in Sound : Ended(buffer, data, c, Round(buffer, u)) \/ Round(buffer, u).offset > u.offset
    BY RoundKeeps
<1>6. \A u \in Sound : u.offset \in 0..N
    BY DEF ScanStates
<1>7. \A u \in Sound : Ended(buffer, data, c, u) => Ended(buffer, data, c, Round(buffer, u))
    BY RoundKeeps
<1>8. \A u \in Sound : u.offset = N => Ended(buffer, data, c, u)
    BY <1>1 DEF Ended, Inside
<1>9. start.offset = 0
    OBVIOUS
<1> HIDE DEF Sound, N, step, start
<1>10. body \in [1..N -> [Sound -> Sound]]
    BY <1>3
<1>11. \A u \in Sound : \A m \in 1..N : body[m][u] = step(u, m)
    OBVIOUS
<1> HIDE DEF body
<1>12. PICK f : IsRun(f, Sound, start, N, body)
    BY <1>1, <1>2, <1>10, LoopExists, Zenon
<1>13. f \in [0..N -> Sound] /\ f[0] = start /\ \A m \in 1..N : f[m] = body[m][f[m - 1]]
    BY <1>12 DEF IsRun
<1>14. \A m \in 0..N : m # 0 => m \in 1..N /\ m - 1 \in 0..N
    BY <1>1
<1>15. \A m \in 0..N : f[m] = IF m = 0 THEN start ELSE step(f[m - 1], m)
    BY <1>11, <1>13, <1>14
<1>16. Loop(f)
    BY <1>13, <1>15
<1>17. Loop(after)
    BY <1>16, Zenon
<1> HIDE DEF after
<1>18. 0 \in 0..N /\ N \in 0..N /\ \A m \in 1..N : m \in 0..N /\ m # 0 /\ m \in Nat /\ m - 1 \in 0..N
    BY <1>1
<1>19. after[0] = start /\ \A m \in 1..N : after[m] = step(after[m - 1], m)
    BY <1>17, <1>18, Zenon
<1> DEFINE g == [m \in 0..N |-> <<m, after[m]>>]
           Far == {p \in Nat \X Sound : Ended(buffer, data, c, p[2]) \/ p[2].offset >= p[1]}
<1>20. g[0] \in Far
    BY <1>2, <1>9, <1>18, <1>19
<1>21. ASSUME NEW m \in 1..N, g[m - 1] \in Far PROVE g[m] \in Far
    <2> DEFINE u == after[m - 1]
    <2>1. u \in Sound /\ (Ended(buffer, data, c, u) \/ u.offset >= m - 1)
        BY <1>18, <1>21
    <2>2. after[m] = Round(buffer, u) /\ after[m] \in Sound
        BY <1>3, <1>19, <2>1 DEF step
    <2> HIDE DEF u
    <2>3. Ended(buffer, data, c, after[m]) \/ after[m].offset >= m
        <3>1. CASE Ended(buffer, data, c, u)
            BY <1>7, <2>1, <2>2, <3>1
        <3>2. CASE u.offset >= m - 1
            <4>1. u.offset \in Nat /\ after[m].offset \in Nat /\ m \in Nat
                BY <1>1, <1>6, <2>1, <2>2
            <4>2. Ended(buffer, data, c, after[m]) \/ after[m].offset > u.offset
                BY <1>5, <2>1, <2>2
            <4> QED BY <3>2, <4>1, <4>2
        <3> QED BY <2>1, <3>1, <3>2
    <2> QED BY <1>18, <2>2, <2>3
<1> HIDE DEF g, Far
<1>22. g[N] \in Far
    BY <1>1, <1>20, <1>21, LoopKeeps, Zenon
<1>23. after[N] \in Sound /\ (Ended(buffer, data, c, after[N]) \/ after[N].offset >= N)
    BY <1>18, <1>22 DEF g, Far
<1>24. Ended(buffer, data, c, after[N])
    <2>1. after[N].offset \in 0..N
        BY <1>6, <1>23
    <2>2. after[N].offset >= N => after[N].offset = N
        BY <1>1, <2>1
    <2> QED BY <1>8, <1>23, <2>2
<1> QED BY <1>4, <1>23, <1>24 DEF Sound
-------------------------------------------------------------------------------
Decoders == [buffer_ : Payloads, offset_ : Nat, failed_ : BOOLEAN]

unread == Len(decoder.buffer_) - decoder.offset_

(* Between two calls of push the unread bytes are the last that were       *)
(* pushed, less than a frame without a bad header, and the reader is at a  *)
(* new frame where they begin, with the frames that push has returned.  A  *)
(* decoder that has failed is one whose reader has, and it has returned no *)
(* other frames.                                                           *)
FramesInv ==
    /\ stream \in Payloads /\ pushed \in 0..Len(stream) /\ returned \in Seq(Payloads)
    /\ decoder \in Decoders /\ decoder.offset_ <= Len(decoder.buffer_)
    /\ ~decoder.failed_ =>
          /\ unread <= pushed
          /\ \A i \in 1..unread : decoder.buffer_[decoder.offset_ + i] = stream[(pushed - unread) + i]
          /\ Reference(stream)[pushed - unread] = Fresh(returned)
          /\ Inside(stream, pushed - unread, unread)
    /\ decoder.failed_ =>
          /\ Reference(stream)[pushed].failed
          /\ \E more \in Seq(Payloads) : Reference(stream)[pushed].frames = returned \o more

(* The bytes that push looks at: the unread ones and the new ones.         *)
LEMMA PushedBuffer ==
    ASSUME FramesInv, ~decoder.failed_, NEW n \in Nat, pushed + n <= Len(stream),
           NEW buffer, buffer = SubSeq(decoder.buffer_, decoder.offset_ + 1, Len(decoder.buffer_))
                                    \o SubSeq(stream, pushed + 1, pushed + n)
    PROVE  /\ buffer \in Payloads /\ pushed - unread \in Nat
           /\ (pushed - unread) + Len(buffer) = pushed + n
           /\ Buffered(buffer, stream, pushed - unread)
PROOF
<1> DEFINE b == decoder.buffer_
           o == decoder.offset_
           k == Len(b)
           len == Len(stream)
           c == pushed - unread
           old == SubSeq(b, o + 1, k)
           new == SubSeq(stream, pushed + 1, pushed + n)
<1>1. /\ b \in Seq(Byte) /\ stream \in Seq(Byte) /\ o \in Nat /\ k \in Nat /\ o <= k /\ len \in Nat
      /\ pushed \in 0..len /\ pushed + n <= len /\ unread = k - o /\ unread <= pushed
      /\ \A i \in 1..unread : b[o + i] = stream[c + i]
    BY LenProperties DEF FramesInv, Decoders, Payloads, unread
<1> HIDE DEF b, o, k, len
<1>2. /\ o + 1 \in Nat \ {0} /\ k <= k /\ o + 1 <= k + 1 /\ k - (o + 1) + 1 = unread
      /\ pushed + 1 \in Nat \ {0} /\ pushed + n \in Nat /\ pushed + 1 <= pushed + n + 1
      /\ (pushed + n) - (pushed + 1) + 1 = n /\ unread \in Nat /\ c \in Nat /\ c + (unread + n) = pushed + n
    BY ONLY <1>1, n \in Nat
<1>3. /\ old \in Seq(Byte) /\ Len(old) = k - (o + 1) + 1
      /\ \A i \in 1..(k - (o + 1) + 1) : old[i] = b[o + 1 + i - 1]
    <2> DEFINE low == o + 1
    <2>1. low \in Nat \ {0} /\ low <= k + 1
        BY <1>2
    <2> HIDE DEF low
    <2>2. /\ SubSeq(b, low, k) \in Seq(Byte) /\ Len(SubSeq(b, low, k)) = k - low + 1
          /\ \A i \in 1..(k - low + 1) : SubSeq(b, low, k)[i] = b[low + i - 1]
        BY <1>1, <2>1, PartFacts DEF k
    <2> QED BY <2>2 DEF low
<1>4. /\ new \in Seq(Byte) /\ Len(new) = (pushed + n) - (pushed + 1) + 1
      /\ \A i \in 1..((pushed + n) - (pushed + 1) + 1) : new[i] = stream[pushed + 1 + i - 1]
    <2> DEFINE low == pushed + 1
               high == pushed + n
    <2>1. low \in Nat \ {0} /\ high \in Nat /\ low <= high + 1 /\ high <= Len(stream)
        BY <1>2
    <2> HIDE DEF low, high
    <2>2. /\ SubSeq(stream, low, high) \in Seq(Byte) /\ Len(SubSeq(stream, low, high)) = high - low + 1
          /\ \A i \in 1..(high - low + 1) : SubSeq(stream, low, high)[i] = stream[low + i - 1]
        BY <1>1, <2>1, PartFacts
    <2> QED BY <2>2 DEF low, high
<1>5. Len(old) = unread /\ Len(new) = n /\ buffer = old \o new
    BY <1>2, <1>3, <1>4 DEF b, o, k
<1>6. ASSUME NEW i \in 1..unread PROVE old[i] = stream[c + i]
    <2>1. i \in 1..(k - (o + 1) + 1) /\ o + 1 + i - 1 = o + i
        BY ONLY <1>1, <1>2, i \in 1..unread
    <2> QED BY <1>1, <1>3, <2>1
<1>7. ASSUME NEW i \in 1..n PROVE new[i] = stream[pushed + i]
    <2>1. i \in 1..((pushed + n) - (pushed + 1) + 1) /\ pushed + 1 + i - 1 = pushed + i
        BY ONLY <1>1, <1>2, i \in 1..n
    <2> QED BY <1>4, <2>1
<1> HIDE DEF old, new, c
<1>8. /\ buffer \in Seq(Byte) /\ Len(buffer) = unread + n
      /\ \A i \in 1..(unread + n) : buffer[i] = IF i <= unread THEN old[i] ELSE new[i - unread]
    <2>1. /\ old \o new \in Seq(Byte) /\ Len(old \o new) = Len(old) + Len(new)
          /\ \A i \in 1..(Len(old) + Len(new)) :
                (old \o new)[i] = IF i <= Len(old) THEN old[i] ELSE new[i - Len(old)]
        BY ONLY <1>3, <1>4, ConcatProperties
    <2> QED BY ONLY <1>5, <2>1
<1>9. ASSUME NEW i \in 1..(unread + n) PROVE buffer[i] = stream[c + i]
    <2>1. CASE i <= unread
        <3>1. i \in 1..unread
            BY ONLY <1>2, <2>1, i \in 1..(unread + n)
        <3> QED BY <1>6, <1>8, <2>1, <3>1
    <2>2. CASE ~(i <= unread)
        <3>1. i - unread \in 1..n /\ pushed + (i - unread) = c + i
            BY ONLY <1>1, <1>2, <2>2, n \in Nat, i \in 1..(unread + n) DEF c
        <3> QED BY <1>7, <1>8, <2>2, <3>1
    <2> QED BY <2>1, <2>2
<1> QED BY <1>1, <1>2, <1>8, <1>9 DEF Buffered, Payloads, c

(* push with a decoder that has failed.                                    *)
LEMMA FailedArrive ==
    ASSUME FramesInv, decoder.failed_, NEW n \in Nat, Arrive(n)
    PROVE  FramesInv'
PROOF
<1>1. /\ decoder' = decoder /\ returned' = returned \o <<>> /\ pushed' = pushed + n /\ stream' = stream
      /\ pushed + n <= Len(stream)
    BY DEF Arrive, push
<1>2. returned' = returned
    BY <1>1, ConcatEmptySeq DEF FramesInv
<1>3. pushed' \in 0..Len(stream) /\ pushed' \in pushed..Len(stream)
    BY <1>1, LenProperties DEF FramesInv, Payloads
<1>4. Reference(stream)[pushed'] = Reference(stream)[pushed]
    BY <1>3, ReaderStays DEF FramesInv
<1> QED BY <1>1, <1>2, <1>3, <1>4 DEF FramesInv

(* push with a decoder that works.                                         *)
LEMMA WorkingArrive ==
    ASSUME FramesInv, ~decoder.failed_, NEW n \in Nat, Arrive(n)
    PROVE  FramesInv'
PROOF
<1> DEFINE buffer == SubSeq(decoder.buffer_, decoder.offset_ + 1, Len(decoder.buffer_))
                         \o SubSeq(stream, pushed + 1, pushed + n)
           c == pushed - unread
           s == Scan(buffer)
           k == Len(buffer)
           o == s.offset
           len == Len(stream)
<1>1. pushed + n <= len /\ pushed' = pushed + n /\ stream' = stream
    BY DEF Arrive
<1>2. /\ s.failed => /\ decoder' = [buffer_ |-> buffer, offset_ |-> o, failed_ |-> TRUE]
                     /\ returned' = returned \o <<>>
      /\ ~s.failed => /\ decoder' = [buffer_ |-> IF o = k THEN <<>> ELSE buffer,
                                     offset_ |-> IF o = k THEN 0 ELSE o, failed_ |-> FALSE]
                      /\ returned' = returned \o s.frames
    BY DEF Arrive, push
<1>3. buffer \in Payloads /\ c \in Nat /\ c + k = pushed + n /\ Buffered(buffer, stream, c)
    BY <1>1, PushedBuffer
<1>4. /\ stream \in Payloads /\ returned \in Seq(Payloads) /\ Reference(stream)[c] = Fresh(returned)
      /\ len \in Nat /\ pushed \in 0..len
    BY LenProperties DEF FramesInv, Payloads
<1> HIDE DEF buffer, c
<1>5. s \in ScanStates(buffer) /\ Scanned(buffer, stream, c, returned, s) /\ Ended(buffer, stream, c, s)
    BY <1>3, <1>4, ScanFacts
<1>6. /\ k \in Nat /\ o \in 0..k /\ s.frames \in Seq(Payloads) /\ s.failed \in BOOLEAN
      /\ Reference(stream)[c + o] = Fresh(returned \o s.frames)
    BY <1>3, <1>5, LenProperties DEF ScanStates, Scanned, Payloads
<1>7. returned \o s.frames \in Seq(Payloads) /\ returned \o <<>> = returned
    BY <1>4, <1>6, ConcatProperties, ConcatEmptySeq
<1>8. \A i \in 1..k : buffer[i] = stream[c + i]
    BY <1>3 DEF Buffered
<1>9. s.failed => o + 2 <= k /\ ~HeaderGood(stream, c + o)
    BY <1>5 DEF Scanned
<1>10. ~s.failed => Inside(stream, c + o, k - o)
    BY <1>5 DEF Ended
<1> HIDE DEF s, k, o, len
<1>11. pushed' \in 0..len /\ pushed' = c + k
    BY ONLY <1>1, <1>3, <1>4, n \in Nat
<1>12. CASE s.failed
    <2>1. /\ decoder' \in Decoders /\ decoder'.failed_ /\ decoder'.offset_ = o /\ decoder'.buffer_ = buffer
          /\ returned' = returned
        <3>1. o \in Nat
            BY <1>6
        <3>2. [buffer_ |-> buffer, offset_ |-> o, failed_ |-> TRUE] \in Decoders
            BY <1>3, <3>1 DEF Decoders
        <3>3. decoder' = [buffer_ |-> buffer, offset_ |-> o, failed_ |-> TRUE] /\ returned' = returned
            BY <1>2, <1>7, <1>12
        <3> QED BY ONLY <3>2, <3>3
    <2>2. /\ c + o \in Nat /\ (c + o) + 2 <= len /\ (c + o) + 2 \in 0..len
          /\ c + k \in ((c + o) + 2)..len
        BY ONLY <1>1, <1>3, <1>4, <1>6, <1>9, <1>11, <1>12
    <2> DEFINE r == Reference(stream)[(c + o) + 2]
    <2>3. r.failed /\ r.frames = returned \o s.frames
        BY <1>4, <1>6, <1>9, <1>12, <2>2, ReaderRefuses DEF len
    <2>4. Reference(stream)[c + k] = r
        BY <1>4, <2>2, <2>3, ReaderStays DEF len
    <2>5. o <= k
        BY <1>6
    <2> HIDE DEF r
    <2> QED BY <1>1, <1>4, <1>6, <1>11, <2>1, <2>3, <2>4, <2>5 DEF FramesInv, k, len
<1>13. CASE ~s.failed
    <2> DEFINE left == k - o
    <2>1. /\ returned' = returned \o s.frames /\ decoder'.failed_ = FALSE
          /\ decoder'.buffer_ = IF o = k THEN <<>> ELSE buffer
          /\ decoder'.offset_ = IF o = k THEN 0 ELSE o
        BY <1>2, <1>13
    <2>2. o \in Nat /\ left \in Nat /\ left <= c + k /\ (c + k) - left = c + o /\ <<>> \in Payloads /\ 0 \in Nat
        <3>1. <<>> \in Payloads
            BY EmptySeq DEF Payloads
        <3> QED BY <1>3, <1>6, <3>1
    <2>3. decoder' \in Decoders
        <3>1. CASE o = k
            <4>1. [buffer_ |-> <<>>, offset_ |-> 0, failed_ |-> FALSE] \in Decoders
                BY <2>2 DEF Decoders
            <4> QED BY <1>2, <1>13, <3>1, <4>1
        <3>2. CASE o # k
            <4>1. [buffer_ |-> buffer, offset_ |-> o, failed_ |-> FALSE] \in Decoders
                BY <1>3, <2>2 DEF Decoders
            <4> QED BY <1>2, <1>13, <3>2, <4>1
        <3> QED BY <3>1, <3>2
    <2>4. decoder'.offset_ <= Len(decoder'.buffer_) /\ unread' = left
        <3>1. CASE o = k
            <4>1. Len(<<>>) = 0 /\ left = 0
                BY <1>6, <3>1
            <4> QED BY <2>1, <3>1, <4>1 DEF unread
        <3>2. CASE o # k
            <4>1. o <= k
                BY <1>6
            <4> QED BY <2>1, <3>2, <4>1 DEF unread, k
        <3> QED BY <3>1, <3>2
    <2>5. ASSUME NEW i \in 1..left
          PROVE  decoder'.buffer_[decoder'.offset_ + i] = stream[(c + o) + i]
        <3>1. o # k /\ o + i \in 1..k /\ c + (o + i) = (c + o) + i
            BY ONLY <1>3, <1>6, <2>2, i \in 1..left
        <3> QED BY <1>8, <2>1, <3>1
    <2> HIDE DEF left
    <2>6. Inside(stream, c + o, left)
        BY <1>10, <1>13 DEF left
    <2> QED BY <1>1, <1>4, <1>6, <1>7, <1>11, <2>1, <2>2, <2>3, <2>4, <2>5, <2>6 DEF FramesInv, len
<1> QED BY <1>12, <1>13

(* The state a decoder begins with, with what is left of a stream.         *)
LEMMA FreshDecoder ==
    ASSUME NEW data \in Payloads
    PROVE  /\ NewDecoder \in Decoders /\ NewDecoder.failed_ = FALSE
           /\ NewDecoder.offset_ = 0 /\ Len(NewDecoder.buffer_) = 0
           /\ <<>> \in Seq(Payloads) /\ 0 \in 0..Len(data) /\ Reference(data)[0] = Fresh(<<>>)
           /\ Inside(data, 0, 0)
PROOF BY EmptySeq, LenProperties, ReferenceFacts DEF NewDecoder, Decoders, Payloads, Inside

(* With a new decoder, no bytes pushed and no frames returned.             *)
LEMMA FreshFrames ==
    ASSUME stream \in Payloads, pushed = 0, decoder = NewDecoder, returned = <<>>
    PROVE  FramesInv
PROOF
<1>1. /\ decoder \in Decoders /\ decoder.failed_ = FALSE
      /\ decoder.offset_ = 0 /\ Len(decoder.buffer_) = 0
      /\ returned \in Seq(Payloads) /\ 0 \in 0..Len(stream) /\ Reference(stream)[0] = Fresh(returned)
      /\ Inside(stream, 0, 0)
    BY FreshDecoder
<1>2. unread = 0 /\ pushed - unread = 0 /\ decoder.offset_ <= Len(decoder.buffer_)
    BY <1>1 DEF unread
<1> QED BY <1>1, <1>2 DEF FramesInv

(* reset leaves the rest of the stream to a new decoder.                   *)
LEMMA ResetKeepsFrames ==
    ASSUME FramesInv, reset
    PROVE  FramesInv'
PROOF
<1> DEFINE rest == SubSeq(stream, pushed + 1, Len(stream))
<1>1. rest \in Payloads
    <2> DEFINE low == pushed + 1
               high == Len(stream)
    <2>1. low \in Nat \ {0} /\ high \in Nat /\ high <= Len(stream) /\ low <= high + 1 /\ stream \in Seq(Byte)
        BY LenProperties DEF FramesInv, Payloads
    <2> HIDE DEF low, high
    <2>2. SubSeq(stream, low, high) \in Seq(Byte)
        BY <2>1, PartFacts
    <2> QED BY <2>2 DEF low, high, Payloads
<1> HIDE DEF rest
<1>2. stream' = rest /\ pushed' = 0 /\ decoder' = NewDecoder /\ returned' = <<>>
    BY DEF reset, rest
<1>3. /\ NewDecoder \in Decoders /\ NewDecoder.failed_ = FALSE
      /\ NewDecoder.offset_ = 0 /\ Len(NewDecoder.buffer_) = 0
      /\ <<>> \in Seq(Payloads) /\ 0 \in 0..Len(rest) /\ Reference(rest)[0] = Fresh(<<>>)
      /\ Inside(rest, 0, 0)
    BY <1>1, FreshDecoder
<1>4. unread' = 0 /\ pushed' - unread' = 0 /\ decoder'.offset_ <= Len(decoder'.buffer_)
    BY <1>2, <1>3 DEF unread
<1> QED BY <1>1, <1>2, <1>3, <1>4 DEF FramesInv

(* What FramesInv says of the reader after all the bytes pushed.           *)
LEMMA FramesFollowReader ==
    ASSUME FramesInv
    PROVE  LET r == Reference(stream)[pushed]
           IN  /\ decoder.failed_ <=> r.failed
               /\ ~decoder.failed_ => r.frames = returned
               /\ decoder.failed_ => returned = SubSeq(r.frames, 1, Len(returned))
               /\ ~decoder.failed_ => unread < kHeaderSize + kMaxPayloadSize
PROOF
<1> DEFINE r == Reference(stream)[pushed]
           c == pushed - unread
<1>1. CASE decoder.failed_
    <2>1. PICK more \in Seq(Payloads) : r.failed /\ r.frames = returned \o more
        BY <1>1 DEF FramesInv
    <2>2. returned \in Seq(Payloads)
        BY DEF FramesInv
    <2> HIDE DEF r
    <2>3. returned = SubSeq(returned \o more, 1, Len(returned))
        <3> DEFINE whole == returned \o more
                   n == Len(returned)
        <3>1. /\ whole \in Seq(Payloads) /\ n \in Nat /\ Len(more) \in Nat /\ Len(whole) = n + Len(more)
              /\ \A i \in 1..(n + Len(more)) : whole[i] = IF i <= n THEN returned[i] ELSE more[i - n]
            BY <2>2, ConcatProperties, LenProperties
        <3> HIDE DEF whole
        <3>2. n <= Len(whole) /\ 1 \in Nat \ {0} /\ 1 <= n + 1 /\ n <= n /\ n - 1 + 1 = n
            BY <3>1
        <3>3. /\ SubSeq(whole, 1, n) \in Seq(Payloads) /\ Len(SubSeq(whole, 1, n)) = n
              /\ \A i \in 1..n : SubSeq(whole, 1, n)[i] = whole[1 + i - 1]
            BY <3>1, <3>2, PartFacts
        <3>4. ASSUME NEW i \in 1..n
              PROVE  returned[i] = SubSeq(whole, 1, n)[i]
            <4>1. i \in 1..(n + Len(more)) /\ i <= n /\ 1 + i - 1 = i
                BY <3>1
            <4> QED BY <3>1, <3>3, <4>1
        <3> QED BY <2>2, <3>3, <3>4, SeqEqual DEF whole
    <2> QED BY <1>1, <2>1, <2>3 DEF r
<1>2. CASE ~decoder.failed_
    <2>1. /\ stream \in Payloads /\ unread \in Nat /\ c \in Nat /\ c + unread = pushed /\ pushed <= Len(stream)
          /\ Reference(stream)[c] = Fresh(returned) /\ Inside(stream, c, unread)
        <3>1. /\ stream \in Payloads /\ Len(stream) \in Nat /\ pushed \in 0..Len(stream) /\ unread <= pushed
              /\ Reference(stream)[c] = Fresh(returned) /\ Inside(stream, c, unread)
              /\ decoder.offset_ \in Nat /\ Len(decoder.buffer_) \in Nat
              /\ decoder.offset_ <= Len(decoder.buffer_)
            BY <1>2, LenProperties DEF FramesInv, Payloads, Decoders
        <3>2. unread \in Nat
            BY <3>1 DEF unread
        <3> QED BY <3>1, <3>2
    <2> HIDE DEF c
    <2>2. Partial(stream, c, returned, unread, Reference(stream)[c + unread])
        BY <2>1, ReaderInside
    <2>3. r.failed = FALSE /\ r.frames = returned
        BY <2>1, <2>2 DEF Partial
    <2>4. unread < kHeaderSize + kMaxPayloadSize
        <3>1. kMaxPayloadSize \in Nat
            BY ByteFacts
        <3>2. CASE unread < 2
            BY <2>1, <3>1, <3>2 DEF kHeaderSize
        <3>3. CASE ~(unread < 2)
            <4> DEFINE size == stream[c + 2]
            <4>1. size <= kMaxPayloadSize /\ unread < 2 + size
                BY <2>1, <3>3 DEF Inside, HeaderGood
            <4>2. size \in Nat
                <5>1. c + 2 \in 1..Len(stream)
                    BY <2>1, <3>3, LenProperties DEF Payloads
                <5>2. stream[c + 2] \in Byte
                    BY <2>1, <5>1, ElementOfSeq DEF Payloads
                <5> QED BY <5>2, ByteFacts
            <4> HIDE DEF size
            <4> QED BY <2>1, <3>1, <4>1, <4>2 DEF kHeaderSize
        <3> QED BY <3>2, <3>3
    <2> QED BY <1>2, <2>3, <2>4
<1> QED BY <1>1, <1>2

(* Two elements in a sequence.                                             *)
LEMMA TwoInARow ==
    ASSUME NEW S, NEW x \in S, NEW y \in S
    PROVE  Append(<<x>>, y) = <<x, y>>
PROOF
<1> DEFINE one == <<x>>
           two == <<x, y>>
           both == Append(one, y)
<1>1. one \in Seq(S)
    OBVIOUS
<1>2. Len(one) = 1 /\ one[1] = x
    OBVIOUS
<1>3. two \in Seq(S) /\ Len(two) = 2 /\ two[1] = x /\ two[2] = y
    OBVIOUS
<1> HIDE DEF one, two
<1>4. both \in Seq(S) /\ Len(both) = Len(one) + 1
    BY <1>1
<1>5. both[Len(one) + 1] = y
    BY <1>1
<1>6. \A i \in 1..Len(one) : both[i] = one[i]
    BY <1>1
<1> HIDE DEF both
<1>7. Len(both) = 2 /\ \A i \in 1..2 : both[i] = two[i]
    BY <1>2, <1>3, <1>4, <1>5, <1>6
<1> QED BY <1>3, <1>4, <1>7, SeqEqual DEF one, two, both

(* What encode_frame writes: a header and the payload behind it.           *)
LEMMA EncodedFrame ==
    ASSUME NEW p \in Payloads, Len(p) \in 0..kMaxPayloadSize
    PROVE  LET e == encode_frame(p)
           IN  /\ e \in Payloads /\ Len(e) = 2 + Len(p) /\ e[1] = kMagic /\ e[2] = Len(p)
               /\ \A i \in 1..Len(p) : e[2 + i] = p[i]
PROOF
<1> DEFINE h == <<kMagic, Len(p)>>
           n == Len(p)
<1>1. n \in Nat /\ kMagic \in Byte /\ n \in Byte
    BY Limits DEF Byte, kMagic
<1>2. p \in Seq(Byte)
    BY DEF Payloads
<1>3. h \in Seq(Byte) /\ Len(h) = 2 /\ h[1] = kMagic /\ h[2] = n
    BY <1>1
<1> HIDE DEF h, n
<1>4. /\ h \o p \in Seq(Byte) /\ Len(h \o p) = Len(h) + Len(p)
      /\ \A i \in 1..(Len(h) + Len(p)) : (h \o p)[i] = IF i <= Len(h) THEN h[i] ELSE p[i - Len(h)]
    BY ONLY <1>2, <1>3, ConcatProperties
<1>5. /\ Len(h \o p) = 2 + n
      /\ \A i \in 1..(2 + n) : (h \o p)[i] = IF i <= 2 THEN h[i] ELSE p[i - 2]
    BY ONLY <1>3, <1>4 DEF n
<1>6. 1 \in 1..(2 + n) /\ 2 \in 1..(2 + n)
    BY <1>1
<1>7. ASSUME NEW i \in 1..n
      PROVE  (h \o p)[2 + i] = p[i]
    <2>1. 2 + i \in 1..(2 + n) /\ ~(2 + i <= 2) /\ (2 + i) - 2 = i
        BY <1>1
    <2> QED BY <1>5, <2>1
<1>8. (h \o p)[1] = kMagic /\ (h \o p)[2] = n
    BY <1>3, <1>5, <1>6
<1>9. encode_frame(p) = h \o p
    BY Limits DEF encode_frame, h
<1> QED BY <1>4, <1>5, <1>7, <1>8, <1>9 DEF n, Payloads

(* Two frames in a row are read as the two payloads.                       *)
LEMMA TwoFramesAreRead ==
    ASSUME NEW p \in Payloads, Len(p) \in 0..kMaxPayloadSize,
           NEW q \in Payloads, Len(q) \in 0..kMaxPayloadSize,
           NEW data, data = encode_frame(p) \o encode_frame(q)
    PROVE  Reference(data)[Len(data)] = Fresh(<<p, q>>)
PROOF
<1> DEFINE e == encode_frame(p)
           f == encode_frame(q)
           n == Len(p)
           m == Len(q)
           c == 2 + n
<1>1. /\ n \in Nat /\ m \in Nat /\ n <= kMaxPayloadSize /\ m <= kMaxPayloadSize
      /\ c \in Nat /\ 0 + (2 + n) = c /\ 0 + 1 = 1 /\ 0 + 2 = 2 /\ 0 + 3 = 3
    BY Limits
<1>2. /\ e \in Payloads /\ Len(e) = 2 + n /\ e[1] = kMagic /\ e[2] = n
      /\ \A i \in 1..n : e[2 + i] = p[i]
    BY EncodedFrame
<1>3. /\ f \in Payloads /\ Len(f) = 2 + m /\ f[1] = kMagic /\ f[2] = m
      /\ \A i \in 1..m : f[2 + i] = q[i]
    BY EncodedFrame
<1>4. p \in Seq(Byte) /\ q \in Seq(Byte) /\ data = e \o f /\ e \in Seq(Byte) /\ f \in Seq(Byte)
    BY <1>2, <1>3 DEF Payloads
<1> HIDE DEF e, f, n, m
<1>5. /\ e \o f \in Seq(Byte) /\ Len(e \o f) = Len(e) + Len(f)
      /\ \A i \in 1..(Len(e) + Len(f)) : (e \o f)[i] = IF i <= Len(e) THEN e[i] ELSE f[i - Len(e)]
    BY ONLY <1>4, ConcatProperties
<1>6. /\ data \in Seq(Byte) /\ Len(data) = c + (2 + m)
      /\ \A i \in 1..(c + (2 + m)) : data[i] = IF i <= c THEN e[i] ELSE f[i - c]
    BY ONLY <1>2, <1>3, <1>4, <1>5
<1>7. /\ 1 \in 1..(c + (2 + m)) /\ 1 <= c /\ 2 \in 1..(c + (2 + m)) /\ 2 <= c
      /\ c + 1 \in 1..(c + (2 + m)) /\ ~(c + 1 <= c) /\ (c + 1) - c = 1
      /\ c + 2 \in 1..(c + (2 + m)) /\ ~(c + 2 <= c) /\ (c + 2) - c = 2
      /\ c <= c + (2 + m) /\ c + (2 + m) \in Nat
    BY ONLY <1>1
<1>8. data[1] = kMagic /\ data[2] = n /\ data[c + 1] = kMagic /\ data[c + 2] = m
    <2> HIDE DEF c
    <2>1. /\ data[1] = e[1] /\ data[2] = e[2]
          /\ data[c + 1] = f[(c + 1) - c] /\ data[c + 2] = f[(c + 2) - c]
        BY ONLY <1>6, <1>7
    <2> QED BY ONLY <1>2, <1>3, <1>7, <2>1
<1>9. HeaderGood(data, 0) /\ HeaderGood(data, c)
    BY <1>1, <1>8 DEF HeaderGood
<1>10. SubSeq(data, 3, c) = p
    <2> DEFINE low == 3
               part == SubSeq(data, low, c)
    <2>1. low \in Nat \ {0} /\ c \in Nat /\ c <= Len(data) /\ low <= c + 1 /\ c - low + 1 = n
        BY <1>1, <1>6, <1>7
    <2>2. part \in Seq(Byte) /\ Len(part) = c - low + 1 /\ \A i \in 1..(c - low + 1) : part[i] = data[low + i - 1]
        <3> HIDE DEF low, c
        <3> QED BY ONLY <1>6, <2>1, PartFacts
    <2>3. ASSUME NEW i \in 1..n
          PROVE  part[i] = p[i]
        <3>1. low + i - 1 = 2 + i /\ 2 + i \in 1..(c + (2 + m)) /\ 2 + i <= c
            BY ONLY <1>1, i \in 1..n
        <3> QED BY <1>2, <1>6, <2>1, <2>2, <3>1
    <2> HIDE DEF part
    <2>4. part \in Seq(Byte) /\ Len(part) = n
        BY <2>1, <2>2
    <2>5. part = p
        BY <1>4, <2>3, <2>4, SeqEqual DEF n
    <2> QED BY <2>5 DEF part
<1>11. SubSeq(data, c + 3, c + (2 + m)) = q
    <2> DEFINE low == c + 3
               high == c + (2 + m)
               part == SubSeq(data, low, high)
    <2>1. low \in Nat \ {0} /\ high \in Nat /\ high <= Len(data) /\ low <= high + 1 /\ high - low + 1 = m
        BY <1>1, <1>6, <1>7
    <2>2. part \in Seq(Byte) /\ Len(part) = high - low + 1
          /\ \A i \in 1..(high - low + 1) : part[i] = data[low + i - 1]
        <3> HIDE DEF low, high
        <3> QED BY ONLY <1>6, <2>1, PartFacts
    <2>3. ASSUME NEW i \in 1..m
          PROVE  part[i] = q[i]
        <3>1. /\ low + i - 1 \in 1..(c + (2 + m)) /\ ~(low + i - 1 <= c)
              /\ (low + i - 1) - c = 2 + i
            BY ONLY <1>1, i \in 1..m
        <3>2. part[i] = data[low + i - 1]
            BY <2>1, <2>2
        <3>3. data[low + i - 1] = f[(low + i - 1) - c]
            BY <1>6, <3>1
        <3> HIDE DEF low
        <3> QED BY <1>3, <3>1, <3>2, <3>3
    <2> HIDE DEF part
    <2>4. part \in Seq(Byte) /\ Len(part) = m
        BY <2>1, <2>2
    <2>5. part = q
        BY <1>4, <2>3, <2>4, SeqEqual DEF m
    <2> QED BY <2>5 DEF part
<1>12. Reference(data)[0] = Fresh(<<>>) /\ data \in Payloads
    BY <1>6, ReferenceFacts DEF Payloads
<1> HIDE DEF c
<1>13. Reference(data)[c] = Fresh(<<p>>)
    <2> DEFINE z == 0
               none == <<>>
    <2>1. /\ z \in Nat /\ n = data[z + 2] /\ HeaderGood(data, z) /\ z + (2 + n) <= Len(data)
          /\ Reference(data)[z] = Fresh(none) /\ z + (2 + n) = c /\ z + 3 = 3
        BY <1>1, <1>6, <1>7, <1>8, <1>9, <1>12
    <2> HIDE DEF z, none
    <2>2. Reference(data)[z + (2 + n)] = Fresh(Append(none, SubSeq(data, z + 3, z + (2 + n))))
        BY ONLY <1>1, <1>12, <2>1, ReaderCompletes
    <2>3. Append(none, p) = <<p>>
        BY ONLY p \in Payloads DEF none
    <2> QED BY ONLY <1>10, <2>1, <2>2, <2>3
<1>14. Reference(data)[c + (2 + m)] = Fresh(Append(<<p>>, SubSeq(data, c + 3, c + (2 + m))))
    <2>1. c + (2 + m) <= Len(data) /\ m = data[c + 2] /\ HeaderGood(data, c)
        BY <1>6, <1>7, <1>8, <1>9
    <2> QED BY ONLY <1>1, <1>12, <1>13, <2>1, ReaderCompletes
<1>15. Append(<<p>>, q) = <<p, q>>
    BY TwoInARow
<1> QED BY ONLY <1>6, <1>11, <1>14, <1>15

(* The invariant says of every state what DecodesStream says.              *)
LEMMA FramesInvSays == FramesInv => DecodesStream
PROOF
<1> SUFFICES ASSUME FramesInv PROVE DecodesStream
    OBVIOUS
<1> DEFINE r == Reference(stream)[pushed]
           payloads == UNION {[1..n -> Byte] : n \in 0..kMaxPayloadSize}
<1>1. /\ decoder.failed_ <=> r.failed
      /\ ~decoder.failed_ => r.frames = returned
      /\ decoder.failed_ => returned = SubSeq(r.frames, 1, Len(returned))
      /\ ~decoder.failed_ => unread < kHeaderSize + kMaxPayloadSize
    BY FramesFollowReader
<1>2. ASSUME NEW p \in payloads, NEW q \in payloads,
             pushed = Len(stream), stream = encode_frame(p) \o encode_frame(q)
      PROVE  returned = <<p, q>> /\ ~decoder.failed_
    <2>1. \A x \in payloads : x \in Payloads /\ Len(x) \in 0..kMaxPayloadSize
        <3> SUFFICES ASSUME NEW x \in payloads PROVE x \in Payloads /\ Len(x) \in 0..kMaxPayloadSize
            OBVIOUS
        <3>1. PICK n \in 0..kMaxPayloadSize : x \in [1..n -> Byte]
            OBVIOUS
        <3>2. n \in Nat
            BY Limits
        <3> QED BY <3>1, <3>2 DEF Payloads
    <2> HIDE DEF payloads
    <2>2. Reference(stream)[Len(stream)] = Fresh(<<p, q>>)
        BY <1>2, <2>1, TwoFramesAreRead
    <2>3. r.failed = FALSE /\ r.frames = <<p, q>>
        BY <1>2, <2>2 DEF Fresh
    <2> QED BY <1>1, <2>3
<1> HIDE DEF r
<1>3. /\ decoder.failed_ <=> r.failed
      /\ returned = IF r.failed THEN SubSeq(r.frames, 1, Len(returned)) ELSE r.frames
      /\ ~decoder.failed_ => Len(decoder.buffer_) - decoder.offset_ < kHeaderSize + kMaxPayloadSize
    BY <1>1 DEF unread
<1> QED BY <1>2, <1>3 DEF DecodesStream, r

(* Every stream begins with a new decoder.                                 *)
LEMMA FramesInvInit == StreamInit => FramesInv
PROOF
<1> SUFFICES ASSUME StreamInit PROVE FramesInv
    OBVIOUS
<1>1. PICK n \in 0..StreamLength : stream \in [1..n -> Byte]
    BY DEF StreamInit
<1>2. n \in Nat
    BY Limits
<1>3. stream \in Payloads
    BY <1>1, <1>2 DEF Payloads
<1> QED BY <1>3, FreshFrames DEF StreamInit

(* push and reset keep the invariant.                                      *)
LEMMA FramesInvStep == FramesInv /\ [StreamNext]_streamVars => FramesInv'
PROOF
<1> SUFFICES ASSUME FramesInv, [StreamNext]_streamVars PROVE FramesInv'
    OBVIOUS
<1>1. CASE UNCHANGED streamVars
    <2>1. stream' = stream /\ pushed' = pushed /\ decoder' = decoder /\ returned' = returned
        BY <1>1 DEF streamVars
    <2>2. unread' = unread
        BY <2>1 DEF unread
    <2> QED BY <2>1, <2>2 DEF FramesInv
<1>2. CASE StreamNext
    <2>1. ASSUME NEW n \in 0..StreamLength, Arrive(n)
          PROVE  FramesInv'
        <3>1. n \in Nat
            BY Limits
        <3> QED BY <2>1, <3>1, FailedArrive, WorkingArrive
    <2> QED BY <1>2, <2>1, ResetKeepsFrames DEF StreamNext
<1> QED BY <1>1, <1>2

(* FrameDecoder::push finds in every stream of bytes, cut into reads in    *)
(* every way, the frames that a reader of single bytes finds, fails with   *)
(* it on the first bad header, gives back what encode_frame wrote and      *)
(* keeps less than one frame of the largest size: for every limit of a     *)
(* payload and every length of a stream.                                   *)
THEOREM StreamIsDecoded == StreamSpec => []DecodesStream
PROOF
<1>1. FramesInv => DecodesStream
    BY FramesInvSays
<1> QED BY <1>1, FramesInvInit, FramesInvStep, PTL DEF StreamSpec
===============================================================================
