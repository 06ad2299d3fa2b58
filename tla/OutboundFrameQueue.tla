-------------------------- MODULE OutboundFrameQueue --------------------------
(***************************************************************************)
(* core::OutboundFrameQueue, the bounded FIFO of encoded frames in front   *)
(* of a transport.  A frame is what its reader can tell apart, its kind and*)
(* sequence number, and the length of its encoding.  Both limits are       *)
(* constants; the code uses 256 frames and 1 MiB.                          *)
(***************************************************************************)
EXTENDS Naturals, Sequences

CONSTANTS maximum_frames_, maximum_bytes_

ASSUME QueueConstants == maximum_frames_ \in Nat \ {0} /\ maximum_bytes_ \in Nat \ {0}

EmptyQueue == [queue_ |-> <<>>, queued_bytes_ |-> 0]

try_enqueue(q, frame) ==
    IF Len(q.queue_) >= maximum_frames_ \/ frame.size > maximum_bytes_ - q.queued_bytes_
    THEN [queue |-> q, ok |-> FALSE]
    ELSE [queue |-> [queue_ |-> Append(q.queue_, frame),
                     queued_bytes_ |-> q.queued_bytes_ + frame.size], ok |-> TRUE]

IsEmpty(q) == q.queue_ = <<>>

\* Mutant: the newest frame is written first.
FrontNewest(q) == q.queue_[Len(q.queue_)]

front(q) == Head(q.queue_)

pop_front(q) == [queue_ |-> Tail(q.queue_), queued_bytes_ |-> q.queued_bytes_ - front(q).size]
===============================================================================
