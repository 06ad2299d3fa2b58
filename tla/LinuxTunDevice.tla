---------------------------- MODULE LinuxTunDevice ----------------------------
(***************************************************************************)
(* server::LinuxTunDevice.  Its handlers run on one strand; the transfer   *)
(* of a pending read or write is made by whichever thread of the           *)
(* io_context finds the descriptor ready, also while a handler runs.  The  *)
(* only handler in which that shows is stop_on_strand, which empties the   *)
(* write queue before it cancels the pending operations: it is cut there,  *)
(* every other handler is one step.                                        *)
(***************************************************************************)
EXTENDS Naturals, Sequences

CONSTANTS
    maximum_queued_packets_, maximum_queued_bytes_, kMaximumPacketSize,
    MaxPackets,     \* bound on the packets written to the device
    MaxReads        \* bound on the packets read from it

ASSUME PacketSize == kMaximumPacketSize \in Nat

VARIABLES
    device,     \* the object: flags, queue and counters
    read,       \* the pending read: "none", "pending", or its result
    writing,    \* the packets of the pending writes
    wrote,      \* results of completed writes whose handler has not run
    posted,     \* packets posted to the strand
    stops,      \* explicit stops posted to the strand
    next,       \* number of packets posted so far
    reads,      \* number of packets read so far
    kernel      \* the packets the kernel has taken

deviceVars == <<device, read, writing, wrote, posted, stops, next, reads, kernel>>
io == <<read, writing, wrote, kernel>>

Queue == INSTANCE OutboundFrameQueue WITH
    maximum_frames_ <- maximum_queued_packets_, maximum_bytes_ <- maximum_queued_bytes_

NewDevice ==
    [started_ |-> FALSE, stopped_ |-> FALSE, error_handler_ |-> FALSE,
     write_in_progress_ |-> FALSE, write_queue_ |-> Queue!EmptyQueue,
     open |-> TRUE,         \* the descriptor has not been cancelled and closed
     cause |-> "none",      \* what stopped the device: "stop" or "failure"
     report |-> FALSE,      \* fail has the error handler in hand
     delivered |-> 0,       \* calls of the packet handler
     reports |-> 0]         \* calls of the error handler

DeviceInit ==
    /\ device = NewDevice
    /\ read = "none"
    /\ writing = <<>> /\ wrote = <<>>
    /\ posted = <<>> /\ stops = 0
    /\ next = 0 /\ reads = 0
    /\ kernel = <<>>

Ready == device.stopped_ => ~device.open     \* no handler is in the middle of stopping
-------------------------------------------------------------------------------
(* stop_on_strand up to descriptor_.cancel.                                *)
stop_on_strand(d, cause) ==
    IF d.stopped_ THEN d
    ELSE [d EXCEPT !.stopped_ = TRUE, !.write_queue_ = Queue!EmptyQueue,
                   !.error_handler_ = FALSE, !.cause = cause]

fail(d) ==
    IF d.stopped_ THEN d
    ELSE [stop_on_strand(d, "failure") EXCEPT !.report = d.error_handler_]

(* write_next: the device and the packets whose write it starts.           *)
write_next(d) ==
    IF d.stopped_ \/ Queue!IsEmpty(d.write_queue_)
    THEN [d |-> [d EXCEPT !.write_in_progress_ = FALSE], op |-> <<>>]
    ELSE [d |-> [d EXCEPT !.write_in_progress_ = TRUE],
          op |-> <<Queue!front(d.write_queue_)>>]

enqueue_write(d, packet) ==
    LET r == Queue!try_enqueue(d.write_queue_, packet)
        e == [d EXCEPT !.write_queue_ = r.queue]
    IN  IF d.stopped_ THEN [d |-> d, op |-> <<>>]
        ELSE IF ~d.started_ \/ packet.size = 0 \/ packet.size > kMaximumPacketSize \/ ~r.ok
        THEN [d |-> fail(d), op |-> <<>>]
        ELSE IF e.write_in_progress_ THEN [d |-> e, op |-> <<>>] ELSE write_next(e)

\* Mutant: a packet that has been written stays in the queue.
HandleWriteKeeping(d, transferred) ==
    IF d.stopped_ THEN [d |-> d, op |-> <<>>]
    ELSE IF Queue!IsEmpty(d.write_queue_) \/ transferred # Queue!front(d.write_queue_).size
    THEN [d |-> fail(d), op |-> <<>>]
    ELSE write_next(d)

(* handle_write for a write of `transferred` bytes, 0 standing for error.  *)
handle_write(d, transferred) ==
    IF d.stopped_ THEN [d |-> d, op |-> <<>>]
    ELSE IF Queue!IsEmpty(d.write_queue_) \/ transferred # Queue!front(d.write_queue_).size
    THEN [d |-> fail(d), op |-> <<>>]
    ELSE write_next([d EXCEPT !.write_queue_ = Queue!pop_front(@)])
-------------------------------------------------------------------------------
(* start, dispatched by the server; a second start fails the device.       *)
Start ==
    /\ Ready
    /\ device' = IF device.stopped_ THEN device
                 ELSE IF device.started_ THEN fail(device)
                 ELSE [device EXCEPT !.started_ = TRUE, !.error_handler_ = TRUE]
    /\ read' = IF device.stopped_ \/ device.started_ THEN read ELSE "pending"
    /\ UNCHANGED <<writing, wrote, posted, stops, next, reads, kernel>>

(* async_write_packet, from the strand of any session.                     *)
PostWrite(size) ==
    /\ next < MaxPackets
    /\ next' = next + 1
    /\ posted' = Append(posted, [id |-> next, size |-> size])
    /\ UNCHANGED <<device, io, stops, reads>>

EnqueueWrite ==
    LET r == enqueue_write(device, Head(posted))
    IN  /\ Ready /\ posted # <<>>
        /\ posted' = Tail(posted)
        /\ device' = r.d
        /\ writing' = writing \o r.op
        /\ UNCHANGED <<read, wrote, stops, next, reads, kernel>>

(* A pending write is carried out, in full, in part or with an error.      *)
KernelWrite(transferred) ==
    /\ writing # <<>>
    /\ transferred <= Head(writing).size
    /\ writing' = Tail(writing)
    /\ wrote' = Append(wrote, transferred)
    /\ kernel' = IF transferred > 0 THEN Append(kernel, Head(writing).id) ELSE kernel
    /\ UNCHANGED <<device, read, posted, stops, next, reads>>

HandleWrite ==
    LET r == handle_write(device, Head(wrote))
    IN  /\ Ready /\ wrote # <<>>
        /\ wrote' = Tail(wrote)
        /\ device' = r.d
        /\ writing' = writing \o r.op
        /\ UNCHANGED <<read, posted, stops, next, reads, kernel>>

KernelRead(result) ==
    /\ read = "pending"
    /\ reads < MaxReads
    /\ read' = result
    /\ reads' = reads + 1
    /\ UNCHANGED <<device, writing, wrote, posted, stops, next, kernel>>

(* handle_read; a read of zero bytes is an error too.                      *)
HandleRead ==
    /\ Ready /\ read \in {"packet", "error"}
    /\ device' = IF read = "packet" /\ ~device.stopped_
                 THEN [device EXCEPT !.delivered = @ + 1] ELSE fail(device)
    /\ read' = IF read = "packet" /\ ~device.stopped_ THEN "pending" ELSE "none"
    /\ UNCHANGED <<writing, wrote, posted, stops, next, reads, kernel>>

(* stop, from the server's strand.                                         *)
PostStop ==
    /\ stops = 0
    /\ stops' = 1
    /\ UNCHANGED <<device, io, posted, next, reads>>

\* Mutant: the error handler is called for every stop.
StopReporting ==
    /\ Ready /\ stops = 1
    /\ stops' = 2
    /\ device' = IF device.stopped_ THEN device
                 ELSE [stop_on_strand(device, "stop") EXCEPT !.report = device.error_handler_]
    /\ UNCHANGED <<io, posted, next, reads>>

RunStop ==
    /\ Ready /\ stops = 1
    /\ stops' = 2
    /\ device' = stop_on_strand(device, "stop")
    /\ UNCHANGED <<io, posted, next, reads>>

\* Mutant: only the pending write is cancelled.
CancelReadLeft ==
    /\ ~Ready
    /\ device' = [device EXCEPT !.open = FALSE, !.report = FALSE,
                                !.reports = IF device.report THEN @ + 1 ELSE @]
    /\ writing' = <<>>
    /\ UNCHANGED <<read, wrote, posted, stops, next, reads, kernel>>

(* The rest of stop_on_strand: the pending operations are cancelled, and   *)
(* fail then calls the error handler.                                      *)
Cancel ==
    /\ ~Ready
    /\ device' = [device EXCEPT !.open = FALSE, !.report = FALSE,
                                !.reports = IF device.report THEN @ + 1 ELSE @]
    /\ read' = IF read = "pending" THEN "none" ELSE read
    /\ writing' = <<>>
    /\ UNCHANGED <<wrote, posted, stops, next, reads, kernel>>

DeviceNext ==
    \/ Start \/ EnqueueWrite \/ HandleWrite \/ HandleRead
    \/ \E size \in 0..(kMaximumPacketSize + 1) : PostWrite(size)
    \/ \E transferred \in 0..kMaximumPacketSize : KernelWrite(transferred)
    \/ \E result \in {"packet", "error"} : KernelRead(result)
    \/ PostStop \/ RunStop \/ Cancel

DeviceFairness ==
    /\ WF_deviceVars(RunStop) /\ WF_deviceVars(Cancel)
    /\ WF_deviceVars(EnqueueWrite) /\ WF_deviceVars(HandleWrite) /\ WF_deviceVars(HandleRead)

DeviceSpec == DeviceInit /\ [][DeviceNext]_deviceVars /\ DeviceFairness
-------------------------------------------------------------------------------
(* The kernel receives the packets in the order they were posted, none     *)
(* twice and none left out, until the device stops.  At most one write is  *)
(* pending or completed but unhandled.  As long as the device runs there   *)
(* is one whenever a packet is queued, and a read always: no handler       *)
(* forgets to go on.                                                       *)
PacketsInOrder ==
    /\ \A i \in 1..Len(kernel) : kernel[i] = i - 1
    /\ Len(writing) + Len(wrote) <= 1
    /\ device.started_ /\ ~device.stopped_ => read # "none"
    /\ ~device.stopped_ => (Len(writing) + Len(wrote) = 1
                            <=> ~Queue!IsEmpty(device.write_queue_))

(* The failure of a started device is reported exactly once, also when a   *)
(* second operation fails; an explicit stop is never reported, also when   *)
(* an operation fails because of it.                                       *)
FailureReportedOnce ==
    /\ device.reports > 0 => device.cause = "failure"
    /\ device.cause = "failure" /\ device.started_ /\ ~device.open => device.reports = 1

Released == ~device.open /\ writing = <<>> /\ wrote = <<>> /\ read = "none" /\ posted = <<>>

(* After stop, called at any moment, the device drains what other threads  *)
(* have posted and completed.                                              *)
StopReleases == stops > 0 ~> Released

(* What the documentation says of a packet to be written: it stays in the  *)
(* queue until the kernel has taken it.                                    *)
PendingWriteIsQueued ==
    \A i \in 1..Len(writing) :
        \E j \in 1..Len(device.write_queue_.queue_) :
            device.write_queue_.queue_[j] = writing[i]
===============================================================================
