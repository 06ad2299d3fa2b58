--------------------------- MODULE HostNetworkProofs ---------------------------
(***************************************************************************)
(* What the two ends do to the network of their hosts.                     *)
(* The server's device, for any limits of its queue, any number and sizes  *)
(* of packets and any results of the operations: what the kernel takes is  *)
(* what was posted, in that order, and a failure is reported once.         *)
(* ClientNetworkTransaction for every list of routes, every state of the   *)
(* host and any number of activations: the members of the transaction say  *)
(* exactly what the client has made, whichever call throws, and what was   *)
(* made last is undone first.                                              *)
(***************************************************************************)
EXTENDS LinuxTunDevice, ClientNetworkTransaction, Integers, SequenceTheorems, TLAPS

USE PacketSize, Profiles

Packets == [id : Nat, size : Nat]
Queues == [queue_ : Seq(Packets), queued_bytes_ : Int]
Devices ==
    [started_ : BOOLEAN, stopped_ : BOOLEAN, error_handler_ : BOOLEAN,
     write_in_progress_ : BOOLEAN, write_queue_ : Queues, open : BOOLEAN,
     cause : {"none", "stop", "failure"}, report : BOOLEAN, delivered : Nat, reports : Nat]

DeviceTypeInv ==
    /\ device \in Devices
    /\ read \in {"none", "pending", "packet", "error"}
    /\ writing \in Seq(Packets) /\ wrote \in Seq(Nat) /\ posted \in Seq(Packets)
    /\ next \in Nat /\ kernel \in Seq(Nat)

(* Packets are numbered one after the other, beginning with n.             *)
NumberedFrom(packets, n) == \A i \in 1..Len(packets) : packets[i].id = n + i - 1

queued == device.write_queue_.queue_

(* The packets that have left the queue: of those the kernel has taken,    *)
(* the one whose handler has not run is still there.                       *)
Handled == Len(kernel) - (IF Len(wrote) = 1 /\ wrote[1] > 0 THEN 1 ELSE 0)

(* The kernel has a prefix of what was posted.  While the device runs the  *)
(* queue continues where the handled writes end, and what is posted where  *)
(* the queue ends.                                                         *)
DeviceOrderInv ==
    /\ \A i \in 1..Len(kernel) : kernel[i] = i - 1
    /\ Len(writing) = 1 => writing[1].id = Len(kernel)
    /\ ~device.stopped_ =>
          /\ NumberedFrom(queued, Handled)
          /\ NumberedFrom(posted, Handled + Len(queued))
          /\ next = Handled + Len(queued) + Len(posted)

(* One write is under way if and only if the queue of a running device has *)
(* a packet.  No packet in the queue is empty, so that a write of its size *)
(* has reached the kernel.                                                 *)
WriteInv ==
    /\ Len(writing) + Len(wrote) <= 1
    /\ ~device.stopped_ =>
          /\ device.write_in_progress_ <=> Len(queued) > 0
          /\ Len(writing) + Len(wrote) = IF Len(queued) > 0 THEN 1 ELSE 0
          /\ \A i \in 1..Len(queued) : queued[i].size > 0
          /\ device.started_ => read # "none"

(* The error handler is in the device until it stops, in the hands of fail *)
(* until the operations are cancelled, and called then.                    *)
Reports(d) ==
    LET failed == d.cause = "failure" /\ d.started_
    IN  IF ~d.stopped_
        THEN /\ d.open /\ d.cause = "none" /\ ~d.report /\ d.reports = 0
             /\ d.error_handler_ <=> d.started_
        ELSE /\ d.cause # "none"
             /\ d.report <=> d.open /\ failed
             /\ d.reports = IF ~d.open /\ failed THEN 1 ELSE 0

DeviceInv == DeviceTypeInv /\ DeviceOrderInv /\ WriteInv /\ Reports(device)
-------------------------------------------------------------------------------
(* A queue without packets.                                                *)
LEMMA EmptyFacts == Queue!EmptyQueue \in Queues /\ Queue!EmptyQueue.queue_ = <<>>
PROOF
<1>1. <<>> \in Seq(Packets)
    OBVIOUS
<1> QED BY <1>1 DEF Queues, Queue!EmptyQueue

(* A packet that try_enqueue accepts is the last one of the queue.         *)
LEMMA EnqueueFacts ==
    ASSUME NEW q \in Queues, NEW p \in Packets
    PROVE  LET r == Queue!try_enqueue(q, p)
           IN  /\ r.queue \in Queues
               /\ r.ok \in BOOLEAN
               /\ r.ok => r.queue.queue_ = Append(q.queue_, p)
PROOF
<1>1. q.queue_ \in Seq(Packets) /\ q.queued_bytes_ \in Int /\ p.size \in Nat
    BY DEF Queues, Packets
<1>2. Append(q.queue_, p) \in Seq(Packets) /\ q.queued_bytes_ + p.size \in Int
    BY <1>1
<1> QED BY <1>2 DEF Queues, Queue!try_enqueue

(* pop_front takes the first packet away.                                  *)
LEMMA PopFacts ==
    ASSUME NEW q \in Queues, ~Queue!IsEmpty(q)
    PROVE  /\ Queue!pop_front(q) \in Queues
           /\ Queue!pop_front(q).queue_ = Tail(q.queue_)
           /\ Queue!front(q) = q.queue_[1] /\ q.queue_[1] \in Packets
           /\ Len(q.queue_) > 0
PROOF
<1>1. q.queue_ \in Seq(Packets) /\ q.queued_bytes_ \in Int /\ q.queue_ # <<>>
    BY DEF Queues, Queue!IsEmpty
<1>2. Tail(q.queue_) \in Seq(Packets) /\ Head(q.queue_) = q.queue_[1] /\ q.queue_[1] \in Packets
      /\ Len(q.queue_) > 0
    BY <1>1
<1>3. Queue!front(q) = q.queue_[1] /\ Queue!front(q).size \in Nat
    BY <1>2 DEF Queue!front, Packets
<1>4. q.queued_bytes_ - Queue!front(q).size \in Int
    BY <1>1, <1>3
<1> QED BY <1>2, <1>3, <1>4 DEF Queues, Queue!pop_front

(* IsEmpty, by the number of packets.                                      *)
LEMMA EmptyIsNone ==
    ASSUME NEW q \in Queues
    PROVE  Queue!IsEmpty(q) <=> ~(Len(q.queue_) > 0)
PROOF
<1>1. q.queue_ \in Seq(Packets)
    BY DEF Queues
<1> QED BY <1>1 DEF Queue!IsEmpty

(* The end of a sequence after its first member.                           *)
LEMMA TailFacts ==
    ASSUME NEW S, NEW s \in Seq(S), s # <<>>
    PROVE  /\ Tail(s) \in Seq(S) /\ Len(s) \in Nat \ {0} /\ Len(Tail(s)) = Len(s) - 1
           /\ \A i \in 1..(Len(s) - 1) : Tail(s)[i] = s[i + 1]
           /\ Head(s) = s[1] /\ s[1] \in S
PROOF OBVIOUS

(* A sequence with one more member.                                        *)
LEMMA AppendFacts ==
    ASSUME NEW S, NEW s \in Seq(S), NEW e \in S
    PROVE  /\ Append(s, e) \in Seq(S) /\ Len(s) \in Nat /\ Len(Append(s, e)) = Len(s) + 1
           /\ \A i \in 1..Len(s) : Append(s, e)[i] = s[i]
           /\ Append(s, e)[Len(s) + 1] = e
PROOF OBVIOUS

(* Starting nothing, or one operation when there is none.                  *)
LEMMA StartedFacts ==
    ASSUME NEW S, NEW s \in Seq(S)
    PROVE  /\ s \o <<>> = s
           /\ \A e \in S : Len(s) = 0 => s \o <<e>> = <<e>>
PROOF
<1>1. s \o <<>> = s
    OBVIOUS
<1>2. ASSUME NEW e \in S, Len(s) = 0 PROVE s \o <<e>> = <<e>>
    <2>1. s = <<>>
        BY <1>2
    <2> QED BY <2>1
<1> QED BY <1>1, <1>2

(* Packets are numbered on after the first has gone.                       *)
LEMMA TailNumbered ==
    ASSUME NEW s \in Seq(Packets), s # <<>>, NEW n \in Int, NumberedFrom(s, n)
    PROVE  NumberedFrom(Tail(s), n + 1) /\ s[1].id = n
PROOF
<1>1. /\ Len(s) \in Nat \ {0} /\ Len(Tail(s)) = Len(s) - 1
      /\ \A i \in 1..(Len(s) - 1) : Tail(s)[i] = s[i + 1]
    BY TailFacts
<1>2. \A i \in 1..Len(s) : s[i].id = n + i - 1
    BY DEF NumberedFrom
<1>3. ASSUME NEW i \in 1..(Len(s) - 1) PROVE Tail(s)[i].id = (n + 1) + i - 1
    <2>1. i + 1 \in 1..Len(s)
        BY <1>1
    <2>2. s[i + 1].id = n + (i + 1) - 1
        BY <1>2, <2>1
    <2> QED BY <1>1, <2>2
<1>4. s[1].id = n
    BY <1>1, <1>2
<1> QED BY <1>1, <1>3, <1>4 DEF NumberedFrom

(* A packet with the next number continues the numbers.                    *)
LEMMA AppendNumbered ==
    ASSUME NEW s \in Seq(Packets), NEW p \in Packets, NEW n \in Int, NumberedFrom(s, n),
           p.id = n + Len(s)
    PROVE  NumberedFrom(Append(s, p), n)
PROOF
<1>1. /\ Len(s) \in Nat /\ Len(Append(s, p)) = Len(s) + 1
      /\ \A i \in 1..Len(s) : Append(s, p)[i] = s[i]
      /\ Append(s, p)[Len(s) + 1] = p
    BY AppendFacts
<1>2. \A i \in 1..Len(s) : s[i].id = n + i - 1
    BY DEF NumberedFrom
<1>3. ASSUME NEW i \in 1..(Len(s) + 1) PROVE Append(s, p)[i].id = n + i - 1
    <2>1. CASE i \in 1..Len(s)
        BY <1>1, <1>2, <2>1
    <2>2. CASE i = Len(s) + 1
        BY <1>1, <2>2
    <2> QED BY <1>1, <2>1, <2>2
<1> QED BY <1>1, <1>3 DEF NumberedFrom
-------------------------------------------------------------------------------
(* The fields that an operation on the queue leaves as they are.           *)
SameState(d, e) ==
    /\ e.started_ = d.started_ /\ e.stopped_ = d.stopped_ /\ e.error_handler_ = d.error_handler_
    /\ e.open = d.open /\ e.cause = d.cause /\ e.report = d.report /\ e.reports = d.reports

(* What a report says of the device does not depend on its queue.          *)
LEMMA SameReports ==
    ASSUME NEW d, NEW e, SameState(d, e), Reports(d)
    PROVE  Reports(e)
PROOF BY DEF SameState, Reports

(* stop_on_strand without an error leaves nothing to report.               *)
LEMMA StopFacts ==
    ASSUME NEW d \in Devices, Reports(d)
    PROVE  LET e == stop_on_strand(d, "stop")
           IN  e \in Devices /\ Reports(e) /\ e.stopped_
PROOF
<1> DEFINE e == stop_on_strand(d, "stop")
<1>1. CASE d.stopped_
    BY <1>1 DEF stop_on_strand
<1>2. CASE ~d.stopped_
    <2>1. e \in Devices
        BY <1>2, EmptyFacts, Zenon DEF stop_on_strand, Devices
    <2>2. /\ e.stopped_ = TRUE /\ e.cause = "stop" /\ e.report = d.report /\ e.reports = d.reports
          /\ e.open = d.open /\ e.started_ = d.started_
        BY <1>2 DEF stop_on_strand, Devices
    <2>3. d.open /\ ~d.report /\ d.reports = 0
        BY <1>2 DEF Reports
    <2>4. e.report \in BOOLEAN /\ e.open \in BOOLEAN
        BY <2>1 DEF Devices
    <2> HIDE DEF e
    <2>5. Reports(e)
        BY <2>2, <2>3, <2>4 DEF Reports
    <2> QED BY <2>1, <2>2, <2>5 DEF e
<1> QED BY <1>1, <1>2

(* fail stops the device and has the error handler in hand if the device   *)
(* had been started.                                                       *)
LEMMA FailFacts ==
    ASSUME NEW d \in Devices, Reports(d)
    PROVE  fail(d) \in Devices /\ Reports(fail(d)) /\ fail(d).stopped_
PROOF
<1> DEFINE e == fail(d)
<1>1. CASE d.stopped_
    BY <1>1 DEF fail
<1>2. CASE ~d.stopped_
    <2>1. e \in Devices
        BY <1>2, EmptyFacts, Zenon DEF stop_on_strand, fail, Devices
    <2>2. /\ e.stopped_ = TRUE /\ e.cause = "failure" /\ e.report = d.error_handler_
          /\ e.reports = d.reports /\ e.open = d.open /\ e.started_ = d.started_
        BY <1>2 DEF stop_on_strand, fail, Devices
    <2>3. d.open /\ ~d.report /\ d.reports = 0 /\ (d.error_handler_ <=> d.started_)
        BY <1>2 DEF Reports
    <2>4. d.started_ \in BOOLEAN /\ e.open \in BOOLEAN
        BY <2>1 DEF Devices
    <2> HIDE DEF e
    <2>5. Reports(e)
        BY <2>2, <2>3, <2>4 DEF Reports
    <2> QED BY <2>1, <2>2, <2>5 DEF e
<1> QED BY <1>1, <1>2

(* write_next starts the write of the first packet, if there is one.       *)
LEMMA WriteNextFacts ==
    ASSUME NEW d \in Devices, ~d.stopped_
    PROVE  LET r == write_next(d)
               q == d.write_queue_.queue_
           IN  /\ r.d \in Devices /\ SameState(d, r.d) /\ r.d.write_queue_ = d.write_queue_
               /\ r.d.write_in_progress_ <=> Len(q) > 0
               /\ r.op = IF Len(q) > 0 THEN <<q[1]>> ELSE <<>>
PROOF
<1> DEFINE r == write_next(d)
           q == d.write_queue_.queue_
<1>1. d.write_queue_ \in Queues
    BY DEF Devices
<1>2. CASE Len(q) > 0
    <2>1. ~Queue!IsEmpty(d.write_queue_)
        BY <1>1, <1>2, EmptyIsNone
    <2>2. r.d = [d EXCEPT !.write_in_progress_ = TRUE] /\ r.op = <<q[1]>>
        BY <1>1, <2>1, PopFacts DEF write_next
    <2>3. /\ r.d \in Devices /\ SameState(d, r.d) /\ r.d.write_queue_ = d.write_queue_
          /\ r.d.write_in_progress_ = TRUE
        BY <2>2, Zenon DEF Devices, SameState
    <2> QED BY <1>2, <2>2, <2>3
<1>3. CASE ~(Len(q) > 0)
    <2>1. Queue!IsEmpty(d.write_queue_)
        BY <1>1, <1>3, EmptyIsNone
    <2>2. r.d = [d EXCEPT !.write_in_progress_ = FALSE] /\ r.op = <<>>
        BY <2>1 DEF write_next
    <2>3. /\ r.d \in Devices /\ SameState(d, r.d) /\ r.d.write_queue_ = d.write_queue_
          /\ r.d.write_in_progress_ = FALSE
        BY <2>2, Zenon DEF Devices, SameState
    <2> QED BY <1>3, <2>2, <2>3
<1> QED BY <1>2, <1>3

(* enqueue_write on a running device fails it, or appends the packet and   *)
(* starts its write if none is in progress.                                *)
LEMMA EnqueueWriteFacts ==
    ASSUME NEW d \in Devices, Reports(d), ~d.stopped_, NEW p \in Packets,
           d.write_in_progress_ <=> Len(d.write_queue_.queue_) > 0
    PROVE  LET r == enqueue_write(d, p)
               q == d.write_queue_.queue_
           IN  /\ r.d \in Devices /\ Reports(r.d)
               /\ r.d.stopped_ => r.op = <<>>
               /\ ~r.d.stopped_ =>
                     /\ r.d.started_ = d.started_
                     /\ r.d.write_queue_.queue_ = Append(q, p) /\ p.size > 0
                     /\ r.d.write_in_progress_
                     /\ r.op = IF Len(q) > 0 THEN <<>> ELSE <<p>>
PROOF
<1> DEFINE r == enqueue_write(d, p)
           q == d.write_queue_.queue_
           t == Queue!try_enqueue(d.write_queue_, p)
           e == [d EXCEPT !.write_queue_ = t.queue]
           bad == ~d.started_ \/ p.size = 0 \/ p.size > kMaximumPacketSize \/ ~t.ok
<1>1. d.write_queue_ \in Queues /\ q \in Seq(Packets) /\ p.size \in Nat
    BY DEF Devices, Queues, Packets
<1>2. t.queue \in Queues /\ (t.ok => t.queue.queue_ = Append(q, p))
    BY <1>1, EnqueueFacts
<1> HIDE DEF t
<1>3. CASE bad
    <2>1. r.d = fail(d) /\ r.op = <<>>
        BY <1>3 DEF enqueue_write, t
    <2> HIDE DEF r
    <2>2. r.d \in Devices /\ Reports(r.d) /\ r.d.stopped_
        BY <2>1, FailFacts
    <2> QED BY <2>1, <2>2 DEF r
<1>4. CASE ~bad
    <2>1. e \in Devices /\ SameState(d, e) /\ e.write_queue_ = t.queue
          /\ e.write_in_progress_ = d.write_in_progress_
        BY <1>2 DEF Devices, SameState
    <2>2. e.write_queue_.queue_ = Append(q, p) /\ p.size > 0
        BY <1>1, <1>2, <1>4, <2>1
    <2>3. r = IF e.write_in_progress_ THEN [d |-> e, op |-> <<>>] ELSE write_next(e)
        BY <1>4 DEF enqueue_write, t
    <2>4. ~e.stopped_ /\ e.started_ = d.started_ /\ Reports(e)
        BY <2>1, SameReports, Zenon DEF SameState
    <2> HIDE DEF e, r
    <2>5. CASE Len(q) > 0
        <3>1. e.write_in_progress_
            BY <2>1, <2>5
        <3>2. r.d = e /\ r.op = <<>>
            BY <2>3, <3>1
        <3> QED BY <2>1, <2>2, <2>4, <2>5, <3>1, <3>2 DEF r
    <2>6. CASE ~(Len(q) > 0)
        <3>1. r = write_next(e)
            BY <2>1, <2>3, <2>6
        <3>2. Len(Append(q, p)) > 0 /\ Append(q, p)[1] = p
            BY <1>1, <2>6
        <3>3. /\ r.d \in Devices /\ SameState(e, r.d) /\ r.d.write_queue_ = e.write_queue_
              /\ r.d.write_in_progress_ /\ r.op = <<p>>
            BY <2>1, <2>2, <2>4, <3>1, <3>2, WriteNextFacts, Zenon
        <3>4. ~r.d.stopped_ /\ r.d.started_ = d.started_ /\ Reports(r.d)
            BY <2>4, <3>3, SameReports DEF SameState
        <3> QED BY <2>2, <2>6, <3>3, <3>4 DEF r
    <2> QED BY <2>5, <2>6
<1> QED BY <1>3, <1>4

(* handle_write on a running device fails it, or takes the first packet,   *)
(* written in full, away and starts the next write.                        *)
LEMMA HandleWriteFacts ==
    ASSUME NEW d \in Devices, Reports(d), ~d.stopped_, NEW transferred \in Nat
    PROVE  LET r == handle_write(d, transferred)
               q == d.write_queue_.queue_
           IN  /\ r.d \in Devices /\ Reports(r.d)
               /\ r.d.stopped_ => r.op = <<>>
               /\ ~r.d.stopped_ =>
                     /\ r.d.started_ = d.started_
                     /\ Len(q) > 0 /\ transferred = q[1].size
                     /\ r.d.write_queue_.queue_ = Tail(q)
                     /\ r.d.write_in_progress_ <=> Len(Tail(q)) > 0
                     /\ r.op = IF Len(Tail(q)) > 0 THEN <<Tail(q)[1]>> ELSE <<>>
PROOF
<1> DEFINE r == handle_write(d, transferred)
           q == d.write_queue_.queue_
           t == Queue!pop_front(d.write_queue_)
           e == [d EXCEPT !.write_queue_ = t]
           bad == Queue!IsEmpty(d.write_queue_) \/ transferred # Queue!front(d.write_queue_).size
<1>1. d.write_queue_ \in Queues
    BY DEF Devices
<1> HIDE DEF t
<1>2. CASE bad
    <2>1. r.d = fail(d) /\ r.op = <<>>
        BY <1>2 DEF handle_write
    <2> HIDE DEF r
    <2>2. r.d \in Devices /\ Reports(r.d) /\ r.d.stopped_
        BY <2>1, FailFacts
    <2> QED BY <2>1, <2>2 DEF r
<1>3. CASE ~bad
    <2>1. /\ t \in Queues /\ t.queue_ = Tail(q) /\ Len(q) > 0 /\ transferred = q[1].size
        BY <1>1, <1>3, PopFacts DEF t
    <2>2. e \in Devices /\ SameState(d, e) /\ e.write_queue_ = t
        BY <2>1 DEF Devices, SameState
    <2>3. r = write_next(e)
        BY <1>3 DEF handle_write, t
    <2>4. ~e.stopped_ /\ e.started_ = d.started_ /\ Reports(e) /\ e.write_queue_.queue_ = Tail(q)
        BY <2>1, <2>2, SameReports, Zenon DEF SameState
    <2> HIDE DEF e, r
    <2>5. /\ r.d \in Devices /\ SameState(e, r.d) /\ r.d.write_queue_ = e.write_queue_
          /\ r.d.write_in_progress_ <=> Len(Tail(q)) > 0
          /\ r.op = IF Len(Tail(q)) > 0 THEN <<Tail(q)[1]>> ELSE <<>>
        <3> DEFINE u == e.write_queue_.queue_
        <3>1. /\ r.d \in Devices /\ SameState(e, r.d) /\ r.d.write_queue_ = e.write_queue_
              /\ r.d.write_in_progress_ <=> Len(u) > 0
              /\ r.op = IF Len(u) > 0 THEN <<u[1]>> ELSE <<>>
            BY <2>2, <2>3, <2>4, WriteNextFacts, Zenon
        <3>2. u = Tail(q)
            BY <2>4
        <3> HIDE DEF u
        <3> QED BY <3>1, <3>2
    <2>6. ~r.d.stopped_ /\ r.d.started_ = d.started_ /\ Reports(r.d)
        BY <2>4, <2>5, SameReports DEF SameState
    <2> QED BY <2>1, <2>4, <2>5, <2>6 DEF r
<1> QED BY <1>2, <1>3
-------------------------------------------------------------------------------
(* The types of what the invariant counts.                                 *)
LEMMA Numbers ==
    ASSUME DeviceInv
    PROVE  /\ queued \in Seq(Packets) /\ Len(queued) \in Nat /\ Len(posted) \in Nat
           /\ Len(kernel) \in Nat /\ Len(writing) \in Nat /\ Len(wrote) \in Nat /\ Handled \in Int
PROOF
<1>1. device.write_queue_ \in Queues
    BY DEF DeviceInv, DeviceTypeInv, Devices
<1>2. queued \in Seq(Packets)
    BY <1>1 DEF queued, Queues
<1>3. Len(kernel) \in Nat /\ Len(wrote) \in Nat /\ Len(writing) \in Nat /\ Len(posted) \in Nat
    BY DEF DeviceInv, DeviceTypeInv
<1>4. Handled \in Int
    BY <1>3 DEF Handled
<1> QED BY <1>2, <1>3, <1>4

(* A new device.                                                           *)
LEMMA Initially == DeviceInit => DeviceInv
PROOF
<1> SUFFICES ASSUME DeviceInit PROVE DeviceInv
    OBVIOUS
<1>1. NewDevice \in Devices
    BY EmptyFacts DEF NewDevice, Devices
<1>2. Len(<<>>) = 0 /\ <<>> \in Seq(Packets) /\ <<>> \in Seq(Nat)
    OBVIOUS
<1>3. DeviceTypeInv
    BY <1>1, <1>2 DEF DeviceInit, DeviceTypeInv
<1>4. queued = <<>> /\ ~device.stopped_ /\ ~device.started_ /\ ~device.write_in_progress_
    BY EmptyFacts DEF DeviceInit, NewDevice, queued
<1>5. Handled = 0
    BY <1>2 DEF DeviceInit, Handled
<1>6. DeviceOrderInv
    BY <1>2, <1>4, <1>5 DEF DeviceInit, DeviceOrderInv, NumberedFrom
<1>7. WriteInv
    BY <1>2, <1>4 DEF DeviceInit, WriteInv
<1>8. Reports(device)
    BY DEF DeviceInit, NewDevice, Reports
<1> QED BY <1>3, <1>6, <1>7, <1>8 DEF DeviceInv

(* What a handler that stops the device leaves is in order: no packet      *)
(* follows those the kernel has and the one write that may be pending.     *)
LEMMA StoppedKeeps ==
    ASSUME DeviceInv, DeviceTypeInv', Reports(device)', device'.stopped_, kernel' = kernel,
           writing' = writing, wrote' = wrote \/ (wrote # <<>> /\ wrote' = Tail(wrote))
    PROVE  DeviceInv'
PROOF
<1>1. Len(wrote') <= Len(wrote) /\ Len(wrote') \in Nat
    <2>1. wrote \in Seq(Nat)
        BY DEF DeviceInv, DeviceTypeInv
    <2>2. CASE wrote' = wrote
        BY <2>1, <2>2
    <2>3. CASE wrote # <<>> /\ wrote' = Tail(wrote)
        BY <2>1, <2>3, TailFacts
    <2> QED BY <2>2, <2>3
<1>2. Len(writing) + Len(wrote) <= 1
    BY DEF DeviceInv, WriteInv
<1>3. Len(writing') + Len(wrote') <= 1
    BY <1>1, <1>2, Numbers
<1>4. DeviceOrderInv'
    BY DEF DeviceInv, DeviceOrderInv
<1>5. WriteInv'
    BY <1>3 DEF WriteInv
<1> QED BY <1>4, <1>5 DEF DeviceInv

(* What a step that leaves queue, writes and posted packets alone keeps.   *)
LEMMA OthersKeep ==
    ASSUME DeviceInv, DeviceTypeInv', Reports(device)', UNCHANGED <<writing, wrote, posted, next, kernel>>,
           device'.write_queue_ = device.write_queue_,
           device'.write_in_progress_ = device.write_in_progress_,
           ~device'.stopped_ => ~device.stopped_ /\ (device'.started_ => read' # "none")
    PROVE  DeviceInv'
PROOF
<1>1. Handled' = Handled /\ queued' = queued
    BY DEF Handled, queued
<1>2. DeviceOrderInv'
    BY <1>1 DEF DeviceInv, DeviceOrderInv, NumberedFrom
<1>3. WriteInv'
    BY <1>1 DEF DeviceInv, WriteInv
<1> QED BY <1>2, <1>3 DEF DeviceInv

(* start, also of a device that has been started before.                   *)
LEMMA StartKeeps == ASSUME DeviceInv, Start PROVE DeviceInv'
PROOF
<1>1. device \in Devices /\ Reports(device) /\ DeviceTypeInv
    BY DEF DeviceInv, DeviceTypeInv
<1>2. CASE device.stopped_
    <2>1. device' = device /\ read' = read
        BY <1>2 DEF Start
    <2>2. DeviceTypeInv' /\ Reports(device)'
        BY <1>1, <2>1 DEF Start, DeviceTypeInv
    <2> QED BY <1>2, <2>1, <2>2, OthersKeep DEF Start
<1>3. CASE ~device.stopped_ /\ device.started_
    <2>1. device' = fail(device) /\ read' = read
        BY <1>3 DEF Start
    <2>2. device' \in Devices /\ Reports(device)' /\ device'.stopped_
        BY <1>1, <2>1, FailFacts
    <2>3. DeviceTypeInv'
        BY <1>1, <2>1, <2>2 DEF Start, DeviceTypeInv
    <2> QED BY <2>2, <2>3, StoppedKeeps DEF Start
<1>4. CASE ~device.stopped_ /\ ~device.started_
    <2>1. device' = [device EXCEPT !.started_ = TRUE, !.error_handler_ = TRUE] /\ read' = "pending"
        BY <1>4 DEF Start
    <2>2. device' \in Devices
        BY <1>1, <2>1, Zenon DEF Devices
    <2>3. /\ device'.started_ = TRUE /\ device'.error_handler_ = TRUE
          /\ device'.stopped_ = device.stopped_ /\ device'.open = device.open
          /\ device'.cause = device.cause /\ device'.report = device.report
          /\ device'.reports = device.reports /\ device'.write_queue_ = device.write_queue_
          /\ device'.write_in_progress_ = device.write_in_progress_
        BY <1>1, <2>1 DEF Devices
    <2>4. Reports(device)'
        BY <1>1, <1>4, <2>3 DEF Reports
    <2>5. DeviceTypeInv'
        BY <1>1, <2>1, <2>2 DEF Start, DeviceTypeInv
    <2> QED BY <1>4, <2>1, <2>3, <2>4, <2>5, OthersKeep DEF Start
<1> QED BY <1>2, <1>3, <1>4

(* async_write_packet gives the packet the next number.                    *)
LEMMA PostWriteKeeps ==
    ASSUME DeviceInv, NEW size \in 0..(kMaximumPacketSize + 1), PostWrite(size)
    PROVE  DeviceInv'
PROOF
<1> DEFINE p == [id |-> next, size |-> size]
<1>1. next \in Nat /\ posted \in Seq(Packets) /\ DeviceTypeInv
    BY DEF DeviceInv, DeviceTypeInv
<1>2. p \in Packets /\ p.id = next
    BY <1>1 DEF Packets
<1> HIDE DEF p
<1>3. /\ posted' = Append(posted, p) /\ next' = next + 1
      /\ UNCHANGED <<device, read, writing, wrote, kernel>>
    BY DEF PostWrite, io, p
<1>4. posted' \in Seq(Packets) /\ Len(posted') = Len(posted) + 1
    BY <1>1, <1>2, <1>3, AppendFacts
<1>5. DeviceTypeInv'
    <2>1. next' \in Nat
        BY <1>1, <1>3
    <2> QED BY <1>1, <1>3, <1>4, <2>1 DEF DeviceTypeInv
<1>6. Handled' = Handled /\ queued' = queued
    BY <1>3 DEF Handled, queued
<1>7. DeviceOrderInv'
    <2>1. ASSUME ~device.stopped_
          PROVE  /\ NumberedFrom(posted', Handled + Len(queued))
                 /\ next' = Handled + Len(queued) + Len(posted')
        <3>1. NumberedFrom(posted, Handled + Len(queued)) /\ next = Handled + Len(queued) + Len(posted)
            BY <2>1 DEF DeviceInv, DeviceOrderInv
        <3>2. Handled + Len(queued) \in Int
            BY Numbers
        <3>3. p.id = (Handled + Len(queued)) + Len(posted)
            BY <1>2, <3>1
        <3>4. NumberedFrom(posted', Handled + Len(queued))
            BY <1>1, <1>2, <1>3, <3>1, <3>2, <3>3, AppendNumbered
        <3>5. next' = Handled + Len(queued) + Len(posted')
            BY <1>3, <1>4, <3>1, Numbers
        <3> QED BY <3>4, <3>5
    <2> QED BY <1>3, <1>6, <2>1 DEF DeviceInv, DeviceOrderInv, NumberedFrom
<1>8. WriteInv'
    BY <1>3, <1>6 DEF DeviceInv, WriteInv
<1> QED BY <1>3, <1>5, <1>7, <1>8 DEF DeviceInv

(* One packet moves from b others to a.                                    *)
LEMMA OneMoves ==
    ASSUME NEW h \in Int, NEW a \in Nat, NEW b \in Nat
    PROVE  (h + a) + 1 = h + (a + 1) /\ h + a + b = h + (a + 1) + (b - 1)
PROOF OBVIOUS

(* enqueue_write moves the packet from the posted ones to the end of the   *)
(* queue, and to the kernel if it is the only one.                         *)
LEMMA EnqueueWriteKeeps == ASSUME DeviceInv, EnqueueWrite PROVE DeviceInv'
PROOF
<1> DEFINE p == Head(posted)
           r == enqueue_write(device, p)
<1>1. device \in Devices /\ Reports(device) /\ DeviceTypeInv /\ posted \in Seq(Packets) /\ posted # <<>>
    BY DEF DeviceInv, DeviceTypeInv, EnqueueWrite
<1>2. /\ p \in Packets /\ p = posted[1] /\ Tail(posted) \in Seq(Packets)
      /\ Len(Tail(posted)) = Len(posted) - 1
    BY <1>1, TailFacts
<1>3. /\ posted' = Tail(posted) /\ device' = r.d /\ writing' = writing \o r.op
      /\ UNCHANGED <<read, wrote, next, kernel>>
    BY DEF EnqueueWrite
<1>4. writing \in Seq(Packets) /\ wrote \in Seq(Nat)
    BY <1>1 DEF DeviceTypeInv
<1>5. CASE device.stopped_
    <2>1. r.d = device /\ r.op = <<>>
        BY <1>5 DEF enqueue_write
    <2>2. device' = device /\ writing' = writing
        BY <1>3, <1>4, <2>1, StartedFacts
    <2>3. DeviceTypeInv'
        BY <1>1, <1>2, <1>3, <2>2, Zenon DEF DeviceTypeInv
    <2> QED BY <1>1, <1>3, <1>5, <2>2, <2>3, StoppedKeeps
<1>6. CASE ~device.stopped_
    <2> HIDE DEF p
    <2>1. /\ device.write_in_progress_ <=> Len(queued) > 0
          /\ Len(writing) + Len(wrote) = IF Len(queued) > 0 THEN 1 ELSE 0
          /\ \A i \in 1..Len(queued) : queued[i].size > 0
          /\ device.started_ => read # "none"
        BY <1>6 DEF DeviceInv, WriteInv
    <2>2. /\ r.d \in Devices /\ Reports(r.d)
          /\ r.d.stopped_ => r.op = <<>>
          /\ ~r.d.stopped_ =>
                /\ r.d.started_ = device.started_
                /\ r.d.write_queue_.queue_ = Append(queued, p) /\ p.size > 0
                /\ r.d.write_in_progress_
                /\ r.op = IF Len(queued) > 0 THEN <<>> ELSE <<p>>
        BY <1>1, <1>2, <1>6, <2>1, EnqueueWriteFacts DEF queued
    <2> HIDE DEF r
    <2>3. CASE r.d.stopped_
        <3>1. writing' = writing
            BY <1>3, <1>4, <2>2, <2>3, StartedFacts
        <3>2. DeviceTypeInv'
            BY <1>1, <1>2, <1>3, <2>2, <3>1 DEF DeviceTypeInv
        <3>3. Reports(device)' /\ device'.stopped_
            BY <1>3, <2>2, <2>3
        <3> QED BY <1>3, <3>1, <3>2, <3>3, StoppedKeeps
    <2>4. CASE ~r.d.stopped_
        <3>1. /\ queued' = Append(queued, p) /\ p.size > 0 /\ device'.write_in_progress_
              /\ device'.started_ = device.started_ /\ ~device'.stopped_
              /\ r.op = IF Len(queued) > 0 THEN <<>> ELSE <<p>>
            BY <1>3, <2>2, <2>4 DEF queued
        <3>2. /\ Len(queued') = Len(queued) + 1 /\ Len(posted') = Len(posted) - 1
              /\ Len(queued) \in Nat /\ Len(posted) \in Nat /\ Handled \in Int
              /\ \A i \in 1..Len(queued) : queued'[i] = queued[i]
              /\ queued'[Len(queued) + 1] = p /\ queued \in Seq(Packets)
            BY <1>2, <1>3, <3>1, Numbers, AppendFacts
        <3>3. Handled' = Handled
            BY <1>3 DEF Handled
        <3>4. /\ NumberedFrom(queued, Handled) /\ NumberedFrom(posted, Handled + Len(queued))
              /\ next = Handled + Len(queued) + Len(posted)
            BY <1>6 DEF DeviceInv, DeviceOrderInv
        <3>5. NumberedFrom(posted', (Handled + Len(queued)) + 1) /\ p.id = Handled + Len(queued)
            <4>1. Handled + Len(queued) \in Int
                BY <3>2
            <4> QED BY <1>1, <1>2, <1>3, <3>4, <4>1, TailNumbered
        <3>6. NumberedFrom(queued', Handled)
            BY <1>2, <3>1, <3>2, <3>4, <3>5, AppendNumbered
        <3>7. (Handled + Len(queued)) + 1 = Handled + Len(queued')
              /\ next' = Handled + Len(queued') + Len(posted')
            <4>1. /\ (Handled + Len(queued)) + 1 = Handled + (Len(queued) + 1)
                  /\ Handled + Len(queued) + Len(posted) = Handled + (Len(queued) + 1) + (Len(posted) - 1)
                BY <3>2, OneMoves
            <4>2. next' = next
                BY <1>3
            <4> QED BY ONLY <3>2, <3>4, <4>1, <4>2
        <3>8. /\ Len(writing') + Len(wrote') = 1 /\ writing' \in Seq(Packets)
              /\ Len(writing') = 1 => writing'[1].id = Len(kernel)
            <4>1. CASE Len(queued) > 0
                <5>1. writing' = writing /\ wrote' = wrote
                    BY <1>3, <1>4, <3>1, <4>1, StartedFacts
                <5> QED BY <1>4, <2>1, <4>1, <5>1 DEF DeviceInv, DeviceOrderInv
            <4>2. CASE ~(Len(queued) > 0)
                <5>1. Len(writing) = 0 /\ Len(wrote) = 0 /\ Len(queued) = 0
                    BY <2>1, <4>2, Numbers
                <5>2. writing' = <<p>>
                    BY <1>2, <1>3, <1>4, <3>1, <4>2, <5>1, StartedFacts
                <5>3. Handled = Len(kernel) /\ Len(kernel) \in Nat
                    BY <5>1, Numbers DEF Handled
                <5>4. p.id = Len(kernel)
                    BY <3>5, <5>1, <5>3
                <5>5. Len(writing') = 1 /\ writing'[1] = p /\ writing' \in Seq(Packets)
                    BY <1>2, <5>2
                <5> QED BY <1>3, <5>1, <5>4, <5>5
            <4> QED BY <4>1, <4>2
        <3>9. DeviceTypeInv'
            BY <1>1, <1>2, <1>3, <2>2, <3>8 DEF DeviceTypeInv
        <3>10. DeviceOrderInv'
            BY <1>3, <3>3, <3>5, <3>6, <3>7, <3>8 DEF DeviceInv, DeviceOrderInv
        <3>11. \A i \in 1..Len(queued') : queued'[i].size > 0
            <4> TAKE i \in 1..Len(queued')
            <4>1. CASE i \in 1..Len(queued)
                BY <2>1, <3>2, <4>1
            <4>2. CASE i = Len(queued) + 1
                BY <3>1, <3>2, <4>2
            <4> QED BY <3>2, <4>1, <4>2
        <3>12. WriteInv'
            <4>1. Len(queued') > 0
                BY <3>2
            <4> QED BY <1>3, <2>1, <3>1, <3>8, <3>11, <4>1 DEF WriteInv
        <3> QED BY <1>3, <2>2, <3>9, <3>10, <3>12 DEF DeviceInv
    <2> QED BY <2>3, <2>4
<1> QED BY <1>5, <1>6

(* The kernel takes the packet of the pending write; it stays in the queue *)
(* until its handler has run.                                              *)
LEMMA KernelWriteKeeps ==
    ASSUME DeviceInv, NEW transferred \in 0..kMaximumPacketSize, KernelWrite(transferred)
    PROVE  DeviceInv'
PROOF
<1> DEFINE p == Head(writing)
<1>1. DeviceTypeInv /\ writing \in Seq(Packets) /\ wrote \in Seq(Nat) /\ kernel \in Seq(Nat)
      /\ writing # <<>> /\ transferred \in Nat
    BY DEF DeviceInv, DeviceTypeInv, KernelWrite
<1>2. /\ p \in Packets /\ p = writing[1] /\ Tail(writing) \in Seq(Packets)
      /\ Len(Tail(writing)) = Len(writing) - 1 /\ Len(writing) \in Nat \ {0}
    BY <1>1, TailFacts
<1> HIDE DEF p
<1>3. /\ writing' = Tail(writing) /\ wrote' = Append(wrote, transferred)
      /\ kernel' = (IF transferred > 0 THEN Append(kernel, p.id) ELSE kernel)
      /\ UNCHANGED <<device, read, posted, next>>
    BY DEF KernelWrite, p
<1>4. Len(writing) = 1 /\ Len(wrote) = 0
    <2>1. Len(writing) + Len(wrote) <= 1 /\ Len(wrote) \in Nat
        BY <1>1 DEF DeviceInv, WriteInv
    <2> QED BY <1>2, <2>1
<1>5. /\ Len(writing') = 0 /\ Len(wrote') = 1 /\ wrote'[1] = transferred /\ wrote' \in Seq(Nat)
    BY <1>1, <1>2, <1>3, <1>4, AppendFacts
<1>6. p.id = Len(kernel) /\ p.id \in Nat
    BY <1>2, <1>4 DEF DeviceInv, DeviceOrderInv, Packets
<1>7. Handled = Len(kernel) /\ Len(kernel) \in Nat
    BY <1>1, <1>4 DEF Handled
<1>8. /\ kernel' \in Seq(Nat) /\ Handled' = Len(kernel)
      /\ \A i \in 1..Len(kernel') : kernel'[i] = i - 1
    <2>1. \A i \in 1..Len(kernel) : kernel[i] = i - 1
        BY DEF DeviceInv, DeviceOrderInv
    <2>2. CASE transferred > 0
        <3>1. kernel' = Append(kernel, p.id)
            BY <1>3, <2>2
        <3>2. /\ kernel' \in Seq(Nat) /\ Len(kernel') = Len(kernel) + 1
              /\ \A i \in 1..Len(kernel) : kernel'[i] = kernel[i]
              /\ kernel'[Len(kernel) + 1] = p.id
            BY <1>1, <1>6, <3>1, AppendFacts
        <3>3. Handled' = Len(kernel)
            BY <1>5, <1>7, <2>2, <3>2 DEF Handled
        <3>4. ASSUME NEW i \in 1..Len(kernel') PROVE kernel'[i] = i - 1
            <4>1. CASE i \in 1..Len(kernel)
                BY <2>1, <3>2, <4>1
            <4>2. CASE i = Len(kernel) + 1
                BY <1>6, <1>7, <3>2, <4>2
            <4> QED BY <1>7, <3>2, <4>1, <4>2
        <3> QED BY <3>2, <3>3, <3>4
    <2>3. CASE ~(transferred > 0)
        <3>1. kernel' = kernel
            BY <1>3, <2>3
        <3>2. Handled' = Len(kernel)
            BY <1>5, <1>7, <2>3, <3>1 DEF Handled
        <3> QED BY <1>1, <2>1, <3>1, <3>2
    <2> QED BY <2>2, <2>3
<1>9. queued' = queued
    BY <1>3 DEF queued
<1>10. DeviceTypeInv'
    BY <1>1, <1>2, <1>3, <1>5, <1>8 DEF DeviceTypeInv
<1>11. DeviceOrderInv'
    BY <1>3, <1>5, <1>7, <1>8, <1>9 DEF DeviceInv, DeviceOrderInv
<1>12. WriteInv'
    BY <1>3, <1>4, <1>5, <1>9 DEF DeviceInv, WriteInv
<1> QED BY <1>3, <1>10, <1>11, <1>12 DEF DeviceInv

(* handle_write takes the written packet from the queue and starts the     *)
(* write of the next one.                                                  *)
LEMMA HandleWriteKeeps == ASSUME DeviceInv, HandleWrite PROVE DeviceInv'
PROOF
<1> DEFINE t == Head(wrote)
           r == handle_write(device, t)
<1>1. device \in Devices /\ Reports(device) /\ DeviceTypeInv /\ wrote \in Seq(Nat) /\ wrote # <<>>
    BY DEF DeviceInv, DeviceTypeInv, HandleWrite
<1>2. /\ t \in Nat /\ t = wrote[1] /\ Tail(wrote) \in Seq(Nat)
      /\ Len(Tail(wrote)) = Len(wrote) - 1 /\ Len(wrote) \in Nat \ {0}
    BY <1>1, TailFacts
<1>3. /\ wrote' = Tail(wrote) /\ device' = r.d /\ writing' = writing \o r.op
      /\ UNCHANGED <<read, posted, next, kernel>>
    BY DEF HandleWrite
<1>4. writing \in Seq(Packets)
    BY <1>1 DEF DeviceTypeInv
<1>5. Len(writing) = 0 /\ Len(wrote) = 1 /\ Len(wrote') = 0
    <2>1. Len(writing) + Len(wrote) <= 1 /\ Len(writing) \in Nat
        BY <1>4 DEF DeviceInv, WriteInv
    <2> QED BY <1>2, <1>3, <2>1
<1>6. CASE device.stopped_
    <2>1. r.d = device /\ r.op = <<>>
        BY <1>6 DEF handle_write
    <2>2. device' = device /\ writing' = writing
        BY <1>3, <1>4, <2>1, StartedFacts
    <2>3. DeviceTypeInv'
        BY <1>1, <1>2, <1>3, <2>2, Zenon DEF DeviceTypeInv
    <2> QED BY <1>1, <1>3, <1>6, <2>2, <2>3, StoppedKeeps
<1>7. CASE ~device.stopped_
    <2> HIDE DEF t
    <2>1. /\ \A i \in 1..Len(queued) : queued[i].size > 0
          /\ device.started_ => read # "none"
        BY <1>7 DEF DeviceInv, WriteInv
    <2>2. /\ r.d \in Devices /\ Reports(r.d)
          /\ r.d.stopped_ => r.op = <<>>
          /\ ~r.d.stopped_ =>
                /\ r.d.started_ = device.started_
                /\ Len(queued) > 0 /\ t = queued[1].size
                /\ r.d.write_queue_.queue_ = Tail(queued)
                /\ r.d.write_in_progress_ <=> Len(Tail(queued)) > 0
                /\ r.op = IF Len(Tail(queued)) > 0 THEN <<Tail(queued)[1]>> ELSE <<>>
        BY <1>1, <1>2, <1>7, HandleWriteFacts, Zenon DEF queued
    <2> HIDE DEF r
    <2>3. CASE r.d.stopped_
        <3>1. writing' = writing
            BY <1>3, <1>4, <2>2, <2>3, StartedFacts
        <3>2. DeviceTypeInv'
            BY <1>1, <1>2, <1>3, <2>2, <3>1 DEF DeviceTypeInv
        <3>3. Reports(device)' /\ device'.stopped_
            BY <1>3, <2>2, <2>3
        <3> QED BY <1>1, <1>3, <3>1, <3>2, <3>3, StoppedKeeps
    <2>4. CASE ~r.d.stopped_
        <3>1. /\ queued' = Tail(queued) /\ Len(queued) > 0 /\ t = queued[1].size
              /\ device'.write_in_progress_ <=> Len(queued') > 0
              /\ device'.started_ = device.started_ /\ ~device'.stopped_
              /\ r.op = IF Len(queued') > 0 THEN <<queued'[1]>> ELSE <<>>
            BY <1>3, <2>2, <2>4, Zenon DEF queued
        <3>2. queued \in Seq(Packets) /\ queued # <<>>
            BY <3>1, Numbers
        <3>3. /\ queued' \in Seq(Packets) /\ Len(queued) \in Nat \ {0} /\ Len(queued') = Len(queued) - 1
              /\ \A i \in 1..(Len(queued) - 1) : queued'[i] = queued[i + 1]
            BY <3>1, <3>2, TailFacts
        <3>4. t > 0
            BY <2>1, <3>1, <3>3
        <3>5. Len(kernel) \in Nat /\ Handled = Len(kernel) - 1 /\ Handled' = Len(kernel)
            <4>1. Len(kernel) \in Nat /\ kernel' = kernel
                BY <1>3, Numbers
            <4>2. Handled = Len(kernel) - 1
                BY <1>2, <1>5, <3>4, <4>1 DEF Handled
            <4>3. Handled' = Len(kernel)
                BY <1>5, <4>1 DEF Handled
            <4> QED BY <4>1, <4>2, <4>3
        <3>6. /\ NumberedFrom(queued, Handled) /\ NumberedFrom(posted, Handled + Len(queued))
              /\ next = Handled + Len(queued) + Len(posted)
            BY <1>7 DEF DeviceInv, DeviceOrderInv
        <3>7. Handled \in Int /\ Handled' = Handled + 1 /\ Len(posted) \in Nat
            BY <3>5, Numbers
        <3>8. NumberedFrom(queued', Handled')
            BY <3>1, <3>2, <3>6, <3>7, TailNumbered
        <3>9. Handled + Len(queued) = Handled' + Len(queued')
            BY <3>3, <3>7
        <3>10. NumberedFrom(posted', Handled' + Len(queued'))
               /\ next' = Handled' + Len(queued') + Len(posted')
            BY <1>3, <3>6, <3>9
        <3>11. /\ Len(writing') + Len(wrote') = (IF Len(queued') > 0 THEN 1 ELSE 0)
               /\ writing' \in Seq(Packets)
               /\ Len(writing') = 1 => writing'[1].id = Len(kernel)
            <4>1. CASE Len(queued') > 0
                <5>1. queued'[1] \in Packets /\ queued' # <<>> /\ queued'[1].id = Handled'
                    <6>1. 1 \in 1..Len(queued')
                        BY <3>3, <4>1
                    <6>2. queued'[1].id = Handled' + 1 - 1
                        BY <3>8, <6>1 DEF NumberedFrom
                    <6>3. Handled' + 1 - 1 = Handled'
                        BY <3>5
                    <6> QED BY <3>3, <6>1, <6>2, <6>3
                <5>2. writing' = <<queued'[1]>>
                    BY <1>3, <1>4, <1>5, <3>1, <4>1, <5>1, StartedFacts
                <5>3. Len(writing') = 1 /\ writing'[1] = queued'[1] /\ writing' \in Seq(Packets)
                    BY <5>1, <5>2
                <5> QED BY <1>5, <3>5, <4>1, <5>1, <5>3
            <4>2. CASE ~(Len(queued') > 0)
                <5>1. writing' = writing
                    BY <1>3, <1>4, <3>1, <4>2, StartedFacts
                <5> QED BY <1>4, <1>5, <4>2, <5>1
            <4> QED BY <4>1, <4>2
        <3>12. DeviceTypeInv'
            BY <1>1, <1>2, <1>3, <2>2, <3>11 DEF DeviceTypeInv
        <3>13. DeviceOrderInv'
            BY <1>3, <3>8, <3>10, <3>11 DEF DeviceInv, DeviceOrderInv
        <3>14. \A i \in 1..Len(queued') : queued'[i].size > 0
            <4> TAKE i \in 1..Len(queued')
            <4>1. i + 1 \in 1..Len(queued) /\ i \in 1..(Len(queued) - 1)
                BY <3>3
            <4> QED BY <2>1, <3>3, <4>1
        <3>15. WriteInv'
            <4>1. Len(writing') + Len(wrote') <= 1
                BY <3>11
            <4>2. device'.started_ => read' # "none"
                BY <1>3, <2>1, <3>1
            <4> QED BY <3>1, <3>11, <3>14, <4>1, <4>2 DEF WriteInv
        <3> QED BY <1>3, <2>2, <3>12, <3>13, <3>15 DEF DeviceInv
    <2> QED BY <2>3, <2>4
<1> QED BY <1>6, <1>7

(* A read completes.                                                       *)
LEMMA KernelReadKeeps ==
    ASSUME DeviceInv, NEW result \in {"packet", "error"}, KernelRead(result)
    PROVE  DeviceInv'
PROOF
<1>1. DeviceTypeInv /\ Reports(device)
    BY DEF DeviceInv
<1>2. read' = result /\ UNCHANGED <<device, writing, wrote, posted, next, kernel>>
    BY DEF KernelRead
<1>3. DeviceTypeInv' /\ Reports(device)'
    BY <1>1, <1>2 DEF DeviceTypeInv
<1> QED BY <1>2, <1>3, OthersKeep

(* handle_read reads on, or fails the device.                              *)
LEMMA HandleReadKeeps == ASSUME DeviceInv, HandleRead PROVE DeviceInv'
PROOF
<1>1. device \in Devices /\ Reports(device) /\ DeviceTypeInv
    BY DEF DeviceInv, DeviceTypeInv
<1>2. UNCHANGED <<writing, wrote, posted, next, kernel>>
    BY DEF HandleRead
<1>3. CASE read = "packet" /\ ~device.stopped_
    <2>1. device' = [device EXCEPT !.delivered = @ + 1] /\ read' = "pending"
        BY <1>3 DEF HandleRead
    <2>2. device.delivered + 1 \in Nat
        BY <1>1 DEF Devices
    <2>3. /\ device' \in Devices /\ SameState(device, device')
          /\ device'.write_queue_ = device.write_queue_
          /\ device'.write_in_progress_ = device.write_in_progress_
        BY <1>1, <2>1, <2>2 DEF Devices, SameState
    <2>4. Reports(device)'
        BY <1>1, <2>3, SameReports
    <2>5. DeviceTypeInv'
        BY <1>1, <1>2, <2>1, <2>3 DEF DeviceTypeInv
    <2> QED BY <1>2, <1>3, <2>1, <2>3, <2>4, <2>5, OthersKeep
<1>4. CASE ~(read = "packet" /\ ~device.stopped_)
    <2>1. device' = fail(device) /\ read' = "none"
        BY <1>4 DEF HandleRead
    <2>2. device' \in Devices /\ Reports(device)' /\ device'.stopped_
        BY <1>1, <2>1, FailFacts
    <2>3. DeviceTypeInv'
        BY <1>1, <1>2, <2>1, <2>2 DEF DeviceTypeInv
    <2> QED BY <1>2, <2>2, <2>3, StoppedKeeps
<1> QED BY <1>3, <1>4

(* stop.                                                                   *)
LEMMA RunStopKeeps == ASSUME DeviceInv, RunStop PROVE DeviceInv'
PROOF
<1>1. device \in Devices /\ Reports(device) /\ DeviceTypeInv
    BY DEF DeviceInv, DeviceTypeInv
<1>2. device' = stop_on_strand(device, "stop") /\ UNCHANGED <<read, writing, wrote, posted, next, kernel>>
    BY DEF RunStop, io
<1>3. device' \in Devices /\ Reports(device)' /\ device'.stopped_
    BY <1>1, <1>2, StopFacts
<1>4. DeviceTypeInv'
    BY <1>1, <1>2, <1>3 DEF DeviceTypeInv
<1> QED BY <1>2, <1>3, <1>4, StoppedKeeps

(* The operations of a stopped device are cancelled, and the failure that  *)
(* stopped it is reported.                                                 *)
LEMMA CancelKeeps == ASSUME DeviceInv, Cancel PROVE DeviceInv'
PROOF
<1>1. device \in Devices /\ Reports(device) /\ DeviceTypeInv /\ device.stopped_ /\ device.open
    BY DEF DeviceInv, DeviceTypeInv, Cancel, Ready
<1>2. /\ device' = [device EXCEPT !.open = FALSE, !.report = FALSE,
                                  !.reports = IF device.report THEN @ + 1 ELSE @]
      /\ read' = (IF read = "pending" THEN "none" ELSE read)
      /\ writing' = <<>> /\ UNCHANGED <<wrote, posted, next, kernel>>
    BY DEF Cancel
<1>3. (IF device.report THEN device.reports + 1 ELSE device.reports) \in Nat
    BY <1>1 DEF Devices
<1>4. device' \in Devices
    BY <1>1, <1>2, <1>3, Zenon DEF Devices
<1>5. /\ device'.open = FALSE /\ device'.report = FALSE /\ device'.stopped_ = device.stopped_
      /\ device'.reports = (IF device.report THEN device.reports + 1 ELSE device.reports)
      /\ device'.cause = device.cause /\ device'.started_ = device.started_
    BY <1>1, <1>2, Zenon DEF Devices
<1>6. Reports(device)'
    <2>1. /\ device.cause # "none" /\ device.reports = 0
          /\ device.report <=> device.cause = "failure" /\ device.started_
        BY <1>1 DEF Reports
    <2> QED BY <1>1, <1>5, <2>1 DEF Reports
<1>7. writing' \in Seq(Packets) /\ Len(writing') = 0
    BY <1>2
<1>8. DeviceTypeInv'
    BY <1>1, <1>2, <1>4, <1>7 DEF DeviceTypeInv
<1>9. DeviceOrderInv'
    BY <1>1, <1>2, <1>5, <1>7 DEF DeviceInv, DeviceOrderInv
<1>10. WriteInv'
    <2>1. Len(writing) + Len(wrote) <= 1 /\ wrote' = wrote
        BY <1>2 DEF DeviceInv, WriteInv
    <2>2. Len(writing') + Len(wrote') <= 1
        BY <1>7, <2>1, Numbers
    <2> QED BY <1>1, <1>5, <2>2 DEF WriteInv
<1> QED BY <1>6, <1>8, <1>9, <1>10 DEF DeviceInv
-------------------------------------------------------------------------------
(* DeviceInv is inductive: every handler of the device, and every transfer that *)
(* the kernel makes while one runs, keeps it.                              *)
THEOREM DeviceInvariance == DeviceSpec => []DeviceInv
PROOF
<1>1. ASSUME DeviceInv, [DeviceNext]_deviceVars PROVE DeviceInv'
    <2>1. CASE Start
        BY <1>1, <2>1, StartKeeps
    <2>2. CASE EnqueueWrite
        BY <1>1, <2>2, EnqueueWriteKeeps
    <2>3. CASE HandleWrite
        BY <1>1, <2>3, HandleWriteKeeps
    <2>4. CASE HandleRead
        BY <1>1, <2>4, HandleReadKeeps
    <2>5. CASE \E size \in 0..(kMaximumPacketSize + 1) : PostWrite(size)
        BY <1>1, <2>5, PostWriteKeeps
    <2>6. CASE \E transferred \in 0..kMaximumPacketSize : KernelWrite(transferred)
        BY <1>1, <2>6, KernelWriteKeeps
    <2>7. CASE \E result \in {"packet", "error"} : KernelRead(result)
        BY <1>1, <2>7, KernelReadKeeps
    <2>8. CASE RunStop
        BY <1>1, <2>8, RunStopKeeps
    <2>9. CASE Cancel
        BY <1>1, <2>9, CancelKeeps
    <2>10. CASE PostStop \/ UNCHANGED deviceVars
        <3>1. UNCHANGED <<device, read, writing, wrote, posted, next, kernel>>
            BY <2>10 DEF PostStop, io, deviceVars
        <3>2. DeviceTypeInv' /\ Reports(device)' /\ (~device.stopped_ /\ device.started_ => read # "none")
            BY <1>1, <3>1 DEF DeviceInv, DeviceTypeInv, WriteInv
        <3> QED BY <1>1, <3>1, <3>2, OthersKeep
    <2> QED BY <1>1, <2>1, <2>2, <2>3, <2>4, <2>5, <2>6, <2>7, <2>8, <2>9, <2>10 DEF DeviceNext
<1> QED BY <1>1, Initially, PTL DEF DeviceSpec

(* The kernel receives what was posted, in that order and without a gap,   *)
(* and no handler forgets to write or to read on.                          *)
THEOREM KernelOrder == DeviceSpec => []PacketsInOrder
PROOF
<1>1. ASSUME DeviceInv PROVE PacketsInOrder
    <2>1. device.write_queue_ \in Queues
        BY <1>1 DEF DeviceInv, DeviceTypeInv, Devices
    <2>2. Queue!IsEmpty(device.write_queue_) <=> ~(Len(queued) > 0)
        BY <2>1, EmptyIsNone DEF queued
    <2>3. ~device.stopped_ => (Len(writing) + Len(wrote) = 1 <=> ~Queue!IsEmpty(device.write_queue_))
        BY <1>1, <2>2 DEF DeviceInv, WriteInv
    <2> QED BY <1>1, <2>3 DEF DeviceInv, DeviceOrderInv, WriteInv, PacketsInOrder
<1> QED BY <1>1, DeviceInvariance, PTL

(* A failure of a started device reaches the error handler once, a stop    *)
(* never does.                                                             *)
THEOREM FailureIsReported == DeviceSpec => []FailureReportedOnce
PROOF
<1>1. ASSUME DeviceInv PROVE FailureReportedOnce
    <2>1. device \in Devices /\ Reports(device)
        BY <1>1 DEF DeviceInv, DeviceTypeInv
    <2>2. device.reports > 0 => device.cause = "failure"
        BY <2>1 DEF Reports, Devices
    <2>3. device.cause = "failure" /\ device.started_ /\ ~device.open => device.reports = 1
        BY <2>1 DEF Reports
    <2> QED BY <2>2, <2>3 DEF FailureReportedOnce
<1> QED BY <1>1, DeviceInvariance, PTL
-------------------------------------------------------------------------------
(* ClientNetworkTransaction.                                               *)
Mtus == [{"ipv4", "ipv6"} -> {"prior", "tunnel"}]
Owners == [Objects -> {"nobody", "vpn", "admin"}]
Snapshots == Seq(Mtus)
RouteLists == Seq(Routes)

Transactions ==
    [active_ : BOOLEAN, adapter_open_ : BOOLEAN, session_started_ : BOOLEAN,
     address_created_ : BOOLEAN, ipv6_address_ : BOOLEAN, ipv6_address_created_ : BOOLEAN,
     prior_mtu_ : Snapshots, created_routes_ : RouteLists]

TypeInv ==
    /\ owner \in Owners /\ mtu \in Mtus /\ prior \in Mtus /\ found \in Mtus
    /\ adapter_ \in BOOLEAN /\ session_ \in BOOLEAN
    /\ txn \in Transactions /\ pc \in {"idle", "apply", "undo"} /\ step \in Nat
    /\ made = [x \in DOMAIN made |-> made[x]]

(* How far activate is tells what the transaction can have; between calls  *)
(* it has everything or nothing.                                           *)
PhaseInv ==
    /\ txn.adapter_open_ = adapter_ /\ txn.session_started_ = session_
    /\ txn.ipv6_address_created_ => txn.ipv6_address_
    /\ txn.active_ => pc = "idle" /\ adapter_ /\ session_
    /\ pc = "idle" /\ ~txn.active_ =>
          /\ ~adapter_ /\ ~session_ /\ ~txn.address_created_ /\ ~txn.ipv6_address_created_
          /\ txn.prior_mtu_ = <<>> /\ txn.created_routes_ = <<>>
    /\ pc = "apply" =>
          /\ step \in 1..(Len(Steps) + 1)
          /\ (adapter_ <=> step > 1) /\ (session_ <=> step > 2)
          /\ (txn.address_created_ => step > 3) /\ (txn.ipv6_address_created_ => step > 4)
          /\ (txn.prior_mtu_ # <<>> => step > 6) /\ (txn.created_routes_ # <<>> => step > 7)

(* set_interface_mtu has made the first of its two changes.                *)
HalfSet == pc = "apply" /\ step = 6

(* The MTU is the one that was found, unless the snapshot has that one.    *)
MtuInv ==
    /\ txn.prior_mtu_ \in {<<>>, <<found>>}
    /\ ~HalfSet /\ txn.prior_mtu_ = <<>> => mtu = found
    /\ HalfSet => prior = found /\ mtu = [found EXCEPT !.ipv4 = "tunnel"]
    /\ (pc = "apply" /\ step > 6) \/ txn.active_ => mtu = [f \in {"ipv4", "ipv6"} |-> "tunnel"]

Created == {txn.created_routes_[i] : i \in 1..Len(txn.created_routes_)}

(* What the client owns is what the transaction says it created.           *)
OwnInv ==
    /\ owner["ipv4 address"] = "vpn" <=> txn.address_created_
    /\ owner["ipv6 address"] = "vpn" <=> txn.ipv6_address_created_
    /\ \A r \in Routes : owner[r] = "vpn" <=> r \in Created

(* Everything that was made is known to the transaction, and is as old as  *)
(* its place in activate.                                                  *)
Known(x) ==
    \/ x = "adapter" /\ adapter_ /\ made[x] = 1
    \/ x = "session" /\ session_ /\ made[x] = 2
    \/ x = "ipv4 address" /\ txn.address_created_ /\ made[x] = 3
    \/ x = "ipv6 address" /\ txn.ipv6_address_created_ /\ made[x] = 4
    \/ x = "mtu ipv4" /\ (HalfSet \/ txn.prior_mtu_ # <<>>) /\ made[x] = 5
    \/ x = "mtu ipv6" /\ txn.prior_mtu_ # <<>> /\ made[x] = 6
    \/ x \in Created /\ made[x] \in Nat /\ made[x] > 6

KnownInv == \A x \in DOMAIN made : Known(x)

(* The routes were made in the order of their list.                        *)
OrderInv ==
    /\ Created \subseteq DOMAIN made
    /\ \A i, j \in 1..Len(txn.created_routes_) :
          i < j => made[txn.created_routes_[i]] < made[txn.created_routes_[j]]
    /\ pc = "apply" => \A r \in Created : made[r] < step

IInv == TypeInv /\ PhaseInv /\ MtuInv /\ OwnInv /\ KnownInv /\ OrderInv
-------------------------------------------------------------------------------
(* A list of six names, one by one.                                        *)
LEMMA SixCalls ==
    ASSUME NEW S, NEW a \in S, NEW b \in S, NEW c \in S, NEW d \in S, NEW e \in S, NEW f \in S
    PROVE  /\ <<a, b, c, d, e, f>> \in Seq(S) /\ Len(<<a, b, c, d, e, f>>) = 6
           /\ <<a, b, c, d, e, f>>[1] = a /\ <<a, b, c, d, e, f>>[2] = b
           /\ <<a, b, c, d, e, f>>[3] = c /\ <<a, b, c, d, e, f>>[4] = d
           /\ <<a, b, c, d, e, f>>[5] = e /\ <<a, b, c, d, e, f>>[6] = f
OBVIOUS

(* The steps of activate: six calls, then the routes of the profile.       *)
LEMMA StepFacts ==
    /\ Len(Steps) \in Nat /\ Len(Steps) >= 6
    /\ Steps[1] = "adapter" /\ Steps[2] = "session" /\ Steps[3] = "ipv4 address"
    /\ Steps[4] = "ipv6 address" /\ Steps[5] = "mtu ipv4" /\ Steps[6] = "mtu ipv6"
    /\ \A i \in 7..Len(Steps) : Steps[i] \in Routes
PROOF
<1> DEFINE calls == <<"adapter", "session", "ipv4 address", "ipv6 address", "mtu ipv4", "mtu ipv6">>
           Names == Calls \cup Routes
<1>1. /\ "adapter" \in Names /\ "session" \in Names /\ "ipv4 address" \in Names
      /\ "ipv6 address" \in Names /\ "mtu ipv4" \in Names /\ "mtu ipv6" \in Names
    BY Zenon DEF Calls
<1>2. Steps = calls \o route_cidrs
    BY DEF Steps
<1>3. route_cidrs \in Seq(Names) /\ Len(route_cidrs) \in Nat
      /\ \A i \in 1..Len(route_cidrs) : route_cidrs[i] \in Routes
    OBVIOUS
<1> HIDE DEF Names
<1>4. /\ calls \in Seq(Names) /\ Len(calls) = 6
      /\ calls[1] = "adapter" /\ calls[2] = "session" /\ calls[3] = "ipv4 address"
      /\ calls[4] = "ipv6 address" /\ calls[5] = "mtu ipv4" /\ calls[6] = "mtu ipv6"
    BY ONLY <1>1, SixCalls, Zenon
<1> HIDE DEF calls
<1>5. /\ Len(calls \o route_cidrs) = Len(calls) + Len(route_cidrs)
      /\ \A i \in 1..(Len(calls) + Len(route_cidrs)) :
            (calls \o route_cidrs)[i] = IF i <= Len(calls) THEN calls[i] ELSE route_cidrs[i - Len(calls)]
    BY ONLY <1>3, <1>4, ConcatProperties, Zenon
<1>6. /\ Len(Steps) = 6 + Len(route_cidrs)
      /\ \A i \in 1..(6 + Len(route_cidrs)) :
            Steps[i] = IF i <= 6 THEN calls[i] ELSE route_cidrs[i - 6]
    BY ONLY <1>2, <1>4, <1>5, Zenon
<1>7. /\ Len(Steps) \in Nat /\ Len(Steps) >= 6
      /\ \A i \in {1, 2, 3, 4, 5, 6} : Steps[i] = calls[i]
    BY ONLY <1>3, <1>6
<1>8. ASSUME NEW i \in 7..Len(Steps) PROVE Steps[i] \in Routes
    <2>1. Steps[i] = route_cidrs[i - 6] /\ i - 6 \in 1..Len(route_cidrs)
        BY ONLY <1>3, <1>6, i \in 7..Len(Steps)
    <2> QED BY ONLY <2>1, <1>3
<1> QED BY ONLY <1>4, <1>7, <1>8, Zenon

(* Which call is next.                                                     *)
LEMMA AtFacts ==
    ASSUME IInv
    PROVE  /\ \A s : At(s) => pc = "apply" /\ step \in 1..Len(Steps) /\ step + 1 \in 1..(Len(Steps) + 1)
           /\ (At("adapter") => step = 1) /\ (At("session") => step = 2)
           /\ (At("ipv4 address") => step = 3) /\ (At("ipv6 address") => step = 4)
           /\ (At("mtu ipv4") => step = 5) /\ (At("mtu ipv6") => step = 6)
           /\ \A r \in Routes : At(r) => step > 6
PROOF
<1>1. ASSUME NEW s, At(s)
      PROVE  /\ pc = "apply" /\ step \in 1..Len(Steps) /\ step + 1 \in 1..(Len(Steps) + 1) /\ Steps[step] = s
             /\ (step \in {1, 2, 3, 4, 5, 6} \/ step \in 7..Len(Steps))
    <2>1. pc = "apply" /\ step <= Len(Steps) /\ Steps[step] = s
        BY <1>1 DEF At
    <2>2. step \in 1..(Len(Steps) + 1)
        BY <2>1 DEF IInv, PhaseInv
    <2>3. Len(Steps) \in Nat /\ Len(Steps) >= 6
        BY StepFacts, Zenon
    <2>4. step \in 1..Len(Steps) /\ step + 1 \in 1..(Len(Steps) + 1)
        BY ONLY <2>1, <2>2, <2>3
    <2>5. step \in {1, 2, 3, 4, 5, 6} \/ step \in 7..Len(Steps)
        BY ONLY <2>4, <2>3
    <2> QED BY <2>1, <2>4, <2>5
<1>2. ASSUME NEW s, At(s), s \notin Routes
      PROVE  step \in {1, 2, 3, 4, 5, 6}
    BY <1>1, <1>2, StepFacts, Zenon
<1>3. ASSUME NEW r \in Routes, At(r) PROVE step > 6
    <2>1. step \in {1, 2, 3, 4, 5, 6} => Steps[step] \in Calls
        BY StepFacts, Zenon DEF Calls
    <2> QED BY <1>1, <1>3, <2>1
<1>4. \A s \in Calls : At(s) => step \in {1, 2, 3, 4, 5, 6} /\ Steps[step] = s
    BY <1>1, <1>2
<1>5. \A s \in Calls : At(s) =>
            \/ step = 1 /\ s = "adapter"
            \/ step = 2 /\ s = "session"
            \/ step = 3 /\ s = "ipv4 address"
            \/ step = 4 /\ s = "ipv6 address"
            \/ step = 5 /\ s = "mtu ipv4"
            \/ step = 6 /\ s = "mtu ipv6"
    BY <1>4, StepFacts, Zenon
<1> QED BY <1>1, <1>3, <1>5, Zenon DEF Calls

(* Where activate starts and where it ends.                                *)
LEMMA StepBounds ==
    /\ Len(Steps) + 1 > 6 /\ Len(Steps) + 1 > 2 /\ Len(Steps) + 1 > 1 /\ Len(Steps) + 1 # 6
    /\ 1 \in 1..(Len(Steps) + 1) /\ 2 \in 1..(Len(Steps) + 1) /\ 3 \in 1..(Len(Steps) + 1)
    /\ 4 \in 1..(Len(Steps) + 1) /\ 5 \in 1..(Len(Steps) + 1) /\ 6 \in 1..(Len(Steps) + 1)
    /\ 7 \in 1..(Len(Steps) + 1)
PROOF
<1>1. Len(Steps) \in Nat /\ Len(Steps) >= 6
    BY StepFacts, Zenon
<1> QED BY ONLY <1>1

(* made with a new entry, and without some.                                *)
LEMMA WithFacts ==
    ASSUME NEW x
    PROVE  /\ DOMAIN With(x) = DOMAIN made \cup {x} /\ With(x)[x] = step
           /\ \A y \in DOMAIN made : y # x => With(x)[y] = made[y]
           /\ With(x) = [y \in DOMAIN With(x) |-> With(x)[y]]
BY DEF With

(* The entries that are left of made are the old ones.                     *)
LEMMA WithoutFacts ==
    ASSUME NEW things
    PROVE  /\ DOMAIN Without(things) = DOMAIN made \ things
           /\ \A y \in DOMAIN Without(things) : Without(things)[y] = made[y]
           /\ Without(things) = [y \in DOMAIN Without(things) |-> Without(things)[y]]
BY DEF Without

(* The created routes are routes, and no route is called like a call.      *)
LEMMA CreatedFacts ==
    ASSUME TypeInv
    PROVE  /\ Created \subseteq Routes /\ Routes \cap Calls = {}
           /\ Len(txn.created_routes_) \in Nat
           /\ (txn.created_routes_ = <<>> => Created = {})
PROOF
<1>1. txn.created_routes_ \in Seq(Routes)
    BY DEF TypeInv, Transactions, RouteLists
<1> QED BY <1>1 DEF Created

(* A step that leaves the list of routes and what was made of it alone.    *)
LEMMA OrderFramed ==
    ASSUME IInv, txn'.created_routes_ = txn.created_routes_,
           \A r \in Created : r \in DOMAIN made' /\ made'[r] = made[r],
           pc' = "apply" => Created = {} \/ (pc = "apply" /\ step' \in Nat /\ step' >= step)
    PROVE  OrderInv' /\ Created' = Created
PROOF
<1>1. Created' = Created
    BY DEF Created
<1>2. \A i \in 1..Len(txn.created_routes_) : txn.created_routes_[i] \in Created
    BY DEF Created
<1>3. \A i \in 1..Len(txn.created_routes_) :
          made'[txn.created_routes_[i]] = made[txn.created_routes_[i]]
    BY <1>2
<1>4. ASSUME pc' = "apply", NEW r \in Created PROVE made'[r] < step'
    <2>1. pc = "apply" /\ step' \in Nat /\ step' >= step /\ step \in Nat
        BY <1>4 DEF IInv, TypeInv
    <2>2. made[r] \in Nat /\ made[r] < step /\ made'[r] = made[r]
        <3>1. r \in DOMAIN made /\ r \in Routes /\ r \notin Calls
            BY CreatedFacts DEF IInv, OrderInv
        <3>2. Known(r) /\ made[r] < step
            BY <3>1, <2>1 DEF IInv, KnownInv, OrderInv
        <3> QED BY <3>1, <3>2, Zenon DEF Known, Calls
    <2> QED BY ONLY <2>1, <2>2
<1> QED BY <1>1, <1>3, <1>4 DEF IInv, OrderInv

(* A step that makes and undoes nothing.                                   *)
LEMMA MadeFramed ==
    ASSUME IInv, txn'.created_routes_ = txn.created_routes_, made' = made,
           txn'.prior_mtu_ = txn.prior_mtu_, adapter_' = adapter_, session_' = session_,
           txn'.address_created_ = txn.address_created_,
           txn'.ipv6_address_created_ = txn.ipv6_address_created_,
           ~HalfSet,
           pc' = "apply" => Created = {} \/ (pc = "apply" /\ step' \in Nat /\ step' >= step)
    PROVE  KnownInv' /\ OrderInv'
PROOF
<1>1. OrderInv' /\ Created' = Created
    BY OrderFramed DEF IInv, OrderInv
<1>2. ASSUME NEW x \in DOMAIN made PROVE Known(x)'
    <2>1. Known(x)
        BY DEF IInv, KnownInv
    <2>2. /\ made'[x] = made[x] /\ (adapter_' <=> adapter_) /\ (session_' <=> session_)
          /\ Created' = Created /\ txn'.prior_mtu_ = txn.prior_mtu_
          /\ (txn'.address_created_ <=> txn.address_created_)
          /\ (txn'.ipv6_address_created_ <=> txn.ipv6_address_created_)
        BY <1>1
    <2> QED BY ONLY <2>1, <2>2, ~HalfSet, Zenon DEF Known
<1> QED BY <1>1, <1>2 DEF KnownInv

(* A step that leaves the owners and the record of them alone.             *)
LEMMA OwnFramed ==
    ASSUME IInv, owner' = owner, txn'.created_routes_ = txn.created_routes_,
           txn'.address_created_ = txn.address_created_,
           txn'.ipv6_address_created_ = txn.ipv6_address_created_
    PROVE  OwnInv'
PROOF
<1>1. Created' = Created
    BY DEF Created
<1> QED BY <1>1, Zenon DEF IInv, OwnInv
-------------------------------------------------------------------------------
(* A new value of active_ or of ipv6_address_ is all that changes.         *)
LEMMA SetActive ==
    ASSUME NEW t \in Transactions, NEW b \in BOOLEAN
    PROVE  LET f == [t EXCEPT !.active_ = b]
           IN /\ f \in Transactions /\ f.active_ = b /\ f.adapter_open_ = t.adapter_open_
              /\ f.session_started_ = t.session_started_ /\ f.address_created_ = t.address_created_
              /\ f.ipv6_address_ = t.ipv6_address_ /\ f.ipv6_address_created_ = t.ipv6_address_created_
              /\ f.prior_mtu_ = t.prior_mtu_ /\ f.created_routes_ = t.created_routes_
BY DEF Transactions

(* The same for ipv6_address_, which activate takes from the assignment.   *)
LEMMA SetIpv6 ==
    ASSUME NEW t \in Transactions, NEW b \in BOOLEAN
    PROVE  LET f == [t EXCEPT !.ipv6_address_ = b]
           IN /\ f \in Transactions /\ f.active_ = t.active_ /\ f.adapter_open_ = t.adapter_open_
              /\ f.session_started_ = t.session_started_ /\ f.address_created_ = t.address_created_
              /\ f.ipv6_address_ = b /\ f.ipv6_address_created_ = t.ipv6_address_created_
              /\ f.prior_mtu_ = t.prior_mtu_ /\ f.created_routes_ = t.created_routes_
BY DEF Transactions

(* activate: a touched transaction refuses, and an untouched one has made  *)
(* nothing, so that the calls start from nothing.                          *)
LEMMA ActivateKeeps ==
    ASSUME IInv, NEW ipv6 \in BOOLEAN, Activate(ipv6)
    PROVE  IInv'
PROOF
<1>1. /\ pc = "idle" /\ UNCHANGED <<owner, mtu, adapter_, session_, made, prior, found>>
      /\ step' = 1 /\ ~HalfSet /\ ~HalfSet'
    BY DEF Activate, os, HalfSet
<1>2. CASE Touched
    <2>1. txn' = txn /\ pc' = "idle"
        BY <1>1, <1>2 DEF Activate
    <2>2. KnownInv' /\ OrderInv' /\ OwnInv'
        BY <1>1, <2>1, MadeFramed, OwnFramed
    <2>3. TypeInv' /\ PhaseInv' /\ MtuInv'
        BY <1>1, <2>1 DEF IInv, TypeInv, PhaseInv, MtuInv
    <2> QED BY <2>2, <2>3 DEF IInv
<1>3. CASE ~Touched
    <2>1. txn' = [txn EXCEPT !.ipv6_address_ = ipv6] /\ pc' = "apply"
        BY <1>3 DEF Activate
    <2>2. txn \in Transactions
        BY DEF IInv, TypeInv
    <2>3. /\ txn' \in Transactions /\ txn'.active_ = txn.active_ /\ txn'.adapter_open_ = txn.adapter_open_
          /\ txn'.session_started_ = txn.session_started_ /\ txn'.address_created_ = txn.address_created_
          /\ txn'.ipv6_address_created_ = txn.ipv6_address_created_
          /\ txn'.prior_mtu_ = txn.prior_mtu_ /\ txn'.created_routes_ = txn.created_routes_
        BY <2>1, <2>2, SetIpv6
    <2>4. /\ ~txn.active_ /\ ~adapter_ /\ ~session_ /\ ~txn.address_created_
          /\ ~txn.ipv6_address_created_ /\ txn.created_routes_ = <<>> /\ txn.prior_mtu_ = <<>>
        BY <1>1, <1>3 DEF Touched, IInv, PhaseInv
    <2>5. Created = {}
        BY <2>4, CreatedFacts DEF IInv
    <2>6. KnownInv' /\ OrderInv' /\ OwnInv'
        BY <1>1, <2>3, <2>5, MadeFramed, OwnFramed
    <2>7. TypeInv' /\ MtuInv'
        BY <1>1, <2>1, <2>3, <2>4 DEF IInv, TypeInv, MtuInv
    <2>8. 1 \in 1..(Len(Steps) + 1)
        BY StepBounds
    <2>9. PhaseInv'
        BY <1>1, <2>1, <2>3, <2>4, <2>8 DEF IInv, PhaseInv
    <2> QED BY <2>6, <2>7, <2>9 DEF IInv
<1> QED BY <1>2, <1>3

(* The end of activate: every call has been made, so the adapter is open,  *)
(* the session runs and both MTUs are set.                                 *)
LEMMA CommitKeeps ==
    ASSUME IInv, Commit
    PROVE  IInv'
PROOF
<1>1. /\ pc = "apply" /\ pc' = "idle" /\ step = Len(Steps) + 1 /\ txn' = [txn EXCEPT !.active_ = TRUE]
      /\ UNCHANGED <<owner, mtu, adapter_, session_, made, prior, found, step>>
    BY DEF Commit, os, local
<1>2. step > 6 /\ step > 2 /\ step > 1 /\ step # 6
    BY <1>1, StepBounds
<1>3. ~HalfSet /\ ~HalfSet'
    BY <1>1, <1>2 DEF HalfSet
<1>4. txn \in Transactions
    BY DEF IInv, TypeInv
<1>5. /\ txn' \in Transactions /\ txn'.active_ = TRUE /\ txn'.adapter_open_ = txn.adapter_open_
      /\ txn'.session_started_ = txn.session_started_ /\ txn'.address_created_ = txn.address_created_
      /\ txn'.ipv6_address_ = txn.ipv6_address_ /\ txn'.ipv6_address_created_ = txn.ipv6_address_created_
      /\ txn'.prior_mtu_ = txn.prior_mtu_ /\ txn'.created_routes_ = txn.created_routes_
    BY <1>1, <1>4, SetActive, Zenon
<1>6. KnownInv' /\ OrderInv' /\ OwnInv'
    BY <1>1, <1>3, <1>5, MadeFramed, OwnFramed
<1>7. TypeInv' /\ MtuInv'
    BY <1>1, <1>2, <1>3, <1>5 DEF IInv, TypeInv, MtuInv
<1>8. PhaseInv'
    BY <1>1, <1>2, <1>5 DEF IInv, PhaseInv
<1> QED BY <1>6, <1>7, <1>8 DEF IInv

(* rollback clears active_ and keeps the record of what is to be undone.   *)
LEMMA RollbackKeeps ==
    ASSUME IInv, Rollback
    PROVE  IInv'
PROOF
<1>1. /\ pc = "idle" /\ pc' = "undo" /\ txn' = [txn EXCEPT !.active_ = FALSE]
      /\ UNCHANGED <<owner, mtu, adapter_, session_, made, prior, found, step>>
      /\ ~HalfSet /\ ~HalfSet'
    BY DEF Rollback, os, local, HalfSet
<1>2. txn \in Transactions
    BY DEF IInv, TypeInv
<1>3. /\ txn' \in Transactions /\ txn'.active_ = FALSE /\ txn'.adapter_open_ = txn.adapter_open_
      /\ txn'.session_started_ = txn.session_started_ /\ txn'.address_created_ = txn.address_created_
      /\ txn'.ipv6_address_ = txn.ipv6_address_ /\ txn'.ipv6_address_created_ = txn.ipv6_address_created_
      /\ txn'.prior_mtu_ = txn.prior_mtu_ /\ txn'.created_routes_ = txn.created_routes_
    BY <1>1, <1>2, SetActive, Zenon
<1>4. KnownInv' /\ OrderInv' /\ OwnInv'
    BY <1>1, <1>3, MadeFramed, OwnFramed
<1>5. TypeInv' /\ MtuInv'
    BY <1>1, <1>3 DEF IInv, TypeInv, MtuInv
<1>6. PhaseInv'
    BY <1>1, <1>3 DEF IInv, PhaseInv
<1> QED BY <1>4, <1>5, <1>6 DEF IInv

(* A call throws: the record says what the calls before it made, and       *)
(* set_interface_mtu has put its first change back.                        *)
LEMMA ThrowKeeps ==
    ASSUME IInv, Throw
    PROVE  IInv'
PROOF
<1>1. /\ pc = "apply" /\ pc' = "undo" /\ txn' = [txn EXCEPT !.active_ = FALSE] /\ step <= Len(Steps)
      /\ UNCHANGED <<owner, adapter_, session_, prior, found, step>> /\ ~HalfSet'
    BY Zenon DEF Throw, local, HalfSet
<1>2. txn \in Transactions
    BY DEF IInv, TypeInv
<1>3. /\ txn' \in Transactions /\ txn'.active_ = FALSE /\ txn'.adapter_open_ = txn.adapter_open_
      /\ txn'.session_started_ = txn.session_started_ /\ txn'.address_created_ = txn.address_created_
      /\ txn'.ipv6_address_ = txn.ipv6_address_ /\ txn'.ipv6_address_created_ = txn.ipv6_address_created_
      /\ txn'.prior_mtu_ = txn.prior_mtu_ /\ txn'.created_routes_ = txn.created_routes_
    BY <1>1, <1>2, SetActive, Zenon
<1>4. OwnInv'
    BY <1>1, <1>3, OwnFramed
<1>5. PhaseInv'
    BY <1>1, <1>3 DEF IInv, PhaseInv
<1>6. CASE At("mtu ipv6")
    <2>1. mtu' = [mtu EXCEPT !.ipv4 = prior.ipv4] /\ made' = Without({"mtu ipv4"})
        BY <1>6, Zenon DEF Throw
    <2>2. step = 6 /\ HalfSet
        BY <1>6, AtFacts, Zenon DEF HalfSet, At
    <2>3. txn.prior_mtu_ = <<>>
        BY <1>1, <2>2 DEF IInv, PhaseInv
    <2>4. mtu' = found
        BY <2>1, <2>2, Zenon DEF IInv, TypeInv, MtuInv, Mtus
    <2>5. /\ DOMAIN made' = DOMAIN made \ {"mtu ipv4"} /\ \A y \in DOMAIN made' : made'[y] = made[y]
          /\ made' = [y \in DOMAIN made' |-> made'[y]]
        BY <2>1, WithoutFacts, Zenon
    <2>6. \A r \in Created : r \in DOMAIN made' /\ made'[r] = made[r]
        BY <2>5, CreatedFacts, Zenon DEF IInv, OrderInv, Calls
    <2>7. OrderInv' /\ Created' = Created
        BY <1>1, <1>3, <2>6, OrderFramed
    <2>8. KnownInv'
        <3>1. ASSUME NEW x \in DOMAIN made' PROVE Known(x)'
            BY <1>1, <1>3, <2>3, <2>5, <2>7, <3>1, Zenon DEF IInv, KnownInv, Known
        <3> QED BY <3>1 DEF KnownInv
    <2>9. TypeInv' /\ MtuInv'
        BY <1>1, <1>3, <2>3, <2>4, <2>5, Zenon DEF IInv, TypeInv, MtuInv
    <2> QED BY <1>4, <1>5, <2>7, <2>8, <2>9 DEF IInv
<1>7. CASE ~At("mtu ipv6")
    <2>1. mtu' = mtu /\ made' = made
        BY <1>7, Zenon DEF Throw
    <2>2. ~HalfSet
        BY <1>1, <1>7, StepFacts, Zenon DEF At, HalfSet
    <2>3. KnownInv' /\ OrderInv'
        BY <1>1, <1>3, <2>1, <2>2, MadeFramed
    <2>4. TypeInv' /\ MtuInv'
        BY <1>1, <1>3, <2>1, <2>2 DEF IInv, TypeInv, MtuInv
    <2> QED BY <1>4, <1>5, <2>3, <2>4 DEF IInv
<1> QED BY <1>6, <1>7, Zenon

(* A call of activate made something new that is not a route.              *)
LEMMA MadeCall ==
    ASSUME IInv, NEW x \in Calls, made' = With(x), pc = "apply", pc' = "apply",
           step' \in Nat, step' >= step, txn'.created_routes_ = txn.created_routes_
    PROVE  /\ OrderInv' /\ Created' = Created
           /\ DOMAIN made' = DOMAIN made \cup {x} /\ made'[x] = step
           /\ \A y \in DOMAIN made : y # x => made'[y] = made[y]
           /\ made' = [y \in DOMAIN made' |-> made'[y]]
PROOF
<1>1. /\ DOMAIN made' = DOMAIN made \cup {x} /\ made'[x] = step
      /\ \A y \in DOMAIN made : y # x => made'[y] = made[y]
      /\ made' = [y \in DOMAIN made' |-> made'[y]]
    BY WithFacts, Zenon
<1>2. \A r \in Created : r \in DOMAIN made' /\ made'[r] = made[r]
    BY <1>1, CreatedFacts DEF IInv, OrderInv
<1> QED BY <1>1, <1>2, OrderFramed

(* What was made stays known while nothing is taken from the transaction.  *)
LEMMA KnownStays ==
    ASSUME IInv, NEW y \in DOMAIN made, made'[y] = made[y], Created \subseteq Created',
           adapter_ => adapter_', session_ => session_',
           txn.address_created_ => txn'.address_created_,
           txn.ipv6_address_created_ => txn'.ipv6_address_created_,
           txn.prior_mtu_ # <<>> => txn'.prior_mtu_ # <<>>,
           HalfSet => HalfSet' \/ txn'.prior_mtu_ # <<>>
    PROVE  Known(y)'
PROOF
<1>1. Known(y)
    BY DEF IInv, KnownInv
<1> QED BY <1>1, Zenon DEF Known

(* activate goes on: what the call added belongs to its place in activate. *)
LEMMA PhaseGoesOn ==
    ASSUME IInv, pc = "apply", pc' = "apply", step' \in 1..(Len(Steps) + 1), step' > step,
           adapter_' = TRUE, txn'.adapter_open_ = TRUE,
           txn'.session_started_ = session_', session_' <=> step' > 2,
           txn'.active_ = txn.active_, txn'.ipv6_address_ = txn.ipv6_address_,
           txn'.address_created_ => txn.address_created_ \/ step = 3,
           txn'.ipv6_address_created_ =>
               txn.ipv6_address_created_ \/ (step = 4 /\ txn.ipv6_address_),
           txn'.prior_mtu_ # <<>> => txn.prior_mtu_ # <<>> \/ step = 6,
           txn'.created_routes_ # <<>> => txn.created_routes_ # <<>> \/ step > 6
    PROVE  PhaseInv'
PROOF
<1>1. step \in 1..(Len(Steps) + 1) /\ Len(Steps) \in Nat
    BY StepFacts, Zenon DEF IInv, PhaseInv
<1>2. /\ step \in Nat /\ step' \in Nat /\ step' > 1 /\ (step > 3 \/ step = 3 => step' > 3)
      /\ (step > 4 \/ step = 4 => step' > 4) /\ (step > 6 \/ step = 6 => step' > 6)
      /\ (step > 7 \/ step > 6 => step' > 7)
    BY ONLY <1>1, step' \in 1..(Len(Steps) + 1), step' > step
<1>3. /\ txn.address_created_ => step > 3
      /\ txn.ipv6_address_created_ => step > 4 /\ txn.ipv6_address_
      /\ txn.prior_mtu_ # <<>> => step > 6
      /\ txn.created_routes_ # <<>> => step > 7
      /\ ~txn.active_
    BY DEF IInv, PhaseInv
<1>4. /\ txn'.address_created_ => step' > 3
      /\ txn'.ipv6_address_created_ => step' > 4 /\ txn'.ipv6_address_
      /\ txn'.prior_mtu_ # <<>> => step' > 6
      /\ txn'.created_routes_ # <<>> => step' > 7
      /\ ~txn'.active_
    BY <1>2, <1>3
<1> QED BY <1>2, <1>4, Zenon DEF PhaseInv

(* open_adapter is the first call.                                         *)
LEMMA OpenAdapterKeeps ==
    ASSUME IInv, OpenAdapter
    PROVE  IInv'
PROOF
<1>1. /\ pc = "apply" /\ pc' = "apply" /\ step = 1
      /\ txn' = [txn EXCEPT !.adapter_open_ = TRUE] /\ made' = With("adapter") /\ adapter_' = TRUE
      /\ UNCHANGED <<owner, mtu, session_, prior, found>>
    BY AtFacts, Zenon DEF OpenAdapter, local
<1>2. step' = 2
    BY <1>1 DEF OpenAdapter
<1>3. txn \in Transactions
    BY DEF IInv, TypeInv
<1>4. txn' \in Transactions
    BY <1>1, <1>3, Zenon DEF Transactions
<1>5. /\ txn'.active_ = txn.active_ /\ txn'.adapter_open_ = TRUE
      /\ txn'.session_started_ = txn.session_started_ /\ txn'.address_created_ = txn.address_created_
      /\ txn'.ipv6_address_ = txn.ipv6_address_ /\ txn'.ipv6_address_created_ = txn.ipv6_address_created_
      /\ txn'.prior_mtu_ = txn.prior_mtu_ /\ txn'.created_routes_ = txn.created_routes_
    BY <1>1, <1>3 DEF Transactions
<1>6. ~HalfSet /\ ~HalfSet'
    BY <1>1, <1>2 DEF HalfSet
<1>7. OwnInv'
    BY <1>1, <1>5, OwnFramed
<1>8. /\ OrderInv' /\ Created' = Created
      /\ DOMAIN made' = DOMAIN made \cup {"adapter"} /\ made'["adapter"] = 1
      /\ \A y \in DOMAIN made : y # "adapter" => made'[y] = made[y]
      /\ made' = [y \in DOMAIN made' |-> made'[y]]
    <2>1. step' \in Nat /\ step' >= step /\ "adapter" \in Calls
        BY ONLY <1>1, <1>2 DEF Calls
    <2> QED BY <1>1, <1>5, <2>1, MadeCall, Zenon
<1>9. KnownInv'
    <2>1. ASSUME NEW x \in DOMAIN made', x # "adapter" PROVE Known(x)'
        BY <1>1, <1>5, <1>6, <1>8, <2>1, KnownStays
    <2>2. Known("adapter")'
        BY <1>1, <1>8 DEF Known
    <2> QED BY <2>1, <2>2 DEF KnownInv
<1>10. TypeInv' /\ MtuInv'
    BY <1>1, <1>2, <1>4, <1>5, <1>6, <1>8 DEF IInv, TypeInv, MtuInv
<1>11. PhaseInv'
    BY <1>1, <1>2, <1>5, StepBounds DEF IInv, PhaseInv
<1> QED BY <1>7, <1>8, <1>9, <1>10, <1>11 DEF IInv

(* start_packet_session is the second call.                                *)
LEMMA StartSessionKeeps ==
    ASSUME IInv, StartSession
    PROVE  IInv'
PROOF
<1>1. /\ pc = "apply" /\ pc' = "apply" /\ step = 2
      /\ txn' = [txn EXCEPT !.session_started_ = TRUE] /\ made' = With("session") /\ session_' = TRUE
      /\ UNCHANGED <<owner, mtu, adapter_, prior, found>>
    BY AtFacts, Zenon DEF StartSession, local
<1>2. step' = 3
    BY <1>1 DEF StartSession
<1>3. txn \in Transactions
    BY DEF IInv, TypeInv
<1>4. txn' \in Transactions
    BY <1>1, <1>3, Zenon DEF Transactions
<1>5. /\ txn'.active_ = txn.active_ /\ txn'.adapter_open_ = txn.adapter_open_
      /\ txn'.session_started_ = TRUE /\ txn'.address_created_ = txn.address_created_
      /\ txn'.ipv6_address_ = txn.ipv6_address_ /\ txn'.ipv6_address_created_ = txn.ipv6_address_created_
      /\ txn'.prior_mtu_ = txn.prior_mtu_ /\ txn'.created_routes_ = txn.created_routes_
    BY <1>1, <1>3 DEF Transactions
<1>6. ~HalfSet /\ ~HalfSet'
    BY <1>1, <1>2 DEF HalfSet
<1>7. OwnInv'
    BY <1>1, <1>5, OwnFramed
<1>8. /\ OrderInv' /\ Created' = Created
      /\ DOMAIN made' = DOMAIN made \cup {"session"} /\ made'["session"] = 2
      /\ \A y \in DOMAIN made : y # "session" => made'[y] = made[y]
      /\ made' = [y \in DOMAIN made' |-> made'[y]]
    <2>1. step' \in Nat /\ step' >= step /\ "session" \in Calls
        BY ONLY <1>1, <1>2 DEF Calls
    <2> QED BY <1>1, <1>5, <2>1, MadeCall, Zenon
<1>9. KnownInv'
    <2>1. ASSUME NEW x \in DOMAIN made', x # "session" PROVE Known(x)'
        BY <1>1, <1>5, <1>6, <1>8, <2>1, KnownStays
    <2>2. Known("session")'
        BY <1>1, <1>8 DEF Known
    <2> QED BY <2>1, <2>2 DEF KnownInv
<1>10. TypeInv' /\ MtuInv'
    BY <1>1, <1>2, <1>4, <1>5, <1>6, <1>8 DEF IInv, TypeInv, MtuInv
<1>11. PhaseInv'
    <2>1. adapter_ = TRUE /\ txn.adapter_open_ = TRUE
        BY <1>1 DEF IInv, PhaseInv, TypeInv
    <2>2. 3 > 2 /\ step' > step /\ step' \in 1..(Len(Steps) + 1)
        BY ONLY <1>1, <1>2, StepBounds
    <2> QED BY <1>1, <1>2, <1>5, <2>1, <2>2, PhaseGoesOn, Zenon
<1> QED BY <1>7, <1>8, <1>9, <1>10, <1>11 DEF IInv

(* From the third call on the adapter is open and the session runs.        *)
LEMMA LaterFacts ==
    ASSUME IInv, pc = "apply", step \in {3, 4, 5, 6} \/ step > 6
    PROVE  /\ adapter_ = TRUE /\ txn.adapter_open_ = TRUE
           /\ session_ = TRUE /\ txn.session_started_ = TRUE
PROOF
<1>1. step \in Nat /\ (adapter_ <=> step > 1) /\ (session_ <=> step > 2)
    BY DEF IInv, TypeInv, PhaseInv
<1>2. step > 1 /\ step > 2
    BY ONLY <1>1, step \in {3, 4, 5, 6} \/ step > 6
<1> QED BY <1>1, <1>2 DEF IInv, TypeInv, PhaseInv

(* add_ipv4_address says whether it created the address, and the           *)
(* transaction records just that.                                          *)
LEMMA Ipv4Creates ==
    ASSUME IInv, At("ipv4 address"), Create("ipv4 address"),
           txn' = [txn EXCEPT !.address_created_ = owner["ipv4 address"] = "nobody"]
    PROVE  IInv'
PROOF
<1> DEFINE fresh == owner["ipv4 address"] = "nobody"
<1>1. pc = "apply" /\ pc' = "apply" /\ step = 3 /\ step' = step + 1
    BY AtFacts, Zenon DEF Create
<1>2. /\ pc = "apply" /\ pc' = "apply" /\ step = 3
      /\ txn' = [txn EXCEPT !.address_created_ = fresh]
      /\ UNCHANGED <<mtu, adapter_, session_, prior, found>>
      /\ owner' = IF fresh THEN [owner EXCEPT !["ipv4 address"] = "vpn"] ELSE owner
      /\ made' = IF fresh THEN With("ipv4 address") ELSE made
    BY AtFacts, Zenon DEF Create, local
<1>3. step' = 4 /\ ~(step > 3) /\ step # 6 /\ step' # 6 /\ ~(step' > 6)
    BY ONLY <1>1
<1>4. txn \in Transactions /\ fresh \in BOOLEAN
    BY Zenon DEF IInv, TypeInv
<1>5. txn.address_created_ = FALSE
    BY <1>2, <1>3, <1>4, Zenon DEF IInv, PhaseInv, Transactions
<1>6. owner["ipv4 address"] # "vpn"
    BY <1>5, Zenon DEF IInv, OwnInv
<1>7. /\ owner' \in Owners /\ (owner'["ipv4 address"] = "vpn" <=> fresh)
      /\ \A x \in Objects : x # "ipv4 address" => owner'[x] = owner[x]
    BY <1>2, <1>6, Zenon DEF IInv, TypeInv, Owners, Objects
<1>8. "ipv4 address" \in Calls /\ "ipv4 address" # "ipv6 address" /\ "ipv6 address" \in Objects
      /\ \A r \in Routes : r # "ipv4 address" /\ r \in Objects
    BY Zenon DEF Calls, Objects
<1> HIDE DEF fresh
<1>9. txn' \in Transactions
    BY <1>2, <1>4, Zenon DEF Transactions
<1>10. /\ txn'.active_ = txn.active_ /\ txn'.adapter_open_ = txn.adapter_open_
      /\ txn'.session_started_ = txn.session_started_ /\ txn'.address_created_ = fresh
      /\ txn'.ipv6_address_ = txn.ipv6_address_
      /\ txn'.ipv6_address_created_ = txn.ipv6_address_created_
      /\ txn'.prior_mtu_ = txn.prior_mtu_ /\ txn'.created_routes_ = txn.created_routes_
    BY <1>2, <1>4, Zenon DEF Transactions
<1>11. ~HalfSet /\ ~HalfSet'
    BY <1>2, <1>3, Zenon DEF HalfSet
<1>12. step' \in Nat /\ step' >= step /\ step' > step /\ step' > 2 /\ step' \in 1..(Len(Steps) + 1)
    BY ONLY <1>1, <1>3, StepBounds
<1>13. Created' = Created
    BY <1>10, Zenon DEF Created
<1>14. OwnInv'
    BY <1>7, <1>8, <1>10, <1>13, Zenon DEF IInv, OwnInv
<1>15. KnownInv' /\ OrderInv' /\ made' = [y \in DOMAIN made' |-> made'[y]]
    <2>1. CASE ~fresh
        <3>1. made' = made /\ txn'.address_created_ = txn.address_created_
            BY <1>2, <1>5, <1>10, <2>1, <1>4, Zenon
        <3>2. made = [y \in DOMAIN made |-> made[y]]
            BY Zenon DEF IInv, TypeInv
        <3>3. KnownInv' /\ OrderInv'
            BY <1>2, <1>10, <1>11, <1>12, <3>1, MadeFramed, Zenon
        <3> QED BY <3>1, <3>2, <3>3, Zenon
    <2>2. CASE fresh
        <3>1. /\ OrderInv' /\ DOMAIN made' = DOMAIN made \cup {"ipv4 address"} /\ made'["ipv4 address"] = 3
              /\ \A y \in DOMAIN made : y # "ipv4 address" => made'[y] = made[y]
              /\ made' = [y \in DOMAIN made' |-> made'[y]]
            BY <1>2, <1>8, <1>10, <1>12, <2>2, MadeCall, Zenon
        <3>2. ASSUME NEW x \in DOMAIN made', x # "ipv4 address" PROVE Known(x)'
            BY <1>2, <1>5, <1>10, <1>11, <1>13, <3>1, <3>2, KnownStays, Zenon
        <3>3. Known("ipv4 address")'
            BY <1>10, <2>2, <3>1, Zenon DEF Known
        <3> QED BY <3>1, <3>2, <3>3, Zenon DEF KnownInv
    <2> QED BY <2>1, <2>2, Zenon
<1>16. TypeInv' /\ MtuInv'
    BY <1>2, <1>3, <1>7, <1>9, <1>10, <1>11, <1>12, <1>15, Zenon DEF IInv, TypeInv, MtuInv
<1>17. PhaseInv'
    BY <1>2, <1>3, <1>10, <1>12, LaterFacts, PhaseGoesOn, Zenon
<1> QED BY <1>14, <1>15, <1>16, <1>17, Zenon DEF IInv

(* add_ipv6_address does the same for an assignment that has one.          *)
LEMMA Ipv6Creates ==
    ASSUME IInv, At("ipv6 address"), Create("ipv6 address"),
           txn' = [txn EXCEPT !.ipv6_address_created_ = owner["ipv6 address"] = "nobody"], txn.ipv6_address_ = TRUE
    PROVE  IInv'
PROOF
<1> DEFINE fresh == owner["ipv6 address"] = "nobody"
<1>1. pc = "apply" /\ pc' = "apply" /\ step = 4 /\ step' = step + 1
    BY AtFacts, Zenon DEF Create
<1>2. /\ pc = "apply" /\ pc' = "apply" /\ step = 4
      /\ txn' = [txn EXCEPT !.ipv6_address_created_ = fresh]
      /\ UNCHANGED <<mtu, adapter_, session_, prior, found>>
      /\ owner' = IF fresh THEN [owner EXCEPT !["ipv6 address"] = "vpn"] ELSE owner
      /\ made' = IF fresh THEN With("ipv6 address") ELSE made
    BY AtFacts, Zenon DEF Create, local
<1>3. step' = 5 /\ ~(step > 4) /\ step # 6 /\ step' # 6 /\ ~(step' > 6)
    BY ONLY <1>1
<1>4. txn \in Transactions /\ fresh \in BOOLEAN
    BY Zenon DEF IInv, TypeInv
<1>5. txn.ipv6_address_created_ = FALSE
    BY <1>2, <1>3, <1>4, Zenon DEF IInv, PhaseInv, Transactions
<1>6. owner["ipv6 address"] # "vpn"
    BY <1>5, Zenon DEF IInv, OwnInv
<1>7. /\ owner' \in Owners /\ (owner'["ipv6 address"] = "vpn" <=> fresh)
      /\ \A x \in Objects : x # "ipv6 address" => owner'[x] = owner[x]
    BY <1>2, <1>6, Zenon DEF IInv, TypeInv, Owners, Objects
<1>8. "ipv6 address" \in Calls /\ "ipv6 address" # "ipv4 address" /\ "ipv4 address" \in Objects
      /\ \A r \in Routes : r # "ipv6 address" /\ r \in Objects
    BY Zenon DEF Calls, Objects
<1> HIDE DEF fresh
<1>9. txn' \in Transactions
    BY <1>2, <1>4, Zenon DEF Transactions
<1>10. /\ txn'.active_ = txn.active_ /\ txn'.adapter_open_ = txn.adapter_open_
      /\ txn'.session_started_ = txn.session_started_ /\ txn'.ipv6_address_created_ = fresh
      /\ txn'.ipv6_address_ = txn.ipv6_address_
      /\ txn'.address_created_ = txn.address_created_
      /\ txn'.prior_mtu_ = txn.prior_mtu_ /\ txn'.created_routes_ = txn.created_routes_
    BY <1>2, <1>4, Zenon DEF Transactions
<1>11. ~HalfSet /\ ~HalfSet'
    BY <1>2, <1>3, Zenon DEF HalfSet
<1>12. step' \in Nat /\ step' >= step /\ step' > step /\ step' > 2 /\ step' \in 1..(Len(Steps) + 1)
    BY ONLY <1>1, <1>3, StepBounds
<1>13. Created' = Created
    BY <1>10, Zenon DEF Created
<1>14. OwnInv'
    BY <1>7, <1>8, <1>10, <1>13, Zenon DEF IInv, OwnInv
<1>15. KnownInv' /\ OrderInv' /\ made' = [y \in DOMAIN made' |-> made'[y]]
    <2>1. CASE ~fresh
        <3>1. made' = made /\ txn'.ipv6_address_created_ = txn.ipv6_address_created_
            BY <1>2, <1>5, <1>10, <2>1, <1>4, Zenon
        <3>2. made = [y \in DOMAIN made |-> made[y]]
            BY Zenon DEF IInv, TypeInv
        <3>3. KnownInv' /\ OrderInv'
            BY <1>2, <1>10, <1>11, <1>12, <3>1, MadeFramed, Zenon
        <3> QED BY <3>1, <3>2, <3>3, Zenon
    <2>2. CASE fresh
        <3>1. /\ OrderInv' /\ DOMAIN made' = DOMAIN made \cup {"ipv6 address"} /\ made'["ipv6 address"] = 4
              /\ \A y \in DOMAIN made : y # "ipv6 address" => made'[y] = made[y]
              /\ made' = [y \in DOMAIN made' |-> made'[y]]
            BY <1>2, <1>8, <1>10, <1>12, <2>2, MadeCall, Zenon
        <3>2. ASSUME NEW x \in DOMAIN made', x # "ipv6 address" PROVE Known(x)'
            BY <1>2, <1>5, <1>10, <1>11, <1>13, <3>1, <3>2, KnownStays, Zenon
        <3>3. Known("ipv6 address")'
            BY <1>10, <2>2, <3>1, Zenon DEF Known
        <3> QED BY <3>1, <3>2, <3>3, Zenon DEF KnownInv
    <2> QED BY <2>1, <2>2, Zenon
<1>16. TypeInv' /\ MtuInv'
    BY <1>2, <1>3, <1>7, <1>9, <1>10, <1>11, <1>12, <1>15, Zenon DEF IInv, TypeInv, MtuInv
<1>17. PhaseInv'
    BY <1>2, <1>3, <1>10, <1>12, LaterFacts, PhaseGoesOn, Zenon
<1> QED BY <1>14, <1>15, <1>16, <1>17, Zenon DEF IInv

(* The IPv6 address, created or left out.                                  *)
LEMMA AddIpv6Keeps ==
    ASSUME IInv, AddIpv6
    PROVE  IInv'
PROOF
<1>1. CASE txn.ipv6_address_
    <2>1. txn.ipv6_address_ = TRUE
        BY <1>1 DEF IInv, TypeInv, Transactions
    <2> QED BY <1>1, <2>1, Ipv6Creates, Zenon DEF AddIpv6
<1>2. CASE ~txn.ipv6_address_
    <2>1. pc = "apply" /\ pc' = "apply" /\ step = 4 /\ step' = step + 1
        BY <1>2, AtFacts, Zenon DEF AddIpv6
    <2>2. /\ pc = "apply" /\ pc' = "apply" /\ step = 4
          /\ UNCHANGED <<owner, mtu, adapter_, session_, prior, found, txn, made>>
        BY <1>2, AtFacts, Zenon DEF AddIpv6, local, os
    <2>3. step' = 5
        BY ONLY <2>1
    <2>4. step' \in Nat /\ step' >= step /\ step' > step /\ step' > 2 /\ step' \in 1..(Len(Steps) + 1)
        BY ONLY <2>2, <2>3, StepBounds
    <2>5. ~HalfSet /\ ~HalfSet'
        BY <2>2, <2>3 DEF HalfSet
    <2>6. KnownInv' /\ OrderInv' /\ OwnInv'
        BY <2>2, <2>4, <2>5, MadeFramed, OwnFramed
    <2>7. TypeInv' /\ MtuInv'
        BY <2>2, <2>3, <2>4, <2>5 DEF IInv, TypeInv, MtuInv
    <2>8. PhaseInv'
        BY <2>2, <2>3, <2>4, LaterFacts, PhaseGoesOn, Zenon
    <2> QED BY <2>6, <2>7, <2>8 DEF IInv
<1> QED BY <1>1, <1>2

(* set_interface_mtu up to its first change: the snapshot is the MTU that  *)
(* was found, and both families are skipped when nothing is to be changed. *)
LEMMA SetMtu4Keeps ==
    ASSUME IInv, SetMtu4
    PROVE  IInv'
PROOF
<1>1. step = 5
    BY AtFacts, Zenon DEF SetMtu4
<1>2. /\ pc = "apply" /\ pc' = "apply" /\ step = 5 /\ prior' = mtu
      /\ UNCHANGED <<owner, adapter_, session_, txn, found>>
    BY AtFacts, Zenon DEF SetMtu4
<1>3. ~(step > 6) /\ step # 6 /\ ~HalfSet
    BY <1>2 DEF HalfSet
<1>4. txn.prior_mtu_ = <<>> /\ mtu = found /\ mtu \in Mtus
    BY <1>2, <1>3 DEF IInv, TypeInv, PhaseInv, MtuInv
<1>5. OwnInv' /\ Created' = Created
    BY <1>2, OwnFramed DEF Created
<1>6. CASE mtu.ipv4 = "tunnel" /\ mtu.ipv6 = "tunnel"
    <2>1. step' = step + 2 /\ mtu' = mtu /\ made' = made
        BY <1>6, Zenon DEF SetMtu4
    <2>2. /\ step' = 7 /\ step' \in Nat /\ step' >= step /\ step' > step /\ step' > 2
          /\ step' \in 1..(Len(Steps) + 1) /\ step' # 6
        BY ONLY <1>2, <2>1, StepBounds
    <2>3. ~HalfSet'
        BY <2>2 DEF HalfSet
    <2>4. mtu = [f \in {"ipv4", "ipv6"} |-> "tunnel"]
        BY <1>4, <1>6 DEF Mtus
    <2>5. KnownInv' /\ OrderInv'
        BY <1>2, <1>3, <2>1, <2>2, MadeFramed
    <2>6. TypeInv' /\ MtuInv'
        BY <1>2, <1>4, <2>1, <2>2, <2>3, <2>4 DEF IInv, TypeInv, MtuInv
    <2>7. PhaseInv'
        BY <1>2, <2>2, LaterFacts, PhaseGoesOn, Zenon
    <2> QED BY <1>5, <2>5, <2>6, <2>7 DEF IInv
<1>7. CASE ~(mtu.ipv4 = "tunnel" /\ mtu.ipv6 = "tunnel")
    <2>1. step' = step + 1
        BY <1>7, Zenon DEF SetMtu4
    <2>2. step' = step + 1 /\ mtu' = [mtu EXCEPT !.ipv4 = "tunnel"] /\ made' = With("mtu ipv4")
        BY <1>7, Zenon DEF SetMtu4
    <2>3. /\ step' = 6 /\ step' \in Nat /\ step' >= step /\ step' > step /\ step' > 2
          /\ step' \in 1..(Len(Steps) + 1) /\ ~(step' > 6)
        BY ONLY <1>1, <2>1, StepBounds
    <2>4. HalfSet'
        BY <1>2, <2>3 DEF HalfSet
    <2>5. mtu' \in Mtus
        BY <1>4, <2>2, Zenon DEF Mtus
    <2>6. /\ OrderInv' /\ DOMAIN made' = DOMAIN made \cup {"mtu ipv4"} /\ made'["mtu ipv4"] = 5
          /\ \A y \in DOMAIN made : y # "mtu ipv4" => made'[y] = made[y]
          /\ made' = [y \in DOMAIN made' |-> made'[y]]
        <3>1. "mtu ipv4" \in Calls
            BY Zenon DEF Calls
        <3> QED BY <1>2, <2>2, <2>3, <3>1, MadeCall, Zenon
    <2>7. KnownInv'
        <3>1. ASSUME NEW x \in DOMAIN made', x # "mtu ipv4" PROVE Known(x)'
            BY <1>2, <1>3, <1>5, <2>6, <3>1, KnownStays, Zenon
        <3>2. Known("mtu ipv4")'
            BY <2>4, <2>6, Zenon DEF Known
        <3> QED BY <3>1, <3>2, Zenon DEF KnownInv
    <2>8. TypeInv'
        BY <1>2, <1>4, <2>3, <2>5, <2>6, Zenon DEF IInv, TypeInv
    <2>9. MtuInv'
        <3>1. txn.active_ = FALSE
            BY <1>2 DEF IInv, TypeInv, Transactions, PhaseInv
        <3> QED BY <1>2, <1>4, <2>2, <2>3, <2>4, <3>1, Zenon DEF IInv, MtuInv
    <2>10. PhaseInv'
        BY <1>2, <2>3, LaterFacts, PhaseGoesOn, Zenon
    <2> QED BY <1>5, <2>6, <2>7, <2>8, <2>9, <2>10, Zenon DEF IInv
<1> QED BY <1>6, <1>7

(* The second change of set_interface_mtu: the snapshot becomes prior_mtu_. *)
LEMMA SetMtu6Keeps ==
    ASSUME IInv, SetMtu6
    PROVE  IInv'
PROOF
<1>1. pc = "apply" /\ pc' = "apply" /\ step = 6 /\ step' = step + 1
    BY AtFacts, Zenon DEF SetMtu6
<1>2. /\ pc = "apply" /\ pc' = "apply" /\ step = 6 /\ mtu' = [mtu EXCEPT !.ipv6 = "tunnel"]
      /\ made' = With("mtu ipv6") /\ txn' = [txn EXCEPT !.prior_mtu_ = <<prior>>]
      /\ UNCHANGED <<owner, adapter_, session_, prior, found>>
    BY <1>1, Zenon DEF SetMtu6, local
<1>3. /\ step' = 7 /\ step' \in Nat /\ step' >= step /\ step' > step /\ step' > 2
      /\ step' \in 1..(Len(Steps) + 1) /\ step' # 6
    BY ONLY <1>1, StepBounds
<1>4. HalfSet /\ ~HalfSet'
    BY <1>1, <1>3 DEF HalfSet
<1>5. prior = found /\ mtu = [found EXCEPT !.ipv4 = "tunnel"] /\ found \in Mtus
    BY <1>4 DEF IInv, MtuInv, TypeInv
<1>6. mtu' \in Mtus /\ mtu' = [f \in {"ipv4", "ipv6"} |-> "tunnel"]
    BY <1>2, <1>5, Zenon DEF Mtus
<1>7. txn \in Transactions /\ <<found>> \in Snapshots /\ <<found>> # <<>>
    BY <1>5 DEF IInv, TypeInv, Snapshots
<1>8. txn' \in Transactions
    BY <1>2, <1>5, <1>7, Zenon DEF Transactions
<1>9. /\ txn'.active_ = txn.active_ /\ txn'.adapter_open_ = txn.adapter_open_
      /\ txn'.session_started_ = txn.session_started_ /\ txn'.address_created_ = txn.address_created_
      /\ txn'.ipv6_address_ = txn.ipv6_address_ /\ txn'.ipv6_address_created_ = txn.ipv6_address_created_
      /\ txn'.prior_mtu_ = <<found>> /\ txn'.created_routes_ = txn.created_routes_
    BY <1>2, <1>5, <1>7, Zenon DEF Transactions
<1>10. OwnInv' /\ Created' = Created
    BY <1>2, <1>9, OwnFramed, Zenon DEF Created
<1>11. /\ OrderInv' /\ DOMAIN made' = DOMAIN made \cup {"mtu ipv6"} /\ made'["mtu ipv6"] = 6
       /\ \A y \in DOMAIN made : y # "mtu ipv6" => made'[y] = made[y]
       /\ made' = [y \in DOMAIN made' |-> made'[y]]
    <2>1. "mtu ipv6" \in Calls
        BY Zenon DEF Calls
    <2> QED BY <1>2, <1>3, <1>9, <2>1, MadeCall, Zenon
<1>12. KnownInv'
    <2>1. ASSUME NEW x \in DOMAIN made', x # "mtu ipv6" PROVE Known(x)'
        BY <1>2, <1>7, <1>9, <1>10, <1>11, <2>1, KnownStays, Zenon
    <2>2. Known("mtu ipv6")'
        BY <1>7, <1>9, <1>11, Zenon DEF Known
    <2> QED BY <2>1, <2>2, Zenon DEF KnownInv
<1>13. TypeInv'
    BY <1>2, <1>3, <1>6, <1>8, <1>11, Zenon DEF IInv, TypeInv
<1>14. MtuInv'
    BY <1>2, <1>4, <1>6, <1>7, <1>9, Zenon DEF MtuInv
<1>15. PhaseInv'
    BY <1>2, <1>3, <1>9, LaterFacts, PhaseGoesOn, Zenon
<1> QED BY <1>10, <1>11, <1>12, <1>13, <1>14, <1>15, Zenon DEF IInv

(* What the administrator adds or removes is never what the client owns.   *)
LEMMA AdministerKeeps ==
    ASSUME IInv, NEW o \in Objects, Administer(o)
    PROVE  IInv'
PROOF
<1>1. UNCHANGED <<mtu, adapter_, session_, txn, pc, step, made, prior, found>>
    BY DEF Administer, local
<1>2. owner' \in Owners /\ \A x \in Objects : owner'[x] = "vpn" <=> owner[x] = "vpn"
    BY DEF Administer, IInv, TypeInv, Owners
<1>3. "ipv4 address" \in Objects /\ "ipv6 address" \in Objects /\ Routes \subseteq Objects
    BY Zenon DEF Objects
<1>4. Created' = Created /\ HalfSet' = HalfSet
    BY <1>1 DEF Created, HalfSet
<1>5. OwnInv'
    BY <1>1, <1>2, <1>3, <1>4, Zenon DEF IInv, OwnInv
<1>6. TypeInv' /\ PhaseInv'
    BY <1>1, <1>2 DEF IInv, TypeInv, PhaseInv
<1>7. MtuInv'
    BY <1>1, <1>4 DEF IInv, MtuInv
<1>8. KnownInv'
    <2>1. ASSUME NEW x \in DOMAIN made PROVE Known(x)'
        BY <1>1, <1>4, <2>1, KnownStays
    <2> QED BY <1>1, <2>1 DEF KnownInv
<1>9. OrderInv'
    BY <1>1, <1>4 DEF IInv, OrderInv
<1> QED BY <1>5, <1>6, <1>7, <1>8, <1>9 DEF IInv

(* add_route: a route that was missing joins the list as its youngest; one *)
(* that existed, also one the client made itself, is not recorded again.   *)
LEMMA AddRouteKeeps ==
    ASSUME IInv, NEW r \in Routes, AddRoute(r)
    PROVE  IInv'
PROOF
<1> DEFINE fresh == owner[r] = "nobody"
           list == txn.created_routes_
<1>1. step' = step + 1 /\ step \in 1..Len(Steps) /\ step + 1 \in 1..(Len(Steps) + 1) /\ step > 6
    BY AtFacts, Zenon DEF AddRoute, Create
<1>2. /\ pc = "apply" /\ pc' = "apply" /\ UNCHANGED <<mtu, adapter_, session_, prior, found>>
      /\ owner' = IF fresh THEN [owner EXCEPT ![r] = "vpn"] ELSE owner
      /\ made' = IF fresh THEN With(r) ELSE made
      /\ txn' = IF fresh THEN [txn EXCEPT !.created_routes_ = Append(@, r)] ELSE txn
    BY AtFacts, Zenon DEF AddRoute, Create, local
<1>3. /\ step \in Nat /\ step' \in Nat /\ step' >= step /\ step' > step /\ step' > 2 /\ step' > 6
      /\ step' \in 1..(Len(Steps) + 1) /\ step # 6 /\ step' # 6
    <2>1. Len(Steps) \in Nat
        BY StepFacts, Zenon
    <2> QED BY ONLY <1>1, <2>1
<1>4. ~HalfSet /\ ~HalfSet' /\ step > 6
    BY <1>1, <1>3 DEF HalfSet
<1>5. txn \in Transactions /\ list \in Seq(Routes)
    BY DEF IInv, TypeInv, Transactions, RouteLists
<1>6. CASE ~fresh
    <2>1. owner' = owner /\ made' = made /\ txn' = txn
        BY <1>2, <1>6
    <2>2. KnownInv' /\ OrderInv' /\ OwnInv'
        BY <1>2, <1>3, <1>4, <2>1, MadeFramed, OwnFramed, Zenon
    <2>3. TypeInv' /\ MtuInv'
        BY <1>2, <1>3, <1>4, <2>1 DEF IInv, TypeInv, MtuInv
    <2>4. PhaseInv'
        BY <1>2, <1>3, <1>4, <2>1, LaterFacts, PhaseGoesOn, Zenon
    <2> QED BY <2>2, <2>3, <2>4 DEF IInv
<1>7. CASE fresh
    <2>1. /\ owner' = [owner EXCEPT ![r] = "vpn"] /\ made' = With(r)
          /\ txn' = [txn EXCEPT !.created_routes_ = Append(list, r)]
        BY <1>2, <1>7
    <2>2. /\ Append(list, r) \in RouteLists /\ Len(Append(list, r)) = Len(list) + 1 /\ Len(list) \in Nat
          /\ Append(list, r)[Len(list) + 1] = r
          /\ \A i \in 1..Len(list) : Append(list, r)[i] = list[i]
        BY <1>5 DEF RouteLists
    <2>3. txn' \in Transactions
        BY <1>5, <2>1, <2>2, Zenon DEF Transactions
    <2>4. /\ txn'.active_ = txn.active_ /\ txn'.adapter_open_ = txn.adapter_open_
          /\ txn'.session_started_ = txn.session_started_ /\ txn'.address_created_ = txn.address_created_
          /\ txn'.ipv6_address_ = txn.ipv6_address_ /\ txn'.ipv6_address_created_ = txn.ipv6_address_created_
          /\ txn'.prior_mtu_ = txn.prior_mtu_ /\ txn'.created_routes_ = Append(list, r)
        BY <1>5, <2>1 DEF Transactions
    <2>5. /\ r \notin Created /\ r \in Objects /\ r # "ipv4 address" /\ r # "ipv6 address"
          /\ "ipv4 address" \in Objects /\ "ipv6 address" \in Objects /\ Routes \subseteq Objects
        BY <1>7, Zenon DEF IInv, OwnInv, Objects, Calls
    <2>6. Created' = Created \cup {r}
        <3>1. Created' = {Append(list, r)[i] : i \in 1..(Len(list) + 1)}
            BY <2>2, <2>4 DEF Created
        <3>2. \A i \in 1..(Len(list) + 1) : i \in 1..Len(list) \/ i = Len(list) + 1
            BY ONLY <2>2
        <3>3. Len(list) + 1 \in 1..(Len(list) + 1) /\ 1..Len(list) \subseteq 1..(Len(list) + 1)
            BY ONLY <2>2
        <3> QED BY <2>2, <3>1, <3>2, <3>3, Zenon DEF Created
    <2>7. owner' \in Owners /\ owner'[r] = "vpn" /\ \A x \in Objects : x # r => owner'[x] = owner[x]
        BY <2>1, <2>5, Zenon DEF IInv, TypeInv, Owners
    <2>8. OwnInv'
        BY <2>4, <2>5, <2>6, <2>7, Zenon DEF IInv, OwnInv
    <2>9. /\ DOMAIN made' = DOMAIN made \cup {r} /\ made'[r] = step
          /\ \A y \in DOMAIN made : y # r => made'[y] = made[y]
          /\ made' = [y \in DOMAIN made' |-> made'[y]]
        BY <2>1, WithFacts, Zenon
    <2>10. KnownInv'
        <3>1. ASSUME NEW x \in DOMAIN made', x # r PROVE Known(x)'
            BY <1>2, <1>4, <2>4, <2>6, <2>9, <3>1, KnownStays
        <3>2. Known(r)'
            BY <1>3, <1>4, <2>6, <2>9, Zenon DEF Known
        <3> QED BY <3>1, <3>2 DEF KnownInv
    <2>11. \A x \in Created : x \in DOMAIN made /\ made'[x] = made[x] /\ made[x] \in Nat /\ made[x] < step
        <3>1. ASSUME NEW x \in Created PROVE x \in DOMAIN made /\ made[x] < step /\ x # r /\ Known(x) /\ x \notin Calls
            BY <1>2, <2>5, <3>1, CreatedFacts, Zenon DEF IInv, OrderInv, KnownInv
        <3>2. ASSUME NEW x \in Created PROVE made[x] \in Nat
            BY <3>1, <3>2, Zenon DEF Known, Calls
        <3> QED BY <2>9, <3>1, <3>2
    <2>12. OrderInv'
        <3> DEFINE new == Append(list, r)
        <3>1. ASSUME NEW i \in 1..(Len(list) + 1), NEW j \in 1..(Len(list) + 1), i < j
              PROVE  made'[new[i]] < made'[new[j]]
            <4>1. i \in 1..Len(list) /\ (j \in 1..Len(list) \/ j = Len(list) + 1)
                BY ONLY <3>1, <2>2
            <4>2. list[i] \in Created /\ new[i] = list[i]
                BY <4>1, <2>2 DEF Created
            <4>3. CASE j = Len(list) + 1
                BY <2>2, <2>9, <2>11, <4>2, <4>3
            <4>4. CASE j \in 1..Len(list)
                <5>1. list[j] \in Created /\ new[j] = list[j]
                    BY <4>4, <2>2 DEF Created
                <5> QED BY <2>11, <3>1, <4>1, <4>2, <4>4, <5>1 DEF IInv, OrderInv
            <4> QED BY <4>1, <4>3, <4>4
        <3>2. \A x \in Created' : x \in DOMAIN made' /\ made'[x] < step'
            <4>1. ASSUME NEW x \in Created' PROVE made'[x] \in Nat /\ made'[x] <= step /\ x \in DOMAIN made'
                BY <1>3, <2>6, <2>9, <2>11, <4>1
            <4> QED BY <4>1, <1>3
        <3> QED BY <2>2, <2>4, <3>1, <3>2 DEF OrderInv
    <2>13. TypeInv' /\ MtuInv'
        BY <1>2, <1>3, <1>4, <2>3, <2>4, <2>7, <2>9 DEF IInv, TypeInv, MtuInv
    <2>14. PhaseInv'
        BY <1>2, <1>3, <1>4, <2>4, LaterFacts, PhaseGoesOn, Zenon
    <2> QED BY <2>8, <2>10, <2>12, <2>13, <2>14 DEF IInv
<1> QED BY <1>6, <1>7
-------------------------------------------------------------------------------
(* A step of rollback that is not its last.                                *)
Undoing == pc = "undo" /\ pc' = "undo" /\ UNCHANGED <<step, local>>

(* The last route is younger than the others, so it occurs once.           *)
LEMMA LastRoute ==
    ASSUME IInv, txn.created_routes_ # <<>>
    PROVE  LET list == txn.created_routes_
               last == list[Len(list)]
               rest == SubSeq(list, 1, Len(list) - 1)
           IN /\ last \in Created /\ rest \in RouteLists
              /\ Len(list) \in Nat /\ Len(list) >= 1 /\ Len(rest) = Len(list) - 1
              /\ \A i \in 1..(Len(list) - 1) :
                    rest[i] = list[i] /\ i \in 1..Len(list) /\ list[i] # last
              /\ {rest[i] : i \in 1..Len(rest)} = Created \ {last}
              /\ \A x \in Created : x # last => made[x] < made[last]
              /\ \A x \in Created : x \in DOMAIN made /\ made[x] \in Nat /\ made[x] > 6
PROOF
<1> DEFINE list == txn.created_routes_
           last == list[Len(list)]
           rest == SubSeq(list, 1, Len(list) - 1)
<1>1. list \in Seq(Routes) /\ list # <<>>
    BY DEF IInv, TypeInv, Transactions, RouteLists
<1>2. Len(list) \in Nat /\ Len(list) >= 1 /\ Len(list) \in 1..Len(list)
    BY ONLY <1>1, EmptySeq
<1>3. rest \in RouteLists /\ Len(rest) = Len(list) - 1 /\ \A i \in 1..(Len(list) - 1) : rest[i] = list[i]
    BY ONLY <1>1, <1>2 DEF RouteLists
<1>4. \A i \in 1..(Len(list) - 1) : i \in 1..Len(list) /\ i < Len(list)
    BY ONLY <1>2
<1>5. \A i \in 1..Len(list) : list[i] \in Created
    BY DEF Created
<1>6. \A x \in Created : x \in DOMAIN made /\ made[x] \in Nat /\ made[x] > 6
    <2>1. ASSUME NEW x \in Created PROVE x \in DOMAIN made /\ x \notin Calls /\ Known(x)
        BY <2>1, CreatedFacts DEF IInv, OrderInv, KnownInv
    <2> QED BY <2>1, Zenon DEF Known, Calls
<1>7. \A i \in 1..(Len(list) - 1) : made[list[i]] < made[last]
    BY <1>2, <1>4, Zenon DEF IInv, OrderInv
<1>8. \A i \in 1..(Len(list) - 1) : list[i] # last
    <2>1. ASSUME NEW i \in 1..(Len(list) - 1), list[i] = last PROVE FALSE
        <3>1. made[last] < made[last] /\ last \in Created
            BY <1>2, <1>5, <1>7, <2>1
        <3>2. made[last] \in Nat
            BY <3>1, <1>6
        <3> QED BY ONLY <3>1, <3>2
    <2> QED BY <2>1
<1>9. \A i \in 1..Len(list) : i \in 1..(Len(list) - 1) \/ i = Len(list)
    BY ONLY <1>2
<1>10. {rest[i] : i \in 1..Len(rest)} = Created \ {last}
    <2>1. {rest[i] : i \in 1..Len(rest)} = {list[i] : i \in 1..(Len(list) - 1)}
        BY <1>3
    <2>2. {list[i] : i \in 1..(Len(list) - 1)} = {list[i] : i \in 1..Len(list)} \ {last}
        BY <1>4, <1>8, <1>9
    <2> QED BY <2>1, <2>2, Zenon DEF Created
<1>11. ASSUME NEW x \in Created, x # last PROVE made[x] < made[last]
    <2>1. PICK i \in 1..Len(list) : x = list[i]
        BY DEF Created
    <2> QED BY <1>7, <1>9, <1>11, <2>1
<1> QED BY <1>2, <1>3, <1>4, <1>5, <1>6, <1>8, <1>10, <1>11, Zenon

(* rollback deletes the last route of the list and forgets it.             *)
LEMMA RemoveRouteKeeps ==
    ASSUME IInv, Undoing, RemoveRoute
    PROVE  IInv'
PROOF
<1> DEFINE list == txn.created_routes_
           last == list[Len(list)]
           rest == SubSeq(list, 1, Len(list) - 1)
<1>1. /\ txn' = [txn EXCEPT !.created_routes_ = rest] /\ list # <<>>
      /\ UNCHANGED <<mtu, adapter_, session_>>
      /\ owner' = [owner EXCEPT ![last] = "nobody"] /\ made' = Without({last})
    BY DEF RemoveRoute, Delete
<1>2. /\ pc = "undo" /\ pc' = "undo" /\ UNCHANGED <<step, prior, found>> /\ ~HalfSet /\ ~HalfSet'
    BY DEF Undoing, local, HalfSet
<1>3. /\ last \in Created /\ rest \in RouteLists /\ Len(rest) = Len(list) - 1 /\ Len(list) \in Nat
      /\ \A i \in 1..(Len(list) - 1) : rest[i] = list[i] /\ i \in 1..Len(list) /\ list[i] # last
      /\ {rest[i] : i \in 1..Len(rest)} = Created \ {last}
    BY <1>1, LastRoute
<1>4. txn \in Transactions
    BY DEF IInv, TypeInv
<1> HIDE DEF list, last, rest
<1>5. txn' \in Transactions
    BY <1>1, <1>3, <1>4 DEF Transactions
<1>6. /\ txn'.active_ = txn.active_ /\ txn'.adapter_open_ = txn.adapter_open_
      /\ txn'.session_started_ = txn.session_started_ /\ txn'.address_created_ = txn.address_created_
      /\ txn'.ipv6_address_ = txn.ipv6_address_ /\ txn'.ipv6_address_created_ = txn.ipv6_address_created_
      /\ txn'.prior_mtu_ = txn.prior_mtu_ /\ txn'.created_routes_ = rest
    BY <1>1, <1>4 DEF Transactions
<1>7. Created' = Created \ {last}
    BY <1>3, <1>6, Zenon DEF Created
<1>8. /\ last \in Routes /\ last \notin Calls /\ last \in Objects
      /\ Routes \subseteq Objects /\ "ipv4 address" \in Objects /\ "ipv6 address" \in Objects
      /\ last # "ipv4 address" /\ last # "ipv6 address"
    BY <1>3, CreatedFacts, Zenon DEF IInv, Objects, Calls
<1>9. owner' \in Owners /\ owner'[last] = "nobody" /\ \A x \in Objects : x # last => owner'[x] = owner[x]
    BY <1>1, <1>8, Zenon DEF IInv, TypeInv, Owners
<1>10. OwnInv'
    BY <1>6, <1>7, <1>8, <1>9, Zenon DEF IInv, OwnInv
<1>11. /\ DOMAIN made' = DOMAIN made \ {last} /\ \A y \in DOMAIN made' : made'[y] = made[y]
       /\ made' = [y \in DOMAIN made' |-> made'[y]]
    BY <1>1, WithoutFacts, Zenon
<1>12. KnownInv'
    <2>1. ASSUME NEW x \in DOMAIN made' PROVE Known(x)'
        <3>1. x \in DOMAIN made /\ x # last /\ made'[x] = made[x] /\ Known(x)
            BY <1>11, <2>1 DEF IInv, KnownInv
        <3> QED BY <1>1, <1>2, <1>6, <1>7, <3>1, Zenon DEF Known
    <2> QED BY <2>1 DEF KnownInv
<1>13. OrderInv'
    <2>1. Created' \subseteq DOMAIN made'
        BY <1>7, <1>11 DEF IInv, OrderInv
    <2>2. ASSUME NEW i \in 1..Len(rest), NEW j \in 1..Len(rest), i < j
          PROVE  made'[rest[i]] < made'[rest[j]]
        <3>1. /\ rest[i] = list[i] /\ i \in 1..Len(list) /\ list[i] # last
              /\ rest[j] = list[j] /\ j \in 1..Len(list) /\ list[j] # last
            BY <1>3, <2>2
        <3>2. list[i] \in DOMAIN made /\ list[j] \in DOMAIN made /\ made[list[i]] < made[list[j]]
            BY <2>2, <3>1 DEF IInv, OrderInv, Created, list
        <3> QED BY <1>11, <3>1, <3>2
    <2> QED BY <1>2, <1>6, <2>1, <2>2 DEF OrderInv
<1>14. TypeInv' /\ MtuInv' /\ PhaseInv'
    BY <1>1, <1>2, <1>5, <1>6, <1>9, <1>11, Zenon DEF IInv, TypeInv, MtuInv, PhaseInv
<1> QED BY <1>10, <1>12, <1>13, <1>14 DEF IInv

(* rollback deletes the IPv6 address it created.                           *)
LEMMA RemoveIpv6Keeps ==
    ASSUME IInv, Undoing, RemoveIpv6
    PROVE  IInv'
PROOF
<1>1. /\ txn' = [txn EXCEPT !.ipv6_address_created_ = FALSE]
      /\ txn.created_routes_ = <<>> /\ txn.prior_mtu_ = <<>> /\ UNCHANGED <<mtu, adapter_, session_>>
      /\ owner' = [owner EXCEPT !["ipv6 address"] = "nobody"] /\ made' = Without({"ipv6 address"})
    BY Zenon DEF RemoveIpv6, Delete
<1>2. /\ pc = "undo" /\ pc' = "undo" /\ UNCHANGED <<step, prior, found>> /\ ~HalfSet /\ ~HalfSet'
    BY DEF Undoing, local, HalfSet
<1>3. txn \in Transactions
    BY DEF IInv, TypeInv
<1>4. txn' \in Transactions
    BY <1>1, <1>3, Zenon DEF Transactions
<1>5. /\ txn'.active_ = txn.active_ /\ txn'.adapter_open_ = txn.adapter_open_
      /\ txn'.session_started_ = txn.session_started_ /\ txn'.ipv6_address_created_ = FALSE
      /\ txn'.ipv6_address_ = txn.ipv6_address_ /\ txn'.address_created_ = txn.address_created_
      /\ txn'.prior_mtu_ = txn.prior_mtu_ /\ txn'.created_routes_ = txn.created_routes_
    BY <1>1, <1>3, Zenon DEF Transactions
<1>6. /\ "ipv6 address" # "ipv4 address" /\ "ipv6 address" \in Objects /\ "ipv4 address" \in Objects
      /\ Routes \subseteq Objects /\ "ipv6 address" \notin Routes
    BY Zenon DEF Objects, Calls
<1>7. /\ owner' \in Owners /\ owner'["ipv6 address"] = "nobody"
      /\ \A x \in Objects : x # "ipv6 address" => owner'[x] = owner[x]
    BY <1>1, <1>6, Zenon DEF IInv, TypeInv, Owners
<1>8. Created' = Created
    BY <1>5 DEF Created
<1>9. OwnInv'
    BY <1>5, <1>6, <1>7, <1>8, Zenon DEF IInv, OwnInv
<1>10. /\ DOMAIN made' = DOMAIN made \ {"ipv6 address"} /\ \A y \in DOMAIN made' : made'[y] = made[y]
       /\ made' = [y \in DOMAIN made' |-> made'[y]]
    BY <1>1, WithoutFacts, Zenon
<1>11. OrderInv'
    <2>1. \A r \in Created : r \in DOMAIN made' /\ made'[r] = made[r]
        BY <1>6, <1>10, CreatedFacts, Zenon DEF IInv, OrderInv
    <2> QED BY <1>2, <1>5, <2>1, OrderFramed
<1>12. KnownInv'
    <2>1. ASSUME NEW x \in DOMAIN made' PROVE Known(x)'
        <3>1. x \in DOMAIN made /\ x # "ipv6 address" /\ made'[x] = made[x] /\ Known(x)
            BY <1>10, <2>1, Zenon DEF IInv, KnownInv
        <3> QED BY <1>1, <1>2, <1>5, <1>8, <3>1, Zenon DEF Known
    <2> QED BY <2>1 DEF KnownInv
<1>13. TypeInv' /\ MtuInv' /\ PhaseInv'
    BY <1>1, <1>2, <1>4, <1>5, <1>7, <1>10, Zenon DEF IInv, TypeInv, MtuInv, PhaseInv
<1> QED BY <1>9, <1>11, <1>12, <1>13 DEF IInv

(* rollback deletes the IPv4 address it created.                           *)
LEMMA RemoveIpv4Keeps ==
    ASSUME IInv, Undoing, RemoveIpv4
    PROVE  IInv'
PROOF
<1>1. /\ txn' = [txn EXCEPT !.address_created_ = FALSE]
      /\ txn.created_routes_ = <<>> /\ txn.prior_mtu_ = <<>> /\ UNCHANGED <<mtu, adapter_, session_>>
      /\ owner' = [owner EXCEPT !["ipv4 address"] = "nobody"] /\ made' = Without({"ipv4 address"})
    BY Zenon DEF RemoveIpv4, Delete
<1>2. /\ pc = "undo" /\ pc' = "undo" /\ UNCHANGED <<step, prior, found>> /\ ~HalfSet /\ ~HalfSet'
    BY DEF Undoing, local, HalfSet
<1>3. txn \in Transactions
    BY DEF IInv, TypeInv
<1>4. txn' \in Transactions
    BY <1>1, <1>3, Zenon DEF Transactions
<1>5. /\ txn'.active_ = txn.active_ /\ txn'.adapter_open_ = txn.adapter_open_
      /\ txn'.session_started_ = txn.session_started_ /\ txn'.address_created_ = FALSE
      /\ txn'.ipv6_address_ = txn.ipv6_address_ /\ txn'.ipv6_address_created_ = txn.ipv6_address_created_
      /\ txn'.prior_mtu_ = txn.prior_mtu_ /\ txn'.created_routes_ = txn.created_routes_
    BY <1>1, <1>3, Zenon DEF Transactions
<1>6. /\ "ipv4 address" # "ipv6 address" /\ "ipv4 address" \in Objects /\ "ipv6 address" \in Objects
      /\ Routes \subseteq Objects /\ "ipv4 address" \notin Routes
    BY Zenon DEF Objects, Calls
<1>7. /\ owner' \in Owners /\ owner'["ipv4 address"] = "nobody"
      /\ \A x \in Objects : x # "ipv4 address" => owner'[x] = owner[x]
    BY <1>1, <1>6, Zenon DEF IInv, TypeInv, Owners
<1>8. Created' = Created
    BY <1>5 DEF Created
<1>9. OwnInv'
    BY <1>5, <1>6, <1>7, <1>8, Zenon DEF IInv, OwnInv
<1>10. /\ DOMAIN made' = DOMAIN made \ {"ipv4 address"} /\ \A y \in DOMAIN made' : made'[y] = made[y]
       /\ made' = [y \in DOMAIN made' |-> made'[y]]
    BY <1>1, WithoutFacts, Zenon
<1>11. OrderInv'
    <2>1. \A r \in Created : r \in DOMAIN made' /\ made'[r] = made[r]
        BY <1>6, <1>10, CreatedFacts, Zenon DEF IInv, OrderInv
    <2> QED BY <1>2, <1>5, <2>1, OrderFramed
<1>12. KnownInv'
    <2>1. ASSUME NEW x \in DOMAIN made' PROVE Known(x)'
        <3>1. x \in DOMAIN made /\ x # "ipv4 address" /\ made'[x] = made[x] /\ Known(x)
            BY <1>10, <2>1, Zenon DEF IInv, KnownInv
        <3> QED BY <1>1, <1>2, <1>5, <1>8, <3>1, Zenon DEF Known
    <2> QED BY <2>1 DEF KnownInv
<1>13. TypeInv' /\ MtuInv' /\ PhaseInv'
    BY <1>1, <1>2, <1>4, <1>5, <1>7, <1>10, Zenon DEF IInv, TypeInv, MtuInv, PhaseInv
<1> QED BY <1>9, <1>11, <1>12, <1>13 DEF IInv

(* rollback restores the MTU of both families from the snapshot.           *)
LEMMA RestoreMtuKeeps ==
    ASSUME IInv, Undoing, RestoreMtu
    PROVE  IInv'
PROOF
<1>1. /\ txn' = [txn EXCEPT !.prior_mtu_ = <<>>] /\ txn.created_routes_ = <<>> /\ txn.prior_mtu_ # <<>>
      /\ UNCHANGED <<owner, adapter_, session_>>
      /\ mtu' = txn.prior_mtu_[1] /\ made' = Without({"mtu ipv4", "mtu ipv6"})
    BY Zenon DEF RestoreMtu
<1>2. /\ pc = "undo" /\ pc' = "undo" /\ UNCHANGED <<step, prior, found>> /\ ~HalfSet /\ ~HalfSet'
    BY DEF Undoing, local, HalfSet
<1>3. txn \in Transactions /\ <<>> \in Snapshots /\ found \in Mtus
    BY DEF IInv, TypeInv, Snapshots
<1>4. mtu' = found
    <2>1. txn.prior_mtu_ = <<found>>
        BY <1>1, Zenon DEF IInv, MtuInv
    <2>2. mtu' = txn.prior_mtu_[1]
        BY <1>1, Zenon
    <2> QED BY ONLY <2>1, <2>2
<1>5. txn' \in Transactions
    BY <1>1, <1>3, Zenon DEF Transactions
<1>6. /\ txn'.active_ = txn.active_ /\ txn'.adapter_open_ = txn.adapter_open_
      /\ txn'.session_started_ = txn.session_started_ /\ txn'.address_created_ = txn.address_created_
      /\ txn'.ipv6_address_ = txn.ipv6_address_ /\ txn'.ipv6_address_created_ = txn.ipv6_address_created_
      /\ txn'.prior_mtu_ = <<>> /\ txn'.created_routes_ = txn.created_routes_
    BY <1>1, <1>3, Zenon DEF Transactions
<1>7. OwnInv' /\ Created' = Created
    BY <1>1, <1>6, OwnFramed, Zenon DEF Created
<1>8. /\ DOMAIN made' = DOMAIN made \ {"mtu ipv4", "mtu ipv6"} /\ \A y \in DOMAIN made' : made'[y] = made[y]
      /\ made' = [y \in DOMAIN made' |-> made'[y]]
    BY <1>1, WithoutFacts, Zenon
<1>9. OrderInv'
    <2>1. \A r \in Created : r \in DOMAIN made' /\ made'[r] = made[r]
        BY <1>8, CreatedFacts, Zenon DEF IInv, OrderInv, Calls
    <2> QED BY <1>2, <1>6, <2>1, OrderFramed
<1>10. KnownInv'
    <2>1. ASSUME NEW x \in DOMAIN made' PROVE Known(x)'
        <3>1. x \in DOMAIN made /\ x \notin {"mtu ipv4", "mtu ipv6"} /\ made'[x] = made[x] /\ Known(x)
            BY <1>8, <2>1, Zenon DEF IInv, KnownInv
        <3> QED BY <1>1, <1>2, <1>6, <1>7, <3>1, Zenon DEF Known
    <2> QED BY <2>1 DEF KnownInv
<1>11. TypeInv' /\ PhaseInv'
    BY <1>1, <1>2, <1>3, <1>4, <1>5, <1>6, <1>8, Zenon DEF IInv, TypeInv, PhaseInv
<1>12. MtuInv'
    BY <1>2, <1>4, <1>6 DEF IInv, MtuInv, PhaseInv
<1> QED BY <1>7, <1>9, <1>10, <1>11, <1>12 DEF IInv

(* rollback ends: the session stops, then the adapter is closed and the    *)
(* transaction is as new.                                                  *)
LEMMA CloseKeeps ==
    ASSUME IInv, pc = "undo", Close, UNCHANGED <<step, local>>
    PROVE  IInv'
PROOF
<1>1. /\ txn.created_routes_ = <<>> /\ txn.prior_mtu_ = <<>> /\ UNCHANGED <<owner, mtu, step, prior, found>>
      /\ ~HalfSet
    BY DEF Close, local, HalfSet
<1>2. txn \in Transactions /\ adapter_ \in BOOLEAN /\ session_ \in BOOLEAN
    BY DEF IInv, TypeInv
<1>3. txn.address_created_ = FALSE /\ txn.ipv6_address_created_ = FALSE
    BY <1>2 DEF Close, IInv, PhaseInv, Transactions
<1>4. txn.active_ = FALSE /\ txn.adapter_open_ = adapter_ /\ txn.session_started_ = session_
    BY <1>2 DEF IInv, PhaseInv, Transactions
<1>5. Created = {} /\ mtu = found
    BY <1>1, CreatedFacts DEF IInv, MtuInv
<1>6. CASE txn.session_started_
    <2>1. /\ txn' = [txn EXCEPT !.session_started_ = FALSE] /\ session_' = FALSE
          /\ made' = Without({"session"}) /\ adapter_' = adapter_ /\ pc' = "undo" /\ ~HalfSet'
        BY <1>6 DEF Close, HalfSet
    <2>2. txn' \in Transactions
        BY <1>2, <2>1, Zenon DEF Transactions
    <2>3. /\ txn'.active_ = txn.active_ /\ txn'.adapter_open_ = txn.adapter_open_
          /\ txn'.session_started_ = FALSE /\ txn'.address_created_ = txn.address_created_
          /\ txn'.ipv6_address_ = txn.ipv6_address_ /\ txn'.ipv6_address_created_ = txn.ipv6_address_created_
          /\ txn'.prior_mtu_ = txn.prior_mtu_ /\ txn'.created_routes_ = txn.created_routes_
        BY <1>2, <2>1 DEF Transactions
    <2>4. /\ DOMAIN made' = DOMAIN made \ {"session"} /\ \A y \in DOMAIN made' : made'[y] = made[y]
          /\ made' = [y \in DOMAIN made' |-> made'[y]]
        BY <2>1, WithoutFacts, Zenon
    <2>5. OwnInv' /\ OrderInv' /\ Created' = Created
        BY <1>1, <1>5, <2>1, <2>3, OwnFramed, OrderFramed
    <2>6. KnownInv'
        <3>1. ASSUME NEW x \in DOMAIN made' PROVE Known(x)'
            <4>1. x \in DOMAIN made /\ x # "session" /\ made'[x] = made[x] /\ Known(x)
                BY <2>4, <3>1 DEF IInv, KnownInv
            <4> QED BY <1>1, <2>1, <2>3, <2>5, <4>1, Zenon DEF Known
        <3> QED BY <3>1 DEF KnownInv
    <2>7. TypeInv' /\ MtuInv' /\ PhaseInv'
        BY <1>1, <1>3, <1>4, <2>1, <2>2, <2>3, <2>4, Zenon DEF IInv, TypeInv, MtuInv, PhaseInv
    <2> QED BY <2>5, <2>6, <2>7 DEF IInv
<1>7. CASE ~txn.session_started_
    <2>1. /\ txn' = [txn EXCEPT !.adapter_open_ = FALSE, !.ipv6_address_ = FALSE]
          /\ session_' = session_ /\ adapter_' = (adapter_ /\ ~txn.adapter_open_)
          /\ made' = Without({"adapter"}) /\ pc' = "idle" /\ ~HalfSet'
        BY <1>7 DEF Close, HalfSet
    <2>2. txn' \in Transactions
        BY <1>2, <2>1, Zenon DEF Transactions
    <2>3. /\ txn'.active_ = txn.active_ /\ txn'.adapter_open_ = FALSE
          /\ txn'.session_started_ = txn.session_started_ /\ txn'.address_created_ = txn.address_created_
          /\ txn'.ipv6_address_ = FALSE /\ txn'.ipv6_address_created_ = txn.ipv6_address_created_
          /\ txn'.prior_mtu_ = txn.prior_mtu_ /\ txn'.created_routes_ = txn.created_routes_
        BY <1>2, <2>1 DEF Transactions
    <2>4. adapter_' = FALSE /\ session_' = FALSE /\ session_ = FALSE
        BY <1>2, <1>4, <1>7, <2>1
    <2>5. /\ DOMAIN made' = DOMAIN made \ {"adapter"} /\ \A y \in DOMAIN made' : made'[y] = made[y]
          /\ made' = [y \in DOMAIN made' |-> made'[y]]
        BY <2>1, WithoutFacts, Zenon
    <2>6. OwnInv' /\ OrderInv' /\ Created' = Created
        BY <1>1, <1>5, <2>1, <2>3, OwnFramed, OrderFramed
    <2>7. KnownInv'
        <3>1. ASSUME NEW x \in DOMAIN made' PROVE Known(x)'
            <4>1. x \in DOMAIN made /\ x # "adapter" /\ made'[x] = made[x] /\ Known(x)
                BY <2>5, <3>1 DEF IInv, KnownInv
            <4> QED BY <1>1, <2>1, <2>3, <2>6, <4>1, Zenon DEF Known
        <3> QED BY <3>1 DEF KnownInv
    <2>8. TypeInv' /\ MtuInv'
        BY <1>1, <1>4, <1>5, <2>1, <2>2, <2>3, <2>4, <2>5 DEF IInv, TypeInv, MtuInv
    <2>9. PhaseInv'
        BY <1>1, <1>3, <1>4, <2>1, <2>3, <2>4, Zenon DEF PhaseInv
    <2> QED BY <2>6, <2>7, <2>8, <2>9 DEF IInv
<1> QED BY <1>6, <1>7
-------------------------------------------------------------------------------
(* A new transaction has made nothing.                                     *)
LEMMA InitHolds == Init => IInv
PROOF
<1> SUFFICES ASSUME Init PROVE IInv
    OBVIOUS
<1>1. /\ owner \in [Objects -> {"nobody", "admin"}] /\ mtu \in Mtus /\ adapter_ = FALSE /\ session_ = FALSE
      /\ txn = NewTransaction /\ pc = "idle" /\ step = 1 /\ made = [x \in {} |-> 0]
      /\ prior = mtu /\ found = mtu /\ ~HalfSet
    BY DEF Init, Mtus, HalfSet
<1>2. <<>> \in Snapshots /\ <<>> \in RouteLists
    BY DEF Snapshots, RouteLists
<1>3. txn \in Transactions
    BY <1>1, <1>2 DEF NewTransaction, Transactions
<1>4. /\ txn.active_ = FALSE /\ txn.adapter_open_ = FALSE /\ txn.session_started_ = FALSE
      /\ txn.address_created_ = FALSE /\ txn.ipv6_address_created_ = FALSE
      /\ txn.prior_mtu_ = <<>> /\ txn.created_routes_ = <<>>
    BY <1>1 DEF NewTransaction
<1>5. owner \in Owners /\ \A o \in Objects : owner[o] # "vpn"
    BY <1>1 DEF Owners
<1>6. TypeInv
    BY <1>1, <1>3, <1>5, Zenon DEF TypeInv
<1>7. Created = {}
    BY <1>4, <1>6, CreatedFacts
<1>8. OwnInv
    BY <1>4, <1>5, <1>7, Zenon DEF OwnInv, Objects
<1>9. KnownInv /\ OrderInv
    BY <1>1, <1>4, <1>7 DEF KnownInv, OrderInv
<1>10. PhaseInv /\ MtuInv
    BY <1>1, <1>4, Zenon DEF PhaseInv, MtuInv
<1> QED BY <1>6, <1>8, <1>9, <1>10 DEF IInv

(* Nothing happens.                                                        *)
LEMMA StutterKeeps ==
    ASSUME IInv, UNCHANGED vars
    PROVE  IInv'
PROOF
<1>1. UNCHANGED <<owner, mtu, adapter_, session_, txn, pc, step, made, prior, found>>
    BY DEF vars, os, local
<1>2. Created' = Created /\ HalfSet' = HalfSet
    BY <1>1 DEF Created, HalfSet
<1>3. TypeInv' /\ PhaseInv'
    BY <1>1 DEF IInv, TypeInv, PhaseInv
<1>4. MtuInv' /\ OwnInv' /\ OrderInv'
    BY <1>1, <1>2, Zenon DEF IInv, MtuInv, OwnInv, OrderInv
<1>5. ASSUME NEW x \in DOMAIN made PROVE Known(x)'
    BY <1>1, <1>2, <1>5, KnownStays
<1> QED BY <1>1, <1>3, <1>4, <1>5 DEF IInv, KnownInv

(* Every call of activate and of rollback, and whatever the administrator  *)
(* does between two of them, keeps the invariant.                          *)
LEMMA Inductive == IInv /\ [Next]_vars => IInv'
PROOF
<1> SUFFICES ASSUME IInv, [Next]_vars PROVE IInv'
    OBVIOUS
<1>1. CASE UNCHANGED vars
    BY <1>1, StutterKeeps
<1>2. CASE \E ipv6 \in BOOLEAN : Activate(ipv6)
    BY <1>2, ActivateKeeps
<1>3. CASE AddIpv4
    BY <1>3, Ipv4Creates, Zenon DEF AddIpv4
<1>4. CASE \E r \in Routes : AddRoute(r)
    BY <1>4, AddRouteKeeps
<1>5. CASE \E o \in Objects : Administer(o)
    BY <1>5, AdministerKeeps
<1>6. CASE Undo
    BY <1>6, RemoveRouteKeeps, RestoreMtuKeeps, RemoveIpv6Keeps, RemoveIpv4Keeps, CloseKeeps
       DEF Undo, Undoing
<1> QED BY <1>1, <1>2, <1>3, <1>4, <1>5, <1>6, ThrowKeeps, OpenAdapterKeeps, StartSessionKeeps,
           AddIpv6Keeps, SetMtu4Keeps, SetMtu6Keeps, CommitKeeps, RollbackKeeps DEF Next

(* The record of the transaction is exactly what the client has made, at   *)
(* every moment of activate and rollback.                                  *)
THEOREM Invariance == Spec => []IInv
PROOF
<1> QED BY InitHolds, Inductive, PTL DEF Spec

(* All or nothing: between two calls of the transaction either activate    *)
(* has come to its end, with all that the client made recorded for the     *)
(* rollback, or the MTU is the one that was found and nothing the client   *)
(* made is left, whichever call of activate threw, for every list of       *)
(* routes, every state of the host and any number of activations.          *)
THEOREM WholeOrNothing == Spec => []AllOrNothing
PROOF
<1>1. ASSUME IInv PROVE AllOrNothing
    <2> SUFFICES ASSUME pc = "idle"
                 PROVE  IF txn.active_
                        THEN /\ adapter_ /\ session_
                             /\ mtu = [f \in {"ipv4", "ipv6"} |-> "tunnel"]
                             /\ Owned = Recorded
                        ELSE mtu = found /\ ~adapter_ /\ ~session_ /\ Owned = {}
        BY DEF AllOrNothing
    <2>1. CASE txn.active_
        <3>1. adapter_ /\ session_ /\ mtu = [f \in {"ipv4", "ipv6"} |-> "tunnel"]
            BY <1>1, <2>1 DEF IInv, PhaseInv, MtuInv
        <3>2. \A r \in Routes : r \notin {"ipv4 address", "ipv6 address"}
            BY Profiles DEF Calls
        <3>3. Created \subseteq Routes
            BY <1>1, CreatedFacts DEF IInv
        <3>4. ASSUME NEW o \in Objects PROVE o \in Owned <=> o \in Recorded
            BY <1>1, <3>2, <3>3, <3>4, Zenon DEF IInv, OwnInv, Created, Objects, Owned, Recorded
        <3> QED BY <2>1, <3>1, <3>4, Zenon DEF Owned, Recorded
    <2>2. CASE ~txn.active_
        <3>1. /\ ~adapter_ /\ ~session_ /\ ~txn.address_created_ /\ ~txn.ipv6_address_created_
              /\ txn.prior_mtu_ = <<>> /\ txn.created_routes_ = <<>> /\ ~HalfSet
            BY <1>1, <2>2 DEF IInv, PhaseInv, HalfSet
        <3>2. mtu = found
            BY <1>1, <3>1 DEF IInv, MtuInv
        <3>3. Created = {}
            BY <1>1, <3>1, CreatedFacts DEF IInv
        <3>4. \A o \in Objects : owner[o] # "vpn"
            BY <1>1, <3>1, <3>3, Zenon DEF IInv, OwnInv, Objects
        <3> QED BY <2>2, <3>1, <3>2, <3>4 DEF Owned
    <2> QED BY <2>1, <2>2
<1> QED BY <1>1, Invariance, PTL
-------------------------------------------------------------------------------
(* Creating an object takes nothing from its owner.                        *)
LEMMA CreateSpares ==
    ASSUME IInv, NEW o \in Objects, Create(o)
    PROVE  /\ \A x \in Objects : owner[x] = "admin" => owner'[x] = "admin"
           /\ DOMAIN made \subseteq DOMAIN made'
PROOF
<1>1. DOMAIN made \subseteq DOMAIN made'
    BY WithFacts, Zenon DEF Create
<1>2. owner' = owner \/ (owner[o] = "nobody" /\ owner' = [owner EXCEPT ![o] = "vpn"])
    BY DEF Create
<1>3. \A x \in Objects : owner[x] = "admin" => owner'[x] = "admin"
    BY <1>2 DEF IInv, TypeInv, Owners
<1> QED BY <1>1, <1>3

(* Deleting one of the client's objects spares the others.                 *)
LEMMA DeleteSpares ==
    ASSUME IInv, NEW o \in Objects, Delete(o), owner[o] = "vpn"
    PROVE  \A x \in Objects : owner[x] = "admin" => owner'[x] = "admin"
BY DEF Delete, IInv, TypeInv, Owners

(* A step that undoes the things which are as old as age or younger.       *)
LEMMA UndoesNewest ==
    ASSUME NEW things, made' = Without(things), NEW age \in Nat,
           \A x \in DOMAIN made : made[x] \in Nat /\ (made[x] >= age <=> x \in things)
    PROVE  NewestFirst
PROOF
<1>1. ASSUME NEW x \in DOMAIN made, NEW y \in DOMAIN made, x \notin DOMAIN made', made[x] <= made[y]
      PROVE  y \notin DOMAIN made'
    <2>1. x \in things
        BY <1>1, WithoutFacts, Zenon
    <2>2. made[x] \in Nat /\ made[y] \in Nat /\ made[x] >= age
        BY <2>1
    <2>3. made[y] >= age
        BY ONLY <1>1, <2>2, age \in Nat
    <2> QED BY <2>3, WithoutFacts, Zenon
<1> QED BY <1>1 DEF NewestFirst

(* The ages of what was made.                                              *)
LEMMA Ages ==
    ASSUME IInv, NEW x \in DOMAIN made
    PROVE  Known(x) /\ made[x] \in Nat
PROOF
<1>1. Known(x)
    BY DEF IInv, KnownInv
<1>2. made[x] \in {1, 2, 3, 4, 5, 6} \/ made[x] \in Nat
    BY <1>1, Zenon DEF Known
<1>3. made[x] \in Nat
    BY ONLY <1>2
<1> QED BY <1>1, <1>3

(* Everything that stays is older than the thing that is undone.           *)
LEMMA UndoesAge ==
    ASSUME NEW thing, made' = Without({thing}), NEW age \in Nat, NEW older,
           \A n \in older : n \in Nat /\ n < age,
           \A x \in DOMAIN made : (x = thing /\ made[x] = age) \/ (x # thing /\ made[x] \in older)
    PROVE  NewestFirst
PROOF
<1>1. ASSUME NEW x \in DOMAIN made PROVE made[x] \in Nat /\ (made[x] >= age <=> x \in {thing})
    <2>1. CASE x = thing /\ made[x] = age
        BY <2>1
    <2>2. CASE x # thing /\ made[x] \in older
        <3>1. made[x] \in Nat /\ made[x] < age
            BY <2>2
        <3>2. ~(made[x] >= age)
            BY ONLY <3>1, age \in Nat
        <3> QED BY <2>2, <3>1, <3>2
    <2> QED BY <1>1, <2>1, <2>2
<1> QED BY <1>1, UndoesNewest

(* A call of activate takes over no object and removes none.               *)
LEMMA ApplySpares ==
    ASSUME IInv, OpenAdapter \/ StartSession \/ AddIpv4 \/ AddIpv6 \/ SetMtu4 \/ SetMtu6
                 \/ (\E r \in Routes : AddRoute(r))
    PROVE  SparesAdmin /\ NewestFirst
PROOF
<1>1. "ipv4 address" \in Objects /\ "ipv6 address" \in Objects /\ Routes \subseteq Objects
    BY Zenon DEF Objects
<1>2. CASE OpenAdapter \/ StartSession \/ SetMtu4 \/ SetMtu6
    <2>1. owner' = owner
        BY <1>2, Zenon DEF OpenAdapter, StartSession, SetMtu4, SetMtu6
    <2>2. DOMAIN made \subseteq DOMAIN made'
        BY <1>2, WithFacts, Zenon DEF OpenAdapter, StartSession, SetMtu4, SetMtu6
    <2> QED BY <2>1, <2>2 DEF SparesAdmin, NewestFirst
<1>3. CASE AddIpv4 \/ AddIpv6 \/ (\E r \in Routes : AddRoute(r))
    <2>1. (UNCHANGED <<owner, made>>) \/ \E o \in Objects : Create(o)
        BY <1>1, <1>3, Zenon DEF AddIpv4, AddIpv6, AddRoute, os
    <2>2. CASE UNCHANGED <<owner, made>>
        BY <2>2 DEF SparesAdmin, NewestFirst
    <2>3. CASE \E o \in Objects : Create(o)
        BY <2>3, CreateSpares DEF SparesAdmin, NewestFirst
    <2> QED BY <2>1, <2>2, <2>3
<1> QED BY <1>2, <1>3

(* The half that a failing set_interface_mtu takes back was made last.     *)
LEMMA ThrowSpares ==
    ASSUME IInv, Throw
    PROVE  SparesAdmin /\ NewestFirst
PROOF
<1>1. owner' = owner
    BY Zenon DEF Throw
<1>2. CASE ~At("mtu ipv6")
    BY <1>1, <1>2, Zenon DEF Throw, SparesAdmin, NewestFirst
<1>3. CASE At("mtu ipv6")
    <2>1. made' = Without({"mtu ipv4"})
        BY <1>3, Zenon DEF Throw
    <2>2. pc = "apply" /\ step = 6
        BY <1>3, AtFacts, Zenon
    <2>3. ~(step > 7) /\ ~(step > 6)
        BY ONLY <2>2
    <2>4. txn.prior_mtu_ = <<>> /\ txn.created_routes_ = <<>>
        BY <2>2, <2>3 DEF IInv, PhaseInv
    <2>5. Created = {}
        BY <2>4, CreatedFacts DEF IInv
    <2>6. ASSUME NEW x \in DOMAIN made
          PROVE  (x = "mtu ipv4" /\ made[x] = 5) \/ (x # "mtu ipv4" /\ made[x] \in {1, 2, 3, 4})
        BY <2>4, <2>5, <2>6, Ages, Zenon DEF Known
    <2>7. NewestFirst
        <3> DEFINE older == {1, 2, 3, 4}
        <3>1. 5 \in Nat /\ \A n \in older : n \in Nat /\ n < 5
            OBVIOUS
        <3>2. \A x \in DOMAIN made : (x = "mtu ipv4" /\ made[x] = 5) \/ (x # "mtu ipv4" /\ made[x] \in older)
            BY <2>6, Zenon
        <3> HIDE DEF older
        <3> QED BY <2>1, <3>1, <3>2, UndoesAge, Zenon
    <2> QED BY <1>1, <2>7 DEF SparesAdmin
<1> QED BY <1>2, <1>3, Zenon

(* Each step of rollback deletes an object of the client, and what it      *)
(* undoes is younger than everything it leaves.                            *)
LEMMA UndoSpares ==
    ASSUME IInv, Undo
    PROVE  SparesAdmin /\ NewestFirst
PROOF
<1>1. "ipv4 address" \in Objects /\ "ipv6 address" \in Objects /\ Routes \subseteq Objects
    BY Zenon DEF Objects
<1>2. CASE RemoveRoute
    <2> DEFINE list == txn.created_routes_
               last == list[Len(list)]
    <2>1. Delete(last) /\ made' = Without({last}) /\ list # <<>>
        BY <1>2 DEF RemoveRoute, Delete
    <2>2. /\ last \in Created /\ \A x \in Created : x # last => made[x] < made[last]
          /\ \A x \in Created : x \in DOMAIN made /\ made[x] \in Nat /\ made[x] > 6
        BY <2>1, LastRoute
    <2>3. last \in Objects /\ owner[last] = "vpn"
        BY <1>1, <2>2, CreatedFacts, Zenon DEF IInv, OwnInv
    <2> HIDE DEF last
    <2>4. made[last] \in Nat /\ made[last] > 6
        BY <2>2
    <2>5. \A x \in DOMAIN made : made[x] \in Nat /\ (made[x] >= made[last] <=> x \in {last})
        <3>1. ASSUME NEW x \in DOMAIN made, x \in Created
              PROVE  made[x] \in Nat /\ (made[x] >= made[last] <=> x = last)
            BY <2>2, <2>4, <3>1
        <3>2. ASSUME NEW x \in DOMAIN made, x \notin Created
              PROVE  made[x] \in Nat /\ (made[x] >= made[last] <=> x = last)
            <4>1. made[x] \in {1, 2, 3, 4, 5, 6} /\ x # last
                BY <2>2, <3>2, Ages, Zenon DEF Known
            <4> QED BY <2>4, <4>1
        <3> QED BY <3>1, <3>2
    <2> QED BY <2>1, <2>3, <2>4, <2>5, DeleteSpares, UndoesNewest, Zenon DEF SparesAdmin
<1>3. CASE RestoreMtu
    <2>1. owner' = owner /\ made' = Without({"mtu ipv4", "mtu ipv6"}) /\ txn.created_routes_ = <<>>
        BY <1>3, Zenon DEF RestoreMtu
    <2>2. Created = {}
        BY <2>1, CreatedFacts, Zenon DEF IInv
    <2>3. \A x \in DOMAIN made : made[x] \in Nat /\ (made[x] >= 5 <=> x \in {"mtu ipv4", "mtu ipv6"})
        <3>1. ASSUME NEW x \in DOMAIN made
              PROVE  \/ x \in {"mtu ipv4", "mtu ipv6"} /\ made[x] \in {5, 6}
                     \/ x \notin {"mtu ipv4", "mtu ipv6"} /\ made[x] \in {1, 2, 3, 4}
            BY <2>2, <3>1, Ages, Zenon DEF Known
        <3>2. /\ \A n \in {5, 6} : n \in Nat /\ n >= 5
              /\ \A n \in {1, 2, 3, 4} : n \in Nat /\ ~(n >= 5)
            OBVIOUS
        <3> QED BY <3>1, <3>2, Zenon
    <2> QED BY <2>1, <2>3, UndoesNewest, Zenon DEF SparesAdmin
<1>4. CASE RemoveIpv6 \/ RemoveIpv4 \/ Close
    <2>1. txn.created_routes_ = <<>> /\ txn.prior_mtu_ = <<>> /\ pc = "undo" /\ ~HalfSet
        BY <1>4, Zenon DEF RemoveIpv6, RemoveIpv4, Close, Undo, HalfSet
    <2>2. Created = {}
        BY <2>1, CreatedFacts DEF IInv
    <2>3. CASE RemoveIpv6
        <3>1. Delete("ipv6 address") /\ made' = Without({"ipv6 address"}) /\ owner["ipv6 address"] = "vpn"
            BY <2>3, Zenon DEF RemoveIpv6, Delete, IInv, OwnInv
        <3>2. ASSUME NEW x \in DOMAIN made
              PROVE  (x = "ipv6 address" /\ made[x] = 4) \/ (x # "ipv6 address" /\ made[x] \in {1, 2, 3})
            BY <2>1, <2>2, <3>2, Ages, Zenon DEF Known
        <3> DEFINE older == {1, 2, 3}
        <3>3. 4 \in Nat /\ \A n \in older : n \in Nat /\ n < 4
            OBVIOUS
        <3>4. \A x \in DOMAIN made : (x = "ipv6 address" /\ made[x] = 4) \/ (x # "ipv6 address" /\ made[x] \in older)
            BY <3>2, Zenon
        <3> HIDE DEF older
        <3>5. NewestFirst
            BY <3>1, <3>3, <3>4, UndoesAge, Zenon
        <3> QED BY <1>1, <3>1, <3>5, DeleteSpares, Zenon DEF SparesAdmin
    <2>4. CASE RemoveIpv4
        <3>1. Delete("ipv4 address") /\ made' = Without({"ipv4 address"}) /\ owner["ipv4 address"] = "vpn"
            BY <2>4, Zenon DEF RemoveIpv4, Delete, IInv, OwnInv
        <3>2. ~txn.ipv6_address_created_
            BY <2>4, Zenon DEF RemoveIpv4, IInv, PhaseInv
        <3>3. ASSUME NEW x \in DOMAIN made
              PROVE  (x = "ipv4 address" /\ made[x] = 3) \/ (x # "ipv4 address" /\ made[x] \in {1, 2})
            BY <2>1, <2>2, <3>2, <3>3, Ages, Zenon DEF Known
        <3> DEFINE older == {1, 2}
        <3>4. 3 \in Nat /\ \A n \in older : n \in Nat /\ n < 3
            OBVIOUS
        <3>5. \A x \in DOMAIN made : (x = "ipv4 address" /\ made[x] = 3) \/ (x # "ipv4 address" /\ made[x] \in older)
            BY <3>3, Zenon
        <3> HIDE DEF older
        <3>6. NewestFirst
            BY <3>1, <3>4, <3>5, UndoesAge, Zenon
        <3> QED BY <1>1, <3>1, <3>6, DeleteSpares, Zenon DEF SparesAdmin
    <2>5. CASE Close
        <3>1. owner' = owner /\ ~txn.address_created_ /\ ~txn.ipv6_address_created_
            BY <2>5 DEF Close, IInv, PhaseInv
        <3>2. CASE txn.session_started_
            <4>1. made' = Without({"session"})
                BY <2>5, <3>2 DEF Close
            <4>2. ASSUME NEW x \in DOMAIN made
                  PROVE  (x = "session" /\ made[x] = 2) \/ (x # "session" /\ made[x] \in {1})
                BY <2>1, <2>2, <3>1, <4>2, Ages, Zenon DEF Known
            <4> DEFINE older == {1}
            <4>3. 2 \in Nat /\ \A n \in older : n \in Nat /\ n < 2
                OBVIOUS
            <4>4. \A x \in DOMAIN made : (x = "session" /\ made[x] = 2) \/ (x # "session" /\ made[x] \in older)
                BY <4>2
            <4> HIDE DEF older
            <4>5. NewestFirst
                BY <4>1, <4>3, <4>4, UndoesAge, Zenon
            <4> QED BY <3>1, <4>5 DEF SparesAdmin
        <3>3. CASE ~txn.session_started_
            <4>1. made' = Without({"adapter"}) /\ ~session_
                BY <2>5, <3>3 DEF Close, IInv, PhaseInv
            <4>2. ASSUME NEW x \in DOMAIN made PROVE x = "adapter"
                BY <2>1, <2>2, <3>1, <4>1, <4>2, Ages, Zenon DEF Known
            <4>3. NewestFirst
                BY <4>1, <4>2 DEF NewestFirst
            <4> QED BY <3>1, <4>3 DEF SparesAdmin
        <3> QED BY <3>2, <3>3
    <2> QED BY <1>4, <2>3, <2>4, <2>5
<1> QED BY <1>2, <1>3, <1>4 DEF Undo

(* No step of activate or rollback takes an address or route from the      *)
(* administrator, also not one that appeared after activate looked; and    *)
(* what rollback undoes is always the newest thing the client made.        *)
THEOREM UndoIsOwn == Spec => UndoesItsOwn
PROOF
<1>1. ASSUME IInv, [Next]_vars PROVE [SparesAdmin /\ NewestFirst]_vars
    <2> SUFFICES ASSUME Next PROVE SparesAdmin /\ NewestFirst
        BY <1>1
    <2>1. CASE \E ipv6 \in BOOLEAN : Activate(ipv6)
        BY <2>1 DEF Activate, os, SparesAdmin, NewestFirst
    <2>2. CASE Commit \/ Rollback
        BY <2>2 DEF Commit, Rollback, os, SparesAdmin, NewestFirst
    <2>3. CASE \E o \in Objects : Administer(o)
        BY <2>3 DEF Administer, SparesAdmin, NewestFirst
    <2> QED BY <1>1, <2>1, <2>2, <2>3, ThrowSpares, ApplySpares, UndoSpares DEF Next
<1> QED BY <1>1, Invariance, PTL DEF Spec, UndoesItsOwn
===============================================================================
