--------------------------- MODULE TlsTunnelSession ---------------------------
(***************************************************************************)
(* One server::TlsTunnelSession: its deadline timer, its pending socket    *)
(* operations, its write queue and the handlers that run on its strand.    *)
(* A handler is one step.  Handlers become ready in any order: a timer     *)
(* that has expired leaves its handler in the queue, and cancelling or     *)
(* re-arming the timer afterwards does not take it back.                   *)
(*                                                                         *)
(* The SessionController is reduced to its state and to the outcomes of a  *)
(* frame; whether a lease or a route is granted or refused is a choice of  *)
(* the environment (TunnelServer models those parts).                      *)
(***************************************************************************)
EXTENDS OutboundFrameQueue

CONSTANTS
    MaxInbound,     \* bound on the frames the client sends
    MaxBatch,       \* bound on the frames that one read completes
    MaxFromTun,     \* bound on the packets the TUN device has for the client
    MaxFired        \* bound on the expired timer handlers that wait

ASSUME SessionConstants ==
    MaxInbound \in Nat /\ MaxBatch \in Nat /\ MaxFromTun \in Nat /\ MaxFired \in Nat

VARIABLES
    self,       \* the session object
    fired,      \* expired waits whose handler has not run, by kind
    posted,     \* handlers posted by other strands: TUN packets and stop
    received,   \* frames decoded so far
    fromTun     \* packets posted so far

vars == <<self, fired, posted, received, fromTun>>

Frames == {"hello", "data", "ping", "close", "bad"}
Families == {"ipv4", "ipv6"}
Size(kind) == IF kind = "DATA" THEN 2 ELSE 1

NewSession ==
    [started |-> FALSE, controller_ |-> "none", route_lease_ |-> FALSE,
     stopped_ |-> FALSE, close_after_write_ |-> FALSE, write_in_progress_ |-> FALSE,
     outbound_queue_ |-> EmptyQueue, next_outbound_sequence_ |-> 0,
     timer |-> "off",                       \* the wait on deadline_timer_
     handshaking |-> FALSE, reading |-> FALSE, writing |-> 0,  \* pending operations
     wire |-> <<>>,                         \* the frames written
     why |-> "open",                        \* what closed the session
     close_handler_calls |-> 0, toClient |-> 0,
     metrics_ |-> [handshake_failures |-> 0, handshake_timeouts |-> 0, idle_timeouts |-> 0,
                   established_sessions |-> 0, closed_sessions |-> 0,
                   queue_overflows |-> 0, downlink_packets |-> 0]]

Init ==
    /\ self = NewSession
    /\ fired = [handshake |-> 0, idle |-> 0]
    /\ posted = [ipv4 |-> 0, ipv6 |-> 0, stop |-> FALSE]
    /\ received = 0
    /\ fromTun = 0

Count(s, counter) == [s EXCEPT !.metrics_[counter] = @ + 1]
-------------------------------------------------------------------------------
close_now(s, why) ==
    IF s.stopped_ THEN s
    ELSE Count([s EXCEPT !.stopped_ = TRUE,
                         !.timer = "off",
                         !.controller_ = IF @ = "none" THEN "none" ELSE "Closed",
                         !.outbound_queue_ = EmptyQueue,
                         !.close_handler_calls = @ + 1,
                         !.why = why], "closed_sessions")

write_next(s) ==
    IF s.stopped_ \/ IsEmpty(s.outbound_queue_)
    THEN LET t == [s EXCEPT !.write_in_progress_ = FALSE]
         IN  IF t.close_after_write_ THEN close_now(t, "drained") ELSE t
    ELSE [s EXCEPT !.write_in_progress_ = TRUE, !.writing = @ + 1]

(* make_outbound numbers the frame, enqueue_frame then queues it.          *)
enqueue_frame(s, kind) ==
    LET frame == [kind |-> kind, seq |-> s.next_outbound_sequence_, size |-> Size(kind)]
        r == try_enqueue(s.outbound_queue_, frame)
        t == [s EXCEPT !.next_outbound_sequence_ = @ + 1, !.outbound_queue_ = r.queue]
    IN  [s |-> IF r.ok /\ ~t.write_in_progress_ THEN write_next(t) ELSE t, ok |-> r.ok]

apply_result(s, result) ==
    LET e == IF result.out = "none" THEN [s |-> s, ok |-> TRUE] ELSE enqueue_frame(s, result.out)
        t == [e.s EXCEPT !.close_after_write_ = @ \/ result.close]
    IN  IF ~e.ok THEN close_now(Count(e.s, "queue_overflows"), "overflow")
        ELSE IF result.close /\ ~t.write_in_progress_ /\ IsEmpty(t.outbound_queue_)
             THEN close_now(t, "drained") ELSE t

arm_idle_timeout(s) == [s EXCEPT !.timer = "idle"]

(* SessionController::handle: the next state, the frame sent and whether   *)
(* the transport is to close.  "bad" stands for everything that fails: a   *)
(* sequence, type or payload error, a lease that is refused or gone.       *)
handle(state, frame) ==
    CASE state \in {"Closing", "Closed"} -> [state |-> state, out |-> "none", close |-> TRUE]
      [] state = "AwaitingHello" /\ frame = "hello" ->
            [state |-> "Established", out |-> "IP_ASSIGN", close |-> FALSE]
      [] state = "Established" /\ frame = "data" ->
            [state |-> state, out |-> "none", close |-> FALSE]
      [] state = "Established" /\ frame = "ping" ->
            [state |-> state, out |-> "PONG", close |-> FALSE]
      [] state = "Established" /\ frame = "close" ->
            [state |-> "Closed", out |-> "none", close |-> TRUE]
      [] OTHER -> [state |-> "Closing", out |-> "ERROR", close |-> TRUE]

(* The body of the loop of handle_read for one frame.                      *)
HandleFrame(s, frame, routed) ==
    LET result == handle(s.controller_, frame)
        t == [arm_idle_timeout(s) EXCEPT !.controller_ = result.state]
    IN  IF s.stopped_ \/ s.close_after_write_ THEN s      \* the loop was left
        ELSE IF t.route_lease_ \/ t.controller_ # "Established" THEN apply_result(t, result)
        ELSE IF routed
             THEN apply_result(Count([t EXCEPT !.route_lease_ = TRUE], "established_sessions"),
                               result)
             ELSE close_now([t EXCEPT !.route_lease_ = TRUE], "refused")

(* The loop, with the session after each of the frames.                    *)
HandleFrames(s, frames, routed) ==
    LET after[n \in 0..Len(frames)] ==
            IF n = 0 THEN s ELSE HandleFrame(after[n - 1], frames[n], routed)
    IN  after[Len(frames)]
-------------------------------------------------------------------------------
(* start_on_strand.                                                        *)
Start ==
    /\ ~self.started /\ ~self.stopped_
    /\ self' = [self EXCEPT !.started = TRUE, !.timer = "handshake", !.handshaking = TRUE]
    /\ UNCHANGED <<fired, posted, received, fromTun>>

(* The wait on deadline_timer_ completes: its handler is queued.           *)
Expire ==
    /\ self.timer # "off"
    /\ fired[self.timer] < MaxFired
    /\ fired' = [fired EXCEPT ![self.timer] = @ + 1]
    /\ self' = [self EXCEPT !.timer = "off"]
    /\ UNCHANGED <<posted, received, fromTun>>

(* The handler of the handshake deadline.                                  *)
HandshakeDeadline ==
    /\ fired.handshake > 0
    /\ fired' = [fired EXCEPT !.handshake = @ - 1]
    /\ self' = IF self.stopped_ \/ self.controller_ # "none" THEN self
               ELSE close_now(Count(self, "handshake_timeouts"), "handshake")
    /\ UNCHANGED <<posted, received, fromTun>>

\* Mutant: the idle handler counts without looking at stopped_.
IdleDeadlineBlind ==
    /\ fired.idle > 0
    /\ fired' = [fired EXCEPT !.idle = @ - 1]
    /\ self' = close_now(Count(self, "idle_timeouts"), "idle")
    /\ UNCHANGED <<posted, received, fromTun>>

(* The handler of the idle deadline.  It may be that of a wait that had    *)
(* expired before a frame re-armed the timer.                              *)
IdleDeadline ==
    /\ fired.idle > 0
    /\ fired' = [fired EXCEPT !.idle = @ - 1]
    /\ self' = IF self.stopped_ THEN self ELSE close_now(Count(self, "idle_timeouts"), "idle")
    /\ UNCHANGED <<posted, received, fromTun>>

\* Mutant: the handshake deadline is cancelled after the idle deadline is set.
HandleHandshakeSwapped(ok) ==
    /\ self.handshaking
    /\ self' = LET s == [self EXCEPT !.handshaking = FALSE]
               IN  IF s.stopped_ THEN s
                   ELSE IF ~ok THEN close_now(Count(s, "handshake_failures"), "transport")
                   ELSE [s EXCEPT !.controller_ = "AwaitingHello", !.timer = "off",
                                  !.reading = TRUE]
    /\ UNCHANGED <<fired, posted, received, fromTun>>

(* A certificate without identity closes the session uncounted, like any   *)
(* exception of the controller's construction.                             *)
HandleHandshake(ok) ==
    /\ self.handshaking
    /\ self' = LET s == [self EXCEPT !.handshaking = FALSE]
               IN  IF s.stopped_ THEN s
                   ELSE IF ~ok THEN close_now(Count(s, "handshake_failures"), "transport")
                   ELSE arm_idle_timeout([s EXCEPT !.controller_ = "AwaitingHello",
                                                   !.timer = "off", !.reading = TRUE])
    /\ UNCHANGED <<fired, posted, received, fromTun>>

HandshakeThrows ==
    /\ self.handshaking
    /\ self' = close_now([self EXCEPT !.handshaking = FALSE], "transport")
    /\ UNCHANGED <<fired, posted, received, fromTun>>

(* handle_read with the frames that the bytes complete, possibly none.     *)
HandleRead(frames, routed) ==
    /\ self.reading
    /\ received + Len(frames) <= MaxInbound
    /\ received' = received + Len(frames)
    /\ self' = LET s == [self EXCEPT !.reading = FALSE]
                   t == HandleFrames(s, frames, routed)
               IN  IF t.stopped_ \/ t.close_after_write_ THEN t
                   ELSE [t EXCEPT !.reading = TRUE]
    /\ UNCHANGED <<fired, posted, fromTun>>

(* handle_read with an error, or with bytes the decoder rejects.           *)
ReadFails ==
    /\ self.reading
    /\ self' = close_now([self EXCEPT !.reading = FALSE], "transport")
    /\ UNCHANGED <<fired, posted, received, fromTun>>

HandleWrite(ok) ==
    /\ self.writing > 0
    /\ self' = LET s == [self EXCEPT !.writing = @ - 1]
               IN  IF s.stopped_ THEN s
                   ELSE IF ~ok THEN close_now(s, "transport")
                   ELSE write_next([s EXCEPT !.wire = Append(@, front(s.outbound_queue_)),
                                             !.outbound_queue_ = pop_front(@)])
    /\ UNCHANGED <<fired, posted, received, fromTun>>

(* The router has found this peer and posts a packet to its strand.        *)
PostFromTun(family) ==
    /\ self.route_lease_ /\ self.why # "refused"
    /\ fromTun < MaxFromTun
    /\ fromTun' = fromTun + 1
    /\ posted' = [posted EXCEPT ![family] = @ + 1]
    /\ UNCHANGED <<self, fired, received>>

(* The posted handler of send_ipv4_from_tun or send_ipv6_from_tun.  For an *)
(* established session make_data_to_client gives a frame, or nothing for a *)
(* packet it does not accept, or finds the lease gone.                     *)
SendFromTun(family, outcome) ==
    /\ posted[family] > 0
    /\ posted' = [posted EXCEPT ![family] = @ - 1]
    /\ self' =
         IF self.stopped_ \/ self.controller_ = "none" THEN self
         ELSE IF self.controller_ # "Established" \/ outcome = "lease gone"
         THEN close_now(self, "no frame")
         ELSE IF outcome = "not accepted" THEN self
         ELSE LET e == enqueue_frame(self, "DATA")
                  t == IF e.ok THEN [e.s EXCEPT !.toClient = @ + 1] ELSE e.s
                  counter == IF e.ok THEN "downlink_packets" ELSE "queue_overflows"
                  u == IF family = "ipv4" THEN Count(t, counter) ELSE t
              IN  IF e.ok THEN u ELSE close_now(u, "overflow")
    /\ UNCHANGED <<fired, received, fromTun>>

(* TlsTunnelSession::stop, called by the server's strand, and its handler. *)
PostStop ==
    /\ ~posted.stop
    /\ posted' = [posted EXCEPT !.stop = TRUE]
    /\ UNCHANGED <<self, fired, received, fromTun>>

RunStop ==
    /\ posted.stop /\ ~self.stopped_
    /\ self' = close_now(self, "stop")
    /\ UNCHANGED <<fired, posted, received, fromTun>>

Batches == UNION {[1..n -> Frames] : n \in 0..MaxBatch}

Next ==
    \/ Start \/ Expire \/ HandshakeDeadline \/ IdleDeadline
    \/ \E ok \in BOOLEAN : HandleHandshake(ok) \/ HandleWrite(ok)
    \/ HandshakeThrows \/ ReadFails
    \/ \E frames \in Batches, routed \in BOOLEAN : HandleRead(frames, routed)
    \/ \E family \in Families :
          \/ PostFromTun(family)
          \/ \E outcome \in {"frame", "not accepted", "lease gone"} : SendFromTun(family, outcome)
    \/ PostStop \/ RunStop

(* Time passes and the io_context runs the handlers that are ready.  No    *)
(* fairness is assumed of the client or the network.                       *)
Fairness ==
    WF_vars(Expire) /\ WF_vars(HandshakeDeadline) /\ WF_vars(IdleDeadline)

Spec == Init /\ [][Next]_vars /\ Fairness
-------------------------------------------------------------------------------
TypeOK ==
    /\ self.controller_ \in {"none", "AwaitingHello", "Established", "Closing", "Closed"}
    /\ self.timer \in {"off", "handshake", "idle"}
    /\ self.close_handler_calls \in 0..1

(* Frames leave in the order the controller numbered them, without a gap,  *)
(* although they are numbered before the queue accepts them.  At most one  *)
(* async_write is outstanding, and while the session is open there is one  *)
(* exactly when a frame is queued: no frame is left in the queue with      *)
(* nobody to write it, none is written twice, and a session that is to     *)
(* close after its last write has a write to wait for.  The queue keeps    *)
(* both its limits.                                                        *)
WireInOrder ==
    /\ \A i \in 1..Len(self.wire) : self.wire[i].seq = i - 1
    /\ self.writing <= 1
    /\ ~self.stopped_ => (self.writing = 1 <=> ~IsEmpty(self.outbound_queue_))
    /\ self.close_after_write_ /\ ~self.stopped_ => self.writing = 1
    /\ Len(self.outbound_queue_.queue_) <= maximum_frames_
    /\ self.outbound_queue_.queued_bytes_ \in 0..maximum_bytes_

(* A session is counted as closed once, as timed out at most once, and its *)
(* close handler runs once, however many deadlines have expired; and only  *)
(* one that has not completed its handshake is ended by that deadline.     *)
CountedOnce ==
    LET m == self.metrics_
        closed == IF self.stopped_ THEN 1 ELSE 0
    IN  /\ m.closed_sessions = closed /\ self.close_handler_calls = closed
        /\ m.idle_timeouts + m.handshake_timeouts + m.handshake_failures <= closed
        /\ m.handshake_timeouts > 0 => self.controller_ = "none"

(* A client that stops sending frames does not keep its session for ever.  *)
SilentSessionEnds == self.started ~> self.stopped_

HasError(frames) == \E i \in 1..Len(frames) : frames[i].kind = "ERROR"

(* What the documentation says of a policy error: its ERROR frame, once    *)
(* queued, is written before the session closes, unless the transport, a   *)
(* deadline or the server's shutdown ends the session first.               *)
ErrorReachesWire ==
    [][(/\ ~self.stopped_ /\ self'.stopped_
        /\ HasError(self.outbound_queue_.queue_) /\ ~HasError(self'.wire))
       => self'.why \in {"transport", "idle", "stop"}]_vars

(* What the documentation says of the counters: every packet queued for a  *)
(* client and every overflow of its queue is counted.                      *)
DownlinkCounted ==
    /\ self.metrics_.downlink_packets = self.toClient
    /\ self.why = "overflow" => self.metrics_.queue_overflows = 1
===============================================================================
