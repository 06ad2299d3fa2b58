---------------------------- MODULE TlsTunnelClient ----------------------------
(***************************************************************************)
(* client::TlsTunnelClient with its ClientSessionController: the client's  *)
(* end of a tunnel.  As on the server, handlers run on one strand, one     *)
(* step each, in any order in which they become ready.  The network, the   *)
(* server and the callbacks of the owner are the environment.              *)
(***************************************************************************)
EXTENDS OutboundFrameQueue

CONSTANTS
    MaxInbound,     \* bound on the frames the server sends
    MaxBatch,       \* bound on the frames that one read completes
    MaxPosted       \* bound on the calls of send_ipv4_from_tun and ping

VARIABLES
    self,       \* the tunnel object
    posted,     \* calls posted to the strand, by kind
    calls,      \* number of packets and pings posted so far
    received    \* number of frames decoded so far

tunnelVars == <<self, posted, calls, received>>

Frames == {"assign", "data", "ping", "pong", "error", "close", "bad"}
Calls == {"packet", "ping"}

Size(kind) == IF kind = "DATA" THEN 2 ELSE 1

NewTunnel ==
    [started_ |-> FALSE, stopped_ |-> FALSE, close_after_write_ |-> FALSE,
     write_in_progress_ |-> FALSE, retryable_close_ |-> TRUE, remote_error_ |-> FALSE,
     state_ |-> "Idle", pending_ping_nonce_ |-> FALSE, next_outbound_sequence_ |-> 1,
     outbound_queue_ |-> EmptyQueue,
     handshaking |-> FALSE, reading |-> FALSE, writing |-> 0,     \* pending operations
     wire |-> <<>>,                 \* the frames written
     configured |-> FALSE,          \* the assignment handler has accepted
     toTun |-> 0,                   \* calls of the packet sink
     rejected |-> FALSE,            \* an ERROR of the server was handled
     violated |-> FALSE,            \* the controller found a protocol error
     why |-> "open",                \* what closed the tunnel
     close_handler_calls |-> 0]

TunnelInit ==
    /\ self = NewTunnel
    /\ posted = [packet |-> 0, ping |-> 0, stop |-> 0, abort |-> 0]
    /\ calls = 0
    /\ received = 0
-------------------------------------------------------------------------------
close_now(s, why) ==
    IF s.stopped_ THEN s
    ELSE [s EXCEPT !.stopped_ = TRUE, !.state_ = "Closed", !.outbound_queue_ = EmptyQueue,
                   !.close_handler_calls = @ + 1, !.why = why]

Final(s) == [s EXCEPT !.retryable_close_ = FALSE]

write_next(s) ==
    IF s.stopped_ \/ IsEmpty(s.outbound_queue_)
    THEN LET t == [s EXCEPT !.write_in_progress_ = FALSE]
         IN  IF t.close_after_write_ THEN close_now(t, "drained") ELSE t
    ELSE [s EXCEPT !.write_in_progress_ = TRUE, !.writing = @ + 1]

(* make_outbound numbers the frame.                                        *)
make_outbound(s, kind) ==
    [kind |-> kind, seq |-> s.next_outbound_sequence_, size |-> Size(kind)]

(* The frame is made and queued.                                           *)
enqueue_frame(s, kind) ==
    LET r == try_enqueue(s.outbound_queue_, make_outbound(s, kind))
        t == [s EXCEPT !.next_outbound_sequence_ = @ + 1, !.outbound_queue_ = r.queue]
    IN  IF s.stopped_ \/ ~r.ok THEN [s |-> Final(t), ok |-> FALSE]
        ELSE [s |-> IF t.write_in_progress_ THEN t ELSE write_next(t), ok |-> TRUE]

EnqueueOrClose(s, kind) ==
    LET e == enqueue_frame(s, kind) IN IF e.ok THEN e.s ELSE close_now(e.s, "overflow")

(* The controller's own errors end the session with an ERROR frame.        *)
fail == [state |-> "Closing", out |-> "ERROR", close |-> TRUE]

(* Whether the controller makes the frame that is asked for.               *)
make_data_to_server(s, valid) == s.state_ = "Established" /\ valid

make_ping(s) == s.state_ = "Established" /\ ~s.pending_ping_nonce_

make_close(s) == s.state_ \in {"AwaitingAssignment", "Established"}

(* ClientSessionController::handle: the next state, the frame to send and  *)
(* whether the transport is to close.  "bad" stands for a wrong sequence   *)
(* number and for whatever does not decode or violates the policy.         *)
handle(s, frame) ==
    LET is(state, out, close) == [state |-> state, out |-> out, close |-> close]
    IN  CASE s.state_ \in {"Idle", "Closing", "Closed"} -> is(s.state_, "none", TRUE)
          [] s.state_ = "AwaitingAssignment" /\ frame = "assign" -> is("Established", "none", FALSE)
          [] s.state_ = "Established" /\ frame = "data" -> is(s.state_, "none", FALSE)
          [] s.state_ = "Established" /\ frame = "ping" -> is(s.state_, "PONG", FALSE)
          [] s.state_ = "Established" /\ frame = "pong" /\ s.pending_ping_nonce_
                -> is(s.state_, "none", FALSE)
          [] s.state_ = "Established" /\ frame \in {"error", "close"} -> is("Closed", "none", TRUE)
          [] OTHER -> fail

CloseTransport(s) ==
    LET t == [s EXCEPT !.close_after_write_ = TRUE]
    IN  IF t.write_in_progress_ \/ ~IsEmpty(t.outbound_queue_) THEN t ELSE close_now(t, "drained")

\* Mutant: the packets of a batch are delivered without waiting for the adapter.
HandleFrameEarly(s, frame, accepted) ==
    LET r == handle(s, frame)
        t == [s EXCEPT !.state_ = r.state,
                       !.toTun = IF frame = "data" THEN @ + 1 ELSE @,
                       !.configured = @ \/ (s.state_ = "AwaitingAssignment" /\ frame = "assign" /\ accepted)]
    IN  IF s.stopped_ \/ s.close_after_write_ THEN s
        ELSE IF r.close THEN CloseTransport(t) ELSE t

(* One frame of the loop of handle_read: the controller, then apply_result *)
(* with the answer of the assignment handler.                              *)
HandleFrame(s, frame, accepted) ==
    LET r == handle(s, frame)
        assigned == s.state_ = "AwaitingAssignment" /\ r.state = "Established"
        served == s.state_ = "Established" /\ r.state # "Closing"
        t == [s EXCEPT !.state_ = r.state,
                       !.pending_ping_nonce_ = @ /\ frame # "pong",
                       !.remote_error_ = @ \/ (served /\ frame = "error"),
                       !.retryable_close_ = @ /\ ~(served /\ frame = "error"),
                       !.rejected = @ \/ frame = "error",
                       !.violated = @ \/ (r.out = "ERROR" /\ frame # "error")]
        u == [t EXCEPT !.configured = @ \/ assigned,
                       !.toTun = IF served /\ frame = "data" THEN @ + 1 ELSE @]
        e == IF r.out = "none" THEN [s |-> u, ok |-> TRUE] ELSE enqueue_frame(u, r.out)
    IN  IF s.stopped_ \/ s.close_after_write_ THEN s      \* the loop was left
        ELSE IF assigned /\ ~accepted THEN close_now(Final(t), "refused")
        ELSE IF ~e.ok THEN close_now(e.s, "overflow")
        ELSE IF r.close THEN CloseTransport(e.s) ELSE e.s

(* The loop, with the tunnel after each of the frames.                     *)
HandleFrames(s, frames, accepted) ==
    LET after[n \in 0..Len(frames)] ==
            IF n = 0 THEN s ELSE HandleFrame(after[n - 1], frames[n], accepted)
    IN  after[Len(frames)]
-------------------------------------------------------------------------------
(* start_on_strand; setting the server name may fail.                      *)
Start(named) ==
    /\ ~self.started_ /\ ~self.stopped_
    /\ LET s == [self EXCEPT !.started_ = TRUE]
       IN  self' = IF named THEN [s EXCEPT !.handshaking = TRUE] ELSE close_now(Final(s), "refused")
    /\ UNCHANGED <<posted, calls, received>>

(* A failure of the transport is final only if TLS reports it.             *)
Fails(s, result) ==
    close_now([s EXCEPT !.retryable_close_ = result # "tls"], "transport")

HandleHandshake(result) ==
    /\ self.handshaking
    /\ LET s == [self EXCEPT !.handshaking = FALSE]
           t == EnqueueOrClose([s EXCEPT !.state_ = "AwaitingAssignment"], "HELLO")
       IN  self' = IF s.stopped_ THEN s
                   ELSE IF result # "ok" THEN Fails(s, result)
                   ELSE [t EXCEPT !.reading = ~t.stopped_ /\ ~t.close_after_write_]
    /\ UNCHANGED <<posted, calls, received>>

(* handle_read with the frames that the bytes complete, possibly none.     *)
HandleRead(frames, accepted) ==
    /\ self.reading
    /\ received + Len(frames) <= MaxInbound
    /\ received' = received + Len(frames)
    /\ LET s == [self EXCEPT !.reading = FALSE]
           t == HandleFrames(s, frames, accepted)
       IN  self' = [t EXCEPT !.reading = ~t.stopped_ /\ ~t.close_after_write_]
    /\ UNCHANGED <<posted, calls>>

(* handle_read with an error, or with bytes the decoder rejects.           *)
ReadFails(result) ==
    /\ self.reading
    /\ LET s == [self EXCEPT !.reading = FALSE]
       IN  self' = IF s.stopped_ THEN s
                   ELSE IF result = "decoder" THEN close_now(Final(s), "protocol")
                   ELSE Fails(s, result)
    /\ UNCHANGED <<posted, calls, received>>

\* Mutant: the tunnel goes on after a write that failed.
HandleWriteBlind(result) ==
    /\ self.writing > 0
    /\ LET s == [self EXCEPT !.writing = @ - 1]
       IN  self' = IF s.stopped_ THEN s
                   ELSE write_next([s EXCEPT !.wire = IF result = "ok"
                                                      THEN Append(@, front(s.outbound_queue_)) ELSE @,
                                             !.outbound_queue_ = pop_front(@)])
    /\ UNCHANGED <<posted, calls, received>>

HandleWrite(result) ==
    /\ self.writing > 0
    /\ LET s == [self EXCEPT !.writing = @ - 1]
       IN  self' = IF s.stopped_ THEN s
                   ELSE IF result # "ok" THEN Fails(s, result)
                   ELSE write_next([s EXCEPT !.wire = Append(@, front(s.outbound_queue_)),
                                             !.outbound_queue_ = pop_front(@)])
    /\ UNCHANGED <<posted, calls, received>>

(* send_ipv4_from_tun and ping, from the packet thread or the owner.       *)
Post(call) ==
    /\ calls < MaxPosted
    /\ calls' = calls + 1
    /\ posted' = [posted EXCEPT ![call] = @ + 1]
    /\ UNCHANGED <<self, received>>

(* The posted handlers.  make_data_to_server takes only a valid packet of  *)
(* an established session.                                                 *)
RunSend(valid) ==
    /\ posted.packet > 0
    /\ posted' = [posted EXCEPT !.packet = @ - 1]
    /\ self' = IF self.stopped_ \/ self.close_after_write_ \/ ~make_data_to_server(self, valid)
               THEN self ELSE EnqueueOrClose(self, "DATA")
    /\ UNCHANGED <<calls, received>>

RunPing ==
    /\ posted.ping > 0
    /\ posted' = [posted EXCEPT !.ping = @ - 1]
    /\ self' = IF self.stopped_ \/ self.close_after_write_ \/ ~make_ping(self) THEN self
               ELSE EnqueueOrClose([self EXCEPT !.pending_ping_nonce_ = TRUE], "PING")
    /\ UNCHANGED <<calls, received>>

PostStop ==
    /\ posted.stop = 0 /\ self.started_
    /\ \E n \in 1..2 : posted' = [posted EXCEPT !.stop = n]    \* the destructor stops again
    /\ UNCHANGED <<self, calls, received>>

\* Mutant: stop does not close a tunnel that has not said hello yet.
StopBeforeHello ==
    /\ posted.stop > 0
    /\ posted' = [posted EXCEPT !.stop = @ - 1]
    /\ self' = IF self.stopped_ \/ ~make_close(self) THEN self
               ELSE EnqueueOrClose([self EXCEPT !.state_ = "Closing", !.close_after_write_ = TRUE],
                                   "CLOSE")
    /\ UNCHANGED <<calls, received>>

(* The handler of stop: make_close, then the socket closes after the frame.*)
RunStop ==
    /\ posted.stop > 0
    /\ posted' = [posted EXCEPT !.stop = @ - 1]
    /\ self' = IF self.stopped_ THEN self
               ELSE IF ~make_close(self) THEN close_now(self, "stop")
               ELSE EnqueueOrClose([self EXCEPT !.state_ = "Closing", !.close_after_write_ = TRUE],
                                   "CLOSE")
    /\ UNCHANGED <<calls, received>>

PostAbort ==
    /\ posted.abort = 0 /\ self.started_
    /\ posted' = [posted EXCEPT !.abort = 1]
    /\ UNCHANGED <<self, calls, received>>

RunAbort ==
    /\ posted.abort = 1 /\ ~self.stopped_
    /\ self' = close_now(self, "abort")
    /\ UNCHANGED <<posted, calls, received>>

Batches == UNION {[1..n -> Frames] : n \in 0..MaxBatch}

TunnelNext ==
    \/ \E named \in BOOLEAN : Start(named)
    \/ \E result \in {"ok", "network", "tls"} : HandleHandshake(result) \/ HandleWrite(result)
    \/ \E frames \in Batches, accepted \in BOOLEAN : HandleRead(frames, accepted)
    \/ \E result \in {"network", "tls", "decoder"} : ReadFails(result)
    \/ \E call \in Calls : Post(call)
    \/ \E valid \in BOOLEAN : RunSend(valid)
    \/ RunPing \/ PostStop \/ RunStop \/ PostAbort \/ RunAbort

(* The strand runs what is posted, and a write completes or fails: TCP     *)
(* gives up on a peer that does not take its data.                         *)
TunnelFairness ==
    /\ WF_tunnelVars(RunStop)
    /\ WF_tunnelVars(\E result \in {"ok", "network", "tls"} : HandleWrite(result))

TunnelSpec == TunnelInit /\ [][TunnelNext]_tunnelVars /\ TunnelFairness
-------------------------------------------------------------------------------
(* The server receives the frames with the numbers 1, 2, 3, ..., as its    *)
(* controller demands, although other threads send packets and pings; and  *)
(* CLOSE and ERROR end the conversation: no frame is queued behind one.    *)
(* There is one write at a time, one whenever a frame waits, and one to    *)
(* wait for when the tunnel is to close after its last write.              *)
WireInOrder ==
    LET frames == self.wire \o self.outbound_queue_.queue_
    IN  /\ \A i \in 1..Len(self.wire) : self.wire[i].seq = i
        /\ \A i \in 1..Len(frames) : frames[i].kind \in {"CLOSE", "ERROR"} => i = Len(frames)
        /\ self.writing <= 1
        /\ self.close_after_write_ /\ ~self.stopped_ => self.writing = 1
        /\ ~self.stopped_ => (self.writing = 1 <=> ~IsEmpty(self.outbound_queue_))

(* Packets reach the adapter, and packets of the adapter the server, only  *)
(* once the network has been configured, also when the assignment and the  *)
(* first data arrive in one read.                                          *)
DataNeedsAdapter ==
    (self.toTun > 0 \/ \E i \in 1..Len(self.wire) : self.wire[i].kind = "DATA")
        => self.configured

(* A stop, whenever it comes, closes the tunnel and so calls its owner.    *)
StopCloses == (posted.stop > 0 /\ self.started_) ~> self.close_handler_calls = 1

(* What the documentation says of a protocol error and of a rejection by   *)
(* the server: they are final, the owner is not told to try again.         *)
FatalErrorsAreFinal ==
    (self.rejected \/ self.violated) /\ self.why = "drained" => ~self.retryable_close_

HasClose(frames) == \E i \in 1..Len(frames) : frames[i].kind = "CLOSE"

(* What the documentation says of a stop: the socket is closed when the    *)
(* queue with the CLOSE frame has drained, so that no stop closes it with  *)
(* the frame still in the queue.                                           *)
StopDrainsQueue ==
    [][(self.why = "open" /\ self'.why = "stop") => ~HasClose(self.outbound_queue_.queue_)]_tunnelVars
===============================================================================
