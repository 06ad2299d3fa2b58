------------------------------ MODULE ServerProofs ------------------------------
(***************************************************************************)
(* The sessions of the server and the life cycle of the server, for any    *)
(* limits of a session's queue, any number of frames in one read, of       *)
(* expired deadlines and posted calls, any number of sessions and signals. *)
(* What a session writes is what it numbered, in that order, and it is     *)
(* counted once; the server goes on accepting until it is told to stop,    *)
(* with credentials that match.                                            *)
(***************************************************************************)
EXTENDS TlsTunnelSession, ServerMain, FrameProofs

USE QueueConstants, SessionConstants

Controllers == {"none", "AwaitingHello", "Established", "Closing", "Closed"}
Waits == {"off", "handshake", "idle"}
Reasons == {"open", "drained", "overflow", "refused", "handshake", "idle", "transport", "no frame", "stop"}
Counters == {"handshake_failures", "handshake_timeouts", "idle_timeouts", "established_sessions",
             "closed_sessions", "queue_overflows", "downlink_packets"}
MetricCounts == [Counters -> Nat]

Sessions ==
    [started : BOOLEAN, controller_ : Controllers, route_lease_ : BOOLEAN, stopped_ : BOOLEAN,
     close_after_write_ : BOOLEAN, write_in_progress_ : BOOLEAN, outbound_queue_ : Queues,
     next_outbound_sequence_ : Nat, timer : Waits, handshaking : BOOLEAN, reading : BOOLEAN,
     writing : Nat, wire : Streams, why : Reasons, close_handler_calls : Nat, toClient : Nat,
     metrics_ : MetricCounts]

(* One write is under way if and only if the queue of an open session has  *)
(* a frame.                                                                *)
Writes(s) ==
    IF s.stopped_ THEN s.writing \in {0, 1} /\ s.outbound_queue_ = EmptyQueue
    ELSE /\ s.writing = (IF IsEmpty(s.outbound_queue_) THEN 0 ELSE 1)
         /\ s.write_in_progress_ <=> ~IsEmpty(s.outbound_queue_)
         /\ s.close_after_write_ => ~IsEmpty(s.outbound_queue_)

Flows(s) ==
    /\ NumberedFrom(s.wire, 0)
    /\ ~s.stopped_ => Numbered(s.wire, s.outbound_queue_, 0, s.next_outbound_sequence_)
    /\ Accounted(s.outbound_queue_) /\ Limited(s.outbound_queue_)

(* The counters of the end of a session that has not been closed yet.      *)
Ends(m) == m.idle_timeouts + m.handshake_timeouts + m.handshake_failures

Counts(s) ==
    LET ended == IF s.stopped_ THEN 1 ELSE 0
    IN  /\ s.metrics_.closed_sessions = ended /\ s.close_handler_calls = ended
        /\ Ends(s.metrics_) <= ended
        /\ s.metrics_.handshake_timeouts > 0 => s.controller_ = "none"

Good(s) == s \in Sessions /\ Writes(s) /\ Flows(s) /\ Counts(s)

IInv == Good(self)
-------------------------------------------------------------------------------
(* Count adds one to its counter and changes nothing else.                 *)
LEMMA CountFacts ==
    ASSUME NEW s \in Sessions, NEW counter \in Counters
    PROVE  LET c == Count(s, counter)
           IN  /\ c \in Sessions
               /\ c = [s EXCEPT !.metrics_ = c.metrics_]
               /\ \A other \in Counters :
                      c.metrics_[other] = IF other = counter THEN s.metrics_[other] + 1 ELSE s.metrics_[other]
PROOF
<1> DEFINE m == [s.metrics_ EXCEPT ![counter] = s.metrics_[counter] + 1]
           c == Count(s, counter)
<1>1. c = [s EXCEPT !.metrics_ = m]
    BY DEF Count
<1>2. s.metrics_ \in [Counters -> Nat]
    BY DEF Sessions, MetricCounts
<1>3. m \in [Counters -> Nat]
    BY <1>2
<1>4. \A other \in Counters : m[other] = IF other = counter THEN s.metrics_[other] + 1 ELSE s.metrics_[other]
    BY <1>2
<1>5. m \in MetricCounts
    BY <1>3 DEF MetricCounts
<1> HIDE DEF m, c
<1>6. c \in Sessions /\ c.metrics_ = m
    BY <1>1, <1>5 DEF Sessions
<1> QED BY <1>1, <1>4, <1>6 DEF c

(* The counters that Counts speaks of.                                     *)
EndCounters == {"closed_sessions", "idle_timeouts", "handshake_timeouts", "handshake_failures"}

(* f differs from s in nothing that matters to the queue and the end.      *)
Alike(s, f) ==
    /\ f.stopped_ = s.stopped_ /\ f.wire = s.wire /\ f.writing = s.writing
    /\ f.outbound_queue_ = s.outbound_queue_ /\ f.next_outbound_sequence_ = s.next_outbound_sequence_
    /\ f.write_in_progress_ = s.write_in_progress_ /\ f.close_after_write_ = s.close_after_write_
    /\ f.close_handler_calls = s.close_handler_calls
    /\ \A c \in EndCounters : f.metrics_[c] = s.metrics_[c]
    /\ s.stopped_ => f.controller_ = s.controller_

(* An open session that may be closed, with its end perhaps counted.       *)
Closable(s) ==
    /\ s \in Sessions /\ ~s.stopped_ /\ NumberedFrom(s.wire, 0) /\ s.writing \in {0, 1}
    /\ s.metrics_.closed_sessions = 0 /\ s.close_handler_calls = 0
    /\ Ends(s.metrics_) <= 1 /\ (s.metrics_.handshake_timeouts > 0 => s.controller_ = "none")

(* The counters are numbers.                                               *)
LEMMA MetricFacts ==
    ASSUME NEW s \in Sessions
    PROVE  /\ s.metrics_.closed_sessions \in Nat /\ s.metrics_.idle_timeouts \in Nat
           /\ s.metrics_.handshake_timeouts \in Nat /\ s.metrics_.handshake_failures \in Nat
PROOF
<1>1. s.metrics_ \in MetricCounts
    BY DEF Sessions
<1> QED BY <1>1 DEF MetricCounts, Counters

(* An open session has not ended in any way.                               *)
LEMMA OpenFacts ==
    ASSUME NEW s, Good(s), ~s.stopped_
    PROVE  /\ Closable(s) /\ s.metrics_.idle_timeouts = 0
           /\ s.metrics_.handshake_timeouts = 0 /\ s.metrics_.handshake_failures = 0
PROOF
<1>1. s \in Sessions
    BY DEF Good
<1>2. s.metrics_.closed_sessions = 0 /\ s.close_handler_calls = 0 /\ Ends(s.metrics_) <= 0
    BY DEF Good, Counts
<1>3. s.metrics_.idle_timeouts = 0 /\ s.metrics_.handshake_timeouts = 0 /\ s.metrics_.handshake_failures = 0
    BY <1>1, <1>2, MetricFacts DEF Ends
<1>4. Ends(s.metrics_) <= 1
    BY <1>3 DEF Ends
<1>5. s.writing \in {0, 1} /\ NumberedFrom(s.wire, 0)
    BY DEF Good, Writes, Flows
<1> QED BY <1>1, <1>2, <1>3, <1>4, <1>5 DEF Closable

(* What does not touch the queue and the end keeps the invariant.          *)
LEMMA AlikeKeeps ==
    ASSUME NEW s, Good(s), NEW f \in Sessions, Alike(s, f)
    PROVE  Good(f)
PROOF
<1>1. Writes(f) /\ Flows(f)
    BY DEF Good, Writes, Flows, Alike
<1>2. /\ f.metrics_.closed_sessions = s.metrics_.closed_sessions
      /\ f.metrics_.idle_timeouts = s.metrics_.idle_timeouts
      /\ f.metrics_.handshake_timeouts = s.metrics_.handshake_timeouts
      /\ f.metrics_.handshake_failures = s.metrics_.handshake_failures
    BY DEF Alike, EndCounters
<1>3. Ends(f.metrics_) = Ends(s.metrics_)
    BY <1>2 DEF Ends
<1>4. CASE s.stopped_
    <2>1. f.stopped_ = TRUE /\ f.controller_ = s.controller_ /\ f.close_handler_calls = s.close_handler_calls
        BY <1>4 DEF Alike, Good, Sessions
    <2> QED BY <1>1, <1>2, <1>3, <1>4, <2>1 DEF Good, Counts
<1>5. CASE ~s.stopped_
    <2>1. ~f.stopped_ /\ f.close_handler_calls = s.close_handler_calls
        BY <1>5 DEF Alike
    <2>2. s.metrics_.handshake_timeouts = 0
        BY <1>5, OpenFacts
    <2> QED BY <1>1, <1>2, <1>3, <1>5, <2>1, <2>2 DEF Good, Counts
<1> QED BY <1>4, <1>5

(* close_now empties the queue and counts the session, once.               *)
LEMMA CloseKeeps ==
    ASSUME NEW s, Closable(s), NEW why \in Reasons
    PROVE  Good(close_now(s, why)) /\ close_now(s, why).stopped_ = TRUE
PROOF
<1> DEFINE controller == IF s.controller_ = "none" THEN "none" ELSE "Closed"
           calls == s.close_handler_calls + 1
           t == [s EXCEPT !.stopped_ = TRUE, !.timer = "off", !.controller_ = controller,
                          !.outbound_queue_ = EmptyQueue, !.close_handler_calls = calls, !.why = why]
           f == close_now(s, why)
<1>1. s \in Sessions /\ s.close_handler_calls = 0 /\ f = Count(t, "closed_sessions")
    BY DEF Closable, close_now
<1>2. /\ "off" \in Waits /\ controller \in Controllers /\ calls = 1 /\ calls \in Nat
      /\ (s.controller_ = "none" => controller = "none")
    BY <1>1 DEF Waits, Controllers
<1>3. EmptyQueue \in Queues /\ Accounted(EmptyQueue) /\ Limited(EmptyQueue)
    BY EmptyFacts
<1> HIDE DEF controller, calls
<1>4. t \in Sessions
    BY <1>1, <1>2, <1>3, Zenon DEF Sessions
<1>5. /\ t \in Sessions /\ t.stopped_ = TRUE /\ t.controller_ = controller /\ t.close_handler_calls = calls
      /\ t.outbound_queue_ = EmptyQueue /\ t.wire = s.wire /\ t.writing = s.writing
      /\ t.metrics_ = s.metrics_
    BY <1>1, <1>4 DEF Sessions
<1>6. "closed_sessions" \in Counters
    BY DEF Counters
<1> HIDE DEF t, f
<1>7. /\ f \in Sessions /\ f = [t EXCEPT !.metrics_ = f.metrics_]
      /\ \A other \in Counters :
             f.metrics_[other] = IF other = "closed_sessions" THEN t.metrics_[other] + 1 ELSE t.metrics_[other]
    <2> DEFINE counter == "closed_sessions"
               c == Count(t, counter)
    <2>1. t \in Sessions /\ counter \in Counters
        BY <1>5, <1>6
    <2> HIDE DEF counter
    <2>2. /\ c \in Sessions /\ c = [t EXCEPT !.metrics_ = c.metrics_]
          /\ \A other \in Counters :
                 c.metrics_[other] = IF other = counter THEN t.metrics_[other] + 1 ELSE t.metrics_[other]
        BY ONLY <2>1, CountFacts, Zenon
    <2>3. f = c
        BY <1>1, Zenon DEF counter
    <2> HIDE DEF c
    <2> QED BY ONLY <2>2, <2>3, Zenon DEF counter
<1>8. /\ f.stopped_ = TRUE /\ f.controller_ = controller /\ f.close_handler_calls = 1
      /\ f.outbound_queue_ = EmptyQueue /\ f.wire = s.wire /\ f.writing = s.writing
    <2>1. /\ f.stopped_ = t.stopped_ /\ f.controller_ = t.controller_
          /\ f.close_handler_calls = t.close_handler_calls
          /\ f.outbound_queue_ = t.outbound_queue_ /\ f.wire = t.wire /\ f.writing = t.writing
        BY <1>5, <1>7 DEF Sessions
    <2> QED BY ONLY <1>2, <1>5, <2>1
<1>9. /\ f.metrics_.closed_sessions = s.metrics_.closed_sessions + 1
      /\ f.metrics_.idle_timeouts = s.metrics_.idle_timeouts
      /\ f.metrics_.handshake_timeouts = s.metrics_.handshake_timeouts
      /\ f.metrics_.handshake_failures = s.metrics_.handshake_failures
    BY <1>5, <1>7 DEF Counters
<1>10. Counts(f)
    <2>1. f.metrics_.closed_sessions = 1
        BY <1>9 DEF Closable
    <2>2. Ends(f.metrics_) = Ends(s.metrics_)
        BY <1>9 DEF Ends
    <2> QED BY <1>2, <1>8, <1>9, <2>1, <2>2 DEF Counts, Closable
<1>11. Writes(f) /\ Flows(f)
    BY <1>3, <1>8 DEF Writes, Flows, Closable
<1> QED BY <1>7, <1>8, <1>10, <1>11 DEF Good, f

(* A deadline or a failure is counted just before the session closes.      *)
LEMMA CountClosable ==
    ASSUME NEW s, Good(s), ~s.stopped_, NEW counter \in Counters \ {"closed_sessions"},
           counter = "handshake_timeouts" => s.controller_ = "none"
    PROVE  Closable(Count(s, counter))
PROOF
<1> DEFINE c == Count(s, counter)
<1>1. s \in Sessions
    BY DEF Good
<1>2. /\ c \in Sessions /\ c = [s EXCEPT !.metrics_ = c.metrics_]
      /\ \A other \in Counters :
             c.metrics_[other] = IF other = counter THEN s.metrics_[other] + 1 ELSE s.metrics_[other]
    BY <1>1, CountFacts
<1> HIDE DEF c
<1>3. /\ c.stopped_ = s.stopped_ /\ c.wire = s.wire /\ c.writing = s.writing
      /\ c.close_handler_calls = s.close_handler_calls /\ c.controller_ = s.controller_
    BY <1>1, <1>2 DEF Sessions
<1>4. c.metrics_.closed_sessions = s.metrics_.closed_sessions
    BY <1>2 DEF Counters
<1>5. /\ c.metrics_.idle_timeouts = IF counter = "idle_timeouts" THEN 1 ELSE 0
      /\ c.metrics_.handshake_timeouts = IF counter = "handshake_timeouts" THEN 1 ELSE 0
      /\ c.metrics_.handshake_failures = IF counter = "handshake_failures" THEN 1 ELSE 0
    BY <1>2, OpenFacts DEF Counters
<1>6. Ends(c.metrics_) <= 1 /\ (c.metrics_.handshake_timeouts > 0 => counter = "handshake_timeouts")
    BY <1>5 DEF Ends
<1> QED BY <1>2, <1>3, <1>4, <1>6, OpenFacts DEF Closable, c

(* write_next begins the next write, or ends a session that is to close.   *)
LEMMA WriteNextKeeps ==
    ASSUME NEW s \in Sessions, ~s.stopped_, s.writing = 0, Flows(s), Counts(s)
    PROVE  /\ Good(write_next(s))
           /\ ~IsEmpty(s.outbound_queue_) =>
                 /\ write_next(s).stopped_ = FALSE
                 /\ write_next(s).outbound_queue_ = s.outbound_queue_
PROOF
<1>1. CASE IsEmpty(s.outbound_queue_)
    <2> DEFINE t == [s EXCEPT !.write_in_progress_ = FALSE]
    <2>1. write_next(s) = IF t.close_after_write_ THEN close_now(t, "drained") ELSE t
        BY <1>1 DEF write_next
    <2>2. /\ t \in Sessions /\ t.write_in_progress_ = FALSE /\ t.stopped_ = s.stopped_ /\ t.writing = s.writing
          /\ t.outbound_queue_ = s.outbound_queue_ /\ t.wire = s.wire
          /\ t.next_outbound_sequence_ = s.next_outbound_sequence_
          /\ t.metrics_ = s.metrics_ /\ t.controller_ = s.controller_
          /\ t.close_handler_calls = s.close_handler_calls
        BY Zenon DEF Sessions
    <2> HIDE DEF t
    <2>3. Flows(t) /\ Counts(t)
        BY <2>2 DEF Flows, Counts
    <2>4. ~t.close_after_write_ => Good(t)
        BY <1>1, <2>2, <2>3 DEF Good, Writes
    <2>5. Closable(t)
        <3>1. t.metrics_.closed_sessions = 0 /\ t.close_handler_calls = 0 /\ Ends(t.metrics_) <= 0
            BY <2>2, <2>3 DEF Counts
        <3>2. Ends(t.metrics_) <= 1
            BY <2>2, <3>1, MetricFacts DEF Ends
        <3> QED BY <2>2, <2>3, <3>1, <3>2 DEF Closable, Flows, Counts
    <2>6. Good(close_now(t, "drained"))
        BY <2>5, CloseKeeps, Zenon DEF Reasons
    <2> QED BY <1>1, <2>1, <2>4, <2>6
<1>2. CASE ~IsEmpty(s.outbound_queue_)
    <2> DEFINE f == [s EXCEPT !.write_in_progress_ = TRUE, !.writing = s.writing + 1]
    <2>1. write_next(s) = f
        BY <1>2 DEF write_next
    <2>2. s.writing + 1 = 1 /\ s.writing + 1 \in Nat
        OBVIOUS
    <2>3. f \in Sessions
        BY <2>2, Zenon DEF Sessions
    <2>4. /\ f.write_in_progress_ = TRUE /\ f.stopped_ = s.stopped_ /\ f.writing = 1
          /\ f.outbound_queue_ = s.outbound_queue_ /\ f.wire = s.wire
          /\ f.next_outbound_sequence_ = s.next_outbound_sequence_
          /\ f.metrics_ = s.metrics_ /\ f.controller_ = s.controller_
          /\ f.close_handler_calls = s.close_handler_calls
        BY <2>2 DEF Sessions
    <2> HIDE DEF f
    <2>5. Flows(f) /\ Counts(f)
        BY <2>4 DEF Flows, Counts
    <2>6. Writes(f)
        BY <1>2, <2>4 DEF Writes
    <2>7. f.stopped_ = FALSE
        BY <2>4 DEF Sessions
    <2> QED BY <2>1, <2>3, <2>4, <2>5, <2>6, <2>7 DEF Good
<1> QED BY <1>1, <1>2, Zenon

(* enqueue_frame: a frame that is accepted will be written; after one that *)
(* is refused the session can only close.                                  *)
LEMMA EnqueueKeeps ==
    ASSUME NEW s, Good(s), ~s.stopped_, NEW kind \in Kinds
    PROVE  LET e == enqueue_frame(s, kind)
           IN  /\ e.ok \in BOOLEAN
               /\ e.ok => Good(e.s) /\ e.s.stopped_ = FALSE /\ ~IsEmpty(e.s.outbound_queue_)
               /\ ~e.ok => /\ Closable(e.s)
                           /\ \A counter \in Counters \ EndCounters : Closable(Count(e.s, counter))
PROOF
<1> DEFINE size == Size(kind)
           next == s.next_outbound_sequence_ + 1
           frame == [kind |-> kind, seq |-> s.next_outbound_sequence_, size |-> size]
           r == try_enqueue(s.outbound_queue_, frame)
           t == [s EXCEPT !.next_outbound_sequence_ = next, !.outbound_queue_ = r.queue]
           e == enqueue_frame(s, kind)
<1>1. /\ s \in Sessions /\ s.next_outbound_sequence_ \in Nat /\ s.outbound_queue_ \in Queues
      /\ s.wire \in Streams /\ s.stopped_ = FALSE
    BY DEF Good, Sessions
<1>2. next \in Nat /\ size \in Nat
    BY <1>1 DEF Size
<1>3. e = [s |-> IF r.ok /\ ~t.write_in_progress_ THEN write_next(t) ELSE t, ok |-> r.ok]
    BY DEF enqueue_frame
<1> HIDE DEF size
<1>4. frame \in Outbound /\ frame.seq = s.next_outbound_sequence_
    BY <1>1, <1>2 DEF Outbound
<1> HIDE DEF frame
<1>5. /\ r.ok \in BOOLEAN /\ r.queue \in Queues /\ Accounted(r.queue) /\ Limited(r.queue)
      /\ r.ok => r.queue.queue_ = Append(s.outbound_queue_.queue_, frame)
      /\ ~r.ok => r.queue = s.outbound_queue_
    BY <1>1, <1>4, EnqueueFacts DEF Good, Flows
<1> HIDE DEF r, next
<1>6. t \in Sessions
    BY <1>1, <1>2, <1>5, Zenon DEF Sessions
<1>7. /\ t.next_outbound_sequence_ = next /\ t.outbound_queue_ = r.queue /\ t.stopped_ = FALSE
      /\ t.write_in_progress_ = s.write_in_progress_ /\ t.writing = s.writing /\ t.wire = s.wire
      /\ t.metrics_ = s.metrics_ /\ t.controller_ = s.controller_
      /\ t.close_handler_calls = s.close_handler_calls
    BY <1>1 DEF Sessions
<1> HIDE DEF t
<1>8. e.ok = r.ok /\ e.s = IF r.ok /\ ~t.write_in_progress_ THEN write_next(t) ELSE t
    BY <1>3
<1> HIDE DEF e
<1>9. Closable(s)
    BY OpenFacts
<1>10. CASE ~r.ok
    <2>1. e.s = t
        BY <1>8, <1>10
    <2>2. Closable(t)
        BY <1>6, <1>7, <1>9 DEF Closable
    <2>3. ASSUME NEW counter \in Counters \ EndCounters PROVE Closable(Count(t, counter))
        <3> DEFINE c == Count(t, counter)
        <3>1. /\ c \in Sessions /\ c = [t EXCEPT !.metrics_ = c.metrics_]
              /\ \A other \in Counters :
                     c.metrics_[other] = IF other = counter THEN t.metrics_[other] + 1 ELSE t.metrics_[other]
            BY <1>6, CountFacts
        <3> HIDE DEF c
        <3>2. /\ c.stopped_ = t.stopped_ /\ c.wire = t.wire /\ c.writing = t.writing
              /\ c.close_handler_calls = t.close_handler_calls /\ c.controller_ = t.controller_
            BY <1>6, <3>1 DEF Sessions
        <3>3. /\ c.metrics_.closed_sessions = t.metrics_.closed_sessions
              /\ c.metrics_.idle_timeouts = t.metrics_.idle_timeouts
              /\ c.metrics_.handshake_timeouts = t.metrics_.handshake_timeouts
              /\ c.metrics_.handshake_failures = t.metrics_.handshake_failures
            BY <3>1 DEF Counters, EndCounters
        <3>4. Ends(c.metrics_) = Ends(t.metrics_)
            BY <3>3 DEF Ends
        <3> QED BY <2>2, <3>1, <3>2, <3>3, <3>4 DEF Closable, c
    <2> QED BY <1>5, <1>8, <1>10, <2>1, <2>2, <2>3 DEF e
<1>11. CASE r.ok
    <2>1. Numbered(t.wire, t.outbound_queue_, 0, t.next_outbound_sequence_)
        <3>1. Numbered(s.wire, s.outbound_queue_, 0, s.next_outbound_sequence_)
            BY DEF Good, Flows
        <3>2. Numbered(s.wire, r.queue, 0, next)
            BY <1>1, <1>4, <1>5, <1>11, <3>1, NumberedAppend, Zenon DEF next
        <3> QED BY <1>7, <3>2
    <2>2. Flows(t)
        BY <1>5, <1>7, <2>1 DEF Flows, Numbered
    <2>3. Counts(t)
        BY <1>1, <1>7 DEF Good, Counts
    <2>4. ~IsEmpty(t.outbound_queue_)
        <3>1. s.outbound_queue_.queue_ \in Seq(Outbound)
            BY <1>1 DEF Queues, Streams
        <3>2. Append(s.outbound_queue_.queue_, frame) # <<>>
            BY <1>4, <3>1
        <3> QED BY <1>5, <1>7, <1>11, <3>2 DEF IsEmpty
    <2>5. CASE ~t.write_in_progress_
        <3>1. e.s = write_next(t)
            BY <1>8, <1>11, <2>5
        <3>2. t.writing = 0
            BY <1>1, <1>7, <2>5 DEF Good, Writes
        <3>3. Good(e.s) /\ e.s.stopped_ = FALSE /\ e.s.outbound_queue_ = t.outbound_queue_
            BY <1>6, <1>7, <2>2, <2>3, <2>4, <3>1, <3>2, WriteNextKeeps, Zenon
        <3> QED BY <1>5, <1>8, <1>11, <2>4, <3>3 DEF e
    <2>6. CASE t.write_in_progress_
        <3>1. e.s = t
            BY <1>8, <2>6
        <3>2. t.writing = 1
            BY <1>1, <1>7, <2>6 DEF Good, Writes
        <3>3. Writes(t)
            BY <1>7, <2>4, <2>6, <3>2 DEF Writes
        <3> QED BY <1>5, <1>6, <1>7, <1>8, <1>11, <2>2, <2>3, <2>4, <3>1, <3>3 DEF Good, e
    <2> QED BY <2>5, <2>6, Zenon
<1> QED BY <1>5, <1>10, <1>11, Zenon

(* A session that is closed already stays as it is.                        *)
LEMMA CloseAgainKeeps ==
    ASSUME NEW s, Good(s), NEW why \in Reasons
    PROVE  Good(close_now(s, why))
PROOF
<1>1. CASE s.stopped_
    BY <1>1 DEF close_now
<1>2. CASE ~s.stopped_
    BY <1>2, OpenFacts, CloseKeeps, Zenon
<1> QED BY <1>1, <1>2

(* The other counters have no part in the end of a session.                *)
LEMMA CountKeeps ==
    ASSUME NEW s, Good(s), NEW counter \in Counters \ EndCounters
    PROVE  Good(Count(s, counter)) /\ Count(s, counter).stopped_ = s.stopped_
PROOF
<1> DEFINE c == Count(s, counter)
<1>1. s \in Sessions
    BY DEF Good
<1>2. /\ c \in Sessions /\ c = [s EXCEPT !.metrics_ = c.metrics_]
      /\ \A other \in Counters :
             c.metrics_[other] = IF other = counter THEN s.metrics_[other] + 1 ELSE s.metrics_[other]
    BY <1>1, CountFacts
<1> HIDE DEF c
<1>3. \A end \in EndCounters : c.metrics_[end] = s.metrics_[end]
    BY <1>2 DEF Counters, EndCounters
<1>4. Alike(s, c)
    BY <1>1, <1>2, <1>3 DEF Sessions, Alike
<1> QED BY <1>2, <1>4, AlikeKeeps DEF Alike, c

Results == [state : Controllers, out : Kinds \cup {"none"}, close : BOOLEAN]

(* SessionController::handle answers every frame in every state.           *)
LEMMA HandleFacts ==
    ASSUME NEW state, NEW frame
    PROVE  state \in Controllers => handle(state, frame) \in Results
PROOF BY DEF handle, Results, Controllers, Kinds

(* apply_result queues the answer and closes, at once or after the last    *)
(* write.                                                                  *)
LEMMA ApplyKeeps ==
    ASSUME NEW s, Good(s), ~s.stopped_, NEW result \in Results
    PROVE  Good(apply_result(s, result))
PROOF
<1> DEFINE e == IF result.out = "none" THEN [s |-> s, ok |-> TRUE] ELSE enqueue_frame(s, result.out)
           after == e.s.close_after_write_ \/ result.close
           t == [e.s EXCEPT !.close_after_write_ = after]
<1>1. apply_result(s, result) =
          IF ~e.ok THEN close_now(Count(e.s, "queue_overflows"), "overflow")
          ELSE IF result.close /\ ~t.write_in_progress_ /\ IsEmpty(t.outbound_queue_)
               THEN close_now(t, "drained") ELSE t
    BY DEF apply_result
<1>2. result.out \in Kinds \cup {"none"} /\ result.close \in BOOLEAN
    BY DEF Results
<1>3. /\ e.ok \in BOOLEAN
      /\ e.ok => Good(e.s) /\ e.s.stopped_ = FALSE
      /\ ~e.ok => Closable(Count(e.s, "queue_overflows"))
    <2>1. CASE result.out = "none"
        <3>1. e.s = s /\ e.ok = TRUE
            BY <2>1
        <3>2. s.stopped_ = FALSE
            BY DEF Good, Sessions
        <3> QED BY <3>1, <3>2, Zenon
    <2>2. CASE result.out # "none"
        <3>1. e = enqueue_frame(s, result.out) /\ result.out \in Kinds
            BY <1>2, <2>2
        <3>2. "queue_overflows" \in Counters \ EndCounters
            BY DEF Counters, EndCounters
        <3> HIDE DEF e
        <3> QED BY <3>1, <3>2, EnqueueKeeps, Zenon
    <2> QED BY <2>1, <2>2, Zenon
<1> HIDE DEF e
<1>4. CASE ~e.ok
    BY <1>1, <1>3, <1>4, CloseKeeps, Zenon DEF Reasons
<1>5. CASE e.ok
    <2>1. e.s \in Sessions /\ after \in BOOLEAN
        BY <1>2, <1>3, <1>5 DEF Good, Sessions
    <2> HIDE DEF after
    <2>2. /\ t \in Sessions /\ t.close_after_write_ = after /\ t.stopped_ = FALSE
          /\ t.write_in_progress_ = e.s.write_in_progress_ /\ t.writing = e.s.writing
          /\ t.outbound_queue_ = e.s.outbound_queue_ /\ t.wire = e.s.wire
          /\ t.next_outbound_sequence_ = e.s.next_outbound_sequence_
          /\ t.metrics_ = e.s.metrics_ /\ t.controller_ = e.s.controller_
          /\ t.close_handler_calls = e.s.close_handler_calls
        BY <1>3, <1>5, <2>1 DEF Sessions
    <2> HIDE DEF t
    <2>3. Flows(t) /\ Counts(t)
        BY <1>3, <1>5, <2>2 DEF Good, Flows, Counts
    <2>4. Closable(t)
        <3>1. Closable(e.s)
            BY <1>3, <1>5, OpenFacts
        <3> QED BY <2>2, <3>1 DEF Closable
    <2>5. Good(close_now(t, "drained"))
        BY <2>4, CloseKeeps, Zenon DEF Reasons
    <2>6. ASSUME ~(result.close /\ ~t.write_in_progress_ /\ IsEmpty(t.outbound_queue_))
          PROVE  Good(t)
        <3>1. /\ e.s.writing = (IF IsEmpty(e.s.outbound_queue_) THEN 0 ELSE 1)
              /\ e.s.write_in_progress_ <=> ~IsEmpty(e.s.outbound_queue_)
              /\ e.s.close_after_write_ => ~IsEmpty(e.s.outbound_queue_)
            BY <1>3, <1>5 DEF Good, Writes
        <3>2. after => ~IsEmpty(t.outbound_queue_)
            BY <2>2, <2>6, <3>1 DEF after
        <3>3. Writes(t)
            BY <2>2, <3>1, <3>2 DEF Writes
        <3> QED BY <2>2, <2>3, <3>3 DEF Good
    <2> QED BY <1>1, <1>5, <2>5, <2>6
<1> QED BY <1>3, <1>4, <1>5

(* One frame of handle_read.                                               *)
LEMMA FrameKeeps ==
    ASSUME NEW s, Good(s), NEW frame, NEW routed \in BOOLEAN
    PROVE  Good(HandleFrame(s, frame, routed))
PROOF
<1> DEFINE result == handle(s.controller_, frame)
           t == [s EXCEPT !.timer = "idle", !.controller_ = result.state]
           u == [t EXCEPT !.route_lease_ = TRUE]
<1>1. s \in Sessions /\ s.controller_ \in Controllers
    BY DEF Good, Sessions
<1>2. result \in Results /\ result.state \in Controllers /\ "idle" \in Waits
    BY <1>1, HandleFacts DEF Results, Waits
<1>3. HandleFrame(s, frame, routed) =
          IF s.stopped_ \/ s.close_after_write_ THEN s
          ELSE IF t.route_lease_ \/ t.controller_ # "Established" THEN apply_result(t, result)
          ELSE IF routed THEN apply_result(Count(u, "established_sessions"), result)
               ELSE close_now(u, "refused")
    BY <1>1 DEF HandleFrame, arm_idle_timeout, Sessions
<1> HIDE DEF result
<1>4. CASE s.stopped_ \/ s.close_after_write_
    BY <1>3, <1>4
<1>5. CASE ~(s.stopped_ \/ s.close_after_write_)
    <2>1. t \in Sessions /\ Alike(s, t)
        BY <1>1, <1>2, <1>5, Zenon DEF Sessions, Alike
    <2>2. u \in Sessions /\ Alike(t, u)
        BY <2>1, Zenon DEF Sessions, Alike
    <2> HIDE DEF t, u
    <2>3. Good(t) /\ ~t.stopped_
        BY <1>5, <2>1, AlikeKeeps DEF Alike
    <2>4. Good(u) /\ ~u.stopped_
        BY <2>2, <2>3, AlikeKeeps DEF Alike
    <2>5. "established_sessions" \in Counters \ EndCounters /\ "refused" \in Reasons
        BY DEF Counters, EndCounters, Reasons
    <2>6. Good(Count(u, "established_sessions")) /\ ~Count(u, "established_sessions").stopped_
        BY <2>4, <2>5, CountKeeps
    <2>7. Good(apply_result(t, result)) /\ Good(apply_result(Count(u, "established_sessions"), result))
        BY <1>2, <2>3, <2>6, ApplyKeeps
    <2>8. Good(close_now(u, "refused"))
        BY <2>4, <2>5, CloseAgainKeeps
    <2> QED BY <1>3, <1>5, <2>7, <2>8
<1> QED BY <1>4, <1>5

(* The whole of handle_read, whatever the bytes complete.                 *)
LEMMA FramesKeep ==
    ASSUME NEW s, Good(s), NEW frames \in Batches, NEW routed \in BOOLEAN
    PROVE  Good(HandleFrames(s, frames, routed))
PROOF
<1> DEFINE Sound == {u \in Sessions : Good(u)}
           N == Len(frames)
           step(u, m) == HandleFrame(u, frames[m], routed)
           body == [m \in 1..N |-> [u \in Sound |-> step(u, m)]]
           Loop(f) == f = [m \in 0..N |-> IF m = 0 THEN s ELSE step(f[m - 1], m)]
           after == CHOOSE f : Loop(f)
<1>1. s \in Sound /\ N \in Nat
    BY DEF Good, Batches
<1>2. \A u \in Sound : \A m \in 1..N : step(u, m) \in Sound
    BY FrameKeeps DEF Good
<1>3. HandleFrames(s, frames, routed) = after[N]
    BY DEF HandleFrames
<1> HIDE DEF Sound, N, step
<1>4. body \in [1..N -> [Sound -> Sound]]
    BY <1>2
<1>5. \A u \in Sound : \A m \in 1..N : body[m][u] = step(u, m)
    OBVIOUS
<1> HIDE DEF body
<1>6. PICK f : IsRun(f, Sound, s, N, body)
    BY <1>1, <1>4, LoopExists, Zenon
<1>7. f \in [0..N -> Sound] /\ f[0] = s /\ \A m \in 1..N : f[m] = body[m][f[m - 1]]
    BY <1>6 DEF IsRun
<1>8. \A m \in 0..N : m # 0 => m \in 1..N /\ m - 1 \in 0..N
    BY <1>1
<1>9. \A m \in 0..N : f[m] = IF m = 0 THEN s ELSE step(f[m - 1], m)
    BY <1>5, <1>7, <1>8
<1>10. Loop(f)
    BY <1>7, <1>9
<1>11. Loop(after)
    BY <1>10, Zenon
<1> HIDE DEF after
<1>12. 0 \in 0..N /\ \A m \in 1..N : m \in 0..N /\ m # 0
    BY <1>1
<1>13. after[0] = s /\ \A m \in 1..N : after[m] = step(after[m - 1], m)
    BY <1>11, <1>12, Zenon
<1>14. \A m \in 1..N : after[m - 1] \in Sound => after[m] \in Sound
    BY <1>2, <1>13
<1>15. after[N] \in Sound
    BY <1>1, <1>13, <1>14, LoopKeeps, Zenon
<1> QED BY <1>3, <1>15 DEF Sound
-------------------------------------------------------------------------------
(* A session that has not been started.                                    *)
LEMMA InitHolds == Init => IInv
PROOF
<1> SUFFICES ASSUME Init PROVE Good(NewSession)
    BY DEF Init, IInv
<1> DEFINE m == NewSession.metrics_
<1>1. m \in MetricCounts
    BY DEF NewSession, MetricCounts, Counters
<1>2. /\ m.closed_sessions = 0 /\ m.idle_timeouts = 0 /\ m.handshake_timeouts = 0
      /\ m.handshake_failures = 0
    BY DEF NewSession
<1>3. <<>> \in Seq(Outbound) /\ Len(<<>>) = 0
    OBVIOUS
<1>4. EmptyQueue \in Queues /\ <<>> \in Streams
    BY <1>3 DEF EmptyQueue, Queues, Streams
<1>5. NewSession \in Sessions
    <2>1. "none" \in Controllers /\ "off" \in Waits /\ "open" \in Reasons
        BY DEF Controllers, Waits, Reasons
    <2> QED BY <1>1, <1>4, <2>1 DEF NewSession, Sessions
<1>6. /\ NewSession.stopped_ = FALSE /\ NewSession.writing = 0 /\ NewSession.write_in_progress_ = FALSE
      /\ NewSession.close_after_write_ = FALSE /\ NewSession.outbound_queue_ = EmptyQueue
      /\ NewSession.wire = <<>> /\ NewSession.next_outbound_sequence_ = 0
      /\ NewSession.close_handler_calls = 0
    BY DEF NewSession
<1>7. Writes(NewSession)
    BY <1>6 DEF Writes, IsEmpty, EmptyQueue
<1>8. Accounted(EmptyQueue) /\ Limited(EmptyQueue)
    BY EmptyFacts
<1>9. Flows(NewSession)
    <2>1. EmptyQueue.queue_ = <<>> /\ 1..0 = {} /\ 0 = 0 + 0
        BY DEF EmptyQueue
    <2> QED BY <1>3, <1>6, <1>8, <2>1 DEF Flows, Numbered, NumberedFrom
<1>10. Counts(NewSession)
    <2>1. Ends(m) <= 0
        BY <1>2 DEF Ends
    <2> QED BY <1>2, <1>6, <2>1 DEF Counts
<1> QED BY <1>5, <1>7, <1>9, <1>10 DEF Good

(* start_on_strand and the expiry of a wait touch only the timer.          *)
LEMMA TimerStep == IInv /\ (Start \/ Expire) => IInv'
PROOF
<1> SUFFICES ASSUME Good(self), Start \/ Expire PROVE Good(self')
    BY DEF IInv
<1>1. self \in Sessions /\ "off" \in Waits /\ "handshake" \in Waits
    BY DEF Good, Waits
<1>2. CASE Start
    <2>1. self' = [self EXCEPT !.started = TRUE, !.timer = "handshake", !.handshaking = TRUE]
        BY <1>2 DEF Start
    <2>2. self' \in Sessions
        BY <1>1, <2>1, Zenon DEF Sessions
    <2>3. Alike(self, self')
        BY <1>1, <2>1 DEF Sessions, Alike
    <2> QED BY <2>2, <2>3, AlikeKeeps
<1>3. CASE Expire
    <2>1. self' = [self EXCEPT !.timer = "off"]
        BY <1>3 DEF Expire
    <2>2. self' \in Sessions
        BY <1>1, <2>1 DEF Sessions
    <2>3. Alike(self, self')
        BY <1>1, <2>1 DEF Sessions, Alike
    <2> QED BY <2>2, <2>3, AlikeKeeps
<1> QED BY <1>2, <1>3

(* Both deadlines look at the session before they count.                   *)
LEMMA DeadlineStep == IInv /\ (HandshakeDeadline \/ IdleDeadline) => IInv'
PROOF
<1> SUFFICES ASSUME Good(self), HandshakeDeadline \/ IdleDeadline PROVE Good(self')
    BY DEF IInv
<1>1. CASE HandshakeDeadline /\ ~(self.stopped_ \/ self.controller_ # "none")
    <2>1. "handshake_timeouts" \in Counters \ {"closed_sessions"} /\ "handshake" \in Reasons
        BY DEF Counters, Reasons
    <2>2. Closable(Count(self, "handshake_timeouts"))
        BY <1>1, <2>1, CountClosable
    <2> QED BY <1>1, <2>1, <2>2, CloseKeeps, Zenon DEF HandshakeDeadline
<1>2. CASE IdleDeadline /\ ~self.stopped_
    <2>1. "idle_timeouts" \in Counters \ {"closed_sessions"} /\ "idle" \in Reasons
        BY DEF Counters, Reasons
    <2>2. Closable(Count(self, "idle_timeouts"))
        BY <1>2, <2>1, CountClosable
    <2> QED BY <1>2, <2>1, <2>2, CloseKeeps, Zenon DEF IdleDeadline
<1> QED BY <1>1, <1>2 DEF HandshakeDeadline, IdleDeadline

(* handle_handshake, with every outcome.                                   *)
LEMMA HandshakeStep ==
    ASSUME IInv, (\E ok \in BOOLEAN : HandleHandshake(ok)) \/ HandshakeThrows
    PROVE  IInv'
PROOF
<1> DEFINE s == [self EXCEPT !.handshaking = FALSE]
           u == [s EXCEPT !.controller_ = "AwaitingHello", !.timer = "idle", !.reading = TRUE]
<1>1. Good(self) /\ self \in Sessions
    BY DEF IInv, Good
<1>2. s \in Sessions /\ Alike(self, s)
    BY <1>1, Zenon DEF Sessions, Alike
<1>3. \/ self' = s
      \/ self' = close_now(Count(s, "handshake_failures"), "transport") /\ ~s.stopped_
      \/ self' = u /\ ~s.stopped_
      \/ self' = close_now(s, "transport")
    BY <1>1, <1>2, Zenon DEF HandleHandshake, HandshakeThrows, arm_idle_timeout, Sessions
<1>4. ~s.stopped_ => u \in Sessions /\ Alike(s, u)
    BY <1>2, Zenon DEF Sessions, Alike, Controllers, Waits
<1> HIDE DEF s, u
<1>5. Good(s)
    BY <1>1, <1>2, AlikeKeeps
<1>6. ~s.stopped_ => Good(u)
    BY <1>4, <1>5, AlikeKeeps
<1>7. "handshake_failures" \in Counters \ {"closed_sessions"} /\ "transport" \in Reasons
    BY DEF Counters, Reasons
<1>8. ~s.stopped_ => Good(close_now(Count(s, "handshake_failures"), "transport"))
    BY <1>5, <1>7, CountClosable, CloseKeeps, Zenon
<1>9. Good(close_now(s, "transport"))
    BY <1>5, <1>7, CloseAgainKeeps
<1> QED BY <1>3, <1>5, <1>6, <1>8, <1>9 DEF IInv

(* handle_read, with the frames or with an error.                          *)
LEMMA ReadStep ==
    ASSUME IInv, ReadFails \/ \E frames \in Batches, routed \in BOOLEAN : HandleRead(frames, routed)
    PROVE  IInv'
PROOF
<1> DEFINE s == [self EXCEPT !.reading = FALSE]
<1>1. Good(self) /\ self \in Sessions
    BY DEF IInv, Good
<1>2. s \in Sessions /\ Alike(self, s)
    BY <1>1, Zenon DEF Sessions, Alike
<1>3. CASE ReadFails
    <2>1. self' = close_now(s, "transport") /\ "transport" \in Reasons
        BY <1>3 DEF ReadFails, Reasons
    <2> HIDE DEF s
    <2> QED BY <1>1, <1>2, <2>1, AlikeKeeps, CloseAgainKeeps DEF IInv
<1>4. ASSUME NEW frames \in Batches, NEW routed \in BOOLEAN, HandleRead(frames, routed)
      PROVE  IInv'
    <2> DEFINE t == HandleFrames(s, frames, routed)
               u == [t EXCEPT !.reading = TRUE]
    <2>1. self' = t \/ self' = u
        BY <1>4 DEF HandleRead
    <2> HIDE DEF s
    <2>2. Good(t) /\ t \in Sessions
        BY <1>1, <1>2, AlikeKeeps, FramesKeep DEF Good
    <2> HIDE DEF t
    <2>3. u \in Sessions /\ Alike(t, u)
        BY <2>2, Zenon DEF Sessions, Alike
    <2> HIDE DEF u
    <2> QED BY <2>1, <2>2, <2>3, AlikeKeeps DEF IInv
<1> QED BY <1>3, <1>4

(* handle_write takes the frame that was written off the queue and begins  *)
(* the next write.                                                         *)
LEMMA WriteStep ==
    ASSUME IInv, NEW ok \in BOOLEAN, HandleWrite(ok)
    PROVE  IInv'
PROOF
<1> DEFINE writing == self.writing - 1
           s == [self EXCEPT !.writing = writing]
           wire == Append(s.wire, front(s.outbound_queue_))
           q == pop_front(s.outbound_queue_)
           t == [s EXCEPT !.wire = wire, !.outbound_queue_ = q]
<1>1. /\ Good(self) /\ self \in Sessions /\ self.writing = 1
      /\ self' = IF s.stopped_ THEN s ELSE IF ~ok THEN close_now(s, "transport") ELSE write_next(t)
    BY DEF IInv, Good, Writes, HandleWrite
<1>2. writing = 0 /\ writing \in Nat
    BY <1>1
<1> HIDE DEF writing
<1>3. /\ s \in Sessions /\ s.writing = 0 /\ s.stopped_ = self.stopped_ /\ s.wire = self.wire
      /\ s.outbound_queue_ = self.outbound_queue_
      /\ s.next_outbound_sequence_ = self.next_outbound_sequence_
      /\ s.metrics_ = self.metrics_ /\ s.controller_ = self.controller_
      /\ s.close_handler_calls = self.close_handler_calls
    BY <1>1, <1>2 DEF Sessions
<1> HIDE DEF s
<1>4. Flows(s) /\ Counts(s)
    BY <1>1, <1>3 DEF Good, Flows, Counts
<1>5. CASE s.stopped_
    <2>1. Writes(s)
        BY <1>1, <1>3, <1>5 DEF Good, Writes
    <2> QED BY <1>1, <1>3, <1>4, <1>5, <2>1 DEF Good, IInv
<1>6. CASE ~s.stopped_ /\ ~ok
    <2>1. Closable(s)
        <3>1. Closable(self)
            BY <1>1, <1>3, <1>6, OpenFacts
        <3> QED BY <1>3, <3>1 DEF Closable
    <2> QED BY <1>1, <1>6, <2>1, CloseKeeps, Zenon DEF IInv, Reasons
<1>7. CASE ~s.stopped_ /\ ok
    <2>1. s.outbound_queue_ \in Queues /\ s.wire \in Streams /\ s.next_outbound_sequence_ \in Nat
        BY <1>3 DEF Sessions
    <2>2. ~IsEmpty(s.outbound_queue_)
        BY <1>1, <1>3, <1>7 DEF Good, Writes
    <2>3. /\ q \in Queues /\ Accounted(q) /\ Limited(q) /\ q.queue_ = Tail(s.outbound_queue_.queue_)
          /\ front(s.outbound_queue_) = s.outbound_queue_.queue_[1]
          /\ s.outbound_queue_.queue_[1] \in Outbound
        BY <1>4, <2>1, <2>2, PopFacts DEF Flows
    <2>4. Numbered(s.wire, s.outbound_queue_, 0, s.next_outbound_sequence_)
        BY <1>4, <1>7 DEF Flows
    <2> HIDE DEF q
    <2>5. wire \in Streams /\ Numbered(wire, q, 0, s.next_outbound_sequence_)
        BY <2>1, <2>2, <2>3, <2>4, NumberedPop
    <2> HIDE DEF wire
    <2>6. t \in Sessions
        BY <1>3, <2>3, <2>5, Zenon DEF Sessions
    <2>7. /\ t.wire = wire /\ t.outbound_queue_ = q /\ t.writing = 0 /\ t.stopped_ = s.stopped_
          /\ t.next_outbound_sequence_ = s.next_outbound_sequence_ /\ t.metrics_ = s.metrics_
          /\ t.controller_ = s.controller_ /\ t.close_handler_calls = s.close_handler_calls
        BY <1>3 DEF Sessions
    <2> HIDE DEF t
    <2>8. Flows(t)
        BY <2>3, <2>5, <2>7, Zenon DEF Flows, Numbered
    <2>9. Counts(t)
        BY <1>4, <2>7 DEF Counts
    <2>10. Good(write_next(t))
        BY <1>7, <2>6, <2>7, <2>8, <2>9, WriteNextKeeps, Zenon
    <2> QED BY <1>1, <1>7, <2>10 DEF IInv
<1> QED BY <1>5, <1>6, <1>7

(* The posted handler of a packet from the TUN device.                     *)
LEMMA SendStep ==
    ASSUME IInv, NEW family \in Families, NEW outcome \in {"frame", "not accepted", "lease gone"},
           SendFromTun(family, outcome)
    PROVE  IInv'
PROOF
<1> DEFINE e == enqueue_frame(self, "DATA")
           sent == [e.s EXCEPT !.toClient = e.s.toClient + 1]
<1>1. Good(self) /\ "DATA" \in Kinds /\ "no frame" \in Reasons /\ "overflow" \in Reasons
    BY Zenon DEF IInv, Kinds, Reasons
<1>2. /\ "downlink_packets" \in Counters \ EndCounters /\ "queue_overflows" \in Counters \ EndCounters
    BY Zenon DEF Counters, EndCounters
<1>3. \/ self' = self
      \/ self' = close_now(self, "no frame")
      \/ /\ ~self.stopped_ /\ e.ok
         /\ self' = sent \/ self' = Count(sent, "downlink_packets")
      \/ /\ ~self.stopped_ /\ ~e.ok
         /\ \/ self' = close_now(e.s, "overflow")
            \/ self' = close_now(Count(e.s, "queue_overflows"), "overflow")
    BY Zenon DEF SendFromTun
<1> HIDE DEF e
<1>4. ~self.stopped_ => /\ e.ok => Good(e.s)
                        /\ ~e.ok => Closable(e.s) /\ Closable(Count(e.s, "queue_overflows"))
    BY <1>1, <1>2, EnqueueKeeps, Zenon DEF e
<1>5. Good(close_now(self, "no frame"))
    BY <1>1, CloseAgainKeeps, Zenon
<1>6. ASSUME ~self.stopped_, e.ok PROVE Good(sent) /\ Good(Count(sent, "downlink_packets"))
    <2>1. Good(e.s) /\ e.s \in Sessions
        BY <1>4, <1>6, Zenon DEF Good
    <2>2. e.s.toClient \in Nat
        BY <2>1, Zenon DEF Sessions
    <2>3. e.s.toClient + 1 \in Nat
        BY <2>2, Successor, Zenon
    <2>4. sent \in Sessions /\ Alike(e.s, sent)
        BY <2>1, <2>3, Zenon DEF Sessions, Alike
    <2> HIDE DEF sent
    <2> QED BY <1>2, <2>1, <2>4, AlikeKeeps, CountKeeps, Zenon
<1> HIDE DEF sent
<1>7. ~self.stopped_ /\ ~e.ok => /\ Good(close_now(e.s, "overflow"))
                                 /\ Good(close_now(Count(e.s, "queue_overflows"), "overflow"))
    BY <1>1, <1>4, CloseKeeps, Zenon
<1>8. Good(self')
    BY <1>1, <1>3, <1>5, <1>6, <1>7, Zenon
<1> QED BY <1>8, Zenon DEF IInv

(* Every handler of the session keeps the invariant.                       *)
LEMMA Inductive == IInv /\ [Next]_vars => IInv'
PROOF
<1> SUFFICES ASSUME IInv, [Next]_vars PROVE IInv'
    OBVIOUS
<1>1. CASE RunStop
    BY <1>1, CloseAgainKeeps, Zenon DEF RunStop, IInv, Reasons
<1>2. CASE PostStop \/ (\E family \in Families : PostFromTun(family)) \/ UNCHANGED vars
    BY <1>2 DEF PostStop, PostFromTun, vars, IInv
<1> QED BY <1>1, <1>2, TimerStep, DeadlineStep, HandshakeStep, ReadStep, WriteStep, SendStep, Zenon DEF Next

(* The invariant holds in every state of a session.                        *)
THEOREM Invariance == Spec => []IInv
PROOF BY InitHolds, Inductive, PTL DEF Spec

(* The frames of TlsTunnelSession leave in the order of their numbers and  *)
(* without a gap, one write at a time, none is left behind in the queue    *)
(* and both its limits hold.                                               *)
THEOREM WireIsInOrder == Spec => []WireInOrder
PROOF
<1>1. IInv => WireInOrder
    <2> SUFFICES ASSUME Good(self) PROVE WireInOrder
        BY DEF IInv
    <2>1. self.wire \in Seq(Outbound) /\ self.outbound_queue_.queued_bytes_ \in Nat
        BY DEF Good, Sessions, Queues, Streams
    <2>2. \A i \in 1..Len(self.wire) : self.wire[i].seq = i - 1
        BY <2>1 DEF Good, Flows, NumberedFrom
    <2>3. /\ Len(self.outbound_queue_.queue_) <= maximum_frames_
          /\ self.outbound_queue_.queued_bytes_ \in 0..maximum_bytes_
        BY <2>1 DEF Good, Flows, Limited
    <2>4. self.writing <= 1
        BY DEF Good, Writes
    <2>5. /\ ~self.stopped_ => (self.writing = 1 <=> ~IsEmpty(self.outbound_queue_))
          /\ self.close_after_write_ /\ ~self.stopped_ => self.writing = 1
        BY DEF Good, Writes
    <2> QED BY <2>2, <2>3, <2>4, <2>5 DEF WireInOrder
<1> QED BY <1>1, Invariance, PTL

(* close_now counts a session and calls its close handler once, and at     *)
(* most one deadline or failure is counted for it.                         *)
THEOREM SessionCountedOnce == Spec => []CountedOnce
PROOF
<1>1. IInv => CountedOnce
    BY DEF IInv, Good, Counts, Ends, CountedOnce
<1> QED BY <1>1, Invariance, PTL
-------------------------------------------------------------------------------
(* The life cycle of the server: ServerMain.                               *)
Accepts == started_ /\ ~stopping_ => accept # "none"

(* A server that is not started accepts nothing, and has made its context  *)
(* from the files it found.                                                *)
LEMMA ServesAtFirst == MainInit => ServesNewSessions
PROOF BY DEF MainInit, CredentialsInit, Old, ServesNewSessions, ContextMatches

(* A stop ends the duty to accept; a handler of the accept that does not   *)
(* stop begins the next one.                                               *)
LEMMA AcceptStep ==
    ASSUME Accepts,
           \/ start_on_strand \/ Stop \/ HandleSocket \/ HandleAborted \/ HandleAcceptError
           \/ \E result \in {"socket", "aborted", "error"} : AcceptCompletes(result)
    PROVE  Accepts' /\ UNCHANGED credentials
PROOF
<1>1. CASE start_on_strand
    BY <1>1 DEF start_on_strand, credentials, Accepts
<1>2. CASE Stop
    BY <1>2 DEF Stop, stop_on_strand, credentials, server, Accepts
<1>3. CASE HandleSocket \/ HandleAborted
    BY <1>3 DEF HandleSocket, HandleAborted, credentials, server, Accepts
<1>4. CASE HandleAcceptError
    BY <1>4 DEF HandleAcceptError, stop_on_strand, credentials, server, Accepts
<1>5. CASE \E result \in {"socket", "aborted", "error"} : AcceptCompletes(result)
    BY <1>5 DEF AcceptCompletes, credentials, server, Accepts
<1> QED BY <1>1, <1>2, <1>3, <1>4, <1>5

(* A reload and the operator leave the accept alone.  The context is       *)
(* replaced only by one whose key was compared with its certificate.       *)
LEMMA ReloadStep ==
    ASSUME ContextMatches, BeginReload \/ Reload \/ Rotate
    PROVE  ContextMatches' /\ UNCHANGED <<server, accept>>
PROOF
<1>1. CASE BeginReload
    BY <1>1 DEF BeginReload, validate_server_private_key_permissions, Fail, credentials, server,
                ContextMatches
<1>2. ASSUME Reload PROVE ContextMatches' /\ UNCHANGED <<server, accept>>
    <2>1. CASE use_certificate_chain_file \/ open_validated_server_private_key
        BY <1>2, <2>1 DEF Reload, use_certificate_chain_file, open_validated_server_private_key,
                          use_private_key, Fail, server, ContextMatches
    <2>2. ASSUME NEW readable \in BOOLEAN, FinishContext(readable)
          PROVE  ContextMatches'
        <3>1. \/ tls_context_' = tls_context_
              \/ /\ tls_context_' = [chain |-> loading.chain, key |-> loading.key]
                 /\ loading.chain = loading.key
            BY <2>2 DEF FinishContext, Fail
        <3> QED BY <3>1 DEF ContextMatches
    <2> QED BY <1>2, <2>1, <2>2 DEF Reload, server
<1>3. CASE Rotate
    BY <1>3 DEF Rotate, InstallChain, InstallKey, Protect, server, ContextMatches
<1> QED BY <1>1, <1>2, <1>3

(* The other handlers touch neither.                                       *)
LEMMA OtherStep ==
    ASSUME \/ remove_session \/ TunErrorHandler \/ HandleHangup \/ HandleTerminate
           \/ MetricsHandler \/ Return \/ SessionCloses \/ TunFails \/ MetricsExpires
           \/ (\E s \in Signals : Raise(s)) \/ UNCHANGED mainVars
    PROVE  UNCHANGED <<server, credentials, accept>>
PROOF BY DEF remove_session, TunErrorHandler, HandleHangup, HandleTerminate, MetricsHandler,
             Return, SessionCloses, TunFails, MetricsExpires, Raise, mainVars

(* As long as it has not stopped, the server has an accept pending or the  *)
(* handler of one queued, and the context new sessions get has a key that  *)
(* belongs to its certificate, for every order of signals, reloads,        *)
(* failures and replaced files.                                            *)
THEOREM ServerServes == MainSpec => []ServesNewSessions
PROOF
<1>1. ASSUME ServesNewSessions, [MainNext]_mainVars
      PROVE  ServesNewSessions'
    <2>1. Accepts /\ ContextMatches
        BY <1>1 DEF ServesNewSessions, Accepts
    <2>2. \/ Accepts' /\ UNCHANGED credentials
          \/ ContextMatches' /\ UNCHANGED <<server, accept>>
          \/ UNCHANGED <<server, credentials, accept>>
        BY <1>1, <2>1, AcceptStep, ReloadStep, OtherStep DEF MainNext, Handlers
    <2>3. Accepts' /\ ContextMatches'
        BY <2>1, <2>2 DEF Accepts, ContextMatches, server, credentials
    <2> QED BY <2>3 DEF ServesNewSessions, Accepts
<1> QED BY <1>1, ServesAtFirst, PTL DEF MainSpec

(* Sessions are counted by numbers.                                        *)
Counted == open \in Nat /\ closed \in Nat

(* Every step keeps the counts of the sessions.                            *)
LEMMA CountedStep ==
    ASSUME Counted, [MainNext]_mainVars
    PROVE  Counted'
PROOF
<1>1. CASE HandleSocket \/ SessionCloses \/ remove_session
    BY <1>1 DEF HandleSocket, SessionCloses, remove_session, Counted
<1>2. UNCHANGED sessions => Counted'
    BY DEF sessions, Counted
<1>3. CASE start_on_strand \/ Stop \/ HandleAborted \/ HandleAcceptError \/ BeginReload \/ Reload \/ Rotate
    BY <1>2, <1>3 DEF start_on_strand, Stop, stop_on_strand, HandleAborted, HandleAcceptError,
                      BeginReload, Reload, Rotate
<1>4. CASE \/ TunErrorHandler \/ HandleHangup \/ HandleTerminate \/ MetricsHandler \/ Return
           \/ TunFails \/ MetricsExpires \/ (\E s \in Signals : Raise(s)) \/ UNCHANGED mainVars
           \/ \E result \in {"socket", "aborted", "error"} : AcceptCompletes(result)
    BY <1>2, <1>4 DEF TunErrorHandler, HandleHangup, HandleTerminate, MetricsHandler, Return,
                      TunFails, MetricsExpires, Raise, mainVars, AcceptCompletes
<1> QED BY <1>1, <1>3, <1>4 DEF MainNext, Handlers

(* A server that has stopped and given up its listener, its device and its *)
(* sessions never has one of them again, whatever is still queued: a start *)
(* that comes late, a completed accept, signals and posted reloads.        *)
THEOREM StoppedStaysIdle == MainSpec => [][stopping_ /\ ServerIdle => stopping_' /\ ServerIdle']_mainVars
PROOF
<1>1. MainInit => Counted
    BY DEF MainInit, Counted
<1>2. Counted /\ [MainNext]_mainVars => Counted'
    BY CountedStep
<1>3. ASSUME Counted, [MainNext]_mainVars, stopping_, ServerIdle
      PROVE  stopping_' /\ ServerIdle'
    <2>1. accept = "none" /\ tun = "closed" /\ open = 0 /\ closed = 0
        BY <1>3 DEF ServerIdle, sessions_, Counted
    <2> DEFINE Same == stopping_' = stopping_ /\ accept' = accept /\ tun' = tun /\ open' = open /\ closed' = closed
    <2>2. Same => stopping_' /\ ServerIdle'
        BY <1>3, <2>1 DEF ServerIdle, sessions_
    <2>3. ~(HandleSocket \/ HandleAborted \/ HandleAcceptError)
        BY <2>1 DEF HandleSocket, HandleAborted, HandleAcceptError
    <2>4. ~(SessionCloses \/ remove_session)
        BY <2>1 DEF SessionCloses, remove_session
    <2>5. CASE start_on_strand \/ Stop
        BY <1>3, <2>2, <2>5 DEF start_on_strand, Stop, server, sessions
    <2>6. CASE TunErrorHandler \/ TunFails \/ BeginReload \/ Reload \/ Rotate
        BY <2>1, <2>2, <2>6 DEF TunErrorHandler, TunFails, BeginReload, Reload,
           Rotate, server, sessions
    <2>7. CASE \/ HandleHangup \/ HandleTerminate \/ MetricsHandler \/ Return \/ MetricsExpires
               \/ (\E s \in Signals : Raise(s)) \/ UNCHANGED mainVars
               \/ \E result \in {"socket", "aborted", "error"} : AcceptCompletes(result)
        BY <2>1, <2>2, <2>7 DEF HandleHangup, HandleTerminate, MetricsHandler, Return,
           MetricsExpires, Raise, mainVars, AcceptCompletes, server, sessions
    <2> QED BY <1>3, <2>3, <2>4, <2>5, <2>6, <2>7 DEF MainNext, Handlers
<1> QED BY <1>1, <1>2, <1>3, PTL DEF MainSpec
===============================================================================
