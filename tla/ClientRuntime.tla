----------------------------- MODULE ClientRuntime -----------------------------
(***************************************************************************)
(* client::ClientRuntime: the owner's calls of stop(), the I/O thread with *)
(* its handlers, and the packet reader thread.  A handler is one step, cut *)
(* where it waits for the reader, where the network is configured and      *)
(* where a flag that another thread writes is read again.  A tunnel is     *)
(* what TlsTunnelClient shows of itself: it asks for the network at most   *)
(* once, delivers packets, and closes once.                                *)
(***************************************************************************)
EXTENDS Naturals

CONSTANTS
    MaxConnections,     \* bound on the attempts to connect
    MaxStops            \* bound on the calls of stop

ASSUME Bounds == MaxConnections \in Nat \ {0} /\ MaxStops \in Nat

Generations == 1..(2 * MaxConnections)     \* a retry and a connection count one each

VARIABLES
    rt,         \* the members of the runtime and its pending handlers
    tunnels,    \* the tunnel of a generation: "none", "opening", "up", "stopping", "closed"
    net,        \* the generation whose network is configured, 0 for none
    reader,     \* the packet thread: where it is, and its tunnel
    user        \* where the owner is in stop(), and how often it called

vars == <<rt, tunnels, net, reader, user>>

Fresh ==
    [state_ |-> "Stopped", started_ |-> FALSE, finished_ |-> FALSE,
     intentional_stop_ |-> FALSE, stop_requested_ |-> FALSE, failure_message_ |-> FALSE,
     connection_generation_ |-> 0, reconnect_attempt_ |-> 0, tunnel_ |-> 0,
     interrupt_event_ |-> FALSE,
     io |-> "idle",                                     \* where the I/O thread is
     begin |-> FALSE, resolving |-> {}, connecting |-> {},       \* pending handlers
     connection_timer_ |-> 0, expired |-> {}, reconnect_timer_ |-> "off",
     stops |-> 0, tunnelStops |-> {}, tunnelAborts |-> {}]

Init ==
    /\ rt = Fresh
    /\ tunnels = [g \in Generations |-> "none"]
    /\ net = 0
    /\ reader = [at |-> "none", tunnel |-> 0]
    /\ user = [at |-> "idle", calls |-> 0]
-------------------------------------------------------------------------------
(* The methods, on the value of the runtime.                               *)
transition(r, state) == [r EXCEPT !.state_ = state]

record_failure(r) == [r EXCEPT !.failure_message_ = TRUE]

(* finish_on_io up to the join of the packet thread.                       *)
finish_on_io(r) ==
    IF r.finished_ THEN r
    ELSE [r EXCEPT !.finished_ = TRUE, !.stop_requested_ = TRUE, !.interrupt_event_ = TRUE,
                   !.connection_timer_ = 0, !.io = "finish join"]

\* Mutant: a retry keeps the generation, so that late callbacks still count.
RetrySameGeneration(r) ==
    IF r.finished_ THEN r
    ELSE IF r.stop_requested_ \/ r.intentional_stop_ THEN finish_on_io(r)
    ELSE [r EXCEPT !.connection_timer_ = 0, !.tunnelAborts = @ \cup ({r.tunnel_} \ {0}),
                   !.interrupt_event_ = TRUE, !.io = "retry join"]

(* retry_on_io up to the join of the packet thread.                        *)
retry_on_io(r) ==
    IF r.finished_ THEN r
    ELSE IF r.stop_requested_ \/ r.intentional_stop_ THEN finish_on_io(r)
    ELSE [r EXCEPT !.connection_generation_ = @ + 1, !.connection_timer_ = 0,
                   !.tunnelAborts = @ \cup ({r.tunnel_} \ {0}),
                   !.interrupt_event_ = TRUE, !.io = "retry join"]

begin_connect(r) ==
    IF r.stop_requested_ THEN finish_on_io(r)
    ELSE LET g == r.connection_generation_ + 1
         IN  [transition(r, "Resolving") EXCEPT !.connection_generation_ = g,
                                                !.connection_timer_ = g,
                                                !.resolving = @ \cup {g}]

on_tunnel_closed(r, generation, remote_error, retryable) ==
    IF generation # r.connection_generation_ THEN r
    ELSE IF r.intentional_stop_ \/ r.stop_requested_ THEN finish_on_io(r)
    ELSE LET f == IF remote_error \/ ~retryable THEN record_failure(r) ELSE r
         IN  IF f.failure_message_ THEN finish_on_io(f) ELSE retry_on_io(f)

(* The exponent of next_reconnect_delay stops at 5.  The delay itself is   *)
(* left to the timer, which may expire at any moment.                      *)
NextAttempt(attempt) == IF attempt < 5 THEN attempt + 1 ELSE attempt
-------------------------------------------------------------------------------
(* start, by the owner.                                                    *)
Start ==
    /\ ~rt.started_
    /\ rt' = [transition(rt, "Starting") EXCEPT !.started_ = TRUE, !.begin = TRUE]
    /\ UNCHANGED <<tunnels, net, reader, user>>

Room == rt.connection_generation_ + 2 <= 2 * MaxConnections

RunBegin ==
    /\ rt.io = "idle" /\ rt.begin
    /\ rt' = begin_connect([rt EXCEPT !.begin = FALSE])
    /\ UNCHANGED <<tunnels, net, reader, user>>

(* handle_resolve; in full-tunnel mode the kill switch may fail.           *)
HandleResolve(generation, result) ==
    /\ rt.io = "idle" /\ generation \in rt.resolving
    /\ LET r == [rt EXCEPT !.resolving = @ \ {generation}]
       IN  rt' = IF generation # r.connection_generation_ THEN r
                 ELSE IF r.stop_requested_ THEN finish_on_io(r)
                 ELSE IF result = "error" THEN retry_on_io(r)
                 ELSE IF result = "kill switch fails" THEN finish_on_io(record_failure(r))
                 ELSE [transition(r, "Connecting") EXCEPT !.connecting = @ \cup {generation}]
    /\ UNCHANGED <<tunnels, net, reader, user>>

HandleConnect(generation, result) ==
    /\ rt.io = "idle" /\ generation \in rt.connecting
    /\ LET r == [rt EXCEPT !.connecting = @ \ {generation}]
           current == generation = r.connection_generation_
       IN  IF current /\ ~r.stop_requested_ /\ result = "ok"
           THEN /\ rt' = [r EXCEPT !.tunnel_ = generation]
                /\ tunnels' = [tunnels EXCEPT ![generation] = "opening"]
           ELSE /\ rt' = IF ~current THEN r
                         ELSE IF r.stop_requested_ THEN finish_on_io(r) ELSE retry_on_io(r)
                /\ UNCHANGED tunnels
    /\ UNCHANGED <<net, reader, user>>

(* configure_network up to its check of the stop, as called by the tunnel; *)
(* a tunnel whose owner refuses closes for good.                           *)
HandleAssignment(generation) ==
    /\ rt.io = "idle" /\ tunnels[generation] = "opening"
    /\ IF generation = rt.connection_generation_ /\ ~rt.stop_requested_
       THEN /\ rt' = [transition(rt, "ConfiguringNetwork") EXCEPT !.io = "configure"]
            /\ UNCHANGED tunnels
       ELSE /\ rt' = on_tunnel_closed(rt, generation, FALSE, FALSE)
            /\ tunnels' = [tunnels EXCEPT ![generation] = "closed"]
    /\ UNCHANGED <<net, reader, user>>

(* activate: all of the network, with the interrupt cleared for the new    *)
(* packet session, or nothing of it.                                       *)
Activate(succeeds) ==
    /\ rt.io = "configure"
    /\ LET g == rt.tunnel_
       IN  IF succeeds
           THEN /\ rt' = [rt EXCEPT !.interrupt_event_ = FALSE, !.io = "activated"]
                /\ net' = g
                /\ UNCHANGED tunnels
           ELSE /\ rt' = on_tunnel_closed(record_failure([rt EXCEPT !.io = "idle"]), g, FALSE, FALSE)
                /\ tunnels' = [tunnels EXCEPT ![g] = "closed"]
                /\ UNCHANGED net
    /\ UNCHANGED <<reader, user>>

(* The rest of configure_network.  Cancelling the timer does not take back *)
(* a handler that is queued.  When the packet thread cannot be created the *)
(* exception reaches handle_read of the tunnel, which closes for good.     *)
Connected(threadStarts) ==
    /\ rt.io = "activated"
    /\ LET g == rt.tunnel_
           r == [transition(rt, "Connected") EXCEPT !.reconnect_attempt_ = 0, !.connection_timer_ = 0,
                                                    !.io = "idle"]
       IN  IF threadStarts
           THEN /\ rt' = r
                /\ tunnels' = [tunnels EXCEPT ![g] = "up"]
                /\ reader' = [at |-> "check", tunnel |-> g]
           ELSE /\ rt' = on_tunnel_closed(r, g, FALSE, FALSE)
                /\ tunnels' = [tunnels EXCEPT ![g] = "closed"]
                /\ UNCHANGED reader
    /\ UNCHANGED <<net, user>>

(* deliver_to_packet_device when the adapter refuses the packet of a       *)
(* tunnel; a packet that it takes changes nothing here.                    *)
DeliveryFails(generation) ==
    /\ rt.io = "idle" /\ tunnels[generation] = "up"
    /\ generation = rt.connection_generation_
    /\ rt' = [record_failure(rt) EXCEPT !.stop_requested_ = TRUE, !.interrupt_event_ = TRUE,
                                        !.tunnelStops = @ \cup ({rt.tunnel_} \ {0})]
    /\ UNCHANGED <<tunnels, net, reader, user>>

Open == {"opening", "up", "stopping"}

(* The tunnel closes, for a reason of its own or because it was stopped.   *)
TunnelCloses(generation, remote_error, retryable) ==
    /\ rt.io = "idle" /\ tunnels[generation] \in Open
    /\ rt' = on_tunnel_closed(rt, generation, remote_error, retryable)
    /\ tunnels' = [tunnels EXCEPT ![generation] = "closed"]
    /\ UNCHANGED <<net, reader, user>>

(* The handlers that stop and abort post to the tunnel's strand.           *)
RunTunnelStop(generation) ==
    /\ rt.io = "idle" /\ generation \in rt.tunnelStops
    /\ rt' = [rt EXCEPT !.tunnelStops = @ \ {generation}]
    /\ tunnels' = IF tunnels[generation] \in Open THEN [tunnels EXCEPT ![generation] = "stopping"]
                  ELSE tunnels
    /\ UNCHANGED <<net, reader, user>>

RunTunnelAbort(generation) ==
    /\ rt.io = "idle" /\ generation \in rt.tunnelAborts
    /\ LET r == [rt EXCEPT !.tunnelAborts = @ \ {generation}]
       IN  rt' = IF tunnels[generation] = "closed" THEN r
                 ELSE on_tunnel_closed(r, generation, FALSE, TRUE)
    /\ tunnels' = [tunnels EXCEPT ![generation] = "closed"]
    /\ UNCHANGED <<net, reader, user>>
-------------------------------------------------------------------------------
(* The timers.  A timer that has expired leaves its handler in the queue.  *)
ConnectionTimerExpires ==
    /\ rt.io = "idle" /\ rt.connection_timer_ # 0
    /\ rt' = [rt EXCEPT !.expired = @ \cup {rt.connection_timer_}, !.connection_timer_ = 0]
    /\ UNCHANGED <<tunnels, net, reader, user>>

ConnectionTimerHandler(generation) ==
    /\ rt.io = "idle" /\ generation \in rt.expired
    /\ LET r == [rt EXCEPT !.expired = @ \ {generation}]
       IN  rt' = IF generation = r.connection_generation_ THEN retry_on_io(r) ELSE r
    /\ UNCHANGED <<tunnels, net, reader, user>>

ReconnectTimerExpires ==
    /\ rt.io = "idle" /\ rt.reconnect_timer_ = "armed"
    /\ rt' = [rt EXCEPT !.reconnect_timer_ = "expired"]
    /\ UNCHANGED <<tunnels, net, reader, user>>

ReconnectTimerHandler ==
    /\ rt.io = "idle" /\ rt.reconnect_timer_ \in {"expired", "cancelled"}
    /\ LET r == [rt EXCEPT !.reconnect_timer_ = "off"]
       IN  IF rt.reconnect_timer_ = "expired" /\ ~r.stop_requested_
           THEN Room /\ rt' = begin_connect(r)
           ELSE rt' = IF r.stop_requested_ THEN finish_on_io(r) ELSE r
    /\ UNCHANGED <<tunnels, net, reader, user>>

\* Mutant: a tunnel that is open is not told to stop.
RunStopWaiting ==
    /\ rt.io = "idle" /\ rt.stops > 0
    /\ LET r == [rt EXCEPT !.stops = @ - 1, !.connection_timer_ = 0]
       IN  rt' = IF r.tunnel_ # 0 THEN r ELSE finish_on_io(r)
    /\ UNCHANGED <<tunnels, net, reader, user>>

(* The handler that stop() posts.                                          *)
RunStop ==
    /\ rt.io = "idle" /\ rt.stops > 0
    /\ LET r == [rt EXCEPT !.stops = @ - 1, !.connection_timer_ = 0,
                           !.reconnect_timer_ = IF @ = "armed" THEN "cancelled" ELSE @]
       IN  rt' = IF r.tunnel_ # 0 THEN [r EXCEPT !.tunnelStops = @ \cup {r.tunnel_}]
                 ELSE finish_on_io(r)
    /\ UNCHANGED <<tunnels, net, reader, user>>
-------------------------------------------------------------------------------
\* Mutant: the network is rolled back under a reader that still runs.
JoinNobody == UNCHANGED reader

(* The rest of retry_on_io and finish_on_io: join the reader, if there is  *)
(* one, roll the network back, and wait for the next attempt or end.       *)
Join ==
    /\ reader.at \in {"none", "ended"}
    /\ reader' = [at |-> "none", tunnel |-> 0]

RetryJoined ==
    /\ rt.io = "retry join"
    /\ Join
    /\ net' = 0
    /\ rt' = [transition(rt, "Reconnecting") EXCEPT !.tunnel_ = 0, !.reconnect_timer_ = "armed",
                                                    !.reconnect_attempt_ = NextAttempt(@),
                                                    !.io = "idle"]
    /\ UNCHANGED <<tunnels, user>>

\* Mutant: the routes are left when the runtime ends.
FinishLeavingNetwork ==
    /\ rt.io = "finish join"
    /\ Join
    /\ rt' = [transition(rt, IF rt.intentional_stop_ /\ ~rt.failure_message_ THEN "Stopped" ELSE "Failed")
                 EXCEPT !.tunnel_ = 0, !.io = "ended"]
    /\ UNCHANGED <<tunnels, net, user>>

FinishJoined ==
    /\ rt.io = "finish join"
    /\ Join
    /\ net' = 0
    /\ rt' = [transition(rt, IF rt.intentional_stop_ /\ ~rt.failure_message_ THEN "Stopped" ELSE "Failed")
                 EXCEPT !.tunnel_ = 0, !.io = "ended"]
    /\ UNCHANGED <<tunnels, user>>
-------------------------------------------------------------------------------
(* run_packet_reader.  An interrupt wins over a packet.                    *)
ReaderChecks ==
    /\ reader.at = "check"
    /\ reader' = [reader EXCEPT !.at = IF rt.stop_requested_ THEN "ended" ELSE "receive"]
    /\ UNCHANGED <<rt, tunnels, net, user>>

(* A packet is posted to the tunnel, which drops it unless it is up.       *)
ReaderReceives(result) ==
    /\ reader.at = "receive"
    /\ result = "interrupt" <=> rt.interrupt_event_
    /\ reader' = [reader EXCEPT !.at = CASE result = "interrupt" -> "ended"
                                         [] result = "packet" -> "check"
                                         [] result = "throw" -> "failed"]
    /\ rt' = IF result = "throw" THEN record_failure(rt) ELSE rt
    /\ UNCHANGED <<tunnels, net, user>>

ReaderFails ==
    /\ reader.at = "failed"
    /\ reader' = [reader EXCEPT !.at = "ended"]
    /\ rt' = [rt EXCEPT !.stop_requested_ = TRUE, !.tunnelStops = @ \cup {reader.tunnel}]
    /\ UNCHANGED <<tunnels, net, user>>
-------------------------------------------------------------------------------
(* stop(), by the owner, after its first check.                            *)
Stop ==
    /\ user.at # "idle"
    /\ \/ /\ user.at = "checked" /\ user' = [user EXCEPT !.at = "intended"]
          /\ rt' = [rt EXCEPT !.intentional_stop_ = TRUE]
       \/ /\ user.at = "intended" /\ user' = [user EXCEPT !.at = "requested"]
          /\ rt' = [rt EXCEPT !.stop_requested_ = TRUE]
       \/ /\ user.at = "requested" /\ user' = [user EXCEPT !.at = "announced"]
          /\ rt' = transition(rt, "Stopping")
       \/ /\ user.at = "announced" /\ user' = [user EXCEPT !.at = "idle"]
          /\ rt' = [rt EXCEPT !.interrupt_event_ = TRUE, !.stops = @ + 1]
    /\ UNCHANGED <<tunnels, net, reader>>

CallStop ==
    /\ user.at = "idle" /\ user.calls < MaxStops
    /\ rt.started_ /\ ~rt.finished_
    /\ user' = [at |-> "checked", calls |-> user.calls + 1]
    /\ UNCHANGED <<rt, tunnels, net, reader>>

Handlers ==
    \/ RunBegin
    \/ \E g \in Generations, result \in {"ok", "error", "kill switch fails"} : HandleResolve(g, result)
    \/ \E g \in Generations, result \in {"ok", "error"} : HandleConnect(g, result)
    \/ \E succeeds \in BOOLEAN : Activate(succeeds) \/ Connected(succeeds)
    \/ \E g \in Generations : \/ RunTunnelStop(g) \/ RunTunnelAbort(g)
                              \/ ConnectionTimerHandler(g)
    \/ ReconnectTimerHandler \/ RunStop \/ RetryJoined \/ FinishJoined

Reader ==
    ReaderChecks \/ ReaderFails \/ \E result \in {"interrupt", "packet", "throw"} : ReaderReceives(result)

Environment ==
    \/ Start \/ CallStop \/ ConnectionTimerExpires \/ ReconnectTimerExpires
    \/ \E g \in Generations : HandleAssignment(g) \/ DeliveryFails(g)
    \/ \E g \in Generations, remote_error \in BOOLEAN, retryable \in BOOLEAN :
          TunnelCloses(g, remote_error, retryable)

Next == Handlers \/ Reader \/ Stop \/ Environment

StoppedTunnelCloses ==
    \E g \in Generations : tunnels[g] = "stopping" /\ TunnelCloses(g, FALSE, TRUE)

(* The threads run; a timer expires; a tunnel that is asked to stop closes *)
(* (StopCloses of TlsTunnelClient).  Nothing is assumed of the server, nor *)
(* that a packet ever comes.                                               *)
Fairness ==
    /\ WF_vars(Handlers) /\ WF_vars(RunStop) /\ WF_vars(FinishJoined) /\ WF_vars(RetryJoined)
    /\ WF_vars(\E g \in Generations : RunTunnelStop(g))
    /\ WF_vars(ReconnectTimerHandler) /\ WF_vars(ReconnectTimerExpires)
    /\ WF_vars(ReaderChecks \/ ReaderFails \/ ReaderReceives("interrupt"))
    /\ WF_vars(Stop) /\ WF_vars(StoppedTunnelCloses)

Spec == Init /\ [][Next]_vars /\ Fairness
-------------------------------------------------------------------------------
(* The packet session is never closed under the reader, which waits in     *)
(* receive_packet only while the network of its own tunnel is configured;  *)
(* and the network is configured, and a packet thread started, only when   *)
(* the previous ones are gone: activate would refuse, and assigning to a   *)
(* joinable std::thread would end the process.                             *)
ReaderHasSession ==
    /\ reader.at # "none" => net = reader.tunnel
    /\ rt.io = "configure" => net = 0 /\ reader.at = "none"
    /\ rt.io = "activated" => reader.at = "none"

(* A packet is given to the adapter only for the tunnel that it was        *)
(* configured for: late deliveries of an abandoned tunnel find another     *)
(* generation.                                                             *)
DeliversToOwnNetwork ==
    \A g \in Generations :
        tunnels[g] = "up" /\ g = rt.connection_generation_ /\ rt.io = "idle" => net = g

(* When the I/O thread has ended, nothing of the tunnel is left, neither   *)
(* routes nor the reader, whichever call failed, also the creation of the  *)
(* packet thread after the network was configured; and a runtime that      *)
(* reports a failure knows of one: a stop of the owner, wherever it        *)
(* interrupts the connection, is never taken for a failure.                *)
EndsClean ==
    rt.io = "ended" =>
        /\ net = 0 /\ reader.at = "none" /\ rt.tunnel_ = 0
        /\ rt.state_ = "Failed" => rt.failure_message_

(* A stop of the owner, wherever the runtime is, and a failure that is     *)
(* recorded, on whichever thread and although nobody calls stop, end the   *)
(* I/O thread.                                                             *)
StopEnds == (user.at = "checked" \/ rt.failure_message_) ~> rt.io = "ended"

(* What a test says of a runtime that was stopped and waited for: it is in *)
(* a final state.                                                          *)
FinalStateStays ==
    rt.io = "ended" /\ user.at = "idle" => rt.state_ \in {"Stopped", "Failed"}

(* What the message of the connection timeout says: it comes before the    *)
(* tunnel is established.                                                  *)
TimeoutBeforeTunnel ==
    [][\A g \in rt.expired \ rt'.expired : rt'.io = "retry join" => net = 0]_vars
===============================================================================
