-------------------------- MODULE ClientRuntimeProofs --------------------------
(***************************************************************************)
(* ClientRuntime for any number of connections and of calls of stop(): the *)
(* generation that every callback carries keeps the reader, the network    *)
(* and the tunnel together, whatever arrives late.                         *)
(***************************************************************************)
EXTENDS ClientRuntime, TLAPS

States == {"Stopped", "Starting", "Resolving", "Connecting", "ConfiguringNetwork", "Connected",
           "Reconnecting", "Stopping", "Failed"}
Places == {"idle", "configure", "activated", "retry join", "finish join", "ended"}
Timers == {"off", "armed", "expired", "cancelled"}
Optional == Generations \cup {0}            \* a generation, or none
Sets == SUBSET Nat

Runtimes ==
    [state_ : States, started_ : BOOLEAN, finished_ : BOOLEAN, intentional_stop_ : BOOLEAN,
     stop_requested_ : BOOLEAN, failure_message_ : BOOLEAN, connection_generation_ : Nat,
     reconnect_attempt_ : Nat, tunnel_ : Optional, interrupt_event_ : BOOLEAN,
     io : Places, begin : BOOLEAN, resolving : Sets, connecting : Sets, connection_timer_ : Nat,
     expired : Sets, reconnect_timer_ : Timers, stops : Nat, tunnelStops : Sets, tunnelAborts : Sets]

TypeInv ==
    /\ rt \in Runtimes
    /\ tunnels \in [Generations -> {"none", "opening", "up", "stopping", "closed"}]
    /\ net \in Optional
    /\ reader \in [at : {"none", "check", "receive", "failed", "ended"}, tunnel : Optional]
    /\ user \in [at : {"idle", "checked", "intended", "requested", "announced"}, calls : Nat]

(* A generation is handed out once: what is pending for it, and its        *)
(* tunnel, belong to the present generation or to an earlier one.          *)
Counted(r, t) ==
    /\ \A g \in r.resolving \cup r.connecting \cup r.expired : g <= r.connection_generation_
    /\ \A g \in Generations :
          /\ g > r.connection_generation_ => t[g] = "none"
          /\ g \in r.resolving \cup r.connecting => t[g] = "none"
          /\ g \in r.tunnelAborts => t[g] # "none"
    /\ r.resolving \cap r.connecting = {}
    /\ r.connection_timer_ \in {0, r.connection_generation_}

(* Nothing is under way for the present generation.                        *)
Quiet(r, t) ==
    /\ r.connection_generation_ \notin r.resolving \cup r.connecting \cup r.expired
    /\ r.connection_timer_ = 0
    /\ \A g \in Generations : g = r.connection_generation_ => t[g] = "none"

(* One attempt at a time: while one is still to begin there is none.       *)
Waiting(r, t) ==
    /\ r.begin => r.started_
    /\ r.begin \/ ~r.started_ =>
          r.connection_generation_ = 0 /\ r.reconnect_timer_ = "off" /\ r.io # "retry join"
    /\ r.reconnect_timer_ # "off" => Quiet(r, t) /\ r.tunnel_ = 0
    /\ r.io = "retry join" => Quiet(r, t)

(* tunnel_ is the tunnel of the present generation, from the moment it is  *)
(* connected until the retry or the end that gives it up.                  *)
Current(r, t) ==
    /\ r.tunnel_ # 0 => t[r.tunnel_] # "none"
    /\ r.io # "retry join" => r.tunnel_ \in {0, r.connection_generation_}
    /\ r.io # "ended" => \A g \in Generations :
                            g = r.connection_generation_ /\ t[g] # "none" => r.tunnel_ = g

(* The network is that of tunnel_ and the reader that of the network.      *)
Attached(r, t, n, rd) ==
    /\ n \in {0, r.tunnel_}
    /\ rd.at # "none" => n # 0 /\ rd.tunnel = n
    /\ r.io = "configure" => n = 0 /\ r.tunnel_ # 0 /\ t[r.tunnel_] = "opening"
    /\ r.io = "activated" => n # 0 /\ t[n] = "opening" /\ rd.at = "none"
    /\ r.io = "idle" /\ n # 0 => t[n] # "opening"
    /\ r.io = "idle" /\ r.tunnel_ # 0 => (t[r.tunnel_] = "up" => n = r.tunnel_)

Links(r, t, n, rd) == Counted(r, t) /\ Waiting(r, t) /\ Current(r, t) /\ Attached(r, t, n, rd)

(* Somebody asked for the end, or something failed.                        *)
Explained(r) == r.intentional_stop_ \/ r.failure_message_

(* Whatever ends the runtime is explained.                                 *)
Reasons(r, rd, u) ==
    /\ r.stop_requested_ \/ r.finished_ \/ r.io = "finish join" => Explained(r)
    /\ r.stops > 0 \/ u.at \in {"intended", "requested", "announced"} => r.intentional_stop_
    /\ rd.at = "failed" \/ r.state_ = "Failed" => r.failure_message_

(* Only finish_on_io ends the I/O thread, and it leaves nothing.           *)
Ends(r, n, rd) ==
    /\ r.finished_ => r.io \in {"finish join", "ended"}
    /\ r.io = "finish join" => r.finished_
    /\ r.io = "ended" => r.finished_ /\ n = 0 /\ rd.at = "none" /\ r.tunnel_ = 0

(* The invariant as a predicate of the values, so that it can be stated of *)
(* the runtime in the middle of a handler.                                 *)
Good(r, t, n, rd, u) ==
    r \in Runtimes /\ Links(r, t, n, rd) /\ Reasons(r, rd, u) /\ Ends(r, n, rd)

IInv == TypeInv /\ Good(rt, tunnels, net, reader, user)
-------------------------------------------------------------------------------
(* Generations count from one.                                             *)
LEMMA GenerationFacts == \A g \in Generations : g \in Nat /\ g # 0
PROOF BY DEF Generations

(* What most handlers do to the runtime: they take away a pending handler  *)
(* or a timer, or add a reason to end.                                     *)
Eases(r, f) ==
    /\ f.io = r.io /\ f.tunnel_ = r.tunnel_ /\ f.connection_generation_ = r.connection_generation_
    /\ f.started_ = r.started_ /\ f.finished_ = r.finished_
    /\ f.resolving \subseteq r.resolving /\ f.connecting \subseteq r.connecting
    /\ f.expired \subseteq r.expired /\ f.tunnelAborts \subseteq r.tunnelAborts
    /\ f.connection_timer_ \in {0, r.connection_timer_}
    /\ f.reconnect_timer_ # "off" => r.reconnect_timer_ # "off"
    /\ f.begin => r.begin

(* The reasons to end that a runtime has are kept.                         *)
Justifies(r, f, u) ==
    /\ r.intentional_stop_ => f.intentional_stop_
    /\ r.failure_message_ => f.failure_message_
    /\ f.stop_requested_ => r.stop_requested_ \/ Explained(f)
    /\ f.stops > 0 => r.stops > 0 \/ f.intentional_stop_
    /\ f.state_ = "Failed" => r.state_ = "Failed"
    /\ u.at \in {"intended", "requested", "announced"} => f.intentional_stop_

(* Easing a runtime that ends only for a reason keeps all that is known of *)
(* it.                                                                     *)
LEMMA EaseKeeps ==
    ASSUME NEW r, NEW t, NEW n, NEW rd, NEW u, NEW v, Good(r, t, n, rd, u),
           NEW f \in Runtimes, Eases(r, f), Justifies(r, f, v)
    PROVE  Good(f, t, n, rd, v)
PROOF
<1>1. Counted(f, t)
    <2>1. Counted(r, t) /\ f.connection_generation_ = r.connection_generation_
        BY DEF Good, Links, Eases
    <2>2. /\ f.resolving \subseteq r.resolving /\ f.connecting \subseteq r.connecting
          /\ f.expired \subseteq r.expired /\ f.tunnelAborts \subseteq r.tunnelAborts
          /\ f.connection_timer_ \in {0, r.connection_timer_}
        BY DEF Eases
    <2> QED BY <2>1, <2>2 DEF Counted
<1>2. Quiet(r, t) => Quiet(f, t)
    BY DEF Eases, Quiet
<1>3. Waiting(f, t)
    BY <1>2 DEF Good, Links, Eases, Waiting
<1>4. Current(f, t) /\ Attached(f, t, n, rd)
    BY DEF Good, Links, Eases, Current, Attached
<1>5. Reasons(f, rd, v)
    BY DEF Good, Eases, Justifies, Reasons, Explained
<1>6. Ends(f, n, rd)
    BY DEF Good, Eases, Ends
<1> QED BY <1>1, <1>3, <1>4, <1>5, <1>6 DEF Good, Links

(* A tunnel that exists closes or is asked to.                             *)
LEMMA TunnelKeeps ==
    ASSUME NEW r, NEW n, NEW rd, NEW u, NEW g \in Generations,
           NEW t \in [Generations -> {"none", "opening", "up", "stopping", "closed"}],
           Good(r, t, n, rd, u), r.io = "idle", t[g] # "none",
           NEW place \in {"stopping", "closed"}
    PROVE  Good(r, [t EXCEPT ![g] = place], n, rd, u)
PROOF
<1> DEFINE s == [t EXCEPT ![g] = place]
<1>1. \A h \in Generations : s[h] = "none" <=> t[h] = "none"
    OBVIOUS
<1>2. \A h \in Generations : s[h] \in {t[h], place}
    OBVIOUS
<1>3. r.tunnel_ # 0 => r.tunnel_ \in Generations
    BY DEF Good, Runtimes, Optional
<1> HIDE DEF s
<1>4. Counted(r, s)
    BY <1>1 DEF Good, Links, Counted
<1>5. Waiting(r, s)
    BY <1>1 DEF Good, Links, Waiting, Quiet
<1>6. Current(r, s)
    BY <1>1, <1>3 DEF Good, Links, Current
<1>7. Attached(r, s, n, rd)
    BY <1>1, <1>2, <1>3 DEF Good, Links, Attached
<1> QED BY <1>4, <1>5, <1>6, <1>7 DEF Good, Links, s

(* record_failure.                                                         *)
LEMMA FailureKeeps ==
    ASSUME NEW r, NEW t, NEW n, NEW rd, NEW u, Good(r, t, n, rd, u)
    PROVE  /\ Good(record_failure(r), t, n, rd, u)
           /\ record_failure(r).io = r.io /\ record_failure(r).failure_message_ = TRUE
           /\ record_failure(r).connection_generation_ = r.connection_generation_
PROOF
<1> DEFINE f == record_failure(r)
<1>1. f = [r EXCEPT !.failure_message_ = TRUE]
    BY DEF record_failure
<1> HIDE DEF f
<1>2. r \in Runtimes
    BY DEF Good
<1>3. f \in Runtimes /\ f.failure_message_ = TRUE
    BY <1>1, <1>2 DEF Runtimes
<1>4. Eases(r, f)
    BY <1>1, <1>2 DEF Runtimes, Eases
<1>5. Justifies(r, f, u)
    BY <1>1, <1>2 DEF Runtimes, Justifies, Explained, Good, Reasons
<1>6. Good(f, t, n, rd, u)
    BY <1>3, <1>4, <1>5, EaseKeeps
<1> QED BY <1>3, <1>4, <1>6 DEF Eases, f

(* finish_on_io may be called wherever the end has a reason.               *)
LEMMA FinishKeeps ==
    ASSUME NEW r, NEW t, NEW n, NEW rd, NEW u, Good(r, t, n, rd, u), r.io = "idle", Explained(r)
    PROVE  Good(finish_on_io(r), t, n, rd, u)
PROOF
<1> DEFINE f == finish_on_io(r)
<1>1. CASE r.finished_
    BY <1>1 DEF finish_on_io
<1>2. CASE ~r.finished_
    <2>1. f = [r EXCEPT !.finished_ = TRUE, !.stop_requested_ = TRUE, !.interrupt_event_ = TRUE,
                        !.connection_timer_ = 0, !.io = "finish join"]
        BY <1>2 DEF finish_on_io
    <2> HIDE DEF f
    <2>2. r \in Runtimes
        BY DEF Good
    <2>3. f \in Runtimes
        <3>1. "finish join" \in Places
            BY DEF Places
        <3> QED BY <2>1, <2>2, <3>1 DEF Runtimes
    <2>4. /\ f.finished_ = TRUE /\ f.stop_requested_ = TRUE /\ f.connection_timer_ = 0 /\ f.io = "finish join"
          /\ f.state_ = r.state_ /\ f.started_ = r.started_ /\ f.begin = r.begin
          /\ f.intentional_stop_ = r.intentional_stop_ /\ f.failure_message_ = r.failure_message_
          /\ f.connection_generation_ = r.connection_generation_ /\ f.tunnel_ = r.tunnel_
          /\ f.resolving = r.resolving /\ f.connecting = r.connecting /\ f.expired = r.expired
          /\ f.reconnect_timer_ = r.reconnect_timer_ /\ f.stops = r.stops
          /\ f.tunnelAborts = r.tunnelAborts
        BY <2>1, <2>2 DEF Runtimes
    <2>5. Counted(f, t)
        BY <2>4 DEF Good, Links, Counted
    <2>8. Waiting(f, t)
        BY <2>4 DEF Good, Links, Waiting, Quiet
    <2>6. Current(f, t) /\ Attached(f, t, n, rd)
        BY <2>4 DEF Good, Links, Current, Attached
    <2>7. Reasons(f, rd, u) /\ Ends(f, n, rd)
        BY <2>4 DEF Good, Reasons, Ends, Explained
    <2> QED BY <2>3, <2>5, <2>6, <2>7, <2>8 DEF Good, Links, f
<1> QED BY <1>1, <1>2

(* retry_on_io gives up the generation: what still comes for it is late.   *)
LEMMA RetryKeeps ==
    ASSUME NEW r, NEW t, NEW n, NEW rd, NEW u, Good(r, t, n, rd, u), r.io = "idle",
           r.connection_generation_ # 0
    PROVE  Good(retry_on_io(r), t, n, rd, u)
PROOF
<1> DEFINE f == retry_on_io(r)
<1>1. CASE r.finished_
    BY <1>1 DEF retry_on_io
<1>2. CASE ~r.finished_ /\ (r.stop_requested_ \/ r.intentional_stop_)
    <2>1. Explained(r)
        BY <1>2 DEF Good, Reasons, Explained
    <2> QED BY <1>2, <2>1, FinishKeeps DEF retry_on_io
<1>3. CASE ~r.finished_ /\ ~r.stop_requested_ /\ ~r.intentional_stop_
    <2>1. f = [r EXCEPT !.connection_generation_ = r.connection_generation_ + 1, !.connection_timer_ = 0,
                        !.tunnelAborts = r.tunnelAborts \cup ({r.tunnel_} \ {0}),
                        !.interrupt_event_ = TRUE, !.io = "retry join"]
        BY <1>3 DEF retry_on_io
    <2> HIDE DEF f
    <2>2. r \in Runtimes
        BY DEF Good
    <2>3. r.connection_generation_ \in Nat /\ r.tunnel_ \in Optional /\ r.tunnelAborts \in Sets
        BY <2>2 DEF Runtimes
    <2>4. f \in Runtimes
        <3>1. "retry join" \in Places /\ r.connection_generation_ + 1 \in Nat
            BY <2>3 DEF Places
        <3>2. r.tunnelAborts \cup ({r.tunnel_} \ {0}) \in Sets
            BY <2>3 DEF Sets, Optional, Generations
        <3> QED BY <2>1, <2>2, <3>1, <3>2 DEF Runtimes
    <2>5. /\ f.connection_timer_ = 0 /\ f.io = "retry join"
          /\ f.connection_generation_ = r.connection_generation_ + 1
          /\ f.tunnelAborts = r.tunnelAborts \cup ({r.tunnel_} \ {0})
          /\ f.finished_ = r.finished_ /\ f.stop_requested_ = r.stop_requested_
          /\ f.state_ = r.state_ /\ f.started_ = r.started_ /\ f.begin = r.begin
          /\ f.intentional_stop_ = r.intentional_stop_ /\ f.failure_message_ = r.failure_message_
          /\ f.resolving = r.resolving /\ f.connecting = r.connecting /\ f.expired = r.expired
          /\ f.reconnect_timer_ = r.reconnect_timer_ /\ f.stops = r.stops /\ f.tunnel_ = r.tunnel_
        BY <2>1, <2>2 DEF Runtimes
    <2>6. /\ r.resolving \in SUBSET Nat /\ r.connecting \in SUBSET Nat /\ r.expired \in SUBSET Nat
          /\ Generations \in SUBSET Nat
        BY <2>2 DEF Runtimes, Sets, Generations
    <2>7. Counted(r, t) /\ Waiting(r, t) /\ Current(r, t) /\ Attached(r, t, n, rd)
        BY DEF Good, Links
    <2>15. f.connection_generation_ = r.connection_generation_ + 1
        BY <2>5
    <2>16. f.resolving = r.resolving /\ f.connecting = r.connecting /\ f.expired = r.expired
        BY <2>5
    <2>8. /\ \A g \in Nat : g <= r.connection_generation_ =>
                               g <= f.connection_generation_ /\ g # f.connection_generation_
          /\ \A g \in Nat : g > f.connection_generation_ \/ g = f.connection_generation_ =>
                               g > r.connection_generation_
        BY <2>3, <2>15
    <2>9. \A g \in Generations :
              g > f.connection_generation_ \/ g = f.connection_generation_ => t[g] = "none"
        BY <2>6, <2>7, <2>8 DEF Counted
    <2>10. Counted(f, t)
        <3>1. \A g \in f.resolving \cup f.connecting \cup f.expired : g <= f.connection_generation_
            BY <2>6, <2>7, <2>8, <2>16 DEF Counted
        <3>2. \A g \in Generations : g > f.connection_generation_ => t[g] = "none"
            BY <2>9
        <3>3. \A g \in Generations : g \in f.tunnelAborts => t[g] # "none"
            BY <2>5, <2>7 DEF Counted, Current
        <3> QED BY <2>5, <2>7, <3>1, <3>2, <3>3 DEF Counted
    <2>11. Quiet(f, t)
        <3>1. f.connection_generation_ \notin f.resolving \cup f.connecting \cup f.expired
            BY <2>6, <2>7, <2>8, <2>16 DEF Counted
        <3>2. \A g \in Generations : g = f.connection_generation_ => t[g] = "none"
            BY <2>9
        <3> QED BY <2>5, <3>1, <3>2 DEF Quiet
    <2>12. Waiting(f, t)
        BY <2>5, <2>7, <2>11 DEF Waiting
    <2>13. Current(f, t) /\ Attached(f, t, n, rd)
        BY <2>5, <2>7, <2>11 DEF Current, Attached, Quiet
    <2>14. Reasons(f, rd, u) /\ Ends(f, n, rd)
        BY <1>3, <2>5 DEF Good, Reasons, Ends, Explained
    <2> QED BY <2>4, <2>10, <2>12, <2>13, <2>14 DEF Good, Links, f
<1> QED BY <1>1, <1>2, <1>3

(* The close handler of a tunnel, that of an abandoned one included.       *)
LEMMA ClosedKeeps ==
    ASSUME NEW r, NEW t, NEW n, NEW rd, NEW u, Good(r, t, n, rd, u), r.io = "idle",
           NEW g \in Generations, NEW remote_error \in BOOLEAN, NEW retryable \in BOOLEAN
    PROVE  Good(on_tunnel_closed(r, g, remote_error, retryable), t, n, rd, u)
PROOF
<1> DEFINE f == IF remote_error \/ ~retryable THEN record_failure(r) ELSE r
<1>1. CASE g # r.connection_generation_
    BY <1>1 DEF on_tunnel_closed
<1>2. CASE g = r.connection_generation_ /\ (r.intentional_stop_ \/ r.stop_requested_)
    <2>1. Explained(r)
        BY <1>2 DEF Good, Reasons, Explained
    <2> QED BY <1>2, <2>1, FinishKeeps DEF on_tunnel_closed
<1>3. CASE g = r.connection_generation_ /\ ~(r.intentional_stop_ \/ r.stop_requested_)
    <2>4. r.connection_generation_ # 0
        BY <1>3, GenerationFacts
    <2>1. Good(f, t, n, rd, u) /\ f.io = "idle" /\ f.connection_generation_ # 0
        BY <2>4, FailureKeeps
    <2>2. Good(finish_on_io(f), t, n, rd, u) \/ ~f.failure_message_
        BY <2>1, FinishKeeps DEF Explained
    <2>3. Good(retry_on_io(f), t, n, rd, u)
        BY <2>1, RetryKeeps
    <2> QED BY <1>3, <2>2, <2>3 DEF on_tunnel_closed
<1> QED BY <1>1, <1>2, <1>3

(* begin_connect starts a generation of its own, when nothing else runs.   *)
LEMMA BeginKeeps ==
    ASSUME NEW r, NEW t, NEW n, NEW rd, NEW u, Good(r, t, n, rd, u), r.io = "idle",
           r.started_, ~r.begin, r.reconnect_timer_ = "off", r.tunnel_ = 0
    PROVE  Good(begin_connect(r), t, n, rd, u)
PROOF
<1> DEFINE f == begin_connect(r)
           c == r.connection_generation_ + 1
<1>1. CASE r.stop_requested_
    <2>1. Explained(r)
        BY <1>1 DEF Good, Reasons, Explained
    <2> QED BY <1>1, <2>1, FinishKeeps DEF begin_connect
<1>2. CASE ~r.stop_requested_
    <2>1. f = [r EXCEPT !.state_ = "Resolving", !.connection_generation_ = c, !.connection_timer_ = c,
                        !.resolving = r.resolving \cup {c}]
        BY <1>2 DEF begin_connect, transition, Good, Runtimes
    <2> HIDE DEF f
    <2>2. r \in Runtimes
        BY DEF Good
    <2>3. r.connection_generation_ \in Nat /\ r.resolving \in Sets
        BY <2>2 DEF Runtimes
    <2>4. f \in Runtimes
        <3>1. "Resolving" \in States /\ c \in Nat /\ r.resolving \cup {c} \in Sets
            BY <2>3 DEF States, Sets
        <3> QED BY <2>1, <2>2, <3>1 DEF Runtimes
    <2>5. f.connection_generation_ = c /\ f.connection_timer_ = c /\ f.resolving = r.resolving \cup {c}
        BY <2>1, <2>2 DEF Runtimes
    <2>6. /\ f.io = "idle" /\ f.state_ = "Resolving" /\ f.started_ = r.started_ /\ f.begin = r.begin
          /\ f.tunnelAborts = r.tunnelAborts /\ f.connecting = r.connecting /\ f.expired = r.expired
          /\ f.finished_ = r.finished_ /\ f.stop_requested_ = r.stop_requested_
          /\ f.intentional_stop_ = r.intentional_stop_ /\ f.failure_message_ = r.failure_message_
          /\ f.reconnect_timer_ = r.reconnect_timer_ /\ f.stops = r.stops /\ f.tunnel_ = r.tunnel_
        BY <2>1, <2>2 DEF Runtimes
    <2>7. /\ r.resolving \in SUBSET Nat /\ r.connecting \in SUBSET Nat /\ r.expired \in SUBSET Nat
          /\ Generations \in SUBSET Nat
        BY <2>2 DEF Runtimes, Sets, Generations
    <2>8. Counted(r, t) /\ Waiting(r, t) /\ Current(r, t) /\ Attached(r, t, n, rd)
        BY DEF Good, Links
    <2>9. /\ \A g \in Nat : g <= r.connection_generation_ => g <= c /\ g # c
          /\ \A g \in Nat : g > c \/ g = c => g > r.connection_generation_
          /\ c <= c
        BY <2>3
    <2> HIDE DEF c
    <2>10. \A g \in Generations : g > c \/ g = c => t[g] = "none"
        BY <2>7, <2>8, <2>9 DEF Counted
    <2>11. Counted(f, t)
        <3>1. f.connecting = r.connecting /\ f.expired = r.expired /\ f.tunnelAborts = r.tunnelAborts
            BY <2>6
        <3>2. \A g \in f.resolving \cup f.connecting \cup f.expired : g <= f.connection_generation_
            BY <2>5, <2>7, <2>8, <2>9, <3>1 DEF Counted
        <3>3. \A g \in Generations : g > f.connection_generation_ => t[g] = "none"
            BY <2>5, <2>10
        <3>4. \A g \in Generations :
                 /\ g \in f.resolving \cup f.connecting => t[g] = "none"
                 /\ g \in f.tunnelAborts => t[g] # "none"
            BY <2>5, <2>8, <2>10, <3>1 DEF Counted
        <3>5. f.resolving \cap f.connecting = {}
            BY <2>5, <2>7, <2>8, <2>9, <3>1 DEF Counted
        <3> QED BY <2>5, <3>2, <3>3, <3>4, <3>5 DEF Counted
    <2>12. Waiting(f, t)
        BY <2>6, <2>8 DEF Waiting
    <2>13. Current(f, t) /\ Attached(f, t, n, rd)
        BY <2>5, <2>6, <2>8, <2>10 DEF Current, Attached
    <2>14. Reasons(f, rd, u) /\ Ends(f, n, rd)
        BY <2>6 DEF Good, Reasons, Ends, Explained
    <2> QED BY <2>4, <2>11, <2>12, <2>13, <2>14 DEF Good, Links, f
<1> QED BY <1>1, <1>2
-------------------------------------------------------------------------------
(* What an action that leaves the user, the reader and the network alone   *)
(* has to show.                                                            *)
LEMMA RuntimeStep ==
    ASSUME IInv, UNCHANGED <<tunnels, net, reader, user>>, Good(rt', tunnels, net, reader, user)
    PROVE  IInv'
PROOF BY DEF IInv, TypeInv, Good

(* A handler takes itself off and goes on with the runtime it finds.       *)
LEMMA HandlerTaken ==
    ASSUME IInv, NEW f \in Runtimes, Eases(rt, f), Justifies(rt, f, user)
    PROVE  Good(f, tunnels, net, reader, user)
PROOF BY EaseKeeps DEF IInv

(* start posts the first attempt; there was none before.                   *)
LEMMA StartStep == IInv /\ Start => IInv'
PROOF
<1> SUFFICES ASSUME IInv, Start PROVE IInv'
    OBVIOUS
<1>1. rt \in Runtimes /\ "Starting" \in States
    BY DEF IInv, TypeInv, States
<1>2. /\ rt' = [rt EXCEPT !.state_ = "Starting", !.started_ = TRUE, !.begin = TRUE]
      /\ UNCHANGED <<tunnels, net, reader, user>> /\ ~rt.started_
    BY <1>1 DEF Start, transition, Runtimes
<1>3. rt' \in Runtimes
    BY <1>1, <1>2 DEF Runtimes
<1>4. /\ rt'.started_ = TRUE /\ rt'.begin = TRUE /\ rt'.state_ = "Starting"
      /\ rt'.io = rt.io /\ rt'.connection_generation_ = rt.connection_generation_
      /\ rt'.connection_timer_ = rt.connection_timer_ /\ rt'.tunnelAborts = rt.tunnelAborts
      /\ rt'.resolving = rt.resolving /\ rt'.connecting = rt.connecting /\ rt'.expired = rt.expired
      /\ rt'.finished_ = rt.finished_ /\ rt'.stop_requested_ = rt.stop_requested_
      /\ rt'.intentional_stop_ = rt.intentional_stop_ /\ rt'.failure_message_ = rt.failure_message_
      /\ rt'.reconnect_timer_ = rt.reconnect_timer_ /\ rt'.stops = rt.stops /\ rt'.tunnel_ = rt.tunnel_
    BY <1>1, <1>2 DEF Runtimes
<1>5. Links(rt', tunnels, net, reader)
    <2>1. Counted(rt', tunnels)
        BY <1>4 DEF IInv, Good, Links, Counted
    <2>2. Waiting(rt', tunnels)
        BY <1>2, <1>4 DEF IInv, Good, Links, Waiting, Quiet
    <2>3. Current(rt', tunnels) /\ Attached(rt', tunnels, net, reader)
        BY <1>4 DEF IInv, Good, Links, Current, Attached
    <2> QED BY <2>1, <2>2, <2>3 DEF Links
<1>6. Reasons(rt', reader, user) /\ Ends(rt', net, reader)
    BY <1>4 DEF IInv, Good, Reasons, Ends, Explained
<1> QED BY <1>2, <1>3, <1>5, <1>6, RuntimeStep DEF Good

(* The handler that start posts begins the first generation.               *)
LEMMA RunBeginStep == IInv /\ RunBegin => IInv'
PROOF
<1> SUFFICES ASSUME IInv, RunBegin PROVE IInv'
    OBVIOUS
<1> DEFINE r == [rt EXCEPT !.begin = FALSE]
<1>1. rt \in Runtimes
    BY DEF IInv, TypeInv
<1>2. r \in Runtimes /\ Eases(rt, r) /\ Justifies(rt, r, user)
    BY <1>1 DEF Runtimes, Eases, Justifies, IInv, Good, Reasons
<1>3. /\ r.io = "idle" /\ r.begin = FALSE /\ r.started_ = rt.started_ /\ r.tunnel_ = rt.tunnel_
      /\ r.reconnect_timer_ = rt.reconnect_timer_
    BY <1>1 DEF Runtimes, RunBegin
<1>4. rt' = begin_connect(r) /\ rt.begin /\ UNCHANGED <<tunnels, net, reader, user>>
    BY DEF RunBegin
<1> HIDE DEF r
<1>5. rt.started_ /\ rt.reconnect_timer_ = "off" /\ rt.tunnel_ = 0
    BY <1>3, <1>4 DEF IInv, Good, Links, Waiting, Current, RunBegin
<1>6. Good(begin_connect(r), tunnels, net, reader, user)
    BY <1>2, <1>3, <1>5, HandlerTaken, BeginKeeps
<1> QED BY <1>4, <1>6, RuntimeStep

(* handle_resolve: the resolution of an abandoned generation does nothing, *)
(* that of the present one goes on to connect, retries or ends.            *)
LEMMA HandleResolveStep ==
    ASSUME IInv, NEW g \in Generations, NEW result \in {"ok", "error", "kill switch fails"},
           HandleResolve(g, result)
    PROVE  IInv'
PROOF
<1> DEFINE r == [rt EXCEPT !.resolving = rt.resolving \ {g}]
           q == [r EXCEPT !.state_ = "Connecting", !.connecting = r.connecting \cup {g}]
<1>1. rt \in Runtimes
    BY DEF IInv, TypeInv
<1>2. r \in Runtimes /\ Eases(rt, r) /\ Justifies(rt, r, user) /\ r.resolving = rt.resolving \ {g}
    <2>1. rt.resolving \ {g} \in Sets
        BY <1>1 DEF Runtimes, Sets
    <2> QED BY <1>1, <2>1 DEF Runtimes, Eases, Justifies, IInv, Good, Reasons
<1>3. rt' = IF g # r.connection_generation_ THEN r
            ELSE IF r.stop_requested_ THEN finish_on_io(r)
            ELSE IF result = "error" THEN retry_on_io(r)
            ELSE IF result = "kill switch fails" THEN finish_on_io(record_failure(r)) ELSE q
    BY <1>1 DEF HandleResolve, transition, Runtimes
<1>4. g \in rt.resolving /\ r.io = "idle" /\ UNCHANGED <<tunnels, net, reader, user>>
    BY <1>1 DEF HandleResolve, Runtimes
<1> HIDE DEF r
<1>5. Good(r, tunnels, net, reader, user)
    BY <1>2, HandlerTaken
<1>6. ASSUME g = r.connection_generation_, r.stop_requested_
      PROVE  Good(finish_on_io(r), tunnels, net, reader, user)
    BY <1>4, <1>5, <1>6, FinishKeeps DEF Good, Reasons
<1>7. ASSUME g = r.connection_generation_
      PROVE  /\ Good(retry_on_io(r), tunnels, net, reader, user)
             /\ Good(finish_on_io(record_failure(r)), tunnels, net, reader, user)
    <2>1. r.connection_generation_ # 0
        BY <1>7, GenerationFacts
    <2>2. Explained(record_failure(r))
        BY <1>5, FailureKeeps DEF Explained
    <2> QED BY <1>4, <1>5, <2>1, <2>2, RetryKeeps, FailureKeeps, FinishKeeps
<1>8. ASSUME g = r.connection_generation_
      PROVE  Good(q, tunnels, net, reader, user)
    <2>1. r.connecting \cup {g} \in Sets /\ "Connecting" \in States
        BY <1>2, GenerationFacts DEF Runtimes, Sets, States
    <2>2. q \in Runtimes
        BY <1>2, <2>1 DEF Runtimes
    <2>3. q.connecting = r.connecting \cup {g}
        BY <1>2 DEF Runtimes
    <2>4. /\ q.state_ = "Connecting" /\ q.started_ = r.started_ /\ q.begin = r.begin
          /\ q.io = r.io /\ q.connection_generation_ = r.connection_generation_
          /\ q.connection_timer_ = r.connection_timer_ /\ q.tunnelAborts = r.tunnelAborts
          /\ q.resolving = r.resolving /\ q.expired = r.expired
          /\ q.finished_ = r.finished_ /\ q.stop_requested_ = r.stop_requested_
          /\ q.intentional_stop_ = r.intentional_stop_ /\ q.failure_message_ = r.failure_message_
          /\ q.reconnect_timer_ = r.reconnect_timer_ /\ q.stops = r.stops /\ q.tunnel_ = r.tunnel_
        BY <1>2 DEF Runtimes
    <2> HIDE DEF q
    <2>5. tunnels[g] = "none" /\ g <= r.connection_generation_
        <3>1. Counted(rt, tunnels) /\ g \in rt.resolving /\ rt.connection_generation_ = r.connection_generation_
            BY <1>2, <1>4 DEF IInv, Good, Links, Eases
        <3> QED BY <3>1 DEF Counted
    <2>6. Counted(q, tunnels)
        <3>1. g \notin r.resolving /\ Counted(r, tunnels)
            BY <1>2, <1>5 DEF Good, Links
        <3>2. q.connection_generation_ = r.connection_generation_ /\ q.resolving = r.resolving /\ q.expired = r.expired
            BY <2>4
        <3>3. q.connection_timer_ = r.connection_timer_ /\ q.tunnelAborts = r.tunnelAborts
            BY <2>4
        <3>4. \A h \in q.resolving \cup q.connecting \cup q.expired : h <= q.connection_generation_
            BY <2>3, <2>5, <3>1, <3>2 DEF Counted
        <3> QED BY <2>3, <2>5, <3>1, <3>2, <3>3, <3>4 DEF Counted
    <2>7. Waiting(q, tunnels)
        <3>1. ~Quiet(rt, tunnels)
            BY <1>2, <1>4, <1>8 DEF Quiet, Eases
        <3>2. rt.connection_generation_ # 0
            BY <1>2, <1>8, GenerationFacts DEF Eases
        <3>3. /\ rt.reconnect_timer_ = "off" /\ rt.io = "idle" /\ ~rt.begin /\ rt.started_
            BY <1>2, <1>4, <3>1, <3>2 DEF IInv, Good, Links, Waiting, Eases
        <3> QED BY <1>2, <2>4, <3>3 DEF Eases, Waiting
    <2>8. Current(q, tunnels) /\ Attached(q, tunnels, net, reader)
        BY <1>5, <2>4 DEF Good, Links, Current, Attached
    <2>9. Reasons(q, reader, user) /\ Ends(q, net, reader)
        BY <1>5, <2>4 DEF Good, Reasons, Ends, Explained
    <2> QED BY <2>2, <2>6, <2>7, <2>8, <2>9 DEF Good, Links
<1> HIDE DEF q
<1>9. Good(rt', tunnels, net, reader, user)
    BY <1>3, <1>5, <1>6, <1>7, <1>8
<1> QED BY <1>4, <1>9, RuntimeStep

(* The steps of an attempt: only the place, the state and tunnel_ change.  *)
Proceeds(r, f) ==
    /\ f.connection_generation_ = r.connection_generation_ /\ f.tunnelAborts = r.tunnelAborts
    /\ f.resolving = r.resolving /\ f.connecting = r.connecting /\ f.expired = r.expired
    /\ f.connection_timer_ \in {0, r.connection_timer_}
    /\ f.started_ = r.started_ /\ f.begin = r.begin /\ f.finished_ = r.finished_
    /\ f.reconnect_timer_ = r.reconnect_timer_ /\ f.stops = r.stops
    /\ f.stop_requested_ = r.stop_requested_ /\ f.intentional_stop_ = r.intentional_stop_
    /\ r.failure_message_ => f.failure_message_
    /\ f.io \in {"idle", "configure", "activated", "ended"} /\ (f.state_ = "Failed" => r.state_ = "Failed")

(* Such a step leaves the handlers and the reasons as they are.            *)
LEMMA ProceedsKeeps ==
    ASSUME NEW r, NEW t, NEW n, NEW rd, NEW u, Good(r, t, n, rd, u), NEW f, Proceeds(r, f),
           r.io # "retry join"
    PROVE  Counted(f, t) /\ Reasons(f, rd, u) /\ (Quiet(r, t) => Quiet(f, t))
PROOF
<1>1. Counted(f, t)
    <2>1. Counted(r, t) /\ f.connection_generation_ = r.connection_generation_
        BY DEF Good, Links, Proceeds
    <2>2. /\ f.resolving = r.resolving /\ f.connecting = r.connecting
          /\ f.expired = r.expired /\ f.tunnelAborts = r.tunnelAborts
          /\ f.connection_timer_ \in {0, r.connection_timer_}
        BY DEF Proceeds
    <2> QED BY <2>1, <2>2 DEF Counted
<1>2. Reasons(f, rd, u)
    BY DEF Good, Proceeds, Reasons, Explained
<1> QED BY <1>1, <1>2 DEF Proceeds, Quiet

(* handle_connect: only the connection of the present generation becomes   *)
(* tunnel_.                                                                *)
LEMMA HandleConnectStep ==
    ASSUME IInv, NEW g \in Generations, NEW result \in {"ok", "error"}, HandleConnect(g, result)
    PROVE  IInv'
PROOF
<1> DEFINE r == [rt EXCEPT !.connecting = rt.connecting \ {g}]
           q == [r EXCEPT !.tunnel_ = g]
           s == [tunnels EXCEPT ![g] = "opening"]
<1>1. rt \in Runtimes /\ tunnels \in [Generations -> {"none", "opening", "up", "stopping", "closed"}]
    BY DEF IInv, TypeInv
<1>2. r \in Runtimes /\ Eases(rt, r) /\ Justifies(rt, r, user) /\ r.connecting = rt.connecting \ {g}
    <2>1. rt.connecting \ {g} \in Sets
        BY <1>1 DEF Runtimes, Sets
    <2> QED BY <1>1, <2>1 DEF Runtimes, Eases, Justifies, IInv, Good, Reasons
<1>3. /\ g \in rt.connecting /\ r.io = "idle" /\ UNCHANGED <<net, reader, user>>
      /\ \/ /\ g = r.connection_generation_ /\ rt' = q /\ tunnels' = s
         \/ /\ rt' = IF g # r.connection_generation_ THEN r
                     ELSE IF r.stop_requested_ THEN finish_on_io(r) ELSE retry_on_io(r)
            /\ UNCHANGED tunnels
    BY <1>1 DEF HandleConnect, Runtimes
<1> HIDE DEF r
<1>4. Good(r, tunnels, net, reader, user)
    BY <1>2, HandlerTaken
<1>5. ASSUME g = r.connection_generation_, r.stop_requested_
      PROVE  Good(finish_on_io(r), tunnels, net, reader, user)
    BY <1>3, <1>4, <1>5, FinishKeeps DEF Good, Reasons
<1>6. ASSUME g = r.connection_generation_
      PROVE  Good(retry_on_io(r), tunnels, net, reader, user)
    BY <1>3, <1>4, <1>6, GenerationFacts, RetryKeeps
<1>7. ASSUME g = r.connection_generation_
      PROVE  Good(q, s, net, reader, user)
    <2>1. g \in Optional
        BY DEF Optional
    <2>2. q \in Runtimes /\ Proceeds(r, q) /\ q.io = "idle" /\ q.tunnel_ = g
        BY <1>2, <1>3, <2>1 DEF Runtimes, Proceeds
    <2>3. /\ s[g] = "opening" /\ \A h \in Generations : h # g => s[h] = tunnels[h]
        BY <1>1
    <2> HIDE DEF q, s
    <2>4. /\ tunnels[g] = "none" /\ g \notin r.resolving /\ g \notin r.connecting
          /\ g \notin r.tunnelAborts /\ r.connection_generation_ = rt.connection_generation_
        <3>1. Counted(rt, tunnels) /\ Counted(r, tunnels) /\ r.resolving \subseteq rt.resolving
            BY <1>2, <1>4 DEF IInv, Good, Links, Eases
        <3> QED BY <1>2, <1>3, <3>1 DEF Counted, Eases
    <2>5. r.tunnel_ = 0 /\ net = 0 /\ reader.at = "none"
        <3>1. Current(r, tunnels) /\ Attached(r, tunnels, net, reader)
            BY <1>4 DEF Good, Links
        <3> QED BY <1>3, <1>7, <2>4, <3>1 DEF Current, Attached
    <2>6. Counted(q, tunnels) /\ Reasons(q, reader, user)
        BY <1>3, <1>4, <2>2, ProceedsKeeps
    <2>7. q.connection_generation_ = g /\ ~(g > g)
        BY <1>7, <2>2, GenerationFacts DEF Proceeds
    <2>8. Counted(q, s)
        <3>1. g \notin q.resolving \cup q.connecting
            BY <2>2, <2>4 DEF Proceeds
        <3> QED BY <2>3, <2>6, <2>7, <3>1 DEF Counted
    <2>9. Waiting(q, s)
        <3>1. ~Quiet(rt, tunnels)
            BY <1>3, <1>7, <2>4 DEF Quiet
        <3>2. rt.reconnect_timer_ = "off" /\ ~rt.begin /\ rt.started_
            BY <1>2, <1>3, <1>7, <2>4, <3>1, GenerationFacts DEF IInv, Good, Links, Waiting
        <3>3. q.reconnect_timer_ = "off" /\ ~q.begin /\ q.started_
            BY <1>2, <2>2, <3>2 DEF Eases, Proceeds
        <3> QED BY <2>2, <3>3 DEF Waiting
    <2>10. Current(q, s)
        BY <2>2, <2>3, <2>7 DEF Current
    <2>11. Attached(q, s, net, reader)
        BY <2>2, <2>3, <2>5 DEF Attached
    <2>12. Ends(q, net, reader)
        BY <1>3, <1>4, <2>2 DEF Good, Ends, Proceeds
    <2> QED BY <2>2, <2>6, <2>8, <2>9, <2>10, <2>11, <2>12 DEF Good, Links
<1>8. s \in [Generations -> {"none", "opening", "up", "stopping", "closed"}]
    BY <1>1
<1> HIDE DEF q, s
<1>9. Good(rt', tunnels', net, reader, user)
    BY <1>3, <1>4, <1>5, <1>6, <1>7
<1> QED BY <1>1, <1>3, <1>8, <1>9 DEF IInv, TypeInv, Good

(* A tunnel closes, also by the refusal of its owner.                      *)
LEMMA ClosingStep ==
    ASSUME IInv, NEW g \in Generations, NEW remote_error \in BOOLEAN, NEW retryable \in BOOLEAN,
           rt.io = "idle", tunnels[g] # "none",
           rt' = on_tunnel_closed(rt, g, remote_error, retryable),
           tunnels' = [tunnels EXCEPT ![g] = "closed"], UNCHANGED <<net, reader, user>>
    PROVE  IInv'
PROOF
<1>1. /\ tunnels \in [Generations -> {"none", "opening", "up", "stopping", "closed"}]
      /\ Good(rt, tunnels, net, reader, user)
    BY DEF IInv, TypeInv
<1>2. Good(rt, tunnels', net, reader, user)
    BY <1>1, TunnelKeeps
<1>3. Good(rt', tunnels', net, reader, user)
    BY <1>2, ClosedKeeps
<1>4. tunnels' \in [Generations -> {"none", "opening", "up", "stopping", "closed"}]
    BY <1>1
<1> QED BY <1>3, <1>4 DEF IInv, TypeInv, Good

(* configure_network begins: for the present tunnel there is no network    *)
(* yet; an abandoned tunnel is refused.                                    *)
LEMMA HandleAssignmentStep ==
    ASSUME IInv, NEW g \in Generations, HandleAssignment(g)
    PROVE  IInv'
PROOF
<1>1. CASE g = rt.connection_generation_ /\ ~rt.stop_requested_
    <2> DEFINE q == [rt EXCEPT !.state_ = "ConfiguringNetwork", !.io = "configure"]
    <2>1. rt \in Runtimes /\ rt.io = "idle" /\ tunnels[g] = "opening"
        BY DEF IInv, TypeInv, HandleAssignment
    <2>2. rt' = q /\ UNCHANGED <<tunnels, net, reader, user>>
        BY <1>1, <2>1 DEF HandleAssignment, transition, Runtimes
    <2>3. "configure" \in Places /\ "ConfiguringNetwork" \in States
        BY DEF Places, States
    <2>4. q \in Runtimes /\ Proceeds(rt, q) /\ q.io = "configure" /\ q.tunnel_ = rt.tunnel_
        BY <2>1, <2>3 DEF Runtimes, Proceeds
    <2> HIDE DEF q
    <2>5. rt.tunnel_ = g /\ net = 0 /\ rt.tunnel_ # 0
        BY <1>1, <2>1, GenerationFacts DEF IInv, Good, Links, Current, Attached
    <2>6. Counted(q, tunnels) /\ Reasons(q, reader, user) /\ (Quiet(rt, tunnels) => Quiet(q, tunnels))
        BY <2>1, <2>4, ProceedsKeeps DEF IInv
    <2>7. Waiting(q, tunnels)
        BY <2>4, <2>6 DEF IInv, Good, Links, Waiting, Proceeds
    <2>8. Current(q, tunnels) /\ Attached(q, tunnels, net, reader)
        BY <1>1, <2>1, <2>4, <2>5 DEF IInv, Good, Links, Current, Attached, Proceeds
    <2>9. Ends(q, net, reader)
        BY <2>1, <2>4 DEF IInv, Good, Ends, Proceeds
    <2> QED BY <2>2, <2>4, <2>6, <2>7, <2>8, <2>9, RuntimeStep DEF Good, Links
<1>2. CASE ~(g = rt.connection_generation_ /\ ~rt.stop_requested_)
    BY <1>2, ClosingStep DEF HandleAssignment
<1> QED BY <1>1, <1>2

(* activate: the network is that of tunnel_, or the tunnel is closed.      *)
LEMMA ActivateStep ==
    ASSUME IInv, NEW succeeds \in BOOLEAN, Activate(succeeds)
    PROVE  IInv'
PROOF
<1>1. /\ rt \in Runtimes /\ rt.io = "configure"
      /\ tunnels \in [Generations -> {"none", "opening", "up", "stopping", "closed"}]
    BY DEF IInv, TypeInv, Activate
<1>2. /\ net = 0 /\ rt.tunnel_ \in Generations /\ tunnels[rt.tunnel_] = "opening"
      /\ reader.at = "none" /\ rt.tunnel_ # 0
    BY <1>1 DEF IInv, Good, Links, Attached, Runtimes, Optional
<1>3. CASE succeeds
    <2> DEFINE q == [rt EXCEPT !.interrupt_event_ = FALSE, !.io = "activated"]
    <2>1. rt' = q /\ net' = rt.tunnel_ /\ UNCHANGED <<tunnels, reader, user>>
        BY <1>3 DEF Activate
    <2>2. "activated" \in Places
        BY DEF Places
    <2>3. q \in Runtimes /\ Proceeds(rt, q) /\ q.io = "activated" /\ q.tunnel_ = rt.tunnel_
        BY <1>1, <2>2 DEF Runtimes, Proceeds
    <2> HIDE DEF q
    <2>4. Counted(q, tunnels) /\ Reasons(q, reader, user) /\ (Quiet(rt, tunnels) => Quiet(q, tunnels))
        BY <1>1, <2>3, ProceedsKeeps DEF IInv
    <2>5. Waiting(q, tunnels)
        BY <2>3, <2>4 DEF IInv, Good, Links, Waiting, Proceeds
    <2>6. Current(q, tunnels) /\ Attached(q, tunnels, rt.tunnel_, reader)
        BY <1>1, <1>2, <2>3 DEF IInv, Good, Links, Current, Attached, Proceeds
    <2>7. Ends(q, rt.tunnel_, reader)
        BY <1>1, <2>3 DEF IInv, Good, Ends, Proceeds
    <2>8. rt.tunnel_ \in Optional
        BY <1>2 DEF Optional
    <2> QED BY <2>1, <2>3, <2>4, <2>5, <2>6, <2>7, <2>8 DEF IInv, TypeInv, Good, Links
<1>4. CASE ~succeeds
    <2> DEFINE q == [rt EXCEPT !.io = "idle"]
               s == [tunnels EXCEPT ![rt.tunnel_] = "closed"]
    <2>1. /\ rt' = on_tunnel_closed(record_failure(q), rt.tunnel_, FALSE, FALSE)
          /\ tunnels' = s /\ UNCHANGED <<net, reader, user>>
        BY <1>4 DEF Activate
    <2>2. "idle" \in Places
        BY DEF Places
    <2>3. q \in Runtimes /\ Proceeds(rt, q) /\ q.io = "idle" /\ q.tunnel_ = rt.tunnel_
        BY <1>1, <2>2 DEF Runtimes, Proceeds
    <2>4. /\ s \in [Generations -> {"none", "opening", "up", "stopping", "closed"}]
          /\ s[rt.tunnel_] = "closed"
          /\ \A h \in Generations : s[h] = "none" <=> tunnels[h] = "none"
        BY <1>1, <1>2
    <2> HIDE DEF q, s
    <2>5. Counted(q, tunnels) /\ Reasons(q, reader, user) /\ (Quiet(rt, tunnels) => Quiet(q, tunnels))
        BY <1>1, <2>3, ProceedsKeeps DEF IInv
    <2>6. Counted(q, s)
        BY <2>4, <2>5 DEF Counted
    <2>7. Waiting(q, s)
        BY <2>3, <2>4, <2>5 DEF IInv, Good, Links, Waiting, Proceeds, Quiet
    <2>8. Current(q, s) /\ Attached(q, s, net, reader)
        BY <1>1, <1>2, <2>3, <2>4 DEF IInv, Good, Links, Current, Attached, Proceeds
    <2>9. Ends(q, net, reader)
        BY <1>1, <2>3 DEF IInv, Good, Ends, Proceeds
    <2>10. Good(q, s, net, reader, user)
        BY <2>3, <2>5, <2>6, <2>7, <2>8, <2>9 DEF Good, Links
    <2>11. Good(rt', s, net, reader, user)
        BY <1>2, <2>1, <2>3, <2>10, FailureKeeps, ClosedKeeps
    <2> QED BY <2>1, <2>4, <2>11 DEF IInv, TypeInv, Good
<1> QED BY <1>3, <1>4

(* The rest of configure_network: the reader starts on the network that was *)
(* just made, or the tunnel is closed with the network still configured.   *)
LEMMA ConnectedStep ==
    ASSUME IInv, NEW threadStarts \in BOOLEAN, Connected(threadStarts)
    PROVE  IInv'
PROOF
<1>1. /\ rt \in Runtimes /\ rt.io = "activated"
      /\ tunnels \in [Generations -> {"none", "opening", "up", "stopping", "closed"}]
    BY DEF IInv, TypeInv, Connected
<1>2. /\ net = rt.tunnel_ /\ rt.tunnel_ \in Generations /\ tunnels[rt.tunnel_] = "opening"
      /\ reader.at = "none" /\ rt.tunnel_ # 0 /\ rt.tunnel_ \in Optional
    BY <1>1 DEF IInv, Good, Links, Attached, Runtimes, Optional
<1>3. CASE threadStarts
    <2> DEFINE q == [rt EXCEPT !.state_ = "Connected", !.reconnect_attempt_ = 0, !.connection_timer_ = 0,
                               !.io = "idle"]
               s == [tunnels EXCEPT ![rt.tunnel_] = "up"]
               rd == [at |-> "check", tunnel |-> rt.tunnel_]
    <2>1. rt' = q /\ tunnels' = s /\ reader' = rd /\ UNCHANGED <<net, user>>
        BY <1>1, <1>3 DEF Connected, transition, Runtimes
    <2>2. "idle" \in Places /\ "Connected" \in States
        BY DEF Places, States
    <2>3. q \in Runtimes /\ Proceeds(rt, q) /\ q.io = "idle" /\ q.tunnel_ = rt.tunnel_
        BY <1>1, <2>2 DEF Runtimes, Proceeds
    <2>4. /\ s \in [Generations -> {"none", "opening", "up", "stopping", "closed"}]
          /\ s[rt.tunnel_] = "up"
          /\ \A h \in Generations : s[h] = "none" <=> tunnels[h] = "none"
        BY <1>1, <1>2
    <2>5. /\ rd.at = "check" /\ rd.tunnel = rt.tunnel_
          /\ rd \in [at : {"none", "check", "receive", "failed", "ended"}, tunnel : Optional]
        BY <1>2
    <2> HIDE DEF q, s, rd
    <2>6. Counted(q, tunnels) /\ Reasons(q, reader, user) /\ (Quiet(rt, tunnels) => Quiet(q, tunnels))
        BY <1>1, <2>3, ProceedsKeeps DEF IInv
    <2>7. Counted(q, s)
        BY <2>4, <2>6 DEF Counted
    <2>8. Waiting(q, s)
        BY <2>3, <2>4, <2>6 DEF IInv, Good, Links, Waiting, Proceeds, Quiet
    <2>9. Current(q, s) /\ Attached(q, s, net, rd)
        BY <1>1, <1>2, <2>3, <2>4, <2>5 DEF IInv, Good, Links, Current, Attached, Proceeds
    <2>10. Ends(q, net, rd) /\ Reasons(q, rd, user)
        BY <1>1, <2>3, <2>5, <2>6 DEF IInv, Good, Ends, Proceeds, Reasons
    <2> QED BY <2>1, <2>3, <2>4, <2>5, <2>7, <2>8, <2>9, <2>10 DEF IInv, TypeInv, Good, Links
<1>4. CASE ~threadStarts
    <2> DEFINE q == [rt EXCEPT !.state_ = "Connected", !.reconnect_attempt_ = 0, !.connection_timer_ = 0,
                               !.io = "idle"]
               s == [tunnels EXCEPT ![rt.tunnel_] = "closed"]
    <2>1. /\ rt' = on_tunnel_closed(q, rt.tunnel_, FALSE, FALSE)
          /\ tunnels' = s /\ UNCHANGED <<net, reader, user>>
        BY <1>1, <1>4 DEF Connected, transition, Runtimes
    <2>2. "idle" \in Places /\ "Connected" \in States
        BY DEF Places, States
    <2>3. q \in Runtimes /\ Proceeds(rt, q) /\ q.io = "idle" /\ q.tunnel_ = rt.tunnel_
        BY <1>1, <2>2 DEF Runtimes, Proceeds
    <2>4. /\ s \in [Generations -> {"none", "opening", "up", "stopping", "closed"}]
          /\ s[rt.tunnel_] = "closed"
          /\ \A h \in Generations : s[h] = "none" <=> tunnels[h] = "none"
        BY <1>1, <1>2
    <2> HIDE DEF q, s
    <2>5. Counted(q, tunnels) /\ Reasons(q, reader, user) /\ (Quiet(rt, tunnels) => Quiet(q, tunnels))
        BY <1>1, <2>3, ProceedsKeeps DEF IInv
    <2>6. Counted(q, s)
        BY <2>4, <2>5 DEF Counted
    <2>7. Waiting(q, s)
        BY <2>3, <2>4, <2>5 DEF IInv, Good, Links, Waiting, Proceeds, Quiet
    <2>8. Current(q, s) /\ Attached(q, s, net, reader)
        BY <1>1, <1>2, <2>3, <2>4 DEF IInv, Good, Links, Current, Attached, Proceeds
    <2>9. Ends(q, net, reader)
        BY <1>1, <2>3 DEF IInv, Good, Ends, Proceeds
    <2>10. Good(q, s, net, reader, user)
        BY <2>3, <2>5, <2>6, <2>7, <2>8, <2>9 DEF Good, Links
    <2>11. Good(rt', s, net, reader, user)
        BY <1>2, <2>1, <2>3, <2>10, ClosedKeeps
    <2> QED BY <2>1, <2>4, <2>11 DEF IInv, TypeInv, Good
<1> QED BY <1>3, <1>4

(* An action that only eases the runtime.                                  *)
LEMMA EasingStep ==
    ASSUME IInv, NEW f \in Runtimes, Eases(rt, f), Justifies(rt, f, user), rt' = f,
           UNCHANGED <<tunnels, net, reader, user>>
    PROVE  IInv'
PROOF BY HandlerTaken, RuntimeStep

(* deliver_to_packet_device fails: a reason to end, and nothing else.      *)
LEMMA DeliveryFailsStep ==
    ASSUME IInv, NEW g \in Generations, DeliveryFails(g)
    PROVE  IInv'
PROOF
<1> DEFINE q == [rt EXCEPT !.failure_message_ = TRUE, !.stop_requested_ = TRUE, !.interrupt_event_ = TRUE,
                           !.tunnelStops = rt.tunnelStops \cup ({rt.tunnel_} \ {0})]
<1>1. rt \in Runtimes
    BY DEF IInv, TypeInv
<1>2. rt' = q /\ UNCHANGED <<tunnels, net, reader, user>>
    BY <1>1 DEF DeliveryFails, record_failure, Runtimes
<1>3. rt.tunnelStops \cup ({rt.tunnel_} \ {0}) \in Sets
    BY <1>1, GenerationFacts DEF Runtimes, Sets, Optional
<1>4. q \in Runtimes /\ Eases(rt, q)
    BY <1>1, <1>3 DEF Runtimes, Eases
<1>5. Justifies(rt, q, user)
    BY <1>1 DEF Runtimes, Justifies, Explained, IInv, Good, Reasons
<1> HIDE DEF q
<1> QED BY <1>2, <1>4, <1>5, EasingStep

(* The stop of a tunnel arrives on its strand.                             *)
LEMMA RunTunnelStopStep ==
    ASSUME IInv, NEW g \in Generations, RunTunnelStop(g)
    PROVE  IInv'
PROOF
<1> DEFINE q == [rt EXCEPT !.tunnelStops = rt.tunnelStops \ {g}]
<1>1. /\ rt \in Runtimes /\ rt.io = "idle"
      /\ tunnels \in [Generations -> {"none", "opening", "up", "stopping", "closed"}]
    BY DEF IInv, TypeInv, RunTunnelStop
<1>2. rt' = q /\ UNCHANGED <<net, reader, user>>
    BY <1>1 DEF RunTunnelStop
<1>3. rt.tunnelStops \ {g} \in Sets
    BY <1>1 DEF Runtimes, Sets
<1>4. q \in Runtimes /\ Eases(rt, q) /\ Justifies(rt, q, user) /\ q.io = "idle"
    BY <1>1, <1>3 DEF Runtimes, Eases, Justifies, IInv, Good, Reasons
<1> HIDE DEF q
<1>5. Good(q, tunnels, net, reader, user)
    BY <1>4, HandlerTaken
<1>6. tunnels[g] \in Open => Good(q, [tunnels EXCEPT ![g] = "stopping"], net, reader, user)
    BY <1>1, <1>4, <1>5, TunnelKeeps DEF Open
<1>7. Good(q, tunnels', net, reader, user)
    BY <1>5, <1>6 DEF RunTunnelStop
<1>8. tunnels' \in [Generations -> {"none", "opening", "up", "stopping", "closed"}]
    BY <1>1 DEF RunTunnelStop
<1> QED BY <1>2, <1>7, <1>8 DEF IInv, TypeInv, Good

(* The abort of a tunnel arrives on its strand, which may close it.        *)
LEMMA RunTunnelAbortStep ==
    ASSUME IInv, NEW g \in Generations, RunTunnelAbort(g)
    PROVE  IInv'
PROOF
<1> DEFINE q == [rt EXCEPT !.tunnelAborts = rt.tunnelAborts \ {g}]
           s == [tunnels EXCEPT ![g] = "closed"]
<1>1. /\ rt \in Runtimes /\ rt.io = "idle" /\ g \in rt.tunnelAborts
      /\ tunnels \in [Generations -> {"none", "opening", "up", "stopping", "closed"}]
    BY DEF IInv, TypeInv, RunTunnelAbort
<1>2. /\ rt' = IF tunnels[g] = "closed" THEN q ELSE on_tunnel_closed(q, g, FALSE, TRUE)
      /\ tunnels' = s /\ UNCHANGED <<net, reader, user>>
    BY <1>1 DEF RunTunnelAbort
<1>3. rt.tunnelAborts \ {g} \in Sets
    BY <1>1 DEF Runtimes, Sets
<1>4. q \in Runtimes /\ Eases(rt, q) /\ Justifies(rt, q, user) /\ q.io = "idle"
    BY <1>1, <1>3 DEF Runtimes, Eases, Justifies, IInv, Good, Reasons
<1>5. tunnels[g] # "none"
    BY <1>1 DEF IInv, Good, Links, Counted
<1>6. s \in [Generations -> {"none", "opening", "up", "stopping", "closed"}]
    BY <1>1
<1> HIDE DEF q
<1>7. Good(q, s, net, reader, user)
    BY <1>1, <1>4, <1>5, HandlerTaken, TunnelKeeps
<1> HIDE DEF s
<1>8. Good(rt', s, net, reader, user)
    BY <1>2, <1>4, <1>7, ClosedKeeps
<1> QED BY <1>2, <1>6, <1>8 DEF IInv, TypeInv, Good

(* The connection timer expires, always for the present generation.        *)
LEMMA ConnectionTimerExpiresStep == IInv /\ ConnectionTimerExpires => IInv'
PROOF
<1> SUFFICES ASSUME IInv, ConnectionTimerExpires PROVE IInv'
    OBVIOUS
<1> DEFINE q == [rt EXCEPT !.expired = rt.expired \cup {rt.connection_timer_}, !.connection_timer_ = 0]
<1>1. rt \in Runtimes /\ rt.io = "idle" /\ rt.connection_timer_ # 0
    BY DEF IInv, TypeInv, ConnectionTimerExpires
<1>2. rt' = q /\ UNCHANGED <<tunnels, net, reader, user>>
    BY DEF ConnectionTimerExpires
<1>3. rt.expired \cup {rt.connection_timer_} \in Sets
    BY <1>1 DEF Runtimes, Sets
<1>4. q \in Runtimes /\ q.expired = rt.expired \cup {rt.connection_timer_} /\ q.connection_timer_ = 0
    BY <1>1, <1>3 DEF Runtimes
<1>5. /\ q.io = "idle" /\ q.state_ = rt.state_ /\ q.started_ = rt.started_ /\ q.begin = rt.begin
      /\ q.tunnelAborts = rt.tunnelAborts /\ q.resolving = rt.resolving /\ q.connecting = rt.connecting
      /\ q.finished_ = rt.finished_ /\ q.stop_requested_ = rt.stop_requested_
      /\ q.intentional_stop_ = rt.intentional_stop_ /\ q.failure_message_ = rt.failure_message_
      /\ q.reconnect_timer_ = rt.reconnect_timer_ /\ q.stops = rt.stops /\ q.tunnel_ = rt.tunnel_
    BY <1>1 DEF Runtimes
<1>6. q.connection_generation_ = rt.connection_generation_
    BY <1>1 DEF Runtimes
<1> HIDE DEF q
<1>7. Counted(rt, tunnels) /\ Waiting(rt, tunnels) /\ rt.connection_timer_ = rt.connection_generation_
    BY <1>1 DEF IInv, Good, Links, Counted
<1>8. Counted(q, tunnels)
    <2>1. q.resolving = rt.resolving /\ q.connecting = rt.connecting /\ q.tunnelAborts = rt.tunnelAborts
        BY <1>5
    <2>2. rt.connection_generation_ <= rt.connection_generation_
        BY <1>1 DEF Runtimes
    <2>3. \A g \in q.resolving \cup q.connecting \cup q.expired : g <= q.connection_generation_
        BY <1>4, <1>6, <1>7, <2>1, <2>2 DEF Counted
    <2> QED BY <1>4, <1>6, <1>7, <2>1, <2>3 DEF Counted
<1>9. Waiting(q, tunnels)
    BY <1>1, <1>5, <1>6, <1>7 DEF Waiting, Quiet
<1>10. Current(q, tunnels) /\ Attached(q, tunnels, net, reader)
    BY <1>1, <1>5, <1>6 DEF IInv, Good, Links, Current, Attached
<1>11. Reasons(q, reader, user) /\ Ends(q, net, reader)
    BY <1>1, <1>5 DEF IInv, Good, Reasons, Ends, Explained
<1> QED BY <1>2, <1>4, <1>8, <1>9, <1>10, <1>11, RuntimeStep DEF Good, Links

(* The handler of the connection timer retries, unless it is late.         *)
LEMMA ConnectionTimerHandlerStep ==
    ASSUME IInv, NEW g \in Generations, ConnectionTimerHandler(g)
    PROVE  IInv'
PROOF
<1> DEFINE q == [rt EXCEPT !.expired = rt.expired \ {g}]
<1>1. rt \in Runtimes /\ rt.io = "idle"
    BY DEF IInv, TypeInv, ConnectionTimerHandler
<1>2. /\ rt' = IF g = q.connection_generation_ THEN retry_on_io(q) ELSE q
      /\ UNCHANGED <<tunnels, net, reader, user>>
    BY <1>1 DEF ConnectionTimerHandler
<1>3. rt.expired \ {g} \in Sets
    BY <1>1 DEF Runtimes, Sets
<1>4. q \in Runtimes /\ Eases(rt, q) /\ Justifies(rt, q, user) /\ q.io = "idle"
    BY <1>1, <1>3 DEF Runtimes, Eases, Justifies, IInv, Good, Reasons
<1> HIDE DEF q
<1>5. Good(q, tunnels, net, reader, user)
    BY <1>4, HandlerTaken
<1>6. Good(rt', tunnels, net, reader, user)
    BY <1>2, <1>4, <1>5, RetryKeeps, GenerationFacts
<1> QED BY <1>2, <1>6, RuntimeStep

(* The reconnect timer expires; its handler is queued.                     *)
LEMMA ReconnectTimerExpiresStep == IInv /\ ReconnectTimerExpires => IInv'
PROOF
<1> SUFFICES ASSUME IInv, ReconnectTimerExpires PROVE IInv'
    OBVIOUS
<1> DEFINE q == [rt EXCEPT !.reconnect_timer_ = "expired"]
<1>1. rt \in Runtimes /\ rt.reconnect_timer_ = "armed" /\ "expired" \in Timers
    BY DEF IInv, TypeInv, ReconnectTimerExpires, Timers
<1>2. rt' = q /\ UNCHANGED <<tunnels, net, reader, user>>
    BY DEF ReconnectTimerExpires
<1>3. q \in Runtimes /\ Eases(rt, q) /\ Justifies(rt, q, user)
    BY <1>1 DEF Runtimes, Eases, Justifies, IInv, Good, Reasons
<1> HIDE DEF q
<1> QED BY <1>2, <1>3, EasingStep

(* The handler of the reconnect timer begins the next attempt when nothing *)
(* of the previous one is left, or ends.                                   *)
LEMMA ReconnectTimerHandlerStep == IInv /\ ReconnectTimerHandler => IInv'
PROOF
<1> SUFFICES ASSUME IInv, ReconnectTimerHandler PROVE IInv'
    OBVIOUS
<1> DEFINE q == [rt EXCEPT !.reconnect_timer_ = "off"]
<1>1. rt \in Runtimes /\ rt.io = "idle" /\ rt.reconnect_timer_ # "off" /\ "off" \in Timers
    BY DEF IInv, TypeInv, ReconnectTimerHandler, Timers
<1>2. /\ rt' = begin_connect(q) \/ (rt' = finish_on_io(q) /\ q.stop_requested_) \/ rt' = q
      /\ UNCHANGED <<tunnels, net, reader, user>>
    BY <1>1 DEF ReconnectTimerHandler
<1>3. /\ q \in Runtimes /\ Eases(rt, q) /\ Justifies(rt, q, user)
      /\ q.io = "idle" /\ q.reconnect_timer_ = "off" /\ q.tunnel_ = rt.tunnel_
      /\ q.started_ = rt.started_ /\ q.begin = rt.begin
    BY <1>1 DEF Runtimes, Eases, Justifies, IInv, Good, Reasons
<1> HIDE DEF q
<1>4. rt.started_ /\ ~rt.begin /\ rt.tunnel_ = 0
    BY <1>1 DEF IInv, Good, Links, Waiting
<1>5. Good(q, tunnels, net, reader, user)
    BY <1>3, HandlerTaken
<1>6. Good(begin_connect(q), tunnels, net, reader, user)
    BY <1>3, <1>4, <1>5, BeginKeeps
<1>7. q.stop_requested_ => Good(finish_on_io(q), tunnels, net, reader, user)
    BY <1>3, <1>5, FinishKeeps DEF Good, Reasons
<1> QED BY <1>2, <1>5, <1>6, <1>7, RuntimeStep

(* The handler that stop() posts, which the owner has explained.           *)
LEMMA RunStopStep == IInv /\ RunStop => IInv'
PROOF
<1> SUFFICES ASSUME IInv, RunStop PROVE IInv'
    OBVIOUS
<1> DEFINE timer == IF rt.reconnect_timer_ = "armed" THEN "cancelled" ELSE rt.reconnect_timer_
           q == [rt EXCEPT !.stops = rt.stops - 1, !.connection_timer_ = 0, !.reconnect_timer_ = timer]
           s == [q EXCEPT !.tunnelStops = q.tunnelStops \cup {q.tunnel_}]
<1>1. rt \in Runtimes /\ rt.io = "idle" /\ rt.stops > 0
    BY DEF IInv, TypeInv, RunStop
<1>2. rt' = (IF q.tunnel_ # 0 THEN s ELSE finish_on_io(q)) /\ UNCHANGED <<tunnels, net, reader, user>>
    BY <1>1 DEF RunStop
<1>3. timer \in Timers /\ (timer # "off" => rt.reconnect_timer_ # "off")
    BY <1>1 DEF Runtimes, Timers
<1>4. rt.stops - 1 \in Nat /\ rt.intentional_stop_
    BY <1>1 DEF Runtimes, IInv, Good, Reasons
<1> HIDE DEF timer
<1>5. q \in Runtimes /\ q.stops = rt.stops - 1 /\ q.io = "idle"
    BY <1>1, <1>3, <1>4 DEF Runtimes
<1>6. Eases(rt, q)
    BY <1>1, <1>3 DEF Runtimes, Eases
<1>7. Justifies(rt, q, user) /\ Explained(q)
    BY <1>1, <1>4 DEF Runtimes, Justifies, Explained
<1> HIDE DEF q
<1>8. Good(q, tunnels, net, reader, user)
    BY <1>5, <1>6, <1>7, HandlerTaken
<1>9. Good(s, tunnels, net, reader, user)
    <2>1. q.tunnelStops \cup {q.tunnel_} \in Sets
        BY <1>5, GenerationFacts DEF Runtimes, Sets, Optional
    <2>2. s \in Runtimes /\ Eases(q, s)
        BY <1>5, <2>1 DEF Runtimes, Eases
    <2>3. Justifies(q, s, user)
        BY <1>5, <1>8 DEF Runtimes, Justifies, Good, Reasons
    <2> HIDE DEF s
    <2> QED BY <1>8, <2>2, <2>3, EaseKeeps
<1>10. Good(finish_on_io(q), tunnels, net, reader, user)
    BY <1>5, <1>7, <1>8, FinishKeeps
<1> HIDE DEF s
<1> QED BY <1>2, <1>9, <1>10, RuntimeStep

(* retry_on_io after its join: network, reader and tunnel are gone before  *)
(* the next attempt is armed.                                              *)
LEMMA RetryJoinedStep == IInv /\ RetryJoined => IInv'
PROOF
<1> SUFFICES ASSUME IInv, RetryJoined PROVE IInv'
    OBVIOUS
<1> DEFINE attempt == NextAttempt(rt.reconnect_attempt_)
           q == [rt EXCEPT !.state_ = "Reconnecting", !.tunnel_ = 0, !.reconnect_timer_ = "armed",
                           !.reconnect_attempt_ = attempt, !.io = "idle"]
           rd == [at |-> "none", tunnel |-> 0]
<1>1. rt \in Runtimes /\ rt.io = "retry join"
    BY DEF IInv, TypeInv, RetryJoined
<1>2. rt' = q /\ net' = 0 /\ reader' = rd /\ UNCHANGED <<tunnels, user>>
    BY <1>1 DEF RetryJoined, Join, transition, Runtimes
<1>3. attempt \in Nat
    <2>1. rt.reconnect_attempt_ \in Nat
        BY <1>1 DEF Runtimes
    <2> QED BY <2>1 DEF NextAttempt
<1>4. "Reconnecting" \in States /\ "armed" \in Timers /\ "idle" \in Places /\ 0 \in Optional
    BY DEF States, Timers, Places, Optional
<1> HIDE DEF attempt
<1>5. q \in Runtimes /\ q.io = "idle" /\ q.tunnel_ = 0 /\ q.state_ = "Reconnecting"
    BY <1>1, <1>3, <1>4 DEF Runtimes
<1>6. /\ q.started_ = rt.started_ /\ q.begin = rt.begin /\ q.tunnelAborts = rt.tunnelAborts
      /\ q.resolving = rt.resolving /\ q.connecting = rt.connecting /\ q.expired = rt.expired
      /\ q.finished_ = rt.finished_ /\ q.stop_requested_ = rt.stop_requested_ /\ q.stops = rt.stops
      /\ q.intentional_stop_ = rt.intentional_stop_ /\ q.failure_message_ = rt.failure_message_
      /\ q.connection_generation_ = rt.connection_generation_
      /\ q.connection_timer_ = rt.connection_timer_
    BY <1>1 DEF Runtimes
<1>7. rd.at = "none" /\ rd \in [at : {"none", "check", "receive", "failed", "ended"}, tunnel : Optional]
    BY <1>4
<1> HIDE DEF q, rd
<1>8. Quiet(rt, tunnels) /\ rt.started_ /\ ~rt.begin /\ ~rt.finished_
    BY <1>1 DEF IInv, Good, Links, Waiting, Ends
<1>9. Counted(q, tunnels) /\ Quiet(q, tunnels)
    BY <1>6, <1>8 DEF IInv, Good, Links, Counted, Quiet
<1>10. Waiting(q, tunnels)
    BY <1>5, <1>6, <1>8, <1>9 DEF Waiting
<1>11. Current(q, tunnels) /\ Attached(q, tunnels, 0, rd)
    BY <1>5, <1>7, <1>9 DEF Current, Attached, Quiet
<1>12. Reasons(q, rd, user) /\ Ends(q, 0, rd)
    BY <1>5, <1>6, <1>7, <1>8 DEF IInv, Good, Reasons, Ends, Explained
<1> QED BY <1>2, <1>4, <1>5, <1>7, <1>9, <1>10, <1>11, <1>12 DEF IInv, TypeInv, Good, Links

(* finish_on_io after its join: nothing is left, and the final state is    *)
(* Failed only where a failure is recorded.                                *)
LEMMA FinishJoinedStep == IInv /\ FinishJoined => IInv'
PROOF
<1> SUFFICES ASSUME IInv, FinishJoined PROVE IInv'
    OBVIOUS
<1> DEFINE final == IF rt.intentional_stop_ /\ ~rt.failure_message_ THEN "Stopped" ELSE "Failed"
           q == [rt EXCEPT !.state_ = final, !.tunnel_ = 0, !.io = "ended"]
           rd == [at |-> "none", tunnel |-> 0]
<1>1. rt \in Runtimes /\ rt.io = "finish join"
    BY DEF IInv, TypeInv, FinishJoined
<1>2. rt' = q /\ net' = 0 /\ reader' = rd /\ UNCHANGED <<tunnels, user>>
    BY <1>1 DEF FinishJoined, Join, transition, Runtimes
<1>3. final \in States /\ "ended" \in Places /\ 0 \in Optional
    BY DEF States, Places, Optional
<1>4. final = "Failed" => rt.failure_message_
    BY <1>1 DEF IInv, Good, Reasons, Explained
<1> HIDE DEF final
<1>5. q \in Runtimes /\ q.io = "ended" /\ q.tunnel_ = 0 /\ q.state_ = final
    BY <1>1, <1>3 DEF Runtimes
<1>6. /\ q.started_ = rt.started_ /\ q.begin = rt.begin /\ q.tunnelAborts = rt.tunnelAborts
      /\ q.resolving = rt.resolving /\ q.connecting = rt.connecting /\ q.expired = rt.expired
      /\ q.finished_ = rt.finished_ /\ q.stop_requested_ = rt.stop_requested_ /\ q.stops = rt.stops
      /\ q.intentional_stop_ = rt.intentional_stop_ /\ q.failure_message_ = rt.failure_message_
      /\ q.connection_generation_ = rt.connection_generation_
      /\ q.connection_timer_ = rt.connection_timer_ /\ q.reconnect_timer_ = rt.reconnect_timer_
    BY <1>1 DEF Runtimes
<1>7. rd.at = "none" /\ rd \in [at : {"none", "check", "receive", "failed", "ended"}, tunnel : Optional]
    BY <1>3
<1> HIDE DEF q, rd
<1>8. Counted(q, tunnels)
    BY <1>6 DEF IInv, Good, Links, Counted
<1>9. Waiting(q, tunnels)
    BY <1>5, <1>6 DEF IInv, Good, Links, Waiting, Quiet
<1>10. Current(q, tunnels) /\ Attached(q, tunnels, 0, rd)
    BY <1>5, <1>7 DEF Current, Attached
<1>11. Reasons(q, rd, user)
    BY <1>4, <1>5, <1>6, <1>7 DEF IInv, Good, Reasons, Explained
<1>12. Ends(q, 0, rd)
    BY <1>1, <1>5, <1>6, <1>7 DEF IInv, Good, Ends
<1> QED BY <1>2, <1>3, <1>5, <1>7, <1>8, <1>9, <1>10, <1>11, <1>12 DEF IInv, TypeInv, Good, Links

(* The reader moves on; whatever it reports is recorded first.             *)
LEMMA ReaderStep ==
    ASSUME IInv, reader.at # "none", UNCHANGED <<tunnels, net, user>>,
           NEW place \in {"check", "receive", "failed", "ended"},
           reader' = [reader EXCEPT !.at = place],
           NEW f \in Runtimes, rt' = f, Eases(rt, f), Justifies(rt, f, user),
           place = "failed" => f.failure_message_
    PROVE  IInv'
PROOF
<1>1. Good(f, tunnels, net, reader, user)
    BY HandlerTaken
<1>2. reader'.at = place /\ reader'.tunnel = reader.tunnel
    BY DEF IInv, TypeInv
<1>3. reader' \in [at : {"none", "check", "receive", "failed", "ended"}, tunnel : Optional]
    BY DEF IInv, TypeInv
<1>4. Attached(f, tunnels, net, reader')
    BY <1>1, <1>2 DEF Good, Links, Attached
<1>5. Reasons(f, reader', user) /\ Ends(f, net, reader')
    BY <1>1, <1>2 DEF Good, Reasons, Ends
<1> QED BY <1>1, <1>3, <1>4, <1>5 DEF IInv, TypeInv, Good, Links

(* A runtime that is left alone.                                           *)
LEMMA SameRuntime == IInv => rt \in Runtimes /\ Eases(rt, rt) /\ Justifies(rt, rt, user)
PROOF BY DEF IInv, TypeInv, Eases, Justifies, Good, Reasons

(* run_packet_reader looks at stop_requested_.                             *)
LEMMA ReaderChecksStep == IInv /\ ReaderChecks => IInv'
PROOF
<1> SUFFICES ASSUME IInv, ReaderChecks PROVE IInv'
    OBVIOUS
<1> DEFINE place == IF rt.stop_requested_ THEN "ended" ELSE "receive"
<1>1. /\ reader.at = "check" /\ reader' = [reader EXCEPT !.at = place]
      /\ rt' = rt /\ UNCHANGED <<tunnels, net, user>>
    BY DEF ReaderChecks
<1>2. place \in {"check", "receive", "failed", "ended"} /\ place # "failed"
    OBVIOUS
<1> HIDE DEF place
<1> QED BY <1>1, <1>2, SameRuntime, ReaderStep

(* receive_packet returns a packet, an interrupt or throws.                *)
LEMMA ReaderReceivesStep ==
    ASSUME IInv, NEW result \in {"interrupt", "packet", "throw"}, ReaderReceives(result)
    PROVE  IInv'
PROOF
<1> DEFINE q == [rt EXCEPT !.failure_message_ = TRUE]
           place == CASE result = "interrupt" -> "ended"
                      [] result = "packet" -> "check"
                      [] result = "throw" -> "failed"
<1>1. /\ reader.at = "receive" /\ reader' = [reader EXCEPT !.at = place]
      /\ rt' = (IF result = "throw" THEN q ELSE rt) /\ UNCHANGED <<tunnels, net, user>>
    BY DEF ReaderReceives, record_failure
<1>2. place \in {"check", "receive", "failed", "ended"} /\ (place = "failed" => result = "throw")
    OBVIOUS
<1>3. rt \in Runtimes /\ Eases(rt, rt) /\ Justifies(rt, rt, user)
    BY SameRuntime
<1>4. q \in Runtimes /\ q.failure_message_ = TRUE
    BY <1>3 DEF Runtimes
<1>5. Eases(rt, q)
    BY <1>3 DEF Runtimes, Eases
<1>6. Justifies(rt, q, user)
    BY <1>3 DEF Runtimes, Justifies, Explained, IInv, Good, Reasons
<1> HIDE DEF q, place
<1>7. CASE result = "throw"
    <2>1. rt' = q
        BY <1>1, <1>7
    <2> QED BY <1>1, <1>2, <1>4, <1>5, <1>6, <2>1, ReaderStep
<1>8. CASE result # "throw"
    <2>1. rt' = rt
        BY <1>1, <1>8
    <2> QED BY <1>1, <1>2, <1>3, <1>8, <2>1, ReaderStep
<1> QED BY <1>7, <1>8

(* The failed reader asks for the stop of its own tunnel.                  *)
LEMMA ReaderFailsStep == IInv /\ ReaderFails => IInv'
PROOF
<1> SUFFICES ASSUME IInv, ReaderFails PROVE IInv'
    OBVIOUS
<1> DEFINE q == [rt EXCEPT !.stop_requested_ = TRUE, !.tunnelStops = rt.tunnelStops \cup {reader.tunnel}]
<1>1. /\ reader.at = "failed" /\ reader' = [reader EXCEPT !.at = "ended"]
      /\ rt' = q /\ UNCHANGED <<tunnels, net, user>>
    BY DEF ReaderFails
<1>2. rt \in Runtimes /\ reader.tunnel \in Optional /\ rt.failure_message_
    BY <1>1 DEF IInv, TypeInv, Good, Reasons
<1>3. rt.tunnelStops \cup {reader.tunnel} \in Sets
    BY <1>2, GenerationFacts DEF Runtimes, Sets, Optional
<1>4. q \in Runtimes /\ Eases(rt, q)
    BY <1>2, <1>3 DEF Runtimes, Eases
<1>5. Justifies(rt, q, user)
    BY <1>2 DEF Runtimes, Justifies, Explained, IInv, Good, Reasons
<1> HIDE DEF q
<1> QED BY <1>1, <1>4, <1>5, ReaderStep

(* The owner moves on in stop().                                           *)
LEMMA OwnerStep ==
    ASSUME IInv, UNCHANGED <<tunnels, net, reader>>, NEW f \in Runtimes, rt' = f,
           NEW v \in [at : {"idle", "checked", "intended", "requested", "announced"}, calls : Nat], user' = v,
           Eases(rt, f), Justifies(rt, f, v)
    PROVE  IInv'
PROOF
<1>1. Good(f, tunnels, net, reader, v)
    BY EaseKeeps DEF IInv
<1> QED BY <1>1 DEF IInv, TypeInv, Good

(* stop() by the owner, flag by flag: the intention comes before the       *)
(* request that is visible to the other threads.                           *)
LEMMA StopStep == IInv /\ Stop => IInv'
PROOF
<1> SUFFICES ASSUME IInv, Stop PROVE IInv'
    OBVIOUS
<1>1. /\ rt \in Runtimes /\ UNCHANGED <<tunnels, net, reader>>
      /\ user \in [at : {"idle", "checked", "intended", "requested", "announced"}, calls : Nat]
    BY DEF IInv, TypeInv, Stop
<1>2. CASE user.at = "checked"
    <2> DEFINE q == [rt EXCEPT !.intentional_stop_ = TRUE]
               v == [user EXCEPT !.at = "intended"]
    <2>1. rt' = q /\ user' = v
        BY <1>2 DEF Stop
    <2>2. q \in Runtimes /\ Eases(rt, q) /\ Justifies(rt, q, v)
        BY <1>1 DEF Runtimes, Eases, Justifies
    <2>3. v \in [at : {"idle", "checked", "intended", "requested", "announced"}, calls : Nat]
        BY <1>1
    <2> HIDE DEF q, v
    <2> QED BY <1>1, <2>1, <2>2, <2>3, OwnerStep
<1>3. CASE user.at = "intended"
    <2> DEFINE q == [rt EXCEPT !.stop_requested_ = TRUE]
               v == [user EXCEPT !.at = "requested"]
    <2>1. rt' = q /\ user' = v /\ rt.intentional_stop_
        BY <1>3 DEF Stop, IInv, Good, Reasons
    <2>2. q \in Runtimes /\ Eases(rt, q) /\ Justifies(rt, q, v)
        BY <1>1, <2>1 DEF Runtimes, Eases, Justifies, Explained
    <2>3. v \in [at : {"idle", "checked", "intended", "requested", "announced"}, calls : Nat]
        BY <1>1
    <2> HIDE DEF q, v
    <2> QED BY <1>1, <2>1, <2>2, <2>3, OwnerStep
<1>4. CASE user.at = "requested"
    <2> DEFINE q == [rt EXCEPT !.state_ = "Stopping"]
               v == [user EXCEPT !.at = "announced"]
    <2>1. rt' = q /\ user' = v /\ rt.intentional_stop_ /\ "Stopping" \in States
        BY <1>4 DEF Stop, transition, IInv, Good, Reasons, States
    <2>2. q \in Runtimes /\ Eases(rt, q) /\ Justifies(rt, q, v)
        BY <1>1, <2>1 DEF Runtimes, Eases, Justifies, Explained
    <2>3. v \in [at : {"idle", "checked", "intended", "requested", "announced"}, calls : Nat]
        BY <1>1
    <2> HIDE DEF q, v
    <2> QED BY <1>1, <2>1, <2>2, <2>3, OwnerStep
<1>5. CASE user.at = "announced"
    <2> DEFINE q == [rt EXCEPT !.interrupt_event_ = TRUE, !.stops = rt.stops + 1]
               v == [user EXCEPT !.at = "idle"]
    <2>4. rt.stops \in Nat
        BY <1>1 DEF Runtimes
    <2>5. rt.stops + 1 \in Nat
        BY <2>4
    <2>1. rt' = q /\ user' = v /\ rt.intentional_stop_ /\ rt.stops + 1 \in Nat
        BY <1>5, <2>5 DEF Stop, IInv, Good, Reasons
    <2>2. q \in Runtimes /\ Eases(rt, q) /\ Justifies(rt, q, v)
        BY <1>1, <2>1 DEF Runtimes, Eases, Justifies, Explained
    <2>3. v \in [at : {"idle", "checked", "intended", "requested", "announced"}, calls : Nat]
        BY <1>1
    <2> HIDE DEF q, v
    <2> QED BY <1>1, <2>1, <2>2, <2>3, OwnerStep
<1> QED BY <1>2, <1>3, <1>4, <1>5 DEF Stop

(* stop() is called and finds the runtime running.                         *)
LEMMA CallStopStep == IInv /\ CallStop => IInv'
PROOF
<1> SUFFICES ASSUME IInv, CallStop PROVE IInv'
    OBVIOUS
<1> DEFINE v == [at |-> "checked", calls |-> user.calls + 1]
<1>1. rt' = rt /\ user' = v /\ UNCHANGED <<tunnels, net, reader>>
    BY DEF CallStop
<1>2. v \in [at : {"idle", "checked", "intended", "requested", "announced"}, calls : Nat]
    BY DEF IInv, TypeInv
<1>3. Justifies(rt, rt, v)
    BY SameRuntime DEF Justifies
<1> HIDE DEF v
<1> QED BY <1>1, <1>2, <1>3, SameRuntime, OwnerStep
-------------------------------------------------------------------------------
(* Nothing has been started.                                               *)
LEMMA InitHolds == Init => IInv
PROOF
<1> SUFFICES ASSUME Init PROVE IInv
    OBVIOUS
<1>1. rt = Fresh
    BY DEF Init
<1>2. rt \in Runtimes
    <2>1. "Stopped" \in States /\ "idle" \in Places /\ "off" \in Timers /\ 0 \in Optional /\ {} \in Sets
        BY DEF States, Places, Timers, Optional, Sets
    <2> QED BY <1>1, <2>1 DEF Fresh, Runtimes
<1>3. /\ rt.io = "idle" /\ rt.state_ = "Stopped" /\ rt.started_ = FALSE /\ rt.begin = FALSE
      /\ rt.finished_ = FALSE /\ rt.stop_requested_ = FALSE /\ rt.connection_generation_ = 0
      /\ rt.tunnel_ = 0 /\ rt.resolving = {} /\ rt.connecting = {} /\ rt.expired = {}
      /\ rt.tunnelAborts = {} /\ rt.connection_timer_ = 0 /\ rt.reconnect_timer_ = "off" /\ rt.stops = 0
    BY <1>1 DEF Fresh
<1>4. net = 0 /\ reader.at = "none" /\ user.at = "idle" /\ \A g \in Generations : tunnels[g] = "none"
    BY DEF Init
<1>5. TypeInv
    BY <1>2 DEF Init, TypeInv, Optional
<1>6. Links(rt, tunnels, net, reader)
    BY <1>3, <1>4 DEF Links, Counted, Waiting, Current, Attached
<1>7. Reasons(rt, reader, user) /\ Ends(rt, net, reader)
    BY <1>3, <1>4 DEF Reasons, Ends
<1> QED BY <1>2, <1>5, <1>6, <1>7 DEF IInv, Good

(* Every handler, thread and call of the owner keeps the invariant.        *)
LEMMA Inductive == IInv /\ [Next]_vars => IInv'
PROOF
<1> SUFFICES ASSUME IInv, [Next]_vars PROVE IInv'
    OBVIOUS
<1>1. CASE Handlers
    BY <1>1, RunBeginStep, HandleResolveStep, HandleConnectStep, ActivateStep, ConnectedStep,
       RunTunnelStopStep, RunTunnelAbortStep, ConnectionTimerHandlerStep, ReconnectTimerHandlerStep,
       RunStopStep, RetryJoinedStep, FinishJoinedStep DEF Handlers
<1>2. CASE Reader
    BY <1>2, ReaderChecksStep, ReaderFailsStep, ReaderReceivesStep DEF Reader
<1>3. CASE Stop
    BY <1>3, StopStep
<1>4. CASE Environment
    <2>1. ASSUME NEW g \in Generations, NEW remote_error \in BOOLEAN, NEW retryable \in BOOLEAN,
                 TunnelCloses(g, remote_error, retryable)
          PROVE  IInv'
        BY <2>1, ClosingStep DEF TunnelCloses, Open
    <2> QED BY <1>4, <2>1, StartStep, CallStopStep, ConnectionTimerExpiresStep, ReconnectTimerExpiresStep,
               HandleAssignmentStep, DeliveryFailsStep DEF Environment
<1>5. CASE UNCHANGED vars
    BY <1>5, RuntimeStep DEF vars, IInv
<1> QED BY <1>1, <1>2, <1>3, <1>4, <1>5 DEF Next

(* The invariant holds in every state of the runtime.                      *)
THEOREM Invariance == Spec => []IInv
PROOF BY InitHolds, Inductive, PTL DEF Spec

(* run_packet_reader waits in receive_packet only on the session of its    *)
(* own tunnel, and configure_network never finds an old network or reader. *)
THEOREM SessionOutlivesReader == Spec => []ReaderHasSession
PROOF
<1>1. IInv => ReaderHasSession
    BY DEF IInv, TypeInv, Good, Links, Attached, ReaderHasSession
<1> QED BY <1>1, Invariance, PTL

(* deliver_to_packet_device writes only to the network of the tunnel that  *)
(* the packet came from.                                                   *)
THEOREM DeliversHome == Spec => []DeliversToOwnNetwork
PROOF
<1>1. IInv => DeliversToOwnNetwork
    BY GenerationFacts DEF IInv, Good, Links, Current, Attached, DeliversToOwnNetwork
<1> QED BY <1>1, Invariance, PTL

(* The end of the I/O thread is always clean: whichever call fails, on     *)
(* whichever thread, finish_on_io has rolled the network back and joined   *)
(* the reader, and a stop of the owner is never reported as a failure.     *)
THEOREM RuntimeEndsClean == Spec => []EndsClean
PROOF
<1>1. IInv => EndsClean
    BY DEF IInv, Good, Reasons, Ends, EndsClean
<1> QED BY <1>1, Invariance, PTL
===============================================================================
