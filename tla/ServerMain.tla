------------------------------- MODULE ServerMain -------------------------------
(***************************************************************************)
(* run_server and the life cycle of TlsTunnelServer: the work that keeps   *)
(* io_context::run from returning (the accept, the TUN device, sessions,   *)
(* the wait for signals, the metrics timer, posted handlers) and how a     *)
(* stop, asked for by a signal, a device failure or an accept error, takes *)
(* it away.  Sessions are counted only; TunnelServer and TlsTunnelSession  *)
(* model them.  An operation that is cancelled after it has completed      *)
(* still runs its handler without an error, as in Asio.                    *)
(***************************************************************************)
EXTENDS TlsSecurity

CONSTANTS
    maximum_sessions_,
    Metrics,            \* metrics_interval_seconds is not zero
    Signals,            \* the signals that arrive, of "hup" and "term"
    MaxSignals          \* bound on the signals that arrive

VARIABLES
    started_, stopping_,
    shutdown_handler_,  \* the server still has its shutdown handler
    accept,             \* "none", "pending", or the result waiting for handle_accept
    tun,                \* "idle", "open", "failed": its error handler is to run, "closed"
    open,               \* sessions running
    closed,             \* sessions whose remove_session is posted
    signals,            \* "none", "waiting", or the signal waiting for its handler
    undelivered,        \* signals raised while nobody waited
    raised,             \* number of signals raised so far
    metrics,            \* "none", "waiting", "expired"
    stops,              \* stop_on_strand calls posted
    reloads,            \* reload_tls_context calls posted
    running             \* io_context::run has not returned

server == <<started_, stopping_, shutdown_handler_>>
sessions == <<open, closed>>
wait == <<signals, undelivered, raised>>
strand == <<stops, reloads>>
mainVars == <<server, credentials, accept, tun, sessions, wait, metrics, strand, running>>

MainInit ==
    /\ started_ = FALSE /\ stopping_ = FALSE /\ shutdown_handler_ = TRUE
    /\ CredentialsInit
    /\ accept = "none" /\ tun = "idle"
    /\ open = 0 /\ closed = 0
    /\ signals = "waiting" /\ undelivered = [s \in Signals |-> 0] /\ raised = 0
    /\ metrics = IF Metrics THEN "waiting" ELSE "none"
    /\ stops = 0 /\ reloads = 0
    /\ running = TRUE

sessions_ == open + closed

(* A handler of the server can run: no reload holds its strand.            *)
OnStrand == running /\ ~Loading
-------------------------------------------------------------------------------
(* start_on_strand.                                                        *)
start_on_strand ==
    /\ OnStrand /\ ~started_
    /\ started_' = TRUE
    /\ IF stopping_ THEN UNCHANGED <<accept, tun>> ELSE accept' = "pending" /\ tun' = "open"
    /\ UNCHANGED <<stopping_, shutdown_handler_, credentials, sessions, wait, metrics, strand, running>>

\* Mutant: the device is left open.
StopButTun(left) ==
    /\ stopping_' = TRUE
    /\ shutdown_handler_' = FALSE
    /\ accept' = left
    /\ signals' = IF signals = "waiting" THEN "none" ELSE signals
    /\ metrics' = IF metrics = "waiting" THEN "none" ELSE metrics
    /\ UNCHANGED <<started_, credentials, tun, sessions, undelivered, raised, reloads, running>>

(* stop_on_strand with the shutdown handler of run_server: what is pending *)
(* is cancelled, what has completed keeps its handler; `left` is what is   *)
(* left of the accept.  The device and the sessions are told through their *)
(* own strands.                                                            *)
stop_on_strand(left) ==
    /\ stopping_' = TRUE
    /\ shutdown_handler_' = FALSE
    /\ accept' = left
    /\ tun' = "closed"
    /\ signals' = IF signals = "waiting" THEN "none" ELSE signals
    /\ metrics' = IF metrics = "waiting" THEN "none" ELSE metrics
    /\ UNCHANGED <<started_, credentials, sessions, undelivered, raised, reloads, running>>

Stop ==
    /\ OnStrand /\ stops > 0
    /\ stops' = stops - 1
    /\ IF stopping_
       THEN UNCHANGED <<server, credentials, accept, tun, sessions, wait, metrics, reloads, running>>
       ELSE stop_on_strand(IF accept = "pending" THEN "none" ELSE accept)

(* A connection arrives, or the pending accept fails.                      *)
AcceptCompletes(result) ==
    /\ running /\ accept = "pending"
    /\ accept' = result
    /\ UNCHANGED <<server, credentials, tun, sessions, wait, metrics, strand, running>>

(* handle_accept: a socket is served or, at capacity, closed.              *)
HandleSocket ==
    /\ OnStrand /\ accept = "socket"
    /\ accept' = IF stopping_ THEN "none" ELSE "pending"
    /\ open' = IF ~stopping_ /\ sessions_ < maximum_sessions_ THEN open + 1 ELSE open
    /\ UNCHANGED <<server, credentials, tun, closed, wait, metrics, strand, running>>

HandleAborted ==
    /\ OnStrand /\ accept = "aborted"
    /\ accept' = IF stopping_ THEN "none" ELSE "pending"
    /\ UNCHANGED <<server, credentials, tun, sessions, wait, metrics, strand, running>>

HandleAcceptError ==
    /\ OnStrand /\ accept = "error"
    /\ UNCHANGED stops
    /\ IF stopping_
       THEN /\ accept' = "none"
            /\ UNCHANGED <<server, credentials, tun, sessions, wait, metrics, reloads, running>>
       ELSE stop_on_strand("none")

(* A session closes, because of its peer or because it was told to stop,   *)
(* and posts remove_session.                                               *)
SessionCloses ==
    /\ running /\ open > 0
    /\ open' = open - 1 /\ closed' = closed + 1
    /\ UNCHANGED <<server, credentials, accept, tun, wait, metrics, strand, running>>

remove_session ==
    /\ OnStrand /\ closed > 0
    /\ closed' = closed - 1
    /\ UNCHANGED <<server, credentials, accept, tun, open, wait, metrics, strand, running>>

(* The device fails; its error handler posts a stop.                       *)
TunFails ==
    /\ running /\ tun = "open"
    /\ tun' = "failed"
    /\ UNCHANGED <<server, credentials, accept, sessions, wait, metrics, strand, running>>

TunErrorHandler ==
    /\ running /\ tun = "failed"
    /\ tun' = "closed"
    /\ stops' = stops + 1
    /\ UNCHANGED <<server, credentials, accept, sessions, wait, metrics, reloads, running>>
-------------------------------------------------------------------------------
(* A signal arrives.  One that nobody waits for is kept for the next wait. *)
Raise(s) ==
    /\ running /\ raised < MaxSignals
    /\ raised' = raised + 1
    /\ IF signals = "waiting" THEN signals' = s /\ UNCHANGED undelivered
       ELSE undelivered' = [undelivered EXCEPT ![s] = @ + 1] /\ UNCHANGED signals
    /\ UNCHANGED <<server, credentials, accept, tun, sessions, metrics, strand, running>>

(* wait_for_signal: a kept signal completes the wait at once.              *)
wait_for_signal ==
    \/ /\ \A s \in Signals : undelivered[s] = 0
       /\ signals' = "waiting" /\ UNCHANGED undelivered
    \/ \E s \in Signals : /\ undelivered[s] > 0
                          /\ signals' = s
                          /\ undelivered' = [undelivered EXCEPT ![s] = @ - 1]

\* Mutant: only one signal is handled.
HangupOnce ==
    /\ running /\ signals = "hup"
    /\ reloads' = reloads + 1
    /\ signals' = "none"
    /\ UNCHANGED <<undelivered, raised, server, credentials, accept, tun, sessions, metrics, stops, running>>

HandleHangup ==
    /\ running /\ signals = "hup"
    /\ reloads' = reloads + 1
    /\ wait_for_signal
    /\ UNCHANGED <<raised, server, credentials, accept, tun, sessions, metrics, stops, running>>

HandleTerminate ==
    /\ running /\ signals = "term"
    /\ stops' = stops + 1
    /\ signals' = "none"
    /\ UNCHANGED <<undelivered, raised, server, credentials, accept, tun, sessions, metrics, reloads,
                   running>>

(* The handler reload_tls_context posts, up to the check of the key, and   *)
(* the rest of the reload, which has the strand to itself.                 *)
BeginReload ==
    /\ OnStrand /\ reloads > 0
    /\ reloads' = reloads - 1
    /\ IF stopping_ THEN UNCHANGED credentials ELSE validate_server_private_key_permissions
    /\ UNCHANGED <<server, accept, tun, sessions, wait, metrics, stops, running>>

Reload ==
    /\ \/ use_certificate_chain_file \/ open_validated_server_private_key
       \/ \E readable \in BOOLEAN : FinishContext(readable)
    /\ UNCHANGED <<server, accept, tun, sessions, wait, metrics, strand, running>>

(* The operator rotates the credentials.                                   *)
Rotate ==
    /\ running
    /\ InstallChain \/ (\E private \in BOOLEAN : InstallKey(private)) \/ Protect
    /\ UNCHANGED <<server, accept, tun, sessions, wait, metrics, strand, running>>
-------------------------------------------------------------------------------
MetricsExpires ==
    /\ running /\ metrics = "waiting"
    /\ metrics' = "expired"
    /\ UNCHANGED <<server, credentials, accept, tun, sessions, wait, strand, running>>

(* The handler of schedule_metrics.  run_server holds the server until the *)
(* end, so that the weak pointer always locks and the timer is set again.  *)
MetricsHandler ==
    /\ running /\ metrics = "expired"
    /\ metrics' = "waiting"
    /\ UNCHANGED <<server, credentials, accept, tun, sessions, wait, strand, running>>

(* The listener, the device and the sessions are gone.                     *)
ServerIdle == accept = "none" /\ tun = "closed" /\ sessions_ = 0

(* io_context::run returns in every worker when there is no work left.     *)
Return ==
    /\ OnStrand /\ started_
    /\ accept = "none" /\ tun \in {"idle", "closed"} /\ sessions_ = 0 /\ stops = 0 /\ reloads = 0
    /\ signals = "none" /\ metrics = "none"
    /\ running' = FALSE
    /\ UNCHANGED <<server, credentials, accept, tun, sessions, wait, metrics, strand>>

Handlers ==
    \/ start_on_strand \/ Stop \/ HandleSocket \/ HandleAborted \/ HandleAcceptError
    \/ remove_session \/ TunErrorHandler \/ HandleHangup \/ HandleTerminate
    \/ BeginReload \/ Reload \/ MetricsHandler \/ Return

MainNext ==
    \/ Handlers
    \/ \E result \in {"socket", "aborted", "error"} : AcceptCompletes(result)
    \/ SessionCloses \/ TunFails \/ MetricsExpires
    \/ \E s \in Signals : Raise(s)
    \/ Rotate

(* Every queued handler is run, a timer expires, and a session that was    *)
(* told to stop closes (TlsTunnelSession).                                 *)
MainFairness ==
    /\ WF_mainVars(start_on_strand) /\ WF_mainVars(Stop) /\ WF_mainVars(HandleSocket)
    /\ WF_mainVars(HandleAborted) /\ WF_mainVars(HandleAcceptError)
    /\ WF_mainVars(remove_session) /\ WF_mainVars(TunErrorHandler)
    /\ WF_mainVars(HandleHangup) /\ WF_mainVars(HandleTerminate)
    /\ WF_mainVars(BeginReload) /\ WF_mainVars(Reload)
    /\ WF_mainVars(MetricsExpires) /\ WF_mainVars(MetricsHandler) /\ WF_mainVars(Return)
    /\ WF_mainVars(stopping_ /\ SessionCloses)

MainSpec == MainInit /\ [][MainNext]_mainVars /\ MainFairness
-------------------------------------------------------------------------------
(* As long as the server has not stopped it accepts: an accept is pending  *)
(* or its handler is queued, whatever came before.  And what it accepts    *)
(* with is a certificate and a key that belong together, in whatever order *)
(* the operator replaces the two files and whenever a reload reads them.   *)
ServesNewSessions ==
    /\ started_ /\ ~stopping_ => accept # "none"
    /\ ContextMatches

(* Once stopped, by a signal, an accept error or the device, the server    *)
(* gives up its listener, its device and every session.                    *)
StopDrains == stopping_ ~> []ServerIdle

(* No signal is lost, also not one that arrives while another is handled.  *)
(* A request to terminate stops the server.  A SIGHUP that is still to be  *)
(* served when the last file is in place gives new sessions the new        *)
(* credentials, unless the server stops.                                   *)
SignalsServed ==
    /\ "term" \in Signals => (signals = "term" \/ undelivered["term"] > 0) ~> stopping_
    /\ "hup" \in Signals =>
        (files = New /\ (signals = "hup" \/ undelivered["hup"] > 0 \/ reloads > 0))
            ~> (tls_context_ = [chain |-> New.chain, key |-> New.key] \/ stopping_)

(* And the process ends.                                                   *)
ShutdownCompletes == stopping_ ~> ~running
===============================================================================
