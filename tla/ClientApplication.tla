--------------------------- MODULE ClientApplication ---------------------------
(***************************************************************************)
(* The Windows program with a full-tunnel profile: the window thread of    *)
(* UIMain, VPNClientCore, the I/O thread of the runtime that the core      *)
(* owns, and the protection of KillSwitch that this thread enables.  The   *)
(* I/O thread reports its state in callbacks that store flags of the core; *)
(* the window reads them once per frame and decides by its copies.         *)
(***************************************************************************)
EXTENDS KillSwitch

VARIABLES
    ui,             \* where the window thread is, "closed" for no process
    goal,           \* what the window thread calls VPNClientCore::Stop for
    view,           \* m_isConnected, m_isStarting and whether there is a profile
    core,           \* runtime_ (set or not), connected_ and running_
    stopping,       \* stop_requested_ of the runtime, its stop handler posted
    event           \* the callback the I/O thread is in

window == <<ui, goal, view>>
app == <<window, core, stopping, event>>
vars == <<protection, app>>

NoView == [m_isConnected |-> FALSE, m_isStarting |-> FALSE, m_clientConfig |-> FALSE]
NewCore == [runtime_ |-> FALSE, connected_ |-> FALSE, running_ |-> FALSE]

Init ==
    /\ ProtectionInit
    /\ ui = "closed" /\ goal = "none" /\ view = NoView
    /\ core = NewCore
    /\ stopping = FALSE /\ event = "none"

(* The window thread goes on to another place and does nothing else.       *)
Go(from, to) == ui = from /\ ui' = to

Idle == ~view.m_isConnected /\ ~view.m_isStarting

(* VPNClientCore::Stop is called, to go on with what was wanted.           *)
CallStop(wanted) == ui' = "take" /\ goal' = wanted
-------------------------------------------------------------------------------
(* main up to its loop.                                                    *)
Launch ==
    /\ Go("closed", "frame")
    /\ view' = NoView /\ core' = NewCore
    /\ UNCHANGED <<protection, goal, stopping, event>>

(* Update, in the order in which it loads the flags of the core.           *)
LoadConnected ==
    /\ Go("frame", "update")
    /\ view' = [view EXCEPT !.m_isConnected = core.connected_]
    /\ UNCHANGED <<protection, goal, core, stopping, event>>

LoadRunning ==
    /\ Go("update", "buttons")
    /\ view' = [view EXCEPT !.m_isStarting = core.running_ /\ ~view.m_isConnected]
    /\ UNCHANGED <<protection, goal, core, stopping, event>>

(* Render: no button is pressed, a profile is imported, or one of the      *)
(* three buttons is pressed.                                               *)
NoButton ==
    /\ Go("buttons", "frame")
    /\ UNCHANGED <<protection, goal, view, core, stopping, event>>

ImportConfig(valid) ==
    /\ Idle
    /\ Go("buttons", "frame")
    /\ view' = [view EXCEPT !.m_clientConfig = @ \/ valid]
    /\ UNCHANGED <<protection, goal, core, stopping, event>>

(* StartVPN up to the answer to its question.                              *)
StartVPN ==
    /\ Idle /\ view.m_clientConfig
    /\ Go("buttons", "confirm start")
    /\ UNCHANGED <<protection, goal, view, core, stopping, event>>

AskDisable ==
    /\ Idle
    /\ Go("buttons", "confirm disable")
    /\ UNCHANGED <<protection, goal, view, core, stopping, event>>

AnswerNo ==
    /\ ui \in {"confirm start", "confirm disable"}
    /\ ui' = "frame"
    /\ UNCHANGED <<protection, goal, view, core, stopping, event>>

ConfirmStart ==
    /\ ui = "confirm start" /\ CallStop("start")
    /\ UNCHANGED <<protection, view, core, stopping, event>>

\* Mutant: the protection is removed without stopping the core first.
ConfirmDisableOnly ==
    /\ Go("confirm disable", "disable")
    /\ UNCHANGED <<protection, goal, view, core, stopping, event>>

ConfirmDisable ==
    /\ ui = "confirm disable" /\ CallStop("disable")
    /\ UNCHANGED <<protection, view, core, stopping, event>>

StopVPN ==
    /\ ui = "buttons" /\ ~Idle /\ CallStop("stop")
    /\ UNCHANGED <<protection, view, core, stopping, event>>

(* The window is closed: ~UIMain stops the VPN if it believes that there   *)
(* is one, and ~VPNClientCore stops what is left.                          *)
CloseWindow ==
    /\ ui = "frame" /\ CallStop(IF Idle THEN "exit" ELSE "stop and exit")
    /\ UNCHANGED <<protection, view, core, stopping, event>>
-------------------------------------------------------------------------------
(* VPNClientCore::Stop: take the runtime, request its stop, join it, clear *)
(* the flags and destroy it.                                               *)
TakeRuntime ==
    /\ Go("take", IF core.runtime_ THEN "request" ELSE "clear")
    /\ core' = [core EXCEPT !.runtime_ = FALSE]
    /\ UNCHANGED <<protection, goal, view, stopping, event>>

\* Mutant: the runtime that is not connected is not told to stop.
RequestConnectedStop ==
    /\ Go("request", "join")
    /\ IF client = "ended" \/ ~core.connected_ THEN UNCHANGED <<core, stopping>>
       ELSE stopping' = TRUE /\ core' = [core EXCEPT !.connected_ = FALSE]
    /\ UNCHANGED <<protection, goal, view, event>>

(* ClientRuntime::stop, nothing for one that has finished.                 *)
RequestStop ==
    /\ Go("request", "join")
    /\ IF client = "ended" THEN UNCHANGED <<core, stopping>>
       ELSE stopping' = TRUE /\ core' = [core EXCEPT !.connected_ = FALSE]
    /\ UNCHANGED <<protection, goal, view, event>>

(* ClientRuntime::wait: the I/O thread has ended, or was never created.    *)
Join ==
    /\ client \in {"ended", "broken"} /\ event = "none"
    /\ Go("join", "clear")
    /\ UNCHANGED <<protection, goal, view, core, stopping, event>>

Clear ==
    /\ ui = "clear"
    /\ core' = [core EXCEPT !.connected_ = FALSE, !.running_ = FALSE]
    /\ ui' = "destroy"
    /\ UNCHANGED <<protection, goal, view, stopping, event>>

(* The runtime and its backend are destroyed, and the caller goes on.      *)
Destroy ==
    /\ ui = "destroy"
    /\ Release /\ UNCHANGED <<tx, defaults, disabler>>
    /\ ui' = CASE goal = "start" -> "construct"
               [] goal = "disable" -> "disable"
               [] goal = "stop" -> "frame"
               [] goal = "stop and exit" -> "take"
               [] goal = "exit" -> "closed"
    /\ goal' = IF goal = "stop and exit" THEN "exit" ELSE "none"
    /\ view' = IF goal \in {"stop", "stop and exit"}
               THEN [view EXCEPT !.m_isConnected = FALSE, !.m_isStarting = FALSE] ELSE view
    /\ stopping' = FALSE
    /\ UNCHANGED <<core, event>>
-------------------------------------------------------------------------------
(* The rest of VPNClientCore::Start.                                       *)
Construct ==
    /\ Go("construct", "mark")
    /\ client' = "made"
    /\ core' = [core EXCEPT !.runtime_ = TRUE]
    /\ UNCHANGED <<policy, tx, permit, network, disabler, goal, view, stopping, event>>

ConstructFails ==
    /\ Go("construct", "frame")
    /\ core' = [core EXCEPT !.connected_ = FALSE, !.running_ = FALSE]
    /\ UNCHANGED <<protection, goal, view, stopping, event>>

\* Mutant: running_ is set when start has returned.
MarkLater ==
    /\ Go("mark", "run")
    /\ UNCHANGED <<protection, goal, view, core, stopping, event>>

Mark ==
    /\ Go("mark", "run")
    /\ core' = [core EXCEPT !.running_ = TRUE]
    /\ UNCHANGED <<protection, goal, view, stopping, event>>

(* ClientRuntime::start, with its event Starting.                          *)
Run ==
    /\ Go("run", "started")
    /\ client' = "idle"
    /\ core' = [core EXCEPT !.connected_ = FALSE]
    /\ UNCHANGED <<policy, tx, permit, network, disabler, goal, view, stopping, event>>

(* The thread cannot be created: the runtime stays, without a thread.      *)
RunFails ==
    /\ Go("run", "frame")
    /\ client' = "broken"
    /\ core' = [core EXCEPT !.connected_ = FALSE, !.running_ = FALSE]
    /\ UNCHANGED <<policy, tx, permit, network, disabler, goal, view, stopping, event>>

Started ==
    /\ Go("started", "frame")
    /\ view' = [view EXCEPT !.m_isStarting = TRUE]
    /\ UNCHANGED <<protection, goal, core, stopping, event>>
-------------------------------------------------------------------------------
(* The I/O thread, between two callbacks.                                  *)
IoEnable ==
    /\ event = "none" /\ (client = "idle" => ~stopping)
    /\ EnableNext
    /\ UNCHANGED app

IoConnect ==
    /\ event = "none" /\ ~stopping
    /\ Connect
    /\ event' = "Connected"
    /\ UNCHANGED <<window, core, stopping>>

IoRetry ==
    /\ event = "none" /\ ~stopping
    /\ Retry
    /\ event' = "Reconnecting"
    /\ UNCHANGED <<window, core, stopping>>

(* finish_on_io: requested, or for an error that is not tried again.       *)
IoFinish ==
    /\ event = "none" /\ (client = "idle" => stopping)
    /\ Finish
    /\ event' = "Failed or Stopped"
    /\ UNCHANGED <<window, core, stopping>>

\* Mutant: a connection that is lost is taken for one that has ended.
OnRuntimeEventLost ==
    /\ event \notin {"none", "thread"}
    /\ IF event = "running_"
       THEN core' = [core EXCEPT !.running_ = FALSE] /\ event' = "none"
       ELSE /\ core' = [core EXCEPT !.connected_ = event = "Connected"]
            /\ event' = IF event = "Connected" THEN "thread" ELSE "running_"
    /\ UNCHANGED <<protection, window, stopping>>

(* OnRuntimeEvent: one store after the other.                              *)
OnRuntimeEvent ==
    /\ event \notin {"none", "thread"}
    /\ IF event = "running_"
       THEN core' = [core EXCEPT !.running_ = FALSE] /\ event' = "none"
       ELSE /\ core' = [core EXCEPT !.connected_ = event = "Connected"]
            /\ event' = CASE event = "Failed or Stopped" -> "running_"
                         [] event = "Connected" -> "thread"
                         [] OTHER -> "none"
    /\ UNCHANGED <<protection, window, stopping>>

(* After the event Connected the packet thread is created.  If it cannot   *)
(* be, the tunnel closes for good and finish_on_io rolls it back.          *)
IoThread ==
    /\ event = "thread"
    /\ \/ event' = "none" /\ UNCHANGED protection
       \/ event' = "Failed or Stopped" /\ Finish
    /\ UNCHANGED <<window, core, stopping>>
-------------------------------------------------------------------------------
(* The window thread in DisableKillSwitch, and the other process.          *)
WindowDisable ==
    /\ ui = "disable"
    /\ \E found \in BOOLEAN : Disable("window", found)
    /\ ui' = "disabling"
    /\ UNCHANGED <<goal, view, core, stopping, event>>

WindowRemoval ==
    /\ ui = "disabling"
    /\ RemovalNext("window")
    /\ ui' = IF disabler'["window"] = "idle" THEN "frame" ELSE ui
    /\ UNCHANGED <<goal, view, core, stopping, event>>

CommandDisable ==
    /\ \E found \in BOOLEAN : Disable("command", found)
    /\ UNCHANGED app

CommandRemoval == RemovalNext("command") /\ UNCHANGED app

(* The program crashes: the platform aborts its transaction and closes its *)
(* session, the default routes may stay.                                   *)
Crash ==
    /\ ui # "closed"
    /\ ui' = "closed" /\ goal' = "none" /\ view' = NoView
    /\ core' = NewCore /\ stopping' = FALSE /\ event' = "none"
    /\ Release
    /\ tx' = IF tx.owner \in {"client", "window"} THEN NoTx ELSE tx
    /\ disabler' = [disabler EXCEPT !["window"] = "idle"]
    /\ defaults' \in {defaults, FALSE}

CoreNext ==
    \/ TakeRuntime \/ RequestStop \/ Join \/ Clear \/ Destroy
    \/ Construct \/ ConstructFails \/ Mark \/ Run \/ RunFails \/ Started
    \/ WindowDisable \/ WindowRemoval

IoNext == IoEnable \/ IoConnect \/ IoRetry \/ IoFinish \/ OnRuntimeEvent \/ IoThread

Next ==
    \/ Launch \/ LoadConnected \/ LoadRunning \/ NoButton \/ (\E valid \in BOOLEAN : ImportConfig(valid))
    \/ StartVPN \/ AskDisable \/ AnswerNo \/ ConfirmStart \/ ConfirmDisable \/ StopVPN \/ CloseWindow
    \/ CoreNext \/ IoNext \/ CommandDisable \/ CommandRemoval \/ Crash

(* The threads of the program run, and the other process ends what it has  *)
(* begun; nobody has to press a button.                                    *)
Fairness == WF_vars(CoreNext) /\ WF_vars(IoNext) /\ WF_vars(CommandRemoval)

Spec == Init /\ [][Next]_vars /\ Fairness
-------------------------------------------------------------------------------
Live == client \notin {"off", "made", "ended", "broken"}

(* Between two frames the flags of the core tell the truth about the       *)
(* runtime, however its callbacks and the calls of the window interleaved: *)
(* running_ is set exactly while the I/O thread lives, connected_ exactly  *)
(* while there is a tunnel, also when the tunnel fails right after its     *)
(* event Connected.                                                        *)
StatusIsTrue ==
    ui \in {"frame", "update", "buttons"} /\ event = "none" =>
        /\ core.running_ = Live
        /\ core.connected_ = (client = "connected")

(* Connect and "disable the protection" stop what VPNClientCore still has, *)
(* and are offered by flags read a frame ago: they never stop a tunnel     *)
(* that works or is being established.                                     *)
ButtonsSpareTunnel == goal \in {"start", "disable"} => ~Live

(* The window removes the protection only when its own runtime is gone:    *)
(* the dynamic permit of the process no longer holds the sublayer, which   *)
(* could not be removed.                                                   *)
WindowDisablesAlone == ui \in {"disable", "disabling"} => client = "off" /\ permit = 0

(* Every call of Stop returns: the I/O thread can be joined wherever the   *)
(* request meets it, also in the middle of enabling the protection.        *)
StopReturns == ui = "take" ~> ui \in {"frame", "closed"}
===============================================================================
