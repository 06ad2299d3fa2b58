------------------------------ MODULE ClientProofs ------------------------------
(***************************************************************************)
(* The client application and its end of the tunnel, for every set of      *)
(* servers, any number of connections, any limits of the queue of frames,  *)
(* any number of frames in one read and of posted calls.  No interleaving  *)
(* of the window, the I/O thread, a crash and another process leaves half  *)
(* a policy or a tunnel without it, and the flags that the buttons look at *)
(* never say less than what runs.  What the tunnel writes is what it       *)
(* numbered, its last frame ends the conversation, and packets pass only   *)
(* with a configured network.                                              *)
(***************************************************************************)
EXTENDS ClientApplication, TlsTunnelClient, FrameProofs

USE QueueConstants

Policies == [sublayer : BOOLEAN, boot : SUBSET Families,
             allow : SUBSET Endpoints, block : SUBSET Families]

(* A policy by what it has of each of its parts.                           *)
Has(p, boot, allow, block) == p.sublayer = TRUE /\ p.boot = boot /\ p.allow = allow /\ p.block = block

(* The policy is complete for a set of servers.                            *)
Full(p, servers) == Has(p, Families, servers, Families)

Of(family) == {e \in endpoints : e[1] = family}

Updating == {"provider", "delete", "boot", "ipv4", "ipv6", "commit"}
Committed == {"routes", "bypass", "close permit", "open permit"}
Tunnel == {"connecting", "connected"}

TypeInv ==
    /\ policy \in Policies /\ tx \in [owner : {"none", "client"} \cup Disablers, view : Policies]
    /\ adapter \in Nat /\ opened \in Nat
    /\ endpoints \in SUBSET Endpoints /\ bypass \in SUBSET Endpoints
    /\ disabler \in [Disablers -> {"idle", "cleaned", "removing"}]

(* What VPNClientCore::Stop is called for.                                 *)
Goals == {"start", "disable", "stop", "stop and exit", "exit"}

(* Where the window thread is tells what the I/O thread cannot be doing,   *)
(* so that nobody takes the runtime away in the middle of a transaction.   *)
WindowInv ==
    /\ core \in [runtime_ : BOOLEAN, connected_ : BOOLEAN, running_ : BOOLEAN]
    /\ ui \in {"closed", "disable", "disabling", "construct"} => client = "off"
    /\ ui \in {"mark", "run"} => client = "made" /\ core.runtime_
    /\ ui \in {"clear", "destroy"} => client \in {"off", "ended", "broken"}
    /\ ui \notin {"request", "join", "clear", "destroy"} /\ ~core.runtime_ => client = "off"
    /\ ui \in {"take", "request", "join", "clear", "destroy"} => goal \in Goals
    /\ event \in {"Connected", "thread"} => client = "connected"

(* What the view of an update holds at each place.                         *)
Written(place, made) ==
    /\ place = "delete" => made.sublayer = TRUE
    /\ place = "boot" => Has(made, {}, {}, {})
    /\ place = "ipv4" => Has(made, Families, {}, {})
    /\ place = "ipv6" => Has(made, Families, Of("ipv4"), {"ipv4"})
    /\ place = "commit" => Full(made, endpoints)

(* The platform has one writer at a time, and an update has written what   *)
(* the place where the client is says.                                     *)
WriterInv ==
    /\ tx.owner = "client" <=> client \in Updating
    /\ \A d \in Disablers : tx.owner = d <=> disabler[d] = "removing"
    /\ tx.owner \in Disablers => tx.view = NoPolicy
    /\ Written(client, tx.view)

(* What is in force, and what a connection rests on.                       *)
PolicyInv ==
    /\ policy # NoPolicy => \E servers \in (SUBSET Endpoints) \ {{}} : Full(policy, servers)
    /\ client \in Enabling \cup Tunnel => endpoints # {} /\ adapter # 0
    /\ client \in Committed => policy = NoPolicy \/ Full(policy, endpoints)
    /\ client \in {"close permit", "open permit"} \cup Tunnel => endpoints \subseteq bypass
    /\ client \in Tunnel => Full(policy, endpoints) /\ permit = adapter

ProtectionInv == TypeInv /\ WriterInv /\ PolicyInv

(* The window thread in VPNClientCore::Stop, and outside of it with a      *)
(* runtime that runs on its own.                                           *)
Stopping == {"take", "request", "join", "clear", "destroy"}
Calm == {"started", "frame", "update", "buttons", "confirm start", "confirm disable", "take"}

(* What the flags of the core say of the I/O thread, by the callback it is *)
(* in: between two stores of OnRuntimeEvent one of them may be old.        *)
FlagsAgree ==
    /\ event = "none" => core.running_ = Live /\ core.connected_ = (client = "connected")
    /\ event \in {"Connected", "thread", "Reconnecting"} => core.running_
    /\ event = "thread" => core.connected_
    /\ event = "running_" => ~core.connected_

(* Which callback the I/O thread can be in, by where it is.                *)
EventInv ==
    /\ event \in {"none", "Connected", "thread", "Reconnecting", "Failed or Stopped", "running_"}
    /\ event = "Reconnecting" => client = "idle"
    /\ event \in {"Failed or Stopped", "running_"} => client = "ended"
    /\ ui \in {"clear", "destroy"} => event = "none"

(* The flags are true while the runtime runs on its own, and cleared when  *)
(* there is none.                                                          *)
FlagsInv ==
    /\ ui \in Calm => FlagsAgree
    /\ ui \in {"destroy", "construct", "disable", "disabling"} => ~core.running_ /\ ~core.connected_
    /\ ui = "run" => core.running_

(* A window that offers Connect has seen running_ cleared, and only the    *)
(* window itself can start another runtime.                                *)
ButtonInv ==
    /\ ui \notin Stopping => goal = "none"
    /\ (ui = "buttons" /\ Idle) \/ ui \in {"confirm start", "confirm disable"} => ~Live
    /\ goal \in {"start", "disable"} => ~Live
    /\ view \in [m_isConnected : BOOLEAN, m_isStarting : BOOLEAN, m_clientConfig : BOOLEAN]
    /\ client = "off" => permit = 0

StatusInv == EventInv /\ FlagsInv /\ ButtonInv

IInv == WindowInv /\ ProtectionInv /\ StatusInv
-------------------------------------------------------------------------------
(* Where the client is when it takes a step of enable_kill_switch, and     *)
(* where that step leads.                                                  *)
LEMMA EnableMoves ==
    ASSUME EnableNext
    PROVE  client \in Enabling \cup {"idle"} /\ client' \in Enabling \cup {"connecting", "failed"}
PROOF BY Zenon DEF EnableNext, Enable, BeginUpdate, ensure_provider_and_sublayer, delete_provider_filters,
             AddBootFilters, add_family_policy, CommitUpdate, remove_owned_default_routes,
             add_transport_bypass_routes, ClosePermit, OpenPermit, Throw, Update, Enabling, Families

(* A disabler leaves the client alone.                                     *)
LEMMA RemovalMoves ==
    ASSUME NEW d \in Disablers, RemovalNext(d)
    PROVE  client' = client /\ permit' = permit
PROOF BY DEF RemovalNext, BeginRemoval, disable_windows_kill_switch, DisableFails

(* The window, its command threads and the client core take turns as their *)
(* flags allow.                                                            *)
LEMMA WindowStep == IInv /\ [Next]_vars => WindowInv'
PROOF
<1> SUFFICES ASSUME WindowInv, [Next]_vars PROVE WindowInv'
    BY DEF IInv
<1>1. CASE UNCHANGED vars
    BY <1>1 DEF vars, app, window, protection, WindowInv
<1>2. CASE Launch
    BY <1>2 DEF Launch, Go, NewCore, protection, WindowInv
<1>15. CASE LoadConnected \/ LoadRunning \/ NoButton \/ (\E valid \in BOOLEAN : ImportConfig(valid))
    BY <1>15 DEF LoadConnected, LoadRunning, NoButton, ImportConfig, Go, protection, WindowInv
<1>3. CASE StartVPN \/ AskDisable \/ AnswerNo \/ ConfirmStart \/ ConfirmDisable \/ StopVPN \/ CloseWindow
    BY <1>3, Zenon DEF StartVPN, AskDisable, AnswerNo, ConfirmStart, ConfirmDisable, StopVPN, CloseWindow,
                CallStop, Goals, Go, protection, WindowInv
<1>4. CASE TakeRuntime \/ RequestStop \/ Join \/ Clear
    BY <1>4, Zenon DEF TakeRuntime, RequestStop, Join, Clear, Go, protection, WindowInv
<1>5. CASE Destroy
    BY <1>5, Zenon DEF Destroy, Release, Goals, WindowInv
<1>6. CASE Construct \/ ConstructFails \/ Mark \/ Run \/ RunFails \/ Started
    BY <1>6, Zenon DEF Construct, ConstructFails, Mark, Run, RunFails, Started, Go, protection, WindowInv
<1>7. CASE WindowDisable
    BY <1>7 DEF WindowDisable, Disable, WindowInv
<1>8. CASE WindowRemoval
    BY <1>8, RemovalMoves DEF WindowRemoval, Disablers, WindowInv
<1>9. CASE IoEnable
    BY <1>9, EnableMoves, Zenon DEF IoEnable, app, window, WindowInv, Enabling
<1>10. CASE IoConnect \/ IoRetry \/ IoFinish
    BY <1>10, Zenon DEF IoConnect, IoRetry, IoFinish, Connect, Retry, Finish, window, WindowInv
<1>11. CASE OnRuntimeEvent
    BY <1>11, Zenon DEF OnRuntimeEvent, protection, window, WindowInv
<1>12. CASE IoThread
    BY <1>12, Zenon DEF IoThread, Finish, protection, window, WindowInv
<1>13. CASE CommandDisable \/ CommandRemoval
    BY <1>13, RemovalMoves DEF CommandDisable, CommandRemoval, Disable, Disablers, app, window, WindowInv
<1>14. CASE Crash
    BY <1>14 DEF Crash, Release, NewCore, WindowInv
<1> QED
    BY <1>1, <1>2, <1>3, <1>4, <1>5, <1>6, <1>7, <1>8, <1>9, <1>10, <1>11, <1>12, <1>13, <1>14, <1>15
    DEF Next, CoreNext, IoNext
-------------------------------------------------------------------------------
(* Enabling starts and ends with a thread that lives.                      *)
LEMMA EnableLives ==
    ASSUME EnableNext
    PROVE  Live /\ Live' /\ client # "connected" /\ client' # "connected" /\ client' # "off"
PROOF BY EnableMoves, Zenon DEF Enabling, Live

(* The steps of the window outside of Stop and Start leave the I/O thread  *)
(* alone: what it offers is decided by what it has read.                   *)
LEMMA ViewSteps ==
    ASSUME WindowInv, StatusInv,
           \/ Launch \/ LoadConnected \/ LoadRunning \/ NoButton \/ (\E valid \in BOOLEAN : ImportConfig(valid))
           \/ StartVPN \/ AskDisable \/ AnswerNo \/ ConfirmStart \/ ConfirmDisable \/ StopVPN \/ CloseWindow
    PROVE  StatusInv'
PROOF
<1> USE DEF protection, EventInv, FlagsInv, ButtonInv, FlagsAgree, Live, Calm, Stopping, Idle, StatusInv
<1>1. CASE Launch
    BY <1>1, Zenon DEF Launch, Go, NewCore, NoView, WindowInv
<1>2. CASE LoadConnected
    BY <1>2, Zenon DEF LoadConnected, Go, WindowInv
<1>3. CASE LoadRunning
    BY <1>3, Zenon DEF LoadRunning, Go, WindowInv
<1>4. CASE NoButton \/ (\E valid \in BOOLEAN : ImportConfig(valid))
    BY <1>4, Zenon DEF NoButton, ImportConfig, Go
<1>5. CASE StartVPN \/ AskDisable \/ AnswerNo
    BY <1>5, Zenon DEF StartVPN, AskDisable, AnswerNo, Go
<1>6. CASE ConfirmStart \/ ConfirmDisable \/ StopVPN \/ CloseWindow
    BY <1>6, Zenon DEF ConfirmStart, ConfirmDisable, StopVPN, CloseWindow, CallStop
<1> QED BY <1>1, <1>2, <1>3, <1>4, <1>5, <1>6, Zenon

(* The steps of VPNClientCore::Stop.                                       *)
LEMMA StopSteps ==
    ASSUME WindowInv, StatusInv, TakeRuntime \/ RequestStop \/ Join \/ Clear \/ Destroy
    PROVE  StatusInv'
PROOF
<1> USE DEF protection, EventInv, FlagsInv, ButtonInv, FlagsAgree, Live, Calm, Stopping, Idle, StatusInv
<1>1. CASE TakeRuntime
    BY <1>1, Zenon DEF TakeRuntime, Go, WindowInv
<1>2. CASE RequestStop
    BY <1>2, Zenon DEF RequestStop, Go, WindowInv
<1>3. CASE Join \/ Clear
    BY <1>3, Zenon DEF Join, Clear, Go, WindowInv
<1>4. CASE Destroy
    BY <1>4, Zenon DEF Destroy, Release, Goals, WindowInv
<1> QED BY <1>1, <1>2, <1>3, <1>4, Zenon

(* The steps of VPNClientCore::Start, of DisableKillSwitch and a crash.    *)
LEMMA StartSteps ==
    ASSUME WindowInv, StatusInv,
           \/ Construct \/ ConstructFails \/ Mark \/ Run \/ RunFails \/ Started
           \/ WindowDisable \/ WindowRemoval \/ Crash
    PROVE  StatusInv'
PROOF
<1> USE DEF protection, EventInv, FlagsInv, ButtonInv, FlagsAgree, Live, Calm, Stopping, Idle, StatusInv
<1>1. CASE Construct \/ ConstructFails \/ Mark
    BY <1>1, Zenon DEF Construct, ConstructFails, Mark, Go, WindowInv
<1>2. CASE Run \/ RunFails \/ Started
    BY <1>2, Zenon DEF Run, RunFails, Started, Go, WindowInv
<1>3. CASE WindowDisable
    BY <1>3, Zenon DEF WindowDisable, Disable, WindowInv
<1>4. CASE WindowRemoval
    BY <1>4, RemovalMoves, Zenon DEF WindowRemoval, Disablers, WindowInv
<1>5. CASE Crash
    BY <1>5, Zenon DEF Crash, Release, NewCore, NoView, WindowInv
<1> QED BY <1>1, <1>2, <1>3, <1>4, <1>5, Zenon

(* A step that the flags and the callbacks do not depend on.               *)
LEMMA StatusFramed ==
    ASSUME StatusInv, UNCHANGED <<event, client, ui, core, goal, view, permit>>
    PROVE  StatusInv'
PROOF
<1>1. EventInv'
    BY Zenon DEF StatusInv, EventInv
<1>2. FlagsInv'
    BY DEF StatusInv, FlagsInv, FlagsAgree, Live
<1>3. ButtonInv'
    BY Zenon DEF StatusInv, ButtonInv, Live, Idle
<1> QED BY <1>1, <1>2, <1>3 DEF StatusInv

(* The steps of the I/O thread, and of the other process.                  *)
LEMMA IoSteps ==
    ASSUME WindowInv, StatusInv,
           \/ IoEnable \/ IoConnect \/ IoRetry \/ IoFinish \/ OnRuntimeEvent \/ IoThread
           \/ CommandDisable \/ CommandRemoval
    PROVE  StatusInv'
PROOF
<1> USE DEF protection, EventInv, FlagsInv, ButtonInv, FlagsAgree, Live, Calm, Stopping, Idle, StatusInv
<1>1. CASE IoEnable
    BY <1>1, EnableLives, Zenon DEF IoEnable, app, window, WindowInv
<1>2. CASE IoConnect \/ IoRetry \/ IoFinish
    BY <1>2, Zenon DEF IoConnect, IoRetry, IoFinish, Connect, Retry, Finish, window, WindowInv
<1>3. CASE OnRuntimeEvent
    BY <1>3, Zenon DEF OnRuntimeEvent, window, WindowInv
<1>4. CASE IoThread
    BY <1>4, Zenon DEF IoThread, Finish, window, WindowInv
<1>5. CASE CommandDisable
    <2>1. UNCHANGED <<event, client, ui, core, goal, view, permit>>
        BY <1>5, Zenon DEF CommandDisable, Disable, app, window
    <2> QED BY <2>1, StatusFramed, Zenon
<1>6. CASE CommandRemoval
    <2>1. UNCHANGED <<event, client, ui, core, goal, view, permit>>
        BY <1>6, RemovalMoves, Zenon DEF CommandRemoval, Disablers, app, window
    <2> QED BY <2>1, StatusFramed, Zenon
<1> QED BY <1>1, <1>2, <1>3, <1>4, <1>5, <1>6, Zenon

(* The flags of the client core follow its thread: nothing that the window, *)
(* a stop or the I/O thread does lets one of them get ahead.               *)
LEMMA StatusStep == IInv /\ [Next]_vars => StatusInv'
PROOF
<1> SUFFICES ASSUME IInv, [Next]_vars PROVE StatusInv'
    OBVIOUS
<1>1. WindowInv /\ StatusInv
    BY DEF IInv
<1>2. CASE UNCHANGED vars
    BY <1>1, <1>2, StatusFramed DEF vars, app, window, protection
<1> QED
    BY <1>1, <1>2, ViewSteps, StopSteps, StartSteps, IoSteps DEF Next, CoreNext, IoNext
-------------------------------------------------------------------------------
(* A step that touches nothing of the protection keeps what is known of it. *)
LEMMA ProtectionFramed == ProtectionInv /\ UNCHANGED protection => ProtectionInv'
PROOF
<1> SUFFICES ASSUME ProtectionInv, UNCHANGED protection PROVE ProtectionInv'
    OBVIOUS
<1>1. /\ policy' = policy /\ tx' = tx /\ permit' = permit /\ client' = client /\ disabler' = disabler
      /\ adapter' = adapter /\ opened' = opened /\ bypass' = bypass /\ endpoints' = endpoints
    BY DEF protection, network
<1>2. TypeInv'
    BY <1>1 DEF ProtectionInv, TypeInv
<1>3. WriterInv'
    <2>1. Written(client, tx.view)'
        BY <1>1 DEF ProtectionInv, WriterInv, Written, Full, Of
    <2> QED BY <1>1, <2>1 DEF ProtectionInv, WriterInv
<1>4. PolicyInv'
    BY <1>1, Zenon DEF ProtectionInv, PolicyInv
<1> QED BY <1>2, <1>3, <1>4 DEF ProtectionInv

(* A step inside the transaction of enable_windows_kill_switch changes its *)
(* view only, and has to write what the next place expects.                *)
LEMMA ViewStep ==
    ASSUME ProtectionInv, client \in Updating, NEW made \in Policies, NEW to \in Updating,
           Update(client, made, to), Written(to, made)
    PROVE  ProtectionInv'
PROOF
<1>1. /\ tx' = [tx EXCEPT !.view = made] /\ client' = to
      /\ UNCHANGED <<policy, permit, adapter, opened, bypass, endpoints, disabler>>
    BY DEF Update, network
<1>2. tx'.owner = "client" /\ tx'.view = made
    BY <1>1 DEF Update, ProtectionInv, TypeInv
<1>3. TypeInv'
    BY <1>1 DEF ProtectionInv, TypeInv
<1>4. WriterInv'
    <2>1. \A d \in Disablers : tx'.owner = d <=> disabler'[d] = "removing"
        BY <1>1, <1>2 DEF Update, ProtectionInv, WriterInv
    <2> QED BY <1>1, <1>2, <2>1 DEF WriterInv, Written, Disablers, Of
<1>5. PolicyInv'
    BY <1>1, Zenon DEF ProtectionInv, PolicyInv, Updating, Enabling, Committed, Tunnel
<1> QED BY <1>3, <1>4, <1>5 DEF ProtectionInv

(* The steps of the transaction of enable_windows_kill_switch.             *)
LEMMA TransactionSteps ==
    ASSUME ProtectionInv,
           \/ BeginUpdate \/ ensure_provider_and_sublayer \/ delete_provider_filters \/ AddBootFilters
           \/ (\E family \in Families : add_family_policy(family, Of(family)))
    PROVE  ProtectionInv'
PROOF
<1>0. tx.view \in Policies /\ Families \in SUBSET Families
    BY DEF ProtectionInv, TypeInv
<1>1. CASE BeginUpdate
    BY <1>1 DEF BeginUpdate, network, ProtectionInv, TypeInv, WriterInv, Written, Of, PolicyInv,
       Updating, Enabling, Committed, Tunnel, Disablers
<1>2. CASE ensure_provider_and_sublayer
    <2> DEFINE made == [tx.view EXCEPT !.sublayer = TRUE]
    <2>1. Update(client, made, "delete") /\ client = "provider"
        BY <1>2 DEF ensure_provider_and_sublayer, Update
    <2>2. made \in Policies /\ made.sublayer = TRUE
        BY <1>0, Zenon DEF Policies
    <2> HIDE DEF made
    <2> QED BY <2>1, <2>2, ViewStep, Zenon DEF Written, Updating
<1>3. CASE delete_provider_filters
    <2> DEFINE made == [tx.view EXCEPT !.boot = {}, !.allow = {}, !.block = {}]
    <2>1. Update(client, made, "boot") /\ client = "delete"
        BY <1>3 DEF delete_provider_filters, Update
    <2>2. made \in Policies
        BY <1>0, Zenon DEF Policies
    <2>3. Has(made, {}, {}, {})
        <3>1. tx.view.sublayer = TRUE
            BY <2>1 DEF ProtectionInv, WriterInv, Written
        <3> QED BY <1>0, <3>1 DEF Policies, Has
    <2> HIDE DEF made
    <2> QED BY <2>1, <2>2, <2>3, ViewStep, Zenon DEF Written, Updating
<1>4. CASE AddBootFilters
    <2> DEFINE made == [tx.view EXCEPT !.boot = Families]
    <2>1. Update(client, made, "ipv4") /\ client = "boot"
        BY <1>4 DEF AddBootFilters, Update
    <2>2. made \in Policies
        BY <1>0 DEF Policies
    <2>3. Has(made, Families, {}, {})
        <3>1. Has(tx.view, {}, {}, {})
            BY <2>1 DEF ProtectionInv, WriterInv, Written
        <3> QED BY <1>0, <3>1 DEF Policies, Has
    <2> HIDE DEF made
    <2> QED BY <2>1, <2>2, <2>3, ViewStep, Zenon DEF Written, Updating
<1>5. CASE add_family_policy("ipv4", Of("ipv4"))
    <2> DEFINE made == [tx.view EXCEPT !.allow = @ \cup Of("ipv4"), !.block = @ \cup {"ipv4"}]
    <2>1. Update(client, made, "ipv6") /\ client = "ipv4"
        BY <1>5, Zenon DEF add_family_policy, Update
    <2>2. Has(made, Families, Of("ipv4"), {"ipv4"})
        <3>1. Has(tx.view, Families, {}, {})
            BY <2>1 DEF ProtectionInv, WriterInv, Written
        <3> QED BY <1>0, <3>1 DEF Policies, Has
    <2>3. made \in Policies
        <3>1. Of("ipv4") \in SUBSET Endpoints /\ {"ipv4"} \in SUBSET Families
            BY DEF ProtectionInv, TypeInv, Of, Families
        <3> QED BY <1>0, <3>1, Zenon DEF Policies
    <2> HIDE DEF made
    <2> QED BY <2>1, <2>2, <2>3, ViewStep, Zenon DEF Written, Updating
<1>6. CASE add_family_policy("ipv6", Of("ipv6"))
    <2> DEFINE made == [tx.view EXCEPT !.allow = @ \cup Of("ipv6"), !.block = @ \cup {"ipv6"}]
    <2>1. Update(client, made, "commit") /\ client = "ipv6"
        BY <1>6, Zenon DEF add_family_policy, Update
    <2>2. Full(made, endpoints)
        <3>1. Has(tx.view, Families, Of("ipv4"), {"ipv4"})
            BY <2>1 DEF ProtectionInv, WriterInv, Written
        <3>2. Of("ipv4") \cup Of("ipv6") = endpoints /\ {"ipv4"} \cup {"ipv6"} = Families
            BY EndpointFamilies DEF ProtectionInv, TypeInv, Of, Families
        <3> QED BY <1>0, <3>1, <3>2 DEF Policies, Full, Has
    <2>3. made \in Policies
        <3>1. Of("ipv6") \in SUBSET Endpoints /\ {"ipv6"} \in SUBSET Families
            BY DEF ProtectionInv, TypeInv, Of, Families
        <3> QED BY <1>0, <3>1, Zenon DEF Policies
    <2> HIDE DEF made
    <2> QED BY <2>1, <2>2, <2>3, ViewStep, Zenon DEF Written, Updating
<1> QED BY <1>1, <1>2, <1>3, <1>4, <1>5, <1>6 DEF Families

(* The other steps of enable_kill_switch.                                  *)
LEMMA EnableSteps ==
    ASSUME ProtectionInv, EnableNext
    PROVE  ProtectionInv'
PROOF
<1>1. ASSUME NEW servers \in (SUBSET Endpoints) \ {{}}, Enable(servers)
      PROVE  ProtectionInv'
    BY <1>1 DEF Enable, ProtectionInv, TypeInv, WriterInv, Written, Of, PolicyInv,
       Updating, Enabling, Committed, Tunnel
<1>2. CASE CommitUpdate
    BY <1>2 DEF CommitUpdate, network, ProtectionInv, TypeInv, WriterInv, Written, Of, PolicyInv,
       Updating, Enabling, Committed, Tunnel, NoTx, NoPolicy, Disablers, Policies
<1>3. CASE remove_owned_default_routes
    BY <1>3 DEF remove_owned_default_routes, ProtectionInv, TypeInv, WriterInv, Written, Of, PolicyInv,
       Updating, Enabling, Committed, Tunnel
<1>4. CASE add_transport_bypass_routes
    <2>1. TypeInv'
        BY <1>4, Zenon DEF add_transport_bypass_routes, ProtectionInv, TypeInv
    <2>2. WriterInv'
        BY <1>4, Zenon DEF add_transport_bypass_routes, ProtectionInv, WriterInv, Written, Updating, Of
    <2>3. PolicyInv'
        BY <1>4, Zenon DEF add_transport_bypass_routes, ProtectionInv, PolicyInv, Enabling, Committed, Tunnel
    <2> QED BY <2>1, <2>2, <2>3 DEF ProtectionInv
<1>5. CASE ClosePermit
    BY <1>5, Zenon DEF ClosePermit, network, ProtectionInv, TypeInv, WriterInv, Written, Of, PolicyInv,
       Updating, Enabling, Committed, Tunnel
<1>6. CASE OpenPermit
    <2>1. TypeInv'
        BY <1>6, Zenon DEF OpenPermit, network, ProtectionInv, TypeInv
    <2>2. WriterInv'
        BY <1>6, Zenon DEF OpenPermit, network, ProtectionInv, WriterInv, Written, Updating, Of
    <2>3. PolicyInv'
        <3>1. policy.sublayer => policy # NoPolicy
            BY DEF NoPolicy
        <3> QED
            BY <1>6, <3>1, Zenon DEF OpenPermit, network, ProtectionInv, PolicyInv, Enabling, Committed, Tunnel
    <2> QED BY <2>1, <2>2, <2>3 DEF ProtectionInv
<1>7. CASE Throw
    BY <1>7, Zenon DEF Throw, network, ProtectionInv, TypeInv, WriterInv, Written, Of, PolicyInv,
       Updating, Enabling, Committed, Tunnel, NoTx, NoPolicy, Disablers, Policies
<1> QED
    BY <1>1, <1>2, <1>3, <1>4, <1>5, <1>6, <1>7, TransactionSteps DEF EnableNext, Of

(* The tunnel comes and goes.                                              *)
LEMMA TunnelSteps ==
    ASSUME ProtectionInv, Connect \/ Retry \/ Finish
    PROVE  ProtectionInv'
PROOF
<1>1. TypeInv'
    BY DEF Connect, Retry, Finish, ProtectionInv, TypeInv
<1>2. WriterInv'
    BY DEF Connect, Retry, Finish, ProtectionInv, WriterInv, Written, Updating, Of
<1>3. PolicyInv'
    BY Zenon DEF Connect, Retry, Finish, ProtectionInv, PolicyInv, Enabling, Committed, Tunnel
<1> QED BY <1>1, <1>2, <1>3 DEF ProtectionInv

(* The steps of those who disable the protection.  The dynamic permit of a *)
(* tunnel keeps the sublayer, and with it the policy.                      *)
LEMMA DisablerSteps ==
    ASSUME ProtectionInv, NEW d \in Disablers,
           (\E found \in BOOLEAN : Disable(d, found)) \/ RemovalNext(d)
    PROVE  ProtectionInv'
PROOF
<1>1. CASE \E found \in BOOLEAN : Disable(d, found)
    <2>1. TypeInv'
        BY <1>1 DEF Disable, ProtectionInv, TypeInv
    <2>2. WriterInv'
        BY <1>1 DEF Disable, ProtectionInv, TypeInv, WriterInv, Written, Of
    <2>3. PolicyInv'
        BY <1>1, Zenon DEF Disable, ProtectionInv, PolicyInv
    <2> QED BY <2>1, <2>2, <2>3 DEF ProtectionInv
<1>2. CASE BeginRemoval(d)
    BY <1>2, Zenon DEF BeginRemoval, network, ProtectionInv, TypeInv, WriterInv, Written, PolicyInv, Of, Disablers,
       Policies, NoPolicy, Updating
<1>3. CASE disable_windows_kill_switch(d)
    BY <1>3, Zenon DEF disable_windows_kill_switch, network, ProtectionInv, TypeInv, WriterInv, Written, PolicyInv,
       Of, Disablers, Policies, NoTx, NoPolicy, Updating, Tunnel, Enabling
<1>4. CASE DisableFails(d)
    <2>1. TypeInv'
        BY <1>4 DEF DisableFails, network, ProtectionInv, TypeInv, Policies, NoTx, NoPolicy
    <2>2. WriterInv'
        BY <1>4 DEF DisableFails, network, ProtectionInv, TypeInv, WriterInv, Written, Of, Disablers,
           NoTx, Updating
    <2>3. PolicyInv'
        BY <1>4, Zenon DEF DisableFails, network, ProtectionInv, PolicyInv
    <2> QED BY <2>1, <2>2, <2>3 DEF ProtectionInv
<1> QED BY <1>1, <1>2, <1>3, <1>4 DEF RemovalNext
-------------------------------------------------------------------------------
(* The runtime goes, with its process or without: not in the middle of an  *)
(* update, unless the process goes, whose transaction is then aborted.     *)
LEMMA ReleaseSteps ==
    ASSUME IInv, Destroy \/ Crash
    PROVE  ProtectionInv'
PROOF
<1>1. client' = "off" /\ UNCHANGED <<policy, opened, bypass, endpoints>> /\ adapter' = 0
    BY Zenon DEF Destroy, Crash, Release
<1>2. PolicyInv'
    BY <1>1, Zenon DEF IInv, ProtectionInv, PolicyInv, Enabling, Committed, Tunnel
<1>3. CASE Destroy
    <2>1. UNCHANGED <<tx, disabler>> /\ client \notin Updating
        BY <1>3, Zenon DEF Destroy, IInv, WindowInv, Updating
    <2>2. TypeInv'
        BY <1>1, <2>1 DEF IInv, ProtectionInv, TypeInv
    <2>3. WriterInv'
        BY <1>1, <2>1 DEF IInv, ProtectionInv, WriterInv, Written, Updating
    <2> QED BY <1>2, <2>2, <2>3 DEF ProtectionInv
<1>4. CASE Crash
    <2>1. /\ tx' = IF tx.owner \in {"client", "window"} THEN NoTx ELSE tx
          /\ disabler' = [disabler EXCEPT !["window"] = "idle"]
        BY <1>4 DEF Crash
    <2>2. TypeInv'
        BY <1>1, <2>1 DEF IInv, ProtectionInv, TypeInv, NoTx, NoPolicy, Policies, Disablers
    <2>3. WriterInv'
        BY <1>1, <2>1 DEF IInv, ProtectionInv, TypeInv, WriterInv, Written, Updating, NoTx, Disablers
    <2> QED BY <1>2, <2>2, <2>3 DEF ProtectionInv
<1> QED BY <1>3, <1>4

(* The steps of the window that move the client outside of enabling.       *)
LEMMA RuntimeSteps ==
    ASSUME IInv, Construct \/ Run \/ RunFails
    PROVE  ProtectionInv'
PROOF
<1>1. /\ client \notin Updating /\ UNCHANGED <<policy, tx, permit, network, disabler>>
      /\ client' \in {"made", "idle", "broken"}
    BY DEF Construct, Run, RunFails, Go, IInv, WindowInv, Updating
<1>2. TypeInv'
    BY <1>1 DEF network, IInv, ProtectionInv, TypeInv
<1>3. WriterInv'
    BY <1>1 DEF network, IInv, ProtectionInv, WriterInv, Written, Updating, Of
<1>4. PolicyInv'
    BY <1>1, Zenon DEF network, IInv, ProtectionInv, PolicyInv, Enabling, Committed, Tunnel
<1> QED BY <1>2, <1>3, <1>4 DEF ProtectionInv

(* Every step of enabling and of removing the policy keeps it whole.       *)
LEMMA ProtectionStep == IInv /\ [Next]_vars => ProtectionInv'
PROOF
<1> SUFFICES ASSUME IInv, [Next]_vars PROVE ProtectionInv'
    OBVIOUS
<1>1. CASE UNCHANGED protection
    BY <1>1, ProtectionFramed DEF IInv
<1>2. CASE IoEnable
    BY <1>2, EnableSteps DEF IoEnable, IInv
<1>3. CASE IoConnect \/ IoRetry \/ IoFinish \/ IoThread
    BY <1>1, <1>3, TunnelSteps, Zenon DEF IoConnect, IoRetry, IoFinish, IoThread, IInv
<1>4. CASE WindowDisable \/ WindowRemoval \/ CommandDisable \/ CommandRemoval
    BY <1>4, DisablerSteps DEF WindowDisable, WindowRemoval, CommandDisable, CommandRemoval, Disablers, IInv
<1>5. CASE \/ Launch \/ LoadConnected \/ LoadRunning \/ NoButton
           \/ (\E valid \in BOOLEAN : ImportConfig(valid))
           \/ StartVPN \/ AskDisable \/ AnswerNo \/ ConfirmStart \/ ConfirmDisable \/ StopVPN \/ CloseWindow
           \/ TakeRuntime \/ RequestStop \/ Join \/ Clear \/ ConstructFails \/ Mark \/ Started
           \/ OnRuntimeEvent
    BY <1>1, <1>5, Zenon DEF Launch, LoadConnected, LoadRunning, NoButton, ImportConfig, StartVPN, AskDisable,
       AnswerNo, ConfirmStart, ConfirmDisable, StopVPN, CloseWindow, TakeRuntime, RequestStop, Join,
       Clear, ConstructFails, Mark, Started, OnRuntimeEvent
<1> QED
    BY <1>1, <1>2, <1>3, <1>4, <1>5, ReleaseSteps, RuntimeSteps DEF Next, CoreNext, IoNext, vars

(* Nothing runs yet.                                                       *)
LEMMA InitHolds == Init => IInv
PROOF
<1> SUFFICES ASSUME Init PROVE IInv
    OBVIOUS
<1>1. WindowInv
    BY DEF Init, NewCore, ProtectionInit, WindowInv
<1>2. TypeInv
    BY DEF Init, ProtectionInit, TypeInv, NoTx, NoPolicy, Policies, Disablers
<1>3. WriterInv
    BY DEF Init, ProtectionInit, WriterInv, Written, NoTx, Updating, Disablers
<1>4. PolicyInv
    BY DEF Init, ProtectionInit, PolicyInv, Enabling, Committed, Tunnel
<1>5. StatusInv
    BY DEF Init, NewCore, NoView, ProtectionInit, StatusInv, EventInv, FlagsInv, ButtonInv, Calm, Live
<1> QED BY <1>1, <1>2, <1>3, <1>4, <1>5 DEF IInv, ProtectionInv

(* The inductive invariant holds in every reachable state.                 *)
THEOREM Inductive == Spec => []IInv
PROOF
<1>1. IInv /\ [Next]_vars => IInv'
    BY WindowStep, ProtectionStep, StatusStep DEF IInv
<1> QED BY <1>1, InitHolds, PTL DEF Spec

(* No half policy is ever in force, whatever the servers are and wherever  *)
(* enable_windows_kill_switch throws or the program dies.                  *)
THEOREM PolicyStaysWhole == Spec => []PolicyIsWhole
PROOF
<1>1. IInv => PolicyIsWhole
    BY Zenon DEF IInv, ProtectionInv, PolicyInv, PolicyIsWhole, Blocked, Full, Has
<1> QED BY <1>1, Inductive, PTL

(* Every tunnel is tried and used only with everything blocked but its own *)
(* servers and its own adapter, however often it reconnects and whoever    *)
(* calls disable_windows_kill_switch at the same time.                     *)
THEOREM TunnelIsProtected == Spec => []ConnectsProtected
PROOF
<1>1. IInv => ConnectsProtected
    BY Zenon DEF IInv, ProtectionInv, PolicyInv, ConnectsProtected, Blocked, Full, Has, Tunnel
<1> QED BY <1>1, Inductive, PTL

(* Between two frames running_ and connected_ are true, however the stores *)
(* of OnRuntimeEvent and the calls of Start and Stop interleave.           *)
THEOREM FlagsAreTrue == Spec => []StatusIsTrue
PROOF
<1>1. IInv => StatusIsTrue
    BY Zenon DEF IInv, StatusInv, FlagsInv, FlagsAgree, Calm, StatusIsTrue
<1> QED BY <1>1, Inductive, PTL

(* The Stop that Connect and "disable the protection" call first never     *)
(* meets a runtime that lives, although the window decides by old copies.  *)
THEOREM TunnelIsSpared == Spec => []ButtonsSpareTunnel
PROOF
<1>1. IInv => ButtonsSpareTunnel
    BY Zenon DEF IInv, StatusInv, ButtonInv, ButtonsSpareTunnel
<1> QED BY <1>1, Inductive, PTL

(* DisableKillSwitch runs with no runtime and no dynamic permit left.      *)
THEOREM WindowIsAlone == Spec => []WindowDisablesAlone
PROOF
<1>1. IInv => WindowDisablesAlone
    BY Zenon DEF IInv, WindowInv, StatusInv, ButtonInv, WindowDisablesAlone
<1> QED BY <1>1, Inductive, PTL

(* A protection in force ends only in disable_windows_kill_switch.         *)
THEOREM ProtectionIsKept == Spec => ProtectionStays
PROOF
<1> DEFINE Keeps == Blocked(policy) => Blocked(policy') \/ \E d \in Disablers : disabler[d] = "removing"
<1>1. ASSUME IInv, [Next]_vars PROVE [Keeps]_protection
    <2>1. CASE UNCHANGED policy
        BY <2>1 DEF Blocked
    <2>2. CASE CommitUpdate
        BY <1>1, <2>2 DEF CommitUpdate, IInv, ProtectionInv, WriterInv, Written, Blocked, Full, Has
    <2>3. ASSUME NEW d \in Disablers, disable_windows_kill_switch(d) PROVE Keeps
        BY <2>3 DEF disable_windows_kill_switch
    <2>4. \/ UNCHANGED policy \/ CommitUpdate
          \/ \E d \in Disablers : disable_windows_kill_switch(d)
        <3>1. ASSUME EnableNext PROVE UNCHANGED policy \/ CommitUpdate
            BY <3>1, Zenon DEF EnableNext, Enable, BeginUpdate, ensure_provider_and_sublayer,
               delete_provider_filters, AddBootFilters, add_family_policy, Update,
               remove_owned_default_routes, add_transport_bypass_routes, ClosePermit, OpenPermit, Throw
        <3>2. ASSUME NEW d \in Disablers, RemovalNext(d)
              PROVE  UNCHANGED policy \/ disable_windows_kill_switch(d)
            BY <3>2 DEF RemovalNext, BeginRemoval, DisableFails
        <3>3. CASE IoEnable \/ WindowRemoval \/ CommandRemoval
            BY <3>1, <3>2, <3>3 DEF IoEnable, WindowRemoval, CommandRemoval, Disablers
        <3>4. CASE IoConnect \/ IoRetry \/ IoFinish \/ WindowDisable \/ CommandDisable
            BY <3>4, Zenon DEF IoConnect, IoRetry, IoFinish, WindowDisable, CommandDisable, Connect, Retry,
               Finish, Disable
        <3>5. CASE Destroy \/ Crash \/ Construct \/ Run \/ RunFails \/ IoThread
            BY <3>5, Zenon DEF Destroy, Crash, Release, Construct, Run, RunFails, IoThread, Finish,
               protection
        <3>6. CASE UNCHANGED protection
            BY <3>6 DEF protection
        <3>7. CASE \/ Launch \/ LoadConnected \/ LoadRunning \/ NoButton
                   \/ (\E valid \in BOOLEAN : ImportConfig(valid))
                   \/ StartVPN \/ AskDisable \/ AnswerNo \/ ConfirmStart \/ ConfirmDisable
                   \/ StopVPN \/ CloseWindow \/ TakeRuntime \/ RequestStop \/ Join \/ Clear
                   \/ ConstructFails \/ Mark \/ Started \/ OnRuntimeEvent
            BY <3>6, <3>7, Zenon DEF Launch, LoadConnected, LoadRunning, NoButton, ImportConfig, StartVPN,
               AskDisable, AnswerNo, ConfirmStart, ConfirmDisable, StopVPN, CloseWindow, TakeRuntime,
               RequestStop, Join, Clear, ConstructFails, Mark, Started, OnRuntimeEvent
        <3> QED
            BY <1>1, <3>3, <3>4, <3>5, <3>6, <3>7 DEF Next, CoreNext, IoNext, vars
    <2> QED BY <2>1, <2>2, <2>3, <2>4
<1> QED BY <1>1, Inductive, PTL DEF Spec, ProtectionStays
-------------------------------------------------------------------------------
(* TlsTunnelClient.                                                        *)
TunnelStates == {"Idle", "AwaitingAssignment", "Established", "Closing", "Closed"}
TunnelReasons == {"open", "drained", "overflow", "refused", "transport", "protocol", "stop", "abort"}

Tunnels ==
    [started_ : BOOLEAN, stopped_ : BOOLEAN, close_after_write_ : BOOLEAN,
     write_in_progress_ : BOOLEAN, retryable_close_ : BOOLEAN, remote_error_ : BOOLEAN,
     state_ : TunnelStates, pending_ping_nonce_ : BOOLEAN, next_outbound_sequence_ : Nat,
     outbound_queue_ : Queues, handshaking : BOOLEAN, reading : BOOLEAN, writing : Nat,
     wire : Streams, configured : BOOLEAN, toTun : Nat, rejected : BOOLEAN, violated : BOOLEAN,
     why : TunnelReasons, close_handler_calls : Nat]

(* The frames that end a conversation, and where they may be.              *)
Finals == {"CLOSE", "ERROR"}
Goes(frames) == \A i \in 1..Len(frames) : frames[i].kind \notin Finals
EndsLast(frames) == \A i \in 1..Len(frames) : frames[i].kind \in Finals => i = Len(frames)
Carries(frames) == \E i \in 1..Len(frames) : frames[i].kind = "DATA"

(* One write is under way if and only if the queue of an open tunnel has a *)
(* frame.                                                                  *)
Busy(s) ==
    IF s.stopped_ THEN s.writing \in {0, 1} /\ s.outbound_queue_ = EmptyQueue
    ELSE /\ s.writing = (IF IsEmpty(s.outbound_queue_) THEN 0 ELSE 1)
         /\ s.write_in_progress_ <=> ~IsEmpty(s.outbound_queue_)

Ordered(s) ==
    /\ NumberedFrom(s.wire, 1)
    /\ ~s.stopped_ => Numbered(s.wire, s.outbound_queue_, 1, s.next_outbound_sequence_)
    /\ Accounted(s.outbound_queue_) /\ Limited(s.outbound_queue_)

Transports(s) == s \in Tunnels /\ Busy(s) /\ Ordered(s)

(* Only a tunnel that closes after its last write has queued a final       *)
(* frame, and its controller makes no other one.                           *)
Closes(s) ==
    /\ EndsLast(s.wire)
    /\ ~s.stopped_ =>
          /\ Goes(s.wire) /\ EndsLast(s.outbound_queue_.queue_)
          /\ ~s.close_after_write_ => Goes(s.outbound_queue_.queue_)
          /\ s.close_after_write_ => ~IsEmpty(s.outbound_queue_) /\ s.state_ \in {"Closing", "Closed"}

(* Data needs an established session, and that a configured network.       *)
Serves(s) ==
    s.state_ = "Established" \/ s.toTun > 0 \/ Carries(s.wire) \/ Carries(s.outbound_queue_.queue_)
        => s.configured

(* What goes on before the controller has started, and after it.           *)
Starts(s) ==
    /\ ~s.started_ => ~s.handshaking /\ ~s.reading
    /\ ~s.stopped_ /\ (s.handshaking \/ ~s.started_) => s.state_ = "Idle"
    /\ s.stopped_ \/ s.reading => s.state_ # "Idle"

Proper(s) == Transports(s) /\ Closes(s) /\ Serves(s) /\ Starts(s)

ClientInv == Proper(self)

(* An open tunnel that may be closed.                                      *)
Closeable(s) ==
    /\ s \in Tunnels /\ ~s.stopped_ /\ s.writing \in {0, 1} /\ NumberedFrom(s.wire, 1) /\ EndsLast(s.wire)
    /\ s.toTun > 0 \/ Carries(s.wire) => s.configured
    /\ ~s.started_ => ~s.handshaking /\ ~s.reading

(* Every open tunnel may be closed.                                        *)
LEMMA OpenTunnel ==
    ASSUME NEW s, Proper(s), ~s.stopped_
    PROVE  Closeable(s)
PROOF
<1>1. s.writing \in {0, 1} /\ s \in Tunnels /\ NumberedFrom(s.wire, 1)
    BY DEF Proper, Transports, Busy, Ordered
<1> QED BY <1>1 DEF Proper, Closes, Serves, Starts, Closeable

(* close_now empties the queue and leaves the controller closed.           *)
LEMMA CloseTunnel ==
    ASSUME NEW s, Closeable(s), NEW why \in TunnelReasons
    PROVE  Proper(close_now(s, why)) /\ close_now(s, why).stopped_ = TRUE
PROOF
<1> DEFINE n == s.close_handler_calls + 1
           f == [s EXCEPT !.stopped_ = TRUE, !.state_ = "Closed", !.outbound_queue_ = EmptyQueue,
                          !.close_handler_calls = n, !.why = why]
<1>1. s \in Tunnels /\ close_now(s, why) = f
    BY DEF Closeable, close_now
<1>2. n \in Nat /\ "Closed" \in TunnelStates
    BY <1>1 DEF Tunnels, TunnelStates
<1>3. EmptyQueue \in Queues /\ Accounted(EmptyQueue) /\ Limited(EmptyQueue)
    BY EmptyFacts
<1> HIDE DEF n
<1>4. f \in Tunnels
    BY <1>1, <1>2, <1>3, Zenon DEF Tunnels
<1>5. /\ f.stopped_ = TRUE /\ f.state_ = "Closed" /\ f.outbound_queue_ = EmptyQueue
      /\ f.wire = s.wire /\ f.writing = s.writing /\ f.toTun = s.toTun /\ f.configured = s.configured
      /\ f.started_ = s.started_ /\ f.handshaking = s.handshaking /\ f.reading = s.reading
    BY <1>1 DEF Tunnels
<1> HIDE DEF f
<1>6. Transports(f)
    BY <1>3, <1>4, <1>5 DEF Closeable, Transports, Busy, Ordered
<1>7. Closes(f) /\ Starts(f)
    BY <1>5 DEF Closeable, Closes, Starts
<1>8. Serves(f)
    <2>1. ~Carries(EmptyQueue.queue_)
        BY DEF Carries, EmptyQueue
    <2> QED BY <1>5, <2>1 DEF Closeable, Serves
<1> QED BY <1>1, <1>5, <1>6, <1>7, <1>8 DEF Proper

(* A tunnel that is closed already stays as it is.                         *)
LEMMA CloseTunnelAgain ==
    ASSUME NEW s, Proper(s), NEW why \in TunnelReasons
    PROVE  Proper(close_now(s, why))
PROOF
<1>1. CASE s.stopped_
    BY <1>1 DEF close_now
<1>2. CASE ~s.stopped_
    BY <1>2, OpenTunnel, CloseTunnel, Zenon
<1> QED BY <1>1, <1>2

(* f is s but for its writes and its queue.                                *)
SameBut(s, f) ==
    /\ f.stopped_ = s.stopped_ /\ f.wire = s.wire /\ f.close_after_write_ = s.close_after_write_
    /\ f.state_ = s.state_ /\ f.toTun = s.toTun /\ f.configured = s.configured
    /\ f.started_ = s.started_ /\ f.handshaking = s.handshaking /\ f.reading = s.reading

(* write_next begins the next write.                                       *)
LEMMA WriteNextTunnel ==
    ASSUME NEW s \in Tunnels, ~s.stopped_, s.writing = 0, Ordered(s), ~IsEmpty(s.outbound_queue_)
    PROVE  LET f == write_next(s)
           IN  Transports(f) /\ SameBut(s, f) /\ f.outbound_queue_ = s.outbound_queue_
PROOF
<1> DEFINE n == s.writing + 1
           f == [s EXCEPT !.write_in_progress_ = TRUE, !.writing = n]
<1>1. write_next(s) = f
    BY DEF write_next
<1>2. n = 1 /\ n \in Nat
    OBVIOUS
<1> HIDE DEF n
<1>3. f \in Tunnels
    BY <1>2, Zenon DEF Tunnels
<1>4. /\ f.write_in_progress_ = TRUE /\ f.writing = 1 /\ f.outbound_queue_ = s.outbound_queue_
      /\ f.next_outbound_sequence_ = s.next_outbound_sequence_ /\ SameBut(s, f)
    BY <1>2 DEF Tunnels, SameBut
<1> HIDE DEF f
<1>5. Busy(f)
    BY <1>4 DEF Busy, SameBut
<1>6. Ordered(f)
    BY <1>4 DEF Ordered, SameBut
<1> QED BY <1>1, <1>3, <1>4, <1>5, <1>6 DEF Transports

(* Appending a frame: what comes last, and what is carried.                *)
LEMMA AppendedFrame ==
    ASSUME NEW frames \in Streams, NEW frame \in Outbound, Goes(frames)
    PROVE  LET longer == Append(frames, frame)
           IN  /\ EndsLast(longer) /\ longer # <<>>
               /\ frame.kind \notin Finals => Goes(longer)
               /\ Carries(longer) => Carries(frames) \/ frame.kind = "DATA"
PROOF
<1> DEFINE n == Len(frames)
           longer == Append(frames, frame)
<1>1. frames \in Seq(Outbound) /\ n \in Nat
    BY DEF Streams
<1>2. /\ Len(longer) = n + 1 /\ longer[n + 1] = frame /\ longer # <<>>
      /\ \A i \in 1..n : longer[i] = frames[i]
    BY <1>1
<1>3. \A i \in 1..(n + 1) : i \in 1..n \/ i = n + 1
    BY <1>1
<1> HIDE DEF longer
<1>4. EndsLast(longer)
    BY <1>2, <1>3 DEF EndsLast, Goes
<1>5. frame.kind \notin Finals => Goes(longer)
    BY <1>2, <1>3 DEF Goes
<1>6. Carries(longer) => Carries(frames) \/ frame.kind = "DATA"
    BY <1>2, <1>3 DEF Carries
<1> QED BY <1>2, <1>4, <1>5, <1>6 DEF longer

(* enqueue_frame: a frame that is accepted will be written; after one that *)
(* is refused the tunnel can only close.                                   *)
LEMMA EnqueueTunnel ==
    ASSUME NEW s, Transports(s), ~s.stopped_, Goes(s.outbound_queue_.queue_), NEW kind \in Kinds
    PROVE  LET e == enqueue_frame(s, kind)
           IN  /\ e.ok \in BOOLEAN
               /\ e.ok => /\ Transports(e.s) /\ SameBut(s, e.s) /\ ~IsEmpty(e.s.outbound_queue_)
                          /\ EndsLast(e.s.outbound_queue_.queue_)
                          /\ kind \notin Finals => Goes(e.s.outbound_queue_.queue_)
                          /\ Carries(e.s.outbound_queue_.queue_) =>
                                Carries(s.outbound_queue_.queue_) \/ kind = "DATA"
               /\ ~e.ok => e.s \in Tunnels /\ SameBut(s, e.s) /\ e.s.writing = s.writing
PROOF
<1> DEFINE size == Size(kind)
           next == s.next_outbound_sequence_ + 1
           frame == [kind |-> kind, seq |-> s.next_outbound_sequence_, size |-> size]
           r == try_enqueue(s.outbound_queue_, frame)
           t == [s EXCEPT !.next_outbound_sequence_ = next, !.outbound_queue_ = r.queue]
           u == [t EXCEPT !.retryable_close_ = FALSE]
           e == enqueue_frame(s, kind)
<1>1. /\ s \in Tunnels /\ s.next_outbound_sequence_ \in Nat /\ s.outbound_queue_ \in Queues
      /\ s.wire \in Streams /\ s.stopped_ = FALSE
    BY DEF Transports, Tunnels
<1>2. next \in Nat /\ size \in Nat
    BY <1>1 DEF Size
<1>3. e = IF ~r.ok THEN [s |-> u, ok |-> FALSE]
          ELSE [s |-> IF t.write_in_progress_ THEN t ELSE write_next(t), ok |-> TRUE]
    BY <1>1, Zenon DEF enqueue_frame, make_outbound, Final
<1> HIDE DEF size
<1>4. frame \in Outbound /\ frame.seq = s.next_outbound_sequence_ /\ frame.kind = kind
    BY <1>1, <1>2 DEF Outbound
<1> HIDE DEF frame
<1>5. /\ r.ok \in BOOLEAN /\ r.queue \in Queues /\ Accounted(r.queue) /\ Limited(r.queue)
      /\ r.ok => r.queue.queue_ = Append(s.outbound_queue_.queue_, frame)
    BY <1>1, <1>4, EnqueueFacts DEF Transports, Ordered
<1> HIDE DEF r, next
<1>6. t \in Tunnels
    BY <1>1, <1>2, <1>5, Zenon DEF Tunnels
<1>7. /\ t.next_outbound_sequence_ = next /\ t.outbound_queue_ = r.queue /\ SameBut(s, t)
      /\ t.write_in_progress_ = s.write_in_progress_ /\ t.writing = s.writing
    BY <1>1 DEF Tunnels, SameBut
<1>8. u \in Tunnels /\ SameBut(s, u) /\ u.writing = s.writing
    BY <1>6, <1>7, Zenon DEF Tunnels, SameBut
<1> HIDE DEF t, u
<1>9. CASE ~r.ok
    <2>1. e.ok = FALSE /\ e.s = u
        BY <1>3, <1>9
    <2> HIDE DEF e
    <2> QED BY <1>8, <2>1, Zenon DEF e
<1>10. CASE r.ok
    <2>1. e.ok = TRUE /\ e.s = IF t.write_in_progress_ THEN t ELSE write_next(t)
        BY <1>3, <1>10
    <2> HIDE DEF e
    <2>2. s.outbound_queue_.queue_ \in Streams
        BY <1>1 DEF Queues
    <2>3. r.queue.queue_ = Append(s.outbound_queue_.queue_, frame)
        BY <1>5, <1>10
    <2>4. /\ EndsLast(r.queue.queue_) /\ ~IsEmpty(r.queue)
          /\ kind \notin Finals => Goes(r.queue.queue_)
          /\ Carries(r.queue.queue_) => Carries(s.outbound_queue_.queue_) \/ kind = "DATA"
        BY <1>4, <2>2, <2>3, AppendedFrame DEF IsEmpty
    <2>5. Ordered(t)
        <3>1. Numbered(s.wire, s.outbound_queue_, 1, s.next_outbound_sequence_)
            BY DEF Transports, Ordered
        <3>2. Numbered(s.wire, r.queue, 1, next)
            BY <1>1, <1>4, <1>5, <2>3, <3>1, NumberedAppend, Zenon DEF next
        <3>3. Numbered(t.wire, t.outbound_queue_, 1, t.next_outbound_sequence_)
            BY <1>7, <3>2 DEF SameBut
        <3> QED BY <1>5, <1>7, <3>3 DEF Ordered, Numbered
    <2>6. Transports(e.s) /\ SameBut(t, e.s) /\ e.s.outbound_queue_ = t.outbound_queue_
        <3>1. CASE t.write_in_progress_
            <4>1. t.writing = 1
                BY <1>7, <3>1 DEF Transports, Busy
            <4>2. Busy(t)
                BY <1>1, <1>7, <2>4, <3>1, <4>1 DEF Busy, SameBut
            <4> QED BY <1>6, <2>1, <2>5, <3>1, <4>2 DEF Transports, SameBut
        <3>2. CASE ~t.write_in_progress_
            <4>1. t.writing = 0 /\ ~t.stopped_ /\ ~IsEmpty(t.outbound_queue_)
                BY <1>1, <1>7, <2>4, <3>2 DEF Transports, Busy, SameBut
            <4> QED BY <1>6, <2>1, <2>5, <3>2, <4>1, WriteNextTunnel
        <3> QED BY <3>1, <3>2
    <2>7. SameBut(s, e.s) /\ e.s.outbound_queue_ = r.queue
        BY <1>7, <2>6 DEF SameBut
    <2> QED BY <2>1, <2>4, <2>6, <2>7, Zenon DEF e
<1> QED BY <1>5, <1>9, <1>10, Zenon

(* f has the writes, the queue and the wire of s.                          *)
SameWrites(s, f) ==
    /\ f.stopped_ = s.stopped_ /\ f.wire = s.wire /\ f.writing = s.writing
    /\ f.outbound_queue_ = s.outbound_queue_ /\ f.write_in_progress_ = s.write_in_progress_
    /\ f.next_outbound_sequence_ = s.next_outbound_sequence_

(* A change elsewhere leaves the transport in order.                       *)
LEMMA TransportsOn ==
    ASSUME NEW s, Transports(s), NEW f \in Tunnels, SameWrites(s, f)
    PROVE  Transports(f)
PROOF BY DEF Transports, SameWrites, Busy, Ordered

(* An open tunnel, whether or not its last frame is in the queue.          *)
Pending(s) ==
    /\ Transports(s) /\ ~s.stopped_ /\ Serves(s) /\ Starts(s)
    /\ Goes(s.wire) /\ EndsLast(s.outbound_queue_.queue_)

(* No final frame at all is a final frame at the end.                      *)
LEMMA GoesEnds == \A frames : Goes(frames) => EndsLast(frames)
PROOF BY DEF Goes, EndsLast

(* Every open tunnel is pending, and a pending one may be closed.          *)
LEMMA PendingFacts ==
    ASSUME NEW s
    PROVE  /\ Proper(s) /\ ~s.stopped_ => Pending(s)
           /\ Pending(s) => Closeable(s)
PROOF
<1>1. Proper(s) /\ ~s.stopped_ => Pending(s)
    BY DEF Proper, Pending, Closes
<1>2. ASSUME Pending(s) PROVE Closeable(s)
    <2>1. s.writing \in {0, 1} /\ s \in Tunnels /\ NumberedFrom(s.wire, 1) /\ ~s.stopped_
        BY <1>2 DEF Pending, Transports, Busy, Ordered
    <2>2. EndsLast(s.wire)
        BY <1>2, GoesEnds DEF Pending
    <2> QED BY <1>2, <2>1, <2>2 DEF Pending, Serves, Starts, Closeable
<1> QED BY <1>1, <1>2

(* A tunnel that differs only in its writes and its queue stays in phase.  *)
LEMMA PhaseOn ==
    ASSUME NEW s, NEW f, Serves(s), Starts(s), SameBut(s, f),
           Carries(f.outbound_queue_.queue_) => Carries(s.outbound_queue_.queue_) \/ s.configured
    PROVE  Serves(f) /\ Starts(f)
PROOF
<1>1. Serves(f)
    BY DEF Serves, SameBut
<1>2. Starts(f)
    BY DEF Starts, SameBut
<1> QED BY <1>1, <1>2

(* enqueue_frame on a tunnel whose last frame is not in the queue.         *)
LEMMA EnqueuePending ==
    ASSUME NEW s, Pending(s), Goes(s.outbound_queue_.queue_), NEW kind \in Kinds,
           kind = "DATA" => s.configured
    PROVE  LET e == enqueue_frame(s, kind)
           IN  /\ e.ok \in BOOLEAN
               /\ e.ok => /\ Pending(e.s) /\ SameBut(s, e.s) /\ ~IsEmpty(e.s.outbound_queue_)
                          /\ kind \notin Finals => Goes(e.s.outbound_queue_.queue_)
               /\ ~e.ok => Closeable(e.s)
PROOF
<1> DEFINE e == enqueue_frame(s, kind)
<1>1. Transports(s) /\ ~s.stopped_ /\ Serves(s) /\ Starts(s) /\ Goes(s.wire) /\ Closeable(s)
    BY PendingFacts, Zenon DEF Pending
<1>2. /\ e.ok \in BOOLEAN
      /\ e.ok => /\ Transports(e.s) /\ SameBut(s, e.s) /\ ~IsEmpty(e.s.outbound_queue_)
                 /\ EndsLast(e.s.outbound_queue_.queue_)
                 /\ kind \notin Finals => Goes(e.s.outbound_queue_.queue_)
                 /\ Carries(e.s.outbound_queue_.queue_) =>
                       Carries(s.outbound_queue_.queue_) \/ kind = "DATA"
      /\ ~e.ok => e.s \in Tunnels /\ SameBut(s, e.s) /\ e.s.writing = s.writing
    BY <1>1, EnqueueTunnel, Zenon
<1> HIDE DEF e
<1>3. ASSUME e.ok PROVE Pending(e.s)
    <2>1. Serves(e.s) /\ Starts(e.s)
        BY <1>1, <1>2, <1>3, PhaseOn
    <2> QED BY <1>1, <1>2, <1>3, <2>1, Zenon DEF Pending, SameBut
<1>4. ASSUME ~e.ok PROVE Closeable(e.s)
    BY <1>1, <1>2, <1>4, Zenon DEF Closeable, SameBut
<1> QED BY <1>2, <1>3, <1>4, Zenon DEF e

(* A pending tunnel that closes after its last write, or has none queued.  *)
LEMMA PendingProper ==
    ASSUME NEW s, Pending(s),
           ~s.close_after_write_ => Goes(s.outbound_queue_.queue_),
           s.close_after_write_ => ~IsEmpty(s.outbound_queue_) /\ s.state_ \in {"Closing", "Closed"}
    PROVE  Proper(s)
PROOF
<1>1. EndsLast(s.wire)
    BY GoesEnds DEF Pending
<1> QED BY <1>1 DEF Pending, Proper, Closes

(* The frame is queued, or the tunnel is closed.                           *)
LEMMA EnqueueOrCloseTunnel ==
    ASSUME NEW s, Pending(s), Goes(s.outbound_queue_.queue_), NEW kind \in Kinds,
           kind = "DATA" => s.configured,
           ~s.close_after_write_ => kind \notin Finals,
           s.close_after_write_ => s.state_ \in {"Closing", "Closed"}
    PROVE  LET f == EnqueueOrClose(s, kind) IN Proper(f) /\ (~f.stopped_ => SameBut(s, f))
PROOF
<1> DEFINE e == enqueue_frame(s, kind)
           f == EnqueueOrClose(s, kind)
<1>1. f = IF e.ok THEN e.s ELSE close_now(e.s, "overflow")
    BY DEF EnqueueOrClose
<1>2. /\ e.ok \in BOOLEAN
      /\ e.ok => /\ Pending(e.s) /\ SameBut(s, e.s) /\ ~IsEmpty(e.s.outbound_queue_)
                 /\ kind \notin Finals => Goes(e.s.outbound_queue_.queue_)
      /\ ~e.ok => Closeable(e.s)
    BY EnqueuePending
<1> HIDE DEF e, f
<1>3. CASE e.ok
    <2>1. Proper(e.s)
        BY <1>2, <1>3, PendingProper DEF SameBut
    <2> QED BY <1>1, <1>2, <1>3, <2>1 DEF f
<1>4. CASE ~e.ok
    <2>1. "overflow" \in TunnelReasons
        BY DEF TunnelReasons
    <2>2. Proper(f) /\ f.stopped_ = TRUE
        BY <1>1, <1>2, <1>4, <2>1, CloseTunnel, Zenon
    <2> QED BY <2>2 DEF f
<1> QED BY <1>2, <1>3, <1>4

(* apply_result on a controller that has closed.                           *)
LEMMA CloseTransportTunnel ==
    ASSUME NEW s, Pending(s), s.state_ \in {"Closing", "Closed"}
    PROVE  LET f == CloseTransport(s)
           IN  Proper(f) /\ f.state_ # "Idle"
PROOF
<1> DEFINE t == [s EXCEPT !.close_after_write_ = TRUE]
           f == CloseTransport(s)
<1>1. f = IF t.write_in_progress_ \/ ~IsEmpty(t.outbound_queue_) THEN t
          ELSE close_now(t, "drained")
    BY DEF CloseTransport
<1>2. s \in Tunnels /\ Transports(s) /\ Serves(s) /\ Starts(s) /\ s.stopped_ = FALSE
    BY DEF Pending, Transports, Tunnels
<1>3. t \in Tunnels
    BY <1>2, Zenon DEF Tunnels
<1>4. /\ SameWrites(s, t) /\ t.close_after_write_ = TRUE /\ t.state_ = s.state_
      /\ t.toTun = s.toTun /\ t.configured = s.configured /\ t.started_ = s.started_
      /\ t.handshaking = s.handshaking /\ t.reading = s.reading
    BY <1>2 DEF Tunnels, SameWrites
<1> HIDE DEF t, f
<1>5. Pending(t)
    <2>1. Transports(t)
        BY <1>2, <1>3, <1>4, TransportsOn
    <2>2. Serves(t) /\ Starts(t)
        BY <1>2, <1>4 DEF Serves, Starts, SameWrites
    <2> QED BY <1>4, <2>1, <2>2 DEF Pending, SameWrites
<1>6. CASE t.write_in_progress_ \/ ~IsEmpty(t.outbound_queue_)
    <2>1. ~IsEmpty(t.outbound_queue_)
        BY <1>5, <1>6 DEF Pending, Transports, Busy
    <2>2. Proper(t)
        BY <1>4, <1>5, <2>1, PendingProper
    <2> QED BY <1>1, <1>4, <1>6, <2>2 DEF f
<1>7. CASE ~(t.write_in_progress_ \/ ~IsEmpty(t.outbound_queue_))
    <2>1. f = close_now(t, "drained") /\ "drained" \in TunnelReasons
        BY <1>1, <1>7 DEF TunnelReasons
    <2>2. Proper(f)
        BY <1>5, <2>1, PendingFacts, CloseTunnel, Zenon
    <2>3. f.state_ = "Closed"
        BY <1>3, <1>4, <1>2, <2>1 DEF close_now, Tunnels, SameWrites
    <2> QED BY <2>2, <2>3 DEF f
<1> QED BY <1>6, <1>7

TunnelResults ==
    [state : TunnelStates, out : {"none", "PONG", "ERROR"}, close : BOOLEAN]

(* ClientSessionController::handle in a state other than Idle.  It closes  *)
(* the transport only when it has closed itself, and is established by an  *)
(* assignment only.                                                        *)
LEMMA HandleTunnel ==
    ASSUME NEW s \in Tunnels, NEW frame, s.state_ # "Idle"
    PROVE  LET r == handle(s, frame)
           IN  /\ r \in TunnelResults /\ r.state # "Idle"
               /\ r.close => r.state \in {"Closing", "Closed"}
               /\ ~r.close => r.out # "ERROR"
               /\ r.state = "Established" => s.state_ \in {"AwaitingAssignment", "Established"}
PROOF
<1> DEFINE r == handle(s, frame)
<1>1. s.state_ \in {"AwaitingAssignment", "Established", "Closing", "Closed"}
    BY DEF Tunnels, TunnelStates
<1>2. \A state \in TunnelStates, out \in {"none", "PONG", "ERROR"}, close \in BOOLEAN :
          [state |-> state, out |-> out, close |-> close] \in TunnelResults
    BY DEF TunnelResults
<1>3. CASE s.state_ = "AwaitingAssignment"
    <2>1. \/ r = [state |-> "Established", out |-> "none", close |-> FALSE]
          \/ r = [state |-> "Closing", out |-> "ERROR", close |-> TRUE]
        BY <1>3 DEF handle, fail
    <2> HIDE DEF r
    <2>2. r \in TunnelResults
        BY <1>2, <2>1, Zenon DEF TunnelStates
    <2>3. /\ r.state # "Idle"
          /\ r.close => r.state \in {"Closing", "Closed"}
          /\ ~r.close => r.out # "ERROR"
        BY <2>1
    <2> QED BY <1>3, <2>2, <2>3 DEF r
<1>4. CASE s.state_ \in {"Closing", "Closed"}
    <2>1. r = [state |-> s.state_, out |-> "none", close |-> TRUE]
        BY <1>4 DEF handle
    <2> HIDE DEF r
    <2>2. /\ r \in TunnelResults /\ r.state # "Idle" /\ r.state # "Established"
          /\ r.close => r.state \in {"Closing", "Closed"}
          /\ ~r.close => r.out # "ERROR"
        BY <1>4, <2>1 DEF TunnelResults, TunnelStates
    <2> QED BY <2>2 DEF r
<1>5. CASE s.state_ = "Established"
    <2>1. \/ r = [state |-> "Established", out |-> "none", close |-> FALSE]
          \/ r = [state |-> "Established", out |-> "PONG", close |-> FALSE]
          \/ r = [state |-> "Closed", out |-> "none", close |-> TRUE]
          \/ r = [state |-> "Closing", out |-> "ERROR", close |-> TRUE]
        BY <1>5 DEF handle, fail
    <2> HIDE DEF r
    <2>2. r \in TunnelResults
        BY <1>2, <2>1, Zenon DEF TunnelStates
    <2>3. /\ r.state # "Idle"
          /\ r.close => r.state \in {"Closing", "Closed"}
          /\ ~r.close => r.out # "ERROR"
        BY <2>1
    <2> QED BY <1>5, <2>2, <2>3 DEF r
<1> QED BY <1>1, <1>3, <1>4, <1>5

(* What handle_read keeps between two frames.                              *)
Reads(s) == Proper(s) /\ s.state_ # "Idle"

(* close_now never leaves a controller idle.                               *)
LEMMA ClosedNotIdle ==
    ASSUME NEW s, Closeable(s), NEW why \in TunnelReasons
    PROVE  Reads(close_now(s, why))
PROOF
<1>1. Proper(close_now(s, why))
    BY CloseTunnel, Zenon
<1>2. close_now(s, why).state_ = "Closed"
    BY DEF close_now, Closeable, Tunnels
<1> QED BY <1>1, <1>2 DEF Reads

(* One frame of the client's handle_read.                                  *)
LEMMA TunnelFrame ==
    ASSUME NEW s, Reads(s), NEW frame, NEW accepted \in BOOLEAN
    PROVE  Reads(HandleFrame(s, frame, accepted))
PROOF
<1> DEFINE r == handle(s, frame)
           assigned == s.state_ = "AwaitingAssignment" /\ r.state = "Established"
           served == s.state_ = "Established" /\ r.state # "Closing"
           nonce == s.pending_ping_nonce_ /\ frame # "pong"
           remote == s.remote_error_ \/ (served /\ frame = "error")
           retryable == s.retryable_close_ /\ ~(served /\ frame = "error")
           rejected == s.rejected \/ frame = "error"
           violated == s.violated \/ (r.out = "ERROR" /\ frame # "error")
           t == [s EXCEPT !.state_ = r.state, !.pending_ping_nonce_ = nonce,
                          !.remote_error_ = remote, !.retryable_close_ = retryable,
                          !.rejected = rejected, !.violated = violated]
           configured == t.configured \/ assigned
           toTun == IF served /\ frame = "data" THEN t.toTun + 1 ELSE t.toTun
           u == [t EXCEPT !.configured = configured, !.toTun = toTun]
           final == [t EXCEPT !.retryable_close_ = FALSE]
           e == IF r.out = "none" THEN [s |-> u, ok |-> TRUE] ELSE enqueue_frame(u, r.out)
<1>1. s \in Tunnels /\ s.state_ # "Idle" /\ Proper(s)
    BY DEF Reads, Proper, Transports
<1>2. HandleFrame(s, frame, accepted) =
          IF s.stopped_ \/ s.close_after_write_ THEN s
          ELSE IF assigned /\ ~accepted THEN close_now(final, "refused")
          ELSE IF ~e.ok THEN close_now(e.s, "overflow")
          ELSE IF r.close THEN CloseTransport(e.s) ELSE e.s
    BY <1>1 DEF HandleFrame, Final, Tunnels
<1>3. /\ r \in TunnelResults /\ r.state # "Idle"
      /\ r.close => r.state \in {"Closing", "Closed"}
      /\ ~r.close => r.out # "ERROR"
      /\ r.state = "Established" => s.state_ \in {"AwaitingAssignment", "Established"}
    BY <1>1, HandleTunnel
<1> HIDE DEF r
<1>4. CASE s.stopped_ \/ s.close_after_write_
    BY <1>2, <1>4
<1>5. CASE ~(s.stopped_ \/ s.close_after_write_)
    <2>1. /\ Pending(s) /\ Goes(s.outbound_queue_.queue_) /\ ~s.stopped_ /\ ~s.close_after_write_
        BY <1>1, <1>5, PendingFacts DEF Proper, Closes
    <2>2. nonce \in BOOLEAN /\ remote \in BOOLEAN /\ retryable \in BOOLEAN
          /\ rejected \in BOOLEAN /\ violated \in BOOLEAN /\ r.state \in TunnelStates
          /\ r.out \in {"none", "PONG", "ERROR"} /\ r.close \in BOOLEAN
        BY <1>1, <1>3 DEF Tunnels, TunnelResults
    <2> HIDE DEF nonce, remote, retryable, rejected, violated
    <2>3. t \in Tunnels
        BY <1>1, <2>2, Zenon DEF Tunnels
    <2>4. /\ SameWrites(s, t) /\ t.state_ = r.state /\ t.close_after_write_ = s.close_after_write_
          /\ t.toTun = s.toTun /\ t.configured = s.configured /\ t.started_ = s.started_
          /\ t.handshaking = s.handshaking /\ t.reading = s.reading
        BY <1>1 DEF Tunnels, SameWrites
    <2> HIDE DEF t
    <2>5. configured \in BOOLEAN /\ toTun \in Nat
        <3>1. t.configured \in BOOLEAN /\ t.toTun \in Nat
            BY <2>3 DEF Tunnels
        <3>2. t.toTun + 1 \in Nat
            BY <3>1, Successor
        <3> QED BY <3>1, <3>2
    <2>6. final \in Tunnels /\ SameWrites(t, final) /\ final.toTun = t.toTun
          /\ final.configured = t.configured /\ final.started_ = t.started_
          /\ final.handshaking = t.handshaking /\ final.reading = t.reading
        BY <2>3, Zenon DEF Tunnels, SameWrites
    <2>7. Closeable(final)
        <3>1. Closeable(s)
            BY <2>1, PendingFacts
        <3> HIDE DEF final
        <3> QED BY <2>4, <2>6, <3>1 DEF Closeable, SameWrites
    <2> HIDE DEF final
    <2>8. /\ s.toTun > 0 \/ s.state_ = "Established" \/ Carries(s.wire)
                \/ Carries(s.outbound_queue_.queue_) => s.configured
          /\ s.toTun \in Nat
        BY <1>1, <2>1, Zenon DEF Pending, Serves, Tunnels
    <2>9. r.state = "Established" \/ toTun > 0 \/ Carries(s.wire)
                \/ Carries(s.outbound_queue_.queue_) => configured
        BY <1>3, <2>4, <2>8
    <2> HIDE DEF configured, toTun
    <2>10. u \in Tunnels
        BY <2>3, <2>5, Zenon DEF Tunnels
    <2>11. /\ SameWrites(t, u) /\ u.state_ = t.state_ /\ u.close_after_write_ = t.close_after_write_
           /\ u.toTun = toTun /\ u.configured = configured /\ u.started_ = t.started_
           /\ u.handshaking = t.handshaking /\ u.reading = t.reading
        BY <2>3 DEF Tunnels, SameWrites
    <2> HIDE DEF u
    <2>12. Pending(u) /\ Goes(u.outbound_queue_.queue_) /\ ~u.close_after_write_ /\ u.state_ = r.state
        <3>1. SameWrites(s, u)
            BY <2>4, <2>11 DEF SameWrites
        <3>2. Transports(u)
            BY <2>1, <2>10, <3>1, TransportsOn, Zenon DEF Pending
        <3>3. Serves(u)
            BY <2>4, <2>9, <2>11, <3>1 DEF Serves, SameWrites
        <3>4. Starts(u)
            BY <1>1, <1>3, <2>1, <2>4, <2>11, <3>1 DEF Pending, Starts, SameWrites
        <3> QED BY <2>1, <2>4, <2>11, <3>1, <3>2, <3>3, <3>4 DEF Pending, SameWrites
    <2>13. /\ e.ok \in BOOLEAN
           /\ e.ok => /\ Pending(e.s) /\ e.s.state_ = r.state /\ ~e.s.close_after_write_
                      /\ r.out # "ERROR" => Goes(e.s.outbound_queue_.queue_)
           /\ ~e.ok => Closeable(e.s)
        <3>1. CASE r.out = "none"
            <4>1. e.s = u /\ e.ok = TRUE
                BY <3>1
            <4> QED BY <2>12, <4>1, Zenon
        <3>2. CASE r.out # "none"
            <4>1. /\ e = enqueue_frame(u, r.out) /\ r.out \in Kinds /\ r.out # "DATA"
                  /\ r.out # "ERROR" => r.out \notin Finals
                BY <2>2, <3>2 DEF Kinds, Finals
            <4> HIDE DEF e
            <4>2. /\ e.ok \in BOOLEAN
                  /\ e.ok => /\ Pending(e.s) /\ SameBut(u, e.s)
                             /\ r.out \notin Finals => Goes(e.s.outbound_queue_.queue_)
                  /\ ~e.ok => Closeable(e.s)
                BY <2>12, <4>1, EnqueuePending
            <4> QED BY <2>12, <4>1, <4>2 DEF SameBut
        <3> QED BY <3>1, <3>2, Zenon
    <2> HIDE DEF e
    <2>14. "refused" \in TunnelReasons /\ "overflow" \in TunnelReasons
        BY DEF TunnelReasons
    <2>15. Reads(close_now(final, "refused"))
        BY <2>7, <2>14, ClosedNotIdle
    <2>16. ~e.ok => Reads(close_now(e.s, "overflow"))
        BY <2>13, <2>14, ClosedNotIdle
    <2>17. e.ok /\ r.close => Reads(CloseTransport(e.s))
        BY <1>3, <2>13, CloseTransportTunnel DEF Reads
    <2>18. e.ok /\ ~r.close => Reads(e.s)
        BY <1>3, <2>13, PendingProper DEF Reads
    <2> HIDE DEF assigned
    <2> QED BY <1>2, <1>5, <2>15, <2>16, <2>17, <2>18
<1> QED BY <1>4, <1>5

(* The whole of handle_read of the client.                                *)
LEMMA TunnelFrames ==
    ASSUME NEW s, Reads(s), NEW frames \in Batches, NEW accepted \in BOOLEAN
    PROVE  Reads(HandleFrames(s, frames, accepted))
PROOF
<1> DEFINE Sound == {u \in Tunnels : Reads(u)}
           N == Len(frames)
           step(u, m) == HandleFrame(u, frames[m], accepted)
           body == [m \in 1..N |-> [u \in Sound |-> step(u, m)]]
           Loop(f) == f = [m \in 0..N |-> IF m = 0 THEN s ELSE step(f[m - 1], m)]
           after == CHOOSE f : Loop(f)
<1>1. s \in Sound /\ N \in Nat
    BY DEF Reads, Proper, Transports, Batches
<1>2. \A u \in Sound : \A m \in 1..N : step(u, m) \in Sound
    BY TunnelFrame DEF Reads, Proper, Transports
<1>3. HandleFrames(s, frames, accepted) = after[N]
    BY DEF HandleFrames
<1> HIDE DEF Sound, N, step
<1>4. body \in [1..N -> [Sound -> Sound]]
    BY <1>2
<1>5. \A u \in Sound : \A m \in 1..N : body[m][u] = step(u, m)
    OBVIOUS
<1> HIDE DEF body
<1>6. PICK f : IsRun(f, Sound, s, N, body)
    BY <1>1, <1>4, LoopExists, Zenon
<1>7. f \in [0..N -> Sound] /\ f[0] = s /\ \A m \in 1..N : f[m] = body[m][f[m - 1]]
    BY <1>6 DEF IsRun
<1>8. \A m \in 0..N : m # 0 => m \in 1..N /\ m - 1 \in 0..N
    BY <1>1
<1>9. \A m \in 0..N : f[m] = IF m = 0 THEN s ELSE step(f[m - 1], m)
    BY <1>5, <1>7, <1>8
<1>10. Loop(f)
    BY <1>7, <1>9
<1>11. Loop(after)
    BY <1>10, Zenon
<1> HIDE DEF after
<1>12. 0 \in 0..N /\ \A m \in 1..N : m \in 0..N /\ m # 0
    BY <1>1
<1>13. after[0] = s /\ \A m \in 1..N : after[m] = step(after[m - 1], m)
    BY <1>11, <1>12, Zenon
<1>14. \A m \in 1..N : after[m - 1] \in Sound => after[m] \in Sound
    BY <1>2, <1>13
<1>15. after[N] \in Sound
    BY <1>1, <1>13, <1>14, LoopKeeps, Zenon
<1> QED BY <1>3, <1>15 DEF Sound
-------------------------------------------------------------------------------
(* f has the writes and the controller of s.                               *)
SameTunnel(s, f) ==
    /\ SameWrites(s, f) /\ f.close_after_write_ = s.close_after_write_ /\ f.state_ = s.state_
    /\ f.toTun = s.toTun /\ f.configured = s.configured

(* A change of what is pending, in phase with the controller.              *)
LEMMA TunnelOn ==
    ASSUME NEW s, Proper(s), NEW f \in Tunnels, SameTunnel(s, f), Starts(f)
    PROVE  Proper(f)
PROOF
<1>1. Transports(f)
    BY TransportsOn DEF Proper, SameTunnel
<1>2. Closes(f)
    BY DEF Proper, SameTunnel, SameWrites, Closes
<1>3. Serves(f)
    BY DEF Proper, SameTunnel, SameWrites, Serves
<1> QED BY <1>1, <1>2, <1>3 DEF Proper

(* As long as the operations are the same, the tunnel stays in phase.      *)
LEMMA SamePhase ==
    ASSUME NEW s, Starts(s), NEW f, SameTunnel(s, f), f.started_ = s.started_,
           f.handshaking => s.handshaking, f.reading => s.reading
    PROVE  Starts(f)
PROOF BY DEF Starts, SameTunnel, SameWrites

(* A tunnel that is closed whatever it has waited for.                     *)
LEMMA CloseableOn ==
    ASSUME NEW s, Closeable(s), NEW f \in Tunnels, SameTunnel(s, f), Starts(f)
    PROVE  Closeable(f)
PROOF BY DEF Closeable, SameTunnel, SameWrites, Starts

(* A failure of the transport closes the tunnel.                           *)
LEMMA FailsTunnel ==
    ASSUME NEW s, Closeable(s), Starts(s), NEW result
    PROVE  Proper(Fails(s, result))
PROOF
<1> DEFINE retryable == result # "tls"
           f == [s EXCEPT !.retryable_close_ = retryable]
<1>1. s \in Tunnels /\ "transport" \in TunnelReasons
    BY DEF Closeable, TunnelReasons
<1>2. Fails(s, result) = close_now(f, "transport")
    BY DEF Fails
<1>3. retryable \in BOOLEAN
    OBVIOUS
<1> HIDE DEF retryable
<1>4. f \in Tunnels
    BY <1>1, <1>3 DEF Tunnels
<1>5. /\ SameTunnel(s, f) /\ f.started_ = s.started_ /\ f.handshaking = s.handshaking
      /\ f.reading = s.reading
    BY <1>1 DEF Tunnels, SameTunnel, SameWrites
<1> HIDE DEF f
<1>6. Closeable(f)
    BY <1>4, <1>5, SamePhase, CloseableOn
<1> QED BY <1>1, <1>2, <1>6, CloseTunnel, Zenon

(* An error that is not retried closes the tunnel.                         *)
LEMMA FinalTunnel ==
    ASSUME NEW s, Closeable(s), Starts(s), NEW why \in TunnelReasons
    PROVE  Proper(close_now(Final(s), why))
PROOF
<1> DEFINE f == [s EXCEPT !.retryable_close_ = FALSE]
<1>1. s \in Tunnels /\ Final(s) = f
    BY DEF Closeable, Final
<1>2. f \in Tunnels
    BY <1>1, Zenon DEF Tunnels
<1>3. /\ SameTunnel(s, f) /\ f.started_ = s.started_ /\ f.handshaking = s.handshaking
      /\ f.reading = s.reading
    BY <1>1 DEF Tunnels, SameTunnel, SameWrites
<1> HIDE DEF f
<1>4. Closeable(f)
    BY <1>2, <1>3, SamePhase, CloseableOn
<1> QED BY <1>1, <1>4, CloseTunnel, Zenon

(* A tunnel that has not been started.                                     *)
LEMMA ClientInit == TunnelInit => ClientInv
PROOF
<1> DEFINE s == NewTunnel
<1> SUFFICES ASSUME TunnelInit PROVE Proper(s)
    BY DEF TunnelInit, ClientInv
<1>1. <<>> \in Seq(Outbound) /\ Len(<<>>) = 0
    OBVIOUS
<1>2. EmptyQueue \in Queues /\ <<>> \in Streams /\ Accounted(EmptyQueue) /\ Limited(EmptyQueue)
    BY <1>1, EmptyFacts DEF Streams
<1>3. s \in Tunnels
    <2>1. "Idle" \in TunnelStates /\ "open" \in TunnelReasons
        BY DEF TunnelStates, TunnelReasons
    <2> QED BY <1>2, <2>1 DEF NewTunnel, Tunnels
<1>4. /\ s.stopped_ = FALSE /\ s.writing = 0 /\ s.write_in_progress_ = FALSE
      /\ s.close_after_write_ = FALSE /\ s.outbound_queue_ = EmptyQueue /\ s.wire = <<>>
      /\ s.next_outbound_sequence_ = 1 /\ s.state_ = "Idle" /\ s.toTun = 0
      /\ s.started_ = FALSE /\ s.handshaking = FALSE /\ s.reading = FALSE
    BY DEF NewTunnel
<1> HIDE DEF s
<1>5. EmptyQueue.queue_ = <<>> /\ IsEmpty(EmptyQueue)
    BY DEF EmptyQueue, IsEmpty
<1>6. Busy(s)
    BY <1>4, <1>5 DEF Busy
<1>7. Ordered(s)
    <2>1. 1..0 = {} /\ 1 = 1 + 0 + 0
        OBVIOUS
    <2> QED BY <1>1, <1>2, <1>4, <1>5, <2>1 DEF Ordered, Numbered, NumberedFrom
<1>8. Closes(s) /\ Serves(s)
    <2>1. Goes(<<>>) /\ EndsLast(<<>>) /\ ~Carries(<<>>)
        BY DEF Goes, EndsLast, Carries
    <2> QED BY <1>4, <1>5, <2>1 DEF Closes, Serves
<1>9. Starts(s)
    BY <1>4 DEF Starts
<1> QED BY <1>3, <1>6, <1>7, <1>8, <1>9 DEF Proper, Transports

(* start_on_strand, whether or not the server's name can be set.           *)
LEMMA ClientStart ==
    ASSUME ClientInv, NEW named \in BOOLEAN, Start(named)
    PROVE  ClientInv'
PROOF
<1> DEFINE s == [self EXCEPT !.started_ = TRUE]
           f == [s EXCEPT !.handshaking = TRUE]
<1>1. /\ Proper(self) /\ self \in Tunnels /\ ~self.started_ /\ ~self.stopped_
      /\ Starts(self) /\ Closeable(self)
    BY OpenTunnel DEF ClientInv, Proper, Transports, Start
<1>2. self' = IF named THEN f ELSE close_now(Final(s), "refused")
    BY DEF Start
<1>3. s \in Tunnels /\ f \in Tunnels
    BY <1>1, Zenon DEF Tunnels
<1>4. /\ SameTunnel(self, s) /\ s.started_ = TRUE /\ s.handshaking = self.handshaking
      /\ s.reading = self.reading
    BY <1>1 DEF Tunnels, SameTunnel, SameWrites
<1>5. SameTunnel(self, f) /\ f.started_ = TRUE /\ f.handshaking = TRUE /\ f.reading = self.reading
    BY <1>1 DEF Tunnels, SameTunnel, SameWrites
<1> HIDE DEF s, f
<1>6. Starts(s) /\ Starts(f)
    BY <1>1, <1>4, <1>5 DEF Starts, SameTunnel, SameWrites
<1>7. Proper(f)
    BY <1>1, <1>3, <1>5, <1>6, TunnelOn
<1>8. "refused" \in TunnelReasons
    BY DEF TunnelReasons
<1>9. Proper(close_now(Final(s), "refused"))
    BY <1>1, <1>3, <1>4, <1>6, <1>8, CloseableOn, FinalTunnel
<1> QED BY <1>2, <1>7, <1>9 DEF ClientInv

(* The handshake of TLS is over, and the controller says hello.            *)
LEMMA ClientHandshake ==
    ASSUME ClientInv, NEW result, HandleHandshake(result)
    PROVE  ClientInv'
PROOF
<1> DEFINE s == [self EXCEPT !.handshaking = FALSE]
           h == [s EXCEPT !.state_ = "AwaitingAssignment"]
           t == EnqueueOrClose(h, "HELLO")
           reading == ~t.stopped_ /\ ~t.close_after_write_
           u == [t EXCEPT !.reading = reading]
<1>1. /\ Proper(self) /\ self \in Tunnels /\ self.handshaking = TRUE /\ Starts(self)
    BY DEF ClientInv, Proper, Transports, Tunnels, HandleHandshake
<1>2. self' = IF s.stopped_ THEN s ELSE IF result # "ok" THEN Fails(s, result) ELSE u
    BY DEF HandleHandshake
<1>3. s \in Tunnels
    BY <1>1, Zenon DEF Tunnels
<1>4. /\ SameTunnel(self, s) /\ s.started_ = self.started_ /\ s.handshaking = FALSE
      /\ s.reading = self.reading
    BY <1>1 DEF Tunnels, SameTunnel, SameWrites
<1> HIDE DEF s
<1>5. Starts(s)
    BY <1>1, <1>4, SamePhase
<1>6. Proper(s)
    BY <1>1, <1>3, <1>4, <1>5, TunnelOn
<1>7. CASE s.stopped_
    BY <1>2, <1>6, <1>7 DEF ClientInv
<1>8. CASE ~s.stopped_ /\ result # "ok"
    <2>1. Proper(Fails(s, result))
        BY <1>5, <1>6, <1>8, OpenTunnel, FailsTunnel
    <2> QED BY <1>2, <1>8, <2>1 DEF ClientInv
<1>9. CASE ~s.stopped_ /\ result = "ok"
    <2>1. s.state_ = "Idle" /\ s.started_ = TRUE /\ s.reading = FALSE
        <3>1. ~self.stopped_ /\ self.state_ = "Idle" /\ self.started_ /\ ~self.reading
            BY <1>1, <1>4, <1>9 DEF Starts, SameTunnel, SameWrites
        <3> QED BY <1>1, <1>4, <3>1 DEF SameTunnel, Tunnels
    <2>2. /\ Pending(s) /\ s.close_after_write_ = FALSE /\ Goes(s.outbound_queue_.queue_)
        <3>1. s.close_after_write_ = FALSE
            BY <1>3, <1>6, <1>9, <2>1 DEF Proper, Closes, Tunnels
        <3> QED BY <1>6, <1>9, <3>1, PendingFacts, Zenon DEF Proper, Closes
    <2>3. h \in Tunnels
        BY <1>3 DEF Tunnels, TunnelStates
    <2>4. /\ SameWrites(s, h) /\ h.state_ = "AwaitingAssignment" /\ h.toTun = s.toTun
          /\ h.configured = s.configured /\ h.started_ = TRUE /\ h.handshaking = FALSE
          /\ h.reading = FALSE /\ h.close_after_write_ = FALSE
        BY <1>3, <1>4, <2>1, <2>2 DEF Tunnels, SameWrites
    <2> HIDE DEF h
    <2>5. Pending(h) /\ Goes(h.outbound_queue_.queue_)
        <3>1. Transports(h)
            BY <2>2, <2>3, <2>4, TransportsOn DEF Pending
        <3>2. Serves(h)
            BY <2>2, <2>4 DEF Pending, Serves, SameWrites
        <3>3. Starts(h)
            BY <2>4 DEF Starts
        <3> QED BY <2>2, <2>4, <3>1, <3>2, <3>3 DEF Pending, SameWrites
    <2>6. "HELLO" \in Kinds /\ "HELLO" \notin Finals /\ "HELLO" # "DATA"
        BY DEF Kinds, Finals
    <2>7. Proper(t) /\ (~t.stopped_ => SameBut(h, t))
        BY <2>4, <2>5, <2>6, EnqueueOrCloseTunnel
    <2> HIDE DEF t
    <2>8. t \in Tunnels /\ reading \in BOOLEAN /\ (reading => ~t.stopped_)
        BY <2>7 DEF Proper, Transports
    <2> HIDE DEF reading
    <2>9. u \in Tunnels
        BY <2>8 DEF Tunnels
    <2>10. /\ SameTunnel(t, u) /\ u.started_ = t.started_ /\ u.handshaking = t.handshaking
           /\ u.reading = reading
        BY <2>8 DEF Tunnels, SameTunnel, SameWrites
    <2> HIDE DEF u
    <2>11. Starts(u)
        <3>1. CASE ~t.stopped_
            BY <2>4, <2>7, <2>10, <3>1 DEF Starts, SameTunnel, SameWrites, SameBut
        <3>2. CASE t.stopped_
            BY <2>7, <2>8, <2>10, <3>2 DEF Proper, Starts, SameTunnel, SameWrites
        <3> QED BY <3>1, <3>2
    <2>12. Proper(u)
        BY <2>7, <2>9, <2>10, <2>11, TunnelOn
    <2> QED BY <1>2, <1>9, <2>12 DEF ClientInv
<1> QED BY <1>7, <1>8, <1>9

(* handle_read, with frames or with an error.                              *)
LEMMA ClientRead ==
    ASSUME ClientInv,
           \/ \E frames \in Batches, accepted \in BOOLEAN : HandleRead(frames, accepted)
           \/ \E result \in {"network", "tls", "decoder"} : ReadFails(result)
    PROVE  ClientInv'
PROOF
<1> DEFINE s == [self EXCEPT !.reading = FALSE]
<1>1. /\ Proper(self) /\ self \in Tunnels /\ self.reading = TRUE /\ Starts(self)
    BY DEF ClientInv, Proper, Transports, Tunnels, HandleRead, ReadFails
<1>2. s \in Tunnels
    BY <1>1, Zenon DEF Tunnels
<1>3. /\ SameTunnel(self, s) /\ s.started_ = self.started_ /\ s.reading = FALSE
      /\ s.handshaking = self.handshaking
    BY <1>1 DEF Tunnels, SameTunnel, SameWrites
<1>4. ASSUME NEW result, ReadFails(result)
      PROVE  ClientInv'
    <2>1. self' = IF s.stopped_ THEN s
                    ELSE IF result = "decoder" THEN close_now(Final(s), "protocol")
                    ELSE Fails(s, result)
        BY <1>4 DEF ReadFails
    <2> HIDE DEF s
    <2>2. Starts(s)
        BY <1>1, <1>3, SamePhase
    <2>3. Proper(s) /\ "protocol" \in TunnelReasons
        BY <1>1, <1>2, <1>3, <2>2, TunnelOn DEF TunnelReasons
    <2>4. ~s.stopped_ => /\ Proper(close_now(Final(s), "protocol"))
                         /\ Proper(Fails(s, result))
        BY <2>2, <2>3, OpenTunnel, FailsTunnel, FinalTunnel
    <2> QED BY <2>1, <2>3, <2>4 DEF ClientInv
<1>5. ASSUME NEW frames \in Batches, NEW accepted \in BOOLEAN,
             HandleRead(frames, accepted)
      PROVE  ClientInv'
    <2> DEFINE t == HandleFrames(s, frames, accepted)
               reading == ~t.stopped_ /\ ~t.close_after_write_
               u == [t EXCEPT !.reading = reading]
    <2>1. self' = u
        BY <1>5 DEF HandleRead
    <2> HIDE DEF s
    <2>2. Starts(s)
        BY <1>1, <1>3, SamePhase
    <2>3. Proper(s)
        BY <1>1, <1>2, <1>3, <2>2, TunnelOn
    <2>4. Reads(s)
        BY <1>1, <1>3, <2>3 DEF Reads, Starts, SameTunnel
    <2>5. Reads(t)
        BY <2>4, TunnelFrames
    <2> HIDE DEF t
    <2>6. t \in Tunnels /\ reading \in BOOLEAN /\ (reading => ~t.stopped_) /\ Proper(t)
        BY <2>5 DEF Reads, Proper, Transports
    <2> HIDE DEF reading
    <2>7. u \in Tunnels
        BY <2>6 DEF Tunnels
    <2>8. /\ SameTunnel(t, u) /\ u.started_ = t.started_ /\ u.handshaking = t.handshaking
          /\ u.reading = reading
        BY <2>6 DEF Tunnels, SameTunnel, SameWrites
    <2> HIDE DEF u
    <2>9. Starts(u)
        <3>1. Starts(t) /\ t.state_ # "Idle"
            BY <2>5 DEF Reads, Proper
        <3>2. t.started_ \/ t.stopped_
            BY <3>1 DEF Starts
        <3> QED BY <2>6, <2>8, <3>1, <3>2 DEF Starts, SameTunnel, SameWrites
    <2>10. Proper(u)
        BY <2>6, <2>7, <2>8, <2>9, TunnelOn
    <2> QED BY <2>1, <2>10 DEF ClientInv
<1> QED BY <1>4, <1>5

(* The first frame of the queue goes to the end of the wire.               *)
LEMMA PoppedFrame ==
    ASSUME NEW wire \in Streams, NEW frames \in Streams, frames # <<>>, Goes(wire), EndsLast(frames)
    PROVE  LET longer == Append(wire, frames[1])
               rest == Tail(frames)
           IN  /\ EndsLast(longer) /\ EndsLast(rest)
               /\ rest # <<>> => Goes(longer)
               /\ Goes(frames) => Goes(longer) /\ Goes(rest)
               /\ Carries(longer) => Carries(wire) \/ Carries(frames)
               /\ Carries(rest) => Carries(frames)
PROOF
<1> DEFINE n == Len(frames)
           rest == Tail(frames)
           longer == Append(wire, frames[1])
<1>1. frames \in Seq(Outbound) /\ n \in Nat /\ n # 0 /\ 1 \in 1..n /\ frames[1] \in Outbound
    BY DEF Streams
<1>2. Len(rest) = n - 1 /\ (rest # <<>> => n # 1) /\ \A i \in 1..(n - 1) : rest[i] = frames[i + 1]
    <2>1. rest \in Seq(Outbound) /\ Len(rest) = n - 1
        BY <1>1
    <2>2. \A i \in 1..(n - 1) : rest[i] = frames[i + 1]
        BY <1>1
    <2>3. rest # <<>> => Len(rest) # 0
        BY <2>1
    <2> QED BY <1>1, <2>1, <2>2, <2>3
<1>3. \A i \in 1..(n - 1) : i + 1 \in 1..n /\ (i + 1 = n => i = n - 1)
    BY <1>1
<1> HIDE DEF rest, n
<1>4. EndsLast(rest)
    BY <1>2, <1>3 DEF EndsLast, n
<1>5. Goes(frames) => Goes(rest)
    BY <1>2, <1>3 DEF Goes, n
<1>6. Carries(rest) => Carries(frames)
    BY <1>2, <1>3, Zenon DEF Carries, n
<1>7. /\ EndsLast(longer)
      /\ frames[1].kind \notin Finals => Goes(longer)
      /\ Carries(longer) => Carries(wire) \/ frames[1].kind = "DATA"
    BY <1>1, AppendedFrame
<1> HIDE DEF longer
<1>8. /\ rest # <<>> => frames[1].kind \notin Finals
      /\ Goes(frames) => frames[1].kind \notin Finals
      /\ frames[1].kind = "DATA" => Carries(frames)
    BY <1>1, <1>2 DEF EndsLast, Goes, Carries, n
<1> QED BY <1>4, <1>5, <1>6, <1>7, <1>8 DEF rest, longer

(* handle_write takes the frame that was written off the queue, begins the *)
(* next write and closes after the last one.                               *)
LEMMA ClientWrite ==
    ASSUME ClientInv, NEW result, HandleWrite(result)
    PROVE  ClientInv'
PROOF
<1> DEFINE writing == self.writing - 1
           s == [self EXCEPT !.writing = writing]
           wire == Append(s.wire, front(s.outbound_queue_))
           q == pop_front(s.outbound_queue_)
           t == [s EXCEPT !.wire = wire, !.outbound_queue_ = q]
           idle == [t EXCEPT !.write_in_progress_ = FALSE]
<1>1. /\ Proper(self) /\ self \in Tunnels /\ self.writing = 1 /\ Starts(self)
    BY DEF ClientInv, Proper, Transports, Busy, HandleWrite
<1>2. self' = IF s.stopped_ THEN s ELSE IF result # "ok" THEN Fails(s, result)
                ELSE write_next(t)
    BY DEF HandleWrite
<1>3. writing = 0 /\ writing \in Nat
    BY <1>1
<1> HIDE DEF writing
<1>4. /\ s \in Tunnels /\ s.writing = 0 /\ s.stopped_ = self.stopped_ /\ SameBut(self, s)
      /\ s.outbound_queue_ = self.outbound_queue_
      /\ s.next_outbound_sequence_ = self.next_outbound_sequence_
    <2>1. s \in Tunnels
        BY <1>1, <1>3 DEF Tunnels
    <2> QED BY <1>1, <1>3, <2>1 DEF Tunnels, SameBut
<1> HIDE DEF s
<1>5. q = pop_front(s.outbound_queue_) /\ wire = Append(s.wire, front(s.outbound_queue_))
    OBVIOUS
<1> HIDE DEF q, wire
<1>6. Serves(s) /\ Starts(s) /\ Closes(s) /\ Ordered(s)
    <2>1. Serves(s) /\ Starts(s)
        BY <1>1, <1>4, PhaseOn DEF Proper
    <2>2. Closes(s)
        BY <1>1, <1>4, Zenon DEF Proper, Closes, SameBut
    <2>3. Ordered(s)
        BY <1>1, <1>4 DEF Proper, Transports, Ordered, SameBut
    <2> QED BY <2>1, <2>2, <2>3
<1>7. CASE s.stopped_
    <2>1. Busy(s)
        BY <1>1, <1>4, <1>7 DEF Proper, Transports, Busy
    <2> QED BY <1>2, <1>4, <1>6, <1>7, <2>1 DEF Proper, Transports, ClientInv
<1>8. CASE ~s.stopped_ /\ result # "ok"
    <2>1. Closeable(s)
        BY <1>4, <1>6, <1>8, Zenon DEF Closeable, Ordered, Closes, Serves, Starts
    <2> QED BY <1>2, <1>6, <1>8, <2>1, FailsTunnel DEF ClientInv
<1>9. CASE ~s.stopped_ /\ result = "ok"
    <2>1. s.outbound_queue_ \in Queues /\ s.wire \in Streams /\ s.next_outbound_sequence_ \in Nat
        BY <1>4 DEF Tunnels
    <2>2. ~IsEmpty(s.outbound_queue_)
        BY <1>1, <1>4, <1>9 DEF Proper, Transports, Busy
    <2>3. /\ q \in Queues /\ Accounted(q) /\ Limited(q) /\ q.queue_ = Tail(s.outbound_queue_.queue_)
          /\ front(s.outbound_queue_) = s.outbound_queue_.queue_[1]
          /\ s.outbound_queue_.queue_[1] \in Outbound
        BY <1>6, <1>5, <2>1, <2>2, PopFacts, Zenon DEF Ordered
    <2>4. Numbered(s.wire, s.outbound_queue_, 1, s.next_outbound_sequence_)
        BY <1>6, <1>9 DEF Ordered
    <2>5. wire \in Streams /\ Numbered(wire, q, 1, s.next_outbound_sequence_)
        BY <1>5, <2>1, <2>2, <2>3, <2>4, NumberedPop
    <2>6. /\ EndsLast(wire) /\ EndsLast(q.queue_)
          /\ ~IsEmpty(q) => Goes(wire)
          /\ ~s.close_after_write_ => Goes(wire) /\ Goes(q.queue_)
          /\ Carries(wire) \/ Carries(q.queue_) => s.configured
        <3>1. /\ s.outbound_queue_.queue_ \in Streams /\ s.outbound_queue_.queue_ # <<>>
              /\ ~IsEmpty(q) => q.queue_ # <<>>
            BY <2>1, <2>2 DEF Queues, IsEmpty
        <3>2. /\ Goes(s.wire) /\ EndsLast(s.outbound_queue_.queue_)
              /\ ~s.close_after_write_ => Goes(s.outbound_queue_.queue_)
              /\ Carries(s.wire) \/ Carries(s.outbound_queue_.queue_) => s.configured
            BY <1>6, <1>9, Zenon DEF Closes, Serves
        <3>3. /\ EndsLast(wire) /\ EndsLast(q.queue_)
              /\ q.queue_ # <<>> => Goes(wire)
              /\ Goes(s.outbound_queue_.queue_) => Goes(wire) /\ Goes(q.queue_)
              /\ Carries(wire) => Carries(s.wire) \/ Carries(s.outbound_queue_.queue_)
              /\ Carries(q.queue_) => Carries(s.outbound_queue_.queue_)
            BY <1>5, <2>1, <2>3, <3>1, <3>2, PoppedFrame
        <3> QED BY <3>1, <3>2, <3>3, Zenon
    <2>7. t \in Tunnels
        BY <1>4, <2>3, <2>5, Zenon DEF Tunnels
    <2>8. /\ t.wire = wire /\ t.outbound_queue_ = q /\ t.writing = 0 /\ t.stopped_ = s.stopped_
          /\ t.next_outbound_sequence_ = s.next_outbound_sequence_ /\ t.toTun = s.toTun
          /\ t.configured = s.configured /\ t.state_ = s.state_ /\ t.started_ = s.started_
          /\ t.handshaking = s.handshaking /\ t.reading = s.reading
          /\ t.close_after_write_ = s.close_after_write_
        BY <1>4 DEF Tunnels
    <2>9. idle \in Tunnels
        BY <2>7, Zenon DEF Tunnels
    <2>10. /\ SameBut(t, idle) /\ idle.outbound_queue_ = q /\ idle.writing = 0
           /\ idle.write_in_progress_ = FALSE
           /\ idle.next_outbound_sequence_ = t.next_outbound_sequence_
        BY <2>7, <2>8 DEF Tunnels, SameBut
    <2>11. write_next(t) = IF IsEmpty(q) THEN IF idle.close_after_write_
                                                     THEN close_now(idle, "drained") ELSE idle
                                  ELSE write_next(t)
        BY <1>9, <2>8 DEF write_next
    <2> HIDE DEF t, idle
    <2>12. Ordered(t) /\ Serves(t) /\ Starts(t)
        <3>1. Ordered(t)
            BY <2>3, <2>5, <2>8, Zenon DEF Ordered, Numbered
        <3>2. Serves(t)
            BY <1>6, <2>6, <2>8 DEF Serves
        <3>3. Starts(t)
            BY <1>6, <2>8 DEF Starts
        <3> QED BY <3>1, <3>2, <3>3
    <2>13. CASE ~IsEmpty(q)
        <3> DEFINE f == write_next(t)
        <3>1. Transports(f) /\ SameBut(t, f) /\ f.outbound_queue_ = q
            BY <1>9, <2>7, <2>8, <2>12, <2>13, WriteNextTunnel, Zenon
        <3> HIDE DEF f
        <3>2. Serves(f) /\ Starts(f)
            BY <2>8, <2>12, <3>1, PhaseOn
        <3>3. Pending(f)
            BY <1>9, <2>6, <2>8, <2>13, <3>1, <3>2 DEF Pending, SameBut
        <3>4. s.close_after_write_ => s.state_ \in {"Closing", "Closed"}
            BY <1>6, <1>9 DEF Closes
        <3>5. Proper(f)
            BY <2>6, <2>8, <2>13, <3>1, <3>3, <3>4, PendingProper, Zenon DEF SameBut
        <3> QED BY <1>2, <1>9, <3>5 DEF ClientInv, f
    <2>14. CASE IsEmpty(q)
        <3>1. Serves(idle) /\ Starts(idle)
            BY <2>8, <2>10, <2>12, PhaseOn, Zenon
        <3>2. Ordered(idle)
            BY <2>8, <2>10, <2>12 DEF Ordered, SameBut
        <3>3. CASE idle.close_after_write_
            <4>1. Closeable(idle)
                BY <1>9, <2>6, <2>8, <2>9, <2>10, <3>1, <3>2, Zenon DEF Closeable, Ordered, Serves, Starts, SameBut
            <4>2. Proper(close_now(idle, "drained"))
                BY <4>1, CloseTunnel, Zenon DEF TunnelReasons
            <4> QED BY <1>2, <1>9, <2>11, <2>14, <3>3, <4>2 DEF ClientInv
        <3>4. CASE ~idle.close_after_write_
            <4>1. Busy(idle)
                BY <1>9, <2>8, <2>10, <2>14 DEF Busy, SameBut
            <4>2. Pending(idle) /\ Goes(q.queue_)
                BY <1>9, <2>6, <2>8, <2>9, <2>10, <3>1, <3>2, <3>4, <4>1, Zenon
                DEF Pending, Transports, SameBut
            <4>3. Proper(idle)
                BY <2>10, <3>4, <4>2, PendingProper
            <4> QED BY <1>2, <1>9, <2>11, <2>14, <3>4, <4>3 DEF ClientInv
        <3> QED BY <3>3, <3>4
    <2> QED BY <2>13, <2>14
<1> QED BY <1>7, <1>8, <1>9

(* A packet of the adapter, posted before or after the session began.      *)
LEMMA ClientSend ==
    ASSUME ClientInv, NEW valid \in BOOLEAN, RunSend(valid)
    PROVE  ClientInv'
PROOF
<1>1. CASE self' = self
    BY <1>1 DEF ClientInv
<1>2. CASE self' # self
    <2>1. /\ ~self.stopped_ /\ ~self.close_after_write_ /\ self.state_ = "Established"
          /\ self' = EnqueueOrClose(self, "DATA")
        BY <1>2 DEF RunSend, make_data_to_server
    <2>2. Pending(self) /\ Goes(self.outbound_queue_.queue_) /\ self.configured
        BY <2>1, PendingFacts, Zenon DEF ClientInv, Proper, Closes, Serves
    <2>3. "DATA" \in Kinds /\ "DATA" \notin Finals
        BY DEF Kinds, Finals
    <2> QED BY <2>1, <2>2, <2>3, EnqueueOrCloseTunnel DEF ClientInv
<1> QED BY <1>1, <1>2

(* A ping is sent only if no other one waits for its answer.               *)
LEMMA ClientPing ==
    ASSUME ClientInv, RunPing
    PROVE  ClientInv'
PROOF
<1> DEFINE s == [self EXCEPT !.pending_ping_nonce_ = TRUE]
<1>1. CASE self' = self
    BY <1>1 DEF ClientInv
<1>2. CASE self' # self
    <2>1. /\ ~self.stopped_ /\ ~self.close_after_write_
          /\ self' = EnqueueOrClose(s, "PING")
        BY <1>2 DEF RunPing
    <2>2. self \in Tunnels /\ Proper(self) /\ Starts(self)
        BY DEF ClientInv, Proper, Transports
    <2>3. s \in Tunnels
        BY <2>2, Zenon DEF Tunnels
    <2>4. /\ SameTunnel(self, s) /\ s.started_ = self.started_
          /\ s.handshaking = self.handshaking /\ s.reading = self.reading
        BY <2>2 DEF Tunnels, SameTunnel, SameWrites
    <2> HIDE DEF s
    <2>5. Proper(s)
        BY <2>2, <2>3, <2>4, SamePhase, TunnelOn
    <2>6. /\ Pending(s) /\ Goes(s.outbound_queue_.queue_) /\ ~s.close_after_write_
        BY <2>1, <2>4, <2>5, PendingFacts, Zenon DEF Proper, Closes, SameTunnel, SameWrites
    <2>7. "PING" \in Kinds /\ "PING" \notin Finals /\ "PING" # "DATA"
        BY DEF Kinds, Finals
    <2> QED BY <2>1, <2>6, <2>7, EnqueueOrCloseTunnel DEF ClientInv
<1> QED BY <1>1, <1>2

(* The handler of stop says CLOSE once and closes after it.                *)
LEMMA ClientStop ==
    ASSUME ClientInv, RunStop
    PROVE  ClientInv'
PROOF
<1> DEFINE s == [self EXCEPT !.state_ = "Closing", !.close_after_write_ = TRUE]
<1>1. CASE self.stopped_
    BY <1>1 DEF ClientInv, RunStop
<1>2. CASE ~self.stopped_ /\ ~make_close(self)
    <2>1. self' = close_now(self, "stop") /\ "stop" \in TunnelReasons
        BY <1>2 DEF RunStop, TunnelReasons
    <2> QED BY <2>1, CloseTunnelAgain DEF ClientInv
<1>3. CASE ~self.stopped_ /\ make_close(self)
    <2>1. self' = EnqueueOrClose(s, "CLOSE")
        BY <1>3 DEF RunStop
    <2>2. self \in Tunnels /\ Pending(self) /\ Proper(self)
        BY <1>3, PendingFacts DEF ClientInv, Proper, Transports
    <2>3. self.state_ \in {"AwaitingAssignment", "Established"}
        BY <1>3 DEF make_close
    <2>4. Goes(self.outbound_queue_.queue_)
        BY <1>3, <2>2, <2>3, Zenon DEF Proper, Closes
    <2>5. s \in Tunnels
        BY <2>2, Zenon DEF Tunnels, TunnelStates
    <2>6. /\ SameWrites(self, s) /\ s.state_ = "Closing" /\ s.close_after_write_ = TRUE
          /\ s.toTun = self.toTun /\ s.configured = self.configured
          /\ s.started_ = self.started_ /\ s.handshaking = self.handshaking
          /\ s.reading = self.reading
        BY <2>2 DEF Tunnels, SameWrites
    <2> HIDE DEF s
    <2>7. Pending(s)
        <3>1. Transports(s)
            BY <2>2, <2>5, <2>6, TransportsOn DEF Pending
        <3>2. Serves(s)
            BY <2>2, <2>6 DEF Pending, Serves, SameWrites
        <3>3. Starts(s)
            BY <2>2, <2>3, <2>6 DEF Pending, Starts, SameWrites
        <3> QED BY <2>2, <2>6, <3>1, <3>2, <3>3 DEF Pending, SameWrites
    <2>8. "CLOSE" \in Kinds /\ "CLOSE" # "DATA"
        BY DEF Kinds
    <2>9. Goes(s.outbound_queue_.queue_)
        BY <2>4, <2>6 DEF SameWrites
    <2> QED BY <2>1, <2>6, <2>7, <2>8, <2>9, EnqueueOrCloseTunnel, Zenon DEF ClientInv
<1> QED BY <1>1, <1>2, <1>3

(* Every handler of the client's tunnel keeps the invariant.               *)
LEMMA ClientInductive == ClientInv /\ [TunnelNext]_tunnelVars => ClientInv'
PROOF
<1> SUFFICES ASSUME ClientInv, [TunnelNext]_tunnelVars PROVE ClientInv'
    OBVIOUS
<1>1. CASE RunAbort
    BY <1>1, CloseTunnelAgain DEF RunAbort, ClientInv, TunnelReasons
<1>2. CASE \/ \E call \in Calls : Post(call)
           \/ PostStop \/ PostAbort \/ UNCHANGED tunnelVars
    BY <1>2 DEF Post, PostStop, PostAbort, tunnelVars, ClientInv
<1> QED BY <1>1, <1>2, ClientStart, ClientHandshake, ClientRead, ClientWrite, ClientSend,
           ClientPing, ClientStop DEF TunnelNext

(* The invariant holds in every state of the client's tunnel.              *)
THEOREM ClientInvariance == TunnelSpec => []ClientInv
PROOF BY ClientInit, ClientInductive, PTL DEF TunnelSpec

(* Final frames at the end of the wire or of the queue of an open tunnel   *)
(* are at the end of both.                                                 *)
LEMMA BothEndLast ==
    ASSUME NEW wire \in Streams, NEW frames \in Streams, EndsLast(wire), EndsLast(frames),
           frames # <<>> => Goes(wire)
    PROVE  EndsLast(wire \o frames)
PROOF
<1> DEFINE n == Len(wire)
           k == Len(frames)
           both == wire \o frames
<1>1. wire \in Seq(Outbound) /\ frames \in Seq(Outbound) /\ n \in Nat /\ k \in Nat
    BY DEF Streams
<1>2. Len(both) = n + k /\ (frames # <<>> <=> k # 0)
    BY <1>1
<1>3. ASSUME NEW i \in 1..(n + k) PROVE both[i] = IF i <= n THEN wire[i] ELSE frames[i - n]
    BY <1>1
<1>4. ASSUME NEW i \in 1..(n + k)
      PROVE  /\ i <= n => i \in 1..n
             /\ ~(i <= n) => i - n \in 1..k /\ (i - n = k => i = n + k)
             /\ k = 0 => i <= n /\ n + k = n
    BY <1>1
<1> HIDE DEF both, n, k
<1>5. ASSUME NEW i \in 1..(n + k), both[i].kind \in Finals PROVE i = n + k
    <2>1. CASE i <= n
        <3>1. wire[i].kind \in Finals /\ i \in 1..Len(wire)
            BY <1>3, <1>4, <1>5, <2>1 DEF n
        <3>2. i = n /\ ~Goes(wire)
            BY <3>1 DEF EndsLast, Goes, n
        <3> QED BY <1>2, <1>4, <3>2
    <2>2. CASE ~(i <= n)
        <3>1. frames[i - n].kind \in Finals /\ i - n \in 1..Len(frames)
            BY <1>3, <1>4, <1>5, <2>2 DEF k
        <3>2. i - n = k
            BY <3>1 DEF EndsLast, k
        <3> QED BY <1>4, <2>2, <3>2
    <2> QED BY <2>1, <2>2
<1> QED BY <1>2, <1>5 DEF EndsLast, both

(* The frames of TlsTunnelClient leave in the order of their numbers, one  *)
(* write at a time; CLOSE and ERROR end the conversation, and a tunnel     *)
(* that closes after its last write has one to wait for.                   *)
THEOREM ClientWireInOrder == TunnelSpec => []WireInOrder
PROOF
<1>1. ClientInv => WireInOrder
    <2> SUFFICES ASSUME Proper(self) PROVE WireInOrder
        BY DEF ClientInv
    <2>1. /\ self.wire \in Streams /\ self.outbound_queue_ \in Queues
          /\ self.outbound_queue_.queue_ \in Streams
        BY DEF Proper, Transports, Tunnels, Queues
    <2>2. \A i \in 1..Len(self.wire) : self.wire[i].seq = i
        <3>1. \A i \in 1..Len(self.wire) : self.wire[i].seq = 1 + i - 1
            BY DEF Proper, Transports, Ordered, NumberedFrom
        <3>2. Len(self.wire) \in Nat
            BY <2>1 DEF Streams
        <3> QED BY <3>1, <3>2
    <2>3. EndsLast(self.wire \o self.outbound_queue_.queue_)
        <3>1. EndsLast(self.wire) /\ EndsLast(<<>>)
            BY DEF Proper, Closes, EndsLast
        <3>2. CASE self.stopped_
            <4>1. self.outbound_queue_.queue_ = <<>>
                BY <3>2 DEF Proper, Transports, Busy, EmptyQueue
            <4> QED BY <2>1, <3>1, <4>1, BothEndLast
        <3>3. CASE ~self.stopped_
            BY <2>1, <3>1, <3>3, BothEndLast DEF Proper, Closes
        <3> QED BY <3>2, <3>3
    <2>4. self.writing <= 1
        BY DEF Proper, Transports, Busy
    <2>5. /\ ~self.stopped_ => (self.writing = 1 <=> ~IsEmpty(self.outbound_queue_))
          /\ self.close_after_write_ /\ ~self.stopped_ => self.writing = 1
        BY DEF Proper, Transports, Busy, Closes
    <2> QED BY <2>2, <2>3, <2>4, <2>5, Zenon DEF WireInOrder, EndsLast, Finals
<1> QED BY <1>1, ClientInvariance, PTL

(* TlsTunnelClient passes packets on, to the adapter and from it, only     *)
(* after the handler of the assignment has configured the network.         *)
THEOREM ClientDataNeedsAdapter == TunnelSpec => []DataNeedsAdapter
PROOF
<1>1. ClientInv => DataNeedsAdapter
    BY DEF ClientInv, Proper, Serves, Carries, DataNeedsAdapter
<1> QED BY <1>1, ClientInvariance, PTL
===============================================================================
