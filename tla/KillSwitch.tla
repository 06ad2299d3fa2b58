------------------------------- MODULE KillSwitch -------------------------------
(***************************************************************************)
(* The full-tunnel protection of the Windows client: the calls that        *)
(* WindowsNetworkBackend::enable_kill_switch makes before a connection,    *)
(* any of which may throw or be the last one before a crash, the network   *)
(* that comes and goes with the tunnel, and the processes that disable the *)
(* protection.  The Windows Filtering Platform keeps the policy and its    *)
(* transactions.                                                           *)
(***************************************************************************)
EXTENDS Naturals

CONSTANTS
    Endpoints,          \* addresses of VPN servers, pairs of a family and an address
    MaxAdapters         \* bound on the adapters opened, each with an index of its own

ASSUME AdapterBound == MaxAdapters \in Nat \ {0}

Families == {"ipv4", "ipv6"}

ASSUME EndpointFamilies == \A e \in Endpoints : e[1] \in Families

(* Who disables: the window, or the program run with --disable-kill-switch. *)
Disablers == {"window", "command"}

NoPolicy == [sublayer |-> FALSE, boot |-> {}, allow |-> {}, block |-> {}]

VARIABLES
    policy,         \* the policy in force, which survives crashes and restarts
    tx,             \* the write transaction of the platform: its owner and its view
    permit,         \* the interface the dynamic session permits, 0 for none
    adapter,        \* the index of the open adapter, 0 for none
    opened,         \* number of adapters opened so far
    defaults,       \* a default route of the client leads to its adapter
    bypass,         \* servers with a host route of their own
    endpoints,      \* what enable_kill_switch was called with
    client,         \* where the I/O thread of the runtime is, "off" for no runtime
    disabler        \* where each of those who disable is

network == <<adapter, opened, defaults, bypass, endpoints>>
protection == <<policy, tx, permit, network, client, disabler>>

NoTx == [owner |-> "none", view |-> NoPolicy]

ProtectionInit ==
    /\ policy = NoPolicy
    /\ tx = NoTx
    /\ permit = 0 /\ adapter = 0 /\ opened = 0
    /\ defaults = FALSE
    /\ bypass = {} /\ endpoints = {}
    /\ client = "off" /\ disabler = [d \in Disablers |-> "idle"]

Blocked(p) == p.block = Families /\ p.boot = Families
-------------------------------------------------------------------------------
(* enable_kill_switch, with the servers of the last resolution.            *)
Enable(servers) ==
    /\ client = "idle"
    /\ IF adapter # 0 THEN UNCHANGED <<adapter, opened>>
       ELSE opened < MaxAdapters /\ opened' = opened + 1 /\ adapter' = opened + 1
    /\ endpoints' = servers
    /\ client' = "begin"
    /\ UNCHANGED <<policy, tx, permit, defaults, bypass, disabler>>

(* enable_windows_kill_switch: one transaction, step by step.              *)
Update(from, view, to) ==
    /\ client = from /\ tx.owner = "client"
    /\ tx' = [tx EXCEPT !.view = view]
    /\ client' = to
    /\ UNCHANGED <<policy, permit, network, disabler>>

BeginUpdate ==
    /\ client = "begin" /\ tx.owner = "none"
    /\ tx' = [owner |-> "client", view |-> policy]
    /\ client' = "provider"
    /\ UNCHANGED <<policy, permit, network, disabler>>

ensure_provider_and_sublayer ==
    Update("provider", [tx.view EXCEPT !.sublayer = TRUE], "delete")

\* Mutant: the old filters are deleted outside of the transaction.
DeleteAtOnce ==
    /\ client = "delete" /\ tx.owner = "client"
    /\ policy' = [policy EXCEPT !.boot = {}, !.allow = {}, !.block = {}]
    /\ tx' = [tx EXCEPT !.view = policy']
    /\ client' = "boot"
    /\ UNCHANGED <<permit, network, disabler>>

delete_provider_filters ==
    Update("delete", [tx.view EXCEPT !.boot = {}, !.allow = {}, !.block = {}], "boot")

AddBootFilters ==
    Update("boot", [tx.view EXCEPT !.boot = Families], "ipv4")

(* The servers of the family are allowed, everything else of it blocked.   *)
add_family_policy(family, servers) ==
    Update(family, [tx.view EXCEPT !.allow = @ \cup servers, !.block = @ \cup {family}],
           IF family = "ipv4" THEN "ipv6" ELSE "commit")

CommitUpdate ==
    /\ client = "commit" /\ tx.owner = "client"
    /\ policy' = tx.view
    /\ tx' = NoTx
    /\ client' = "routes"
    /\ UNCHANGED <<permit, network, disabler>>

remove_owned_default_routes ==
    /\ client = "routes"
    /\ defaults' = FALSE
    /\ client' = "bypass"
    /\ UNCHANGED <<policy, tx, permit, adapter, opened, bypass, endpoints, disabler>>

(* A server that is reached through the tunnel is refused: the guard of    *)
(* the code, which without a default route to the tunnel always passes.    *)
add_transport_bypass_routes ==
    /\ client = "bypass"
    /\ IF defaults /\ ~(endpoints \subseteq bypass)
       THEN client' = "failed" /\ UNCHANGED bypass
       ELSE client' = "close permit" /\ bypass' = bypass \cup endpoints
    /\ UNCHANGED <<policy, tx, permit, adapter, opened, defaults, endpoints, disabler>>

\* Mutant: the permit of the previous adapter is kept when there is one.
KeepPermit ==
    /\ client = "close permit"
    /\ client' = IF permit = 0 THEN "open permit" ELSE "connecting"
    /\ UNCHANGED <<policy, tx, permit, network, disabler>>

(* replace_windows_tunnel_permit: the old session goes before the new one  *)
(* is tried, and a filter needs its sublayer.                              *)
ClosePermit ==
    /\ client = "close permit"
    /\ permit' = 0
    /\ client' = "open permit"
    /\ UNCHANGED <<policy, tx, network, disabler>>

OpenPermit ==
    /\ client = "open permit" /\ tx.owner = "none"
    /\ IF policy.sublayer THEN permit' = adapter /\ client' = "connecting"
       ELSE client' = "failed" /\ UNCHANGED permit
    /\ UNCHANGED <<policy, tx, network, disabler>>

Enabling == {"begin", "provider", "delete", "boot", "ipv4", "ipv6", "commit",
             "routes", "bypass", "close permit", "open permit"}

\* Mutant: a policy that could not be completed is committed as it is.
ThrowCommitting ==
    /\ client \in Enabling
    /\ client' = "failed"
    /\ IF tx.owner = "client" THEN policy' = tx.view /\ tx' = NoTx ELSE UNCHANGED <<policy, tx>>
    /\ UNCHANGED <<permit, network, disabler>>

(* A call throws: its transaction is aborted and the runtime fails.        *)
Throw ==
    /\ client \in Enabling
    /\ client' = "failed"
    /\ tx' = IF tx.owner = "client" THEN NoTx ELSE tx
    /\ UNCHANGED <<policy, permit, network, disabler>>
-------------------------------------------------------------------------------
(* The tunnel is configured with its default routes, and rolled back with  *)
(* its adapter, after which the client resolves and enables again.         *)
Connect ==
    /\ client = "connecting"
    /\ defaults' = TRUE
    /\ client' = "connected"
    /\ UNCHANGED <<policy, tx, permit, adapter, opened, bypass, endpoints, disabler>>

Retry ==
    /\ client \in {"connecting", "connected"}
    /\ client' = "idle"
    /\ defaults' = (defaults /\ client # "connected")
    /\ adapter' = IF client = "connected" THEN 0 ELSE adapter
    /\ UNCHANGED <<policy, tx, permit, opened, bypass, endpoints, disabler>>

(* finish_on_io: the tunnel is rolled back like in a retry, for good.      *)
Finish ==
    /\ client \in {"idle", "connecting", "connected", "failed"}
    /\ client' = "ended"
    /\ defaults' = (defaults /\ client # "connected")
    /\ adapter' = IF client = "connected" THEN 0 ELSE adapter
    /\ UNCHANGED <<policy, tx, permit, opened, bypass, endpoints, disabler>>

(* The backend goes, by its destructor or with its process.                *)
Release ==
    /\ client' = "off"
    /\ permit' = 0 /\ adapter' = 0
    /\ UNCHANGED <<policy, opened, bypass, endpoints>>
-------------------------------------------------------------------------------
(* disable_kill_switch: clean the routes, if the adapter is found, then    *)
(* remove the policy in one transaction.  A sublayer in use cannot be      *)
(* removed.                                                                *)
Disable(d, found) ==
    /\ disabler[d] = "idle"
    /\ adapter # 0 => found
    /\ defaults' = (defaults /\ ~found)
    /\ disabler' = [disabler EXCEPT ![d] = "cleaned"]
    /\ UNCHANGED <<policy, tx, permit, adapter, opened, bypass, endpoints, client>>

BeginRemoval(d) ==
    /\ disabler[d] = "cleaned" /\ tx.owner = "none"
    /\ tx' = [owner |-> d, view |-> NoPolicy]
    /\ disabler' = [disabler EXCEPT ![d] = "removing"]
    /\ UNCHANGED <<policy, permit, network, client>>

disable_windows_kill_switch(d) ==
    /\ disabler[d] = "removing"
    /\ policy' = IF permit = 0 THEN tx.view ELSE policy
    /\ tx' = NoTx
    /\ disabler' = [disabler EXCEPT ![d] = "idle"]
    /\ UNCHANGED <<permit, network, client>>

(* The removal fails, or the process dies, before or in its transaction.   *)
DisableFails(d) ==
    /\ disabler[d] # "idle"
    /\ tx' = IF tx.owner = d THEN NoTx ELSE tx
    /\ disabler' = [disabler EXCEPT ![d] = "idle"]
    /\ UNCHANGED <<policy, permit, network, client>>

EnableNext ==
    \/ \E servers \in (SUBSET Endpoints) \ {{}} : Enable(servers)
    \/ BeginUpdate \/ ensure_provider_and_sublayer \/ delete_provider_filters \/ AddBootFilters
    \/ \E family \in Families : add_family_policy(family, {e \in endpoints : e[1] = family})
    \/ CommitUpdate \/ remove_owned_default_routes \/ add_transport_bypass_routes
    \/ ClosePermit \/ OpenPermit \/ Throw

RemovalNext(d) == BeginRemoval(d) \/ disable_windows_kill_switch(d) \/ DisableFails(d)
-------------------------------------------------------------------------------
(* No half policy is ever in force: it blocks both families, at boot time  *)
(* and afterwards, and allows some server, or there is none at all.        *)
PolicyIsWhole == policy = NoPolicy \/ (Blocked(policy) /\ policy.sublayer /\ policy.allow # {})

(* A tunnel is tried, and used, only under the protection: everything is   *)
(* blocked but its own servers and the adapter that is open, and its       *)
(* servers have routes that do not lead into the tunnel, even when another *)
(* process disables the protection in between.                             *)
ConnectsProtected ==
    client \in {"connecting", "connected"} =>
        /\ Blocked(policy) /\ endpoints = policy.allow
        /\ permit = adapter /\ adapter # 0
        /\ endpoints \subseteq bypass

(* Once in force the protection ends only by the removal that the user     *)
(* asked for: not by a crash, a reconnection or an update that fails.      *)
ProtectionStays ==
    [][Blocked(policy) => Blocked(policy') \/ \E d \in Disablers : disabler[d] = "removing"]_protection
===============================================================================
