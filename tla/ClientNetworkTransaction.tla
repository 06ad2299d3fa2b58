------------------------ MODULE ClientNetworkTransaction ------------------------
(***************************************************************************)
(* client::ClientNetworkTransaction over WindowsNetworkBackend: the        *)
(* adapter, packet session, addresses, MTU and routes of a tunnel, applied *)
(* one call at a time, any of which may throw, and undone one call at a    *)
(* time.  Between two calls the administrator or another process may add   *)
(* or remove objects of its own.                                           *)
(***************************************************************************)
EXTENDS Naturals, Sequences

CONSTANTS
    route_cidrs,        \* the routes of the profile, in order
    MaxActivations      \* bound on the calls of activate

Routes == {route_cidrs[i] : i \in 1..Len(route_cidrs)}
Objects == {"ipv4 address", "ipv6 address"} \cup Routes
Calls == {"adapter", "session", "ipv4 address", "ipv6 address", "mtu ipv4", "mtu ipv6"}

ASSUME Profiles == route_cidrs \in Seq(Routes) /\ Routes \cap Calls = {}

VARIABLES
    owner,          \* who created an address or route: "nobody", "vpn" or "admin"
    mtu,            \* the MTU of the interface, by family: "prior" or "tunnel"
    adapter_,       \* the backend's adapter is open
    session_,       \* the packet session runs
    txn,            \* the members of the transaction
    prior,          \* set_interface_mtu's snapshot of the MTU
    pc,             \* "idle", "apply" (activate) or "undo" (rollback)
    step,           \* the next step of activate
    made,           \* history: what has been made and not undone, by the step that made it
    found,          \* history: the MTU before the client changed it
    activations     \* number of calls of activate

os == <<owner, mtu, adapter_, session_>>
local == <<prior, found, activations>>
vars == <<os, txn, pc, step, made, local>>

NewTransaction ==
    [active_ |-> FALSE, adapter_open_ |-> FALSE, session_started_ |-> FALSE,
     address_created_ |-> FALSE, ipv6_address_ |-> FALSE, ipv6_address_created_ |-> FALSE,
     prior_mtu_ |-> <<>>, created_routes_ |-> <<>>]

Init ==
    /\ owner \in [Objects -> {"nobody", "admin"}]
    /\ mtu \in [{"ipv4", "ipv6"} -> {"prior", "tunnel"}]
    /\ adapter_ = FALSE /\ session_ = FALSE
    /\ txn = NewTransaction
    /\ pc = "idle" /\ step = 1
    /\ made = [x \in {} |-> 0]
    /\ prior = mtu /\ found = mtu
    /\ activations = 0

(* The calls of activate, in order; set_interface_mtu makes two changes.   *)
Steps ==
    <<"adapter", "session", "ipv4 address", "ipv6 address", "mtu ipv4", "mtu ipv6">> \o route_cidrs

At(s) == pc = "apply" /\ step <= Len(Steps) /\ Steps[step] = s

(* made with a new entry, and without some.                                *)
With(x) == [y \in DOMAIN made \cup {x} |-> IF y = x THEN step ELSE made[y]]
Without(things) == [y \in DOMAIN made \ things |-> made[y]]

Touched == \/ txn.active_ \/ txn.adapter_open_ \/ txn.session_started_ \/ txn.address_created_
           \/ txn.ipv6_address_created_ \/ txn.created_routes_ # <<>>
-------------------------------------------------------------------------------
(* activate up to its try block.  An active transaction refuses, and is    *)
(* left alone.                                                             *)
Activate(ipv6) ==
    /\ pc = "idle" /\ activations < MaxActivations
    /\ activations' = activations + 1
    /\ IF Touched THEN UNCHANGED <<txn, pc>>
       ELSE txn' = [txn EXCEPT !.ipv6_address_ = ipv6] /\ pc' = "apply"
    /\ step' = 1
    /\ UNCHANGED <<os, made, prior, found>>

\* Mutant: the failed call is not followed by a rollback.
ThrowOnly ==
    /\ pc = "apply" /\ step <= Len(Steps)
    /\ pc' = "idle"
    /\ UNCHANGED <<os, txn, step, made, local>>

(* A call of the try block throws: rollback.  set_interface_mtu takes back *)
(* its first change when the second one fails.                             *)
Throw ==
    /\ pc = "apply" /\ step <= Len(Steps)
    /\ pc' = "undo"
    /\ IF At("mtu ipv6")
       THEN mtu' = [mtu EXCEPT !.ipv4 = prior.ipv4] /\ made' = Without({"mtu ipv4"})
       ELSE UNCHANGED <<mtu, made>>
    /\ txn' = [txn EXCEPT !.active_ = FALSE]
    /\ UNCHANGED <<owner, adapter_, session_, step, local>>

OpenAdapter ==
    /\ At("adapter")
    /\ adapter_' = TRUE
    /\ txn' = [txn EXCEPT !.adapter_open_ = TRUE]
    /\ made' = With("adapter")
    /\ step' = step + 1
    /\ UNCHANGED <<owner, mtu, session_, pc, local>>

StartSession ==
    /\ At("session")
    /\ session_' = TRUE
    /\ txn' = [txn EXCEPT !.session_started_ = TRUE]
    /\ made' = With("session")
    /\ step' = step + 1
    /\ UNCHANGED <<owner, mtu, adapter_, pc, local>>

(* Create an object; one that exists is used but is not the client's.      *)
Create(o) ==
    /\ owner' = IF owner[o] = "nobody" THEN [owner EXCEPT ![o] = "vpn"] ELSE owner
    /\ made' = IF owner[o] = "nobody" THEN With(o) ELSE made
    /\ step' = step + 1
    /\ UNCHANGED <<mtu, adapter_, session_, pc, local>>

AddIpv4 ==
    /\ At("ipv4 address")
    /\ Create("ipv4 address")
    /\ txn' = [txn EXCEPT !.address_created_ = owner["ipv4 address"] = "nobody"]

AddIpv6 ==
    /\ At("ipv6 address")
    /\ IF txn.ipv6_address_
       THEN /\ Create("ipv6 address")
            /\ txn' = [txn EXCEPT !.ipv6_address_created_ = owner["ipv6 address"] = "nobody"]
       ELSE step' = step + 1 /\ UNCHANGED <<os, txn, pc, made, local>>

\* Mutant: an existing route is recorded like one that was created.
AddRouteOwned(r) ==
    /\ At(r)
    /\ Create(r)
    /\ txn' = [txn EXCEPT !.created_routes_ = Append(@, r)]

AddRoute(r) ==
    /\ At(r)
    /\ Create(r)
    /\ txn' = IF owner[r] = "nobody" THEN [txn EXCEPT !.created_routes_ = Append(@, r)] ELSE txn

(* set_interface_mtu: nothing to do when both families have it already,   *)
(* otherwise both are set and the snapshot of both is returned.            *)
SetMtu4 ==
    /\ At("mtu ipv4")
    /\ prior' = mtu
    /\ IF mtu.ipv4 = "tunnel" /\ mtu.ipv6 = "tunnel"
       THEN step' = step + 2 /\ UNCHANGED <<mtu, made>>
       ELSE /\ step' = step + 1
            /\ mtu' = [mtu EXCEPT !.ipv4 = "tunnel"]
            /\ made' = With("mtu ipv4")
    /\ UNCHANGED <<owner, adapter_, session_, txn, pc, found, activations>>

SetMtu6 ==
    /\ At("mtu ipv6")
    /\ step' = step + 1
    /\ mtu' = [mtu EXCEPT !.ipv6 = "tunnel"]
    /\ made' = With("mtu ipv6")
    /\ txn' = [txn EXCEPT !.prior_mtu_ = <<prior>>]
    /\ UNCHANGED <<owner, adapter_, session_, pc, local>>

Commit ==
    /\ pc = "apply" /\ step = Len(Steps) + 1
    /\ txn' = [txn EXCEPT !.active_ = TRUE]
    /\ pc' = "idle"
    /\ UNCHANGED <<os, step, made, local>>
-------------------------------------------------------------------------------
(* rollback, called by the runtime or the destructor, active or not.       *)
Rollback ==
    /\ pc = "idle"
    /\ pc' = "undo"
    /\ txn' = [txn EXCEPT !.active_ = FALSE]
    /\ UNCHANGED <<os, step, made, local>>

Delete(o) ==
    /\ owner' = [owner EXCEPT ![o] = "nobody"]
    /\ made' = Without({o})
    /\ UNCHANGED <<mtu, adapter_, session_>>

RemoveRoute ==
    /\ txn.created_routes_ # <<>>
    /\ Delete(txn.created_routes_[Len(txn.created_routes_)])
    /\ txn' = [txn EXCEPT !.created_routes_ = SubSeq(@, 1, Len(@) - 1)]

RestoreMtu ==
    /\ txn.created_routes_ = <<>> /\ txn.prior_mtu_ # <<>>
    /\ mtu' = txn.prior_mtu_[1]
    /\ made' = Without({"mtu ipv4", "mtu ipv6"})
    /\ txn' = [txn EXCEPT !.prior_mtu_ = <<>>]
    /\ UNCHANGED <<owner, adapter_, session_>>

RemoveIpv6 ==
    /\ txn.created_routes_ = <<>> /\ txn.prior_mtu_ = <<>>
    /\ txn.ipv6_address_created_ /\ txn.ipv6_address_
    /\ Delete("ipv6 address")
    /\ txn' = [txn EXCEPT !.ipv6_address_created_ = FALSE]

RemoveIpv4 ==
    /\ txn.created_routes_ = <<>> /\ txn.prior_mtu_ = <<>>
    /\ ~(txn.ipv6_address_created_ /\ txn.ipv6_address_) /\ txn.address_created_
    /\ Delete("ipv4 address")
    /\ txn' = [txn EXCEPT !.address_created_ = FALSE]

(* stop_packet_session, close_adapter and the end of rollback.             *)
Close ==
    /\ txn.created_routes_ = <<>> /\ txn.prior_mtu_ = <<>>
    /\ ~(txn.ipv6_address_created_ /\ txn.ipv6_address_) /\ ~txn.address_created_
    /\ IF txn.session_started_
       THEN /\ session_' = FALSE
            /\ made' = Without({"session"})
            /\ txn' = [txn EXCEPT !.session_started_ = FALSE]
            /\ UNCHANGED <<adapter_, pc>>
       ELSE /\ adapter_' = (adapter_ /\ ~txn.adapter_open_)
            /\ made' = Without({"adapter"})
            /\ txn' = [txn EXCEPT !.adapter_open_ = FALSE, !.ipv6_address_ = FALSE]
            /\ pc' = "idle"
            /\ UNCHANGED session_
    /\ UNCHANGED <<owner, mtu>>

Undo ==
    /\ pc = "undo"
    /\ \/ (RemoveRoute \/ RestoreMtu \/ RemoveIpv6 \/ RemoveIpv4) /\ UNCHANGED pc
       \/ Close
    /\ UNCHANGED <<step, local>>

(* The administrator adds an object that is missing or removes its own.    *)
Administer(o) ==
    /\ owner' \in {[owner EXCEPT ![o] = "admin"], [owner EXCEPT ![o] = "nobody"]}
    /\ owner' # owner /\ owner[o] # "vpn"
    /\ UNCHANGED <<mtu, adapter_, session_, txn, pc, step, made, local>>

Next ==
    \/ \E ipv6 \in BOOLEAN : Activate(ipv6)
    \/ Throw \/ OpenAdapter \/ StartSession \/ AddIpv4 \/ AddIpv6 \/ SetMtu4 \/ SetMtu6
    \/ (\E r \in Routes : AddRoute(r)) \/ Commit \/ Rollback \/ Undo
    \/ \E o \in Objects : Administer(o)

Fairness == WF_vars(Undo)

Spec == Init /\ [][Next]_vars /\ Fairness
-------------------------------------------------------------------------------
(* The addresses and routes the client made, and those that it recorded.   *)
Owned == {o \in Objects : owner[o] = "vpn"}

Recorded ==
    {o \in Objects : \/ o = "ipv4 address" /\ txn.address_created_
                     \/ o = "ipv6 address" /\ txn.ipv6_address_created_
                     \/ \E i \in 1..Len(txn.created_routes_) : o = txn.created_routes_[i]}

(* All or nothing: between calls either activate has come to its end, with *)
(* the session running on the adapter, the MTU set for both families and   *)
(* every address and route of the client's own recorded for the rollback,  *)
(* or nothing that the client made is left, whichever call failed.         *)
AllOrNothing ==
    pc = "idle" =>
        IF txn.active_
        THEN /\ adapter_ /\ session_ /\ mtu = [f \in {"ipv4", "ipv6"} |-> "tunnel"]
             /\ Owned = Recorded
        ELSE mtu = found /\ ~adapter_ /\ ~session_ /\ Owned = {}

(* A step of the client leaves the administrator's objects alone.          *)
SparesAdmin ==
    txn' # txn \/ pc' # pc => \A o \in Objects : owner[o] = "admin" => owner'[o] = "admin"

(* What goes was made after everything that stays.                         *)
NewestFirst ==
    \A x, y \in DOMAIN made :
        x \notin DOMAIN made' /\ made[x] <= made[y] => y \notin DOMAIN made'

(* activate and rollback never remove or take over an address or route     *)
(* that is not the client's own, also when one appears while it is being   *)
(* configured; and what they undo is always the newest thing the client    *)
(* made: nothing is taken from under something that still depends on it.   *)
UndoesItsOwn == [][SparesAdmin /\ NewestFirst]_vars
===============================================================================
