----------------------------- MODULE TunnelServer -----------------------------
(***************************************************************************)
(* The server as its sessions share it: TlsTunnelServer's registry, one    *)
(* TlsTunnelSession with its SessionController per connection, the lease   *)
(* table and the router.  Handlers of one session run on its strand, so    *)
(* they are atomic for that session; the io_context has several threads,   *)
(* so between two calls that take a mutex any other strand may run.  A     *)
(* handler is cut there: pc names the call it makes next.                  *)
(*                                                                         *)
(* The lease table and every operation on it are those of LeaseHolders;    *)
(* a session's lease_ is held[lease].  What a session does with its socket,*)
(* timers and write queue is in TlsTunnelSession; here a connection may be *)
(* dropped at any time.                                                    *)
(***************************************************************************)
EXTENDS TunnelRouter, Naturals, FiniteSets

CONSTANTS
    Identities, NoIdentity, FirstAddress, LastAddress, Ipv6Gateway,
    LeaseDuration, IdModulus, MaxDelay, MaxClock,
    MaxSessions,    \* maximum_sessions_
    MaxPosted       \* bound on the TUN packets posted to one session

(* What LeaseManager and LeaseHolders assume of their constants.            *)
ASSUME ServerConstants ==
    /\ NoIdentity \notin Identities
    /\ FirstAddress \in Nat /\ LastAddress \in Nat
    /\ FirstAddress <= LastAddress
    /\ Ipv6Gateway \in Nat
    /\ LeaseDuration \in Nat \ {0}
    /\ IdModulus \in Nat /\ IdModulus > 1
    /\ MaxDelay \in Nat /\ MaxClock \in Nat

VARIABLES
    table, clock, held, released,   \* see LeaseHolders
    peers_, ipv6_peers_,            \* the two maps of the router
    session,                        \* the sessions, by peer
    sessions_,                      \* the registry of the listener
    posted,                         \* TUN packets posted to a session's strand
    stopping_                       \* TlsTunnelServer::stopping_

leaseVars == <<table, clock, held, released>>
routerVars == <<peers_, ipv6_peers_>>
vars == <<leaseVars, routerVars, session, sessions_, posted, stopping_>>

Leases == INSTANCE LeaseHolders
Pool == FirstAddress..LastAddress

NewSession == [state |-> "Unborn", pc |-> "idle", identity |-> NoIdentity,
               lease |-> 0, route |-> Leases!NoLease, assigned |-> FALSE]

Init ==
    /\ Leases!Init
    /\ peers_ = [a \in Pool |-> NoPeer]
    /\ ipv6_peers_ = [a \in Pool |-> NoPeer]
    /\ session = [s \in Peers |-> NewSession]
    /\ sessions_ = {}
    /\ posted = [s \in Peers |-> 0]
    /\ stopping_ = FALSE
-------------------------------------------------------------------------------
(* stopped_: close_now has begun.                                          *)
Stopped(s) == session[s].pc \in {"release", "unregister4", "unregister6", "done"}

(* The handler of a session's strand that is running has finished.         *)
Idle(s) == session[s].state # "Unborn" /\ session[s].pc = "idle"

(* A session object lives while the registry or a posted handler has it.   *)
Alive == {s \in Peers : \/ s \in sessions_
                        \/ session[s].state # "Unborn" /\ session[s].pc # "done"
                        \/ posted[s] > 0}

Address(s) == session[s].route.address

HasRoute(r) == r.route # Leases!NoLease

\* Mutant: a connection that closes does not give its lease back.
CloseKeepingLease(r) ==
    [r EXCEPT !.state = "Closed",
              !.pc = IF HasRoute(r) THEN "unregister4" ELSE "done"]

(* close_now up to its first call that locks: on_transport_closed releases *)
(* the lease if there is one, then the close handler removes the routes if *)
(* route_lease_ was set, then it posts remove_session.                     *)
CloseNow(r) ==
    [r EXCEPT !.state = "Closed",
              !.pc = CASE r.lease # 0 -> "release"
                       [] r.lease = 0 /\ HasRoute(r) -> "unregister4"
                       [] OTHER -> "done"]

(* SessionController::fail: an ERROR frame, then the lease is released.    *)
Fail(r) ==
    [r EXCEPT !.state = "Closing", !.pc = IF r.lease # 0 THEN "fail" ELSE "idle"]

Becomes(s, r) == session' = [session EXCEPT ![s] = r]

Goto(s, point) == Becomes(s, [session[s] EXCEPT !.pc = point])
-------------------------------------------------------------------------------
(* handle_accept with room in the registry, and start_on_strand.  At       *)
(* capacity the socket is closed and nothing else changes.                 *)
Accept(s) ==
    /\ ~stopping_
    /\ session[s].state = "Unborn"
    /\ Cardinality(sessions_) < MaxSessions
    /\ sessions_' = sessions_ \cup {s}
    /\ Becomes(s, [session[s] EXCEPT !.state = "Handshake"])
    /\ UNCHANGED <<leaseVars, routerVars, posted, stopping_>>

(* handle_handshake: the controller is created for the certificate.        *)
Handshake(s, identity) ==
    /\ Idle(s) /\ session[s].state = "Handshake"
    /\ Becomes(s, [session[s] EXCEPT !.state = "AwaitingHello", !.identity = identity])
    /\ UNCHANGED <<leaseVars, routerVars, sessions_, posted, stopping_>>

(* handle on CLIENT_HELLO, up to the registration of the route.  The       *)
(* address 0.0.0.0 is leased but cannot be encoded: the session fails with *)
(* the lease in its hands.                                                 *)
Hello(s, now) ==
    LET lease == Leases!acquire(table, session[s].identity, now).lease
    IN  /\ Idle(s) /\ session[s].state = "AwaitingHello"
        /\ Leases!Acquire(session[s].identity, now)
        /\ IF lease = Leases!NoLease
           THEN Becomes(s, Fail(session[s]))
           ELSE IF lease.address = 0
           THEN Becomes(s, Fail([session[s] EXCEPT !.lease = lease.lease_id]))
           ELSE Becomes(s, [session[s] EXCEPT !.state = "Established", !.route = lease,
                                !.lease = lease.lease_id, !.pc = "register4"])
        /\ UNCHANGED <<routerVars, sessions_, posted, stopping_>>

(* The established handler, IPv4 half.                                     *)
Register4(s) ==
    LET result == register_peer(peers_, Alive, Address(s), s)
    IN  /\ session[s].pc = "register4"
        /\ peers_' = result.peers
        /\ IF result.ok THEN Goto(s, "register6") ELSE Becomes(s, CloseNow(session[s]))
        /\ UNCHANGED <<leaseVars, ipv6_peers_, sessions_, posted, stopping_>>

(* IPv6 half; on success IP_ASSIGN is queued.  Every lease has an IPv6     *)
(* address, for the server's arguments always give the pool a /64.         *)
Register6(s) ==
    LET result == register_peer(ipv6_peers_, Alive, Address(s), s)
    IN  /\ session[s].pc = "register6"
        /\ ipv6_peers_' = result.peers
        /\ IF result.ok
           THEN Becomes(s, [session[s] EXCEPT !.pc = "idle", !.assigned = TRUE])
           ELSE Goto(s, "undo4")
        /\ UNCHANGED <<leaseVars, peers_, sessions_, posted, stopping_>>

Undo4(s) ==
    /\ session[s].pc = "undo4"
    /\ peers_' = unregister_peer(peers_, Alive, Address(s), s)
    /\ Becomes(s, CloseNow(session[s]))
    /\ UNCHANGED <<leaseVars, ipv6_peers_, sessions_, posted, stopping_>>

Renewed(s, now) == Leases!renew(table, held[session[s].lease], now).lease # Leases!NoLease

(* handle on DATA or PING in Established: the lease is renewed first; if   *)
(* that fails, or the packet is invalid, the session fails.                *)
Uplink(s, now, valid) ==
    /\ Idle(s) /\ session[s].state = "Established"
    /\ Leases!Renew(session[s].lease, now)
    /\ Becomes(s, IF Renewed(s, now) /\ valid THEN session[s] ELSE Fail(session[s]))
    /\ UNCHANGED <<routerVars, sessions_, posted, stopping_>>

(* handle on a frame with a wrong sequence number, an unexpected type or a *)
(* payload that does not decode.                                           *)
BadFrame(s) ==
    /\ Idle(s) /\ session[s].state \in {"AwaitingHello", "Established"}
    /\ Becomes(s, Fail(session[s]))
    /\ UNCHANGED <<leaseVars, routerVars, sessions_, posted, stopping_>>

(* handle on CLOSE or ERROR from the client.                               *)
PeerCloses(s) ==
    /\ Idle(s) /\ session[s].state = "Established"
    /\ Becomes(s, [session[s] EXCEPT !.state = "Closed", !.pc = "fail"])
    /\ UNCHANGED <<leaseVars, routerVars, sessions_, posted, stopping_>>

(* release_lease at the end of fail and of the CLOSE and ERROR cases.      *)
FailRelease(s) ==
    /\ session[s].pc = "fail"
    /\ Leases!Release(session[s].lease)
    /\ Becomes(s, [session[s] EXCEPT !.pc = "idle", !.lease = 0])
    /\ UNCHANGED <<routerVars, sessions_, posted, stopping_>>

(* The TUN read handler, for a packet of either family: find_peer, then    *)
(* send_ipv4_from_tun or send_ipv6_from_tun posts to the session's strand. *)
TunPacket(a) ==
    /\ \/ LET found == find_peer(peers_, Alive, a)
          IN  /\ found.peer # NoPeer
              /\ peers_' = found.peers
              /\ posted[found.peer] < MaxPosted
              /\ posted' = [posted EXCEPT ![found.peer] = @ + 1]
              /\ UNCHANGED ipv6_peers_
       \/ LET found == find_peer(ipv6_peers_, Alive, a)
          IN  /\ found.peer # NoPeer
              /\ ipv6_peers_' = found.peers
              /\ posted[found.peer] < MaxPosted
              /\ posted' = [posted EXCEPT ![found.peer] = @ + 1]
              /\ UNCHANGED peers_
    /\ UNCHANGED <<leaseVars, session, sessions_, stopping_>>

(* The posted handler.  A stopped session drops the packet; one that is no *)
(* longer established closes; otherwise make_data_to_client renews, and if *)
(* that fails releases the lease and the session closes.                   *)
Downlink(s, now) ==
    /\ posted[s] > 0
    /\ posted' = [posted EXCEPT ![s] = @ - 1]
    /\ \/ /\ session[s].pc = "done"
          /\ UNCHANGED <<leaseVars, session>>
       \/ /\ Idle(s) /\ session[s].state # "Established"
          /\ Becomes(s, CloseNow(session[s]))
          /\ UNCHANGED leaseVars
       \/ /\ Idle(s) /\ session[s].state = "Established"
          /\ Leases!Renew(session[s].lease, now)
          /\ Becomes(s, IF Renewed(s, now) THEN session[s] ELSE CloseNow(session[s]))
    /\ UNCHANGED <<routerVars, sessions_, stopping_>>

(* close_now for whatever reason the connection itself gives: a transport  *)
(* or handshake error, a timeout, a full write queue.                      *)
Drop(s) ==
    /\ Idle(s)
    /\ Becomes(s, CloseNow(session[s]))
    /\ UNCHANGED <<leaseVars, routerVars, sessions_, posted, stopping_>>

(* close_now of a session with close_after_write_: its last frame has been *)
(* written, or the idle timer, still armed, has expired.                   *)
Finish(s) ==
    /\ Idle(s) /\ session[s].state \in {"Closing", "Closed"}
    /\ Becomes(s, CloseNow(session[s]))
    /\ UNCHANGED <<leaseVars, routerVars, sessions_, posted, stopping_>>

CloseRelease(s) ==
    /\ session[s].pc = "release"
    /\ Leases!Release(session[s].lease)
    /\ Becomes(s, [session[s] EXCEPT !.lease = 0,
                     !.pc = IF HasRoute(session[s]) THEN "unregister4" ELSE "done"])
    /\ UNCHANGED <<routerVars, sessions_, posted, stopping_>>

(* handle_session_closed.  route_lease_ is also set when the registration  *)
(* was refused, so the address may be another session's by now.            *)
Unregister4(s) ==
    /\ session[s].pc = "unregister4"
    /\ peers_' = unregister_peer(peers_, Alive, Address(s), s)
    /\ Goto(s, "unregister6")
    /\ UNCHANGED <<leaseVars, ipv6_peers_, sessions_, posted, stopping_>>

\* Mutant: only the IPv4 route is removed.
Unregister4Only(s) ==
    /\ session[s].pc = "unregister6"
    /\ Goto(s, "done")
    /\ UNCHANGED <<leaseVars, routerVars, sessions_, posted, stopping_>>

(* The IPv6 half, which like that of the registration is always there.     *)
Unregister6(s) ==
    /\ session[s].pc = "unregister6"
    /\ ipv6_peers_' = unregister_peer(ipv6_peers_, Alive, Address(s), s)
    /\ Goto(s, "done")
    /\ UNCHANGED <<leaseVars, peers_, sessions_, posted, stopping_>>

(* remove_session, posted to the server's strand by the close handler.     *)
RemoveSession(s) ==
    /\ session[s].pc = "done" /\ s \in sessions_
    /\ sessions_' = sessions_ \ {s}
    /\ UNCHANGED <<leaseVars, routerVars, session, posted, stopping_>>

(* stop_on_strand: after a signal, an accept error or a TUN error.  Every  *)
(* registered session is posted a close_now.                               *)
Stop ==
    /\ ~stopping_
    /\ stopping_' = TRUE
    /\ UNCHANGED <<leaseVars, routerVars, session, sessions_, posted>>

StopSession(s) ==
    /\ stopping_ /\ Idle(s)
    /\ Becomes(s, CloseNow(session[s]))
    /\ UNCHANGED <<leaseVars, routerVars, sessions_, posted, stopping_>>

Tick ==
    /\ Leases!Tick
    /\ UNCHANGED <<routerVars, session, sessions_, posted, stopping_>>
-------------------------------------------------------------------------------
(* The calls a handler has still to make once it has begun.                *)
Continue(s) ==
    \/ Register4(s) \/ Register6(s) \/ Undo4(s) \/ FailRelease(s)
    \/ CloseRelease(s) \/ Unregister4(s) \/ Unregister6(s)

Next ==
    \/ \E s \in Peers :
          \/ Accept(s) \/ \E identity \in Identities : Handshake(s, identity)
          \/ \E now \in Leases!Samples :
                \/ Hello(s, now) \/ Downlink(s, now)
                \/ \E valid \in BOOLEAN : Uplink(s, now, valid)
          \/ BadFrame(s) \/ PeerCloses(s) \/ Drop(s) \/ Finish(s)
          \/ Continue(s) \/ RemoveSession(s) \/ StopSession(s)
    \/ \E a \in Pool : TunPacket(a)
    \/ Stop \/ Tick

(* An io_context thread runs what is ready: a handler that has begun goes  *)
(* on, posted handlers run, and a session that is to close has its last    *)
(* write completed or its idle timer expire.                               *)
Fairness ==
    \A s \in Peers : WF_vars(Continue(s)) /\ WF_vars(Finish(s))
                     /\ WF_vars(RemoveSession(s)) /\ WF_vars(StopSession(s))

Spec == Init /\ [][Next]_vars /\ Fairness
-------------------------------------------------------------------------------
(* The session serves its client: IP_ASSIGN is queued, close_now not begun.*)
Serving(s) == session[s].assigned /\ ~Stopped(s)

Serves(a) == {s \in Peers : Serving(s) /\ Address(s) = a}

Member(S) == IF S = {} THEN NoPeer ELSE CHOOSE s \in S : TRUE

Owner(a) == Member(Serves(a))

Assigned == {s \in Peers : session[s].assigned}

Service == INSTANCE AddressService WITH
    Addresses <- Pool, Clients <- Peers, Nobody <- NoPeer,
    owner <- [a \in Pool |-> Owner(a)], served <- Assigned

(* The sessions, the lease table and the router together implement the     *)
(* address service: whatever the interleaving of connections that open,    *)
(* close, expire and are refused, an address is given to a client only     *)
(* when no other client is being served on it.                             *)
ImplementsService == Service!Spec

(* A client that has been sent its address receives the packets for it:    *)
(* IP_ASSIGN is queued only once both routes lead to the session, and they *)
(* do so until the session itself closes, whatever sessions that had the   *)
(* address before, or were refused it, do late.                            *)
AssignedIsRouted ==
    \A s \in Peers : Serving(s) =>
        /\ peers_[Address(s)] = s
        /\ ipv6_peers_[Address(s)] = s

(* Every lease in the table belongs to a session that is still going to    *)
(* give it back: fail, CLOSE, a refused route and close_now leak nothing.  *)
NoLeakedLease ==
    \A x \in Identities : table.leases_by_identity_[x] # Leases!NoLease =>
        \E s \in Peers : /\ session[s].lease = table.leases_by_identity_[x].lease_id
                         /\ session[s].pc # "done"

(* A session that stops is forgotten: its routes, its lease and its place  *)
(* in the registry are free again.                                         *)
Forgotten(s) ==
    /\ s \notin sessions_
    /\ session[s].lease = 0
    /\ \A a \in Pool : peers_[a] # s /\ ipv6_peers_[a] # s

(* Every session that fails, is closed by its peer or stops is forgotten.  *)
ClosingIsForgotten ==
    \A s \in Peers : session[s].state \in {"Closing", "Closed"} ~> Forgotten(s)

===============================================================================
