-------------------------- MODULE TunnelServerProofs --------------------------
(***************************************************************************)
(* The server for any number of connections, identities and addresses: the *)
(* routes of its clients, the leases of its sessions, and the refinement   *)
(* of AddressService.                                                      *)
(***************************************************************************)
EXTENDS TunnelServer, TLAPS

Proofs == INSTANCE LeaseHoldersProofs

USE RouterConstants, ServerConstants

States == {"Unborn", "Handshake", "AwaitingHello", "Established", "Closing", "Closed"}
Registering == {"register4", "register6", "undo4"}
Releasing == {"fail", "release"}
Removing == {"unregister4", "unregister6", "done"}

Sessions ==
    [state : States, pc : {"idle"} \cup Registering \cup Releasing \cup Removing,
     identity : Identities \cup {NoIdentity}, lease : 0..(IdModulus - 1),
     route : Leases!Lease \cup {Leases!NoLease}, assigned : BOOLEAN]

TypeInv ==
    /\ session \in [Peers -> Sessions]
    /\ peers_ \in [Pool -> Peers \cup {NoPeer}]
    /\ ipv6_peers_ \in [Pool -> Peers \cup {NoPeer}]

(* What the handler that a session is in says about it.                    *)
Consistent(r) ==
    /\ r.state \in {"Unborn", "Handshake", "AwaitingHello"} =>
          r.pc = "idle" /\ ~r.assigned /\ r.lease = 0 /\ ~HasRoute(r)
    /\ r.state = "AwaitingHello" => r.identity \in Identities
    /\ r.state = "Established" => r.lease # 0 /\ HasRoute(r)
    /\ r.pc \in Registering => r.state = "Established" /\ ~r.assigned
    /\ r.pc \in Releasing => r.lease # 0
    /\ r.pc \in Removing => r.lease = 0 /\ r.state = "Closed"
    /\ r.pc = "release" => r.state = "Closed"
    /\ r.pc = "fail" => r.state \in {"Closing", "Closed"}
    /\ r.pc \in {"unregister4", "unregister6"} => HasRoute(r)
    /\ r.assigned => HasRoute(r)

(* A session that has registered its routes, and has not begun to remove   *)
(* them, has them.                                                         *)
RoutedInv ==
    \A s \in Peers :
        /\ Consistent(session[s])
        /\ Serving(s) \/ session[s].pc \in {"register6", "undo4"} => peers_[Address(s)] = s
        /\ Serving(s) => ipv6_peers_[Address(s)] = s

(* The ids of the leases in the table are with sessions.                   *)
LeasedInv ==
    \A x \in Identities : table.leases_by_identity_[x] # Leases!NoLease =>
        \E s \in Peers : session[s].lease = table.leases_by_identity_[x].lease_id

IInv == Proofs!IInv /\ TypeInv /\ RoutedInv /\ LeasedInv
-------------------------------------------------------------------------------
(* The lemmas about the lease table, in the terms of TunnelServer.         *)
LEMMA LeaseFields ==
    ASSUME NEW l \in Leases!Lease
    PROVE  /\ l # Leases!NoLease
           /\ l.lease_id \in Leases!LeaseIds /\ l.lease_id # 0 /\ l.address \in Pool
PROOF BY DEF Leases!Lease, Leases!NoLease, Leases!LeaseIds, Leases!Pool, Pool

(* acquire gives a lease or none, and adds no entry but that lease.        *)
LEMMA AcquireLeases ==
    ASSUME Proofs!IInv, NEW identity \in Identities, NEW now \in Leases!Samples,
           Leases!Acquire(identity, now)
    PROVE  LET lease == Leases!acquire(table, identity, now).lease
           IN  /\ Proofs!IInv'
               /\ lease \in Leases!Lease \cup {Leases!NoLease}
               /\ \A x \in Identities : table'.leases_by_identity_[x] \in
                     {table.leases_by_identity_[x], Leases!NoLease, lease}
PROOF
<1>1. Proofs!Acquire(identity, now)
    BY DEF Leases!Acquire, Proofs!Acquire, Leases!acquire, Proofs!acquire, Leases!reap_expired_locked,
       Proofs!reap_expired_locked, Leases!Without, Proofs!Without, Leases!Free, Proofs!Free,
       Leases!Lowest, Proofs!Lowest, Leases!Issue, Proofs!Issue, Leases!NoLease, Proofs!NoLease,
       Leases!Pool, Proofs!Pool
<1>2. Leases!acquire(table, identity, now) = Proofs!acquire(table, identity, now)
    BY DEF Leases!acquire, Proofs!acquire, Leases!reap_expired_locked, Proofs!reap_expired_locked,
       Leases!Without, Proofs!Without, Leases!Free, Proofs!Free, Leases!Lowest, Proofs!Lowest,
       Leases!Issue, Proofs!Issue, Leases!NoLease, Proofs!NoLease, Leases!Pool, Proofs!Pool
<1>3. now \in Proofs!Samples
    BY DEF Leases!Samples, Proofs!Samples
<1>4. Leases!Lease = Proofs!Lease /\ Leases!NoLease = Proofs!NoLease
    BY DEF Leases!Lease, Proofs!Lease, Leases!NoLease, Proofs!NoLease, Leases!LeaseIds, Proofs!LeaseIds,
       Leases!Pool, Proofs!Pool
<1>5. Proofs!IInv'
    BY <1>1, <1>3, Proofs!AcquireStep
<1>6. /\ Proofs!acquire(table, identity, now).lease \in Proofs!Lease \cup {Proofs!NoLease}
      /\ \A x \in Identities : table'.leases_by_identity_[x] \in
            {Proofs!Entry(x), Proofs!NoLease, Proofs!acquire(table, identity, now).lease}
    BY <1>1, <1>3, Proofs!AcquireEntries
<1> QED BY <1>2, <1>4, <1>5, <1>6, Zenon DEF Proofs!Entry

(* renew leaves each entry its id or erases it.                            *)
LEMMA RenewLeases ==
    ASSUME Proofs!IInv, NEW i \in Leases!LeaseIds, NEW now \in Leases!Samples, Leases!Renew(i, now)
    PROVE  /\ Proofs!IInv'
           /\ \A x \in Identities : table'.leases_by_identity_[x] # Leases!NoLease =>
                 /\ table.leases_by_identity_[x] # Leases!NoLease
                 /\ table'.leases_by_identity_[x].lease_id = table.leases_by_identity_[x].lease_id
PROOF
<1>1. Proofs!Renew(i, now)
    BY DEF Leases!Renew, Proofs!Renew, Leases!renew, Proofs!renew, Leases!reap_expired_locked,
       Proofs!reap_expired_locked, Leases!Without, Proofs!Without, Leases!Current, Proofs!Current,
       Leases!NoLease, Proofs!NoLease, Leases!Pool, Proofs!Pool
<1>2. i \in Proofs!LeaseIds /\ now \in Proofs!Samples
    BY DEF Leases!LeaseIds, Proofs!LeaseIds, Leases!Samples, Proofs!Samples
<1>3. Leases!NoLease = Proofs!NoLease
    BY DEF Leases!NoLease, Proofs!NoLease
<1>4. Proofs!IInv'
    BY <1>1, <1>2, Proofs!RenewStep
<1>5. \A x \in Identities : table'.leases_by_identity_[x] # Proofs!NoLease =>
         /\ Proofs!Entry(x) # Proofs!NoLease
         /\ table'.leases_by_identity_[x].lease_id = Proofs!Entry(x).lease_id
    BY <1>1, <1>2, Proofs!RenewEntries
<1> QED BY <1>3, <1>4, <1>5, Zenon DEF Proofs!Entry

(* release leaves the other entries and none with the id released.         *)
LEMMA ReleaseLeases ==
    ASSUME Proofs!IInv, NEW i \in Leases!LeaseIds, Leases!Release(i)
    PROVE  /\ Proofs!IInv'
           /\ \A x \in Identities : table'.leases_by_identity_[x] # Leases!NoLease =>
                 /\ table'.leases_by_identity_[x] = table.leases_by_identity_[x]
                 /\ table.leases_by_identity_[x].lease_id # i
PROOF
<1>1. Proofs!Release(i)
    BY DEF Leases!Release, Proofs!Release, Leases!release, Proofs!release, Leases!Without, Proofs!Without,
       Leases!Current, Proofs!Current, Leases!NoLease, Proofs!NoLease, Leases!Pool, Proofs!Pool
<1>2. i \in Proofs!LeaseIds
    BY DEF Leases!LeaseIds, Proofs!LeaseIds
<1>3. Leases!NoLease = Proofs!NoLease
    BY DEF Leases!NoLease, Proofs!NoLease
<1>4. Proofs!IInv'
    BY <1>1, <1>2, Proofs!ReleaseStep
<1>5. \A x \in Identities : table'.leases_by_identity_[x] # Proofs!NoLease =>
         table'.leases_by_identity_[x] = Proofs!Entry(x) /\ Proofs!Entry(x).lease_id # i
    BY <1>1, <1>2, Proofs!ReleaseEntries
<1> QED BY <1>3, <1>4, <1>5, Zenon DEF Proofs!Entry

(* The clock does not touch the table.                                     *)
LEMMA TickLeases ==
    ASSUME Proofs!IInv, Leases!Tick
    PROVE  Proofs!IInv' /\ table' = table
PROOF
<1>1. Proofs!Tick /\ table' = table
    BY DEF Leases!Tick, Proofs!Tick
<1> QED BY <1>1, Proofs!TickStep

(* Nothing but the table, the clock and what was given out matters.        *)
LEMMA LeasesFramed == Proofs!IInv /\ UNCHANGED leaseVars => Proofs!IInv'
PROOF BY DEF leaseVars, Proofs!IInv, Proofs!TypeOK, Proofs!Sound, Proofs!InverseMaps,
             Proofs!IssuedBehindCounter, Proofs!EntriesAreHeld, Proofs!Protected
-------------------------------------------------------------------------------
(* What CloseNow and Fail leave of a session.                              *)
Keeps(r, q) == q.lease = r.lease /\ q.route = r.route /\ q.assigned = r.assigned
Ending(r) == r.pc \in {"release"} \cup Removing

(* close_now keeps the lease and the route and begins to end the session.  *)
LEMMA CloseNowFields ==
    ASSUME NEW r \in Sessions, Consistent(r)
    PROVE  /\ CloseNow(r) \in Sessions /\ Keeps(r, CloseNow(r))
           /\ Consistent(CloseNow(r)) /\ Ending(CloseNow(r))
PROOF
<1> DEFINE q == CloseNow(r)
<1>1. q.pc = IF r.lease # 0 THEN "release" ELSE IF HasRoute(r) THEN "unregister4" ELSE "done"
    <2>1. CASE r.lease # 0
        BY <2>1 DEF CloseNow, Sessions
    <2>2. CASE r.lease = 0 /\ HasRoute(r)
        BY <2>2 DEF CloseNow, Sessions
    <2>3. CASE r.lease = 0 /\ ~HasRoute(r)
        BY <2>3 DEF CloseNow, Sessions
    <2> QED BY <2>1, <2>2, <2>3
<1>2. /\ q.state = "Closed" /\ q.lease = r.lease /\ q.route = r.route
      /\ q.assigned = r.assigned /\ q.identity = r.identity
    BY DEF CloseNow, Sessions
<1>3. q = [r EXCEPT !.state = "Closed", !.pc = q.pc]
    BY <1>1 DEF CloseNow, Sessions
<1>4. q \in Sessions
    BY <1>1, <1>3 DEF Sessions, States, Releasing, Removing
<1>5. Consistent(q) /\ Ending(q)
    BY <1>1, <1>2 DEF Consistent, Ending, HasRoute, Registering, Releasing, Removing
<1> QED BY <1>2, <1>4, <1>5 DEF Keeps

(* fail keeps the lease and the route for release_lease and close_now.     *)
LEMMA FailFields ==
    ASSUME NEW r \in Sessions, Consistent(r), r.pc = "idle"
    PROVE  /\ Fail(r) \in Sessions /\ Keeps(r, Fail(r))
           /\ Consistent(Fail(r)) /\ Fail(r).pc \in {"idle", "fail"}
PROOF
<1>1. Fail(r) \in Sessions /\ Keeps(r, Fail(r)) /\ Fail(r).state = "Closing"
      /\ Fail(r).pc = (IF r.lease # 0 THEN "fail" ELSE "idle")
    BY DEF Fail, Sessions, States, Releasing, Keeps
<1> QED BY <1>1 DEF Keeps, Consistent, HasRoute, Registering, Releasing, Removing

(* A session between its creation and the end of close_now is alive, so a  *)
(* route that leads to it is left alone by the calls of other sessions and *)
(* by the TUN handler.                                                     *)
LEMMA RegisteredIsAlive ==
    ASSUME TypeInv, RoutedInv, NEW t \in Peers,
           Serving(t) \/ session[t].pc \in {"register6", "undo4"}
    PROVE  t \in Alive /\ Address(t) \in Pool
PROOF
<1>1. session[t] \in Sessions /\ Consistent(session[t])
    BY DEF TypeInv, RoutedInv
<1>2. session[t].state # "Unborn" /\ session[t].pc # "done" /\ HasRoute(session[t])
    BY <1>1 DEF Serving, Stopped, Consistent, Registering
<1>3. session[t].route \in Leases!Lease
    BY <1>1, <1>2 DEF Sessions, HasRoute
<1> QED BY <1>2, <1>3, LeaseFields DEF Alive, Address

Maps == [Pool -> Peers \cup {NoPeer}]

(* The entries for peers that are alive, other than s, are in the new map. *)
Spares(map, new, s) == \A t \in Alive, a \in Pool : t # s /\ map[a] = t => new[a] = t

(* register_peer overwrites no entry of a peer that is alive.              *)
LEMMA RegisterMaps ==
    ASSUME NEW map \in Maps, NEW a \in Pool, NEW s \in Peers
    PROVE  /\ register_peer(map, Alive, a, s).peers \in Maps
           /\ register_peer(map, Alive, a, s).ok \in BOOLEAN
           /\ register_peer(map, Alive, a, s).ok => register_peer(map, Alive, a, s).peers[a] = s
           /\ Spares(map, register_peer(map, Alive, a, s).peers, s)
PROOF BY DEF register_peer, Maps, Spares

(* unregister_peer erases no entry of another peer that is alive.          *)
LEMMA UnregisterMaps ==
    ASSUME NEW map \in Maps, NEW a \in Pool, NEW s \in Peers
    PROVE  /\ unregister_peer(map, Alive, a, s) \in Maps
           /\ Spares(map, unregister_peer(map, Alive, a, s), s)
PROOF BY DEF unregister_peer, Maps, Spares

(* find_peer erases only entries of peers that are gone.                   *)
LEMMA FindMaps ==
    ASSUME NEW map \in Maps, NEW a \in Pool
    PROVE  /\ find_peer(map, Alive, a).peers \in Maps
           /\ \A t \in Alive, b \in Pool : map[b] = t => find_peer(map, Alive, a).peers[b] = t
PROOF BY DEF find_peer, Maps

(* One session changes, and with it perhaps the maps.                      *)
LEMMA SessionStep ==
    ASSUME TypeInv, RoutedInv, NEW s \in Peers, NEW r \in Sessions, Consistent(r), Becomes(s, r),
           peers_' \in Maps, ipv6_peers_' \in Maps,
           Spares(peers_, peers_', s), Spares(ipv6_peers_, ipv6_peers_', s),
           (r.assigned /\ ~Ending(r)) \/ r.pc \in {"register6", "undo4"} => peers_'[r.route.address] = s,
           r.assigned /\ ~Ending(r) => ipv6_peers_'[r.route.address] = s
    PROVE  TypeInv' /\ RoutedInv'
PROOF
<1>1. session'[s] = r /\ \A t \in Peers \ {s} : session'[t] = session[t]
    BY DEF Becomes, TypeInv
<1>2. TypeInv'
    BY DEF Becomes, TypeInv, Maps
<1>3. ASSUME NEW t \in Peers
      PROVE  /\ Consistent(session'[t])
             /\ Serving(t)' \/ session'[t].pc \in {"register6", "undo4"} => peers_'[Address(t)'] = t
             /\ Serving(t)' => ipv6_peers_'[Address(t)'] = t
    <2>1. CASE t = s
        BY <1>1, <2>1 DEF Serving, Stopped, Address, Ending, Removing
    <2>2. CASE t # s
        <3>1. /\ Consistent(session[t])
              /\ Serving(t) \/ session[t].pc \in {"register6", "undo4"} => peers_[Address(t)] = t
              /\ Serving(t) => ipv6_peers_[Address(t)] = t
            BY DEF RoutedInv
        <3>2. /\ session'[t] = session[t] /\ Address(t)' = Address(t)
              /\ Serving(t)' <=> Serving(t)
            BY <1>1, <2>2 DEF Serving, Stopped, Address
        <3>3. CASE Serving(t) \/ session[t].pc \in {"register6", "undo4"}
            <4>1. t \in Alive /\ Address(t) \in Pool
                BY <2>2, <3>3, RegisteredIsAlive
            <4>2. /\ peers_[Address(t)] = t => peers_'[Address(t)] = t
                  /\ ipv6_peers_[Address(t)] = t => ipv6_peers_'[Address(t)] = t
                BY <2>2, <4>1 DEF Spares
            <4> QED BY <3>1, <3>2, <4>2
        <3> QED BY <3>1, <3>2, <3>3
    <2> QED BY <2>1, <2>2
<1>4. RoutedInv'
    BY <1>3 DEF RoutedInv, Consistent, HasRoute
<1> QED BY <1>2, <1>4

(* What Member picks from the sets it is used with.                        *)
LEMMA MemberOf == Member({}) = NoPeer /\ \A s \in Peers : Member({s}) = s
PROOF BY DEF Member

(* Only a serving session is served an address, and no two the same one.   *)
LEMMA ServesOne ==
    ASSUME RoutedInv, NEW s \in Peers, Serving(s)
    PROVE  Serves(Address(s)) = {s}
PROOF BY DEF RoutedInv, Serves

(* A session that does not begin to be served leaves the service alone, or *)
(* gives its address back.                                                 *)
LEMMA ServiceQuiet ==
    ASSUME TypeInv, RoutedInv, NEW s \in Peers, NEW r, Becomes(s, r),
           r.assigned = session[s].assigned,
           r.assigned /\ ~Ending(r) => Serving(s) /\ r.route = session[s].route
    PROVE  [Service!Next]_(Service!serviceVars)
PROOF
<1>1. session'[s] = r /\ \A t \in Peers \ {s} : session'[t] = session[t]
    BY DEF Becomes, TypeInv
<1>2. \A t \in Peers : session'[t].assigned = session[t].assigned
    BY <1>1
<1>3. \A t \in Peers \ {s} : (Serving(t)' <=> Serving(t)) /\ Address(t)' = Address(t)
    BY <1>1 DEF Serving, Stopped, Address
<1>4. Serving(s)' <=> r.assigned /\ ~Ending(r)
    BY <1>1 DEF Serving, Stopped, Ending, Removing
<1>5. Serving(s)' => Serving(s) /\ Address(s)' = Address(s)
    BY <1>1, <1>4 DEF Address
<1>6. CASE Serving(s) /\ ~Serving(s)'
    <2> DEFINE a == Address(s)
    <2>1. a \in Pool /\ Serves(a) = {s}
        BY <1>6, ServesOne, RegisteredIsAlive
    <2>2. \A b \in Pool : Serves(b)' = IF b = a THEN {} ELSE Serves(b)
        BY <1>3, <1>6, <2>1 DEF Serves
    <2>3. Owner(a) = s /\ \A b \in Pool : Owner(b)' = IF b = a THEN NoPeer ELSE Owner(b)
        BY <2>1, <2>2, MemberOf DEF Owner
    <2>4. Assigned' = Assigned
        BY <1>2 DEF Assigned
    <2>5. Service!Withdraw(a)
        BY <2>1, <2>3, <2>4 DEF Service!Withdraw
    <2> QED BY <2>1, <2>5 DEF Service!Next
<1>7. CASE Serving(s) <=> Serving(s)'
    <2>1. \A b \in Pool : Serves(b)' = Serves(b)
        BY <1>3, <1>5, <1>7 DEF Serves
    <2>2. \A b \in Pool : Owner(b)' = Owner(b)
        BY <2>1 DEF Owner
    <2>3. Assigned' = Assigned
        BY <1>2 DEF Assigned
    <2> QED BY <2>2, <2>3 DEF Service!serviceVars
<1> QED BY <1>5, <1>6, <1>7

(* One session changes and the maps do not.                                *)
LEMMA QuietStep ==
    ASSUME TypeInv, RoutedInv, NEW s \in Peers, NEW r \in Sessions, Consistent(r), Becomes(s, r),
           UNCHANGED routerVars, r.pc \notin {"register6", "undo4"},
           r.assigned = session[s].assigned,
           r.assigned /\ ~Ending(r) => Serving(s) /\ r.route = session[s].route
    PROVE  TypeInv' /\ RoutedInv' /\ [Service!Next]_(Service!serviceVars)
PROOF
<1>1. peers_' = peers_ /\ ipv6_peers_' = ipv6_peers_
    BY DEF routerVars
<1>2. r.assigned /\ ~Ending(r) => peers_[r.route.address] = s /\ ipv6_peers_[r.route.address] = s
    BY DEF RoutedInv, Address
<1>3. /\ peers_ \in Maps /\ ipv6_peers_ \in Maps
      /\ Spares(peers_, peers_, s) /\ Spares(ipv6_peers_, ipv6_peers_, s)
    BY DEF TypeInv, Maps, Spares
<1>4. TypeInv' /\ RoutedInv'
    BY <1>1, <1>2, <1>3, SessionStep
<1> QED BY <1>4, ServiceQuiet

(* The session keeps its lease, and the table its entries' ids.            *)
LEMMA LeaseKept ==
    ASSUME LeasedInv, NEW s \in Peers, NEW r, TypeInv, Becomes(s, r), r.lease = session[s].lease,
           \A x \in Identities : table'.leases_by_identity_[x] # Leases!NoLease =>
               /\ table.leases_by_identity_[x] # Leases!NoLease
               /\ table'.leases_by_identity_[x].lease_id = table.leases_by_identity_[x].lease_id
    PROVE  LeasedInv'
PROOF
<1>1. \A t \in Peers : session'[t].lease = session[t].lease
    BY DEF Becomes, TypeInv
<1>2. Leases!NoLease' = Leases!NoLease
    BY DEF Leases!NoLease
<1> QED BY <1>1, <1>2 DEF LeasedInv

(* The session's lease is released: no entry has its id any more.          *)
LEMMA LeaseReleased ==
    ASSUME LeasedInv, NEW s \in Peers, NEW r, TypeInv, Becomes(s, r),
           \A x \in Identities : table'.leases_by_identity_[x] # Leases!NoLease =>
               /\ table'.leases_by_identity_[x] = table.leases_by_identity_[x]
               /\ table.leases_by_identity_[x].lease_id # session[s].lease
    PROVE  LeasedInv'
PROOF
<1>1. \A t \in Peers \ {s} : session'[t] = session[t]
    BY DEF Becomes, TypeInv
<1>2. Leases!NoLease' = Leases!NoLease
    BY DEF Leases!NoLease
<1> QED BY <1>1, <1>2 DEF LeasedInv
-------------------------------------------------------------------------------
(* What every step has to show.                                            *)
Progress == IInv' /\ [Service!Next]_(Service!serviceVars)

(* A step of one session that leaves leases and routes alone.              *)
LEMMA QuietSession ==
    ASSUME IInv, NEW s \in Peers, NEW r \in Sessions, Consistent(r), Becomes(s, r),
           UNCHANGED <<leaseVars, routerVars>>, r.pc \notin {"register6", "undo4"},
           r.lease = session[s].lease, r.assigned = session[s].assigned,
           r.assigned /\ ~Ending(r) => Serving(s) /\ r.route = session[s].route
    PROVE  Progress
PROOF
<1>1. Proofs!IInv'
    BY LeasesFramed DEF IInv
<1>2. TypeInv' /\ RoutedInv' /\ [Service!Next]_(Service!serviceVars)
    BY QuietStep DEF IInv
<1>3. LeasedInv'
    BY LeaseKept DEF IInv, leaseVars
<1> QED BY <1>1, <1>2, <1>3 DEF IInv, Progress

(* What the invariant says of one session.                                 *)
LEMMA SessionFacts ==
    ASSUME IInv, NEW s \in Peers
    PROVE  session[s] \in Sessions /\ Consistent(session[s])
PROOF BY DEF IInv, TypeInv, RoutedInv

(* close_now, of a session that holds no route it has not recorded.        *)
LEMMA ClosingStep ==
    ASSUME IInv, NEW s \in Peers, Becomes(s, CloseNow(session[s])), UNCHANGED <<leaseVars, routerVars>>
    PROVE  Progress
PROOF
<1> DEFINE r == CloseNow(session[s])
<1>1. r \in Sessions /\ Keeps(session[s], r) /\ Consistent(r) /\ Ending(r)
    BY SessionFacts, CloseNowFields
<1>2. r.pc \notin {"register6", "undo4"} /\ r.lease = session[s].lease /\ r.assigned = session[s].assigned
    BY <1>1 DEF Ending, Removing, Keeps
<1> HIDE DEF r
<1>3. Becomes(s, r)
    BY DEF r
<1> QED BY <1>1, <1>2, <1>3, QuietSession

(* fail, of a session whose strand is free.                                *)
LEMMA FailingStep ==
    ASSUME IInv, NEW s \in Peers, session[s].pc = "idle", Becomes(s, Fail(session[s])),
           UNCHANGED <<leaseVars, routerVars>>
    PROVE  Progress
PROOF
<1> DEFINE r == Fail(session[s])
<1>1. r \in Sessions /\ Keeps(session[s], r) /\ Consistent(r) /\ r.pc \in {"idle", "fail"}
    BY SessionFacts, FailFields
<1>2. /\ r.pc \notin {"register6", "undo4"} /\ r.lease = session[s].lease
      /\ r.assigned = session[s].assigned /\ r.route = session[s].route
      /\ r.assigned => Serving(s)
    BY <1>1 DEF Keeps, Serving, Stopped
<1> HIDE DEF r
<1>3. Becomes(s, r)
    BY DEF r
<1> QED BY <1>1, <1>2, <1>3, QuietSession

(* The accept, the end of the handshake, and CLOSE from the peer.          *)
LEMMA OpeningSteps ==
    ASSUME IInv, NEW s \in Peers,
           Accept(s) \/ (\E identity \in Identities : Handshake(s, identity)) \/ PeerCloses(s)
    PROVE  Progress
PROOF
<1>1. session[s] \in Sessions /\ Consistent(session[s])
    BY SessionFacts
<1>2. CASE Accept(s)
    <2> DEFINE r == [session[s] EXCEPT !.state = "Handshake"]
    <2>1. r \in Sessions /\ r.state = "Handshake" /\ r.pc = "idle" /\ ~r.assigned /\ r.lease = 0
          /\ r.lease = session[s].lease /\ r.assigned = session[s].assigned /\ ~HasRoute(r)
        BY <1>1, <1>2 DEF Accept, Sessions, States, Consistent, HasRoute
    <2>2. Consistent(r)
        BY <2>1 DEF Consistent, Registering, Releasing, Removing
    <2> HIDE DEF r
    <2>3. Becomes(s, r) /\ UNCHANGED <<leaseVars, routerVars>>
        BY <1>2 DEF Accept, r
    <2> QED BY <2>1, <2>2, <2>3, QuietSession
<1>3. ASSUME NEW identity \in Identities, Handshake(s, identity)
      PROVE  Progress
    <2> DEFINE r == [session[s] EXCEPT !.state = "AwaitingHello", !.identity = identity]
    <2>1. r \in Sessions /\ r.state = "AwaitingHello" /\ r.pc = "idle" /\ ~r.assigned /\ r.lease = 0
          /\ r.lease = session[s].lease /\ r.assigned = session[s].assigned /\ ~HasRoute(r)
          /\ r.identity \in Identities
        BY <1>1, <1>3 DEF Handshake, Sessions, States, Consistent, HasRoute
    <2>2. Consistent(r)
        BY <2>1 DEF Consistent, Registering, Releasing, Removing
    <2> HIDE DEF r
    <2>3. Becomes(s, r) /\ UNCHANGED <<leaseVars, routerVars>>
        BY <1>3 DEF Handshake, r
    <2> QED BY <2>1, <2>2, <2>3, QuietSession
<1>4. CASE PeerCloses(s)
    <2> DEFINE r == [session[s] EXCEPT !.state = "Closed", !.pc = "fail"]
    <2>1. r \in Sessions /\ r.state = "Closed" /\ r.pc = "fail" /\ Keeps(session[s], r)
        BY <1>1, <1>4 DEF PeerCloses, Sessions, States, Releasing, Keeps
    <2>2. Consistent(r)
        BY <1>1, <1>4, <2>1 DEF PeerCloses, Keeps, Consistent, HasRoute, Registering, Releasing, Removing
    <2>3. r.assigned => Serving(s)
        BY <1>4, <2>1 DEF PeerCloses, Idle, Keeps, Serving, Stopped
    <2> HIDE DEF r
    <2>4. Becomes(s, r) /\ UNCHANGED <<leaseVars, routerVars>>
        BY <1>4 DEF PeerCloses, r
    <2> QED BY <2>1, <2>2, <2>3, <2>4, QuietSession DEF Keeps
<1> QED BY <1>2, <1>3, <1>4

(* A bad frame, and the causes of close_now.                               *)
LEMMA EndingSteps ==
    ASSUME IInv, NEW s \in Peers, BadFrame(s) \/ Drop(s) \/ Finish(s) \/ StopSession(s)
    PROVE  Progress
PROOF
<1>1. CASE BadFrame(s)
    BY <1>1, FailingStep DEF BadFrame, Idle
<1>2. CASE Drop(s) \/ Finish(s) \/ StopSession(s)
    BY <1>2, ClosingStep DEF Drop, Finish, StopSession
<1> QED BY <1>1, <1>2

(* A lease id that is not zero is one the table can issue.                 *)
LEMMA LeaseIdOf ==
    ASSUME NEW r \in Sessions, r.lease # 0
    PROVE  r.lease \in Leases!LeaseIds
PROOF BY DEF Sessions, Leases!LeaseIds

(* CLIENT_HELLO: the lease is issued and recorded, or the session fails.   *)
LEMMA HelloStep ==
    ASSUME IInv, NEW s \in Peers, NEW now \in Leases!Samples, Hello(s, now)
    PROVE  Progress
PROOF
<1> DEFINE identity == session[s].identity
           lease == Leases!acquire(table, identity, now).lease
<1>1. session[s] \in Sessions /\ Consistent(session[s])
    BY SessionFacts
<1>2. /\ session[s].pc = "idle" /\ session[s].lease = 0 /\ ~session[s].assigned
      /\ identity \in Identities
    BY <1>1 DEF Hello, Idle, Consistent
<1>3. /\ Proofs!IInv'
      /\ lease \in Leases!Lease \cup {Leases!NoLease}
      /\ \A x \in Identities : table'.leases_by_identity_[x] \in
            {table.leases_by_identity_[x], Leases!NoLease, lease}
    BY <1>2, AcquireLeases DEF Hello, IInv
<1>4. UNCHANGED routerVars
    BY DEF Hello
<1>5. CASE lease = Leases!NoLease
    <2> DEFINE r == Fail(session[s])
    <2>1. r \in Sessions /\ Keeps(session[s], r) /\ Consistent(r) /\ r.pc \in {"idle", "fail"}
        BY <1>1, <1>2, FailFields
    <2>2. Becomes(s, r)
        BY <1>5 DEF Hello
    <2> HIDE DEF r, lease
    <2>3. TypeInv' /\ RoutedInv' /\ [Service!Next]_(Service!serviceVars)
        BY <1>2, <1>4, <2>1, <2>2, QuietStep DEF IInv, Keeps
    <2>4. LeasedInv'
        <3>1. \A x \in Identities : table'.leases_by_identity_[x] # Leases!NoLease =>
                 table'.leases_by_identity_[x] = table.leases_by_identity_[x]
            BY <1>3, <1>5
        <3> QED BY <2>1, <2>2, <3>1, LeaseKept DEF IInv, Keeps
    <2> QED BY <1>3, <2>3, <2>4 DEF IInv, Progress
<1>6. CASE lease # Leases!NoLease
    <2> DEFINE given == [session[s] EXCEPT !.lease = lease.lease_id]
               bound == [session[s] EXCEPT !.state = "Established", !.route = lease,
                                           !.lease = lease.lease_id, !.pc = "register4"]
    <2>1. Becomes(s, IF lease.address = 0 THEN Fail(given) ELSE bound)
        BY <1>6 DEF Hello
    <2> HIDE DEF lease
    <2>2. lease \in Leases!Lease /\ lease.lease_id \in Leases!LeaseIds /\ lease.lease_id # 0
        BY <1>3, <1>6, LeaseFields
    <2>3. lease.lease_id \in 0..(IdModulus - 1)
        BY <2>2 DEF Leases!LeaseIds
    <2>4. PICK r \in Sessions : /\ Becomes(s, r) /\ Consistent(r) /\ r.pc \in {"fail", "register4"}
                                /\ r.lease = lease.lease_id /\ r.assigned = session[s].assigned
        <3>1. CASE lease.address = 0
            <4>1. given \in Sessions /\ given.lease = lease.lease_id /\ given.assigned = session[s].assigned
                BY <1>1, <2>3 DEF Sessions
            <4>2. /\ Fail(given) \in Sessions /\ Fail(given).state = "Closing" /\ Fail(given).pc = "fail"
                  /\ Fail(given).lease = lease.lease_id /\ Fail(given).assigned = session[s].assigned
                BY <2>2, <4>1 DEF Fail, Sessions, States, Releasing
            <4>3. Consistent(Fail(given))
                BY <1>2, <2>2, <4>2 DEF Consistent, Registering, Releasing, Removing
            <4> QED BY <2>1, <3>1, <4>2, <4>3
        <3>2. CASE lease.address # 0
            <4>1. /\ bound \in Sessions /\ bound.state = "Established" /\ bound.pc = "register4"
                  /\ bound.route = lease /\ bound.lease = lease.lease_id
                  /\ bound.assigned = session[s].assigned
                BY <1>1, <2>2, <2>3 DEF Sessions, States, Registering
            <4> HIDE DEF bound
            <4>2. Consistent(bound)
                BY <1>2, <1>6, <2>2, <4>1 DEF Consistent, HasRoute, Registering, Releasing, Removing
            <4> QED BY <2>1, <3>2, <4>1, <4>2
        <3> QED BY <3>1, <3>2
    <2>5. TypeInv' /\ RoutedInv' /\ [Service!Next]_(Service!serviceVars)
        BY <1>2, <1>4, <2>4, QuietStep DEF IInv
    <2>6. LeasedInv'
        <3>1. session'[s] = r /\ \A t \in Peers \ {s} : session'[t] = session[t]
            BY <2>4 DEF Becomes, IInv, TypeInv
        <3>2. ASSUME NEW x \in Identities, table'.leases_by_identity_[x] # Leases!NoLease
              PROVE  \E t \in Peers : session'[t].lease = table'.leases_by_identity_[x].lease_id
            <4>1. CASE table'.leases_by_identity_[x] = lease
                BY <2>4, <3>1, <4>1
            <4>2. CASE table'.leases_by_identity_[x] = table.leases_by_identity_[x]
                <5>1. PICK t \in Peers : session[t].lease = table.leases_by_identity_[x].lease_id
                    BY <3>2, <4>2 DEF IInv, LeasedInv
                <5>2. t # s
                    <6>1. table.leases_by_identity_[x] \in Leases!Lease
                        BY <3>2, <4>2 DEF IInv, Proofs!IInv, Proofs!TypeOK, Proofs!Table, Leases!Lease,
                           Proofs!Lease, Leases!NoLease, Proofs!NoLease, Leases!LeaseIds, Proofs!LeaseIds,
                           Leases!Pool, Proofs!Pool
                    <6> QED BY <1>2, <5>1, <6>1, LeaseFields
                <5> QED BY <3>1, <4>2, <5>1, <5>2
            <4> QED BY <1>3, <3>2, <4>1, <4>2
        <3>3. Leases!NoLease' = Leases!NoLease
            BY DEF Leases!NoLease
        <3> QED BY <3>2, <3>3 DEF LeasedInv
    <2> QED BY <1>3, <2>5, <2>6 DEF IInv, Progress
<1> QED BY <1>5, <1>6

(* renew, then the session goes on, fails or closes.                       *)
LEMMA RenewingStep ==
    ASSUME IInv, NEW s \in Peers, NEW now \in Leases!Samples, Idle(s), session[s].state = "Established",
           Leases!Renew(session[s].lease, now), UNCHANGED routerVars,
           NEW r \in {session[s], Fail(session[s]), CloseNow(session[s])}, Becomes(s, r)
    PROVE  Progress
PROOF
<1>1. session[s] \in Sessions /\ Consistent(session[s]) /\ session[s].pc = "idle"
    BY SessionFacts DEF Idle
<1>2. session[s].lease \in Leases!LeaseIds
    BY <1>1, LeaseIdOf DEF Consistent
<1>3. /\ Proofs!IInv'
      /\ \A x \in Identities : table'.leases_by_identity_[x] # Leases!NoLease =>
            /\ table.leases_by_identity_[x] # Leases!NoLease
            /\ table'.leases_by_identity_[x].lease_id = table.leases_by_identity_[x].lease_id
    BY <1>2, RenewLeases DEF IInv
<1>4. /\ r \in Sessions /\ Keeps(session[s], r) /\ Consistent(r)
      /\ Ending(r) \/ r.pc \in {"idle", "fail"}
    BY <1>1, FailFields, CloseNowFields DEF Keeps
<1>5. r.pc \notin {"register6", "undo4"} /\ (r.assigned => Serving(s))
    BY <1>1, <1>4 DEF Ending, Removing, Keeps, Serving, Stopped
<1>6. TypeInv' /\ RoutedInv' /\ [Service!Next]_(Service!serviceVars)
    BY <1>4, <1>5, QuietStep DEF IInv, Keeps
<1>7. LeasedInv'
    BY <1>3, <1>4, LeaseKept DEF IInv, Keeps
<1> QED BY <1>3, <1>6, <1>7 DEF IInv, Progress

(* DATA or PING: the session goes on or fails.                             *)
LEMMA UplinkStep ==
    ASSUME IInv, NEW s \in Peers, NEW now \in Leases!Samples, NEW valid \in BOOLEAN, Uplink(s, now, valid)
    PROVE  Progress
PROOF
<1> DEFINE r == IF Renewed(s, now) /\ valid THEN session[s] ELSE Fail(session[s])
<1>1. r \in {session[s], Fail(session[s]), CloseNow(session[s])}
    OBVIOUS
<1>2. /\ Idle(s) /\ session[s].state = "Established" /\ Leases!Renew(session[s].lease, now)
      /\ UNCHANGED routerVars /\ Becomes(s, r)
    BY DEF Uplink
<1> HIDE DEF r
<1> QED BY <1>1, <1>2, RenewingStep

(* release_lease, at the end of fail and at the start of close_now.        *)
LEMMA ReleasingSteps ==
    ASSUME IInv, NEW s \in Peers, FailRelease(s) \/ CloseRelease(s)
    PROVE  Progress
PROOF
<1> DEFINE next == IF session[s].pc = "fail" THEN "idle"
                   ELSE IF HasRoute(session[s]) THEN "unregister4" ELSE "done"
           r == [session[s] EXCEPT !.pc = next, !.lease = 0]
<1>1. session[s] \in Sessions /\ Consistent(session[s])
    BY SessionFacts
<1>2. session[s].pc \in {"fail", "release"} /\ UNCHANGED routerVars /\ Leases!Release(session[s].lease)
    BY DEF FailRelease, CloseRelease
<1>3. Becomes(s, r)
    BY DEF FailRelease, CloseRelease, Becomes
<1>4. next \in {"idle", "unregister4", "done"}
    OBVIOUS
<1>5. session[s].lease \in Leases!LeaseIds
    BY <1>1, <1>2, LeaseIdOf DEF Consistent, Releasing
<1>6. /\ Proofs!IInv'
      /\ \A x \in Identities : table'.leases_by_identity_[x] # Leases!NoLease =>
            /\ table'.leases_by_identity_[x] = table.leases_by_identity_[x]
            /\ table.leases_by_identity_[x].lease_id # session[s].lease
    BY <1>2, <1>5, ReleaseLeases DEF IInv
<1>7. /\ r \in Sessions /\ r.state = session[s].state /\ r.pc = next /\ r.lease = 0
      /\ r.route = session[s].route /\ r.assigned = session[s].assigned /\ r.identity = session[s].identity
    <2> HIDE DEF next
    <2>1. 0 \in 0..(IdModulus - 1)
        BY SMT
    <2> QED BY <1>1, <1>4, <2>1 DEF Sessions, Removing
<1>8. Consistent(r)
    <2>1. next = "idle" => session[s].pc = "fail" /\ session[s].state # "Established"
        BY <1>1, <1>2 DEF Consistent
    <2>2. next # "idle" => session[s].state = "Closed"
        BY <1>1, <1>2 DEF Consistent
    <2>3. next = "unregister4" => HasRoute(session[s])
        OBVIOUS
    <2> HIDE DEF next, r
    <2> QED BY <1>1, <1>4, <1>7, <2>1, <2>2, <2>3 DEF Consistent, HasRoute, Registering, Releasing, Removing
<1>9. r.pc \notin {"register6", "undo4"} /\ (r.assigned /\ ~Ending(r) => Serving(s))
    BY <1>2, <1>7 DEF Ending, Removing, Serving, Stopped
<1> HIDE DEF r
<1>10. TypeInv' /\ RoutedInv' /\ [Service!Next]_(Service!serviceVars)
    BY <1>2, <1>3, <1>7, <1>8, <1>9, QuietStep DEF IInv
<1>11. LeasedInv'
    BY <1>3, <1>6, LeaseReleased DEF IInv
<1> QED BY <1>6, <1>10, <1>11 DEF IInv, Progress

(* The session of a step that changes the maps keeps its lease.            *)
LEMMA RouterStep ==
    ASSUME IInv, NEW s \in Peers, NEW r \in Sessions, Consistent(r), Becomes(s, r), UNCHANGED leaseVars,
           Keeps(session[s], r), ~Serving(s), r.assigned => Ending(r),
           peers_' \in Maps, ipv6_peers_' \in Maps,
           Spares(peers_, peers_', s), Spares(ipv6_peers_, ipv6_peers_', s),
           r.pc \in {"register6", "undo4"} => peers_'[Address(s)] = s
    PROVE  Progress
PROOF
<1>1. Proofs!IInv'
    BY LeasesFramed DEF IInv
<1>2. r.lease = session[s].lease /\ r.assigned = session[s].assigned /\ r.route.address = Address(s)
    BY DEF Keeps, Address
<1>3. TypeInv' /\ RoutedInv'
    BY <1>2, SessionStep DEF IInv
<1>4. [Service!Next]_(Service!serviceVars)
    BY <1>2, ServiceQuiet DEF IInv
<1>5. LeasedInv'
    BY <1>2, LeaseKept DEF IInv, leaseVars
<1> QED BY <1>1, <1>3, <1>4, <1>5 DEF IInv, Progress

(* The session is in a call of the router.                                 *)
Calls(s) ==
    \/ session[s].pc \in Registering
    \/ session[s].pc \in {"unregister4", "unregister6"}

(* A session that calls the router has an address and is not being served. *)
LEMMA CallerFacts ==
    ASSUME IInv, NEW s \in Peers, Calls(s)
    PROVE  /\ session[s] \in Sessions /\ Consistent(session[s]) /\ Address(s) \in Pool
           /\ ~Serving(s)
           /\ peers_ \in Maps /\ ipv6_peers_ \in Maps
PROOF
<1>1. session[s] \in Sessions /\ Consistent(session[s])
    BY SessionFacts
<1>2. session[s].route \in Leases!Lease
    BY <1>1 DEF Calls, Sessions, Consistent, HasRoute
<1>3. Address(s) \in Pool
    BY <1>2, LeaseFields DEF Address
<1>4. ~Serving(s)
    BY <1>1 DEF Calls, Serving, Stopped, Consistent
<1> QED BY <1>1, <1>3, <1>4 DEF IInv, TypeInv, Maps

(* The IPv4 registration: the route is the session's, or it closes.        *)
LEMMA Register4Step ==
    ASSUME IInv, NEW s \in Peers, Register4(s)
    PROVE  Progress
PROOF
<1> DEFINE result == register_peer(peers_, Alive, Address(s), s)
           on == [session[s] EXCEPT !.pc = "register6"]
           r == IF result.ok THEN on ELSE CloseNow(session[s])
<1>1. session[s].pc = "register4" /\ peers_' = result.peers /\ ipv6_peers_' = ipv6_peers_
      /\ UNCHANGED leaseVars /\ Becomes(s, r)
    BY DEF Register4, Goto
<1>2. /\ session[s] \in Sessions /\ Consistent(session[s]) /\ Address(s) \in Pool /\ ~Serving(s)
      /\ peers_ \in Maps /\ ipv6_peers_ \in Maps
    <2>1. Calls(s)
        BY <1>1 DEF Calls, Registering
    <2> QED BY <2>1, CallerFacts
<1>3. /\ result.peers \in Maps /\ Spares(peers_, result.peers, s)
      /\ result.ok => result.peers[Address(s)] = s
      /\ Spares(ipv6_peers_, ipv6_peers_, s)
    BY <1>2, RegisterMaps DEF Spares
<1>4. on \in Sessions /\ Keeps(session[s], on) /\ on.pc = "register6" /\ on.state = session[s].state
    BY <1>2 DEF Sessions, Registering, Keeps
<1>5. Consistent(on) /\ ~on.assigned
    BY <1>1, <1>2, <1>4 DEF Consistent, HasRoute, Keeps, Registering, Releasing, Removing
<1>6. /\ CloseNow(session[s]) \in Sessions /\ Keeps(session[s], CloseNow(session[s]))
      /\ Consistent(CloseNow(session[s])) /\ Ending(CloseNow(session[s]))
    BY <1>2, CloseNowFields
<1> HIDE DEF result, on
<1>7. /\ r \in Sessions /\ Keeps(session[s], r) /\ Consistent(r) /\ (r.assigned => Ending(r))
      /\ r.pc \in {"register6", "undo4"} => result.ok
    BY <1>4, <1>5, <1>6 DEF Ending, Removing
<1> HIDE DEF r
<1> QED BY <1>1, <1>2, <1>3, <1>7, RouterStep

(* The calls of a handler that remove a route.                             *)
LEMMA RemovingStep ==
    ASSUME IInv, NEW s \in Peers, Undo4(s) \/ Unregister4(s) \/ Unregister6(s)
    PROVE  Progress
PROOF
<1> DEFINE R4 == unregister_peer(peers_, Alive, Address(s), s)
           R6 == unregister_peer(ipv6_peers_, Alive, Address(s), s)
           four == [session[s] EXCEPT !.pc = "unregister6"]
           six == [session[s] EXCEPT !.pc = "done"]
           closed == CloseNow(session[s])
<1>1. /\ session[s].pc \in {"undo4", "unregister4", "unregister6"}
      /\ UNCHANGED leaseVars
      /\ peers_' = peers_ \/ peers_' = R4
      /\ ipv6_peers_' = ipv6_peers_ \/ ipv6_peers_' = R6
    <2>1. CASE Undo4(s)
        BY <2>1 DEF Undo4
    <2>2. CASE Unregister4(s)
        BY <2>2 DEF Unregister4
    <2>3. CASE Unregister6(s)
        BY <2>3 DEF Unregister6
    <2> QED BY <2>1, <2>2, <2>3
<1>2. /\ session[s] \in Sessions /\ Consistent(session[s]) /\ Address(s) \in Pool /\ ~Serving(s)
      /\ peers_ \in Maps /\ ipv6_peers_ \in Maps
    <2>1. Calls(s)
        BY <1>1 DEF Calls, Registering
    <2> QED BY <2>1, CallerFacts
<1>3. /\ R4 \in Maps /\ R6 \in Maps /\ Spares(peers_, R4, s) /\ Spares(ipv6_peers_, R6, s)
      /\ Spares(peers_, peers_, s) /\ Spares(ipv6_peers_, ipv6_peers_, s)
    BY <1>2, UnregisterMaps DEF Spares
<1>4. \A q \in {four, six} : /\ q \in Sessions /\ Keeps(session[s], q) /\ q.state = session[s].state
                             /\ q.pc \in {"unregister6", "done"}
    BY <1>2 DEF Sessions, Removing, Keeps
<1>5. closed \in Sessions /\ Keeps(session[s], closed) /\ Consistent(closed) /\ Ending(closed)
    BY <1>2, CloseNowFields
<1>6. /\ peers_' \in Maps /\ ipv6_peers_' \in Maps
      /\ Spares(peers_, peers_', s) /\ Spares(ipv6_peers_, ipv6_peers_', s)
    <2> HIDE DEF R4, R6
    <2> QED BY <1>1, <1>2, <1>3
<1>7. PICK r \in {four, six, closed} : Becomes(s, r) /\ (r # closed => session[s].pc \in {"unregister4", "unregister6"})
    BY DEF Undo4, Unregister4, Unregister6, Goto
<1>8. r \in Sessions /\ Keeps(session[s], r) /\ Ending(r) /\ Consistent(r)
    <2>1. CASE r = closed
        BY <1>5, <2>1
    <2>2. CASE r \in {four, six} /\ session[s].pc \in {"unregister4", "unregister6"}
        <3> HIDE DEF four, six
        <3>1. /\ r \in Sessions /\ Keeps(session[s], r) /\ r.state = session[s].state
              /\ r.pc \in {"unregister6", "done"}
            BY <1>4, <2>2
        <3> QED BY <1>2, <2>2, <3>1 DEF Keeps, Consistent, HasRoute, Ending, Registering, Releasing, Removing
    <2> QED BY <1>7, <2>1, <2>2
<1>9. r.pc \notin {"register6", "undo4"}
    BY <1>8 DEF Ending, Removing
<1> QED BY <1>1, <1>2, <1>6, <1>7, <1>8, <1>9, RouterStep

(* On success the session begins to be served: no other session is, since  *)
(* its own IPv4 route has held the address since register4.                *)
LEMMA Register6Step ==
    ASSUME IInv, NEW s \in Peers, Register6(s)
    PROVE  Progress
PROOF
<1> DEFINE result == register_peer(ipv6_peers_, Alive, Address(s), s)
           on == [session[s] EXCEPT !.pc = "idle", !.assigned = TRUE]
           off == [session[s] EXCEPT !.pc = "undo4"]
<1>1. /\ session[s].pc = "register6" /\ ipv6_peers_' = result.peers /\ peers_' = peers_
      /\ UNCHANGED leaseVars
      /\ result.ok => Becomes(s, on)
      /\ ~result.ok => Becomes(s, off)
    BY DEF Register6, Goto
<1>2. /\ session[s] \in Sessions /\ Consistent(session[s]) /\ Address(s) \in Pool /\ ~Serving(s)
      /\ peers_ \in Maps /\ ipv6_peers_ \in Maps
    <2>1. Calls(s)
        BY <1>1 DEF Calls, Registering
    <2> QED BY <2>1, CallerFacts
<1>3. /\ result.peers \in Maps /\ Spares(ipv6_peers_, result.peers, s)
      /\ result.ok => result.peers[Address(s)] = s
      /\ Spares(peers_, peers_, s)
    BY <1>2, RegisterMaps DEF Spares
<1>4. peers_[Address(s)] = s
    BY <1>1 DEF IInv, RoutedInv
<1> HIDE DEF result
<1>5. CASE ~result.ok
    <2>1. off \in Sessions /\ Keeps(session[s], off) /\ off.pc = "undo4" /\ off.state = session[s].state
        BY <1>2 DEF Sessions, Registering, Keeps
    <2>2. Consistent(off) /\ ~off.assigned
        BY <1>1, <1>2, <2>1 DEF Consistent, HasRoute, Keeps, Registering, Releasing, Removing
    <2> HIDE DEF off
    <2> QED BY <1>1, <1>2, <1>3, <1>4, <1>5, <2>1, <2>2, RouterStep
<1>6. CASE result.ok
    <2>1. /\ on \in Sessions /\ on.pc = "idle" /\ on.assigned = TRUE /\ on.state = session[s].state
          /\ on.lease = session[s].lease /\ on.route = session[s].route
        BY <1>2 DEF Sessions
    <2>2. Consistent(on) /\ on.route.address = Address(s)
        BY <1>1, <1>2, <2>1 DEF Consistent, HasRoute, Address, Registering, Releasing, Removing
    <2> HIDE DEF on
    <2>3. Becomes(s, on)
        BY <1>1, <1>6
    <2>4. TypeInv' /\ RoutedInv'
        <3>1. peers_'[on.route.address] = s /\ ipv6_peers_'[on.route.address] = s
            BY <1>1, <1>3, <1>4, <1>6, <2>2
        <3>2. /\ peers_' \in Maps /\ ipv6_peers_' \in Maps
              /\ Spares(peers_, peers_', s) /\ Spares(ipv6_peers_, ipv6_peers_', s)
            BY <1>1, <1>2, <1>3
        <3>3. TypeInv /\ RoutedInv
            BY DEF IInv
        <3> QED BY <2>1, <2>2, <2>3, <3>1, <3>2, <3>3, SessionStep
    <2>5. Proofs!IInv'
        BY <1>1, LeasesFramed DEF IInv
    <2>6. LeasedInv'
        BY <1>1, <2>1, <2>3, LeaseKept DEF IInv, leaseVars
    <2>7. Service!Assign(Address(s), s)
        <3>1. session'[s] = on /\ \A t \in Peers \ {s} : session'[t] = session[t]
            BY <2>3 DEF Becomes, IInv, TypeInv
        <3>2. \A t \in Peers \ {s} : (Serving(t)' <=> Serving(t)) /\ Address(t)' = Address(t)
            BY <3>1 DEF Serving, Stopped, Address
        <3>3. Serving(s)' /\ Address(s)' = Address(s)
            BY <2>1, <2>2, <3>1 DEF Serving, Stopped, Address
        <3>4. Serves(Address(s)) = {}
            BY <1>2, <1>4 DEF IInv, RoutedInv, Serves
        <3>5. \A b \in Pool : Serves(b)' = IF b = Address(s) THEN {s} ELSE Serves(b)
            BY <1>2, <3>2, <3>3, <3>4 DEF Serves
        <3>6. Owner(Address(s)) = NoPeer /\ \A b \in Pool : Owner(b)' = IF b = Address(s) THEN s ELSE Owner(b)
            BY <3>4, <3>5, MemberOf DEF Owner
        <3>7. s \notin Assigned /\ Assigned' = Assigned \cup {s}
            <4>1. ~session[s].assigned
                BY <1>1, <1>2 DEF Consistent, Registering
            <4> QED BY <2>1, <3>1, <4>1 DEF Assigned
        <3> QED BY <1>2, <3>6, <3>7 DEF Service!Assign
    <2> QED BY <1>2, <2>4, <2>5, <2>6, <2>7 DEF IInv, Progress, Service!Next
<1> QED BY <1>5, <1>6

(* No session changes.                                                     *)
LEMMA FramedStep ==
    ASSUME IInv, session' = session, table' = table, Proofs!IInv',
           peers_' \in Maps, ipv6_peers_' \in Maps,
           \A t \in Alive, a \in Pool : peers_[a] = t => peers_'[a] = t,
           \A t \in Alive, a \in Pool : ipv6_peers_[a] = t => ipv6_peers_'[a] = t
    PROVE  Progress
PROOF
<1>1. \A t \in Peers : (Serving(t)' <=> Serving(t)) /\ Address(t)' = Address(t)
    BY DEF Serving, Stopped, Address
<1>2. TypeInv'
    BY DEF IInv, TypeInv, Maps
<1>3. RoutedInv'
    <2>1. ASSUME NEW t \in Peers
          PROVE  /\ Consistent(session'[t])
                 /\ Serving(t)' \/ session'[t].pc \in {"register6", "undo4"} => peers_'[Address(t)'] = t
                 /\ Serving(t)' => ipv6_peers_'[Address(t)'] = t
        <3>1. /\ Consistent(session[t])
              /\ Serving(t) \/ session[t].pc \in {"register6", "undo4"} => peers_[Address(t)] = t
              /\ Serving(t) => ipv6_peers_[Address(t)] = t
            BY DEF IInv, RoutedInv
        <3>2. Serving(t) \/ session[t].pc \in {"register6", "undo4"} => t \in Alive /\ Address(t) \in Pool
            BY RegisteredIsAlive DEF IInv
        <3> QED BY <1>1, <3>1, <3>2
    <2> QED BY <2>1 DEF RoutedInv, Consistent, HasRoute
<1>4. LeasedInv'
    <2>1. Leases!NoLease' = Leases!NoLease
        BY DEF Leases!NoLease
    <2> QED BY <2>1 DEF IInv, LeasedInv
<1>5. UNCHANGED Service!serviceVars
    <2>1. \A b \in Pool : Serves(b)' = Serves(b)
        BY <1>1 DEF Serves
    <2>2. \A b \in Pool : Owner(b)' = Owner(b)
        BY <2>1 DEF Owner
    <2>3. Assigned' = Assigned
        BY DEF Assigned
    <2> QED BY <2>2, <2>3 DEF Service!serviceVars
<1> QED BY <1>2, <1>3, <1>4, <1>5 DEF IInv, Progress

(* The two maps have their type.                                           *)
LEMMA MapsNow ==
    ASSUME IInv
    PROVE  peers_ \in Maps /\ ipv6_peers_ \in Maps
PROOF BY DEF IInv, TypeInv, Maps

(* A packet from the TUN device may erase an expired entry.                *)
LEMMA TunPacketStep ==
    ASSUME IInv, NEW a \in Pool, TunPacket(a)
    PROVE  Progress
PROOF
<1> DEFINE F4 == find_peer(peers_, Alive, a).peers
           F6 == find_peer(ipv6_peers_, Alive, a).peers
<1>1. /\ peers_' = peers_ \/ peers_' = F4
      /\ ipv6_peers_' = ipv6_peers_ \/ ipv6_peers_' = F6
      /\ session' = session /\ UNCHANGED leaseVars
    BY DEF TunPacket
<1>2. /\ F4 \in Maps /\ F6 \in Maps
      /\ \A t \in Alive, b \in Pool : peers_[b] = t => F4[b] = t
      /\ \A t \in Alive, b \in Pool : ipv6_peers_[b] = t => F6[b] = t
    BY MapsNow, FindMaps
<1> HIDE DEF F4, F6
<1>3. /\ peers_' \in Maps /\ ipv6_peers_' \in Maps
      /\ \A t \in Alive, b \in Pool : peers_[b] = t => peers_'[b] = t
      /\ \A t \in Alive, b \in Pool : ipv6_peers_[b] = t => ipv6_peers_'[b] = t
    BY <1>1, <1>2, MapsNow
<1>4. Proofs!IInv' /\ table' = table
    BY <1>1, LeasesFramed DEF IInv, leaseVars
<1> QED BY <1>1, <1>3, <1>4, FramedStep

(* Neither sessions, nor routes, nor leases change.                        *)
LEMMA StillStep ==
    ASSUME IInv, session' = session, UNCHANGED routerVars, table' = table, Proofs!IInv'
    PROVE  Progress
PROOF
<1>1. peers_' = peers_ /\ ipv6_peers_' = ipv6_peers_
    BY DEF routerVars
<1> QED BY <1>1, MapsNow, FramedStep

(* A packet posted to a session: dropped, sent, or the session closes.     *)
LEMMA DownlinkStep ==
    ASSUME IInv, NEW s \in Peers, NEW now \in Leases!Samples, Downlink(s, now)
    PROVE  Progress
PROOF
<1>1. UNCHANGED routerVars
    BY DEF Downlink
<1>2. CASE UNCHANGED <<leaseVars, session>>
    BY <1>1, <1>2, LeasesFramed, StillStep DEF IInv, leaseVars
<1>3. CASE Becomes(s, CloseNow(session[s])) /\ UNCHANGED leaseVars
    BY <1>1, <1>3, ClosingStep
<1>4. CASE /\ Idle(s) /\ session[s].state = "Established"
           /\ Leases!Renew(session[s].lease, now)
           /\ Becomes(s, IF Renewed(s, now) THEN session[s] ELSE CloseNow(session[s]))
    <2> DEFINE r == IF Renewed(s, now) THEN session[s] ELSE CloseNow(session[s])
    <2>1. r \in {session[s], Fail(session[s]), CloseNow(session[s])}
        OBVIOUS
    <2>2. Becomes(s, r)
        BY <1>4
    <2> HIDE DEF r
    <2> QED BY <1>1, <1>4, <2>1, <2>2, RenewingStep
<1> QED BY <1>2, <1>3, <1>4 DEF Downlink

(* remove_session, stop, time and stuttering.                              *)
LEMMA OtherSteps ==
    ASSUME IInv, (\E s \in Peers : RemoveSession(s)) \/ Stop \/ Tick \/ UNCHANGED vars
    PROVE  Progress
PROOF
<1>1. session' = session /\ UNCHANGED routerVars /\ (UNCHANGED leaseVars \/ Leases!Tick)
    BY DEF RemoveSession, Stop, Tick, vars
<1>2. CASE UNCHANGED leaseVars
    BY <1>1, <1>2, LeasesFramed, StillStep DEF IInv, leaseVars
<1>3. CASE Leases!Tick
    BY <1>1, <1>3, TickLeases, StillStep DEF IInv
<1> QED BY <1>1, <1>2, <1>3

(* Every step of the server.                                               *)
LEMMA EveryStep ==
    ASSUME IInv, [Next]_vars
    PROVE  Progress
PROOF
<1>1. ASSUME NEW s \in Peers,
             \/ Accept(s) \/ \E identity \in Identities : Handshake(s, identity)
             \/ \E now \in Leases!Samples :
                   \/ Hello(s, now) \/ Downlink(s, now)
                   \/ \E valid \in BOOLEAN : Uplink(s, now, valid)
             \/ BadFrame(s) \/ PeerCloses(s) \/ Drop(s) \/ Finish(s)
             \/ Continue(s) \/ RemoveSession(s) \/ StopSession(s)
      PROVE  Progress
    <2>1. CASE Accept(s) \/ (\E identity \in Identities : Handshake(s, identity)) \/ PeerCloses(s)
        BY <2>1, OpeningSteps
    <2>2. ASSUME NEW now \in Leases!Samples,
                 Hello(s, now) \/ Downlink(s, now) \/ \E valid \in BOOLEAN : Uplink(s, now, valid)
          PROVE  Progress
        BY <2>2, HelloStep, DownlinkStep, UplinkStep
    <2>3. CASE BadFrame(s) \/ Drop(s) \/ Finish(s) \/ StopSession(s)
        BY <2>3, EndingSteps
    <2>4. CASE Continue(s)
        BY <2>4, Register4Step, Register6Step, RemovingStep, ReleasingSteps DEF Continue
    <2>5. CASE RemoveSession(s)
        BY <2>5, OtherSteps
    <2> QED BY <1>1, <2>1, <2>2, <2>3, <2>4, <2>5
<1>2. CASE \E a \in Pool : TunPacket(a)
    BY <1>2, TunPacketStep
<1>3. CASE Stop \/ Tick \/ UNCHANGED vars
    BY <1>3, OtherSteps
<1> QED BY <1>1, <1>2, <1>3 DEF Next

(* The server starts in the invariant, with nobody served.                 *)
LEMMA InitHolds == Init => IInv /\ Service!Init
PROOF
<1> SUFFICES ASSUME Init PROVE IInv /\ Service!Init
    OBVIOUS
<1>1. Proofs!IInv
    <2>1. Leases!Init => Proofs!Init
        BY DEF Leases!Init, Proofs!Init, Leases!EmptyTable, Proofs!EmptyTable, Leases!NoLease, Proofs!NoLease,
           Leases!LeaseIds, Proofs!LeaseIds, Leases!Pool, Proofs!Pool
    <2> QED BY <2>1, Proofs!InitSound DEF Init
<1>2. \A s \in Peers : session[s] = NewSession
    BY DEF Init
<1>3. /\ NewSession \in Sessions /\ NewSession.pc = "idle" /\ NewSession.state = "Unborn"
      /\ ~NewSession.assigned /\ NewSession.lease = 0 /\ ~HasRoute(NewSession)
    BY DEF NewSession, Sessions, States, HasRoute
<1>4. TypeInv
    BY <1>3 DEF Init, TypeInv
<1>5. Consistent(NewSession)
    BY <1>3 DEF Consistent, Registering, Releasing, Removing
<1>6. \A s \in Peers : ~Serving(s)
    BY <1>2, <1>3 DEF Serving
<1>7. RoutedInv
    BY <1>2, <1>3, <1>5, <1>6 DEF RoutedInv
<1>8. LeasedInv
    BY DEF Init, LeasedInv, Leases!Init, Leases!EmptyTable
<1>9. Service!Init
    <2>1. \A a \in Pool : Owner(a) = NoPeer
        BY <1>6, MemberOf DEF Owner, Serves
    <2>2. Assigned = {}
        BY <1>2, <1>3 DEF Assigned
    <2> QED BY <2>1, <2>2 DEF Service!Init
<1> QED BY <1>1, <1>4, <1>7, <1>8, <1>9 DEF IInv
-------------------------------------------------------------------------------
(* The invariant that the following rest on is preserved by every handler  *)
(* of every session, by the TUN handler, by stop and by time.              *)
THEOREM Inductive == Spec => []IInv
PROOF
<1>1. Init => IInv
    BY InitHolds
<1>2. IInv /\ [Next]_vars => IInv'
    BY EveryStep DEF Progress
<1> QED BY <1>1, <1>2, PTL DEF Spec

(* For any number of connections, certificates and addresses: a client     *)
(* that was sent IP_ASSIGN keeps both its routes until close_now.          *)
THEOREM RoutesAreKept == Spec => []AssignedIsRouted
PROOF
<1>1. IInv => AssignedIsRouted
    BY DEF IInv, RoutedInv, AssignedIsRouted
<1> QED BY <1>1, Inductive, PTL

(* Every lease in the table is with a session that is still to release it. *)
THEOREM LeasesAreReturned == Spec => []NoLeakedLease
PROOF
<1>1. ASSUME IInv PROVE NoLeakedLease
    <2>1. ASSUME NEW x \in Identities, table.leases_by_identity_[x] # Leases!NoLease
          PROVE  \E s \in Peers : /\ session[s].lease = table.leases_by_identity_[x].lease_id
                                  /\ session[s].pc # "done"
        <3>1. PICK s \in Peers : session[s].lease = table.leases_by_identity_[x].lease_id
            BY <1>1, <2>1 DEF IInv, LeasedInv
        <3>2. table.leases_by_identity_[x] \in Leases!Lease
            BY <1>1, <2>1 DEF IInv, Proofs!IInv, Proofs!TypeOK, Proofs!Table, Leases!Lease, Proofs!Lease,
               Leases!NoLease, Proofs!NoLease, Leases!LeaseIds, Proofs!LeaseIds, Leases!Pool, Proofs!Pool
        <3>3. session[s].lease # 0
            BY <3>1, <3>2, LeaseFields
        <3>4. session[s].pc # "done"
            BY <1>1, <3>3, SessionFacts DEF Consistent, Removing
        <3> QED BY <3>1, <3>4
    <2> QED BY <2>1 DEF NoLeakedLease
<1> QED BY <1>1, Inductive, PTL

(* The sessions, the lease table and the router implement AddressService:  *)
(* an address is given to a client only when it serves nobody.             *)
THEOREM ServiceIsImplemented == Spec => ImplementsService
PROOF
<1>1. Init => Service!Init
    BY InitHolds
<1>2. IInv /\ [Next]_vars => [Service!Next]_(Service!serviceVars)
    BY EveryStep DEF Progress
<1> QED BY <1>1, <1>2, Inductive, PTL DEF Spec, ImplementsService, Service!Spec
===============================================================================
