----------------------------- MODULE LeaseManager -----------------------------
(***************************************************************************)
(* The virtual IP lease table of the server, core::LeaseManager.  Every    *)
(* method takes mutex_ for its whole body, so a method is a function from  *)
(* the table before it to the table after it and a result; the modules     *)
(* that use it apply one method in one atomic step.                        *)
(*                                                                         *)
(* Addresses are the host-order integers the code compares.  An absent map *)
(* entry is NoLease or NoIdentity.  The IPv6 address of a lease is the     *)
(* configured /64 prefix followed by the IPv4 address, so it is determined *)
(* by the address field and is left out of the record.                     *)
(***************************************************************************)
EXTENDS Naturals

CONSTANTS
    Identities,     \* certificate fingerprints
    NoIdentity,     \* "no entry" of identity_by_address_
    FirstAddress,   \* first_address_
    LastAddress,    \* last_address_
    Ipv6Gateway,    \* the IPv4 address whose derived IPv6 is ipv6_gateway_, outside the pool if none
    LeaseDuration,  \* lease_duration_
    IdModulus       \* lease ids are kept modulo this (2^64 in the code)

ASSUME LeaseConstants ==
    /\ NoIdentity \notin Identities
    /\ FirstAddress \in Nat /\ LastAddress \in Nat
    /\ FirstAddress <= LastAddress
    /\ Ipv6Gateway \in Nat
    /\ LeaseDuration \in Nat \ {0}
    /\ IdModulus \in Nat /\ IdModulus > 1

Pool == FirstAddress..LastAddress

\* Id 0 is what next_lease_id_ wraps to; acquire refuses to issue it.
LeaseIds == 1..(IdModulus - 1)

Lease == [lease_id : LeaseIds, identity : Identities,
          address : Pool, expires_at : Nat]

NoLease == [lease_id |-> 0, identity |-> NoIdentity,
            address |-> 0, expires_at |-> 0]

Table == [leases_by_identity_  : [Identities -> Lease \cup {NoLease}],
          identity_by_address_ : [Pool -> Identities \cup {NoIdentity}],
          next_lease_id_       : 0..(IdModulus - 1)]

EmptyTable == [leases_by_identity_  |-> [x \in Identities |-> NoLease],
               identity_by_address_ |-> [a \in Pool |-> NoIdentity],
               next_lease_id_       |-> 1]
-------------------------------------------------------------------------------
(* Both maps without the leases of the identities in `gone`.               *)
Without(t, gone) ==
    [t EXCEPT
        !.leases_by_identity_ =
            [x \in Identities |-> IF x \in gone THEN NoLease ELSE @[x]],
        !.identity_by_address_ =
            [a \in Pool |->
                IF \E x \in gone : t.leases_by_identity_[x].address = a
                THEN NoIdentity ELSE @[a]]]

\* Mutant: the reaper takes a lease one tick before its deadline.
ReapEarly(t, now) ==
    Without(t, {x \in Identities :
                  /\ t.leases_by_identity_[x] # NoLease
                  /\ t.leases_by_identity_[x].expires_at <= now + 1})

reap_expired_locked(t, now) ==
    Without(t, {x \in Identities :
                  /\ t.leases_by_identity_[x] # NoLease
                  /\ t.leases_by_identity_[x].expires_at <= now})

Free(t) == {a \in Pool : t.identity_by_address_[a] = NoIdentity}

Lowest(addresses) == CHOOSE a \in addresses : \A b \in addresses : a <= b

(* The table after `lease` has been issued.                                *)
Issue(t, lease) ==
    [t EXCEPT
        !.leases_by_identity_[lease.identity] = lease,
        !.identity_by_address_[lease.address] = lease.identity,
        !.next_lease_id_ = (@ + 1) % IdModulus]

\* Mutant: the test for an exhausted generation counter is dropped.
AcquireWrapping(t0, identity, now) ==
    LET t == reap_expired_locked(t0, now)
        lease == [lease_id |-> t.next_lease_id_, identity |-> identity,
                  address |-> Lowest(Free(t)), expires_at |-> now + LeaseDuration]
    IN  IF \/ t.leases_by_identity_[identity] # NoLease
           \/ Free(t) = {}
           \/ Lowest(Free(t)) = Ipv6Gateway
        THEN [table |-> t, lease |-> NoLease]
        ELSE [table |-> Issue(t, lease), lease |-> lease]

(* The throwing exits of the code, a second lease for the identity, an     *)
(* empty pool, an exhausted counter and a derived IPv6 address equal to    *)
(* the gateway's, all give NoLease.  The candidate is the lowest free      *)
(* address and only that one is tried.                                     *)
acquire(t0, identity, now) ==
    LET t == reap_expired_locked(t0, now)
        lease == [lease_id |-> t.next_lease_id_, identity |-> identity,
                  address |-> Lowest(Free(t)), expires_at |-> now + LeaseDuration]
    IN  IF \/ t.leases_by_identity_[identity] # NoLease
           \/ Free(t) = {}
           \/ t.next_lease_id_ = 0
           \/ Lowest(Free(t)) = Ipv6Gateway
        THEN [table |-> t, lease |-> NoLease]
        ELSE [table |-> Issue(t, lease), lease |-> lease]

\* Mutant: the generation is not compared, as if a lease were its identity.
CurrentByIdentity(t, expected) ==
    t.leases_by_identity_[expected.identity] # NoLease

(* The comparison renew and release make: identity, id and address.        *)
Current(t, expected) ==
    LET entry == t.leases_by_identity_[expected.identity]
    IN  /\ entry # NoLease
        /\ entry.lease_id = expected.lease_id
        /\ entry.address = expected.address

renew(t0, expected, now) ==
    LET t == reap_expired_locked(t0, now)
        lease == [t.leases_by_identity_[expected.identity]
                    EXCEPT !.expires_at = now + LeaseDuration]
    IN  IF Current(t, expected)
        THEN [table |-> [t EXCEPT !.leases_by_identity_[expected.identity] = lease],
              lease |-> lease]
        ELSE [table |-> t, lease |-> NoLease]

\* Mutant: release forgets the reverse map.
ReleaseHalf(t, expected) ==
    IF Current(t, expected)
    THEN [t EXCEPT !.leases_by_identity_[expected.identity] = NoLease]
    ELSE t

release(t, expected) ==
    IF Current(t, expected) THEN Without(t, {expected.identity}) ELSE t
===============================================================================
