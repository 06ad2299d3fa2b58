------------------------------ MODULE LeaseHolders ------------------------------
(***************************************************************************)
(* The lease table together with everything that can reach it: session     *)
(* controllers on different strands, each with the copy of the lease it    *)
(* was last given (SessionController::lease_).  A caller reads the clock    *)
(* before it takes the mutex (the default argument now = Clock::now()), so  *)
(* the time a method works with may be older than times already used.      *)
(***************************************************************************)
EXTENDS LeaseManager

CONSTANTS
    MaxDelay,   \* how far behind the clock a sampled time may be
    MaxClock    \* bound on the clock

ASSUME HolderConstants == MaxDelay \in Nat /\ MaxClock \in Nat

VARIABLES
    table,      \* the LeaseManager object
    clock,      \* the steady clock
    held,       \* held[i]: the copy of lease i last returned to its holder
    released    \* lease ids whose holder has released them

vars == <<table, clock, held, released>>

Samples == {now \in 0..clock : clock - now <= MaxDelay}

TypeOK ==
    /\ table \in Table
    /\ clock \in Nat
    /\ held \in [LeaseIds -> Lease \cup {NoLease}]
    /\ released \subseteq LeaseIds

Init ==
    /\ table = EmptyTable
    /\ clock = 0
    /\ held = [i \in LeaseIds |-> NoLease]
    /\ released = {}
-------------------------------------------------------------------------------
(* SessionController::handle on CLIENT_HELLO.                              *)
Acquire(identity, now) ==
    LET result == acquire(table, identity, now)
    IN  /\ table' = result.table
        /\ held' = IF result.lease = NoLease THEN held
                   ELSE [held EXCEPT ![result.lease.lease_id] = result.lease]
        /\ UNCHANGED <<clock, released>>

(* SessionController::handle on data or PING, and make_data_to_client.  A  *)
(* holder that is refused keeps its copy until it releases it.             *)
Renew(i, now) ==
    LET result == renew(table, held[i], now)
    IN  /\ held[i] # NoLease
        /\ table' = result.table
        /\ held' = IF result.lease = NoLease THEN held
                   ELSE [held EXCEPT ![i] = result.lease]
        /\ UNCHANGED <<clock, released>>

(* SessionController::release_lease.  It may come long after the lease has *)
(* expired and the address has a new owner, and it may be repeated.        *)
Release(i) ==
    /\ held[i] # NoLease
    /\ table' = release(table, held[i])
    /\ released' = released \cup {i}
    /\ UNCHANGED <<clock, held>>

(* find_by_identity, owns, reap_expired, active_count and available_count  *)
(* change the table only by reaping it.                                    *)
Observe(now) ==
    /\ table' = reap_expired_locked(table, now)
    /\ UNCHANGED <<clock, held, released>>

Tick ==
    /\ clock < MaxClock
    /\ clock' = clock + 1
    /\ UNCHANGED <<table, held, released>>

Next ==
    \/ \E identity \in Identities, now \in Samples : Acquire(identity, now)
    \/ \E i \in LeaseIds, now \in Samples : Renew(i, now)
    \/ \E i \in LeaseIds : Release(i)
    \/ \E now \in Samples : Observe(now)
    \/ Tick

Spec == Init /\ [][Next]_vars
-------------------------------------------------------------------------------
Entry(identity) == table.leases_by_identity_[identity]

InverseMaps(t) ==
    /\ \A x \in Identities : t.leases_by_identity_[x] # NoLease =>
          /\ t.leases_by_identity_[x].identity = x
          /\ t.identity_by_address_[t.leases_by_identity_[x].address] = x
    /\ \A a \in Pool : t.identity_by_address_[a] # NoIdentity =>
          /\ t.leases_by_identity_[t.identity_by_address_[a]] # NoLease
          /\ t.leases_by_identity_[t.identity_by_address_[a]].address = a

(* leases_by_identity_ and identity_by_address_ are inverse to each other: *)
(* no address has two owners, no identity two addresses, and no address is *)
(* lost to the pool when leases expire, are released or are reissued.      *)
MapsAreInverse == InverseMaps(table)

(* What a holder may count on: until the expiry time in its copy, a lease  *)
(* it has not released is in the table exactly as the copy says.  Neither  *)
(* a late release or renewal by the holder of an older lease on the same   *)
(* identity or address, nor a caller with an old time, can take it away.   *)
HolderProtected ==
    \A i \in LeaseIds :
        (held[i] # NoLease /\ i \notin released /\ held[i].expires_at > clock)
        => Entry(held[i].identity) = held[i]

KeepsGenerations ==
    \A i \in LeaseIds : held[i] # NoLease =>
        /\ held'[i].identity = held[i].identity
        /\ held'[i].address = held[i].address

(* A lease id stands for one identity and one address for ever: acquire    *)
(* never issues an id twice, also when the counter has wrapped to zero.    *)
GenerationFixed == [][KeepsGenerations]_vars

KeepsLiveEntries ==
    \A x \in Identities :
        (/\ Entry(x) # NoLease
         /\ Entry(x).expires_at > clock
         /\ Entry(x).lease_id \notin released')
        => /\ Entry(x)'.lease_id = Entry(x).lease_id
           /\ Entry(x)'.address = Entry(x).address

(* An unexpired entry leaves the table only by its own holder's release:   *)
(* no step of another caller removes it or replaces it by a lease with     *)
(* another id or address.                                                  *)
LiveEntryStays == [][KeepsLiveEntries]_vars
===============================================================================
