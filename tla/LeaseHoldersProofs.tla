--------------------------- MODULE LeaseHoldersProofs ---------------------------
(***************************************************************************)
(* The guarantees of the lease table for every pool, every set of          *)
(* identities, every lease duration and every size of the id counter.      *)
(***************************************************************************)
EXTENDS LeaseHolders, WellFoundedInduction, TLAPS

USE LeaseConstants, HolderConstants

(* Ids handed out are behind the counter, or the counter is exhausted.     *)
IssuedBehindCounter(t) ==
    \A i \in LeaseIds : held[i] # NoLease =>
        /\ held[i].lease_id = i
        /\ t.next_lease_id_ = 0 \/ i < t.next_lease_id_

(* Every entry of the table is the copy its holder has, and is unreleased. *)
EntriesAreHeld(t) ==
    \A x \in Identities : t.leases_by_identity_[x] # NoLease =>
        /\ held[t.leases_by_identity_[x].lease_id] = t.leases_by_identity_[x]
        /\ t.leases_by_identity_[x].lease_id \notin released

(* HolderProtected for a table that may be in the middle of a method.      *)
Protected(t) ==
    \A i \in LeaseIds :
        (held[i] # NoLease /\ i \notin released /\ held[i].expires_at > clock)
        => t.leases_by_identity_[held[i].identity] = held[i]

Sound(t) ==
    /\ t \in Table
    /\ InverseMaps(t)
    /\ IssuedBehindCounter(t)
    /\ EntriesAreHeld(t)
    /\ Protected(t)

(* The inductive invariant.  HolderProtected alone is not inductive: a     *)
(* release could remove somebody else's entry unless ids are issued once   *)
(* (IssuedBehindCounter) and entries agree with their holders' copies.     *)
IInv ==
    /\ TypeOK
    /\ Sound(table)
    /\ \A i \in released : held[i] # NoLease
-------------------------------------------------------------------------------
(* A lease is never the absent lease: ids of issued leases are not zero.   *)
LEMMA LeaseIsPresent ==
    ASSUME NEW l \in Lease
    PROVE  /\ l # NoLease
           /\ l.lease_id \in LeaseIds /\ l.identity \in Identities
           /\ l.address \in Pool /\ l.expires_at \in Nat
BY DEF Lease, NoLease, LeaseIds

(* What removing a set of leases leaves, field by field.                   *)
LEMMA WithoutFields ==
    ASSUME NEW t \in Table, NEW gone \in SUBSET Identities
    PROVE  /\ Without(t, gone) \in Table
           /\ Without(t, gone).next_lease_id_ = t.next_lease_id_
           /\ \A x \in Identities : Without(t, gone).leases_by_identity_[x] =
                 IF x \in gone THEN NoLease ELSE t.leases_by_identity_[x]
           /\ \A a \in Pool : Without(t, gone).identity_by_address_[a] =
                 IF \E x \in gone : t.leases_by_identity_[x].address = a
                 THEN NoIdentity ELSE t.identity_by_address_[a]
BY DEF Without, Table

(* Removing leases that exist keeps the two maps inverse.                  *)
LEMMA WithoutInverse ==
    ASSUME NEW t \in Table, NEW gone \in SUBSET Identities, InverseMaps(t),
           \A x \in gone : t.leases_by_identity_[x] # NoLease
    PROVE  InverseMaps(Without(t, gone))
<1> DEFINE w == Without(t, gone)
<1>1. /\ w \in Table
      /\ \A x \in Identities : w.leases_by_identity_[x] =
            IF x \in gone THEN NoLease ELSE t.leases_by_identity_[x]
      /\ \A a \in Pool : w.identity_by_address_[a] =
            IF \E x \in gone : t.leases_by_identity_[x].address = a
            THEN NoIdentity ELSE t.identity_by_address_[a]
  BY WithoutFields
<1> HIDE DEF w
<1>2. ASSUME NEW x \in Identities, w.leases_by_identity_[x] # NoLease
      PROVE  /\ w.leases_by_identity_[x].identity = x
             /\ w.identity_by_address_[w.leases_by_identity_[x].address] = x
  <2>1. x \notin gone /\ w.leases_by_identity_[x] = t.leases_by_identity_[x]
    BY <1>1, <1>2
  <2>2. t.leases_by_identity_[x] \in Lease
    BY <1>2, <2>1 DEF Table
  <2>3. t.leases_by_identity_[x].address \in Pool
    BY <2>2, LeaseIsPresent
  <2>4. \A y \in gone : t.leases_by_identity_[y].address # t.leases_by_identity_[x].address
    BY <1>2, <2>1 DEF InverseMaps
  <2> QED
    BY <1>1, <1>2, <2>1, <2>3, <2>4 DEF InverseMaps
<1>3. ASSUME NEW a \in Pool, w.identity_by_address_[a] # NoIdentity
      PROVE  /\ w.leases_by_identity_[w.identity_by_address_[a]] # NoLease
             /\ w.leases_by_identity_[w.identity_by_address_[a]].address = a
  <2>1. w.identity_by_address_[a] = t.identity_by_address_[a]
        /\ t.identity_by_address_[a] \in Identities
    BY <1>1, <1>3 DEF Table
  <2>2. t.identity_by_address_[a] \notin gone
    BY <1>1, <1>3, <2>1 DEF InverseMaps
  <2> QED
    BY <1>1, <1>3, <2>1, <2>2 DEF InverseMaps
<1> QED
  BY <1>2, <1>3 DEF InverseMaps, w

(* The reaper keeps a sound table sound when the time it works with is not *)
(* ahead of the clock, however old it is.                                  *)
LEMMA ReapSound ==
    ASSUME TypeOK, Sound(table), NEW now \in Samples
    PROVE  /\ Sound(reap_expired_locked(table, now))
           /\ \A x \in Identities : Entry(x) # NoLease /\ Entry(x).expires_at > clock
                 => reap_expired_locked(table, now).leases_by_identity_[x] = Entry(x)
<1> DEFINE gone == {x \in Identities : /\ table.leases_by_identity_[x] # NoLease
                                       /\ table.leases_by_identity_[x].expires_at <= now}
           r == reap_expired_locked(table, now)
<1>1. r = Without(table, gone) /\ table \in Table /\ now \in Nat /\ now <= clock /\ clock \in Nat
  BY DEF reap_expired_locked, TypeOK, Samples
<1>2. /\ r \in Table
      /\ r.next_lease_id_ = table.next_lease_id_
      /\ \A x \in Identities : r.leases_by_identity_[x] =
            IF x \in gone THEN NoLease ELSE table.leases_by_identity_[x]
  <2> gone \in SUBSET Identities OBVIOUS
  <2> HIDE DEF gone
  <2> QED BY <1>1, WithoutFields
<1>3. InverseMaps(r)
  <2>1. gone \in SUBSET Identities /\ \A x \in gone : table.leases_by_identity_[x] # NoLease
    OBVIOUS
  <2> HIDE DEF gone, r
  <2> QED BY <1>1, <2>1, WithoutInverse DEF Sound
<1>4. \A x \in Identities : table.leases_by_identity_[x] \in Lease \cup {NoLease}
  BY <1>1 DEF Table
<1>5. ASSUME NEW x \in Identities, Entry(x) # NoLease, Entry(x).expires_at > clock
      PROVE  r.leases_by_identity_[x] = Entry(x)
  <2>1. Entry(x).expires_at \in Nat
    BY <1>4, <1>5, LeaseIsPresent DEF Entry
  <2>2. x \notin gone
    BY <1>1, <1>5, <2>1 DEF Entry
  <2> HIDE DEF gone, r
  <2> QED BY <1>2, <2>2 DEF Entry
<1>6. IssuedBehindCounter(r)
  BY <1>2 DEF Sound, IssuedBehindCounter
<1>7. EntriesAreHeld(r)
  <2> HIDE DEF gone, r
  <2> QED BY <1>2 DEF Sound, EntriesAreHeld
<1>8. Protected(r)
  <2> SUFFICES ASSUME NEW i \in LeaseIds, held[i] # NoLease, i \notin released,
                      held[i].expires_at > clock
               PROVE  r.leases_by_identity_[held[i].identity] = held[i]
    BY DEF Protected
  <2>1. held[i] \in Lease
    BY DEF TypeOK
  <2>2. held[i].identity \in Identities /\ Entry(held[i].identity) = held[i]
    BY <2>1, LeaseIsPresent DEF Sound, Protected, Entry
  <2> HIDE DEF r
  <2> QED BY <1>5, <2>2
<1> HIDE DEF r
<1> QED BY <1>2, <1>3, <1>5, <1>6, <1>7, <1>8 DEF Sound, r

(* The candidate acquire tries is a free address of the pool.              *)
LEMMA LowestIsFree ==
    ASSUME NEW t \in Table, Free(t) # {}
    PROVE  Lowest(Free(t)) \in Pool /\ t.identity_by_address_[Lowest(Free(t))] = NoIdentity
<1>1. Free(t) \in SUBSET Nat
  BY DEF Free, Pool
<1>2. \E a \in Free(t) : \A b \in Free(t) : a <= b
  <2> DEFINE less == OpToRel(<, Nat)
  <2>1. \E a \in Free(t) : \A b \in Free(t) : <<b, a>> \notin less
    <3> HIDE DEF less
    <3>1. IsWellFoundedOn(less, Nat)
      BY NatLessThanWellFounded DEF less
    <3> QED BY <1>1, <3>1, WFMin
  <2>2. \A a, b \in Nat : <<b, a>> \notin less => a <= b
    BY DEF OpToRel
  <2> HIDE DEF less
  <2> QED BY <1>1, <2>1, <2>2
<1>3. Lowest(Free(t)) \in Free(t)
  BY <1>2 DEF Lowest
<1> QED BY <1>3 DEF Free

(* acquire with the counter modelled as in the code: the id issued is in   *)
(* range and the counter moves past it or to zero.                         *)
LEMMA CounterStep ==
    ASSUME NEW n \in 0..(IdModulus - 1), n # 0
    PROVE  /\ n \in LeaseIds
           /\ (n + 1) % IdModulus \in 0..(IdModulus - 1)
           /\ (n + 1) % IdModulus = 0 \/ (n + 1) % IdModulus = n + 1
<1>1. CASE n + 1 = IdModulus
  BY <1>1 DEF LeaseIds
<1>2. CASE n + 1 < IdModulus
  BY <1>2 DEF LeaseIds
<1> QED BY <1>1, <1>2
(* Issuing a fresh lease on a free address, field by field.                *)
LEMMA IssueFields ==
    ASSUME NEW t \in Table, NEW l \in Lease, t.next_lease_id_ = l.lease_id
    PROVE  /\ Issue(t, l) \in Table
           /\ Issue(t, l).next_lease_id_ = 0 \/ Issue(t, l).next_lease_id_ = l.lease_id + 1
           /\ \A x \in Identities : Issue(t, l).leases_by_identity_[x] =
                 IF x = l.identity THEN l ELSE t.leases_by_identity_[x]
           /\ \A a \in Pool : Issue(t, l).identity_by_address_[a] =
                 IF a = l.address THEN l.identity ELSE t.identity_by_address_[a]
<1>1. l.lease_id \in LeaseIds /\ l.lease_id # 0 /\ l.identity \in Identities /\ l.address \in Pool
  BY LeaseIsPresent DEF LeaseIds
<1>2. /\ (l.lease_id + 1) % IdModulus \in 0..(IdModulus - 1)
      /\ (l.lease_id + 1) % IdModulus = 0 \/ (l.lease_id + 1) % IdModulus = l.lease_id + 1
  BY <1>1, CounterStep DEF LeaseIds
<1> QED BY <1>1, <1>2 DEF Issue, Table

(* Everything acquire can do to a sound table.                             *)
LEMMA AcquireStep ==
    ASSUME IInv, NEW identity \in Identities, NEW now \in Samples, Acquire(identity, now)
    PROVE  IInv' /\ KeepsGenerations /\ KeepsLiveEntries
<1> DEFINE t == reap_expired_locked(table, now)
           a == Lowest(Free(t))
           l == [lease_id |-> t.next_lease_id_, identity |-> identity,
                 address |-> a, expires_at |-> now + LeaseDuration]
<1>1. /\ Sound(t)
      /\ \A x \in Identities : Entry(x) # NoLease /\ Entry(x).expires_at > clock
            => t.leases_by_identity_[x] = Entry(x)
  BY ReapSound DEF IInv
<1>2. clock' = clock /\ released' = released
  BY DEF Acquire
<1>3. CASE /\ table' = t /\ held' = held
  <2> HIDE DEF t
  <2>1. IInv'
    BY <1>1, <1>2, <1>3 DEF IInv, TypeOK, Sound, InverseMaps, IssuedBehindCounter,
                            EntriesAreHeld, Protected
  <2> QED BY <1>1, <1>3, <2>1 DEF KeepsGenerations, KeepsLiveEntries, Entry
<1>4. CASE /\ t.leases_by_identity_[identity] = NoLease
           /\ Free(t) # {}
           /\ t.next_lease_id_ # 0
           /\ table' = Issue(t, l)
           /\ held' = [held EXCEPT ![l.lease_id] = l]
  <2>1. t \in Table /\ t.next_lease_id_ \in LeaseIds
    BY <1>1, <1>4, CounterStep DEF Sound, Table
  <2>2. a \in Pool /\ t.identity_by_address_[a] = NoIdentity
    BY <1>4, <2>1, LowestIsFree
  <2> HIDE DEF t, a
  <2>3. l \in Lease
    BY <2>1, <2>2 DEF Lease, Samples, IInv, TypeOK
  <2>4. l # NoLease /\ l.lease_id = t.next_lease_id_ /\ l.identity = identity /\ l.address = a
    BY <2>3, LeaseIsPresent
  <2>5. held[l.lease_id] = NoLease
    BY <1>1, <1>4, <2>1, <2>4 DEF Sound, IssuedBehindCounter, LeaseIds
  <2>6. l.lease_id \in LeaseIds /\ l.lease_id \notin released
    BY <2>1, <2>4, <2>5 DEF IInv
  <2> HIDE DEF l
  <2>7. /\ table' \in Table
        /\ table'.next_lease_id_ = 0 \/ table'.next_lease_id_ = l.lease_id + 1
        /\ \A x \in Identities : table'.leases_by_identity_[x] =
              IF x = identity THEN l ELSE t.leases_by_identity_[x]
        /\ \A b \in Pool : table'.identity_by_address_[b] =
              IF b = a THEN identity ELSE t.identity_by_address_[b]
    BY <1>4, <2>1, <2>3, <2>4, IssueFields
  <2>8. \A i \in LeaseIds : held'[i] = IF i = l.lease_id THEN l ELSE held[i]
    BY <1>4, <2>6 DEF IInv, TypeOK
  <2>9. TypeOK'
    BY <1>2, <1>4, <2>3, <2>6, <2>7 DEF IInv, TypeOK
  <2>10. InverseMaps(table')
    <3>1. InverseMaps(t)
      BY <1>1 DEF Sound
    <3>2. \A x \in Identities : t.leases_by_identity_[x] # NoLease =>
              t.leases_by_identity_[x].address \in Pool /\ t.leases_by_identity_[x].address # a
      BY <2>1, <2>2, <3>1, LeaseIsPresent DEF InverseMaps, Table
    <3>3. \A b \in Pool : t.identity_by_address_[b] # NoIdentity =>
              t.identity_by_address_[b] \in Identities /\ t.identity_by_address_[b] # identity
      BY <1>4, <2>1, <3>1 DEF InverseMaps, Table
    <3> QED BY <2>2, <2>4, <2>7, <3>1, <3>2, <3>3 DEF InverseMaps
  <2>11. IssuedBehindCounter(table)'
    <3> SUFFICES ASSUME NEW i \in LeaseIds, held'[i] # NoLease
                 PROVE  /\ held'[i].lease_id = i
                        /\ table'.next_lease_id_ = 0 \/ i < table'.next_lease_id_
      BY DEF IssuedBehindCounter
    <3>1. CASE i = l.lease_id
      BY <2>7, <2>8, <3>1 DEF LeaseIds
    <3>2. CASE i # l.lease_id
      BY <1>1, <1>4, <2>4, <2>6, <2>7, <2>8, <3>2 DEF Sound, IssuedBehindCounter, LeaseIds
    <3> QED BY <3>1, <3>2
  <2>12. EntriesAreHeld(table)'
    <3> SUFFICES ASSUME NEW x \in Identities, table'.leases_by_identity_[x] # NoLease
                 PROVE  /\ held'[table'.leases_by_identity_[x].lease_id] = table'.leases_by_identity_[x]
                        /\ table'.leases_by_identity_[x].lease_id \notin released
      BY <1>2 DEF EntriesAreHeld
    <3>1. CASE x = identity
      BY <2>6, <2>7, <2>8, <3>1
    <3>2. CASE x # identity
      <4>1. table'.leases_by_identity_[x] = t.leases_by_identity_[x]
        BY <2>7, <3>2
      <4>2. t.leases_by_identity_[x].lease_id \in LeaseIds
        BY <2>1, <4>1, LeaseIsPresent DEF Table
      <4>3. /\ held[t.leases_by_identity_[x].lease_id] = t.leases_by_identity_[x]
            /\ t.leases_by_identity_[x].lease_id \notin released
        BY <1>1, <4>1 DEF Sound, EntriesAreHeld
      <4> QED BY <2>5, <2>8, <4>1, <4>2, <4>3
    <3> QED BY <3>1, <3>2
  <2>13. Protected(table)'
    <3> SUFFICES ASSUME NEW i \in LeaseIds, held'[i] # NoLease, i \notin released,
                        held'[i].expires_at > clock
                 PROVE  table'.leases_by_identity_[held'[i].identity] = held'[i]
      BY <1>2 DEF Protected
    <3>1. CASE i = l.lease_id
      BY <2>4, <2>7, <2>8, <3>1
    <3>2. CASE i # l.lease_id
      <4>1. held'[i] = held[i] /\ held[i].identity \in Identities
        BY <2>8, <3>2, LeaseIsPresent DEF IInv, TypeOK
      <4>2. t.leases_by_identity_[held[i].identity] = held[i]
        BY <1>1, <4>1 DEF Sound, Protected
      <4> QED BY <1>4, <2>7, <4>1, <4>2
    <3> QED BY <3>1, <3>2
  <2>14. (\A i \in released : held[i] # NoLease)'
    BY <1>2, <2>4, <2>8 DEF IInv, TypeOK
  <2>15. KeepsGenerations
    BY <2>5, <2>8 DEF KeepsGenerations
  <2>16. KeepsLiveEntries
    BY <1>1, <1>4, <2>7 DEF KeepsLiveEntries, Entry
  <2> QED
    BY <2>7, <2>9, <2>10, <2>11, <2>12, <2>13, <2>14, <2>15, <2>16 DEF IInv, Sound, InverseMaps
<1>5. \/ table' = t /\ held' = held
      \/ /\ t.leases_by_identity_[identity] = NoLease
         /\ Free(t) # {}
         /\ t.next_lease_id_ # 0
         /\ table' = Issue(t, l)
         /\ held' = [held EXCEPT ![l.lease_id] = l]
  <2> DEFINE result == acquire(table, identity, now)
  <2>1. \/ result = [table |-> t, lease |-> NoLease]
        \/ /\ t.leases_by_identity_[identity] = NoLease
           /\ Free(t) # {}
           /\ t.next_lease_id_ # 0
           /\ result = [table |-> Issue(t, l), lease |-> l]
    BY DEF acquire
  <2>2. t.next_lease_id_ # 0 => l # NoLease
    BY DEF NoLease
  <2>3. /\ table' = result.table
        /\ held' = IF result.lease = NoLease THEN held
                   ELSE [held EXCEPT ![result.lease.lease_id] = result.lease]
    BY DEF Acquire
  <2>4. CASE result = [table |-> t, lease |-> NoLease]
    <3>1. result.table = t /\ result.lease = NoLease
      BY <2>4
    <3> QED BY <2>3, <3>1
  <2>5. CASE /\ t.leases_by_identity_[identity] = NoLease
             /\ Free(t) # {}
             /\ t.next_lease_id_ # 0
             /\ result = [table |-> Issue(t, l), lease |-> l]
    <3>1. result.table = Issue(t, l) /\ result.lease = l
      BY <2>5
    <3> QED BY <2>2, <2>3, <2>5, <3>1
  <2> QED BY <2>1, <2>4, <2>5
<1> QED BY <1>3, <1>4, <1>5
(* A holder whose lease is current is the one whose entry it is: ids are   *)
(* issued once, so the entry is the holder's own copy.                     *)
LEMMA CurrentIsOwn ==
    ASSUME TypeOK, NEW t, Sound(t), NEW i \in LeaseIds, held[i] # NoLease, Current(t, held[i])
    PROVE  /\ i \notin released
           /\ t.leases_by_identity_[held[i].identity] = held[i]
<1>1. held[i].lease_id = i
  BY DEF Sound, IssuedBehindCounter
<1>2. held[i].identity \in Identities
  BY LeaseIsPresent DEF TypeOK
<1> QED BY <1>1, <1>2 DEF Current, Sound, EntriesAreHeld

(* Everything renew can do to a sound table.                               *)
LEMMA RenewStep ==
    ASSUME IInv, NEW i \in LeaseIds, NEW now \in Samples, Renew(i, now)
    PROVE  IInv' /\ KeepsGenerations /\ KeepsLiveEntries
<1> DEFINE t == reap_expired_locked(table, now)
           who == held[i].identity
           l == [held[i] EXCEPT !.expires_at = now + LeaseDuration]
<1>1. /\ Sound(t)
      /\ \A x \in Identities : Entry(x) # NoLease /\ Entry(x).expires_at > clock
            => t.leases_by_identity_[x] = Entry(x)
  BY ReapSound DEF IInv
<1>2. clock' = clock /\ released' = released /\ held[i] # NoLease
  BY DEF Renew
<1>3. CASE table' = t /\ held' = held
  <2> HIDE DEF t
  <2>1. IInv'
    BY <1>1, <1>2, <1>3 DEF IInv, TypeOK, Sound, InverseMaps, IssuedBehindCounter,
                            EntriesAreHeld, Protected
  <2> QED BY <1>1, <1>3, <2>1 DEF KeepsGenerations, KeepsLiveEntries, Entry
<1>4. CASE /\ Current(t, held[i])
           /\ table' = [t EXCEPT !.leases_by_identity_[who] = l]
           /\ held' = [held EXCEPT ![i] = l]
  <2> HIDE DEF t
  <2>1. held[i] \in Lease /\ who \in Identities /\ held[i].lease_id = i
    BY <1>1, <1>2, LeaseIsPresent DEF IInv, TypeOK, Sound, IssuedBehindCounter
  <2>2. i \notin released /\ t.leases_by_identity_[who] = held[i]
    BY <1>1, <1>2, <1>4, CurrentIsOwn DEF IInv
  <2>3. /\ l \in Lease /\ l # NoLease
        /\ l.lease_id = i /\ l.identity = who /\ l.address = held[i].address
    BY <2>1, LeaseIsPresent DEF Lease, Samples, IInv, TypeOK
  <2> HIDE DEF l, who
  <2>4. /\ table' \in Table
        /\ table'.next_lease_id_ = t.next_lease_id_
        /\ table'.identity_by_address_ = t.identity_by_address_
        /\ \A x \in Identities : table'.leases_by_identity_[x] =
              IF x = who THEN l ELSE t.leases_by_identity_[x]
    BY <1>1, <1>4, <2>1, <2>3 DEF Sound, Table
  <2>5. \A j \in LeaseIds : held'[j] = IF j = i THEN l ELSE held[j]
    BY <1>4 DEF IInv, TypeOK
  <2>6. TypeOK'
    BY <1>2, <1>4, <2>3, <2>4 DEF IInv, TypeOK
  <2>7. InverseMaps(table')
    <3>1. InverseMaps(t) /\ t \in Table
      BY <1>1 DEF Sound
    <3>2. \A b \in Pool : t.identity_by_address_[b] # NoIdentity =>
              t.identity_by_address_[b] \in Identities
      BY <3>1 DEF Table
    <3> QED BY <1>2, <2>1, <2>2, <2>3, <2>4, <3>1, <3>2 DEF InverseMaps
  <2>8. IssuedBehindCounter(table)'
    BY <1>1, <1>2, <2>3, <2>4, <2>5 DEF Sound, IssuedBehindCounter
  <2>9. EntriesAreHeld(table)'
    <3> SUFFICES ASSUME NEW x \in Identities, table'.leases_by_identity_[x] # NoLease
                 PROVE  /\ held'[table'.leases_by_identity_[x].lease_id] = table'.leases_by_identity_[x]
                        /\ table'.leases_by_identity_[x].lease_id \notin released
      BY <1>2 DEF EntriesAreHeld
    <3>1. CASE x = who
      BY <2>2, <2>3, <2>4, <2>5, <3>1
    <3>2. CASE x # who
      <4>1. table'.leases_by_identity_[x] = t.leases_by_identity_[x]
        BY <2>4, <3>2
      <4>2. t.leases_by_identity_[x].lease_id \in LeaseIds
        BY <1>1, <4>1, LeaseIsPresent DEF Sound, Table
      <4>3. /\ held[t.leases_by_identity_[x].lease_id] = t.leases_by_identity_[x]
            /\ t.leases_by_identity_[x].lease_id \notin released
            /\ t.leases_by_identity_[x].identity = x
        BY <1>1, <4>1 DEF Sound, EntriesAreHeld, InverseMaps
      <4>4. t.leases_by_identity_[x].lease_id # i
        BY <3>2, <4>3 DEF who
      <4> QED BY <2>5, <4>1, <4>2, <4>3, <4>4
    <3> QED BY <3>1, <3>2
  <2>10. Protected(table)'
    <3> SUFFICES ASSUME NEW j \in LeaseIds, held'[j] # NoLease, j \notin released,
                        held'[j].expires_at > clock
                 PROVE  table'.leases_by_identity_[held'[j].identity] = held'[j]
      BY <1>2 DEF Protected
    <3>1. CASE j = i
      BY <2>1, <2>3, <2>4, <2>5, <3>1
    <3>2. CASE j # i
      <4>1. held'[j] = held[j] /\ held[j].identity \in Identities /\ held[j].lease_id = j
        BY <1>1, <2>5, <3>2, LeaseIsPresent DEF IInv, TypeOK, Sound, IssuedBehindCounter
      <4>2. t.leases_by_identity_[held[j].identity] = held[j]
        BY <1>1, <4>1 DEF Sound, Protected
      <4>3. held[j].identity # who
        BY <2>1, <2>2, <3>2, <4>1, <4>2
      <4> QED BY <2>4, <4>1, <4>2, <4>3
    <3> QED BY <3>1, <3>2
  <2>11. (\A j \in released : held[j] # NoLease)'
    BY <1>2, <2>3, <2>5 DEF IInv, TypeOK
  <2>12. KeepsGenerations
    BY <2>3, <2>5 DEF KeepsGenerations, who
  <2>13. KeepsLiveEntries
    BY <1>1, <2>1, <2>2, <2>3, <2>4 DEF KeepsLiveEntries, Entry
  <2> QED
    BY <2>4, <2>6, <2>7, <2>8, <2>9, <2>10, <2>11, <2>12, <2>13 DEF IInv, Sound, InverseMaps
<1>5. \/ table' = t /\ held' = held
      \/ /\ Current(t, held[i])
         /\ table' = [t EXCEPT !.leases_by_identity_[who] = l]
         /\ held' = [held EXCEPT ![i] = l]
  <2> DEFINE result == renew(table, held[i], now)
  <2>1. \/ result = [table |-> t, lease |-> NoLease]
        \/ /\ Current(t, held[i])
           /\ t.leases_by_identity_[who] = held[i]
           /\ result = [table |-> [t EXCEPT !.leases_by_identity_[who] = l], lease |-> l]
    <3>1. Current(t, held[i]) => t.leases_by_identity_[who] = held[i]
      <4> HIDE DEF t
      <4> QED BY <1>1, <1>2, CurrentIsOwn DEF IInv
    <3> QED BY <3>1 DEF renew
  <2>2. l # NoLease
    BY <1>2, LeaseIsPresent DEF IInv, TypeOK, Lease, NoLease, LeaseIds
  <2>3. /\ table' = result.table
        /\ held' = IF result.lease = NoLease THEN held ELSE [held EXCEPT ![i] = result.lease]
    BY DEF Renew
  <2> DEFINE tt == [t EXCEPT !.leases_by_identity_[who] = l]
  <2>4. CASE result = [table |-> t, lease |-> NoLease]
    <3>1. result.table = t /\ result.lease = NoLease
      BY <2>4
    <3> QED BY <2>3, <3>1
  <2>5. CASE Current(t, held[i]) /\ result = [table |-> tt, lease |-> l]
    <3>1. result.table = tt /\ result.lease = l
      <4> HIDE DEF tt, l
      <4> QED BY <2>5
    <3> QED BY <2>2, <2>3, <2>5, <3>1
  <2> QED BY <2>1, <2>4, <2>5
<1> QED BY <1>3, <1>4, <1>5
(* Everything release can do to a sound table, early, late or repeated.    *)
LEMMA ReleaseStep ==
    ASSUME IInv, NEW i \in LeaseIds, Release(i)
    PROVE  IInv' /\ KeepsGenerations /\ KeepsLiveEntries
<1> DEFINE who == held[i].identity
<1>1. /\ clock' = clock /\ held' = held /\ held[i] # NoLease
      /\ released' = released \cup {i}
      /\ table' = release(table, held[i])
  BY DEF Release
<1>2. TypeOK /\ Sound(table) /\ table \in Table
  BY DEF IInv, Sound
<1>3. held[i] \in Lease /\ who \in Identities /\ held[i].lease_id = i
  BY <1>1, <1>2, LeaseIsPresent DEF TypeOK, Sound, IssuedBehindCounter
<1>4. /\ table' \in Table
      /\ table'.next_lease_id_ = table.next_lease_id_
      /\ InverseMaps(table')
      /\ \A x \in Identities :
            \/ table'.leases_by_identity_[x] = Entry(x)
               /\ (Entry(x) # NoLease => Entry(x).lease_id # i)
            \/ table'.leases_by_identity_[x] = NoLease
               /\ (Entry(x) # NoLease => Entry(x).lease_id = i)
  <2>1. \A x \in Identities :
            Entry(x) # NoLease /\ Entry(x).lease_id = i => x = who /\ Current(table, held[i])
    BY <1>2, <1>3 DEF Sound, EntriesAreHeld, InverseMaps, Entry, Current
  <2>2. CASE Current(table, held[i])
    <3>1. table' = Without(table, {who}) /\ Entry(who) = held[i]
      BY <1>1, <1>2, <2>2, CurrentIsOwn DEF release, Entry
    <3>2. InverseMaps(table')
      BY <1>1, <1>2, <1>3, <3>1, WithoutInverse DEF Sound, Entry
    <3>3. /\ table' \in Table
          /\ table'.next_lease_id_ = table.next_lease_id_
          /\ \A x \in Identities : table'.leases_by_identity_[x] =
                IF x = who THEN NoLease ELSE Entry(x)
      <4> HIDE DEF who
      <4> QED BY <1>2, <1>3, <3>1, WithoutFields DEF Entry
    <3> QED BY <1>3, <2>1, <3>1, <3>2, <3>3
  <2>3. CASE ~Current(table, held[i])
    BY <1>1, <1>2, <2>1, <2>3 DEF release, Sound, Entry
  <2> QED BY <2>2, <2>3
<1>5. TypeOK'
  BY <1>1, <1>2, <1>4 DEF TypeOK
<1>6. IssuedBehindCounter(table)'
  BY <1>1, <1>2, <1>4 DEF Sound, IssuedBehindCounter
<1>7. EntriesAreHeld(table)'
  BY <1>1, <1>2, <1>4 DEF Sound, EntriesAreHeld, Entry
<1>8. Protected(table)'
  <2> SUFFICES ASSUME NEW j \in LeaseIds, held[j] # NoLease, j \notin released, j # i,
                      held[j].expires_at > clock
               PROVE  table'.leases_by_identity_[held[j].identity] = held[j]
    BY <1>1 DEF Protected
  <2>1. held[j].identity \in Identities /\ held[j].lease_id = j
    BY <1>2, LeaseIsPresent DEF TypeOK, Sound, IssuedBehindCounter
  <2>2. Entry(held[j].identity) = held[j]
    BY <1>2 DEF Sound, Protected, Entry
  <2> QED BY <1>4, <2>1, <2>2
<1>9. (\A j \in released : held[j] # NoLease)'
  BY <1>1 DEF IInv
<1>10. KeepsGenerations
  BY <1>1 DEF KeepsGenerations
<1>11. KeepsLiveEntries
  BY <1>1, <1>4 DEF KeepsLiveEntries, Entry
<1> QED
  BY <1>4, <1>5, <1>6, <1>7, <1>8, <1>9, <1>10, <1>11 DEF IInv, Sound, InverseMaps

(* The observers only reap.                                                *)
LEMMA ObserveStep ==
    ASSUME IInv, NEW now \in Samples, Observe(now)
    PROVE  IInv' /\ KeepsGenerations /\ KeepsLiveEntries
<1>1. /\ Sound(table')
      /\ \A x \in Identities : Entry(x) # NoLease /\ Entry(x).expires_at > clock
            => table'.leases_by_identity_[x] = Entry(x)
  BY ReapSound DEF IInv, Observe
<1>2. UNCHANGED <<clock, held, released>>
  BY DEF Observe
<1>3. IInv'
  BY <1>1, <1>2 DEF IInv, TypeOK, Sound, InverseMaps, IssuedBehindCounter, EntriesAreHeld, Protected
<1> QED BY <1>1, <1>2, <1>3 DEF KeepsGenerations, KeepsLiveEntries, Entry

(* Time only weakens what a holder is promised.                            *)
LEMMA TickStep ==
    ASSUME IInv, Tick
    PROVE  IInv' /\ KeepsGenerations /\ KeepsLiveEntries
<1>1. UNCHANGED <<table, held, released>> /\ clock' = clock + 1 /\ clock \in Nat
  BY DEF Tick, IInv, TypeOK
<1>2. \A i \in LeaseIds : held[i] # NoLease => held[i].expires_at \in Nat
  BY LeaseIsPresent DEF IInv, TypeOK
<1>3. Protected(table)'
  BY <1>1, <1>2 DEF IInv, Sound, Protected
<1>4. IInv'
  BY <1>1, <1>3 DEF IInv, TypeOK, Sound, InverseMaps, IssuedBehindCounter, EntriesAreHeld
<1> QED BY <1>1, <1>4 DEF KeepsGenerations, KeepsLiveEntries, Entry
-------------------------------------------------------------------------------
(* What the methods do to the entries, for those who follow them by id.    *)
LEMMA ReapEntries ==
    ASSUME IInv, NEW now, NEW x \in Identities
    PROVE  /\ reap_expired_locked(table, now) \in Table
           /\ reap_expired_locked(table, now).leases_by_identity_[x] \in {Entry(x), NoLease}
<1> DEFINE gone == {y \in Identities : /\ table.leases_by_identity_[y] # NoLease
                                       /\ table.leases_by_identity_[y].expires_at <= now}
<1>1. reap_expired_locked(table, now) = Without(table, gone) /\ table \in Table
  BY DEF reap_expired_locked, IInv, TypeOK
<1>2. gone \in SUBSET Identities
  OBVIOUS
<1> HIDE DEF gone
<1> QED BY <1>1, <1>2, WithoutFields DEF Entry

(* acquire adds an entry for the lease it returns, and nothing else.       *)
LEMMA AcquireEntries ==
    ASSUME IInv, NEW identity \in Identities, NEW now \in Samples, Acquire(identity, now)
    PROVE  /\ acquire(table, identity, now).lease \in Lease \cup {NoLease}
           /\ \A x \in Identities : table'.leases_by_identity_[x] \in
                 {Entry(x), NoLease, acquire(table, identity, now).lease}
<1> DEFINE t == reap_expired_locked(table, now)
           a == Lowest(Free(t))
           l == [lease_id |-> t.next_lease_id_, identity |-> identity,
                 address |-> a, expires_at |-> now + LeaseDuration]
           result == acquire(table, identity, now)
<1>1. \A x \in Identities : t \in Table /\ t.leases_by_identity_[x] \in {Entry(x), NoLease}
  BY ReapEntries
<1>2. table' = result.table
  BY DEF Acquire
<1>3. CASE result = [table |-> t, lease |-> NoLease]
  <2>1. result.table = t /\ result.lease = NoLease
    BY <1>3
  <2> HIDE DEF t, result
  <2> QED BY <1>1, <1>2, <2>1 DEF result
<1>4. CASE /\ Free(t) # {} /\ t.next_lease_id_ # 0
           /\ result = [table |-> Issue(t, l), lease |-> l]
  <2>1. result.table = Issue(t, l) /\ result.lease = l
    BY <1>4
  <2>2. t \in Table /\ t.next_lease_id_ \in LeaseIds
    BY <1>1, <1>4, CounterStep DEF Table
  <2>3. a \in Pool
    BY <1>4, <2>2, LowestIsFree
  <2> HIDE DEF t, a, result
  <2>4. l \in Lease
    BY <2>2, <2>3 DEF Lease, Samples, IInv, TypeOK
  <2>5. l.lease_id = t.next_lease_id_
    OBVIOUS
  <2> HIDE DEF l
  <2>6. \A x \in Identities : Issue(t, l).leases_by_identity_[x] \in {t.leases_by_identity_[x], l}
    BY <2>2, <2>4, <2>5, IssueFields
  <2> QED BY <1>1, <1>2, <2>1, <2>4, <2>6 DEF result
<1>5. \/ result = [table |-> t, lease |-> NoLease]
      \/ /\ Free(t) # {} /\ t.next_lease_id_ # 0
         /\ result = [table |-> Issue(t, l), lease |-> l]
  BY DEF acquire
<1> QED BY <1>3, <1>4, <1>5

(* renew keeps the ids of the entries it leaves.                           *)
LEMMA RenewEntries ==
    ASSUME IInv, NEW i \in LeaseIds, NEW now \in Samples, Renew(i, now)
    PROVE  \A x \in Identities : table'.leases_by_identity_[x] # NoLease =>
              /\ Entry(x) # NoLease
              /\ table'.leases_by_identity_[x].lease_id = Entry(x).lease_id
<1> DEFINE t == reap_expired_locked(table, now)
           who == held[i].identity
           l == [t.leases_by_identity_[who] EXCEPT !.expires_at = now + LeaseDuration]
           tt == [t EXCEPT !.leases_by_identity_[who] = l]
           result == renew(table, held[i], now)
<1>1. \A x \in Identities : t \in Table /\ t.leases_by_identity_[x] \in {Entry(x), NoLease}
  BY ReapEntries
<1>2. table' = result.table /\ who \in Identities
  BY LeaseIsPresent DEF Renew, IInv, TypeOK
<1>3. CASE result = [table |-> t, lease |-> NoLease]
  <2>1. result.table = t
    BY <1>3
  <2> HIDE DEF t, result
  <2> QED BY <1>1, <1>2, <2>1
<1>4. CASE t.leases_by_identity_[who] # NoLease /\ result = [table |-> tt, lease |-> l]
  <2>1. result.table = tt
    <3> HIDE DEF tt, l
    <3> QED BY <1>4
  <2> HIDE DEF t, result, who
  <2>2. t.leases_by_identity_[who] \in Lease
    BY <1>1, <1>2, <1>4 DEF Table
  <2>3. l.lease_id = t.leases_by_identity_[who].lease_id
    BY <2>2 DEF Lease
  <2>4. \A x \in Identities : tt.leases_by_identity_[x] = IF x = who THEN l ELSE t.leases_by_identity_[x]
    BY <1>1, <1>2 DEF Table
  <2> HIDE DEF l, tt
  <2> QED BY <1>1, <1>2, <1>4, <2>1, <2>3, <2>4
<1>5. \/ result = [table |-> t, lease |-> NoLease]
      \/ t.leases_by_identity_[who] # NoLease /\ result = [table |-> tt, lease |-> l]
  BY DEF renew, Current
<1> QED BY <1>3, <1>4, <1>5

(* release removes the entry of its lease, and nothing else.               *)
LEMMA ReleaseEntries ==
    ASSUME IInv, NEW i \in LeaseIds, Release(i)
    PROVE  \A x \in Identities : table'.leases_by_identity_[x] # NoLease =>
              table'.leases_by_identity_[x] = Entry(x) /\ Entry(x).lease_id # i
<1>1. IInv' /\ i \in released'
  BY ReleaseStep DEF Release
<1>2. \A x \in Identities : table'.leases_by_identity_[x] # NoLease =>
         table'.leases_by_identity_[x].lease_id # i
  BY <1>1 DEF IInv, Sound, EntriesAreHeld
<1>3. \A x \in Identities : table'.leases_by_identity_[x] \in {Entry(x), NoLease}
  <2>1. table \in Table /\ held[i].identity \in Identities
    BY LeaseIsPresent DEF Release, IInv, TypeOK
  <2> QED BY <2>1, WithoutFields DEF Release, release, Entry
<1> QED BY <1>2, <1>3
-------------------------------------------------------------------------------
(* Every step of every caller preserves the inductive invariant and obeys  *)
(* the two action properties.                                              *)
LEMMA NextStep ==
    ASSUME IInv, Next
    PROVE  IInv' /\ KeepsGenerations /\ KeepsLiveEntries
BY AcquireStep, RenewStep, ReleaseStep, ObserveStep, TickStep DEF Next

(* The empty table satisfies the invariant.                                *)
LEMMA InitSound ==
    ASSUME Init
    PROVE  IInv
<1>1. table \in Table /\ \A x \in Identities : table.leases_by_identity_[x] = NoLease
  BY DEF Init, EmptyTable, Table
<1>2. \A b \in Pool : table.identity_by_address_[b] = NoIdentity
  BY DEF Init, EmptyTable
<1>3. TypeOK
  BY <1>1 DEF Init, TypeOK
<1>4. \A i \in LeaseIds : held[i] = NoLease
  BY DEF Init
<1> QED
  BY <1>1, <1>2, <1>3, <1>4 DEF Init, IInv, Sound, InverseMaps, IssuedBehindCounter,
                                EntriesAreHeld, Protected

(* The inductive invariant holds in every reachable state.                 *)
THEOREM Inductive == Spec => []IInv
<1>1. Init => IInv
  BY InitSound
<1>2. IInv /\ [Next]_vars => IInv'
  <2>1. IInv /\ UNCHANGED vars => IInv'
    BY DEF vars, IInv, TypeOK, Sound, InverseMaps, IssuedBehindCounter, EntriesAreHeld, Protected
  <2> QED BY <2>1, NextStep
<1> QED BY <1>1, <1>2, PTL DEF Spec

(* The lease table is well-formed: lease ids stay in range and zero is     *)
(* never issued, also after the 64-bit counter has wrapped.                *)
THEOREM TypeCorrect == Spec => []TypeOK
BY Inductive, PTL DEF IInv

(* leases_by_identity_ and identity_by_address_ stay inverse, for every    *)
(* pool, lease duration and delay between reading the clock and locking.   *)
THEOREM MapsInverse == Spec => []MapsAreInverse
<1>1. IInv => MapsAreInverse
  BY DEF IInv, Sound, MapsAreInverse
<1> QED BY <1>1, Inductive, PTL

(* An unexpired, unreleased lease is in the table exactly as its holder's  *)
(* copy says, whatever the holders of older generations do.                *)
THEOREM HoldersAreProtected == Spec => []HolderProtected
<1>1. IInv => HolderProtected
  BY DEF IInv, Sound, Protected, HolderProtected, Entry
<1> QED BY <1>1, Inductive, PTL

(* A lease id names one identity and one address for ever.                 *)
THEOREM GenerationsAreFixed == Spec => GenerationFixed
<1>1. IInv /\ [Next]_vars => [KeepsGenerations]_vars
  BY NextStep
<1> QED BY <1>1, Inductive, PTL DEF Spec, GenerationFixed

(* An unexpired lease leaves the table only by its holder's own release.   *)
THEOREM LiveEntriesStay == Spec => LiveEntryStays
<1>1. IInv /\ [Next]_vars => [KeepsLiveEntries]_vars
  BY NextStep
<1> QED BY <1>1, Inductive, PTL DEF Spec, LiveEntryStays
===============================================================================
