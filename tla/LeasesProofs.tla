--------------------------- MODULE LeasesProofs ---------------------------
(***************************************************************************)
(* The lease manager: first the consistency of its own collections, then   *)
(* what it promises its clients.  It implements Ownership, it takes no     *)
(* resource from a lease before its deadline, and its idempotency history  *)
(* keeps the answers that live leases depend on.                           *)
(***************************************************************************)
EXTENDS Leases, SequenceLemmas, FiniteSetTheorems

---------------------------------------------------------------------------
(***************************************************************************)
(* The invariant of a manager value.                                       *)
(***************************************************************************)
Bounded(m) ==
    /\ m \in Managers
    /\ Cardinality(Live(m)) <= MaxLeases
    /\ Len(m.history) <= MaxHistory

IndexAgrees(m) ==
    \A r \in Resources, l \in LeaseIds :
        m.owners[r] = l <=> l \in Live(m) /\ r \in m.leases[l].resources

Exclusive(m) ==
    \A l1, l2 \in Live(m) : l1 # l2 =>
        \A r1 \in m.leases[l1].resources, r2 \in m.leases[l2].resources :
            ~ResourcesConflict(r1, r2)

Sound(m) == Bounded(m) /\ IndexAgrees(m) /\ Exclusive(m)

\* Live leases are counted: there are finitely many lease identities.
LEMMA LiveFinite ==
    ASSUME NEW m
    PROVE  IsFiniteSet(Live(m)) /\ Cardinality(Live(m)) \in Nat
BY LeaseConstants, FS_Subset, FS_CardinalityType DEF Live

\* remove_lease keeps the manager sound and makes room.
LEMMA RemoveLeasesSound ==
    ASSUME NEW m, Sound(m), NEW ls
    PROVE  /\ Sound(RemoveLeases(m, ls))
           /\ Live(RemoveLeases(m, ls)) = Live(m) \ ls
           /\ \A l \in Live(m) \ ls : RemoveLeases(m, ls).leases[l] = m.leases[l]
<1> DEFINE n == RemoveLeases(m, ls)
<1>1. m \in Managers
  BY DEF Sound, Bounded
<1>2. n.leases \in [LeaseIds -> Grants \union {NoLease}]
  BY <1>1 DEF RemoveLeases, Managers
<1>3. n.owners \in [Resources -> LeaseIds \union {NoLease}]
  BY <1>1 DEF RemoveLeases, Managers
<1>4. n.history \in Seq(Records) /\ Len(n.history) = Len(m.history)
  <2>1. m.history \in Seq(Records)
    BY <1>1 DEF Managers
  <2>2. \A i \in 1 .. Len(m.history) : m.history[i] \in Records
    BY <2>1
  <2>3. \A i \in 1 .. Len(m.history) : [m.history[i] EXCEPT !.pinned = NoLease] \in Records
    BY <2>2 DEF Records
  <2> QED
    BY <2>1, <2>2, <2>3 DEF RemoveLeases
<1>5. n \in Managers
  BY <1>2, <1>3, <1>4 DEF Managers, RemoveLeases
<1>6. Live(n) = Live(m) \ ls
  BY DEF Live, RemoveLeases
<1>7. \A l \in Live(m) \ ls : n.leases[l] = m.leases[l]
  BY DEF Live, RemoveLeases
<1>8. Bounded(n)
  <2>1. Cardinality(Live(n)) <= Cardinality(Live(m))
    BY <1>6, LiveFinite, FS_Subset
  <2> QED
    BY <1>4, <1>5, <2>1, LiveFinite, LeaseConstants DEF Sound, Bounded
<1>9. IndexAgrees(n)
  <2> SUFFICES ASSUME NEW r \in Resources, NEW l \in LeaseIds
               PROVE  n.owners[r] = l <=> l \in Live(n) /\ r \in n.leases[l].resources
    BY DEF IndexAgrees
  <2>1. \A k \in LeaseIds : m.owners[r] = k <=> k \in Live(m) /\ r \in m.leases[k].resources
    BY DEF Sound, IndexAgrees
  <2>2. CASE \E k \in ls \intersect Live(m) : r \in m.leases[k].resources
    <3>1. PICK k \in ls \intersect Live(m) : r \in m.leases[k].resources
      BY <2>2
    <3>2. m.owners[r] = k
      BY <2>1, <3>1 DEF Live
    <3>3. n.owners[r] = NoLease
      BY <2>2 DEF RemoveLeases
    <3>4. l \in Live(m) \ ls => r \notin m.leases[l].resources
      BY <2>1, <3>1, <3>2
    <3> QED
      BY <1>6, <1>7, <3>3, <3>4, LeaseConstants
  <2>3. CASE ~\E k \in ls \intersect Live(m) : r \in m.leases[k].resources
    <3>1. n.owners[r] = m.owners[r]
      BY <2>3 DEF RemoveLeases
    <3>2. CASE l \in ls
      BY <1>6, <2>1, <2>3, <3>1, <3>2
    <3>3. CASE l \notin ls
      BY <1>6, <1>7, <2>1, <3>1, <3>3
    <3> QED
      BY <3>2, <3>3
  <2> QED
    BY <2>2, <2>3
<1>10. Exclusive(n)
  BY <1>6, <1>7 DEF Sound, Exclusive
<1> QED
  BY <1>6, <1>7, <1>8, <1>9, <1>10 DEF Sound

\* A successful reservation evicts at most one answer and leaves a free slot.
LEMMA ReserveHistorySlotSound ==
    ASSUME NEW m, Sound(m), CanRemember(m)
    PROVE  /\ Sound(ReserveHistorySlot(m))
           /\ ReserveHistorySlot(m).leases = m.leases
           /\ ReserveHistorySlot(m).owners = m.owners
           /\ Len(ReserveHistorySlot(m).history) < MaxHistory
<1> DEFINE n == ReserveHistorySlot(m)
           h == m.history
           Unpinned == {i \in 1 .. Len(h) : h[i].pinned = NoLease}
<1>1. m \in Managers /\ h \in Seq(Records) /\ Len(h) \in Nat /\ Len(h) <= MaxHistory
  BY DEF Sound, Bounded, Managers
<1>2. n.leases = m.leases /\ n.owners = m.owners
  BY <1>1 DEF ReserveHistorySlot, Managers
<1>3. n.history \in Seq(Records) /\ Len(n.history) < MaxHistory
  <2>1. CASE Len(h) < MaxHistory
    BY <1>1, <2>1 DEF ReserveHistorySlot, Managers
  <2>2. CASE ~(Len(h) < MaxHistory)
    <3>1. Unpinned \in SUBSET Nat /\ Unpinned # {}
      BY <1>1, <2>2, LeaseConstants DEF CanRemember
    <3>2. Min(Unpinned) \in 1 .. Len(h)
      BY <3>1, MinIsMember
    <3>3. n.history = RemoveAt(h, Min(Unpinned))
      BY <1>1, <2>2, <3>1 DEF ReserveHistorySlot, Managers, RemoveFirstMatch, SelectInSeq
    <3> QED
      BY <1>1, <2>2, <3>2, <3>3, RemoveAtProperties, LeaseConstants
  <2> QED
    BY <2>1, <2>2
<1>4. n \in Managers
  BY <1>1, <1>2, <1>3 DEF ReserveHistorySlot, Managers
<1>5. Live(n) = Live(m)
  BY <1>2 DEF Live
<1>6. Bounded(n)
  BY <1>3, <1>4, <1>5, LeaseConstants DEF Sound, Bounded, Managers
<1>7. IndexAgrees(n) /\ Exclusive(n)
  BY <1>2, <1>5 DEF Sound, IndexAgrees, Exclusive
<1> QED
  BY <1>2, <1>3, <1>6, <1>7 DEF Sound

\* An answer put into a reserved slot touches nothing but the history.
LEMMA AppendSound ==
    ASSUME NEW m, Sound(m), Len(m.history) < MaxHistory, NEW rec \in Records
    PROVE  Sound([m EXCEPT !.history = Append(@, rec)])
<1> DEFINE n == [m EXCEPT !.history = Append(@, rec)]
<1>1. m \in Managers /\ m.history \in Seq(Records)
  BY DEF Sound, Bounded, Managers
<1>2. n.history = Append(m.history, rec) /\ n.leases = m.leases /\ n.owners = m.owners
  BY <1>1 DEF Managers
<1>3. n.history \in Seq(Records) /\ Len(n.history) = Len(m.history) + 1
  BY <1>1, <1>2
<1>4. n \in Managers
  BY <1>1, <1>2, <1>3 DEF Managers
<1>5. Live(n) = Live(m)
  BY <1>2 DEF Live
<1>6. Bounded(n)
  BY <1>1, <1>3, <1>4, <1>5, LeaseConstants DEF Sound, Bounded
<1> QED
  BY <1>2, <1>5, <1>6 DEF Sound, IndexAgrees, Exclusive

\* remember, with its reservation, keeps the manager sound and ownership as it is.
LEMMA RememberSound ==
    ASSUME NEW m, Sound(m), CanRemember(m),
           NEW op \in Operations, NEW result \in Grants \union Conflicts,
           NEW pinned \in LeaseIds \union {NoLease}
    PROVE  Sound(Remember(m, op, result, pinned))
<1>1. [request |-> op, result |-> result, pinned |-> pinned] \in Records
  BY DEF Records
<1> QED
  BY <1>1, ReserveHistorySlotSound, AppendSound DEF Remember

\* A deadline that does not overflow is an instant.
LEMMA DeadlineType ==
    ASSUME NEW now \in Instants, NEW duration \in Durations, now + duration <= MaxMonotonic
    PROVE  now + duration \in Instants
BY LeaseConstants DEF Instants

\* A grant takes a set of resources no live lease conflicts with, so the new
\* lease joins the others without disturbing them.
LEMMA GrantLeaseSound ==
    ASSUME NEW m, Sound(m), NEW op \in AcquireOps, NEW lease \in LeaseIds,
           NEW now \in Instants, AcquireGrants(m, op, lease, now)
    PROVE  Sound(GrantLease(m, op, lease, now))
<1> DEFINE grant == NewGrant(op, now)
           n == [m EXCEPT !.leases[lease] = grant,
                          !.owners = [r \in Resources |->
                             IF r \in op.resources THEN lease ELSE @[r]]]
<1>1. m \in Managers
  BY DEF Sound, Bounded
<1>2. grant \in Grants /\ grant # NoLease
  <2>1. op.client \in Clients /\ op.resources \in SUBSET Resources /\ op.duration \in Durations
    BY DEF AcquireOps
  <2>2. now + op.duration <= MaxMonotonic
    BY DEF AcquireGrants
  <2>3. now + op.duration \in Instants
    BY <2>1, <2>2, DeadlineType
  <2>4. grant \in Grants
    BY <2>1, <2>3 DEF NewGrant, Grants
  <2> QED
    BY <2>4, NoLeaseIsNoGrant
<1> HIDE DEF grant
<1>3. /\ n.leases = [m.leases EXCEPT ![lease] = grant]
      /\ n.owners = [r \in Resources |-> IF r \in op.resources THEN lease ELSE m.owners[r]]
      /\ n.history = m.history
  BY <1>1 DEF Managers
<1>4. n \in Managers
  BY <1>1, <1>2 DEF Managers
<1>5. /\ m.leases[lease] = NoLease
      /\ Cardinality(Live(m)) < MaxLeases
      /\ \A r \in op.resources, s \in Resources :
            m.owners[s] # NoLease => ~ResourcesConflict(r, s)
      /\ CanRemember(m)
  <2>1. \A r \in op.resources, s \in Resources : <<r, s>> \notin ConflictsOf(m, op)
    BY DEF AcquireGrants, AcquireReserves
  <2>2. \A r \in op.resources, s \in Resources :
            m.owners[s] # NoLease => ~ResourcesConflict(r, s)
    BY <2>1 DEF ConflictsOf
  <2> QED
    BY <2>2 DEF AcquireGrants, AcquireReserves, HasCapacityFor
<1>6. /\ n.leases[lease] = grant
      /\ \A l \in LeaseIds \ {lease} : n.leases[l] = m.leases[l]
  BY <1>1, <1>3 DEF Managers
<1>7. Live(n) = Live(m) \union {lease} /\ lease \notin Live(m)
  BY <1>2, <1>5, <1>6 DEF Live
<1>8. Bounded(n)
  <2>1. Cardinality(Live(n)) = Cardinality(Live(m)) + 1
    BY <1>7, LiveFinite, FS_AddElement
  <2> QED
    BY <1>3, <1>4, <1>5, <2>1, LiveFinite, LeaseConstants DEF Sound, Bounded
<1>9. grant.resources = op.resources
  BY DEF grant, NewGrant
<1>10. \A l \in Live(m) : \A s \in m.leases[l].resources :
         s \in Resources /\ m.owners[s] # NoLease
  <2> SUFFICES ASSUME NEW l \in Live(m), NEW s \in m.leases[l].resources
               PROVE  s \in Resources /\ m.owners[s] # NoLease
    OBVIOUS
  <2>1. l \in LeaseIds /\ m.leases[l] \in Grants
    BY <1>1 DEF Live, Managers
  <2>2. s \in Resources
    BY <2>1 DEF Grants
  <2>3. m.owners[s] = l
    BY <2>1, <2>2 DEF Sound, IndexAgrees
  <2> QED
    BY <2>1, <2>2, <2>3, LeaseConstants
<1>11. \A r \in op.resources : ResourcesConflict(r, r)
  BY DEF ResourcesConflict
<1>12. \A l \in Live(m) : \A r \in op.resources, s \in m.leases[l].resources :
         ~ResourcesConflict(r, s) /\ ~ResourcesConflict(s, r)
  BY <1>5, <1>10 DEF ResourcesConflict
<1>13. IndexAgrees(n)
  <2> SUFFICES ASSUME NEW r \in Resources, NEW l \in LeaseIds
               PROVE  n.owners[r] = l <=> l \in Live(n) /\ r \in n.leases[l].resources
    BY DEF IndexAgrees
  <2>1. m.owners[r] = l <=> l \in Live(m) /\ r \in m.leases[l].resources
    BY DEF Sound, IndexAgrees
  <2>2. m.owners[r] # lease
    BY <1>7 DEF Sound, IndexAgrees
  <2>3. CASE r \in op.resources
    <3>1. n.owners[r] = lease
      BY <1>3, <2>3
    <3>2. l # lease => ~(l \in Live(m) /\ r \in m.leases[l].resources)
      BY <1>11, <1>12, <2>3
    <3> QED
      BY <1>6, <1>7, <1>9, <2>3, <3>1, <3>2
  <2>4. CASE r \notin op.resources
    <3>1. n.owners[r] = m.owners[r]
      BY <1>3, <2>4
    <3> QED
      BY <1>6, <1>7, <1>9, <2>1, <2>2, <2>4, <3>1
  <2> QED
    BY <2>3, <2>4
<1>14. Exclusive(n)
  <2> SUFFICES ASSUME NEW l1 \in Live(n), NEW l2 \in Live(n), l1 # l2,
                      NEW r1 \in n.leases[l1].resources, NEW r2 \in n.leases[l2].resources
               PROVE  ~ResourcesConflict(r1, r2)
    BY DEF Exclusive
  <2>1. CASE l1 = lease
    BY <1>6, <1>7, <1>9, <1>12, <2>1 DEF Live
  <2>2. CASE l2 = lease
    BY <1>6, <1>7, <1>9, <1>12, <2>2 DEF Live
  <2>3. CASE l1 # lease /\ l2 # lease
    BY <1>6, <1>7, <2>3 DEF Live, Sound, Exclusive
  <2> QED
    BY <2>1, <2>2, <2>3
<1>15. Sound(n) /\ CanRemember(n)
  BY <1>3, <1>5, <1>8, <1>13, <1>14 DEF Sound, CanRemember
<1>16. op \in Operations
  BY DEF Operations
<1>17. GrantLease(m, op, lease, now) = Remember(n, op, grant, lease)
  BY DEF GrantLease, grant
<1> HIDE DEF n
<1> QED
  BY <1>2, <1>15, <1>16, <1>17, RememberSound

\* A renewal changes a deadline and nothing the invariant speaks of.
LEMMA RenewedSound ==
    ASSUME NEW m, Sound(m), NEW lease \in Live(m), NEW duration \in Durations,
           NEW now \in Instants, now + duration <= MaxMonotonic
    PROVE  /\ Sound(Renewed(m, lease, duration, now))
           /\ Renewed(m, lease, duration, now).history = m.history
           /\ Renewed(m, lease, duration, now).leases[lease] \in Grants
<1> DEFINE n == Renewed(m, lease, duration, now)
           g == [m.leases[lease] EXCEPT !.expires = now + duration, !.state = "renewed"]
<1>1. m \in Managers
  BY DEF Sound, Bounded
<1>2. lease \in LeaseIds /\ m.leases[lease] \in Grants
  BY <1>1 DEF Live, Managers
<1>3. now + duration \in Instants
  BY DeadlineType
<1>4. g \in Grants /\ g.resources = m.leases[lease].resources
  BY <1>2, <1>3 DEF Grants
<1>5. /\ n.leases = [m.leases EXCEPT ![lease] = g]
      /\ n.owners = m.owners
      /\ n.history = m.history
  BY <1>1, <1>2 DEF Renewed, Managers
<1>6. n \in Managers
  BY <1>1, <1>2, <1>4, <1>5 DEF Renewed, Managers
<1> HIDE DEF g
<1>7. n.leases[lease] = g /\ \A l \in LeaseIds \ {lease} : n.leases[l] = m.leases[l]
  BY <1>1, <1>2, <1>5 DEF Managers
<1>8. Live(n) = Live(m)
  BY <1>4, <1>7, NoLeaseIsNoGrant DEF Live
<1>9. \A l \in Live(m) : n.leases[l].resources = m.leases[l].resources
  BY <1>4, <1>7 DEF Live
<1> QED
  BY <1>4, <1>5, <1>6, <1>7, <1>8, <1>9 DEF Sound, Bounded, IndexAgrees, Exclusive

\* renew_request_decision's success: a renewal and its remembered answer.
LEMMA RenewLeaseSound ==
    ASSUME NEW m, Sound(m), NEW op \in RenewOps, NEW now \in Instants, RenewGrants(m, op, now)
    PROVE  Sound(RenewLease(m, op, now))
<1> DEFINE n == Renewed(m, op.lease, op.duration, now)
<1>1. op.lease \in Live(m) /\ op.duration \in Durations /\ op \in Operations
  BY DEF RenewGrants, IsOwner, RenewOps, Operations
<1>2. Sound(n) /\ n.history = m.history /\ n.leases[op.lease] \in Grants
  BY <1>1, RenewedSound DEF RenewGrants
<1>3. CanRemember(n)
  BY <1>2 DEF RenewGrants, CanRemember
<1>4. op.lease \in LeaseIds
  BY <1>1 DEF Live
<1>5. RenewLease(m, op, now) = Remember(n, op, n.leases[op.lease], op.lease)
  BY DEF RenewLease
<1> HIDE DEF n
<1> QED
  BY <1>1, <1>2, <1>3, <1>4, <1>5, RememberSound

\* release_request_decision's success: a slot, the removal, and the answer.
LEMMA ReleaseLeaseSound ==
    ASSUME NEW m, Sound(m), NEW op \in ReleaseOps, ReleaseGrants(m, op)
    PROVE  Sound(ReleaseLease(m, op))
<1> DEFINE room == ReserveHistorySlot(m)
           gone == RemoveLeases(room, {op.lease})
           rec == [request |-> op,
                   result |-> [m.leases[op.lease] EXCEPT !.state = "released"],
                   pinned |-> NoLease]
<1>1. Sound(room) /\ Len(room.history) < MaxHistory
  BY ReserveHistorySlotSound DEF ReleaseGrants
<1>2. Sound(gone)
  BY <1>1, RemoveLeasesSound
<1>3. Len(gone.history) = Len(room.history)
  BY <1>1 DEF RemoveLeases, Sound, Bounded, Managers
<1>4. rec \in Records
  <2>1. m.leases[op.lease] \in Grants
    BY DEF Sound, Bounded, Managers, ReleaseGrants, IsOwner, Live
  <2> QED
    BY <2>1 DEF Records, Operations, Grants
<1>5. ReleaseLease(m, op) = [gone EXCEPT !.history = Append(@, rec)]
  BY DEF ReleaseLease
<1> HIDE DEF gone, rec, room
<1> QED
  BY <1>1, <1>2, <1>3, <1>4, <1>5, AppendSound

\* A conflict answer names a live owner.
LEMMA ConflictResultType ==
    ASSUME NEW m, Sound(m), NEW op \in AcquireOps, NEW p \in ConflictsOf(m, op)
    PROVE  ConflictResult(m, p) \in Conflicts
<1>1. p[1] \in Resources /\ p[2] \in Resources /\ m.owners[p[2]] # NoLease
  BY DEF ConflictsOf, AcquireOps
<1>2. m.owners[p[2]] \in LeaseIds
  BY <1>1 DEF Sound, Bounded, Managers
<1>3. m.owners[p[2]] \in Live(m)
  BY <1>1, <1>2 DEF Sound, IndexAgrees
<1>4. m.leases[m.owners[p[2]]] \in Grants
  BY <1>2, <1>3 DEF Sound, Bounded, Managers, Live
<1> QED
  BY <1>1, <1>4 DEF ConflictResult, Conflicts, Grants

---------------------------------------------------------------------------
(***************************************************************************)
(* The system.                                                             *)
(***************************************************************************)
Inv == Sound(manager) /\ clock \in Instants

\* The empty manager is sound.
LEMMA InitSound == Init => Inv
<1> SUFFICES ASSUME Init PROVE Inv
  OBVIOUS
<1>1. manager = EmptyManager
  BY DEF Init, manager, EmptyManager
<1>2. Live(EmptyManager) = {}
  BY DEF Live, EmptyManager
<1>3. EmptyManager \in Managers /\ Len(EmptyManager.history) = 0
  BY DEF EmptyManager, Managers
<1>4. Bounded(EmptyManager)
  BY <1>2, <1>3, FS_EmptySet, LeaseConstants DEF Bounded
<1>5. IndexAgrees(EmptyManager) /\ Exclusive(EmptyManager)
  BY <1>2, LeaseConstants DEF IndexAgrees, Exclusive, EmptyManager
<1>6. clock \in Instants
  BY LeaseConstants DEF Init, Instants
<1> QED
  BY <1>1, <1>4, <1>5, <1>6 DEF Inv, Sound

\* An action that stores a sound manager establishes the invariant's first part.
LEMMA BecomesSound ==
    ASSUME NEW m, Sound(m), ManagerBecomes(m)
    PROVE  Sound(manager)'
<1>1. m \in Managers
  BY DEF Sound, Bounded
<1>2. manager' = m
  BY <1>1 DEF ManagerBecomes, manager, Managers
<1> QED
  BY <1>2 DEF Sound, Bounded, IndexAgrees, Exclusive, Live

\* Every operation of the lease manager preserves the invariant.
LEMMA NextSound == Inv /\ [Next]_vars => Inv'
<1> SUFFICES ASSUME Inv, [Next]_vars PROVE Inv'
  OBVIOUS
<1> DEFINE m == Current
<1>1. Sound(m)
  BY RemoveLeasesSound DEF Inv, Current, Expire
<1>2. clock \in Instants
  BY DEF Inv
<1>3. CASE Advance
  <2>1. manager' = manager
    BY <1>3 DEF Advance, manager
  <2>2. Sound(manager)'
    BY <2>1 DEF Inv, Sound, Bounded, IndexAgrees, Exclusive, Live
  <2>3. clock' \in Instants
    BY <1>2, <1>3, LeaseConstants DEF Advance, Instants
  <2> QED
    BY <2>2, <2>3 DEF Inv
<1>4. CASE Requests(m)
  <2> HIDE DEF m
  <2>1. ASSUME NEW op \in AcquireOps, AcquireConflict(m, op) PROVE Inv'
    <3>1. PICK p \in ConflictsOf(m, op) :
            ManagerBecomes(Remember(m, op, ConflictResult(m, p), NoLease))
      BY <2>1 DEF AcquireConflict
    <3>2. Sound(Remember(m, op, ConflictResult(m, p), NoLease))
      BY <1>1, <2>1, ConflictResultType, RememberSound
         DEF AcquireConflict, AcquireConflicts, Operations
    <3>3. Sound(manager)'
      BY <3>1, <3>2, BecomesSound
    <3> QED
      BY <1>2, <2>1, <3>3 DEF Inv, AcquireConflict
  <2>2. ASSUME NEW op \in AcquireOps, NEW lease \in LeaseIds, AcquireGranted(m, op, lease)
        PROVE  Inv'
    <3>1. Sound(manager)'
      BY <1>1, <1>2, <2>2, GrantLeaseSound, BecomesSound DEF AcquireGranted
    <3> QED
      BY <1>2, <2>2, <3>1 DEF Inv, AcquireGranted
  <2>3. ASSUME NEW op \in AcquireOps, NEW lease \in LeaseIds, AcquireOverflow(m, op, lease)
        PROVE  Inv'
    <3>1. Sound(manager)'
      BY <1>1, <2>3, ReserveHistorySlotSound, BecomesSound
         DEF AcquireOverflow, AcquireOverflows, AcquireReserves
    <3> QED
      BY <1>2, <2>3, <3>1 DEF Inv, AcquireOverflow
  <2>4. ASSUME ManagerBecomes(m), UNCHANGED clock PROVE Inv'
    BY <1>1, <1>2, <2>4, BecomesSound DEF Inv
  <2>5. ASSUME NEW op \in RenewOps, RenewGranted(m, op) PROVE Inv'
    <3>1. Sound(manager)'
      BY <1>1, <1>2, <2>5, RenewLeaseSound, BecomesSound DEF RenewGranted
    <3> QED
      BY <1>2, <2>5, <3>1 DEF Inv, RenewGranted
  <2>6. ASSUME NEW op \in ReleaseOps, ReleaseGranted(m, op) PROVE Inv'
    <3>1. Sound(manager)'
      BY <1>1, <2>6, ReleaseLeaseSound, BecomesSound DEF ReleaseGranted
    <3> QED
      BY <1>2, <2>6, <3>1 DEF Inv, ReleaseGranted
  <2>7. ASSUME NEW client \in Clients, NEW lease \in LeaseIds, NEW duration \in Durations,
               Renew(m, client, lease, duration)
        PROVE  Inv'
    <3>1. lease \in Live(m)
      BY <2>7 DEF Renew, IsOwner
    <3>2. Sound(manager)'
      BY <1>1, <1>2, <2>7, <3>1, RenewedSound, BecomesSound DEF Renew
    <3> QED
      BY <1>2, <2>7, <3>2 DEF Inv, Renew
  <2>8. ASSUME NEW client \in Clients, NEW lease \in LeaseIds, Release(m, client, lease)
        PROVE  Inv'
    <3>1. Sound(manager)'
      BY <1>1, <2>8, RemoveLeasesSound, BecomesSound DEF Release
    <3> QED
      BY <1>2, <2>8, <3>1 DEF Inv, Release
  <2> QED
    BY <1>4, <2>1, <2>2, <2>3, <2>4, <2>5, <2>6, <2>7, <2>8
       DEF Requests, Acquire, RenewRequest, ReleaseRequest,
           AcquireAnsweredOrRefused, RenewAnsweredOrRefused, ReleaseAnsweredOrRefused
<1>5. ASSUME NEW client \in Clients, ReleaseClient(client) PROVE Inv'
  <2>1. Sound(manager)'
    BY <1>5, RemoveLeasesSound, BecomesSound DEF ReleaseClient, Inv
  <2> QED
    BY <1>2, <1>5, <2>1 DEF Inv, ReleaseClient
<1>6. ASSUME NEW scope \in Scopes, InvalidateGeneration(scope) PROVE Inv'
  <2>1. Sound(manager)'
    BY <1>6, RemoveLeasesSound, BecomesSound DEF InvalidateGeneration, Inv
  <2> QED
    BY <1>2, <1>6, <2>1 DEF Inv, InvalidateGeneration
<1>7. CASE ExpireLeases
  BY <1>1, <1>2, <1>7, BecomesSound DEF Inv, ExpireLeases
<1>8. CASE UNCHANGED vars
  BY <1>8 DEF Inv, Sound, Bounded, IndexAgrees, Exclusive, Live, manager, vars
<1> QED
  BY <1>3, <1>4, <1>5, <1>6, <1>7, <1>8 DEF Next

\* Grants, ownership index and deadlines stay consistent in every state of the system
\* (impl LeaseManager).
THEOREM Soundness == Spec => []Inv
<1> QED
  BY InitSound, NextSound, PTL DEF Spec

\* The type invariant: the collections keep their types and their bounds,
\* max_leases and max_history, whatever sequence of calls is made.
THEOREM TypeCorrect == Spec => []TypeOK
<1>1. Inv => TypeOK
  BY DEF Inv, Sound, Bounded, Managers, manager, TypeOK
<1> QED
  BY <1>1, Soundness, PTL

\* At no time do two live leases hold conflicting resources
\* (LeaseManager::acquire_decision, resources_conflict).
THEOREM MutualExclusionHolds == Spec => []MutualExclusion
<1>1. Inv => MutualExclusion
  BY DEF Inv, Sound, Exclusive, manager, MutualExclusion
<1> QED
  BY <1>1, Soundness, PTL

\* The index conflict detection reads and the grants authorisation reads agree.
THEOREM IndexMatchesGrantsHolds == Spec => []IndexMatchesGrants
<1>1. Inv => IndexMatchesGrants
  BY DEF Inv, Sound, IndexAgrees, manager, IndexMatchesGrants
<1> QED
  BY <1>1, Soundness, PTL

---------------------------------------------------------------------------
(***************************************************************************)
(* Ownership, as a function of a manager value.  This is the refinement    *)
(* mapping of Leases!Abstract.                                             *)
(***************************************************************************)
Holding(m) ==
    [l \in LeaseIds |->
        IF m.leases[l] = NoLease THEN NoLease
        ELSE [client |-> m.leases[l].client, resources |-> m.leases[l].resources]]

Dropping(h, ended) == [l \in LeaseIds |-> IF l \in ended THEN NoLease ELSE h[l]]

\* remove_lease ends the leases it is given and nothing else.
LEMMA RemoveLeasesHolding ==
    ASSUME NEW m, NEW ls
    PROVE  Holding(RemoveLeases(m, ls)) = Dropping(Holding(m), ls)
BY DEF Holding, Dropping, RemoveLeases

\* The history has no say in ownership.
LEMMA SameLeasesSameHolding ==
    ASSUME NEW m, NEW n, n.leases = m.leases
    PROVE  Holding(n) = Holding(m)
BY DEF Holding

\* Making room for an answer and remembering it leave ownership alone.
LEMMA RememberHolding ==
    ASSUME NEW m, Sound(m), CanRemember(m), NEW op, NEW result, NEW pinned
    PROVE  /\ Remember(m, op, result, pinned).leases = m.leases
           /\ Holding(Remember(m, op, result, pinned)) = Holding(m)
<1> DEFINE room == ReserveHistorySlot(m)
<1>1. Sound(room) /\ room.leases = m.leases
  BY ReserveHistorySlotSound
<1>2. room \in Managers
  BY <1>1 DEF Sound, Bounded
<1>3. Remember(m, op, result, pinned).leases = room.leases
  BY <1>2 DEF Remember, Managers
<1> QED
  BY <1>1, <1>3, SameLeasesSameHolding

\* A renewal moves a deadline: client and resources of every lease stay.
LEMMA RenewedHolding ==
    ASSUME NEW m, Sound(m), NEW lease \in Live(m), NEW duration \in Durations,
           NEW now \in Instants, now + duration <= MaxMonotonic
    PROVE  /\ Holding(Renewed(m, lease, duration, now)) = Holding(m)
           /\ Live(Renewed(m, lease, duration, now)) = Live(m)
<1> DEFINE n == Renewed(m, lease, duration, now)
           g == [m.leases[lease] EXCEPT !.expires = now + duration, !.state = "renewed"]
<1>1. m \in Managers
  BY DEF Sound, Bounded
<1>2. lease \in LeaseIds /\ m.leases[lease] \in Grants /\ m.leases[lease] # NoLease
  BY <1>1 DEF Live, Managers
<1>3. n.leases = [m.leases EXCEPT ![lease] = g]
  BY <1>1, <1>2 DEF Renewed, Managers
<1>4. g \in Grants /\ g.client = m.leases[lease].client
                   /\ g.resources = m.leases[lease].resources
  BY <1>2, DeadlineType DEF Grants
<1>5. g # NoLease
  BY <1>4, NoLeaseIsNoGrant
<1> HIDE DEF g
<1>6. n.leases[lease] = g /\ \A l \in LeaseIds \ {lease} : n.leases[l] = m.leases[l]
  BY <1>1, <1>2, <1>3 DEF Managers
<1> HIDE DEF n
<1> QED
  BY <1>2, <1>4, <1>5, <1>6 DEF Holding, Live, n

\* A grant adds exactly the lease it names, with all the resources asked for.
LEMMA GrantHolding ==
    ASSUME NEW m, Sound(m), NEW op \in AcquireOps, NEW lease \in LeaseIds,
           NEW now \in Instants, AcquireGrants(m, op, lease, now)
    PROVE  Holding(GrantLease(m, op, lease, now))
             = [Holding(m) EXCEPT
                  ![lease] = [client |-> op.client, resources |-> op.resources]]
<1> DEFINE grant == NewGrant(op, now)
           n == [m EXCEPT !.leases[lease] = grant,
                          !.owners = [r \in Resources |->
                             IF r \in op.resources THEN lease ELSE @[r]]]
<1>1. m \in Managers
  BY DEF Sound, Bounded
<1>2. grant # NoLease /\ grant.client = op.client /\ grant.resources = op.resources
  <2>1. op.client \in Clients /\ op.resources \in SUBSET Resources /\ op.duration \in Durations
    BY DEF AcquireOps
  <2>2. now + op.duration \in Instants
    BY <2>1, DeadlineType DEF AcquireGrants
  <2>3. grant \in Grants
    BY <2>1, <2>2 DEF NewGrant, Grants
  <2> QED
    BY <2>3, NoLeaseIsNoGrant DEF NewGrant
<1> HIDE DEF grant
<1>3. n.leases = [m.leases EXCEPT ![lease] = grant]
  BY <1>1 DEF Managers
<1>4. GrantLease(m, op, lease, now).leases = n.leases
  <2>1. GrantLease(m, op, lease, now) = Remember(n, op, grant, lease)
    BY DEF GrantLease, grant
  <2>2. n \in [leases : {n.leases}, owners : {n.owners}, history : {n.history}]
    BY <1>1 DEF Managers
  <2> HIDE DEF n
  <2> QED
    BY <2>1, <2>2 DEF Remember, ReserveHistorySlot
<1>5. Holding(GrantLease(m, op, lease, now)) = Holding(n)
  BY <1>4, SameLeasesSameHolding
<1>6. n.leases[lease] = grant /\ \A l \in LeaseIds \ {lease} : n.leases[l] = m.leases[l]
  BY <1>1, <1>3 DEF Managers
<1> HIDE DEF n
<1> QED
  BY <1>2, <1>5, <1>6 DEF Holding

\* A granted release ends the lease it names.
LEMMA ReleaseHolding ==
    ASSUME NEW m, Sound(m), NEW op \in ReleaseOps, ReleaseGrants(m, op)
    PROVE  Holding(ReleaseLease(m, op)) = Dropping(Holding(m), {op.lease})
<1> DEFINE room == ReserveHistorySlot(m)
           gone == RemoveLeases(room, {op.lease})
<1>1. room.leases = m.leases
  BY ReserveHistorySlotSound DEF ReleaseGrants
<1>2. Holding(gone) = Dropping(Holding(m), {op.lease})
  BY <1>1, RemoveLeasesHolding, SameLeasesSameHolding
<1>3. ReleaseLease(m, op).leases = gone.leases
  BY DEF ReleaseLease, RemoveLeases
<1> QED
  BY <1>2, <1>3, SameLeasesSameHolding

---------------------------------------------------------------------------
(***************************************************************************)
(* What a step does to ownership.                                          *)
(***************************************************************************)
Expired == {l \in Live(manager) : leases[l].expires <= clock}

Ends(ended) == Holding(manager)' = Dropping(Holding(manager), ended)

Takes(lease, client, resources) ==
    /\ lease \notin Live(manager) \ Expired
    /\ \A l \in Live(manager) \ Expired :
         \A r \in resources, s \in leases[l].resources : ~ResourcesConflict(r, s)
    /\ Holding(manager)' =
         [Dropping(Holding(manager), Expired) EXCEPT
            ![lease] = [client |-> client, resources |-> resources]]

\* Storing a manager value stores its ownership.
LEMMA BecomesHolding ==
    ASSUME NEW m, ManagerBecomes(m)
    PROVE  Holding(manager)' = Holding(m)
BY DEF ManagerBecomes, Holding, manager

\* Dropping leases twice drops their union.
LEMMA DroppingTwice ==
    ASSUME NEW h, NEW a, NEW b
    PROVE  Dropping(Dropping(h, a), b) = Dropping(h, a \union b)
BY DEF Dropping

\* Every step ends some leases and does nothing else to ownership, or ends the
\* expired ones and takes a set that no remaining lease conflicts with.
LEMMA StepOwnership ==
    ASSUME Inv, [Next]_vars
    PROVE  \/ \E ended \in SUBSET LeaseIds : Ends(ended)
           \/ \E lease \in LeaseIds, client \in Clients, resources \in SUBSET Resources :
                Takes(lease, client, resources)
<1> DEFINE m == Current
           Goal == \/ \E ended \in SUBSET LeaseIds : Ends(ended)
                   \/ \E lease \in LeaseIds, client \in Clients, resources \in SUBSET Resources :
                        Takes(lease, client, resources)
<1>1. /\ Sound(manager)
      /\ Sound(m)
      /\ Live(m) = Live(manager) \ Expired
      /\ \A l \in Live(m) : m.leases[l] = leases[l]
      /\ Holding(m) = Dropping(Holding(manager), Expired)
      /\ Expired \in SUBSET LeaseIds
  <2>1. m = RemoveLeases(manager, Expired)
    BY DEF Current, Expire, Expired, manager
  <2>2. Sound(manager)
    BY DEF Inv
  <2>3. Sound(m) /\ Live(m) = Live(manager) \ Expired
    BY <2>1, <2>2, RemoveLeasesSound
  <2>4. \A l \in Live(m) : m.leases[l] = manager.leases[l]
    BY <2>1, <2>2, <2>3, RemoveLeasesSound
  <2>5. Holding(m) = Dropping(Holding(manager), Expired)
    BY <2>1, RemoveLeasesHolding
  <2> QED
    BY <2>2, <2>3, <2>4, <2>5 DEF manager, Expired, Live
<1>2. clock \in Instants
  BY DEF Inv
<1>3. ASSUME NEW n, ManagerBecomes(n), Holding(n) = Holding(m)
      PROVE  Goal
  BY <1>1, <1>3, BecomesHolding DEF Ends
<1>4. ASSUME NEW n, ManagerBecomes(n), NEW more \in SUBSET LeaseIds,
             Holding(n) = Dropping(Holding(m), more)
      PROVE  Goal
  <2>1. Holding(n) = Dropping(Holding(manager), Expired \union more)
    BY <1>1, <1>4, DroppingTwice
  <2>2. Expired \union more \in SUBSET LeaseIds
    BY <1>1
  <2> QED
    BY <1>4, <2>1, <2>2, BecomesHolding DEF Ends
<1>5. ASSUME NEW ls \in SUBSET LeaseIds, ManagerBecomes(RemoveLeases(manager, ls))
      PROVE  Goal
  BY <1>5, RemoveLeasesHolding, BecomesHolding DEF Ends
<1>6. ASSUME Holding(manager)' = Holding(manager)
      PROVE  Goal
  <2>1. Ends({})
    BY <1>6 DEF Ends, Dropping, Holding
  <2> QED
    BY <2>1
<1>7. CASE Advance \/ UNCHANGED vars
  <2>1. manager' = manager
    BY <1>7 DEF Advance, manager, vars
  <2>2. Holding(manager)' = Holding(manager)
    BY <2>1 DEF Holding
  <2> QED
    BY <1>6, <2>2
<1>8. CASE Requests(m)
  <2> HIDE DEF m, Goal
  <2>1. ASSUME NEW op \in AcquireOps, AcquireConflict(m, op) PROVE Goal
    <3>1. PICK p \in ConflictsOf(m, op) :
            ManagerBecomes(Remember(m, op, ConflictResult(m, p), NoLease))
      BY <2>1 DEF AcquireConflict
    <3> DEFINE n == Remember(m, op, ConflictResult(m, p), NoLease)
    <3>2. Holding(n) = Holding(m)
      BY <1>1, <2>1, RememberHolding DEF AcquireConflict, AcquireConflicts
    <3> HIDE DEF n
    <3> QED
      BY <1>3, <3>1, <3>2 DEF n
  <2>2. ASSUME NEW op \in AcquireOps, NEW lease \in LeaseIds, AcquireGranted(m, op, lease)
        PROVE  Goal
    <3>1. op.client \in Clients /\ op.resources \in SUBSET Resources
      BY DEF AcquireOps
    <3>2. AcquireGrants(m, op, lease, clock)
      BY <2>2 DEF AcquireGranted
    <3>3. Holding(manager)' = [Holding(m) EXCEPT
            ![lease] = [client |-> op.client, resources |-> op.resources]]
      BY <1>1, <1>2, <2>2, <3>2, GrantHolding, BecomesHolding DEF AcquireGranted
    <3>4. lease \notin Live(m)
      BY <3>2 DEF AcquireGrants, AcquireReserves, HasCapacityFor, Live
    <3>5. \A l \in Live(m) : \A r \in op.resources, s \in m.leases[l].resources :
            ~ResourcesConflict(r, s)
      <4> SUFFICES ASSUME NEW l \in Live(m), NEW r \in op.resources,
                          NEW s \in m.leases[l].resources
                   PROVE  ~ResourcesConflict(r, s)
        OBVIOUS
      <4>1. l \in LeaseIds /\ m.leases[l] \in Grants
        BY <1>1 DEF Live, Sound, Bounded, Managers
      <4>2. s \in Resources
        BY <4>1 DEF Grants
      <4>3. m.owners[s] = l
        BY <1>1, <4>1, <4>2 DEF Sound, IndexAgrees
      <4>4. <<r, s>> \notin ConflictsOf(m, op)
        BY <3>2 DEF AcquireGrants, AcquireReserves
      <4> QED
        BY <4>1, <4>2, <4>3, <4>4, LeaseConstants DEF ConflictsOf
    <3>6. Takes(lease, op.client, op.resources)
      BY <1>1, <3>3, <3>4, <3>5 DEF Takes
    <3> QED
      BY <3>1, <3>6 DEF Goal
  <2>3. ASSUME NEW op \in AcquireOps, NEW lease \in LeaseIds, AcquireOverflow(m, op, lease)
        PROVE  Goal
    <3>1. ReserveHistorySlot(m).leases = m.leases
      BY <1>1, <2>3, ReserveHistorySlotSound
         DEF AcquireOverflow, AcquireOverflows, AcquireReserves
    <3> QED
      BY <1>3, <2>3, <3>1, SameLeasesSameHolding DEF AcquireOverflow
  <2>4. ASSUME ManagerBecomes(m) PROVE Goal
    BY <1>3, <2>4
  <2>5. ASSUME NEW op \in RenewOps, RenewGranted(m, op) PROVE Goal
    <3> DEFINE n == Renewed(m, op.lease, op.duration, clock)
    <3>1. op.lease \in Live(m) /\ op.duration \in Durations /\ clock + op.duration <= MaxMonotonic
      BY <2>5 DEF RenewGranted, RenewGrants, IsOwner, RenewOps
    <3>2. Sound(n) /\ n.history = m.history
      BY <1>1, <1>2, <3>1, RenewedSound
    <3>3. CanRemember(n)
      BY <2>5, <3>2 DEF RenewGranted, RenewGrants, CanRemember
    <3>4. Holding(n) = Holding(m)
      BY <1>1, <1>2, <3>1, RenewedHolding
    <3>5. RenewLease(m, op, clock) = Remember(n, op, n.leases[op.lease], op.lease)
      BY DEF RenewLease
    <3> HIDE DEF n
    <3>6. Holding(RenewLease(m, op, clock)) = Holding(m)
      BY <3>2, <3>3, <3>4, <3>5, RememberHolding
    <3> QED
      BY <1>3, <2>5, <3>6 DEF RenewGranted
  <2>6. ASSUME NEW op \in ReleaseOps, ReleaseGranted(m, op) PROVE Goal
    <3>1. {op.lease} \in SUBSET LeaseIds
      BY DEF ReleaseOps
    <3>2. Holding(ReleaseLease(m, op)) = Dropping(Holding(m), {op.lease})
      BY <1>1, <2>6, ReleaseHolding DEF ReleaseGranted
    <3> QED
      BY <1>4, <2>6, <3>1, <3>2 DEF ReleaseGranted
  <2>7. ASSUME NEW client \in Clients, NEW lease \in LeaseIds, NEW duration \in Durations,
               Renew(m, client, lease, duration)
        PROVE  Goal
    <3>1. lease \in Live(m) /\ clock + duration <= MaxMonotonic
      BY <2>7 DEF Renew, IsOwner
    <3> QED
      BY <1>1, <1>2, <1>3, <2>7, <3>1, RenewedHolding DEF Renew
  <2>8. ASSUME NEW client \in Clients, NEW lease \in LeaseIds, Release(m, client, lease)
        PROVE  Goal
    <3>1. {lease} \in SUBSET LeaseIds
      OBVIOUS
    <3>2. Holding(RemoveLeases(m, {lease})) = Dropping(Holding(m), {lease})
      BY RemoveLeasesHolding
    <3> QED
      BY <1>4, <2>8, <3>1, <3>2 DEF Release
  <2>9. Goal
    BY <1>8, <2>1, <2>2, <2>3, <2>4, <2>5, <2>6, <2>7, <2>8
       DEF Requests, Acquire, RenewRequest, ReleaseRequest,
           AcquireAnsweredOrRefused, RenewAnsweredOrRefused, ReleaseAnsweredOrRefused
  <2> QED
    BY <2>9 DEF Goal
<1>9. ASSUME NEW client \in Clients, ReleaseClient(client) PROVE Goal
  <2>1. LeasesOfClient(manager, client) \in SUBSET LeaseIds
    BY DEF LeasesOfClient, Live
  <2> QED
    BY <1>5, <1>9, <2>1 DEF ReleaseClient
<1>10. ASSUME NEW scope \in Scopes, InvalidateGeneration(scope) PROVE Goal
  <2>1. LeasesOfScope(manager, scope) \in SUBSET LeaseIds
    BY DEF LeasesOfScope, Live
  <2> QED
    BY <1>5, <1>10, <2>1 DEF InvalidateGeneration
<1>11. CASE ExpireLeases
  BY <1>3, <1>11 DEF ExpireLeases
<1> QED
  BY <1>7, <1>8, <1>9, <1>10, <1>11 DEF Next

\* The lease manager refines the abstract specification: taking a lease is
\* atomic, only a whole conflict-free set is taken, and a held set never changes.
THEOREM OwnershipImplemented == Spec => ImplementsOwnership
<1>1. Init => Abstract!Init
  BY DEF Init, EmptyManager, Abstract!Init
<1>2. Inv /\ [Next]_vars => Abstract!Next
  <2> SUFFICES ASSUME Inv, [Next]_vars PROVE Abstract!Next
    OBVIOUS
  <2>1. CASE \E ended \in SUBSET LeaseIds : Ends(ended)
    <3>1. PICK ended \in SUBSET LeaseIds : Ends(ended)
      BY <2>1
    <3>2. Abstract!End(ended)
      BY <3>1 DEF Ends, Abstract!End, Abstract!Without, Holding, manager, Dropping
    <3> QED
      BY <3>2 DEF Abstract!Next
  <2>2. CASE \E lease \in LeaseIds, client \in Clients, resources \in SUBSET Resources :
               Takes(lease, client, resources)
    <3>1. PICK lease \in LeaseIds, client \in Clients, resources \in SUBSET Resources :
            Takes(lease, client, resources)
      BY <2>2
    <3>2. Abstract!Without(Expired) = Dropping(Holding(manager), Expired)
      BY DEF Abstract!Without, Holding, manager, Dropping
    <3>3. Abstract!Without(Expired)[lease] = NoLease
      BY <3>1, <3>2 DEF Takes, Dropping, Holding, Live, manager
    <3>4. \A l \in LeaseIds : Abstract!Without(Expired)[l] # NoLease =>
            l \in Live(manager) \ Expired
      BY <3>2 DEF Dropping, Holding, Live, manager
    <3>5. Abstract!Take(Expired, lease, client, resources)
      BY <3>1, <3>2, <3>3, <3>4 DEF Takes, Holding, manager, Live, Abstract!Take
    <3>6. Expired \in SUBSET LeaseIds
      BY DEF Expired, Live
    <3> QED
      BY <3>5, <3>6 DEF Abstract!Next
  <2> QED
    BY <2>1, <2>2, StepOwnership
<1> QED
  BY <1>1, <1>2, Soundness, PTL DEF Spec, ImplementsOwnership, Abstract!Spec

\* A live lease holds something: its entry is never mistaken for no entry.
LEMMA LiveHolds ==
    ASSUME NEW m, Sound(m), NEW l \in Live(m)
    PROVE  /\ Holding(m)[l] # NoLease
           /\ Holding(m)[l].client = m.leases[l].client
           /\ Holding(m)[l].resources = m.leases[l].resources
<1>1. l \in LeaseIds /\ m.leases[l] \in Grants /\ m.leases[l] # NoLease
  BY DEF Live, Sound, Bounded, Managers
<1>2. Holding(m)[l] = [client |-> m.leases[l].client, resources |-> m.leases[l].resources]
  BY <1>1 DEF Holding
<1>3. Holding(m)[l] \in [client : Clients, resources : SUBSET Resources]
  BY <1>1, <1>2 DEF Grants
<1> QED
  BY <1>2, <1>3, NoLeaseIsNoGrant

\* No step hands a resource from one lease to another while the first one's
\* deadline lies in the future.
THEOREM NoTakeoverHolds == Spec => NoTakeover
<1> DEFINE Kept == \A r \in Resources :
                     (owners[r] # NoLease /\ owners'[r] \notin {NoLease, owners[r]})
                        => leases[owners[r]].expires <= clock
<1>1. Inv /\ Inv' /\ [Next]_vars => Kept
  <2> SUFFICES ASSUME Inv, Inv', [Next]_vars, NEW r \in Resources,
                      owners[r] # NoLease, owners'[r] \notin {NoLease, owners[r]}
               PROVE  leases[owners[r]].expires <= clock
    OBVIOUS
  <2> DEFINE before == owners[r]
             after == owners'[r]
  <2>1. before \in LeaseIds /\ after \in LeaseIds /\ before # after
    BY DEF Inv, Sound, Bounded, Managers, manager
  <2>2. before \in Live(manager) /\ r \in leases[before].resources
    BY <2>1 DEF Inv, Sound, IndexAgrees, manager
  <2>3. ~(after \in Live(manager) /\ r \in leases[after].resources)
    BY <2>1 DEF Inv, Sound, IndexAgrees, manager
  <2>4. leases'[after] # NoLease /\ r \in leases'[after].resources
    BY <2>1 DEF Inv, Sound, IndexAgrees, manager, Live
  <2>5. /\ Holding(manager)'[after] # NoLease
        /\ Holding(manager)'[after].resources = leases'[after].resources
    <3>1. Sound(manager')
      BY DEF Inv, Sound, Bounded, IndexAgrees, Exclusive, Live
    <3>2. after \in Live(manager') /\ manager'.leases = leases'
      BY <2>1, <2>4 DEF Live, manager
    <3>3. Holding(manager)' = Holding(manager')
      BY DEF Holding
    <3> QED
      BY <3>1, <3>2, <3>3, LiveHolds
  <2>6. Holding(manager)'[after] # Holding(manager)[after]
    <3>1. CASE after \in Live(manager)
      <4>1. Holding(manager)[after].resources = leases[after].resources
        BY <3>1, LiveHolds DEF Inv, manager
      <4> QED
        BY <2>3, <2>4, <2>5, <3>1, <4>1
    <3>2. CASE after \notin Live(manager)
      <4>1. Holding(manager)[after] = NoLease
        BY <2>1, <3>2 DEF Holding, Live
      <4> QED
        BY <2>5, <4>1
    <3> QED
      BY <3>1, <3>2
  <2>7. ~\E ended \in SUBSET LeaseIds : Ends(ended)
    BY <2>1, <2>5, <2>6 DEF Ends, Dropping
  <2>8. PICK lease \in LeaseIds, client \in Clients, resources \in SUBSET Resources :
          Takes(lease, client, resources)
    BY <2>7, StepOwnership
  <2>9. after = lease
    BY <2>1, <2>5, <2>6, <2>8 DEF Takes, Dropping
  <2>10. r \in resources
    BY <2>1, <2>4, <2>5, <2>8, <2>9 DEF Takes, Dropping
  <2>11. ResourcesConflict(r, r)
    BY DEF ResourcesConflict
  <2>12. before \in Expired
    BY <2>2, <2>8, <2>10, <2>11 DEF Takes
  <2> QED
    BY <2>12 DEF Expired
<1> QED
  BY <1>1, Soundness, PTL DEF Spec, NoTakeover

---------------------------------------------------------------------------
(***************************************************************************)
(* The idempotency history.  The invariant speaks of the entries of a      *)
(* manager's history and its live leases: identities are used once, a pin  *)
(* names a live lease of the same client, and the answer that granted a    *)
(* live lease is there and pinned.                                         *)
(***************************************************************************)
Unambiguous(m) ==
    \A i, j \in 1 .. Len(m.history) :
        Key(m.history[i].request) = Key(m.history[j].request) => i = j

PinsAreLive(m) ==
    \A i \in 1 .. Len(m.history) : m.history[i].pinned # NoLease =>
        /\ m.history[i].pinned \in Live(m)
        /\ m.leases[m.history[i].pinned].client = m.history[i].request.client

AnswersGrant(m, rec, l) ==
    /\ rec.pinned = l
    /\ rec.request.op = "acquire"
    /\ rec.request.client = m.leases[l].client
    /\ rec.request.resources = m.leases[l].resources

Answerable(m) ==
    \A l \in Live(m) : \E i \in 1 .. Len(m.history) : AnswersGrant(m, m.history[i], l)

Remembering(m) == Sound(m) /\ Unambiguous(m) /\ PinsAreLive(m) /\ Answerable(m)

\* remove_lease unpins the answers of the leases it ends and keeps all others.
LEMMA RemoveLeasesRemembering ==
    ASSUME NEW m, Remembering(m), NEW ls
    PROVE  Remembering(RemoveLeases(m, ls))
<1> DEFINE n == RemoveLeases(m, ls)
           h == m.history
<1>1. /\ Sound(n)
      /\ Live(n) = Live(m) \ ls
      /\ \A l \in Live(m) \ ls : n.leases[l] = m.leases[l]
  BY RemoveLeasesSound DEF Remembering
<1>2. h \in Seq(Records) /\ \A i \in 1 .. Len(h) : h[i] \in Records
  BY DEF Remembering, Sound, Bounded, Managers
<1>3. n.history = [i \in 1 .. Len(h) |->
                     IF h[i].pinned \in ls THEN [h[i] EXCEPT !.pinned = NoLease] ELSE h[i]]
  BY DEF RemoveLeases
<1>4. Len(n.history) = Len(h)
  BY <1>2, <1>3
<1>5. \A i \in 1 .. Len(h) :
        /\ n.history[i].request = h[i].request
        /\ n.history[i].pinned = IF h[i].pinned \in ls THEN NoLease ELSE h[i].pinned
  BY <1>2, <1>3 DEF Records
<1> HIDE DEF n
<1>6. Unambiguous(n)
  BY <1>4, <1>5 DEF Remembering, Unambiguous
<1>7. PinsAreLive(n)
  BY <1>1, <1>4, <1>5 DEF Remembering, PinsAreLive
<1>8. Answerable(n)
  <2> SUFFICES ASSUME NEW l \in Live(n)
               PROVE  \E i \in 1 .. Len(n.history) : AnswersGrant(n, n.history[i], l)
    BY DEF Answerable
  <2>1. l \in Live(m) /\ l \notin ls /\ n.leases[l] = m.leases[l]
    BY <1>1
  <2>2. PICK i \in 1 .. Len(h) : AnswersGrant(m, h[i], l)
    BY <2>1 DEF Remembering, Answerable
  <2>3. AnswersGrant(n, n.history[i], l)
    BY <1>5, <2>1, <2>2 DEF AnswersGrant
  <2> QED
    BY <1>4, <2>3
<1> QED
  BY <1>1, <1>6, <1>7, <1>8 DEF Remembering, n

\* The answer a reservation evicts is pinned by no live lease, so eviction never
\* costs a lease its answer, and it leaves the identities distinct.
LEMMA ReserveRemembering ==
    ASSUME NEW m, Remembering(m), CanRemember(m)
    PROVE  /\ Remembering(ReserveHistorySlot(m))
           /\ \A op : ~Answered(m, op) => ~Answered(ReserveHistorySlot(m), op)
<1> DEFINE n == ReserveHistorySlot(m)
           h == m.history
           Unpinned == {i \in 1 .. Len(h) : h[i].pinned = NoLease}
           k == Min(Unpinned)
<1>1. /\ m \in Managers /\ h \in Seq(Records) /\ Len(h) \in Nat
      /\ Len(h) <= MaxHistory
  BY DEF Remembering, Sound, Bounded, Managers
<1>2. Sound(n) /\ n.leases = m.leases
  BY ReserveHistorySlotSound DEF Remembering
<1>3. Live(n) = Live(m)
  BY <1>2 DEF Live
<1>4. CASE Len(h) < MaxHistory
  <2>1. n.history = h
    BY <1>1, <1>4 DEF ReserveHistorySlot, Managers
  <2> HIDE DEF n
  <2>2. Remembering(n) /\ \A op : ~Answered(m, op) => ~Answered(n, op)
    BY <1>2, <1>3, <2>1
       DEF Remembering, Unambiguous, PinsAreLive, Answerable, AnswersGrant, Answered
  <2> QED
    BY <2>2 DEF n
<1>5. CASE ~(Len(h) < MaxHistory)
  <2>1. Unpinned \in SUBSET Nat /\ Unpinned # {}
    BY <1>1, <1>5, LeaseConstants DEF CanRemember
  <2>2. k \in 1 .. Len(h) /\ h[k].pinned = NoLease
    BY <2>1, MinIsMember
  <2>3. n.history = RemoveAt(h, k)
    BY <1>1, <1>5, <2>1 DEF ReserveHistorySlot, Managers, RemoveFirstMatch, SelectInSeq
  <2> HIDE DEF k, n
  <2>4. /\ Len(n.history) = Len(h) - 1
        /\ \A i \in 1 .. Len(h) - 1 : n.history[i] = IF i < k THEN h[i] ELSE h[i + 1]
    BY <1>1, <2>2, <2>3, RemoveAtProperties
  <2>5. \A i \in 1 .. Len(h) - 1 : \E j \in 1 .. Len(h) \ {k} : n.history[i] = h[j]
    <3> SUFFICES ASSUME NEW i \in 1 .. Len(h) - 1
                 PROVE  \E j \in 1 .. Len(h) \ {k} : n.history[i] = h[j]
      OBVIOUS
    <3>1. CASE i < k
      BY <1>1, <2>2, <2>4, <3>1
    <3>2. CASE ~(i < k)
      <4>1. i + 1 \in 1 .. Len(h) \ {k}
        BY <1>1, <2>2, <3>2
      <4> QED
        BY <2>4, <3>2, <4>1
    <3> QED
      BY <3>1, <3>2
  <2>6. \A j \in 1 .. Len(h) \ {k} : \E i \in 1 .. Len(h) - 1 : n.history[i] = h[j]
    <3> SUFFICES ASSUME NEW j \in 1 .. Len(h) \ {k}
                 PROVE  \E i \in 1 .. Len(h) - 1 : n.history[i] = h[j]
      OBVIOUS
    <3>1. CASE j < k
      <4>1. j \in 1 .. Len(h) - 1
        BY <1>1, <2>2, <3>1
      <4> QED
        BY <2>4, <3>1, <4>1
    <3>2. CASE ~(j < k)
      <4>1. j - 1 \in 1 .. Len(h) - 1 /\ ~(j - 1 < k) /\ j - 1 + 1 = j
        BY <1>1, <2>2, <3>2
      <4> QED
        BY <2>4, <4>1
    <3> QED
      BY <3>1, <3>2
  <2>7. Unambiguous(n)
    <3> SUFFICES ASSUME NEW i \in 1 .. Len(h) - 1, NEW j \in 1 .. Len(h) - 1,
                        Key(n.history[i].request) = Key(n.history[j].request)
                 PROVE  i = j
      BY <2>4 DEF Unambiguous
    <3> DEFINE At(x) == IF x < k THEN x ELSE x + 1
    <3>1. n.history[i] = h[At(i)] /\ n.history[j] = h[At(j)]
      BY <2>4
    <3>2. At(i) \in 1 .. Len(h) /\ At(j) \in 1 .. Len(h)
      BY <1>1, <2>2
    <3>3. At(i) = At(j)
      BY <3>1, <3>2 DEF Remembering, Unambiguous
    <3> QED
      BY <2>2, <3>3
  <2>8. PinsAreLive(n)
    <3> SUFFICES ASSUME NEW i \in 1 .. Len(h) - 1, n.history[i].pinned # NoLease
                 PROVE  /\ n.history[i].pinned \in Live(m)
                        /\ m.leases[n.history[i].pinned].client = n.history[i].request.client
      BY <1>2, <1>3, <2>4 DEF PinsAreLive
    <3>1. PICK j \in 1 .. Len(h) \ {k} : n.history[i] = h[j]
      BY <2>5
    <3> QED
      BY <3>1 DEF Remembering, PinsAreLive
  <2>9. Answerable(n)
    <3> SUFFICES ASSUME NEW l \in Live(m)
                 PROVE  \E i \in 1 .. Len(h) - 1 : AnswersGrant(n, n.history[i], l)
      BY <1>3, <2>4 DEF Answerable
    <3>1. PICK j \in 1 .. Len(h) : AnswersGrant(m, h[j], l)
      BY DEF Remembering, Answerable
    <3>2. j # k
      BY <2>2, <3>1, LeaseConstants DEF AnswersGrant, Live
    <3>3. PICK i \in 1 .. Len(h) - 1 : n.history[i] = h[j]
      BY <2>6, <3>2
    <3> QED
      BY <1>2, <3>1, <3>3 DEF AnswersGrant
  <2>10. \A op : ~Answered(m, op) => ~Answered(n, op)
    BY <2>4, <2>5 DEF Answered
  <2> QED
    BY <1>2, <2>7, <2>8, <2>9, <2>10 DEF Remembering, n
<1> QED
  BY <1>4, <1>5

\* An answer to a new identity keeps identities distinct, and every entry that
\* was there stays where it was.
LEMMA AppendEntries ==
    ASSUME NEW m, Sound(m), NEW rec
    PROVE  LET n == [m EXCEPT !.history = Append(@, rec)] IN
           /\ n.leases = m.leases
           /\ Len(n.history) = Len(m.history) + 1
           /\ n.history[Len(m.history) + 1] = rec
           /\ \A i \in 1 .. Len(m.history) : n.history[i] = m.history[i]
           /\ Len(m.history) \in Nat
<1>1. m \in Managers /\ m.history \in Seq(Records)
  BY DEF Sound, Bounded, Managers
<1> QED
  BY <1>1 DEF Managers

\* Putting an answer into a reserved slot: the new identity was not in use, and
\* a pin names a live lease of the client that asked.
LEMMA AppendRemembering ==
    ASSUME NEW m, Sound(m), Unambiguous(m), PinsAreLive(m), Len(m.history) < MaxHistory,
           NEW rec \in Records, ~Answered(m, rec.request),
           rec.pinned # NoLease =>
             rec.pinned \in Live(m) /\ m.leases[rec.pinned].client = rec.request.client,
           \A l \in Live(m) :
             \/ AnswersGrant(m, rec, l)
             \/ \E i \in 1 .. Len(m.history) : AnswersGrant(m, m.history[i], l)
    PROVE  Remembering([m EXCEPT !.history = Append(@, rec)])
<1> DEFINE n == [m EXCEPT !.history = Append(@, rec)]
           k == Len(m.history)
<1>1. Sound(n)
  BY AppendSound
<1>2. /\ n.leases = m.leases
      /\ Len(n.history) = k + 1
      /\ n.history[k + 1] = rec
      /\ \A i \in 1 .. k : n.history[i] = m.history[i]
      /\ k \in Nat
  BY AppendEntries
<1> HIDE DEF n, k
<1>3. Live(n) = Live(m)
  BY <1>2 DEF Live
<1>4. \A i \in 1 .. k + 1 : i \in 1 .. k \/ i = k + 1
  BY <1>2
<1>5. \A i \in 1 .. k : Key(m.history[i].request) # Key(rec.request)
  BY DEF Answered, k
<1>6. Unambiguous(n)
  <2> SUFFICES ASSUME NEW i \in 1 .. k + 1, NEW j \in 1 .. k + 1,
                      Key(n.history[i].request) = Key(n.history[j].request)
               PROVE  i = j
    BY <1>2 DEF Unambiguous
  <2>1. CASE i \in 1 .. k /\ j \in 1 .. k
    BY <1>2, <2>1 DEF Unambiguous, k
  <2>2. CASE i = k + 1 /\ j \in 1 .. k
    BY <1>2, <1>5, <2>2
  <2>3. CASE i \in 1 .. k /\ j = k + 1
    BY <1>2, <1>5, <2>3
  <2> QED
    BY <1>4, <2>1, <2>2, <2>3
<1>7. PinsAreLive(n)
  BY <1>2, <1>3, <1>4 DEF PinsAreLive, k
<1>8. Answerable(n)
  <2> SUFFICES ASSUME NEW l \in Live(m)
               PROVE  \E i \in 1 .. k + 1 : AnswersGrant(n, n.history[i], l)
    BY <1>2, <1>3 DEF Answerable
  <2>1. CASE AnswersGrant(m, rec, l)
    BY <1>2, <2>1 DEF AnswersGrant
  <2>2. CASE \E i \in 1 .. k : AnswersGrant(m, m.history[i], l)
    <3>1. PICK i \in 1 .. k : AnswersGrant(m, m.history[i], l)
      BY <2>2
    <3>2. i \in 1 .. k + 1 /\ AnswersGrant(n, n.history[i], l)
      BY <1>2, <3>1 DEF AnswersGrant
    <3> QED
      BY <3>2
  <2> QED
    BY <2>1, <2>2 DEF k
<1> QED
  BY <1>1, <1>6, <1>7, <1>8 DEF Remembering, n

\* remember, with its reservation, for an answer that pins nothing new or pins
\* a lease already answered for.
LEMMA RememberRemembering ==
    ASSUME NEW m, Remembering(m), CanRemember(m), NEW op \in Operations, ~Answered(m, op),
           NEW result \in Grants \union Conflicts, NEW pinned \in LeaseIds \union {NoLease},
           pinned # NoLease => pinned \in Live(m) /\ m.leases[pinned].client = op.client
    PROVE  Remembering(Remember(m, op, result, pinned))
<1> DEFINE room == ReserveHistorySlot(m)
           rec == [request |-> op, result |-> result, pinned |-> pinned]
<1>1. /\ Remembering(room) /\ ~Answered(room, op)
      /\ Len(room.history) < MaxHistory /\ room.leases = m.leases
  BY ReserveRemembering, ReserveHistorySlotSound DEF Remembering
<1>2. rec \in Records /\ rec.request = op /\ rec.pinned = pinned
  BY DEF Records
<1>3. Live(room) = Live(m)
  BY <1>1 DEF Live
<1>4. Remember(m, op, result, pinned) = [room EXCEPT !.history = Append(@, rec)]
  BY DEF Remember
<1> HIDE DEF room, rec
<1>5. Remembering([room EXCEPT !.history = Append(@, rec)])
  <2>1. \A l \in Live(room) :
           \E i \in 1 .. Len(room.history) : AnswersGrant(room, room.history[i], l)
    BY <1>1 DEF Remembering, Answerable
  <2>2. rec.pinned # NoLease =>
          rec.pinned \in Live(room) /\ room.leases[rec.pinned].client = rec.request.client
    BY <1>1, <1>2, <1>3
  <2>3. Sound(room) /\ Unambiguous(room) /\ PinsAreLive(room) /\ ~Answered(room, rec.request)
    BY <1>1, <1>2 DEF Remembering
  <2> QED
    BY <1>1, <1>2, <2>1, <2>2, <2>3, AppendRemembering
<1> QED
  BY <1>4, <1>5

\* A renewal keeps the lease's client and resources, so its answers still fit.
LEMMA RenewedRemembering ==
    ASSUME NEW m, Remembering(m), NEW lease \in Live(m), NEW duration \in Durations,
           NEW now \in Instants, now + duration <= MaxMonotonic
    PROVE  /\ Remembering(Renewed(m, lease, duration, now))
           /\ Live(Renewed(m, lease, duration, now)) = Live(m)
           /\ \A l \in Live(m) :
                Renewed(m, lease, duration, now).leases[l].client = m.leases[l].client
<1> DEFINE n == Renewed(m, lease, duration, now)
<1>1. Sound(m)
  BY DEF Remembering
<1>2. Sound(n) /\ n.history = m.history
  BY <1>1, RenewedSound
<1>3. Live(n) = Live(m) /\ Holding(n) = Holding(m)
  BY <1>1, RenewedHolding
<1> HIDE DEF n
<1>4. \A l \in Live(m) : /\ n.leases[l].client = m.leases[l].client
                         /\ n.leases[l].resources = m.leases[l].resources
  BY <1>1, <1>2, <1>3, LiveHolds
<1>5. Unambiguous(n)
  BY <1>2 DEF Remembering, Unambiguous
<1>6. PinsAreLive(n)
  BY <1>2, <1>3, <1>4 DEF Remembering, PinsAreLive
<1>7. Answerable(n)
  BY <1>2, <1>3, <1>4 DEF Remembering, Answerable, AnswersGrant
<1> QED
  BY <1>2, <1>3, <1>4, <1>5, <1>6, <1>7 DEF Remembering, n

\* renew_request_decision's success.
LEMMA RenewLeaseRemembering ==
    ASSUME NEW m, Remembering(m), NEW op \in RenewOps, NEW now \in Instants,
           RenewGrants(m, op, now)
    PROVE  Remembering(RenewLease(m, op, now))
<1> DEFINE n == Renewed(m, op.lease, op.duration, now)
<1>1. /\ op.lease \in Live(m) /\ m.leases[op.lease].client = op.client
      /\ op.duration \in Durations /\ op \in Operations /\ op.lease \in LeaseIds
      /\ now + op.duration <= MaxMonotonic
  BY DEF RenewGrants, IsOwner, RenewOps, Operations, Live
<1>2. /\ Remembering(n) /\ Live(n) = Live(m)
      /\ n.leases[op.lease].client = op.client
  BY <1>1, RenewedRemembering
<1>3. n.history = m.history /\ n.leases[op.lease] \in Grants
  BY <1>1, RenewedSound DEF Remembering
<1>4. CanRemember(n) /\ ~Answered(n, op)
  BY <1>3 DEF RenewGrants, CanRemember, Answered
<1>5. RenewLease(m, op, now) = Remember(n, op, n.leases[op.lease], op.lease)
  BY DEF RenewLease
<1> HIDE DEF n
<1> QED
  BY <1>1, <1>2, <1>3, <1>4, <1>5, RememberRemembering

\* acquire_decision's success: the new lease and the answer it pins arrive
\* together.
LEMMA GrantRemembering ==
    ASSUME NEW m, Remembering(m), NEW op \in AcquireOps, NEW lease \in LeaseIds,
           NEW now \in Instants, AcquireGrants(m, op, lease, now)
    PROVE  Remembering(GrantLease(m, op, lease, now))
<1> DEFINE grant == NewGrant(op, now)
           n == [m EXCEPT !.leases[lease] = grant,
                          !.owners = [r \in Resources |->
                             IF r \in op.resources THEN lease ELSE @[r]]]
           rec == [request |-> op, result |-> grant, pinned |-> lease]
           result == GrantLease(m, op, lease, now)
           old == ReserveHistorySlot(m)
           room == ReserveHistorySlot(n)
<1>1. Sound(m) /\ m \in Managers /\ CanRemember(m) /\ ~Answered(m, op)
  BY DEF Remembering, Sound, Bounded, AcquireGrants, AcquireReserves
<1>2. Sound(result)
  BY <1>1, GrantLeaseSound
<1>3. /\ Remembering(old) /\ ~Answered(old, op)
      /\ Len(old.history) < MaxHistory
      /\ old.leases = m.leases /\ old \in Managers
  BY <1>1, ReserveRemembering, ReserveHistorySlotSound DEF Remembering, Sound, Bounded
<1>4. /\ n.leases = [m.leases EXCEPT ![lease] = grant]
      /\ n.history = m.history
      /\ n \in [leases : {n.leases}, owners : {n.owners}, history : {n.history}]
  BY <1>1 DEF Managers
<1>5. room.history = old.history /\ room.leases = n.leases
  BY <1>1, <1>4 DEF ReserveHistorySlot, Managers
<1>6. /\ result.leases = n.leases
      /\ result.history = Append(old.history, rec)
  <2>1. result = [room EXCEPT !.history = Append(@, rec)]
    BY DEF GrantLease, Remember
  <2>2. room \in [leases : {n.leases}, owners : {n.owners}, history : {old.history}]
    BY <1>1, <1>4, <1>5 DEF ReserveHistorySlot
  <2> HIDE DEF room, n, old, rec
  <2> QED
    BY <2>1, <2>2
<1>7. rec.request = op /\ rec.pinned = lease
  OBVIOUS
<1>8. grant.client = op.client /\ grant.resources = op.resources /\ grant # NoLease
  <2>1. op.client \in Clients /\ op.resources \in SUBSET Resources /\ op.duration \in Durations
    BY DEF AcquireOps
  <2>2. now + op.duration \in Instants
    BY <2>1, DeadlineType DEF AcquireGrants
  <2>3. grant \in Grants
    BY <2>1, <2>2 DEF NewGrant, Grants
  <2> QED
    BY <2>3, NoLeaseIsNoGrant DEF NewGrant
<1> HIDE DEF grant, n, rec, result, old, room
<1>9. /\ result.leases[lease] = grant
      /\ \A l \in LeaseIds \ {lease} : result.leases[l] = m.leases[l]
  BY <1>1, <1>4, <1>6 DEF Managers
<1>10. lease \notin Live(m) /\ Live(old) = Live(m) /\ Live(result) = Live(m) \union {lease}
  BY <1>3, <1>8, <1>9 DEF Live, AcquireGrants, AcquireReserves, HasCapacityFor
<1>11. \A l \in Live(m) : result.leases[l] = old.leases[l]
  BY <1>3, <1>9, <1>10 DEF Live
<1>12. /\ old.history \in Seq(Records)
       /\ Len(old.history) \in Nat
       /\ Len(result.history) = Len(old.history) + 1
       /\ result.history[Len(old.history) + 1] = rec
       /\ \A i \in 1 .. Len(old.history) : result.history[i] = old.history[i]
  BY <1>3, <1>6 DEF Managers
<1>13. \A i \in 1 .. Len(old.history) + 1 :
          i \in 1 .. Len(old.history) \/ i = Len(old.history) + 1
  BY <1>12
<1>14. \A i \in 1 .. Len(old.history) : Key(old.history[i].request) # Key(op)
  BY <1>3 DEF Answered
<1>15. Unambiguous(result)
  <2> SUFFICES ASSUME NEW i \in 1 .. Len(old.history) + 1, NEW j \in 1 .. Len(old.history) + 1,
                      Key(result.history[i].request) = Key(result.history[j].request)
               PROVE  i = j
    BY <1>12 DEF Unambiguous
  <2>1. CASE i \in 1 .. Len(old.history) /\ j \in 1 .. Len(old.history)
    BY <1>3, <1>12, <2>1 DEF Remembering, Unambiguous
  <2>2. CASE i = Len(old.history) + 1 /\ j \in 1 .. Len(old.history)
    BY <1>7, <1>12, <1>14, <2>2
  <2>3. CASE i \in 1 .. Len(old.history) /\ j = Len(old.history) + 1
    BY <1>7, <1>12, <1>14, <2>3
  <2> QED
    BY <1>13, <2>1, <2>2, <2>3
<1>16. PinsAreLive(result)
  <2> SUFFICES ASSUME NEW i \in 1 .. Len(old.history) + 1, result.history[i].pinned # NoLease
               PROVE  /\ result.history[i].pinned \in Live(result)
                      /\ result.leases[result.history[i].pinned].client
                           = result.history[i].request.client
    BY <1>12 DEF PinsAreLive
  <2>1. CASE i \in 1 .. Len(old.history)
    <3>1. /\ old.history[i].pinned \in Live(m)
          /\ old.leases[old.history[i].pinned].client = old.history[i].request.client
      BY <1>3, <1>10, <1>12, <2>1 DEF Remembering, PinsAreLive
    <3> QED
      BY <1>10, <1>11, <1>12, <2>1, <3>1
  <2>2. CASE i = Len(old.history) + 1
    BY <1>7, <1>8, <1>9, <1>10, <1>12, <2>2
  <2> QED
    BY <1>13, <2>1, <2>2
<1>17. Answerable(result)
  <2> SUFFICES ASSUME NEW l \in Live(result)
               PROVE  \E i \in 1 .. Len(old.history) + 1 : AnswersGrant(result, result.history[i], l)
    BY <1>12 DEF Answerable
  <2>1. CASE l = lease
    <3>1. op.op = "acquire"
      BY DEF AcquireOps
    <3>2. AnswersGrant(result, rec, l)
      BY <1>7, <1>8, <1>9, <2>1, <3>1 DEF AnswersGrant
    <3>3. Len(old.history) + 1 \in 1 .. Len(old.history) + 1
      BY <1>12
    <3> QED
      BY <1>12, <3>2, <3>3
  <2>2. CASE l \in Live(m)
    <3>1. PICK i \in 1 .. Len(old.history) : AnswersGrant(old, old.history[i], l)
      BY <1>3, <1>10, <2>2 DEF Remembering, Answerable
    <3>2. result.history[i] = old.history[i] /\ result.leases[l] = old.leases[l]
      BY <1>11, <1>12, <2>2
    <3>3. AnswersGrant(result, result.history[i], l)
      BY <3>1, <3>2 DEF AnswersGrant
    <3>4. i \in 1 .. Len(old.history) + 1
      BY <1>12
    <3> QED
      BY <3>3, <3>4
  <2> QED
    BY <1>10, <2>1, <2>2
<1> QED
  BY <1>2, <1>15, <1>16, <1>17 DEF Remembering, result

\* release_request_decision's success: the slot is reserved while the lease
\* still pins its answers, so eviction cannot take another live lease's answer.
LEMMA ReleaseRemembering ==
    ASSUME NEW m, Remembering(m), NEW op \in ReleaseOps, ReleaseGrants(m, op)
    PROVE  Remembering(ReleaseLease(m, op))
<1> DEFINE room == ReserveHistorySlot(m)
           gone == RemoveLeases(room, {op.lease})
           rec == [request |-> op,
                   result |-> [m.leases[op.lease] EXCEPT !.state = "released"],
                   pinned |-> NoLease]
<1>1. Remembering(room) /\ ~Answered(room, op) /\ Len(room.history) < MaxHistory
  BY ReserveRemembering, ReserveHistorySlotSound DEF ReleaseGrants, Remembering
<1>2. Remembering(gone)
  BY <1>1, RemoveLeasesRemembering
<1>3. Len(gone.history) = Len(room.history) /\ ~Answered(gone, op)
  <2>1. room.history \in Seq(Records) /\ \A i \in 1 .. Len(room.history) : room.history[i] \in Records
    BY <1>1 DEF Remembering, Sound, Bounded, Managers
  <2>2. gone.history = [i \in 1 .. Len(room.history) |->
                     IF room.history[i].pinned \in {op.lease}
                     THEN [room.history[i] EXCEPT !.pinned = NoLease] ELSE room.history[i]]
    BY DEF RemoveLeases
  <2> HIDE DEF gone, room
  <2>3. Len(gone.history) = Len(room.history)
    BY <2>1, <2>2
  <2>4. \A i \in 1 .. Len(room.history) : gone.history[i].request = room.history[i].request
    BY <2>1, <2>2 DEF Records
  <2> QED
    BY <1>1, <2>3, <2>4 DEF Answered
<1>4. rec \in Records /\ rec.request = op /\ rec.pinned = NoLease
  <2>1. m.leases[op.lease] \in Grants
    BY DEF Remembering, Sound, Bounded, Managers, ReleaseGrants, IsOwner, Live
  <2> QED
    BY <2>1 DEF Records, Operations, Grants
<1>5. ReleaseLease(m, op) = [gone EXCEPT !.history = Append(@, rec)]
  BY DEF ReleaseLease
<1> HIDE DEF gone, rec, room
<1>6. \A l \in Live(gone) :
         \E i \in 1 .. Len(gone.history) : AnswersGrant(gone, gone.history[i], l)
  BY <1>2 DEF Remembering, Answerable
<1>7. Sound(gone) /\ Unambiguous(gone) /\ PinsAreLive(gone)
  BY <1>2 DEF Remembering
<1>8. Remembering([gone EXCEPT !.history = Append(@, rec)])
  BY <1>1, <1>3, <1>4, <1>6, <1>7, AppendRemembering
<1> QED
  BY <1>5, <1>8

---------------------------------------------------------------------------
HistoryInv == Remembering(manager) /\ clock \in Instants

\* The empty history remembers nothing and no lease depends on it.
LEMMA InitRemembering == Init => HistoryInv
<1> SUFFICES ASSUME Init PROVE HistoryInv
  OBVIOUS
<1>1. Sound(manager) /\ clock \in Instants
  BY InitSound DEF Inv
<1>2. Live(manager) = {} /\ Len(manager.history) = 0
  BY DEF Init, manager, EmptyManager, Live
<1> QED
  BY <1>1, <1>2 DEF HistoryInv, Remembering, Unambiguous, PinsAreLive, Answerable

\* Storing a manager whose history is in order.
LEMMA BecomesRemembering ==
    ASSUME NEW m, Remembering(m), ManagerBecomes(m)
    PROVE  Remembering(manager)'
<1>1. m \in Managers
  BY DEF Remembering, Sound, Bounded
<1>2. manager' = m
  BY <1>1 DEF ManagerBecomes, manager, Managers
<1> QED
  BY <1>2 DEF Remembering, Sound, Bounded, IndexAgrees, Exclusive, Live,
              Unambiguous, PinsAreLive, Answerable, AnswersGrant

\* Every operation of the lease manager keeps its history in order.
LEMMA NextRemembering == HistoryInv /\ [Next]_vars => HistoryInv'
<1> SUFFICES ASSUME HistoryInv, [Next]_vars PROVE HistoryInv'
  OBVIOUS
<1> DEFINE m == Current
           Goal == Remembering(manager)'
<1>1. Remembering(m) /\ Sound(m)
  <2>1. Remembering(m)
    BY RemoveLeasesRemembering DEF HistoryInv, Current, Expire
  <2> QED
    BY <2>1 DEF Remembering
<1>2. clock \in Instants
  BY DEF HistoryInv
<1>3. clock' \in Instants
  <2>1. Inv
    BY DEF HistoryInv, Inv, Remembering
  <2> QED
    BY <2>1, NextSound DEF Inv
<1>4. CASE Advance \/ UNCHANGED vars
  <2>1. manager' = manager /\ Remembering(manager)
    BY <1>4 DEF Advance, manager, vars, HistoryInv
  <2>2. ManagerBecomes(manager)
    BY <1>4 DEF Advance, manager, vars, ManagerBecomes
  <2> QED
    BY <1>3, <2>1, <2>2, BecomesRemembering DEF HistoryInv
<1>5. CASE Requests(m)
  <2> HIDE DEF m, Goal
  <2>1. ASSUME NEW op \in AcquireOps, AcquireConflict(m, op) PROVE Goal
    <3>1. PICK p \in ConflictsOf(m, op) :
            ManagerBecomes(Remember(m, op, ConflictResult(m, p), NoLease))
      BY <2>1 DEF AcquireConflict
    <3>2. Remembering(Remember(m, op, ConflictResult(m, p), NoLease))
      <4>1. CanRemember(m) /\ ~Answered(m, op) /\ op \in Operations
        BY <2>1 DEF AcquireConflict, AcquireConflicts, Operations
      <4>2. ConflictResult(m, p) \in Conflicts
        BY <1>1, ConflictResultType
      <4> QED
        BY <1>1, <4>1, <4>2, RememberRemembering
    <3> QED
      BY <3>1, <3>2, BecomesRemembering DEF Goal
  <2>2. ASSUME NEW op \in AcquireOps, NEW lease \in LeaseIds, AcquireGranted(m, op, lease)
        PROVE  Goal
    BY <1>1, <1>2, <2>2, GrantRemembering, BecomesRemembering DEF AcquireGranted, Goal
  <2>3. ASSUME NEW op \in AcquireOps, NEW lease \in LeaseIds, AcquireOverflow(m, op, lease)
        PROVE  Goal
    BY <1>1, <2>3, ReserveRemembering, BecomesRemembering
       DEF AcquireOverflow, AcquireOverflows, AcquireReserves, Goal
  <2>4. ASSUME ManagerBecomes(m) PROVE Goal
    BY <1>1, <2>4, BecomesRemembering DEF Goal
  <2>5. ASSUME NEW op \in RenewOps, RenewGranted(m, op) PROVE Goal
    BY <1>1, <1>2, <2>5, RenewLeaseRemembering, BecomesRemembering DEF RenewGranted, Goal
  <2>6. ASSUME NEW op \in ReleaseOps, ReleaseGranted(m, op) PROVE Goal
    BY <1>1, <2>6, ReleaseRemembering, BecomesRemembering DEF ReleaseGranted, Goal
  <2>7. ASSUME NEW client \in Clients, NEW lease \in LeaseIds, NEW duration \in Durations,
               Renew(m, client, lease, duration)
        PROVE  Goal
    <3>1. lease \in Live(m) /\ clock + duration <= MaxMonotonic
      BY <2>7 DEF Renew, IsOwner
    <3> QED
      BY <1>1, <1>2, <2>7, <3>1, RenewedRemembering, BecomesRemembering DEF Renew, Goal
  <2>8. ASSUME NEW client \in Clients, NEW lease \in LeaseIds, Release(m, client, lease)
        PROVE  Goal
    BY <1>1, <2>8, RemoveLeasesRemembering, BecomesRemembering DEF Release, Goal
  <2>9. Goal
    BY <1>5, <2>1, <2>2, <2>3, <2>4, <2>5, <2>6, <2>7, <2>8
       DEF Requests, Acquire, RenewRequest, ReleaseRequest,
           AcquireAnsweredOrRefused, RenewAnsweredOrRefused, ReleaseAnsweredOrRefused
  <2> QED
    BY <1>3, <2>9 DEF Goal, HistoryInv
<1>6. ASSUME NEW ls, ManagerBecomes(RemoveLeases(manager, ls)) PROVE HistoryInv'
  BY <1>3, <1>6, RemoveLeasesRemembering, BecomesRemembering DEF HistoryInv
<1>7. CASE ExpireLeases
  BY <1>1, <1>3, <1>7, BecomesRemembering DEF ExpireLeases, HistoryInv
<1> QED
  BY <1>4, <1>5, <1>6, <1>7 DEF Next, ReleaseClient, InvalidateGeneration

\* The bounded history keeps one answer per request and the answers live leases pin
\* (reserve_history_slot, pinned_lease).
THEOREM HistoryKept == Spec => []HistoryInv
<1> QED
  BY InitRemembering, NextRemembering, PTL DEF Spec

\* A client and request identity has at most one retained answer, and only live
\* leases pin answers, each one an answer to the lease's own client.
THEOREM AnswersAreUnambiguousHolds == Spec => []AnswersAreUnambiguous
<1>1. HistoryInv => AnswersAreUnambiguous
  BY DEF HistoryInv, Remembering, Unambiguous, PinsAreLive, Live, manager, AnswersAreUnambiguous
<1> QED
  BY <1>1, HistoryKept, PTL

\* While a lease lives the history keeps the answer that granted it, so an exact
\* retry is answered from it and never granted again.
THEOREM GrantStaysAnswerableHolds == Spec => []GrantStaysAnswerable
<1>1. HistoryInv => GrantStaysAnswerable
  BY DEF HistoryInv, Remembering, Answerable, AnswersGrant, manager, GrantStaysAnswerable
<1> QED
  BY <1>1, HistoryKept, PTL
===========================================================================
