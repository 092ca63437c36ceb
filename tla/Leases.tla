------------------------------ MODULE Leases ------------------------------
(***************************************************************************)
(* The lease manager as a system: clients call it at any time and in any   *)
(* order, requests are retried and request identities are reused, the      *)
(* clock advances between calls, clients disconnect and receiver           *)
(* generations end.  The manager runs on the bridge's single actor thread, *)
(* so each call is one step.                                               *)
(***************************************************************************)
EXTENDS LeaseManager

VARIABLES
    leases,     \* LeaseManager.leases
    owners,     \* LeaseManager.owners
    history,    \* LeaseManager.history
    clock       \* the monotonic clock the caller reads

vars == <<leases, owners, history, clock>>

Scopes == {r.scope : r \in Resources}

manager == [leases |-> leases, owners |-> owners, history |-> history]

ManagerBecomes(m) ==
    /\ leases' = m.leases
    /\ owners' = m.owners
    /\ history' = m.history

\* What every request sees: the manager without its expired leases.
Current == Expire(manager, clock)

Init ==
    /\ leases = EmptyManager.leases
    /\ owners = EmptyManager.owners
    /\ history = EmptyManager.history
    /\ clock = 0

Advance == clock < MaxMonotonic /\ clock' = clock + 1 /\ UNCHANGED <<leases, owners, history>>

---------------------------------------------------------------------------
(***************************************************************************)
(* acquire_decision.  In the actions of this section m is Current.         *)
(***************************************************************************)
AcquireGranted(m, op, lease) ==
    /\ AcquireGrants(m, op, lease, clock)
    /\ ManagerBecomes(GrantLease(m, op, lease, clock))
    /\ UNCHANGED clock

AcquireConflict(m, op) ==
    /\ AcquireConflicts(m, op)
    /\ \E p \in ConflictsOf(m, op) :
         ManagerBecomes(Remember(m, op, ConflictResult(m, p), NoLease))
    /\ UNCHANGED clock

\* The deadline overflows after the history slot was reserved.
AcquireOverflow(m, op, lease) ==
    /\ AcquireOverflows(m, op, lease, clock)
    /\ ManagerBecomes(ReserveHistorySlot(m))
    /\ UNCHANGED clock

\* A malformed request, a replay, a reused identity, no capacity or no slot.
AcquireAnsweredOrRefused(m, op, lease) ==
    /\ ~AcquireConflicts(m, op)
    /\ ~AcquireReserves(m, op, lease)
    /\ ManagerBecomes(m)
    /\ UNCHANGED clock

Acquire(m) ==
    \E op \in AcquireOps :
        \/ AcquireConflict(m, op)
        \/ \E lease \in LeaseIds :
              \/ AcquireGranted(m, op, lease)
              \/ AcquireOverflow(m, op, lease)
              \/ AcquireAnsweredOrRefused(m, op, lease)

(***************************************************************************)
(* renew_request_decision and release_request_decision.  Replays and every *)
(* error leave the manager as expiry left it.                              *)
(***************************************************************************)
RenewGranted(m, op) ==
    /\ RenewGrants(m, op, clock)
    /\ ManagerBecomes(RenewLease(m, op, clock))
    /\ UNCHANGED clock

RenewAnsweredOrRefused(m, op) ==
    ~RenewGrants(m, op, clock) /\ ManagerBecomes(m) /\ UNCHANGED clock

RenewRequest(m) ==
    \E op \in RenewOps : RenewGranted(m, op) \/ RenewAnsweredOrRefused(m, op)

ReleaseGranted(m, op) ==
    /\ ReleaseGrants(m, op)
    /\ ManagerBecomes(ReleaseLease(m, op))
    /\ UNCHANGED clock

ReleaseAnsweredOrRefused(m, op) ==
    ~ReleaseGrants(m, op) /\ ManagerBecomes(m) /\ UNCHANGED clock

ReleaseRequest(m) ==
    \E op \in ReleaseOps : ReleaseGranted(m, op) \/ ReleaseAnsweredOrRefused(m, op)

(***************************************************************************)
(* renew and release, the operations without an idempotency identity.      *)
(***************************************************************************)
Renew(m, client, lease, duration) ==
    /\ IsOwner(m, [client |-> client, lease |-> lease])
    /\ clock + duration <= MaxMonotonic
    /\ ManagerBecomes(Renewed(m, lease, duration, clock))
    /\ UNCHANGED clock

Release(m, client, lease) ==
    /\ IsOwner(m, [client |-> client, lease |-> lease])
    /\ ManagerBecomes(RemoveLeases(m, {lease}))
    /\ UNCHANGED clock

\* release_client and invalidate_generation do not read the clock.
ReleaseClient(client) ==
    /\ ManagerBecomes(RemoveLeases(manager, LeasesOfClient(manager, client)))
    /\ UNCHANGED clock

InvalidateGeneration(scope) ==
    /\ ManagerBecomes(RemoveLeases(manager, LeasesOfScope(manager, scope)))
    /\ UNCHANGED clock

\* expire, and ownership_snapshot, whose only effect is the same.
ExpireLeases == ManagerBecomes(Current) /\ UNCHANGED clock

Requests(m) ==
    \/ Acquire(m)
    \/ RenewRequest(m)
    \/ ReleaseRequest(m)
    \/ \E client \in Clients, lease \in LeaseIds :
         \/ \E duration \in Durations : Renew(m, client, lease, duration)
         \/ Release(m, client, lease)

Next ==
    \/ Advance
    \/ LET m == Current IN Requests(m)
    \/ \E client \in Clients : ReleaseClient(client)
    \/ \E scope \in Scopes : InvalidateGeneration(scope)
    \/ ExpireLeases

Spec == Init /\ [][Next]_vars

---------------------------------------------------------------------------
(***************************************************************************)
(* Properties                                                              *)
(***************************************************************************)
\* The collections have their types and stay within max_leases and max_history.
TypeOK ==
    /\ leases \in [LeaseIds -> Grants \union {NoLease}]
    /\ owners \in [Resources -> LeaseIds \union {NoLease}]
    /\ history \in Seq(Records)
    /\ Cardinality(Live(manager)) <= MaxLeases
    /\ Len(history) <= MaxHistory
    /\ clock \in Instants

\* No two live leases hold conflicting resources: native control of a child
\* excludes every other domain of that child (resources_conflict).
MutualExclusion ==
    \A l1, l2 \in Live(manager) : l1 # l2 =>
        \A r1 \in leases[l1].resources, r2 \in leases[l2].resources :
            ~ResourcesConflict(r1, r2)

\* The ownership index and the live grants say the same: conflict detection
\* reads only the index, authorisation (owns) reads only the grants.
IndexMatchesGrants ==
    \A r \in Resources, l \in LeaseIds :
        owners[r] = l <=> l \in Live(manager) /\ r \in leases[l].resources

\* A live lease keeps the one answer that granted it, for its own client and
\* resources, so an exact retry of that acquisition can neither be evicted nor
\* grant a second lease (pinned_lease, reserve_history_slot).
GrantStaysAnswerable ==
    \A l \in Live(manager) :
        \E i \in 1 .. Len(history) :
            /\ history[i].pinned = l
            /\ history[i].request.op = "acquire"
            /\ history[i].request.client = leases[l].client
            /\ history[i].request.resources = leases[l].resources

\* One client and request identity has at most one retained answer, and only
\* live leases pin answers, each of them an answer to the lease's own client.
AnswersAreUnambiguous ==
    \A i, j \in 1 .. Len(history) :
        /\ Key(history[i].request) = Key(history[j].request) => i = j
        /\ history[i].pinned # NoLease =>
             /\ leases[history[i].pinned] # NoLease
             /\ leases[history[i].pinned].client = history[i].request.client

\* Forced takeover is not part of the protocol: a resource passes from one
\* lease to another in one step only when the first lease's deadline has passed.
NoTakeover ==
    [][\A r \in Resources :
         (owners[r] # NoLease /\ owners'[r] \notin {NoLease, owners[r]})
            => leases[owners[r]].expires <= clock]_vars

\* The lease manager implements exclusive, atomic ownership.
Abstract ==
    INSTANCE Ownership WITH
        Conflict <- ResourcesConflict,
        held <- [l \in LeaseIds |->
                   IF leases[l] = NoLease THEN NoLease
                   ELSE [client |-> leases[l].client, resources |-> leases[l].resources]]

ImplementsOwnership == Abstract!Spec
===========================================================================
