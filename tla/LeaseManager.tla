--------------------------- MODULE LeaseManager ---------------------------
(***************************************************************************)
(* The bounded lease manager of crates/hfx-core/src/leases.rs, as          *)
(* operators on a manager value.  A manager is the record                  *)
(*                                                                         *)
(*    [leases, owners, history]                                            *)
(*                                                                         *)
(* with the three collections of the Rust struct: the live grants by lease *)
(* id, the ownership index by resource, and the idempotency history, a     *)
(* queue of answered requests.  A map that has no entry for a key holds    *)
(* NoLease there.  The operators take the manager they start from, because *)
(* every operation of the code first expires leases and then works on what *)
(* is left, and because the bridge calls several of them in one request.   *)
(***************************************************************************)
EXTENDS Naturals, FiniteSets, SequencesExt

CONSTANTS
    Clients,        \* client identities
    RequestIds,     \* request identities a client can put on a call
    LeaseIds,       \* lease identities the bridge can draw
    Resources,      \* records [scope, device, kind]; a scope is one receiver generation
    Durations,      \* lease durations a request can ask for, in milliseconds
    MaxLeases,      \* max_leases
    MaxHistory,     \* max_history
    MaxResources,   \* bound of validate_lease_request on one request
    MaxMonotonic,   \* the largest monotonic instant (u64::MAX in the code)
    NoLease         \* no entry

ASSUME LeaseConstants ==
    /\ MaxLeases \in Nat \ {0}
    /\ MaxHistory \in Nat
    /\ MaxHistory >= MaxLeases
    /\ MaxMonotonic \in Nat
    /\ Durations \subseteq Nat \ {0}
    /\ NoLease \notin LeaseIds
    /\ IsFiniteSet(LeaseIds)

NativeControl == "native-control"

Instants == 0 .. MaxMonotonic

Grants ==
    [client : Clients, resources : SUBSET Resources,
     expires : Instants, state : {"granted", "renewed", "released"}]

ASSUME NoLeaseIsNoGrant ==
    /\ NoLease \notin Grants
    /\ NoLease \notin [client : Clients, resources : SUBSET Resources]

Conflicts == [conflicting_client : Clients, conflicting_resource : Resources]

(***************************************************************************)
(* LeaseOperation: the request a record of the history answers.            *)
(***************************************************************************)
AcquireOps ==
    [op : {"acquire"}, client : Clients, request : RequestIds,
     resources : SUBSET Resources, duration : Durations]

RenewOps ==
    [op : {"renew"}, client : Clients, request : RequestIds,
     lease : LeaseIds, duration : Durations]

ReleaseOps ==
    [op : {"release"}, client : Clients, request : RequestIds, lease : LeaseIds]

Operations == AcquireOps \union RenewOps \union ReleaseOps

Records ==
    [request : Operations, result : Grants \union Conflicts,
     pinned : LeaseIds \union {NoLease}]

Key(op) == <<op.client, op.request>>

Managers ==
    [leases : [LeaseIds -> Grants \union {NoLease}],
     owners : [Resources -> LeaseIds \union {NoLease}],
     history : Seq(Records)]

EmptyManager ==
    [leases |-> [l \in LeaseIds |-> NoLease],
     owners |-> [r \in Resources |-> NoLease],
     history |-> <<>>]

Live(m) == {l \in LeaseIds : m.leases[l] # NoLease}

---------------------------------------------------------------------------
(***************************************************************************)
(* Private helpers of the manager.                                         *)
(***************************************************************************)
ResourcesConflict(requested, owned) ==
    /\ requested.scope = owned.scope
    /\ requested.device = owned.device
    /\ \/ requested.kind = owned.kind
       \/ requested.kind = NativeControl
       \/ owned.kind = NativeControl

\* Mutant: removing a lease leaves its resources in the ownership index.
RemoveLeasesKeepingOwners(m, ls) ==
    [m EXCEPT !.leases = [l \in LeaseIds |-> IF l \in ls THEN NoLease ELSE @[l]]]

\* remove_lease for every lease of ls: the grant, its resources in the index
\* and the pins its records hold all go together.
RemoveLeases(m, ls) ==
    [leases  |-> [l \in LeaseIds |-> IF l \in ls THEN NoLease ELSE m.leases[l]],
     owners  |-> [r \in Resources |->
                    IF \E l \in ls \intersect Live(m) : r \in m.leases[l].resources
                    THEN NoLease ELSE m.owners[r]],
     history |-> [i \in 1 .. Len(m.history) |->
                    IF m.history[i].pinned \in ls
                    THEN [m.history[i] EXCEPT !.pinned = NoLease]
                    ELSE m.history[i]]]

\* Mutant: a lease is dropped one millisecond before its deadline.
ExpireEarly(m, now) ==
    RemoveLeases(m, {l \in Live(m) : m.leases[l].expires <= now + 1})

Expire(m, now) == RemoveLeases(m, {l \in Live(m) : m.leases[l].expires <= now})

\* Whether reserve_history_slot succeeds.
CanRemember(m) ==
    \/ Len(m.history) < MaxHistory
    \/ \E i \in 1 .. Len(m.history) : m.history[i].pinned = NoLease

\* Mutant: eviction takes the oldest answer even when a live lease pins it.
ReserveOldestSlot(m) ==
    [m EXCEPT !.history = IF Len(@) < MaxHistory THEN @ ELSE Tail(@)]

\* Mutant: the history is never trimmed.
ReserveNothing(m) == m

\* A successful reserve_history_slot.  The history never exceeds MaxHistory, so
\* the loop of the code removes at most one answer.
ReserveHistorySlot(m) ==
    [m EXCEPT !.history =
        IF Len(@) < MaxHistory THEN @
        ELSE RemoveFirstMatch(@, LAMBDA rec : rec.pinned = NoLease)]

Remember(m, op, result, pinned) ==
    LET room == ReserveHistorySlot(m) IN
    [room EXCEPT !.history =
        Append(@, [request |-> op, result |-> result, pinned |-> pinned])]

\* Mutant: only an exact retry is recognised, not a reused identity.
AnsweredExactly(m, op) ==
    \E i \in 1 .. Len(m.history) : m.history[i].request = op

\* The history holds an answer for the client and request identity: an exact
\* retry gets it back, any other use of the identity is refused.
Answered(m, op) ==
    \E i \in 1 .. Len(m.history) : Key(m.history[i].request) = Key(op)

ValidLeaseRequest(op) ==
    op.resources # {} /\ Cardinality(op.resources) <= MaxResources

\* Mutant: the ownership index is read only at the requested resources.
IndexedConflictsOf(m, op) ==
    {p \in op.resources \X op.resources : p[1] = p[2] /\ m.owners[p[2]] # NoLease}

\* Every requested resource that meets an owned one it conflicts with.  The code
\* reports the first in resource order; the order is abstracted.
ConflictsOf(m, op) ==
    {p \in op.resources \X Resources :
        m.owners[p[2]] # NoLease /\ ResourcesConflict(p[1], p[2])}

ConflictResult(m, p) ==
    [conflicting_client |-> m.leases[m.owners[p[2]]].client,
     conflicting_resource |-> p[1]]

HasCapacityFor(m, lease) ==
    m.leases[lease] = NoLease /\ Cardinality(Live(m)) < MaxLeases

---------------------------------------------------------------------------
(***************************************************************************)
(* The manager after an operation that changes ownership.                  *)
(***************************************************************************)
NewGrant(op, now) ==
    [client |-> op.client, resources |-> op.resources,
     expires |-> now + op.duration, state |-> "granted"]

GrantLease(m, op, lease, now) ==
    LET grant == NewGrant(op, now)
        granted == [m EXCEPT !.leases[lease] = grant,
                             !.owners = [r \in Resources |->
                                IF r \in op.resources THEN lease ELSE @[r]]]
    IN  Remember(granted, op, grant, lease)

Renewed(m, lease, duration, now) ==
    [m EXCEPT !.leases[lease].expires = now + duration,
              !.leases[lease].state = "renewed"]

RenewLease(m, op, now) ==
    LET renewed == Renewed(m, op.lease, op.duration, now)
    IN  Remember(renewed, op, renewed.leases[op.lease], op.lease)

\* The slot is reserved while the lease still pins its answers, then the lease
\* goes and the released grant is remembered unpinned.
ReleaseLease(m, op) ==
    LET room == ReserveHistorySlot(m)
        released == [m.leases[op.lease] EXCEPT !.state = "released"]
        gone == RemoveLeases(room, {op.lease})
    IN  [gone EXCEPT !.history =
            Append(@, [request |-> op, result |-> released, pinned |-> NoLease])]

LeasesOfClient(m, client) == {l \in Live(m) : m.leases[l].client = client}

LeasesOfScope(m, scope) ==
    {l \in Live(m) : \E r \in m.leases[l].resources : r.scope = scope}

Owns(m, client, lease, resources, now) ==
    /\ lease \in Live(m)
    /\ m.leases[lease].client = client
    /\ m.leases[lease].expires > now
    /\ resources \subseteq m.leases[lease].resources

---------------------------------------------------------------------------
(***************************************************************************)
(* When each outcome of acquire_decision, renew_request_decision and       *)
(* release_request_decision is reached, in the order the code tests.  m is *)
(* the manager after its expired leases are gone.                          *)
(***************************************************************************)
AcquireConflicts(m, op) ==
    /\ ValidLeaseRequest(op)
    /\ ~Answered(m, op)
    /\ ConflictsOf(m, op) # {}
    /\ CanRemember(m)

\* The slot is reserved before the deadline is computed.
AcquireReserves(m, op, lease) ==
    /\ ValidLeaseRequest(op)
    /\ ~Answered(m, op)
    /\ ConflictsOf(m, op) = {}
    /\ HasCapacityFor(m, lease)
    /\ CanRemember(m)

AcquireGrants(m, op, lease, now) ==
    AcquireReserves(m, op, lease) /\ now + op.duration <= MaxMonotonic

AcquireOverflows(m, op, lease, now) ==
    AcquireReserves(m, op, lease) /\ now + op.duration > MaxMonotonic

IsOwner(m, op) == op.lease \in Live(m) /\ m.leases[op.lease].client = op.client

RenewGrants(m, op, now) ==
    /\ ~Answered(m, op)
    /\ IsOwner(m, op)
    /\ now + op.duration <= MaxMonotonic
    /\ CanRemember(m)

ReleaseGrants(m, op) == ~Answered(m, op) /\ IsOwner(m, op) /\ CanRemember(m)
===========================================================================
