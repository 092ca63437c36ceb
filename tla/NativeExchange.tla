-------------------------- MODULE NativeExchange --------------------------
(***************************************************************************)
(* The native exchange path of the bridge: the actor's fair route queue    *)
(* (hfx-bridge native_scheduler.rs, actor.rs), the idempotency journal of  *)
(* exchanges (native_exchange.rs), the tombstones of invalidated routes    *)
(* (native_invalidation.rs) and the backend operations that use them       *)
(* (backend/rpc_impl.rs, backend/native.rs).                               *)
(*                                                                         *)
(* Each client has one connection and one call in flight on it: the        *)
(* connection loop reads the next request after it has answered the last.  *)
(* The actor is one thread, so each operation is one step.  Route tokens   *)
(* are drawn fresh, so a token that is invalidated never becomes current   *)
(* again.  Time is in milliseconds.                                        *)
(***************************************************************************)
EXTENDS Naturals, FiniteSets, SequencesExt, Filtering

CONSTANTS
    Clients,            \* clients, each with its connection
    Lessees,            \* the clients that take leases of their own
    RequestIds,         \* request identities of one client
    Tokens,             \* native route tokens, one lane of the queue each
    TokenOrder,         \* the tokens in the order of their values
    Timeouts,           \* timeouts a request may carry
    QueueCapacity,      \* bound of FairRouteQueue
    JournalCapacity,    \* bound of the exchange journal and of the tombstones
    MaxClock,           \* bound of the clock
    NoRecord,           \* no entry
    NoOwner             \* nobody holds the lease

ASSUME NativeConstants ==
    /\ Lessees \subseteq Clients
    /\ QueueCapacity \in Nat \ {0}
    /\ JournalCapacity \in Nat \ {0}
    /\ Timeouts \subseteq Nat \ {0}
    /\ MaxClock \in Nat
    /\ TokenOrder \in Seq(Tokens) /\ ToSet(TokenOrder) = Tokens

VARIABLES
    lanes,      \* FairRouteQueue.lanes: queued calls of each route
    rotation,   \* FairRouteQueue.rotation
    records,    \* NativeExchangeJournal.records
    order,      \* NativeExchangeJournal.order
    routes,     \* state of each token: "unissued", "current", "invalid"
    tombstones, \* NativeInvalidationJournal.order, the keys of reasons
    notices,    \* NativeInvalidationJournal.pending
    owner,      \* client whose lease covers the route of a token
    clock,      \* Instant::now
    sets,       \* history: SETs begun for each identity the journal remembers
    misjudged   \* history: an exact retry was refused as a reused identity

vars == <<lanes, rotation, records, order, routes, tombstones, notices,
          owner, clock, sets, misjudged>>
queue == <<lanes, rotation>>
exchanges == <<records, order, sets, misjudged>>
inventory == <<routes, tombstones, notices>>
environment == <<owner, clock>>

Requests == [client : Clients, request : RequestIds, token : Tokens, timeout : Timeouts]

Items == [request : Requests, deadline : Nat]

Keys == Clients \X RequestIds

Key(r) == <<r.client, r.request>>

Results == {"not-sent", "may-have-been-sent", "matched-response"}

\* token and timeout stand for the content the journal compares; asked is the
\* request as the client sent it.
Records ==
    [token : Tokens, timeout : Nat, asked : Requests, result : Results]

ASSUME NoRecordIsNoEntry == NoRecord \notin Records

Init ==
    /\ lanes = [t \in Tokens |-> <<>>]
    /\ rotation = <<>>
    /\ records = [k \in Keys |-> NoRecord]
    /\ order = <<>>
    /\ routes = [t \in Tokens |-> "unissued"]
    /\ tombstones = <<>>
    /\ notices = {}
    /\ owner = [t \in Tokens |-> NoOwner]
    /\ clock = 0
    /\ sets = [k \in Keys |-> 0]
    /\ misjudged = FALSE

---------------------------------------------------------------------------
(***************************************************************************)
(* FairRouteQueue                                                          *)
(***************************************************************************)
Pending == UNION {ToSet(lanes[t]) : t \in Tokens}

Slots == UNION {{t} \X DOMAIN lanes[t] : t \in Tokens}

Length == Cardinality(Slots)

Admit(item) ==
    LET t == item.request.token IN
    /\ lanes' = [lanes EXCEPT ![t] = Append(@, item)]
    /\ rotation' = IF lanes[t] = <<>> THEN Append(rotation, t) ELSE rotation

\* Mutant: a route that still has work keeps its turn.
PopAndKeepTurn ==
    LET t == Head(rotation) IN
    /\ lanes' = [lanes EXCEPT ![t] = Tail(@)]
    /\ rotation' = IF Len(lanes[t]) = 1 THEN Tail(rotation) ELSE rotation

PopNext ==
    LET t == Head(rotation) IN
    /\ lanes' = [lanes EXCEPT ![t] = Tail(@)]
    /\ rotation' = IF Len(lanes[t]) = 1 THEN Tail(rotation) ELSE Append(Tail(rotation), t)

\* What remains of the lanes; an emptied lane is removed.
Retained(removed) == [t \in Tokens |-> Without(lanes[t], removed)]

\* Mutant: emptied lanes stay in the rotation.
RemoveFromLanes(removed) ==
    /\ lanes' = Retained(removed)
    /\ UNCHANGED rotation

RemoveWhere(removed) ==
    /\ lanes' = Retained(removed)
    /\ rotation' = Without(rotation, {t \in Tokens : Retained(removed)[t] = <<>>})

\* What remove_where returns: lane by lane in the order of the map's keys.
\* Tokens are random values, so any of them may be issued first.
Removed(removed) ==
    LET taken[n \in 0 .. Len(TokenOrder)] ==
            IF n = 0 THEN <<>>
            ELSE LET lane == lanes[TokenOrder[n]]
                 IN  taken[n - 1] \o Without(lane, ToSet(lane) \ removed)
    IN  taken[Len(TokenOrder)]

---------------------------------------------------------------------------
(***************************************************************************)
(* NativeExchangeJournal.  An exchange value is the record [records,       *)
(* order, sets, misjudged].                                                *)
(***************************************************************************)
Exchanges == [records |-> records, order |-> order, sets |-> sets, misjudged |-> misjudged]

ExchangesBecome(x) ==
    \E y \in {x} :
        /\ records' = y.records
        /\ order' = y.order
        /\ sets' = y.sets
        /\ misjudged' = y.misjudged

\* The key has a record: an equal request gets its outcome, any other is refused.
Judge(x, r, asked) ==
    LET record == x.records[Key(r)] IN
    [x EXCEPT !.misjudged =
        @ \/ /\ record.asked = asked
             /\ <<record.token, record.timeout>> # <<r.token, r.timeout>>]

\* Mutant: the order of a full journal keeps the evicted key.
RememberKeepingOrder(x, r, asked, result, begun) ==
    LET full == Len(x.order) = JournalCapacity
        record == [token |-> r.token, timeout |-> r.timeout, asked |-> asked, result |-> result]
    IN  [x EXCEPT
           !.order = Append(x.order, Key(r)),
           !.records = [k \in Keys |->
              IF k = Key(r) THEN record
              ELSE IF full /\ k = Head(x.order) THEN NoRecord ELSE @[k]]]

\* remember for a key without a record: the oldest record makes room.
Remember(x, r, asked, result, begun) ==
    LET full == Len(x.order) = JournalCapacity
        kept == IF full THEN Tail(x.order) ELSE x.order
        record == [token |-> r.token, timeout |-> r.timeout, asked |-> asked, result |-> result]
    IN  [x EXCEPT
           !.order = Append(kept, Key(r)),
           !.records = [k \in Keys |->
              IF k = Key(r) THEN record
              ELSE IF full /\ k = Head(x.order) THEN NoRecord ELSE @[k]],
           !.sets = [k \in Keys |->
              IF k = Key(r) THEN @[k] + begun
              ELSE IF full /\ k = Head(x.order) THEN 0 ELSE @[k]]]

\* reject_native_before_set through complete_native_exchange.
Reject(x, r, asked) ==
    IF x.records[Key(r)] # NoRecord THEN Judge(x, r, asked)
    ELSE Remember(x, r, asked, "not-sent", 0)

\* reject_pending_native for each removed call, with the request as it was sent.
RejectEach(x, calls) ==
    LET rejected[n \in 0 .. Len(calls)] ==
            IF n = 0 THEN x
            ELSE Reject(rejected[n - 1], calls[n].request, calls[n].request)
    IN  rejected[Len(calls)]

---------------------------------------------------------------------------
(***************************************************************************)
(* Calls                                                                   *)
(***************************************************************************)
Idle(c) == \A item \in Pending : item.request.client # c

\* process_request: the call is queued with an absolute deadline, or rejected
\* and remembered when the queue is full.
Transact(r) ==
    /\ Idle(r.client)
    /\ routes[r.token] # "unissued"
    /\ IF Length < QueueCapacity
       THEN Admit([request |-> r, deadline |-> clock + r.timeout]) /\ UNCHANGED exchanges
       ELSE ExchangesBecome(Reject(Exchanges, r, r)) /\ UNCHANGED queue
    /\ UNCHANGED <<inventory, environment>>

\* The milliseconds left of a deadline: the clock is finer than its readings.
Remaining(item) ==
    IF item.deadline <= clock THEN {0} ELSE {item.deadline - clock - 1, item.deadline - clock}

\* Mutant: the journal is consulted only for the exchange's own result.
ServeAnyway(r, asked) ==
    /\ routes[r.token] = "current"
    /\ ExchangesBecome([Remember(Exchanges, r, asked, "matched-response", 1)
                          EXCEPT !.order = IF records[Key(r)] = NoRecord THEN @ ELSE order])

\* Mutant: only the tombstones withdraw a route.
AuthorisedByTombstones(r) ==
    /\ r.token \notin ToSet(tombstones)
    /\ owner[r.token] = r.client

\* The gates of native_transact that other operations can close.
Authorised(r) ==
    /\ r.token \notin ToSet(tombstones)
    /\ routes[r.token] = "current"
    /\ owner[r.token] = r.client

\* native_transact.  A journalled identity is answered without transport; a
\* closed gate, or a fixed one (profile, endpoint, report, command policy),
\* rejects; else transport is called, and only not-sent is certain that no SET
\* began.
Serve(r, asked) ==
    \/ records[Key(r)] # NoRecord /\ ExchangesBecome(Judge(Exchanges, r, asked))
    \/ records[Key(r)] = NoRecord /\ ExchangesBecome(Remember(Exchanges, r, asked, "not-sent", 0))
    \/ /\ records[Key(r)] = NoRecord
       /\ Authorised(r)
       /\ \/ ExchangesBecome(Remember(Exchanges, r, asked, "matched-response", 1))
          \/ \E begun \in {0, 1} :
               ExchangesBecome(Remember(Exchanges, r, asked, "may-have-been-sent", begun))

\* dispatch_next_native: the timeout of the request becomes what is left of it.
DispatchNextNative ==
    /\ rotation # <<>>
    /\ PopNext
    /\ LET item == Head(lanes[Head(rotation)]) IN
       \E left \in Remaining(item) :
          IF left = 0
          THEN ExchangesBecome(Reject(Exchanges, item.request, item.request))
          ELSE Serve([item.request EXCEPT !.timeout = left], item.request)
    /\ UNCHANGED <<inventory, environment>>

\* close: queued calls are rejected while the session still authorises them,
\* then the client's leases are released.
CloseConnection(c) ==
    LET removed == {item \in Pending : item.request.client = c} IN
    /\ removed # {} \/ \E t \in Tokens : owner[t] = c
    /\ RemoveWhere(removed)
    /\ ExchangesBecome(RejectEach(Exchanges, Removed(removed)))
    /\ owner' = [t \in Tokens |-> IF owner[t] = c THEN NoOwner ELSE owner[t]]
    /\ UNCHANGED <<inventory, clock>>

---------------------------------------------------------------------------
(***************************************************************************)
(* Routes: synchronize_native_routes, in the tick of every operation.      *)
(***************************************************************************)
RouteAvailable(t) ==
    /\ routes[t] = "unissued"
    /\ routes' = [routes EXCEPT ![t] = "current"]
    /\ UNCHANGED <<queue, exchanges, tombstones, notices, environment>>

\* invalidate_route of the journal and invalidate of the tombstones.
RouteInvalidated(t) ==
    LET full == Len(tombstones) = JournalCapacity IN
    /\ routes[t] = "current"
    /\ routes' = [routes EXCEPT ![t] = "invalid"]
    /\ records' = [k \in Keys |->
          IF records[k] # NoRecord /\ records[k].token = t
          THEN [records[k] EXCEPT !.result = "not-sent"] ELSE records[k]]
    /\ tombstones' = Append(IF full THEN Tail(tombstones) ELSE tombstones, t)
    /\ notices' = (IF full THEN notices \ {Head(tombstones)} ELSE notices) \union {t}
    /\ UNCHANGED <<queue, order, sets, misjudged, environment>>

CancelInvalidatedNative ==
    LET removed == {item \in Pending : item.request.token \in notices} IN
    /\ notices # {}
    /\ notices' = {}
    /\ RemoveWhere(removed)
    /\ ExchangesBecome(RejectEach(Exchanges, Removed(removed)))
    /\ UNCHANGED <<routes, tombstones, environment>>

\* A lease over the route's resource is granted, released or expires.
LeaseChanges(t) ==
    /\ routes[t] # "unissued"
    /\ \E c \in (Lessees \union {NoOwner}) \ {owner[t]} : owner' = [owner EXCEPT ![t] = c]
    /\ UNCHANGED <<queue, exchanges, inventory, clock>>

Advance ==
    /\ clock < MaxClock
    /\ clock' = clock + 1
    /\ UNCHANGED <<queue, exchanges, inventory, owner>>

Next ==
    \/ \E r \in Requests : Transact(r)
    \/ DispatchNextNative
    \/ \E c \in Clients : CloseConnection(c)
    \/ \E t \in Tokens : RouteAvailable(t) \/ RouteInvalidated(t) \/ LeaseChanges(t)
    \/ CancelInvalidatedNative
    \/ Advance

\* The actor dispatches one queued call in every round of its loop and waits
\* for commands only while nothing is queued.
Fairness == WF_vars(DispatchNextNative)

Spec == Init /\ [][Next]_vars /\ Fairness

---------------------------------------------------------------------------
(***************************************************************************)
(* Properties                                                              *)
(***************************************************************************)
\* The state has its type, and queue, journal and tombstones are bounded.
TypeOK ==
    /\ lanes \in [Tokens -> Seq(Items)]
    /\ Length <= QueueCapacity
    /\ rotation \in Seq(Tokens)
    /\ records \in [Keys -> Records \union {NoRecord}]
    /\ Len(order) <= JournalCapacity /\ ToSet(order) = {k \in Keys : records[k] # NoRecord}
    /\ routes \in [Tokens -> {"unissued", "current", "invalid"}]
    /\ Len(tombstones) <= JournalCapacity
    /\ notices \subseteq ToSet(tombstones)
    /\ owner \in [Tokens -> Lessees \union {NoOwner}]
    /\ clock \in 0 .. MaxClock

\* The rotation lists every route with queued calls exactly once and no other,
\* so the two expectations of pop_next never panic.
RotationIsExact ==
    /\ IsInjective(rotation)
    /\ ToSet(rotation) = {t \in Tokens : lanes[t] # <<>>}

\* A call the journal remembers began at most one SET, however often it is
\* retried, and a matched response did begin one.
AtMostOneSet ==
    \A k \in Keys :
        /\ sets[k] <= 1
        /\ records[k] # NoRecord /\ records[k].result = "matched-response" => sets[k] = 1

\* A SET begins only for the call at the head of its lane, on a token that is
\* current and leased to the caller, before the call's own deadline: what was
\* checked at admission may have changed while the call was queued.
SetsAreAuthorised ==
    [][\A k \in Keys : sets'[k] > sets[k] =>
         \E t \in Tokens :
            /\ lanes[t] # <<>>
            /\ Key(Head(lanes[t]).request) = k
            /\ routes[t] = "current"
            /\ owner[t] = k[1]
            /\ clock < Head(lanes[t]).deadline]_vars

\* Every queued call is eventually answered, however busy the other routes are.
EveryCallIsAnswered ==
    \A c \in Clients : ~Idle(c) ~> Idle(c)

\* native_exchange.rs, retained: an exact retained request is resolved from the
\* journal; it is never refused as a reuse of its identity.
ExactRetryIsResolved == ~misjudged
===========================================================================
