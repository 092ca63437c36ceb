---------------------------- MODULE EventStream ----------------------------
(***************************************************************************)
(* The bounded event stream of the bridge and the program that depends on  *)
(* it most: the OpenRGB runtime, which mirrors the ownership of a          *)
(* controller and rereads the bridge only when the stream tells it to.     *)
(*                                                                         *)
(* The bridge keeps one resource, the lease on it, the ring of the last    *)
(* Capacity events (BoundedEventLog) and the viewer's subscription.  An    *)
(* event is the kind the viewer tells apart: "ownership" makes it reread,  *)
(* "completed" does not.  Every handler first runs tick(), which expires   *)
(* leases at one reading of the clock and announces them, and then reads   *)
(* the clock again; Delay is the time between the two readings, and what   *)
(* expires in between is dropped without an event.                         *)
(*                                                                         *)
(* The viewer is RuntimeWorker::run over the C++ RecoveringClient.  Every  *)
(* exchange is one step; a bridge that is down, or a new one that does not *)
(* know the connection, is a connection error, and so is an answer that    *)
(* does not arrive in time although the bridge served the request.  Its    *)
(* lighting sessions, outcomes and dispatch are left out: they change      *)
(* neither the mirror nor the cursor except through the same refresh.      *)
(***************************************************************************)
EXTENDS Integers, Sequences, SequencesExt

CONSTANTS Clients,          \* the other lessees of the resource
          Capacity,         \* event_capacity
          BatchLimit,       \* max_events of one subscribe request
          MaxBatches,       \* max_event_batches_per_step
          Term,             \* the lease duration
          MaxClock,         \* bound on the clock
          MaxEvents,        \* bound on the events of one bridge process
          MaxRestarts,      \* bound on the bridge's restarts
          MaxLost           \* bound on the answers that come too late

ASSUME EventConstants ==
    /\ Capacity \in Nat \ {0}
    /\ {BatchLimit, MaxBatches, Term, MaxClock, MaxEvents, MaxRestarts, MaxLost} \subseteq Nat

VARIABLES clock, bridge, viewer

vars == <<clock, bridge, viewer>>

NoLease == [owner |-> "none", expires |-> 0]
NoCursor == [epoch |-> 0, sequence |-> 0]

\* refresh_event: the kinds of event that make the viewer read again.
RefreshEvent(kind) == kind # "completed"

\* A new bridge process: a new stream epoch, no leases, no sessions.
Booted(epoch) ==
    [up |-> TRUE, epoch |-> epoch, lease |-> NoLease, log |-> <<>>, latest |-> 0,
     session |-> 0, subscription |-> 0]

Init ==
    /\ clock = 0
    /\ bridge = Booted(1)
    /\ viewer = [pc |-> "reconnect", after |-> "refresh", gap |-> FALSE, connection |-> 0,
                 known |-> 0, subscription |-> 0, cursor |-> NoCursor, view |-> NoLease,
                 required |-> FALSE, needs |-> FALSE, batches |-> 0, lost |-> 0]

---------------------------------------------------------------------------
(***************************************************************************)
(* The event log.                                                          *)
(***************************************************************************)
\* BoundedEventLog::append
Appended(b, kind) ==
    [b EXCEPT !.latest = @ + 1,
              !.log = Append(IF Len(@) = Capacity THEN Tail(@) ELSE @, kind)]

\* The sequence number of the oldest retained event, of the latest when none is.
Oldest(b) == IF b.log = <<>> THEN b.latest ELSE b.latest - Len(b.log) + 1

\* Variant: only a cursor of another stream or ahead of this one is a gap.
BehindIsNoGap(b, cursor) ==
    \/ cursor # NoCursor /\ cursor.epoch # b.epoch
    \/ cursor.sequence > b.latest

\* The gap test of BoundedEventLog::read; no cursor counts as sequence 0.
Gap(b, cursor) ==
    \/ cursor # NoCursor /\ cursor.epoch # b.epoch
    \/ cursor.sequence < Oldest(b) - 1
    \/ cursor.sequence > b.latest

\* BoundedEventLog::read: the events after the cursor, at most BatchLimit of
\* them, and where to go on.  A gap returns no event and does not move.
Batch(b, cursor) ==
    LET gap == Gap(b, cursor)
        first == IF cursor.sequence >= Oldest(b) THEN cursor.sequence - Oldest(b) + 2 ELSE 1
        unread == SubSeq(b.log, first, Len(b.log))
        events == IF gap THEN <<>>
                  ELSE SubSeq(unread, 1, IF Len(unread) > BatchLimit THEN BatchLimit ELSE Len(unread))
        next == IF events = <<>> THEN cursor.sequence ELSE Oldest(b) + first + Len(events) - 2
    IN [gap |-> gap, events |-> events, more |-> ~gap /\ next < b.latest,
        cursor |-> [epoch |-> b.epoch, sequence |-> next]]

\* Variant: a session that has a subscription must name it.
ResolvesByIdentity(b, subscription) ==
    IF b.subscription = b.session THEN subscription = b.session
    ELSE b.subscription = 0 /\ subscription = 0

\* SubscriptionRegistry::resolve: an identity must be the one issued to this
\* session; without one the session's own subscription is found or made.
Resolves(b, subscription) ==
    IF b.subscription = b.session THEN subscription \in {0, b.session}
    ELSE b.subscription = 0 /\ subscription = 0

---------------------------------------------------------------------------
(***************************************************************************)
(* Ownership at the bridge.                                                *)
(***************************************************************************)
Expired(b, now) == b.lease # NoLease /\ b.lease.expires <= now

\* CoreBridgeBackend::expire_leases, the whole of tick() that concerns leases.
Ticked(b, now) ==
    IF Expired(b, now) THEN Appended([b EXCEPT !.lease = NoLease], "ownership") ELSE b

\* LeaseManager::expire as the decision and the projection call it: the
\* expired grants are dropped.
Dropped(b, now) == IF Expired(b, now) THEN [b EXCEPT !.lease = NoLease] ELSE b

\* Between tick() and the decision the clock may be read once more.
Handler(b, now, later) == Dropped(Ticked(b, now), later)

\* The bound on events leaves room for the expiry of the lease that is live.
Fits(b) == b.latest + (IF b.lease = NoLease THEN 0 ELSE 1) <= MaxEvents

\* The clock moves while the handler runs.
Later == {t \in {clock, clock + 1} : t <= MaxClock}

Granted(b, c, now) == Appended([b EXCEPT !.lease = [owner |-> c, expires |-> now + Term]], "ownership")

AcquireLease(c) ==
    \E later \in Later :
        LET b == Handler(bridge, clock, later)
        IN /\ bridge.up
           /\ clock' = later
           /\ bridge' = IF b.lease = NoLease THEN Granted(b, c, later) ELSE b
           /\ Fits(bridge')
           /\ UNCHANGED viewer

RenewLease(c) ==
    \E later \in Later :
        LET b == Handler(bridge, clock, later)
        IN /\ bridge.up
           /\ clock' = later
           /\ bridge' = IF b.lease.owner = c THEN Granted(b, c, later) ELSE b
           /\ Fits(bridge')
           /\ UNCHANGED viewer

ReleaseLease(c) ==
    \E later \in Later :
        LET b == Handler(bridge, clock, later)
        IN /\ bridge.up
           /\ clock' = later
           /\ bridge' = IF b.lease.owner = c
                        THEN Appended([b EXCEPT !.lease = NoLease], "ownership") ELSE b
           /\ UNCHANGED viewer

\* disconnect: tick() and the leases of the client, all announced.
Disconnect(c) ==
    LET b == Ticked(bridge, clock)
    IN /\ bridge.up
       /\ bridge' = IF b.lease.owner = c
                    THEN Appended([b EXCEPT !.lease = NoLease], "ownership") ELSE b
       /\ UNCHANGED <<clock, viewer>>

\* The actor's own tick between requests.
Tick ==
    /\ bridge.up
    /\ bridge' = Ticked(bridge, clock)
    /\ UNCHANGED <<clock, viewer>>

\* Somebody's transaction ends: an event that does not concern the mirror.
TransactionCompletes ==
    /\ bridge.up
    /\ bridge' = Appended(bridge, "completed")
    /\ Fits(bridge')
    /\ UNCHANGED <<clock, viewer>>

Elapse ==
    /\ clock < MaxClock
    /\ clock' = clock + 1
    /\ UNCHANGED <<bridge, viewer>>

\* The bridge process ends; everything above is in memory only.
BridgeStops ==
    /\ bridge.up
    /\ bridge.epoch <= MaxRestarts
    /\ bridge' = [bridge EXCEPT !.up = FALSE]
    /\ UNCHANGED <<clock, viewer>>

BridgeStarts ==
    /\ ~bridge.up
    /\ bridge' = Booted(bridge.epoch + 1)
    /\ UNCHANGED <<clock, viewer>>

---------------------------------------------------------------------------
(***************************************************************************)
(* The viewer.  pc says which exchange comes next: "poll" a subscribe of   *)
(* poll_events, "refresh" the integration_view of refresh_controllers,     *)
(* "resubscribe" and "reread" the SDK's single retry of either after       *)
(* "reconnect".  gap is the argument of the refresh in progress.           *)
(***************************************************************************)
Reachable == bridge.up /\ bridge.session # 0 /\ bridge.session = viewer.connection

\* RuntimeCore::synchronize_connection
Synchronize(v) ==
    IF v.connection = v.known THEN v
    ELSE [v EXCEPT !.subscription = 0, !.cursor = NoCursor, !.known = v.connection,
                   !.required = TRUE]

\* A step that returned without error ends; the next one begins with
\* poll_events.  refresh_if_required rereads first if a refresh is still due.
StepDone(v) ==
    IF v.required THEN [v EXCEPT !.pc = "refresh", !.gap = TRUE]
    ELSE [v EXCEPT !.pc = "poll", !.needs = FALSE, !.batches = 0]

\* A connection error leaves the step; the worker waits and rescans.
StepFailed(v) == [v EXCEPT !.pc = "recover"]

\* Any other error ends the worker: RuntimeWorker::fail.
WorkerFails(v) == [v EXCEPT !.pc = "failed"]

\* poll_events after one batch.
Polled(v, batch, issuer) ==
    LET changed == v.connection # v.known
        w == [Synchronize(v) EXCEPT !.subscription = issuer, !.cursor = batch.cursor]
        needs == w.needs \/ \E kind \in ToSet(batch.events) : RefreshEvent(kind)
        read == [w EXCEPT !.needs = needs, !.required = @ \/ needs, !.batches = @ + 1]
    IN IF batch.gap \/ changed THEN [w EXCEPT !.pc = "refresh", !.gap = TRUE]
       ELSE IF batch.more /\ read.batches < MaxBatches THEN read
       ELSE IF needs THEN [read EXCEPT !.pc = "refresh", !.gap = FALSE]
       ELSE StepDone(read)

\* Variant: the cursor of the last batch is kept, not the view's.
RefreshKeepsCursor(v, b) ==
    LET changed == v.connection # v.known
        w == [Synchronize(v) EXCEPT !.view = b.lease, !.required = FALSE]
    IN StepDone(IF v.gap \/ changed THEN [w EXCEPT !.subscription = 0] ELSE w)

\* refresh_controllers after the view of the bridge has arrived.
Refreshed(v, b) ==
    LET changed == v.connection # v.known
        w == [Synchronize(v) EXCEPT !.view = b.lease, !.required = FALSE,
                                    !.cursor = [epoch |-> b.epoch, sequence |-> b.latest]]
    IN StepDone(IF v.gap \/ changed THEN [w EXCEPT !.subscription = 0] ELSE w)

\* The bridge's side of subscribe: tick, resolve, read.
Subscribed(b, subscription) ==
    IF Resolves(b, subscription) THEN [Ticked(b, clock) EXCEPT !.subscription = b.session]
    ELSE Ticked(b, clock)

\* An answer that comes too late: the bridge has served the request.
AnswerLost(v) == [v EXCEPT !.lost = @ + 1]

\* RecoveringClient::subscribe as poll_events calls it.
Poll ==
    LET b == Subscribed(bridge, viewer.subscription)
    IN /\ viewer.pc = "poll"
       /\ Reachable
       /\ bridge' = b
       /\ viewer' = IF Resolves(bridge, viewer.subscription)
                    THEN Polled(viewer, Batch(b, viewer.cursor), b.session)
                    ELSE WorkerFails(viewer)
       /\ UNCHANGED clock

\* The SDK's retry on a new connection, without identity or cursor; its batch
\* is always a gap.
Resubscribe ==
    LET b == Subscribed(bridge, 0)
    IN /\ viewer.pc = "resubscribe"
       /\ Reachable
       /\ bridge' = b
       /\ viewer' = IF Resolves(bridge, 0)
                    THEN Polled(viewer, [Batch(b, NoCursor) EXCEPT !.gap = TRUE, !.more = FALSE],
                                b.session)
                    ELSE WorkerFails(viewer)
       /\ UNCHANGED clock

\* integration_view: the snapshot ticks and then reads the clock again.
Refresh ==
    \E later \in Later :
        LET b == Handler(bridge, clock, later)
        IN /\ viewer.pc \in {"refresh", "reread"}
           /\ Reachable
           /\ clock' = later
           /\ bridge' = b
           /\ viewer' = Refreshed(viewer, b)

\* The exchange in progress fails with a connection error: the connection is
\* not one of this bridge, or the answer is late.  The first attempt goes on
\* to the reconnect, the second one leaves the step.
ExchangeFails(v) ==
    CASE v.pc = "poll" -> [v EXCEPT !.pc = "reconnect", !.after = "resubscribe"]
      [] v.pc = "refresh" -> [v EXCEPT !.pc = "reconnect", !.after = "reread"]
      [] OTHER -> StepFailed(v)

ConnectionError ==
    /\ viewer.pc \in {"poll", "resubscribe", "refresh", "reread"}
    /\ ~Reachable
    /\ viewer' = ExchangeFails(viewer)
    /\ UNCHANGED <<clock, bridge>>

AnswerTimesOut ==
    /\ viewer.pc \in {"poll", "resubscribe", "refresh", "reread"}
    /\ viewer.lost < MaxLost
    /\ Reachable
    /\ \E later \in Later :
          /\ clock' = later
          /\ bridge' = CASE viewer.pc = "poll" -> Subscribed(bridge, viewer.subscription)
                         [] viewer.pc = "resubscribe" -> Subscribed(bridge, 0)
                         [] OTHER -> Handler(bridge, clock, later)
          /\ viewer.pc \in {"poll", "resubscribe"} => later = clock
    /\ viewer' = AnswerLost(ExchangeFails(viewer))

\* RecoveringClient::reconnect.  The old connection stays open until the new
\* one has negotiated, and the bridge refuses a client it still knows.
Reconnect ==
    /\ viewer.pc = "reconnect"
    /\ IF ~bridge.up
       THEN viewer' = StepFailed(viewer) /\ UNCHANGED bridge
       ELSE IF bridge.session # 0
       THEN viewer' = WorkerFails(viewer) /\ UNCHANGED bridge
       ELSE LET connection == viewer.connection + 1
            IN /\ bridge' = [bridge EXCEPT !.session = connection]
               /\ viewer' = [viewer EXCEPT !.pc = viewer.after, !.connection = connection]
    /\ UNCHANGED clock

\* The worker's recovery: rescan, or initialize again when nothing was ever
\* connected.
Rescan ==
    /\ viewer.pc = "recover"
    /\ viewer' = IF viewer.connection = 0 THEN [viewer EXCEPT !.pc = "reconnect", !.after = "refresh"]
                 ELSE [viewer EXCEPT !.pc = "refresh", !.gap = FALSE]
    /\ UNCHANGED <<clock, bridge>>

ViewerStep == Poll \/ Resubscribe \/ Refresh \/ ConnectionError \/ Reconnect \/ Rescan

Next ==
    \/ \E c \in Clients : AcquireLease(c) \/ RenewLease(c) \/ ReleaseLease(c) \/ Disconnect(c)
    \/ Tick \/ TransactionCompletes \/ Elapse
    \/ BridgeStops \/ BridgeStarts
    \/ Poll \/ Resubscribe \/ Refresh \/ ConnectionError \/ AnswerTimesOut
    \/ Reconnect \/ Rescan

Spec == Init /\ [][Next]_vars

\* The worker thread keeps running, and systemd restarts the bridge.
FairSpec == Spec /\ WF_vars(ViewerStep) /\ WF_vars(BridgeStarts)

---------------------------------------------------------------------------
(***************************************************************************)
(* Properties.                                                             *)
(***************************************************************************)
\* What the viewer shows is what the bridge says, but for a lease whose term
\* has passed and that the bridge dropped between its two clock readings.
MirrorAgrees ==
    \/ viewer.view = bridge.lease
    \/ bridge.lease = NoLease /\ viewer.view.expires <= clock

CaughtUp ==
    /\ viewer.pc = "poll" /\ viewer.batches = 0 /\ ~viewer.required
    /\ Reachable
    /\ viewer.cursor = [epoch |-> bridge.epoch, sequence |-> bridge.latest]

\* A viewer whose cursor stands at the end of the stream, with no refresh due,
\* shows the ownership the bridge has: neither the ring's eviction, a batch
\* limit, a gap, a restart of the bridge nor an interrupted refresh hides a
\* change (BoundedEventLog::read with RuntimeCore::poll_events).
MirrorIsCurrent == CaughtUp => MirrorAgrees

\* The worker dies only if an answer was lost: over restarts of the bridge
\* neither the session registry nor the subscription registry ever refuses it
\* (SubscriptionRegistry::resolve with RuntimeCore::synchronize_connection).
RefusedOnlyAfterLoss == viewer.pc = "failed" => viewer.lost > 0

\* Once the bridge is quiet the viewer catches up and stays so, or its worker
\* has ended: a gap leads to a reread whose cursor is inside the ring, never
\* to the same gap again (refresh_controllers).
CatchesUp == <>[](viewer.pc = "failed" \/ (MirrorIsCurrent /\ ~viewer.required /\
    viewer.cursor = [epoch |-> bridge.epoch, sequence |-> bridge.latest]))

\* A connector that lost an answer closes and reconnects: the worker is never
\* ended by it (docs/developer/sdk-connectors.md).
ReconnectSucceeds == viewer.pc # "failed"
=============================================================================
