# HyperFlux Next: a TLA+ model of the bridge, its clients and its releases

HyperFlux Next is a user-space bridge between clients (OpenRGB, SDK programs) and wireless
receivers that carry a mouse and a keyboard. Clients negotiate a session, acquire leases over
resources of a receiver generation, submit lighting transactions or exchange native reports, and
follow an event stream; the bridge restores the user's lighting after a crash, a power loss or a
replugged receiver. This directory specifies what decides who may write, what is written, how often,
what the client is told, what is durable, and how releases are published.

All paths below are relative to `src/`.

## 1. The system

| Component | State | Operations | Interacts with |
|---|---|---|---|
| Lease manager (`crates/hfx-core/src/leases.rs`) | live grants, ownership index, idempotency history | acquire, renew, release (with and without request identity), release of a client, end of a generation, expiry, `owns` | called by the backend; asked by coordinator and native path before every write |
| Transaction queue and outcome journal (`transactions.rs`) | bounded queue; retained outcomes, their order, evicted identities | admit/coalesce, take, expire, invalidate; record, lookup, replay | owned by the coordinator |
| Transaction coordinator (`coordinator.rs`, `ports.rs`) | queue and journal | submit, dispatch next, dispatch one, cancel, invalidate session/generation | leases, sessions, profiles, transport, event log |
| Bridge actor and native path (`crates/hfx-bridge/src/actor.rs`, `native_*.rs`, `backend/`) | fair route queue, exchange journal, route tombstones, current route tokens | native call, dispatch, rejection, cancellation, close, route synchronisation | leases, transport |
| Event log and subscriptions (`events.rs`, `subscriptions.rs`) | bounded ring, one subscription per session | append, read, resolve | backend, clients |
| Restoration, persistence, kernel adapter and driver journal (`restoration/`, `persistence.rs`, `crates/hfx-kernel-transport`, `driver/kernel`) | claims and stable intents in a state file, the daemon's schedule, dispatch history, results and tombstones | plan, claim, checkpoint, dispatch, reconcile, complete, retire, recover; staged write, rename, sync | coordinator, disk, kernel |
| Runtime tick, generation orchestration, sessions | discovery deadline, restoration preference, active generation, registry | reconcile, observe, dispatch, activate, retire, negotiate, revoke | everything |
| Python SDK (`sdk/python/hyperflux_sdk`) | connection, epoch, lighting session | reconnect, retry reads, submit once, acquire, renew, release | bridge, over sockets |
| C++ SDK and OpenRGB worker (`sdk/cpp`, `integrations/openrgb`) | connection, subscription, cursor, view | poll, refresh, reread after a gap, reconnect | bridge, over sockets |
| Package repositories (`tools/hfxdev/package_repositories.py`, `arch_repository.py`) | built repository, unsigned and signed site, Pages branch, mirror release | build, assemble, sign, verify, publish, removal of old packages | Git, release hosting, package managers |
| Bounded authority model (`tools/hfxdev/formal_model.py`) | a generation, a lease, a transaction, a stable intent | fourteen transitions | none: it is the repository's own abstraction |
| Receiver lifecycle, desired effects, UHID relay, observation, battery, profiles, verification runs, package pipeline, generators | | | not modelled, section 5 |

The bridge has one actor thread. It takes commands in bounded batches, runs the runtime tick after
each, and dispatches at most one native call per round. So an operation of the core is atomic; what
makes it hard is what happens *between* two operations on the same request: leases expire, sessions
close, receivers are replaced, routes are invalidated, deadlines pass, clients retry, reuse
identities, processes crash, and every collection is bounded and evicts.

What makes each component correct, in one line:

- leases: exclusive, atomic ownership with no takeover, and at most one answer per request identity;
- transactions: first in first out, at most once, never written without authority, outcomes that
  are true of the receiver, and every admitted transaction finished;
- native exchange: at most one SET per remembered identity, only with current authority, no
  starved route;
- events: a viewer that has read everything shows what the bridge has, and always gets there again;
- restoration: no repeated write of unknown effect, true records after any crash, never an old
  colour over a newer one, and every interrupted claim settled;
- SDK: no replayed submission, true reports, no lease of a connection that is gone;
- publication: what the mirror names can be installed, whatever failed half way, as long as its
  release is kept;
- lifecycle: no fact of an ended generation has any effect.

## 2. The modules

**`Ownership`** is the abstract promise of the lease manager: leases that hold sets of resources for
clients, taken whole, ended at any moment, never conflicting.

**`LeaseManager`** holds the code of `leases.rs` as operators on a manager value
`[leases, owners, history]`; **`Leases`** makes a system of it. Every request first expires
leases (`Current`), then is decided in the order the code tests. Outcomes that change state are
actions of their own (`AcquireGranted`, `AcquireConflict`, `AcquireOverflow`, `RenewGranted`, ...);
replays, reused identities and all refusals leave the manager as expiry left it. `AcquireOverflow`
is the path on which a history slot is given up and the deadline then overflows. A resource is
`[scope, device, kind]`, a scope being one receiver generation. The code reports the first conflict
in resource order; the model reports any. Lease ids are drawn from a small set and may be drawn
again once free, which is more than the code's random identities do.

**`Transactions`** holds queue and journal of `transactions.rs` as operators. A request stands for
its digest. **`Coordinator`** is `coordinator.rs` in its environment: `Submit`, `DispatchNext`,
`DispatchTransaction` (for restoration claims), `CancelTransaction`, `Disconnect`,
`RetireGeneration`, and the changes of authority around them. A failed `record` sets `fault` and
leaves the rest of the operation undone, as `?` does. Transport is external: it answers with any
terminal kind and any facts, provided it does not deny a write by all of its facts and does not
report a complete delivery that did not happen (`Honest`). `writes` is a history variable: the
writes that reached the receiver for each transaction the journal still knows. The lease manager
appears by its promise only (`held`, `Owns`). Profile, readiness and availability refusals are
nondeterministic.

**`NativeExchange`** is the native path: `FairRouteQueue` (`Admit`, `PopNext`, `RemoveWhere`),
`NativeExchangeJournal` (`Judge`, `Remember`), tombstones and their notices, `native_transact`
(`Serve`, its changeable gates in `Authorised`), the actor's dispatch with remaining time, rejection
of queued calls on close or invalidation. A client has one call in flight because its connection
loop reads the next request after it answered the last. Tokens are drawn fresh and never return.
`sets` counts the SETs begun for identities the journal remembers; `misjudged` records that a retry
equal to what the client had sent was refused as a reused identity.

**`EventStream`** composes the bounded event log and the subscription registry with the lease
handlers that append to it and with the viewer at the other end, the OpenRGB worker on the C++
SDK. `bridge` is one process: ring, latest sequence number, lease, the registered session and its
subscription; a restart starts a new epoch. Every lease handler reads the clock in `tick` and again
for its decision, as the code does. `viewer` walks through polling in bounded batches, resubscribing,
rereading after a gap, reconnecting and recovering; an answer may come too late.

**`Restoration`** follows one device's stable lighting from the user's write to the kernel. `disk`
is the state file as it reads and as a power loss would leave it (staged write, rename, directory
sync); `kernel` is the driver's journal of results and tombstones and the session's high-water mark;
`proc` is the service process: its schedule, adapter history, nonces and the step of the tick it is
in; `hist` records what was written. Between any two steps of a tick the process may crash, power
may be lost, the receiver unplugged or the kernel session ended. `Init` is a boot after the user has
set a colour. Every submission takes a nonce even if it is then refused, so a claim's nonce may skip
values; dispatch bindings only tell a conflict from a forgotten nonce and are left out. A claim may be
refused at each stage for reasons outside the model (readiness, profile, lease, deadline): it is then
deferred or invalidated, by nondeterministic choice. Two simplifications: suspend and resume are one
step, and a return of the device that finds nothing to plan does not record its consumed return epoch,
which only keeps the same return from being taken twice.

**`RecoveringClient`** is the Python SDK: one `RecoveringClient` shared by a thread with a
`LightingSession` and a thread that reads and closes. The client's lock is held for a whole call,
reconnects included; the session above takes none. Requests and answers are in two queues per
connection that outlive a client that gave up waiting; the bridge is the promise of `Leases` and
`Coordinator`, serves late, cleans up late and may crash. A transaction ends `succeeded`, `unsent`
(revoked or failed, and its facts exclude a live write) or `uncertain` (revoked or failed, and they do
not, so it may have been written). Outcome journal and eviction memory are shared with clients the
model does not show, whose admissions may evict (`Evict`) and then forget (`Forget`) any finished
outcome; `lost` records the transactions whose record went that way or in a crash. `overtaken` records that the other thread
reconnected between two calls of one session method.

**`RepositorySite`** is publication: `repositories build/assemble/sign/publish` run from any
checkout, with the outputs earlier commands left behind, and stop at any push or upload; a Pacman
client reads database, signature and packages at any time. After a reported publication the operator
removes the packages that neither the checkout's policy pins nor its retention file lists
(`RemoveUnlisted`; `verify-public` refuses the mirror until they are gone, and the order is that of
`docs/developer/building.md`). Files and signatures are one bit; hosting is external. The commands run
one after another although no lock keeps two operators from running them at once, and the refusal of
an output path that exists is left out: the operator is taken to use another.

**`AuthorityModel`** is the repository's own abstraction, `tools/hfxdev/formal_model.py`, action by
action, for any number of generations (`InitialState`, `SuccessorStates`), with its
eight HFX-MODEL statements as a state predicate (`NoInvariantFailure`) and a step predicate (`AuthorityIsKept`).

**`MCLeases`, `MCCoordinator`, `MCNative`, `MCSite`** give constants for TLC; the other
specifications take theirs from the `.cfg` alone. **`Filtering`** is the filter of a sequence that
`Transactions`, `Coordinator`, `NativeExchange` and `RecoveringClient` share. The modules ending in
**`Proofs`** hold the theorems of the module they extend (**`ToolProofs`** those of both
`RepositorySite` and `AuthorityModel`), **`SequenceLemmas`** the lemmas they have in common
(section 4). Definitions marked *Mutant* or *Variant* are plausible wrong versions of the definition
that follows; each property is shown to fail with one of them in place.

## 3. What is checked

| Run | Instance | Shows |
|---|---|---|
| `leases` | 2 clients × 2 request ids, 2 leases, lighting and native control of one child and lighting of its next generation, duration 2, clock 0..3, capacity 2, history 2 | `MutualExclusion`, `IndexMatchesGrants`, `GrantStaysAnswerable` (a live lease pins the answer that granted it), `AnswersAreUnambiguous`, `NoTakeover`, refinement of `Ownership` |
| `coordinator` | 2 clients, 2 effect frames, a restoration of the sibling device, a frame of the next generation that reuses identities, capacity 2, clock 0..1; 225k states | `NoInternalError`, `QueueMatchesJournal`, `OutcomesAreTruthful`, `AtMostOnce`, `SupersededIsObsolete`, `WritesAreAuthorised`, `AdmittedIsFinished` |
| `native` | 3 clients, one of them with leases, 2 tokens, queue 3, journal and tombstones 1, clock 0..1 | `RotationIsExact` (so `pop_next` cannot panic), `AtMostOneSet`, `SetsAreAuthorised`, `EveryCallIsAnswered` |
| `events` | 1 lessee, ring 2, batches of 1, two per poll, clock 0..2, 4 events, one restart, one late answer; 152k states | `MirrorIsCurrent`, `RefusedOnlyAfterLoss`, `CatchesUp` |
| `restoration` | 2 processes, 2 generations, 2 claims, 2 user writes, a kernel journal of 1 result; 1.7M states | `RewrittenOnlyIfForgotten`, `FailedWriteIsNotRepeated`, `RecordsAreTruthful`, `RestoresLatest` |
| `restoration_recovery` | the same with one tombstone, one generation and one user write, fair; 107k states | `RecordsAreTruthful` with tombstones, `InterruptedIsSettled` |
| `sdk` | 2 threads, 2 connections, 2 leases, 2 transactions, one crash of the bridge, one evicted outcome; 4.0M states | `NeverReplayed`, `ReportedOutcomeHolds`, `LeaseOfLiveSession`, `EpochGuardsLease` |
| `publication` | 5 checkouts of 3 versions, 2 publications; 381k states | `AcceptedIsInstallable`, `ServedSiteIsCoherent`, `ReportedIsServed` |
| `authority` | 3 generations; 310 states | `NoInvariantFailure`, `AuthorityIsKept` |
| `native_exact_retry`, `viewer_reconnect`, `restoration_forgotten` | as above | three disagreements, see section 6 |

`TypeOK` of the module is checked too in `leases`, `coordinator`, `native`, `restoration` and `sdk`,
where it carries the bounds of the collections or, in the SDK, the exclusion of the lock.

Bounds. Capacities of 1 and 2 with one more competitor than fits make every collection overflow:
history with and without an evictable answer, queue with and without an obsolete frame, journal and
its eviction memory, tombstones, the event ring, the kernel's results. A lease clock of 0..3 with
duration 2 lets a lease be renewed, expire, be replaced and overflow the last instant. A starved
route needs three queued calls, hence three clients and a queue of 3 in `native`. In `restoration` no
tombstone makes the kernel forget soonest, which is what the properties are about; instances with a
tombstone (1.9M states) and, in `events`, with two lessees (up to 689k states) were run as well and
hold. Two restarts are as many as a claim needs to be planned, interrupted and recovered. In `sdk` one
connection fails and is replaced; the second, refused while the first is still registered, is spent
then. A third epoch, reached by closing and refused reconnects (7.9M states), and a third
connection with no eviction (9.5M states) were run as well and hold. In `publication` five checkouts
give the same version with other bytes, a newer version pinned late, and a release that is retained by
one successor and dropped by another. A third publication, in which a release is retained at first and
dropped with the next one, was run as well (4.1M states) and holds. Every target of a site has the
version of its checkout, so one target is enough.

A bound on the clock never disables a request, so it cuts no behaviour short. `sdk` and `authority`
switch deadlock checking off: in the first the bounds on connections and identities stop everyone;
in the second the model really stops, since an uncertain transaction is never cleared. Symmetry is
used in `leases` only, which checks no liveness.

Fairness, and the code that gives it:

- `Coordinator`: weak, of `DispatchNext`. The actor ticks after every command and at least once per
  interval, and `RuntimeManager::tick` dispatches while anything is queued. A tick in which
  restoration dispatched returns early but clears `prefer_restoration`, so the next serves the queue.
- `NativeExchange`: weak, of `DispatchNextNative`: every round of the actor's loop dispatches one
  queued call, and a command batch is bounded.
- `EventStream`: weak, of the worker's next step (its thread runs on) and of the start of the bridge
  (systemd restarts it). `CatchesUp` speaks of a bridge that falls quiet; the bounds on clock and
  events make it so.
- `Restoration`: weak, of the tick's next step, attach, retire, start of the process, return of the
  device, plugging in, taking a trigger and waking; strong, of advancing a claim: it is interrupted
  by a suspend or an unplug again and again, but a tick is milliseconds away.

The fairness of `DeviceReturn` and `Plug` is an assumption about the user, who goes on using the device
and plugs the receiver in again: `InterruptedIsSettled` speaks of claims of a device that is used again,
since a parked claim waits for its device. Beyond that nothing is assumed of users, nor of leases,
clients, failures or the clock.

## 4. What is proved

TLAPS proves every invariant and action property that section 3 shows to hold, for every value of
the constants the assumptions admit: any sets of clients, requests, resources, tokens and checkouts,
any capacity of queue, journal, history, ring, batch, kernel results and tombstones, any number of
restarts, processes, generations and claims. Fixed are the two threads and the one client of
`RecoveringClient`, the one device of `Restoration` and the one viewer of `EventStream`.

| Module | Theorems | Inductive invariant |
|---|---|---|
| `LeasesProofs` | `TypeCorrect`, `MutualExclusionHolds`, `IndexMatchesGrantsHolds`, `NoTakeoverHolds`, `AnswersAreUnambiguousHolds`, `GrantStaysAnswerableHolds`, `OwnershipImplemented` | `Soundness`: `Sound`; `HistoryKept`: `Remembering` |
| `CoordinatorProofs` | `TypeCorrect`, `NoInternalErrorHolds`, `QueueMatchesJournalHolds`, `AtMostOnceHolds`, `OutcomesAreTruthfulHolds`, `WritesAreAuthorisedHolds`, `SupersededIsObsoleteHolds` | `CoordinatorInvariant`: `Sound`, `Matched`, `Ledger` |
| `NativeProofs` | `TypeCorrect`, `RotationIsExactHolds`, `AtMostOneSetHolds`, `SetsAreAuthorisedHolds` | `NativeInvariant`: `FairQueue`, `WellKept`, `RoutesKept` |
| `EventProofs` | `MirrorIsCurrentHolds`, `RefusedOnlyAfterLossHolds` | `EventInvariant`: `LogKept`, `Linked`, `Mirrored` |
| `RecoveringProofs` | `TypeCorrect`, `LeaseOfLiveSessionHolds`, `EpochGuardsLeaseHolds`, `NeverReplayedHolds`, `ReportsAreTrue` | `Shape`, `Sessions`, `Epochs`, `Once`, `Truth`, one on the other |
| `RestorationProofs` | `TypeCorrect`, `RewritesOnlyForgotten`, `FailedWriteNeverRepeated`, `RecordsTellTheTruth`, `OnlyLatestRestored` | `RestorationInvariant`: `IInv` |
| `ToolProofs` | `AcceptedIsInstallableHolds`, `ServedSiteIsCoherentHolds`, `ReportedIsServedHolds` | `SiteInvariant`: `Shape`, `PromisesKept`, `Progress`, `Served` |
| | `AuthorityTypeCorrect`, `AuthorityNeverFails`, `AuthorityKept` | `AuthorityInvHolds`: `AttemptsAreSpent` with the eight statements |

**Leases.** Mutual exclusion is not inductive alone: acquisition looks for conflicts in the ownership
index, not in the grants, so the proof needs that each grant's resources are in the index under that
lease and that the index names no other (`IndexAgrees`). Conversely the index stays exact only because
a new grant overwrites no owned entry, which is exclusion again. And the bounds are needed because
`reserve_history_slot` removes one answer, which is enough only while the history is within its
bound. So the invariant is `Sound == Bounded /\ IndexAgrees /\ Exclusive`, stated on a manager value;
one lemma per operator (`RemoveLeasesSound`, `ReserveHistorySlotSound`, `RememberSound`,
`GrantLeaseSound`, ...) shows that it preserves `Sound`, and `NextSound` combines them per action.
`Remembering` adds the history: an answer is evicted only if no live lease pins it, so each live lease
keeps the one acquisition that granted it. `OwnershipImplemented` maps the live grants to `Ownership`'s
`held`, step by step: a request that expires leases and then grants is one abstract `Take` with the
expired leases ended in the same step.

**Coordinator.** One operation finishes several entries in turn and only the last value is a state, so
`Sound(journal)`, `Matched(queue, journal)` and `Ledger(journal, writes)` speak of values: the journal
lists its outcomes once each and stays within its bound; the queued entries are the unfinished
outcomes, in the same order; a transaction the journal does not know was not written, and one it knows
as its outcome says. `Matched` gives that every `record` succeeds: the outcome it finds is `queued`,
and the journal has room because queue and journal share one capacity and a terminal outcome can
always be evicted when the queue is not full.

**Native path.** `FairQueue` (a route in the rotation once while its lane is not empty) and `WellKept`
(the journal's order lists its records, and what a record says of the SETs begun) meet only in the
operations. The counter `len` of the queue is the number of occupied slots of its lanes.

**Events.** The invariant behind the mirror: a viewer that polls is due a refresh, or agrees with the
bridge, or is `Behind`: an event that makes it reread lies between its cursor and the end of the ring,
or the ring has passed its cursor and the next read is a gap. What a step of the bridge may do to this
is said once (`Moves`) and composed: appending an event keeps every reader behind that was
(`AppendKept`), an ownership event leaves every reader behind, and a grant dropped in silence has
expired for the reader as well. `BatchReads` is the reader's side: what it was behind of is in the
batch, or still ahead of the cursor the batch returns, whatever the limit.

**SDK.** `Shape` bounds what can be outstanding on a connection at each stage of a call, given the
lock; `Sessions` says who is registered and which lease belongs to whom; `Epochs` where the lease a
session works with was granted; `Once` that a submission is in one place: not drawn, in the client,
on one socket, queued or decided; `Truth` what the journal, an answer on its way and a result say of
it, which for `unknown` is nothing once the bridge has `lost` the record. Each layer is inductive with the ones before.

**Restoration.** A restart reads the document a power loss left, so both documents of the disk, the
file and the last one synced, must be `Readable`: no record succeeds without a write that did, none
is still to be sent while the kernel remembers a write of its claim (`Truthful`), and the intent is
the user's last write or a tombstone (`Intent`). The file must also agree with the kernel's journal
(`Good`): a write the kernel has not forgotten, of an attempt that is still open, is in the journal
at exactly its distance from the end and answers with its outcome (`Resolvable`), a write that
failed half way is open or failed (`Stopped`), the journal's attempts are no newer than the file's
(`Attempted`), and its results tell of writes (`Reported`). `ProcOK` ties the process to the file at
each step of the tick. The important part is an attempt between its record and its submission
(`InFlight`): nothing bars it, the kernel has forgotten every earlier write of its claim, none of
them is of this process, and its attempt number is new to the journal. That the record is synced
before the attempt is submitted (`synced = file` at `applying`) is what makes the older document
harmless: at a power loss after the write, what comes back has the attempt open. The two statements
about pairs of writes (`Rewritten`, `Repeated`) then follow at the one step that writes.

The proof has three kinds of lemma. A step of the kernel adds one entry to the journal (`Submitted`):
results shift, the oldest becomes a tombstone and the oldest tombstone goes, which keeps every
attempt findable until `ResultCapacity + TombstoneCapacity` entries later (`LoggedUntilForgotten`);
or it only clears or drops something (`Calmer`). A step of the engine revises records, and each
change of status must be `Justified` by the transport's answer. The rest is per action. The
statement that begins it all, that `not_observed` for an open attempt means its write is forgotten,
holds because of the exact distance in `Logged`; finding 3 is what happens beyond it.

**Publication.** The bytes of a complete package on the mirror never change, so what a database
promised when it was uploaded it promises until they are removed; a clean-up removes only packages of
releases its checkout does not keep, and the mirror's own database is then of the one it pins; a
database is uploaded only after the packages it names; the site being published is one some checkout verified (`Progress`).

**Authority model.** That an attempt is counted once needs that nothing was tried before the dispatch
(`AttemptsAreSpent`), and that a generation just issued was not retired needs that only issued
generations are retired (in `TypeOK`). `EndedGenerationKeepsNothing` is the heart: ending a
generation, in whatever phase, leaves no lease and nothing in flight. The repository checks the same
statements on two generations to a depth of ten steps.

**`SequenceLemmas`** holds what these proofs share about sequences: removal at an index, filtering
(`Filtering!Without`, a recursive function that stands for `VecDeque::retain` and the like), two
listings of the same elements, bounded append. Where a recursive function is reasoned about, induction
is a least counterexample: a set of naturals that is not empty has a least element (`LeastNatural`),
so no induction theorem with an operator parameter is needed.

Assumed of the constants, and evaluated by TLC in the runs: `LeaseConstants`, `NoLeaseIsNoGrant`,
`TransactionConstants`, `NoOutcomeIsNoOutcome`, `CoordinatorConstants`, `NativeConstants`,
`NoRecordIsNoEntry`, `EventConstants`, `RecoveringConstants`, `SiteConstants`, `BoundsAssumption`
and `GenerationsAssumption`. They say that capacities are positive, which the constructors in the code
check, that bounds are naturals, that the absent value is none of the present ones, and that
`TokenOrder` lists the tokens (the key order of the queue's `BTreeMap`).

Only model-checked: `AdmittedIsFinished`, `EveryCallIsAnswered`, `CatchesUp` and
`InterruptedIsSettled`. They need fairness, which is out of the prover's reach.

`AuthorityModel` is not shown to be implemented by `Coordinator`, and in one point it is not:
HFX-MODEL-003 ties every unfinished transaction to a live lease, while in the code a lease may expire
under a queued transaction, which is then refused at dispatch. What holds of the code is
`WritesAreAuthorised`.

## 5. What is not modelled

- Receiver lifecycle (`lifecycle/`), desired effects and the phases of activating and disconnecting a
  generation: tables of facts per device whose outcome is an input here (the device showed itself,
  the generation is current). Next in the plan.
- The UHID relay, the route event journal, session negotiation, the OpenRGB dispatch queue and
  native route worker: later in the plan.
- In restoration: migration of an intent to a compatible profile, effect replays, disabling of the
  policy. In the driver: locking, USB, native reports.
- Observation, battery and profile decoding: data with little control.
- Verification runs and test selection: a sequential runner of commands over a static catalog. The
  worktree may change under it; section 6 lists what was seen.
- The package pipeline and the distribution builds: straight-line construction of files from
  manifests; their partial failures end in a directory that is thrown away.
- Generators, renderers, validators, codecs and generated types, most of the Python in the
  repository: pure functions from catalogs to text and comparisons of the two. They keep no state and
  nothing runs beside them; a model of them would be a copy of their formatting.

## 6. Findings

1. `native_exact_retry`: the actor stores the remaining time in `timeout_ms` before the exchange
   journal compares the request (`actor.rs:438`), so an identical retry can be refused as a reused
   identity. The refusal begins no second SET (`AtMostOneSet` holds).
2. `viewer_reconnect`: after an answer that came too late `RecoveringClient::reconnect`
   (`sdk/cpp/src/recovery.cpp:122`) connects before it drops the old connection; the bridge refuses a
   second connection of the same client, and the OpenRGB worker ends for good.
3. `restoration_forgotten`: `hyperflux-next-session.c:100` answers `not_observed` by the high-water
   mark of the current session. A claim interrupted after its write, parked at the next start until
   its device shows itself, is written again once other traffic has pushed its result and tombstone
   out. `RewrittenOnlyIfForgotten` says that nothing less leads there.

Seen while modelling, without a run of their own:

- A restoration write whose session is revoked between two frames (`hyperflux-next-transport.c:276`)
  is recorded as `invalidated`, without the facts of its outcome (`completion.rs:240`). Only failed
  records bar a sibling (`records.rs:247`), so the next return of the device plans the same intent
  again and writes it, in the same generation and while the kernel remembers the first write. This is
  against `docs/architecture/bridge-core.md:224` ("Partial or uncertain transport is never retried
  automatically.") and `:344` ("Confirmed or possible writes retain their outcome facts.").
  `Restoration` behaves the same way: with `v.outcome \in {"partial", "revoked"}` in the place of
  `v.outcome = "partial"`, TLC finds `FailedWriteIsNotRepeated` violated within seconds. As it stands
  the property is about writes the transport failed, which do bar their siblings; it claims nothing
  of revoked ones.
- `coordinator.rs:368`: `dispatch_transaction` of a transaction that is not queued drops elapsed
  entries without an outcome, against its comment (`:340`). Its one caller always names a queued one.
- `native_exchange.rs:140`: `invalidate_route` rewrites retained outcomes to `not-sent` although
  their SET began (`docs/architecture/bridge-core.md:186`); the comment at `:126` says it is meant.
- After a new generation an interrupted claim of a gated trigger stays parked under the old
  generation's readiness, which nothing wakes (`schedule.rs:489`, `:531`), and bars later claims of
  that revision (`records.rs:247`). `InterruptedIsSettled` is therefore about the present generation.
- Nonces are taken at admission. A native exchange dispatched first raises the adapter's maximum, and
  the queued transaction is refused as forgotten, unsent (`history.rs:64`).
- The Python SDK reports a reconnect the operating system refuses as `OSError`, not as an unknown
  outcome (`recovery.py:127`, `docs/developer/sdk-connectors.md:92`).
- A lease that expires between the two clock readings of a handler is dropped without an
  `OwnershipChanged` event (`state.rs:121`); `MirrorAgrees` allows for exactly this.
- Publication: an upload that stopped leaves an asset without a digest, and the next run refuses it
  until it is removed by hand (`package_repositories.py:1400`); `collect_packages` accepts what a
  failed package build left behind (`:608`).
- Verification: source identity and changed paths are read once and by several Git commands
  (`verification_run.py:485`), so a commit in between hides staged changes; the worktree digest
  covers the porcelain status only; the selection of tests follows dependencies both ways and selects
  the whole lane for every change that matches (`testgraph.py:160`).
- `assurance/formal-model.json` bounds the repository's model at depth 10, where 82 of its 144 states
  are seen, while `docs/generated/formal-model.md` says that every state is visited. The theorems of
  `ToolProofs` cover what the bound leaves out.

## 7. Plan

1. Lease manager, abstract ownership, first theorems: done.
2. Queue, journal, coordinator; native exchange path: done but for the route event journal.
3. Event log, subscriptions and their viewer; restoration, persistence and kernel journal; Python
   SDK; publication; the repository's authority model with its theorems: done.
4. Next: lifecycle and generation phases with desired effects; the honest transport assumed by
   `Coordinator` refined by the kernel adapter; session negotiation; UHID relay supervision.
5. Proofs: every invariant and action property that holds: done. Next: with item 4, that the kernel
   adapter's journal implements the honest transport `Coordinator` assumes, for which `Logged` and
   `Answers` are the statements to start from.
