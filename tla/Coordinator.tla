---------------------------- MODULE Coordinator ----------------------------
(***************************************************************************)
(* The transaction coordinator of crates/hfx-core/src/coordinator.rs as    *)
(* the bridge uses it: clients submit lighting transactions and retry      *)
(* them, the runtime tick dispatches one at a time, and between admission  *)
(* and dispatch sessions close, leases end, receiver generations are       *)
(* replaced and deadlines pass.  Everything runs on the bridge's single    *)
(* actor thread, so each operation is one step; the transport call is      *)
(* synchronous inside its step.                                            *)
(*                                                                         *)
(* A submission that the coordinator refuses or answers from its journal   *)
(* changes nothing and is a stuttering step.  The lease manager is what    *)
(* module Leases shows it to be: leases of conflicting resources are never *)
(* held together and may end at any moment.                                *)
(***************************************************************************)
EXTENDS Transactions

CONSTANTS
    Leases,         \* records [id, client, resources, generation]
    Declared,       \* frames every transaction declares
    MaxGeneration,  \* bound of the receiver generations
    MaxClock        \* bound of the monotonic clock

ASSUME CoordinatorConstants ==
    Declared \in Nat \ {0} /\ MaxGeneration \in Nat \ {0} /\ MaxClock \in Nat

VARIABLES
    pending,    \* TransactionCoordinator.queue
    journal,    \* TransactionCoordinator.outcomes
    fault,      \* an operation returned an internal error (never expected)
    open,       \* sessions the session registry authorizes
    held,       \* leases for which LeaseManager::owns answers
    spent,      \* leases that have ended; lease ids are not drawn twice
    generation, \* the latest generation of the receiver
    present,    \* the transport reports that generation as current
    clock,      \* the monotonic clock
    writes      \* history: writes that reached the receiver for each transaction the journal knows

vars == <<pending, journal, fault, open, held, spent, generation, present, clock, writes>>
authority == <<open, held, spent, generation, present, clock>>

Init ==
    /\ pending = <<>>
    /\ journal = EmptyJournal
    /\ fault = FALSE
    /\ open = Sessions
    /\ held = {}
    /\ spent = {}
    /\ generation = 1
    /\ present = TRUE
    /\ clock = 0
    /\ writes = [t \in TransactionIds |-> 0]

---------------------------------------------------------------------------
(***************************************************************************)
(* The coordinator's own value is the record [pending, journal, fault]; an *)
(* operation that fails leaves the rest of its work undone.                *)
(***************************************************************************)
Coordinator == [pending |-> pending, journal |-> journal, fault |-> fault]

Recorded(c, outcome) ==
    IF c.fault THEN c
    ELSE IF Accepts(c.journal, outcome)
         THEN [c EXCEPT !.journal = Record(@, outcome)]
         ELSE [c EXCEPT !.fault = TRUE]

\* finish_unsent: nothing was handed to transport.
FinishUnsent(c, q, state) ==
    Recorded(c, [request |-> q.request, state |-> state,
                 live |-> FALSE, retry |-> state # "superseded"])

FinishEach(c, removed, state) ==
    LET finished[n \in 0 .. Len(removed)] ==
            IF n = 0 THEN c ELSE FinishUnsent(finished[n - 1], removed[n], state)
    IN  finished[Len(removed)]

\* A transaction the journal no longer knows starts again from no writes.
KnownWrites(j, count) ==
    [t \in TransactionIds |->
        IF \E k \in Known(j) : k.transaction = t THEN count[t] ELSE 0]

\* The operation's value is named once (\E), so that TLC computes it once.
CoordinatorBecomes(c, count) ==
    \E d \in {c} :
       /\ pending' = d.pending
       /\ journal' = d.journal
       /\ fault' = d.fault
       /\ writes' = KnownWrites(d.journal, count)

\* LeaseManager::owns.
Owns(r) ==
    \E l \in held : l.id = r.lease /\ l.client = r.client /\ r.resources \subseteq l.resources

IsCurrent(g) == present /\ g = generation

---------------------------------------------------------------------------
(***************************************************************************)
(* submit, called by the submit_transaction RPC with the caller's session. *)
(* A profile, readiness or availability refusal may come at any time and   *)
(* leaves no trace.                                                        *)
(***************************************************************************)
Submit(s, r) ==
    LET q == [request |-> r, session |-> s]
        admitted == [Coordinator EXCEPT !.pending = Admit(pending, q)]
        finished == FinishEach(admitted, Superseded(pending, q), "superseded")
        recorded == Recorded(finished, [request |-> r, state |-> "queued",
                                        live |-> FALSE, retry |-> FALSE])
    IN  /\ s \in open
        /\ s.client = r.client
        /\ ~Answers(journal, r)
        /\ Owns(r)
        /\ IsCurrent(r.generation)
        /\ Admissible(pending, q, clock)
        /\ CoordinatorBecomes(
              IF recorded.fault /\ ~finished.fault
              THEN [recorded EXCEPT !.pending = Without(@, {p \in ToSet(@) : p.request = r})]
              ELSE recorded, writes)
        /\ UNCHANGED authority

---------------------------------------------------------------------------
(***************************************************************************)
(* The transport, as crates/hfx-core/src/ports.rs describes it to the      *)
(* coordinator.  Whatever it answers to reconcile or dispatch comes down   *)
(* to a terminal kind and facts; an answer without a receipt is a failed   *)
(* one, and a lost answer reports a possible write.                        *)
(***************************************************************************)
Replies ==
    [terminal : {"delivered", "failed", "revoked"}, delivered : 0 .. Declared + 1,
     certainty : {"none", "possible", "partial", "committed"},
     live : BOOLEAN, safe : BOOLEAN]

\* Transport does not hide a write behind facts that all deny it, and does not
\* report a completed delivery that did not happen.
Honest(reply, wrote) ==
    /\ wrote => reply.live \/ reply.delivered > 0 \/ reply.certainty # "none"
    /\ reply.terminal = "delivered" /\ reply.delivered = Declared => wrote

\* Mutant: a possible side effect does not count as an executed write.
NormalizeReported(reply) ==
    [reply EXCEPT !.delivered = IF @ > Declared THEN Declared ELSE @]

NormalizeFacts(reply) ==
    LET delivered == IF reply.delivered > Declared THEN Declared ELSE reply.delivered
        certainty == IF delivered > 0 /\ delivered < Declared THEN "partial"
                     ELSE reply.certainty
        live == reply.live \/ delivered > 0 \/ certainty # "none"
    IN  [terminal |-> reply.terminal, delivered |-> delivered, live |-> live,
         certainty |-> IF live /\ certainty = "none" THEN "possible" ELSE certainty,
         safe |-> reply.safe /\ ~live /\ delivered = 0 /\ certainty = "none"]

ClassifyReceipt(reply) ==
    LET facts == NormalizeFacts(reply) IN
    IF reply.delivered > Declared THEN "failed"
    ELSE IF /\ reply.terminal = "delivered"
            /\ facts.delivered = Declared
            /\ facts.certainty = "committed"
            /\ facts.live
         THEN "succeeded"
         ELSE IF reply.terminal = "revoked" THEN "revoked" ELSE "failed"

\* automatic_retry, computed once more from the normalized facts.
RetryIsSafe(facts) ==
    facts.safe /\ ~facts.live /\ facts.delivered = 0 /\ facts.certainty = "none"

\* What reconcile_or_dispatch can come to, with whether the receiver was written.
Verdicts ==
    {[state |-> ClassifyReceipt(p[1]), live |-> NormalizeFacts(p[1]).live,
      retry |-> RetryIsSafe(NormalizeFacts(p[1])), wrote |-> p[2]] :
        p \in {p \in Replies \X BOOLEAN : Honest(p[1], p[2])}}

\* Mutant: transport is called for a transaction still recorded as queued.
TransmitUnrecorded(c, q, verdict) ==
    Recorded(c, [request |-> q.request, state |-> verdict.state,
                 live |-> verdict.live, retry |-> verdict.retry])

\* The transaction is recorded as sent before transport is called.
Transmit(c, q, verdict) ==
    LET sent == Recorded(c, [request |-> q.request, state |-> "sent",
                             live |-> FALSE, retry |-> FALSE])
    IN  Recorded(sent, [request |-> q.request, state |-> verdict.state,
                        live |-> verdict.live, retry |-> verdict.retry])

---------------------------------------------------------------------------
(***************************************************************************)
(* dispatch_decision: finish what expired, then recheck every authority of *)
(* the chosen transaction and send it or revoke it.                        *)
(***************************************************************************)
\* Mutant: ownership is trusted from admission.
PreflightWithoutOwnership(q) == q.session \in open /\ IsCurrent(q.request.generation)

\* The gates of dispatch_preflight that the model can decide; a profile,
\* readiness or availability failure is DispatchRefused.
Preflight(q) ==
    /\ q.session \in open
    /\ Owns(q.request)
    /\ IsCurrent(q.request.generation)

\* Mutant: elapsed work leaves the queue without an outcome.
AfterSilentExpiry(rest) == [Coordinator EXCEPT !.pending = rest]

\* Queue and journal after elapsed work is finished and rest is left queued.
AfterExpiry(rest) ==
    FinishEach([Coordinator EXCEPT !.pending = rest], Expired(pending, clock), "revoked")

DispatchSent(q, rest) ==
    /\ Preflight(q)
    /\ \E verdict \in Verdicts :
         CoordinatorBecomes(
            Transmit(AfterExpiry(rest), q, verdict),
            IF verdict.wrote THEN [writes EXCEPT ![q.request.transaction] = @ + 1] ELSE writes)
    /\ UNCHANGED authority

DispatchRefused(q, rest) ==
    /\ CoordinatorBecomes(FinishUnsent(AfterExpiry(rest), q, "revoked"), writes)
    /\ UNCHANGED authority

\* dispatch_next, once per runtime tick while anything is queued.
DispatchNext ==
    LET live == Unexpired(pending, clock) IN
    /\ pending # <<>>
    /\ \/ live # <<>> /\ (DispatchRefused(Head(live), Tail(live)) \/ DispatchSent(Head(live), Tail(live)))
       \/ live = <<>> /\ CoordinatorBecomes(AfterExpiry(<<>>), writes) /\ UNCHANGED authority

\* dispatch_transaction, which the restoration engine calls for its own claim:
\* the rest stays queued, and a claim that has elapsed is only finished.
DispatchTransaction ==
    LET live == Unexpired(pending, clock) IN
    \/ \E i \in DOMAIN live :
         /\ live[i].request.class = "restore"
         /\ \/ DispatchSent(live[i], RemoveAt(live, i))
            \/ DispatchRefused(live[i], RemoveAt(live, i))
    \/ /\ \E q \in ToSet(Expired(pending, clock)) : q.request.class = "restore"
       /\ CoordinatorBecomes(AfterExpiry(live), writes)
       /\ UNCHANGED authority

CancelTransaction ==
    \E i \in DOMAIN pending :
        /\ pending[i].request.class = "restore"
        /\ CoordinatorBecomes(
             FinishUnsent([Coordinator EXCEPT !.pending = RemoveAt(pending, i)],
                          pending[i], "revoked"), writes)
        /\ UNCHANGED authority

---------------------------------------------------------------------------
(***************************************************************************)
(* Authority changes.                                                      *)
(***************************************************************************)
Revoke(removed) ==
    CoordinatorBecomes(
        FinishEach([Coordinator EXCEPT !.pending = Without(pending, removed)],
                   Without(pending, ToSet(pending) \ removed), "revoked"), writes)

End(leases) == held' = held \ leases /\ spent' = spent \union leases

\* The session registry revokes the session, then the backend releases the
\* client's leases and finishes its queued work (disconnect).
Disconnect(s) ==
    /\ s \in open
    /\ open' = open \ {s}
    /\ End({l \in held : l.client = s.client})
    /\ Revoke({q \in ToSet(pending) : q.session = s})
    /\ UNCHANGED <<generation, present, clock>>

\* The transport observes the receiver leave, or a new generation of it appear.
ReceiverLost ==
    /\ present
    /\ present' = FALSE
    /\ UNCHANGED <<pending, journal, fault, writes, open, held, spent, generation, clock>>

ReceiverReplaced ==
    /\ generation < MaxGeneration
    /\ generation' = generation + 1
    /\ present' = TRUE
    /\ UNCHANGED <<pending, journal, fault, writes, open, held, spent, clock>>

\* The generation orchestrator retires a generation the transport no longer
\* reports: queued work and leases of that generation end in one step.
RetireGeneration(g) ==
    /\ g <= generation
    /\ ~IsCurrent(g)
    /\ Revoke({q \in ToSet(pending) : q.request.generation = g})
    /\ End({l \in held : l.generation = g})
    /\ UNCHANGED <<open, generation, present, clock>>

LeaseGranted(l) ==
    /\ l \notin held \union spent
    /\ IsCurrent(l.generation)
    /\ \E s \in open : s.client = l.client
    /\ \A k \in held : k.resources \intersect l.resources = {}
    /\ held' = held \union {l}
    /\ UNCHANGED <<pending, journal, fault, writes, open, spent, generation, present, clock>>

LeaseEnded(l) ==
    /\ l \in held
    /\ End({l})
    /\ UNCHANGED <<pending, journal, fault, writes, open, generation, present, clock>>

Advance ==
    /\ clock < MaxClock
    /\ clock' = clock + 1
    /\ UNCHANGED <<pending, journal, fault, writes, open, held, spent, generation, present>>

Next ==
    \/ \E s \in Sessions, r \in Requests : Submit(s, r)
    \/ DispatchNext
    \/ DispatchTransaction
    \/ CancelTransaction
    \/ \E s \in Sessions : Disconnect(s)
    \/ ReceiverLost
    \/ ReceiverReplaced
    \/ \E g \in 1 .. MaxGeneration : RetireGeneration(g)
    \/ \E l \in Leases : LeaseGranted(l) \/ LeaseEnded(l)
    \/ Advance

\* The actor runs the runtime tick after every command and at least once per
\* interval, and every tick dispatches while anything is queued.
Fairness == WF_vars(DispatchNext)

Spec == Init /\ [][Next]_vars /\ Fairness

---------------------------------------------------------------------------
(***************************************************************************)
(* Properties                                                              *)
(***************************************************************************)
Journals ==
    [retained : [TransactionIds -> Outcomes \union {NoOutcome}],
     order : Seq(TransactionIds), evicted : Seq(Requests)]

\* The state has its type; queue, journal and eviction memory stay within the
\* one capacity they share.
TypeOK ==
    /\ pending \in Seq(Queued)
    /\ journal \in Journals
    /\ Len(pending) <= Capacity
    /\ Cardinality(Retained(journal)) <= Capacity
    /\ Len(journal.evicted) <= Capacity
    /\ fault \in BOOLEAN
    /\ open \subseteq Sessions
    /\ held \subseteq Leases /\ spent \subseteq Leases
    /\ generation \in 1 .. MaxGeneration /\ present \in BOOLEAN
    /\ clock \in 0 .. MaxClock
    /\ writes \in [TransactionIds -> Nat]

\* No operation meets an internal error: the journal never refuses a record,
\* in particular its slots are never all taken by unfinished transactions
\* (CapacityExhausted), and no outcome regresses (InvalidProgression).
NoInternalError == ~fault

\* The transactions the journal holds unfinished are exactly the queued ones,
\* and both list them in the order of admission: nothing admitted is lost and
\* dispatch is first in, first out.
QueueMatchesJournal ==
    Without(journal.order, {t \in Retained(journal) : IsTerminal(journal.retained[t])})
        = [i \in DOMAIN pending |-> pending[i].request.transaction]

\* A transaction the journal knows, retained or evicted, has reached the
\* receiver at most once, however often it is submitted.
AtMostOnce == \A t \in TransactionIds : writes[t] <= 1

\* What an outcome tells the client is true of the receiver: automatic retry
\* is offered only when nothing was written, a success was written, a write
\* is never reported as no live write, and unfinished work was not written.
OutcomesAreTruthful ==
    \A t \in Retained(journal) :
        LET outcome == journal.retained[t] IN
        /\ outcome.retry => writes[t] = 0
        /\ outcome.state = "succeeded" => writes[t] = 1
        /\ writes[t] > 0 => outcome.live /\ IsTerminal(outcome)

\* A write reaches the receiver only while the session that submitted it is
\* open, its client holds the lease it names, and its generation is current,
\* however long it was queued.
WritesAreAuthorised ==
    [][\A i \in DOMAIN pending :
         LET r == pending[i].request IN
         writes'[r.transaction] > writes[r.transaction] =>
            pending[i].session \in open /\ Owns(r) /\ IsCurrent(r.generation)]_vars

\* A frame is superseded only by a newly admitted frame of the same session,
\* lease, generation and resources: work of another authority is never dropped
\* in its favour.
SupersededIsObsolete ==
    [][\A i \in DOMAIN pending :
         LET old == pending[i].request
             outcome == journal'.retained[old.transaction]
         IN  outcome # NoOutcome /\ outcome.state = "superseded" =>
               \E k \in DOMAIN pending' :
                  LET new == pending'[k].request IN
                  /\ pending'[k].session = pending[i].session
                  /\ new.transaction \notin Retained(journal)
                  /\ old.class = EffectFrame /\ new.class = EffectFrame
                  /\ old.lease = new.lease /\ old.generation = new.generation
                  /\ old.resources = new.resources]_vars

\* Every admitted transaction is eventually finished, whatever is submitted
\* after it.
AdmittedIsFinished ==
    \A t \in TransactionIds :
        []<>(t \in Retained(journal) => IsTerminal(journal.retained[t]))
===========================================================================
