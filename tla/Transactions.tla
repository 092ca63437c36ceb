--------------------------- MODULE Transactions ---------------------------
(***************************************************************************)
(* The bounded transaction queue and the bounded outcome journal of        *)
(* crates/hfx-core/src/transactions.rs, as operators on values.            *)
(*                                                                         *)
(* A request is one record of Requests and stands for its own canonical    *)
(* digest: two requests have the same digest exactly when they are equal.  *)
(* The queue is a sequence of Queued records.  The journal is the record   *)
(* [retained, order, evicted]: outcomes by transaction, their order of     *)
(* admission, and the requests whose outcome was evicted.                  *)
(***************************************************************************)
EXTENDS Naturals, FiniteSets, SequencesExt, Filtering

CONSTANTS
    Requests,       \* records [client, request, transaction, lease, resources, generation, class, deadline]
    Sessions,       \* records [id, client]; the id stands for session id and authorization epoch
    Capacity,       \* bound of the queue, of the journal and of its eviction memory
    NoOutcome       \* no entry

ASSUME TransactionConstants ==
    /\ Capacity \in Nat \ {0}
    /\ IsFiniteSet(Requests)
    /\ \A r \in Requests : r.deadline \in Nat

EffectFrame == "effect-frame"

TransactionIds == {r.transaction : r \in Requests}

Queued == [request : Requests, session : Sessions]

ProgressStates == {"queued", "sent", "health-pending"}
TerminalStates == {"succeeded", "failed", "revoked", "superseded"}

\* live is live_write_executed, retry is automatic_retry.
Outcomes ==
    [request : Requests, state : ProgressStates \union TerminalStates,
     live : BOOLEAN, retry : BOOLEAN]

ASSUME NoOutcomeIsNoOutcome == NoOutcome \notin Outcomes

EmptyJournal ==
    [retained |-> [t \in TransactionIds |-> NoOutcome], order |-> <<>>, evicted |-> <<>>]

---------------------------------------------------------------------------
(***************************************************************************)
(* BoundedTransactionQueue                                                 *)
(***************************************************************************)
\* Mutant: frames are obsolete per resource, whatever lease and generation they name.
CoalescingByResource(left, right) ==
    /\ left.request.class = EffectFrame
    /\ left.session = right.session
    /\ left.request.resources = right.request.resources

CoalescingScope(left, right) ==
    /\ left.request.class = EffectFrame
    /\ left.session = right.session
    /\ left.request.client = right.request.client
    /\ left.request.lease = right.request.lease
    /\ left.request.generation = right.request.generation
    /\ left.request.resources = right.request.resources

\* The obsolete frames a new one may replace; admit takes the first.
Obsolete(pending, q) ==
    {i \in DOMAIN pending :
        q.request.class = EffectFrame /\ CoalescingScope(pending[i], q)}

\* Mutant: the bound of the queue is not enforced.
AdmissibleUnbounded(pending, q, now) == q.request.deadline > now

Admissible(pending, q, now) ==
    /\ q.request.deadline > now
    /\ Obsolete(pending, q) # {} \/ Len(pending) < Capacity

\* The frame that admission supersedes, as a sequence of at most one.
Superseded(pending, q) ==
    IF Obsolete(pending, q) = {} THEN <<>> ELSE <<pending[Min(Obsolete(pending, q))]>>

\* Mutant: a coalesced frame takes the place of the one it supersedes.
AdmitInPlace(pending, q) ==
    IF Obsolete(pending, q) = {} THEN Append(pending, q)
    ELSE [pending EXCEPT ![Min(Obsolete(pending, q))] = q]

Admit(pending, q) ==
    IF Obsolete(pending, q) = {} THEN Append(pending, q)
    ELSE Append(RemoveAt(pending, Min(Obsolete(pending, q))), q)

Elapsed(pending, now) == {q \in ToSet(pending) : q.request.deadline <= now}

Expired(pending, now) == Without(pending, ToSet(pending) \ Elapsed(pending, now))

Unexpired(pending, now) == Without(pending, Elapsed(pending, now))

---------------------------------------------------------------------------
(***************************************************************************)
(* BoundedOutcomeJournal                                                   *)
(***************************************************************************)
IsTerminal(outcome) == outcome.state \in TerminalStates

Retained(j) == {t \in TransactionIds : j.retained[t] # NoOutcome}

ValidProgression(previous, next) ==
    /\ \/ previous.state = next.state
       \/ previous.state = "queued" /\ next.state \in {"sent", "revoked", "superseded"}
       \/ previous.state = "sent" /\ next.state \in {"health-pending", "succeeded", "failed", "revoked"}
       \/ previous.state = "health-pending" /\ next.state \in {"succeeded", "failed", "revoked"}
    /\ previous.live => next.live

SameRequestId(r, s) == r.client = s.client /\ r.request = s.request

\* What the journal still knows of: retained outcomes and evicted identities.
Known(j) == {j.retained[t].request : t \in Retained(j)} \union ToSet(j.evicted)

RequestIdentityConflicts(j, r) == \E k \in Known(j) : SameRequestId(k, r) /\ k # r

Terminals(j) == {i \in DOMAIN j.order : IsTerminal(j.retained[j.order[i]])}

\* Whether record returns Ok.
Accepts(j, outcome) ==
    LET t == outcome.request.transaction IN
    IF t \in Retained(j)
    THEN /\ j.retained[t].request = outcome.request
         /\ IF IsTerminal(j.retained[t]) THEN j.retained[t] = outcome
            ELSE ValidProgression(j.retained[t], outcome)
    ELSE /\ ~RequestIdentityConflicts(j, outcome.request)
         /\ Cardinality(Retained(j)) < Capacity \/ Terminals(j) # {}

\* A full journal gives up its oldest terminal outcome and keeps its identity.
EvictTerminal(j) ==
    IF Cardinality(Retained(j)) < Capacity THEN j
    ELSE LET i == Min(Terminals(j))
             request == j.retained[j.order[i]].request
             memory == IF Len(j.evicted) = Capacity THEN Tail(j.evicted) ELSE j.evicted
         IN  [retained |-> [j.retained EXCEPT ![j.order[i]] = NoOutcome],
              order    |-> RemoveAt(j.order, i),
              evicted  |-> Append(memory, request)]

\* An accepted record.
Record(j, outcome) ==
    LET t == outcome.request.transaction IN
    IF t \in Retained(j)
    THEN [j EXCEPT !.retained[t] = outcome]
    ELSE LET room == EvictTerminal(j) IN
         [room EXCEPT !.retained[t] = outcome, !.order = Append(@, t)]

\* Mutant: only retained outcomes are consulted, not the eviction memory.
RetainedAnswers(j, r) ==
    \E t \in Retained(j) :
        LET k == j.retained[t].request IN
        SameRequestId(k, r) \/ k.transaction = r.transaction

\* replay by client and request id, then lookup by transaction id: the journal
\* answers (with the outcome, an eviction, a conflict or a refusal) instead of
\* letting the request through.
Answers(j, r) ==
    \E k \in Known(j) : SameRequestId(k, r) \/ k.transaction = r.transaction
===========================================================================
