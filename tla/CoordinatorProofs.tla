------------------------- MODULE CoordinatorProofs -------------------------
(***************************************************************************)
(* The safety of the transaction coordinator, for every set of requests,   *)
(* sessions and leases and every capacity.  The journal and the queue are  *)
(* described as values, because one operation finishes several entries in  *)
(* turn and only its last value is a state:                                *)
(*                                                                         *)
(*   Sound      the journal's order lists its outcomes once each, and it   *)
(*              stays within its bound;                                    *)
(*   Matched    the queued entries are the unfinished outcomes, and both   *)
(*              are in the order of admission;                             *)
(*   Ledger     what each outcome says of the writes that were done.       *)
(***************************************************************************)
EXTENDS Coordinator, SequenceLemmas, FiniteSetTheorems

Tx(q) == q.request.transaction

AsQueued(r) == [request |-> r, state |-> "queued", live |-> FALSE, retry |-> FALSE]

AsUnsent(r, state) ==
    [request |-> r, state |-> state, live |-> FALSE, retry |-> state # "superseded"]

\* finish_unsent records one of these.
UnsentStates == {"revoked", "superseded"}

Coordinators == [pending : Seq(Queued), journal : Journals, fault : BOOLEAN]

---------------------------------------------------------------------------
(***************************************************************************)
(* The invariant.                                                          *)
(***************************************************************************)
Sound(j) ==
    /\ j \in Journals
    /\ \A t \in Retained(j) : j.retained[t].request.transaction = t
    /\ \A a, b \in 1 .. Len(j.order) : j.order[a] = j.order[b] => a = b
    /\ \A a \in 1 .. Len(j.order) : j.order[a] \in Retained(j)
    /\ \A t \in Retained(j) : \E a \in 1 .. Len(j.order) : j.order[a] = t
    /\ Len(j.order) <= Capacity /\ Len(j.evicted) <= Capacity

\* Admitted earlier, in the journal's order.
Before(j, t, u) ==
    \A a, b \in 1 .. Len(j.order) : j.order[a] = t /\ j.order[b] = u => a < b

Matched(p, j) ==
    /\ p \in Seq(Queued)
    /\ \A i \in 1 .. Len(p) : j.retained[Tx(p[i])] = AsQueued(p[i].request)
    /\ \A i, k \in 1 .. Len(p) : Tx(p[i]) = Tx(p[k]) => i = k
    /\ \A t \in Retained(j) : IsTerminal(j.retained[t]) \/ \E i \in 1 .. Len(p) : Tx(p[i]) = t
    /\ \A i, k \in 1 .. Len(p) : i < k => Before(j, Tx(p[i]), Tx(p[k]))

Knows(j, t) == \E k \in Known(j) : k.transaction = t

\* What an outcome says of a transaction written n times.
Truthful(outcome, n) ==
    /\ outcome.retry => n = 0
    /\ outcome.state = "succeeded" => n = 1
    /\ n > 0 => outcome.live /\ IsTerminal(outcome)

Ledger(j, w) ==
    /\ w \in [TransactionIds -> 0 .. 1]
    /\ \A t \in TransactionIds : ~Knows(j, t) => w[t] = 0
    /\ \A t \in Retained(j) : Truthful(j.retained[t], w[t])

Authority ==
    /\ open \subseteq Sessions
    /\ held \subseteq Leases /\ spent \subseteq Leases
    /\ generation \in 1 .. MaxGeneration /\ present \in BOOLEAN
    /\ clock \in 0 .. MaxClock

\* Queue, journal and writes of one state of the coordinator.
Consistent(p, j, w) == Sound(j) /\ Matched(p, j) /\ Ledger(j, w)

IInv == Consistent(pending, journal, writes) /\ fault = FALSE /\ Authority

---------------------------------------------------------------------------

(***************************************************************************)
(* One outcome.                                                            *)
(***************************************************************************)
\* A set that a sequence enumerates has as many elements as the sequence.
LEMMA Enumerated ==
    ASSUME NEW T, NEW s \in Seq(T), NEW R,
           \A a, b \in 1 .. Len(s) : s[a] = s[b] => a = b,
           \A a \in 1 .. Len(s) : s[a] \in R,
           \A t \in R : \E a \in 1 .. Len(s) : s[a] = t
    PROVE  IsFiniteSet(R) /\ Cardinality(R) = Len(s)
<1>1. PICK n \in Nat : n = Len(s)
  OBVIOUS
<1>2. IsFiniteSet(1 .. Len(s)) /\ Cardinality(1 .. Len(s)) = Len(s)
  <2>1. n \in Int /\ 1 \in Int
    OBVIOUS
  <2>2. IsFiniteSet(1 .. n) /\ Cardinality(1 .. n) = IF 1 > n THEN 0 ELSE n - 1 + 1
    BY <2>1, FS_Interval, Zenon
  <2>3. (IF 1 > n THEN 0 ELSE n - 1 + 1) = n
    OBVIOUS
  <2> QED
    BY <1>1, <2>2, <2>3
<1>3. PICK f : f = [a \in 1 .. Len(s) |-> s[a]]
  OBVIOUS
<1>4. f \in [1 .. Len(s) -> R]
  BY <1>3
<1>5. f \in Injection(1 .. Len(s), R)
  BY <1>3, <1>4 DEF Injection, IsInjective
<1>6. f \in Surjection(1 .. Len(s), R)
  BY <1>3, <1>4 DEF Surjection
<1>7. ExistsBijection(1 .. Len(s), R)
  BY <1>5, <1>6 DEF Bijection, ExistsBijection
<1> QED
  BY <1>2, <1>7, FS_Bijection

LEMMA Counted ==
    ASSUME NEW j, Sound(j)
    PROVE  IsFiniteSet(Retained(j)) /\ Cardinality(Retained(j)) = Len(j.order)
<1>1. j.order \in Seq(TransactionIds)
  BY DEF Sound, Journals
<1> QED
  BY <1>1, Enumerated DEF Sound

LEMMA RequestFacts ==
    ASSUME NEW r \in Requests
    PROVE  /\ r.transaction \in TransactionIds
           /\ AsQueued(r) \in Outcomes /\ AsQueued(r) # NoOutcome
           /\ AsQueued(r).request = r /\ AsQueued(r).state = "queued"
           /\ ~AsQueued(r).live /\ ~AsQueued(r).retry
           /\ ~IsTerminal(AsQueued(r))
<1>1. r.transaction \in TransactionIds
  BY DEF TransactionIds
<1>2. AsQueued(r) \in Outcomes
  BY DEF AsQueued, Outcomes, ProgressStates
<1>3. AsQueued(r) # NoOutcome
  BY <1>2, NoOutcomeIsNoOutcome
<1>4. /\ AsQueued(r).request = r /\ AsQueued(r).state = "queued"
      /\ ~AsQueued(r).live /\ ~AsQueued(r).retry
  BY DEF AsQueued
<1>5. ~IsTerminal(AsQueued(r))
  BY <1>4 DEF IsTerminal, TerminalStates
<1> QED
  BY <1>1, <1>2, <1>3, <1>4, <1>5

\* Journal d is journal j with outcome o for transaction t.
Updates(d, j, t, o) ==
    /\ d \in Journals
    /\ d.order = j.order /\ d.evicted = j.evicted
    /\ d.retained = [j.retained EXCEPT ![t] = o]

\* record of a transaction whose outcome is not final.
LEMMA RecordUpdates ==
    ASSUME NEW c \in Coordinators, ~c.fault, NEW o \in Outcomes, NEW t,
           t = o.request.transaction, c.journal.retained[t] \in Outcomes,
           c.journal.retained[t].request = o.request, ~IsTerminal(c.journal.retained[t]),
           ValidProgression(c.journal.retained[t], o)
    PROVE  /\ Recorded(c, o) \in Coordinators /\ ~Recorded(c, o).fault
           /\ Recorded(c, o).pending = c.pending
           /\ Updates(Recorded(c, o).journal, c.journal, t, o)
<1>1. PICK j \in Journals : j = c.journal
  BY DEF Coordinators
<1>2. t \in TransactionIds
  BY DEF Outcomes, TransactionIds
<1>3. t \in Retained(j)
  BY <1>1, <1>2, NoOutcomeIsNoOutcome DEF Retained
<1>4. Accepts(j, o)
  BY <1>1, <1>3 DEF Accepts
<1>5. PICK d : d = [j EXCEPT !.retained[t] = o]
  OBVIOUS
<1>6. Record(j, o) = d
  BY <1>3, <1>5 DEF Record
<1>7. d \in Journals /\ d.order = j.order /\ d.evicted = j.evicted
      /\ d.retained = [j.retained EXCEPT ![t] = o]
  BY <1>1, <1>2, <1>5 DEF Journals
<1>8. Recorded(c, o) = [c EXCEPT !.journal = d]
  BY <1>1, <1>4, <1>6 DEF Recorded
<1> QED
  BY <1>1, <1>7, <1>8 DEF Coordinators, Updates

---------------------------------------------------------------------------
(***************************************************************************)
(* Finishing outcomes: journal d is journal j with the unfinished          *)
(* transactions of D finished.                                             *)
(***************************************************************************)
Settles(d, j, D) ==
    /\ d \in Journals
    /\ d.order = j.order /\ d.evicted = j.evicted
    /\ D \subseteq Retained(j)
    /\ \A t \in TransactionIds \ D : d.retained[t] = j.retained[t]
    /\ \A t \in D : /\ d.retained[t] \in Outcomes /\ IsTerminal(d.retained[t])
                    /\ d.retained[t].request = j.retained[t].request

LEMMA SettlesNothing ==
    ASSUME NEW j \in Journals
    PROVE  Settles(j, j, {})
BY DEF Settles

\* The journals give the transactions of D the same outcomes.
Agree(d, e, D) == \A u \in D : e.retained[u] = d.retained[u]

\* One more transaction is finished.
LEMMA SettlesOneMore ==
    ASSUME NEW j \in Journals, NEW d, NEW D, Settles(d, j, D), NEW e, NEW t, NEW o \in Outcomes,
           t \in Retained(j), t \notin D, Updates(e, d, t, o), IsTerminal(o),
           o.request = j.retained[t].request, NEW E, E = D \union {t}
    PROVE  /\ Settles(e, j, E)
           /\ e.retained[t] = o
           /\ Agree(d, e, D)
<1>1. d \in Journals /\ D \subseteq Retained(j)
  BY DEF Settles
<1>2. t \in TransactionIds /\ D \subseteq TransactionIds
  BY <1>1 DEF Retained
<1>3. d.retained \in [TransactionIds -> Outcomes \union {NoOutcome}]
  BY <1>1 DEF Journals
<1>4. e.retained = [d.retained EXCEPT ![t] = o]
  BY DEF Updates
<1>5. e.retained[t] = o /\ \A u \in TransactionIds : u # t => e.retained[u] = d.retained[u]
  BY <1>2, <1>3, <1>4
<1>6. e \in Journals /\ e.order = j.order /\ e.evicted = j.evicted
  BY DEF Updates, Settles
<1>7. \A u \in D : e.retained[u] = d.retained[u]
  BY <1>2, <1>5
<1>8. \A u \in TransactionIds \ (D \union {t}) : e.retained[u] = j.retained[u]
  BY <1>5 DEF Settles
<1>9. \A u \in D \union {t} :
        /\ e.retained[u] \in Outcomes /\ IsTerminal(e.retained[u])
        /\ e.retained[u].request = j.retained[u].request
  BY <1>5, <1>7 DEF Settles
<1> QED
  BY <1>1, <1>5, <1>6, <1>7, <1>8, <1>9 DEF Settles, Agree

\* The journal knows the same requests as before.
LEMMA SettlesKnown ==
    ASSUME NEW j \in Journals, NEW d, NEW D, Settles(d, j, D)
    PROVE  /\ Retained(d) = Retained(j)
           /\ \A t \in Retained(j) : d.retained[t].request = j.retained[t].request
           /\ Known(d) = Known(j)
<1>1. D \subseteq Retained(j) /\ Retained(j) \subseteq TransactionIds
  BY DEF Settles, Retained
<1>2. \A t \in TransactionIds : t \in Retained(d) <=> t \in Retained(j)
  <2> SUFFICES ASSUME NEW t \in TransactionIds
               PROVE  t \in Retained(d) <=> t \in Retained(j)
    OBVIOUS
  <2>1. CASE t \in D
    BY <1>1, <2>1, NoOutcomeIsNoOutcome DEF Settles, Retained
  <2>2. CASE t \notin D
    BY <2>2 DEF Settles, Retained
  <2> QED
    BY <2>1, <2>2
<1>3. Retained(d) = Retained(j)
  BY <1>2 DEF Retained
<1>4. \A t \in Retained(j) : d.retained[t].request = j.retained[t].request
  <2> SUFFICES ASSUME NEW t \in Retained(j)
               PROVE  d.retained[t].request = j.retained[t].request
    OBVIOUS
  <2>1. CASE t \in D
    BY <2>1 DEF Settles
  <2>2. CASE t \notin D
    BY <1>1, <2>2 DEF Settles
  <2> QED
    BY <2>1, <2>2
<1>5. d.evicted = j.evicted
  BY DEF Settles
<1>6. {d.retained[t].request : t \in Retained(d)} = {j.retained[t].request : t \in Retained(j)}
  BY <1>3, <1>4
<1> QED
  BY <1>3, <1>4, <1>5, <1>6 DEF Known

LEMMA SettlesSound ==
    ASSUME NEW j, Sound(j), NEW d, NEW D, Settles(d, j, D)
    PROVE  Sound(d)
<1>1. j \in Journals
  BY DEF Sound
<1>2. /\ Retained(d) = Retained(j)
      /\ \A t \in Retained(j) : d.retained[t].request = j.retained[t].request
  BY <1>1, SettlesKnown
<1>3. d \in Journals /\ d.order = j.order /\ d.evicted = j.evicted
  BY DEF Settles
<1>4. \A t \in Retained(d) : d.retained[t].request.transaction = t
  BY <1>2 DEF Sound
<1> QED
  BY <1>2, <1>3, <1>4 DEF Sound

\* p2 is what is left of queue p, in its order.
Sublist(p2, p) ==
    /\ p2 \in Seq(Queued)
    /\ \A i \in 1 .. Len(p2) : \E a \in 1 .. Len(p) : p2[i] = p[a]
    /\ \A i, k \in 1 .. Len(p2) : i < k =>
         \E a, b \in 1 .. Len(p) : a < b /\ p2[i] = p[a] /\ p2[k] = p[b]

\* Queue and journal still match when what left the queue was finished.
LEMMA SettlesMatched ==
    ASSUME NEW j, Sound(j), NEW p, Matched(p, j), NEW d, NEW D, Settles(d, j, D),
           NEW p2, Sublist(p2, p),
           \A i \in 1 .. Len(p2) : Tx(p2[i]) \notin D,
           \A i \in 1 .. Len(p) : Tx(p[i]) \in D \/ \E k \in 1 .. Len(p2) : p2[k] = p[i]
    PROVE  Matched(p2, d)
<1>1. j \in Journals /\ p \in Seq(Queued) /\ p2 \in Seq(Queued)
  BY DEF Sound, Matched, Sublist
<1>2. \A i \in 1 .. Len(p2) : Tx(p2[i]) \in TransactionIds
  <2> SUFFICES ASSUME NEW i \in 1 .. Len(p2) PROVE Tx(p2[i]) \in TransactionIds
    OBVIOUS
  <2>1. p2[i] \in Queued
    BY <1>1
  <2> QED
    BY <2>1 DEF Tx, Queued, TransactionIds
<1>3. \A i \in 1 .. Len(p2) : d.retained[Tx(p2[i])] = AsQueued(p2[i].request)
  <2> SUFFICES ASSUME NEW i \in 1 .. Len(p2)
               PROVE  d.retained[Tx(p2[i])] = AsQueued(p2[i].request)
    OBVIOUS
  <2>1. PICK a \in 1 .. Len(p) : p2[i] = p[a]
    BY DEF Sublist
  <2>2. j.retained[Tx(p2[i])] = AsQueued(p2[i].request)
    BY <2>1 DEF Matched
  <2> QED
    BY <1>2, <2>2 DEF Settles
<1>4. \A i, k \in 1 .. Len(p2) : i < k => Tx(p2[i]) # Tx(p2[k])
  <2> SUFFICES ASSUME NEW i \in 1 .. Len(p2), NEW k \in 1 .. Len(p2), i < k
               PROVE  Tx(p2[i]) # Tx(p2[k])
    OBVIOUS
  <2>1. PICK a \in 1 .. Len(p), b \in 1 .. Len(p) : a < b /\ p2[i] = p[a] /\ p2[k] = p[b]
    BY DEF Sublist
  <2>2. a # b
    BY <2>1
  <2> QED
    BY <2>1, <2>2 DEF Matched
<1>5. \A i, k \in 1 .. Len(p2) : Tx(p2[i]) = Tx(p2[k]) => i = k
  <2>1. \A i, k \in 1 .. Len(p2) : i = k \/ i < k \/ k < i
    OBVIOUS
  <2> QED
    BY <1>4, <2>1
<1>6. \A t \in Retained(d) : IsTerminal(d.retained[t]) \/ \E i \in 1 .. Len(p2) : Tx(p2[i]) = t
  <2> SUFFICES ASSUME NEW t \in Retained(d), ~IsTerminal(d.retained[t])
               PROVE  \E i \in 1 .. Len(p2) : Tx(p2[i]) = t
    OBVIOUS
  <2>1. t \notin D
    BY DEF Settles
  <2>2. t \in Retained(j) /\ t \in TransactionIds
    BY <1>1, SettlesKnown DEF Retained
  <2>3. d.retained[t] = j.retained[t]
    BY <2>1, <2>2 DEF Settles
  <2>4. PICK i \in 1 .. Len(p) : Tx(p[i]) = t
    BY <2>2, <2>3 DEF Matched
  <2>5. PICK k \in 1 .. Len(p2) : p2[k] = p[i]
    BY <2>1, <2>4
  <2> QED
    BY <2>4, <2>5
<1>7. \A i, k \in 1 .. Len(p2) : i < k => Before(d, Tx(p2[i]), Tx(p2[k]))
  <2> SUFFICES ASSUME NEW i \in 1 .. Len(p2), NEW k \in 1 .. Len(p2), i < k
               PROVE  Before(d, Tx(p2[i]), Tx(p2[k]))
    OBVIOUS
  <2>1. PICK a \in 1 .. Len(p), b \in 1 .. Len(p) : a < b /\ p2[i] = p[a] /\ p2[k] = p[b]
    BY DEF Sublist
  <2>2. Before(j, Tx(p2[i]), Tx(p2[k]))
    BY <2>1 DEF Matched
  <2>3. d.order = j.order
    BY DEF Settles
  <2> QED
    BY <2>2, <2>3 DEF Before
<1> QED
  BY <1>1, <1>3, <1>5, <1>6, <1>7 DEF Matched

\* The writes of a journal that knows the same transactions stay as they are.
LEMMA KnownWritesKept ==
    ASSUME NEW d, NEW w \in [TransactionIds -> 0 .. 1],
           \A t \in TransactionIds : ~Knows(d, t) => w[t] = 0
    PROVE  KnownWrites(d, w) = w
<1>1. \A t \in TransactionIds : (IF \E k \in Known(d) : k.transaction = t THEN w[t] ELSE 0) = w[t]
  BY DEF Knows
<1>2. w = [t \in TransactionIds |-> w[t]]
  OBVIOUS
<1> QED
  BY <1>1, <1>2 DEF KnownWrites

\* A retained transaction is known.
LEMMA RetainedIsKnown ==
    ASSUME NEW j, Sound(j), NEW t \in Retained(j)
    PROVE  Knows(j, t) /\ t \in TransactionIds
<1>1. j.retained[t].request \in Known(j)
  BY DEF Known
<1>2. j.retained[t].request.transaction = t
  BY DEF Sound
<1> QED
  BY <1>1, <1>2 DEF Knows, Retained

\* Finished transactions whose outcome tells what was written.
LEMMA SettlesLedger ==
    ASSUME NEW j, Sound(j), NEW d, NEW D, Settles(d, j, D),
           NEW w, Ledger(j, w), NEW v \in [TransactionIds -> 0 .. 1],
           \A t \in TransactionIds \ D : v[t] = w[t],
           \A t \in D : Truthful(d.retained[t], v[t])
    PROVE  Ledger(d, v) /\ KnownWrites(d, v) = v
<1>1. Retained(d) = Retained(j) /\ Known(d) = Known(j) /\ D \subseteq Retained(j)
  BY SettlesKnown DEF Settles, Sound
<1>2. \A t \in TransactionIds : Knows(d, t) <=> Knows(j, t)
  BY <1>1 DEF Knows
<1>3. \A t \in D : Knows(j, t)
  BY <1>1, RetainedIsKnown
<1>4. \A t \in TransactionIds : ~Knows(d, t) => v[t] = 0
  <2> SUFFICES ASSUME NEW t \in TransactionIds, ~Knows(d, t) PROVE v[t] = 0
    OBVIOUS
  <2>1. t \notin D /\ ~Knows(j, t)
    BY <1>2, <1>3
  <2> QED
    BY <2>1 DEF Ledger
<1>5. \A t \in Retained(d) : Truthful(d.retained[t], v[t])
  <2> SUFFICES ASSUME NEW t \in Retained(d), t \notin D PROVE Truthful(d.retained[t], v[t])
    OBVIOUS
  <2>1. t \in Retained(j) /\ t \in TransactionIds
    BY <1>1 DEF Retained
  <2>2. d.retained[t] = j.retained[t] /\ v[t] = w[t]
    BY <2>1 DEF Settles
  <2> QED
    BY <2>1, <2>2 DEF Ledger
<1> QED
  BY <1>4, <1>5, KnownWritesKept DEF Ledger

---------------------------------------------------------------------------
(***************************************************************************)
(* FinishEach: the recursion has a solution, and by induction on the       *)
(* number of removed entries it finishes exactly these.                    *)
(***************************************************************************)
Finishings(c, removed, state, f, k) ==
    f = [n \in 0 .. k |-> IF n = 0 THEN c ELSE FinishUnsent(f[n - 1], removed[n], state)]

LEMMA FinishingsExist ==
    ASSUME NEW c, NEW removed, NEW state, NEW k \in Nat
    PROVE  \E f : Finishings(c, removed, state, f, k)
<1> DEFINE Bad == {n \in Nat : ~\E f : Finishings(c, removed, state, f, n)}
<1> SUFFICES ASSUME Bad # {} PROVE FALSE
  OBVIOUS
<1>1. PICK n \in Bad : \A m \in Bad : n <= m
  <2>1. Bad \in SUBSET Nat
    OBVIOUS
  <2> HIDE DEF Bad
  <2> QED
    BY <2>1, LeastNatural
<1>2. CASE n = 0
  <2> DEFINE f == [i \in {0} |-> c]
  <2>1. 0 .. 0 = {0}
    OBVIOUS
  <2>2. Finishings(c, removed, state, f, 0)
    BY <2>1 DEF Finishings
  <2> QED
    BY <1>2, <2>2
<1>3. CASE n # 0
  <2>1. n - 1 \in Nat /\ n - 1 \notin Bad /\ n \in Nat
    BY <1>1, <1>3
  <2>2. PICK g : Finishings(c, removed, state, g, n - 1)
    BY <2>1
  <2> DEFINE last == FinishUnsent(g[n - 1], removed[n], state)
             f == [i \in 0 .. n |-> IF i = n THEN last ELSE g[i]]
  <2>3. Finishings(c, removed, state, f, n)
    <3> SUFFICES ASSUME NEW i \in 0 .. n
                 PROVE  f[i] = IF i = 0 THEN c ELSE FinishUnsent(f[i - 1], removed[i], state)
      BY DEF Finishings
    <3>1. CASE i = n
      <4>1. f[n - 1] = g[n - 1]
        BY <2>1
      <4> QED
        BY <1>3, <3>1, <4>1
    <3>2. CASE i # n
      <4>1. i \in 0 .. n - 1
        BY <2>1, <3>2
      <4>2. f[i] = g[i] /\ (i # 0 => f[i - 1] = g[i - 1])
        BY <2>1, <3>2
      <4>3. g[i] = IF i = 0 THEN c ELSE FinishUnsent(g[i - 1], removed[i], state)
        BY <2>2, <4>1 DEF Finishings
      <4> QED
        BY <4>2, <4>3
    <3> QED
      BY <3>1, <3>2
  <2> QED
    BY <2>1, <2>3
<1> QED
  BY <1>2, <1>3

LEMMA FinishEachIsLast ==
    ASSUME NEW c, NEW removed, NEW state, Len(removed) \in Nat
    PROVE  \E f : /\ Finishings(c, removed, state, f, Len(removed))
                  /\ FinishEach(c, removed, state) = f[Len(removed)]
<1> DEFINE f == CHOOSE f : Finishings(c, removed, state, f, Len(removed))
<1>1. Finishings(c, removed, state, f, Len(removed))
  BY FinishingsExist
<1>2. FinishEach(c, removed, state) = f[Len(removed)]
  BY DEF FinishEach, Finishings
<1> QED
  BY <1>1, <1>2

\* c has finished the entries of s up to n.
FirstTx(s, n) == {Tx(s[i]) : i \in 1 .. n}

HasFinished(e, c, s, n, state) ==
    /\ e \in Coordinators /\ ~e.fault
    /\ e.pending = c.pending
    /\ Settles(e.journal, c.journal, FirstTx(s, n))
    /\ \A i \in 1 .. n : e.journal.retained[Tx(s[i])] = AsUnsent(s[i].request, state)

\* Entries that the journal holds as queued and that are listed once.
Finishable(j, s) ==
    /\ s \in Seq(Queued)
    /\ \A i \in 1 .. Len(s) : j.retained[Tx(s[i])] = AsQueued(s[i].request)
    /\ \A i, k \in 1 .. Len(s) : Tx(s[i]) = Tx(s[k]) => i = k

LEMMA UnsentFacts ==
    ASSUME NEW r \in Requests, NEW state \in UnsentStates
    PROVE  /\ AsUnsent(r, state) \in Outcomes /\ IsTerminal(AsUnsent(r, state))
           /\ AsUnsent(r, state).request = r /\ AsUnsent(r, state).state = state
           /\ ~AsUnsent(r, state).live
           /\ ValidProgression(AsQueued(r), AsUnsent(r, state))
<1>1. AsUnsent(r, state) \in Outcomes
  BY DEF AsUnsent, Outcomes, TerminalStates, UnsentStates
<1>2. /\ AsUnsent(r, state).request = r /\ AsUnsent(r, state).state = state
      /\ ~AsUnsent(r, state).live
  BY DEF AsUnsent
<1>3. IsTerminal(AsUnsent(r, state))
  BY <1>2 DEF IsTerminal, TerminalStates, UnsentStates
<1>4. AsQueued(r).state = "queued" /\ ~AsQueued(r).live
  BY RequestFacts
<1>5. ValidProgression(AsQueued(r), AsUnsent(r, state))
  BY <1>2, <1>4 DEF ValidProgression, UnsentStates
<1> QED
  BY <1>1, <1>2, <1>3, <1>5

\* finish_unsent of one queued entry that is not among those finished before.
LEMMA FinishUnsentSettles ==
    ASSUME NEW c \in Coordinators, ~c.fault, NEW j \in Journals, NEW D, Settles(c.journal, j, D),
           NEW q \in Queued, Tx(q) \notin D, j.retained[Tx(q)] = AsQueued(q.request),
           NEW state \in UnsentStates, NEW e, e = FinishUnsent(c, q, state),
           NEW E, E = D \union {Tx(q)}
    PROVE  /\ e \in Coordinators /\ ~e.fault /\ e.pending = c.pending
           /\ Settles(e.journal, j, E)
           /\ e.journal.retained[Tx(q)] = AsUnsent(q.request, state)
           /\ Agree(c.journal, e.journal, D)
<1>1. q.request \in Requests
  BY DEF Queued
<1>2. PICK o : o = AsUnsent(q.request, state)
  OBVIOUS
<1>3. /\ o \in Outcomes /\ IsTerminal(o) /\ o.request = q.request
      /\ ValidProgression(AsQueued(q.request), o)
  BY <1>1, <1>2, UnsentFacts
<1>4. PICK t : t = Tx(q)
  OBVIOUS
<1>5. t \in TransactionIds /\ t = o.request.transaction
  BY <1>1, <1>3, <1>4, RequestFacts DEF Tx
<1>6. /\ AsQueued(q.request) \in Outcomes /\ AsQueued(q.request) # NoOutcome
      /\ AsQueued(q.request).request = q.request /\ ~IsTerminal(AsQueued(q.request))
  BY <1>1, RequestFacts
<1>7. c.journal.retained[t] = AsQueued(q.request)
  BY <1>4, <1>5 DEF Settles
<1>8. e = Recorded(c, o)
  BY <1>2 DEF FinishUnsent, AsUnsent
<1>9. e \in Coordinators /\ ~e.fault /\ e.pending = c.pending
      /\ Updates(e.journal, c.journal, t, o)
  BY <1>3, <1>5, <1>6, <1>7, <1>8, RecordUpdates
<1>10. t \in Retained(j) /\ o.request = j.retained[t].request
  BY <1>3, <1>4, <1>5, <1>6 DEF Retained
<1>11. Settles(e.journal, j, E) /\ e.journal.retained[t] = o
       /\ Agree(c.journal, e.journal, D)
  <2>1. PICK d : d = c.journal
    OBVIOUS
  <2>2. PICK k : k = e.journal
    OBVIOUS
  <2>3. Settles(d, j, D) /\ Updates(k, d, t, o) /\ t \notin D
    BY <1>4, <1>9, <2>1, <2>2
  <2>4. Settles(k, j, E) /\ k.retained[t] = o
        /\ Agree(d, k, D)
    <3>1. E = D \union {t}
      BY <1>4
    <3> QED
      BY <1>3, <1>10, <2>3, <3>1, SettlesOneMore
  <2> QED
    BY <2>1, <2>2, <2>4
<1> QED
  BY <1>2, <1>4, <1>9, <1>11

LEMMA FinishEachSettles ==
    ASSUME NEW c \in Coordinators, ~c.fault, NEW s, Finishable(c.journal, s),
           NEW state \in UnsentStates
    PROVE  HasFinished(FinishEach(c, s, state), c, s, Len(s), state)
<1>1. s \in Seq(Queued) /\ c.journal \in Journals
  BY DEF Finishable, Coordinators
<1>2. PICK m \in Nat : m = Len(s)
  BY <1>1
<1>3. PICK f : Finishings(c, s, state, f, m) /\ FinishEach(c, s, state) = f[m]
  BY <1>2, FinishEachIsLast
<1> DEFINE Bad == {n \in 0 .. m : ~HasFinished(f[n], c, s, n, state)}
<1> SUFFICES ASSUME Bad # {} PROVE FALSE
  <2>1. m \in 0 .. m
    OBVIOUS
  <2> QED
    BY <1>2, <1>3, <2>1
<1>4. PICK n \in Bad : \A k \in Bad : n <= k
  <2>1. Bad \in SUBSET Nat
    OBVIOUS
  <2> HIDE DEF Bad
  <2> QED
    BY <2>1, LeastNatural
<1>5. n \in 0 .. m /\ ~HasFinished(f[n], c, s, n, state)
  BY <1>4
<1>6. f[n] = IF n = 0 THEN c ELSE FinishUnsent(f[n - 1], s[n], state)
  BY <1>3, <1>5 DEF Finishings
<1>7. CASE n = 0
  <2>1. f[n] = c
    BY <1>6, <1>7
  <2>2. 1 .. 0 = {}
    OBVIOUS
  <2>3. FirstTx(s, 0) = {}
    BY <2>2 DEF FirstTx
  <2>4. HasFinished(c, c, s, 0, state)
    BY <1>1, <2>2, <2>3, SettlesNothing DEF HasFinished
  <2> QED
    BY <1>5, <1>7, <2>1, <2>4
<1>8. CASE n # 0
  <2>1. n \in 1 .. m /\ n - 1 \in 0 .. m /\ n - 1 \notin Bad
    BY <1>4, <1>5, <1>8
  <2>2. HasFinished(f[n - 1], c, s, n - 1, state)
    BY <2>1
  <2>3. PICK g : g = f[n - 1]
    OBVIOUS
  <2>4. PICK e : e = f[n]
    OBVIOUS
  <2>5. e = FinishUnsent(g, s[n], state)
    BY <1>6, <1>8, <2>3, <2>4
  <2>6. /\ g \in Coordinators /\ ~g.fault /\ g.pending = c.pending
        /\ Settles(g.journal, c.journal, FirstTx(s, n - 1))
        /\ \A i \in 1 .. n - 1 : g.journal.retained[Tx(s[i])] = AsUnsent(s[i].request, state)
    BY <2>2, <2>3 DEF HasFinished
  <2>7. s[n] \in Queued
    BY <1>1, <1>2, <2>1
  <2>8. Tx(s[n]) \notin FirstTx(s, n - 1)
    <3> SUFFICES ASSUME NEW i \in 1 .. n - 1, Tx(s[i]) = Tx(s[n]) PROVE FALSE
      BY DEF FirstTx
    <3>1. i \in 1 .. m /\ i # n
      BY <2>1
    <3> QED
      BY <1>2, <2>1, <3>1 DEF Finishable
  <2>9. c.journal.retained[Tx(s[n])] = AsQueued(s[n].request)
    BY <1>2, <2>1 DEF Finishable
  <2>10. /\ e \in Coordinators /\ ~e.fault /\ e.pending = g.pending
         /\ Settles(e.journal, c.journal, FirstTx(s, n - 1) \union {Tx(s[n])})
         /\ e.journal.retained[Tx(s[n])] = AsUnsent(s[n].request, state)
         /\ Agree(g.journal, e.journal, FirstTx(s, n - 1))
    <3>1. PICK D : D = FirstTx(s, n - 1)
      OBVIOUS
    <3>2. PICK q \in Queued : q = s[n]
      BY <2>7
    <3>3. PICK j \in Journals : j = c.journal
      BY <1>1
    <3>4. /\ Settles(g.journal, j, D) /\ Tx(q) \notin D /\ e = FinishUnsent(g, q, state)
          /\ j.retained[Tx(q)] = AsQueued(q.request) /\ g \in Coordinators /\ ~g.fault
      BY <2>5, <2>6, <2>8, <2>9, <3>1, <3>2, <3>3
    <3> DEFINE E == D \union {Tx(q)}
    <3>5. E = D \union {Tx(q)}
      OBVIOUS
    <3> HIDE DEF E
    <3>6. /\ e \in Coordinators /\ ~e.fault /\ e.pending = g.pending
          /\ Settles(e.journal, j, E)
          /\ e.journal.retained[Tx(q)] = AsUnsent(q.request, state)
          /\ Agree(g.journal, e.journal, D)
      BY <3>4, <3>5, FinishUnsentSettles
    <3> QED
      BY <3>1, <3>2, <3>3, <3>5, <3>6
  <2>11. 1 .. n = (1 .. n - 1) \union {n}
    BY <2>1
  <2>12. FirstTx(s, n) = FirstTx(s, n - 1) \union {Tx(s[n])}
    BY <2>11 DEF FirstTx
  <2>13. \A i \in 1 .. n : e.journal.retained[Tx(s[i])] = AsUnsent(s[i].request, state)
    <3> SUFFICES ASSUME NEW i \in 1 .. n
                 PROVE  e.journal.retained[Tx(s[i])] = AsUnsent(s[i].request, state)
      OBVIOUS
    <3>1. CASE i = n
      BY <2>10, <3>1
    <3>2. CASE i \in 1 .. n - 1
      <4>1. Tx(s[i]) \in FirstTx(s, n - 1)
        BY <3>2 DEF FirstTx
      <4> QED
        BY <2>6, <2>10, <3>2, <4>1 DEF Agree
    <3> QED
      BY <2>11, <3>1, <3>2
  <2>14. HasFinished(e, c, s, n, state)
    BY <2>6, <2>10, <2>12, <2>13 DEF HasFinished
  <2> QED
    BY <1>5, <2>4, <2>14
<1> QED
  BY <1>7, <1>8

---------------------------------------------------------------------------
(***************************************************************************)
(* What leaves the queue.                                                  *)
(***************************************************************************)
\* p2 is p without the entries of the transactions D.
Leaves(p2, p, D) ==
    /\ Sublist(p2, p)
    /\ \A i \in 1 .. Len(p2) : Tx(p2[i]) \notin D
    /\ \A i \in 1 .. Len(p) : Tx(p[i]) \in D \/ \E k \in 1 .. Len(p2) : p2[k] = p[i]

\* Each transaction is listed once.
Once(p) == \A i, k \in 1 .. Len(p) : Tx(p[i]) = Tx(p[k]) => i = k

LEMMA SublistOnce ==
    ASSUME NEW p \in Seq(Queued), Once(p), NEW p2, Sublist(p2, p)
    PROVE  Once(p2)
<1>1. \A i, k \in 1 .. Len(p2) : i < k => Tx(p2[i]) # Tx(p2[k])
  <2> SUFFICES ASSUME NEW i \in 1 .. Len(p2), NEW k \in 1 .. Len(p2), i < k
               PROVE  Tx(p2[i]) # Tx(p2[k])
    OBVIOUS
  <2>1. PICK a \in 1 .. Len(p), b \in 1 .. Len(p) : a < b /\ p2[i] = p[a] /\ p2[k] = p[b]
    BY DEF Sublist
  <2>2. a # b
    BY <2>1
  <2> QED
    BY <2>1, <2>2 DEF Once
<1>2. p2 \in Seq(Queued)
  BY DEF Sublist
<1>3. \A i, k \in 1 .. Len(p2) : i = k \/ i < k \/ k < i
  BY <1>2
<1> QED
  BY <1>1, <1>3 DEF Once

LEMMA FilterIsSublist ==
    ASSUME NEW p \in Seq(Queued), NEW K
    PROVE  Sublist(Without(p, K), p)
<1>1. PICK w : w = Without(p, K)
  OBVIOUS
<1>2. w \in Seq(Queued) /\ Filters(w, p, Len(p), K)
  BY <1>1, WithoutProperties
<1>3. \A i \in 1 .. Len(w) : \E a \in 1 .. Len(p) : w[i] = p[a]
  BY <1>2 DEF Filters
<1>4. \A i, k \in 1 .. Len(w) : i < k =>
        \E a, b \in 1 .. Len(p) : a < b /\ w[i] = p[a] /\ w[k] = p[b]
  BY <1>2 DEF Filters
<1> QED
  BY <1>1, <1>2, <1>3, <1>4 DEF Sublist

\* retain leaves what extract_if does not take.
LEMMA FilterLeaves ==
    ASSUME NEW p \in Seq(Queued), Once(p), NEW K, NEW r, r = Without(p, ToSet(p) \ K)
    PROVE  /\ Leaves(Without(p, K), p, FirstTx(r, Len(r)))
           /\ Sublist(r, p)
           /\ \A k \in 1 .. Len(r) : r[k] \in K
<1>1. PICK w : w = Without(p, K)
  OBVIOUS
<1>2. w \in Seq(Queued) /\ Filters(w, p, Len(p), K)
  BY <1>1, WithoutProperties
<1>3. r \in Seq(Queued) /\ Filters(r, p, Len(p), ToSet(p) \ K)
  BY WithoutProperties
<1>4. \A a \in 1 .. Len(p) : p[a] \in ToSet(p)
  BY DEF ToSet
<1>5. \A k \in 1 .. Len(r) : \E a \in 1 .. Len(p) : r[k] = p[a] /\ p[a] \in K
  <2> SUFFICES ASSUME NEW k \in 1 .. Len(r)
               PROVE  \E a \in 1 .. Len(p) : r[k] = p[a] /\ p[a] \in K
    OBVIOUS
  <2>1. PICK a \in 1 .. Len(p) : r[k] = p[a]
    BY <1>3 DEF Filters
  <2>2. r[k] \notin ToSet(p) \ K
    BY <1>3 DEF Filters
  <2> QED
    BY <1>4, <2>1, <2>2
<1>6. \A i \in 1 .. Len(w) : \E a \in 1 .. Len(p) : w[i] = p[a] /\ p[a] \notin K
  <2> SUFFICES ASSUME NEW i \in 1 .. Len(w)
               PROVE  \E a \in 1 .. Len(p) : w[i] = p[a] /\ p[a] \notin K
    OBVIOUS
  <2>1. PICK a \in 1 .. Len(p) : w[i] = p[a]
    BY <1>2 DEF Filters
  <2>2. w[i] \notin K
    BY <1>2 DEF Filters
  <2> QED
    BY <2>1, <2>2
<1>7. \A i \in 1 .. Len(w) : Tx(w[i]) \notin FirstTx(r, Len(r))
  <2> SUFFICES ASSUME NEW i \in 1 .. Len(w), NEW k \in 1 .. Len(r), Tx(w[i]) = Tx(r[k])
               PROVE  FALSE
    BY DEF FirstTx
  <2>1. PICK a \in 1 .. Len(p) : w[i] = p[a] /\ p[a] \notin K
    BY <1>6
  <2>2. PICK b \in 1 .. Len(p) : r[k] = p[b] /\ p[b] \in K
    BY <1>5
  <2>3. a = b
    BY <2>1, <2>2 DEF Once
  <2> QED
    BY <2>1, <2>2, <2>3
<1>8. \A i \in 1 .. Len(p) :
        Tx(p[i]) \in FirstTx(r, Len(r)) \/ \E k \in 1 .. Len(w) : w[k] = p[i]
  <2> SUFFICES ASSUME NEW i \in 1 .. Len(p)
               PROVE  Tx(p[i]) \in FirstTx(r, Len(r)) \/ \E k \in 1 .. Len(w) : w[k] = p[i]
    OBVIOUS
  <2>1. CASE p[i] \in K
    <3>1. p[i] \notin ToSet(p) \ K
      BY <2>1
    <3>2. PICK k \in 1 .. Len(r) : r[k] = p[i]
      BY <1>3, <3>1 DEF Filters
    <3> QED
      BY <3>2 DEF FirstTx
  <2>2. CASE p[i] \notin K
    BY <1>2, <2>2 DEF Filters
  <2> QED
    BY <2>1, <2>2
<1>9. Sublist(w, p) /\ Sublist(r, p)
  BY <1>1, FilterIsSublist
<1>10. \A k \in 1 .. Len(r) : r[k] \in K
  BY <1>5
<1> QED
  BY <1>1, <1>7, <1>8, <1>9, <1>10 DEF Leaves

\* One entry leaves.
LEMMA RemoveLeaves ==
    ASSUME NEW p \in Seq(Queued), Once(p), NEW n \in 1 .. Len(p)
    PROVE  Leaves(RemoveAt(p, n), p, {Tx(p[n])}) /\ Len(RemoveAt(p, n)) = Len(p) - 1
<1>1. PICK w : w = RemoveAt(p, n)
  OBVIOUS
<1>2. w \in Seq(Queued) /\ Len(w) = Len(p) - 1 /\ KeepsOthers(w, p, n)
  BY <1>1, RemoveAtKeeps
<1>3. Sublist(w, p)
  <2>1. \A i \in 1 .. Len(w) : \E a \in 1 .. Len(p) : w[i] = p[a]
    BY <1>2 DEF KeepsOthers
  <2>2. \A i, k \in 1 .. Len(w) : i < k =>
          \E a, b \in 1 .. Len(p) : a < b /\ w[i] = p[a] /\ w[k] = p[b]
    BY <1>2 DEF KeepsOthers
  <2> QED
    BY <1>2, <2>1, <2>2 DEF Sublist
<1>4. \A i \in 1 .. Len(w) : Tx(w[i]) # Tx(p[n])
  <2> SUFFICES ASSUME NEW i \in 1 .. Len(w) PROVE Tx(w[i]) # Tx(p[n])
    OBVIOUS
  <2>1. PICK a \in 1 .. Len(p) : w[i] = p[a] /\ a # n
    BY <1>2 DEF KeepsOthers
  <2> QED
    BY <2>1 DEF Once
<1>5. \A i \in 1 .. Len(p) : Tx(p[i]) \in {Tx(p[n])} \/ \E k \in 1 .. Len(w) : w[k] = p[i]
  BY <1>2 DEF KeepsOthers
<1>6. Leaves(w, p, {Tx(p[n])})
  BY <1>3, <1>4, <1>5 DEF Leaves
<1> QED
  BY <1>1, <1>2, <1>6

\* First some transactions leave, then others.
LEMMA LeavesBoth ==
    ASSUME NEW p \in Seq(Queued), NEW l, NEW D, Leaves(l, p, D), NEW w, NEW E, Leaves(w, l, E),
           NEW F, F = D \union E
    PROVE  Leaves(w, p, F)
<1>1. w \in Seq(Queued) /\ l \in Seq(Queued)
  BY DEF Leaves, Sublist
<1>2. \A i \in 1 .. Len(w) : \E a \in 1 .. Len(l) : w[i] = l[a]
  BY DEF Leaves, Sublist
<1>3. \A a \in 1 .. Len(l) : \E b \in 1 .. Len(p) : l[a] = p[b]
  BY DEF Leaves, Sublist
<1>4. \A i \in 1 .. Len(w) : \E b \in 1 .. Len(p) : w[i] = p[b]
  <2> SUFFICES ASSUME NEW i \in 1 .. Len(w) PROVE \E b \in 1 .. Len(p) : w[i] = p[b]
    OBVIOUS
  <2>1. PICK a \in 1 .. Len(l) : w[i] = l[a]
    BY <1>2
  <2>2. PICK b \in 1 .. Len(p) : l[a] = p[b]
    BY <1>3
  <2> QED
    BY <2>1, <2>2
<1>5. \A i, k \in 1 .. Len(w) : i < k =>
        \E a, b \in 1 .. Len(p) : a < b /\ w[i] = p[a] /\ w[k] = p[b]
  <2> SUFFICES ASSUME NEW i \in 1 .. Len(w), NEW k \in 1 .. Len(w), i < k
               PROVE  \E a, b \in 1 .. Len(p) : a < b /\ w[i] = p[a] /\ w[k] = p[b]
    OBVIOUS
  <2>1. PICK a \in 1 .. Len(l), b \in 1 .. Len(l) : a < b /\ w[i] = l[a] /\ w[k] = l[b]
    BY DEF Leaves, Sublist
  <2>2. PICK x \in 1 .. Len(p), y \in 1 .. Len(p) : x < y /\ l[a] = p[x] /\ l[b] = p[y]
    BY <2>1 DEF Leaves, Sublist
  <2> QED
    BY <2>1, <2>2
<1>6. \A i \in 1 .. Len(w) : Tx(w[i]) \notin F
  <2> SUFFICES ASSUME NEW i \in 1 .. Len(w) PROVE Tx(w[i]) \notin F
    OBVIOUS
  <2>1. PICK a \in 1 .. Len(l) : w[i] = l[a]
    BY <1>2
  <2> QED
    BY <2>1 DEF Leaves
<1>7. \A i \in 1 .. Len(p) : Tx(p[i]) \in F \/ \E k \in 1 .. Len(w) : w[k] = p[i]
  <2> SUFFICES ASSUME NEW i \in 1 .. Len(p), Tx(p[i]) \notin F
               PROVE  \E k \in 1 .. Len(w) : w[k] = p[i]
    OBVIOUS
  <2>1. PICK a \in 1 .. Len(l) : l[a] = p[i]
    BY DEF Leaves
  <2>2. PICK k \in 1 .. Len(w) : w[k] = l[a]
    BY <2>1 DEF Leaves
  <2> QED
    BY <2>1, <2>2
<1> QED
  BY <1>1, <1>4, <1>5, <1>6, <1>7 DEF Leaves, Sublist

LEMMA TailIsRemoveAt ==
    ASSUME NEW p \in Seq(Queued), p # <<>>
    PROVE  Tail(p) = RemoveAt(p, 1) /\ Head(p) = p[1] /\ 1 \in 1 .. Len(p)
<1>1. PICK m \in Nat : m = Len(p) /\ m # 0
  BY EmptySeq
<1>2. 1 \in 1 .. m
  BY <1>1
<1>3. PICK w : w = RemoveAt(p, 1)
  OBVIOUS
<1>4. /\ w \in Seq(Queued) /\ Len(w) = m - 1
      /\ \A i \in 1 .. m - 1 : w[i] = IF i < 1 THEN p[i] ELSE p[i + 1]
  BY <1>1, <1>2, <1>3, RemoveAtProperties
<1>5. PICK u : u = Tail(p)
  OBVIOUS
<1>6. u \in Seq(Queued) /\ Len(u) = m - 1 /\ \A i \in 1 .. m - 1 : u[i] = p[i + 1]
  BY <1>1, <1>5, HeadTailProperties
<1>7. \A i \in 1 .. m - 1 : u[i] = w[i]
  BY <1>4, <1>6
<1>8. u = w
  BY <1>4, <1>6, <1>7, SeqEqual
<1> QED
  BY <1>1, <1>2, <1>3, <1>5, <1>8

---------------------------------------------------------------------------
(***************************************************************************)
(* Dispatch.                                                               *)
(***************************************************************************)
\* What a verdict tells is true whenever transport is honest.
LEMMA VerdictFacts ==
    ASSUME NEW verdict \in Verdicts
    PROVE  /\ verdict.state \in {"succeeded", "failed", "revoked"}
           /\ verdict.live \in BOOLEAN /\ verdict.retry \in BOOLEAN /\ verdict.wrote \in BOOLEAN
           /\ verdict.retry => ~verdict.wrote
           /\ verdict.state = "succeeded" => verdict.wrote
           /\ verdict.wrote => verdict.live
<1>1. PICK p \in Replies \X BOOLEAN :
        /\ Honest(p[1], p[2])
        /\ verdict = [state |-> ClassifyReceipt(p[1]), live |-> NormalizeFacts(p[1]).live,
                      retry |-> RetryIsSafe(NormalizeFacts(p[1])), wrote |-> p[2]]
  BY DEF Verdicts
<1>2. PICK reply \in Replies : reply = p[1]
  OBVIOUS
<1>3. PICK wrote \in BOOLEAN : wrote = p[2]
  OBVIOUS
<1>4. /\ verdict.state = ClassifyReceipt(reply) /\ verdict.live = NormalizeFacts(reply).live
      /\ verdict.retry = RetryIsSafe(NormalizeFacts(reply)) /\ verdict.wrote = wrote
      /\ Honest(reply, wrote)
  BY <1>1, <1>2, <1>3
<1>5. /\ reply.delivered \in Nat /\ reply.live \in BOOLEAN /\ reply.safe \in BOOLEAN
      /\ reply.certainty \in {"none", "possible", "partial", "committed"}
      /\ reply.terminal \in {"delivered", "failed", "revoked"}
  BY CoordinatorConstants DEF Replies
<1>6. Declared \in Nat /\ Declared > 0
  BY CoordinatorConstants
<1>7. PICK facts : facts = NormalizeFacts(reply)
  OBVIOUS
<1>8. facts.live \in BOOLEAN /\ RetryIsSafe(facts) \in BOOLEAN
  <2>1. facts.live \in BOOLEAN
    BY <1>5, <1>7 DEF NormalizeFacts
  <2>2. RetryIsSafe(facts) \in BOOLEAN
    BY DEF RetryIsSafe
  <2> QED
    BY <2>1, <2>2
<1>9. wrote => facts.live
  BY <1>4, <1>5, <1>6, <1>7 DEF NormalizeFacts, Honest
<1>10. RetryIsSafe(facts) => ~facts.live
  BY DEF RetryIsSafe
<1>11. ClassifyReceipt(reply) \in {"succeeded", "failed", "revoked"}
  BY DEF ClassifyReceipt
<1>12. ClassifyReceipt(reply) = "succeeded" => wrote
  <2> SUFFICES ASSUME ClassifyReceipt(reply) = "succeeded" PROVE wrote
    OBVIOUS
  <2>1. reply.terminal = "delivered" /\ facts.delivered = Declared /\ ~(reply.delivered > Declared)
    BY <1>7 DEF ClassifyReceipt
  <2>2. facts.delivered = reply.delivered
    BY <1>7, <2>1 DEF NormalizeFacts
  <2> QED
    BY <1>4, <2>1, <2>2 DEF Honest
<1> QED
  BY <1>3, <1>4, <1>7, <1>8, <1>9, <1>10, <1>11, <1>12

AsVerdict(r, verdict) ==
    [request |-> r, state |-> verdict.state, live |-> verdict.live, retry |-> verdict.retry]

\* A queued transaction is recorded as sent and then with its verdict.
LEMMA TransmitSettles ==
    ASSUME NEW c \in Coordinators, ~c.fault, NEW j \in Journals, NEW D, Settles(c.journal, j, D),
           NEW q \in Queued, Tx(q) \notin D, j.retained[Tx(q)] = AsQueued(q.request),
           NEW verdict \in Verdicts, NEW e, e = Transmit(c, q, verdict),
           NEW E, E = D \union {Tx(q)}
    PROVE  /\ e \in Coordinators /\ ~e.fault /\ e.pending = c.pending
           /\ Settles(e.journal, j, E)
           /\ e.journal.retained[Tx(q)] = AsVerdict(q.request, verdict)
           /\ Agree(c.journal, e.journal, D)
<1>1. q.request \in Requests
  BY DEF Queued
<1>2. PICK t : t = Tx(q)
  OBVIOUS
<1>3. PICK s : s = [request |-> q.request, state |-> "sent", live |-> FALSE, retry |-> FALSE]
  OBVIOUS
<1>4. PICK o : o = AsVerdict(q.request, verdict)
  OBVIOUS
<1>5. /\ s \in Outcomes /\ s.request = q.request /\ s.state = "sent" /\ ~s.live
      /\ ~IsTerminal(s)
  <2>1. s \in Outcomes /\ s.request = q.request /\ s.state = "sent" /\ ~s.live
    BY <1>1, <1>3 DEF Outcomes, ProgressStates
  <2> QED
    BY <2>1 DEF IsTerminal, TerminalStates
<1>6. o \in Outcomes /\ o.request = q.request /\ o.state = verdict.state
  BY <1>1, <1>4, VerdictFacts DEF AsVerdict, Outcomes, TerminalStates
<1>7. o.state \in {"succeeded", "failed", "revoked"}
  BY <1>6, VerdictFacts
<1>8. IsTerminal(o) /\ ValidProgression(s, o)
  BY <1>5, <1>7 DEF IsTerminal, TerminalStates, ValidProgression
<1>9. /\ AsQueued(q.request) \in Outcomes /\ AsQueued(q.request) # NoOutcome
      /\ AsQueued(q.request).request = q.request /\ ~IsTerminal(AsQueued(q.request))
      /\ AsQueued(q.request).state = "queued" /\ ~AsQueued(q.request).live
  BY <1>1, RequestFacts
<1>10. ValidProgression(AsQueued(q.request), s)
  BY <1>5, <1>9 DEF ValidProgression
<1>11. t \in TransactionIds /\ t = s.request.transaction /\ t = o.request.transaction
  BY <1>1, <1>2, <1>5, <1>6, RequestFacts DEF Tx
<1>12. c.journal.retained[t] = AsQueued(q.request)
  BY <1>2, <1>11 DEF Settles
<1>13. PICK b : b = Recorded(c, s)
  OBVIOUS
<1>14. b \in Coordinators /\ ~b.fault /\ b.pending = c.pending
       /\ Updates(b.journal, c.journal, t, s)
  BY <1>5, <1>9, <1>10, <1>11, <1>12, <1>13, RecordUpdates
<1>15. PICK d \in Journals : d = c.journal
  BY DEF Coordinators
<1>16. d.retained \in [TransactionIds -> Outcomes \union {NoOutcome}]
  BY <1>15 DEF Journals
<1>17. b.journal.retained = [d.retained EXCEPT ![t] = s]
  BY <1>14, <1>15 DEF Updates
<1>18. b.journal.retained[t] = s
  BY <1>11, <1>16, <1>17
<1>19. e = Recorded(b, o)
  BY <1>3, <1>4, <1>13 DEF Transmit, AsVerdict
<1>20. e \in Coordinators /\ ~e.fault /\ e.pending = b.pending
       /\ Updates(e.journal, b.journal, t, o)
  BY <1>5, <1>6, <1>8, <1>11, <1>14, <1>18, <1>19, RecordUpdates
<1>21. e.journal.retained = [d.retained EXCEPT ![t] = o]
  <2>1. e.journal.retained = [b.journal.retained EXCEPT ![t] = o]
    BY <1>20 DEF Updates
  <2> QED
    BY <1>11, <1>16, <1>17, <2>1
<1>22. PICK k : k = e.journal
  OBVIOUS
<1>23. Updates(k, d, t, o)
  BY <1>14, <1>15, <1>20, <1>21, <1>22 DEF Updates
<1>24. t \in Retained(j) /\ o.request = j.retained[t].request /\ t \notin D /\ Settles(d, j, D)
       /\ E = D \union {t}
  BY <1>2, <1>6, <1>9, <1>11, <1>15 DEF Retained
<1>25. Settles(k, j, E) /\ k.retained[t] = o /\ Agree(d, k, D)
  BY <1>6, <1>8, <1>23, <1>24, SettlesOneMore
<1> QED
  BY <1>2, <1>4, <1>14, <1>15, <1>20, <1>22, <1>25

\* The queue is within the bound of the journal.
LEMMA QueueBounded ==
    ASSUME NEW j, Sound(j), NEW p, Matched(p, j)
    PROVE  Len(p) <= Len(j.order) /\ Len(p) <= Capacity
<1>1. p \in Seq(Queued)
  BY DEF Matched
<1>2. PICK m \in Nat : m = Len(p)
  BY <1>1
<1>3. IsFiniteSet(Retained(j)) /\ Cardinality(Retained(j)) = Len(j.order)
  BY Counted
<1>4. PICK f : f = [i \in 1 .. m |-> Tx(p[i])]
  OBVIOUS
<1>5. \A i \in 1 .. m : Tx(p[i]) \in Retained(j)
  <2> SUFFICES ASSUME NEW i \in 1 .. m PROVE Tx(p[i]) \in Retained(j)
    OBVIOUS
  <2>1. p[i] \in Queued /\ j.retained[Tx(p[i])] = AsQueued(p[i].request)
    BY <1>1, <1>2 DEF Matched
  <2>2. p[i].request \in Requests
    BY <2>1 DEF Queued
  <2> QED
    BY <2>1, <2>2, RequestFacts DEF Retained, Tx
<1>6. f \in Injection(1 .. m, Retained(j))
  <2>1. f \in [1 .. m -> Retained(j)]
    BY <1>4, <1>5
  <2>2. \A a, b \in 1 .. m : f[a] = f[b] => a = b
    BY <1>2, <1>4 DEF Matched
  <2> QED
    BY <2>1, <2>2 DEF Injection, IsInjective
<1>7. IsFiniteSet(1 .. m) /\ Cardinality(1 .. m) = m
  <2>1. m \in Int /\ 1 \in Int
    OBVIOUS
  <2>2. IsFiniteSet(1 .. m) /\ Cardinality(1 .. m) = IF 1 > m THEN 0 ELSE m - 1 + 1
    BY <2>1, FS_Interval, Zenon
  <2>3. (IF 1 > m THEN 0 ELSE m - 1 + 1) = m
    OBVIOUS
  <2> QED
    BY <2>2, <2>3
<1>8. Cardinality(1 .. m) <= Cardinality(Retained(j))
  BY <1>3, <1>6, FS_Injection
<1>9. m <= Len(j.order)
  BY <1>3, <1>7, <1>8
<1>10. j.order \in Seq(TransactionIds) /\ Len(j.order) <= Capacity
  BY DEF Sound, Journals
<1>11. Len(j.order) \in Nat /\ Capacity \in Nat
  BY <1>10, TransactionConstants
<1> QED
  BY <1>2, <1>9, <1>10, <1>11

---------------------------------------------------------------------------
(***************************************************************************)
(* Operations that only finish queued work.                                *)
(***************************************************************************)
\* Queued work has not been written.
LEMMA QueuedUnwritten ==
    ASSUME NEW p, NEW j, NEW w, Consistent(p, j, w), NEW i \in 1 .. Len(p)
    PROVE  /\ p[i] \in Queued /\ p[i].request \in Requests
           /\ Tx(p[i]) \in TransactionIds /\ Tx(p[i]) \in Retained(j)
           /\ j.retained[Tx(p[i])] = AsQueued(p[i].request)
           /\ w[Tx(p[i])] = 0
<1>1. p[i] \in Queued /\ j.retained[Tx(p[i])] = AsQueued(p[i].request)
  BY DEF Consistent, Matched
<1>2. p[i].request \in Requests
  BY <1>1 DEF Queued
<1>3. Tx(p[i]) \in TransactionIds /\ Tx(p[i]) \in Retained(j)
  BY <1>1, <1>2, RequestFacts DEF Tx, Retained
<1>4. ~IsTerminal(j.retained[Tx(p[i])])
  BY <1>1, <1>2, RequestFacts
<1>5. ~(w[Tx(p[i])] > 0)
  BY <1>3, <1>4 DEF Consistent, Ledger, Truthful
<1>6. w[Tx(p[i])] \in 0 .. 1
  BY <1>3 DEF Consistent, Ledger
<1> QED
  BY <1>1, <1>2, <1>3, <1>5, <1>6

LEMMA UnsentTruthful ==
    ASSUME NEW r \in Requests, NEW state \in UnsentStates
    PROVE  Truthful(AsUnsent(r, state), 0)
<1>1. AsUnsent(r, state).state # "succeeded"
  BY UnsentFacts DEF UnsentStates
<1> QED
  BY <1>1 DEF Truthful

LEMMA VerdictTruthful ==
    ASSUME NEW r \in Requests, NEW verdict \in Verdicts
    PROVE  Truthful(AsVerdict(r, verdict), IF verdict.wrote THEN 1 ELSE 0)
<1>1. PICK o : o = AsVerdict(r, verdict)
  OBVIOUS
<1>2. o.state = verdict.state /\ o.live = verdict.live /\ o.retry = verdict.retry
  BY <1>1 DEF AsVerdict
<1>3. IsTerminal(o)
  BY <1>2, VerdictFacts DEF IsTerminal, TerminalStates
<1> QED
  BY <1>1, <1>2, <1>3, VerdictFacts DEF Truthful

\* The coordinator e has finished the transactions D of the state p, j, w and
\* nothing else; what they have written is v.
Concludes(e, v, D, p, j, w) ==
    /\ e \in Coordinators /\ ~e.fault
    /\ Settles(e.journal, j, D) /\ Leaves(e.pending, p, D)
    /\ v \in [TransactionIds -> 0 .. 1]
    /\ \A t \in TransactionIds \ D : v[t] = w[t]
    /\ \A t \in D : Truthful(e.journal.retained[t], v[t])

LEMMA ConcludedConsistent ==
    ASSUME NEW p, NEW j, NEW w, Consistent(p, j, w), NEW e, NEW v, NEW D,
           Concludes(e, v, D, p, j, w)
    PROVE  Consistent(e.pending, e.journal, v) /\ KnownWrites(e.journal, v) = v
<1>1. PICK d : d = e.journal
  OBVIOUS
<1>2. PICK p2 : p2 = e.pending
  OBVIOUS
<1>3. Settles(d, j, D) /\ Leaves(p2, p, D)
  BY <1>1, <1>2 DEF Concludes
<1>4. Sound(j) /\ Matched(p, j) /\ Ledger(j, w)
  BY DEF Consistent
<1>5. Sound(d)
  BY <1>3, <1>4, SettlesSound
<1>6. Matched(p2, d)
  BY <1>3, <1>4, SettlesMatched DEF Leaves
<1>7. v \in [TransactionIds -> 0 .. 1] /\ \A t \in TransactionIds \ D : v[t] = w[t]
  BY DEF Concludes
<1>8. \A t \in D : Truthful(d.retained[t], v[t])
  BY <1>1 DEF Concludes
<1>9. Ledger(d, v) /\ KnownWrites(d, v) = v
  BY <1>3, <1>4, <1>7, <1>8, SettlesLedger
<1> QED
  BY <1>1, <1>2, <1>5, <1>6, <1>9 DEF Consistent

\* The transactions D are recorded as unsent, and nothing was written for them.
AllUnsent(d, D, state, w) ==
    \A t \in D : /\ \E r \in Requests : d.retained[t] = AsUnsent(r, state)
                 /\ Truthful(d.retained[t], w[t])

\* The entries s of queue p are finished unsent while rest is left queued.
LEMMA FinishingWork ==
    ASSUME NEW p, NEW j, NEW w, Consistent(p, j, w), NEW s, Sublist(s, p),
           NEW c \in Coordinators, ~c.fault, c.journal = j,
           NEW state \in UnsentStates, NEW e, e = FinishEach(c, s, state),
           NEW D, D = FirstTx(s, Len(s))
    PROVE  /\ e \in Coordinators /\ ~e.fault /\ e.pending = c.pending
           /\ Settles(e.journal, j, D)
           /\ AllUnsent(e.journal, D, state, w)
<1>1. s \in Seq(Queued) /\ p \in Seq(Queued)
  BY DEF Sublist, Consistent, Matched
<1>2. Once(p)
  BY DEF Consistent, Matched, Once
<1>3. Once(s)
  BY <1>1, <1>2, SublistOnce
<1>4. \A i \in 1 .. Len(s) : /\ j.retained[Tx(s[i])] = AsQueued(s[i].request)
                             /\ s[i].request \in Requests /\ w[Tx(s[i])] = 0
  <2> SUFFICES ASSUME NEW i \in 1 .. Len(s)
               PROVE  /\ j.retained[Tx(s[i])] = AsQueued(s[i].request)
                      /\ s[i].request \in Requests /\ w[Tx(s[i])] = 0
    OBVIOUS
  <2>1. PICK a \in 1 .. Len(p) : s[i] = p[a]
    BY DEF Sublist
  <2> QED
    BY <2>1, QueuedUnwritten
<1>5. Finishable(c.journal, s)
  BY <1>1, <1>3, <1>4 DEF Finishable, Once
<1>6. HasFinished(e, c, s, Len(s), state)
  BY <1>5, FinishEachSettles
<1>7. /\ e \in Coordinators /\ ~e.fault /\ e.pending = c.pending
      /\ Settles(e.journal, j, D)
      /\ \A i \in 1 .. Len(s) : e.journal.retained[Tx(s[i])] = AsUnsent(s[i].request, state)
  BY <1>6 DEF HasFinished
<1>8. ASSUME NEW t \in D
      PROVE  /\ \E r \in Requests : e.journal.retained[t] = AsUnsent(r, state)
             /\ Truthful(e.journal.retained[t], w[t])
  <2>1. PICK i \in 1 .. Len(s) : t = Tx(s[i])
    BY DEF FirstTx
  <2>2. e.journal.retained[t] = AsUnsent(s[i].request, state) /\ w[t] = 0
    BY <1>4, <1>7, <2>1
  <2>3. s[i].request \in Requests
    BY <1>4
  <2>4. Truthful(AsUnsent(s[i].request, state), 0)
    BY <2>3, UnsentTruthful
  <2> QED
    BY <2>2, <2>3, <2>4
<1> QED
  BY <1>7, <1>8 DEF AllUnsent

AllTrue(d, D, w) == \A t \in D : Truthful(d.retained[t], w[t])

NoneSuperseded(d, D) == \A t \in D : d.retained[t].state # "superseded"

\* revoke, expire: what matches is finished, the rest stays queued.
LEMMA RevokeConcludes ==
    ASSUME NEW p, NEW j, NEW w, Consistent(p, j, w), NEW K,
           NEW c \in Coordinators, ~c.fault, c.journal = j, c.pending = Without(p, K),
           NEW e, e = FinishEach(c, Without(p, ToSet(p) \ K), "revoked")
    PROVE  \E D : Concludes(e, w, D, p, j, w) /\ NoneSuperseded(e.journal, D)
<1>1. p \in Seq(Queued) /\ Once(p)
  BY DEF Consistent, Matched, Once
<1>2. PICK s : s = Without(p, ToSet(p) \ K)
  OBVIOUS
<1>3. PICK D : D = FirstTx(s, Len(s))
  OBVIOUS
<1>4. Leaves(c.pending, p, D) /\ Sublist(s, p)
  BY <1>1, <1>2, <1>3, FilterLeaves
<1>5. "revoked" \in UnsentStates
  BY DEF UnsentStates
<1>6. /\ e \in Coordinators /\ ~e.fault /\ e.pending = c.pending /\ Settles(e.journal, j, D)
      /\ AllUnsent(e.journal, D, "revoked", w)
  BY <1>2, <1>3, <1>4, <1>5, FinishingWork
<1>7. NoneSuperseded(e.journal, D)
  <2> SUFFICES ASSUME NEW t \in D PROVE e.journal.retained[t].state # "superseded"
    BY DEF NoneSuperseded
  <2>1. PICK r \in Requests : e.journal.retained[t] = AsUnsent(r, "revoked")
    BY <1>6 DEF AllUnsent
  <2> QED
    BY <1>5, <2>1, UnsentFacts
<1>8. Concludes(e, w, D, p, j, w)
  BY <1>4, <1>6 DEF Concludes, Consistent, Ledger, AllUnsent
<1> QED
  BY <1>7, <1>8

\* The coordinator b has finished the transactions D and has yet to finish the
\* entry q, which left the queue with them.
Chosen(b, D, E, q, p, j, w) ==
    /\ b \in Coordinators /\ ~b.fault /\ Settles(b.journal, j, D)
    /\ E = D \union {Tx(q)} /\ Leaves(b.pending, p, E)
    /\ AllTrue(b.journal, D, w) /\ NoneSuperseded(b.journal, D)
    /\ q \in Queued /\ Tx(q) \notin D
    /\ j.retained[Tx(q)] = AsQueued(q.request) /\ w[Tx(q)] = 0
    /\ \E a \in 1 .. Len(p) : q = p[a]

\* What dispatch does before it turns to the entry n of the live ones.
LEMMA ExpiryBefore ==
    ASSUME NEW p, NEW j, NEW w, Consistent(p, j, w), NEW K, NEW l, l = Without(p, K),
           NEW n \in 1 .. Len(l),
           NEW c \in Coordinators, ~c.fault, c.journal = j, c.pending = RemoveAt(l, n),
           NEW b, b = FinishEach(c, Without(p, ToSet(p) \ K), "revoked")
    PROVE  \E D, E : Chosen(b, D, E, l[n], p, j, w)
<1>1. p \in Seq(Queued) /\ Once(p)
  BY DEF Consistent, Matched, Once
<1>2. PICK s : s = Without(p, ToSet(p) \ K)
  OBVIOUS
<1>3. PICK D : D = FirstTx(s, Len(s))
  OBVIOUS
<1>4. Leaves(l, p, D) /\ Sublist(s, p)
  BY <1>1, <1>2, <1>3, FilterLeaves
<1>5. "revoked" \in UnsentStates
  BY DEF UnsentStates
<1>6. /\ b \in Coordinators /\ ~b.fault /\ b.pending = c.pending /\ Settles(b.journal, j, D)
      /\ AllUnsent(b.journal, D, "revoked", w)
  BY <1>2, <1>3, <1>4, <1>5, FinishingWork
<1>7. NoneSuperseded(b.journal, D)
  <2> SUFFICES ASSUME NEW t \in D PROVE b.journal.retained[t].state # "superseded"
    BY DEF NoneSuperseded
  <2>1. PICK r \in Requests : b.journal.retained[t] = AsUnsent(r, "revoked")
    BY <1>6 DEF AllUnsent
  <2> QED
    BY <1>5, <2>1, UnsentFacts
<1>8. l \in Seq(Queued) /\ Sublist(l, p)
  BY <1>4 DEF Leaves, Sublist
<1>9. Once(l)
  BY <1>1, <1>8, SublistOnce
<1>10. Leaves(b.pending, l, {Tx(l[n])})
  BY <1>6, <1>8, <1>9, RemoveLeaves
<1>11. PICK E : E = D \union {Tx(l[n])}
  OBVIOUS
<1>12. Leaves(b.pending, p, E)
  BY <1>1, <1>4, <1>10, <1>11, LeavesBoth
<1>13. PICK a \in 1 .. Len(p) : l[n] = p[a]
  BY <1>8 DEF Sublist
<1>14. /\ l[n] \in Queued /\ Tx(l[n]) \in TransactionIds
       /\ j.retained[Tx(l[n])] = AsQueued(l[n].request) /\ w[Tx(l[n])] = 0
  BY <1>13, QueuedUnwritten
<1>15. Tx(l[n]) \notin D
  BY <1>4 DEF Leaves
<1>16. AllTrue(b.journal, D, w)
  BY <1>6 DEF AllTrue, AllUnsent
<1>17. Chosen(b, D, E, l[n], p, j, w)
  <2>1. PICK q : q = l[n]
    OBVIOUS
  <2>2. /\ b \in Coordinators /\ ~b.fault /\ Settles(b.journal, j, D)
        /\ E = D \union {Tx(q)} /\ Leaves(b.pending, p, E)
    BY <1>6, <1>11, <1>12, <2>1
  <2>3. /\ q \in Queued /\ Tx(q) \notin D
        /\ j.retained[Tx(q)] = AsQueued(q.request) /\ w[Tx(q)] = 0
        /\ \E k \in 1 .. Len(p) : q = p[k]
    BY <1>13, <1>14, <1>15, <2>1
  <2>4. Chosen(b, D, E, q, p, j, w)
    BY <1>7, <1>16, <2>2, <2>3 DEF Chosen
  <2> QED
    BY <2>1, <2>4
<1> QED
  BY <1>17

\* One queued entry is finished unsent after D were finished.
LEMMA UnsentConcludes ==
    ASSUME NEW p, NEW j, NEW w, Consistent(p, j, w), NEW D, NEW E,
           NEW b, NEW q, Chosen(b, D, E, q, p, j, w),
           NEW e, e = FinishUnsent(b, q, "revoked")
    PROVE  Concludes(e, w, E, p, j, w) /\ NoneSuperseded(e.journal, E)
<1>1. /\ b \in Coordinators /\ ~b.fault /\ Settles(b.journal, j, D)
      /\ E = D \union {Tx(q)} /\ Leaves(b.pending, p, E)
      /\ AllTrue(b.journal, D, w) /\ NoneSuperseded(b.journal, D)
      /\ q \in Queued /\ Tx(q) \notin D
      /\ j.retained[Tx(q)] = AsQueued(q.request) /\ w[Tx(q)] = 0
  BY DEF Chosen
<1>2. j \in Journals /\ w \in [TransactionIds -> 0 .. 1]
  BY DEF Consistent, Sound, Ledger
<1>3. "revoked" \in UnsentStates
  BY DEF UnsentStates
<1>4. /\ e \in Coordinators /\ ~e.fault /\ e.pending = b.pending
      /\ Settles(e.journal, j, E)
      /\ e.journal.retained[Tx(q)] = AsUnsent(q.request, "revoked")
      /\ Agree(b.journal, e.journal, D)
  <2>1. PICK state \in UnsentStates : state = "revoked"
    BY <1>3
  <2>2. e = FinishUnsent(b, q, state)
    BY <2>1
  <2>3. /\ e \in Coordinators /\ ~e.fault /\ e.pending = b.pending
        /\ Settles(e.journal, j, E)
        /\ e.journal.retained[Tx(q)] = AsUnsent(q.request, state)
        /\ Agree(b.journal, e.journal, D)
    BY <1>1, <1>2, <2>2, FinishUnsentSettles
  <2> QED
    BY <2>1, <2>3
<1>5. q.request \in Requests
  BY <1>1 DEF Queued
<1>6. \A t \in E : Truthful(e.journal.retained[t], w[t]) /\ e.journal.retained[t].state # "superseded"
  <2> SUFFICES ASSUME NEW t \in E
               PROVE  /\ Truthful(e.journal.retained[t], w[t])
                      /\ e.journal.retained[t].state # "superseded"
    OBVIOUS
  <2>1. CASE t = Tx(q)
    <3>1. Truthful(AsUnsent(q.request, "revoked"), 0)
      BY <1>3, <1>5, UnsentTruthful
    <3>2. AsUnsent(q.request, "revoked").state = "revoked"
      BY <1>3, <1>5, UnsentFacts
    <3> QED
      BY <1>1, <1>4, <2>1, <3>1, <3>2
  <2>2. CASE t \in D
    <3>1. e.journal.retained[t] = b.journal.retained[t]
      BY <1>4, <2>2 DEF Agree
    <3> QED
      BY <1>1, <2>2, <3>1 DEF NoneSuperseded, AllTrue
  <2> QED
    BY <1>1, <2>1, <2>2
<1> QED
  BY <1>1, <1>2, <1>4, <1>6 DEF Concludes, NoneSuperseded

Written(w, t, verdict) == IF verdict.wrote THEN [w EXCEPT ![t] = @ + 1] ELSE w

SameBut(v, w, t0) == \A t \in TransactionIds : t # t0 => v[t] = w[t]

\* One queued entry is transmitted after D were finished.
LEMMA TransmitConcludes ==
    ASSUME NEW p, NEW j, NEW w, Consistent(p, j, w), NEW D, NEW E,
           NEW b, NEW q, Chosen(b, D, E, q, p, j, w),
           NEW verdict \in Verdicts, NEW e, e = Transmit(b, q, verdict),
           NEW v, v = Written(w, Tx(q), verdict)
    PROVE  /\ Concludes(e, v, E, p, j, w) /\ NoneSuperseded(e.journal, E)
           /\ SameBut(v, w, Tx(q))
<1>1. /\ b \in Coordinators /\ ~b.fault /\ Settles(b.journal, j, D)
      /\ E = D \union {Tx(q)} /\ Leaves(b.pending, p, E)
      /\ AllTrue(b.journal, D, w) /\ NoneSuperseded(b.journal, D)
      /\ q \in Queued /\ Tx(q) \notin D
      /\ j.retained[Tx(q)] = AsQueued(q.request) /\ w[Tx(q)] = 0
  BY DEF Chosen
<1>2. j \in Journals /\ w \in [TransactionIds -> 0 .. 1]
  BY DEF Consistent, Sound, Ledger
<1>3. /\ e \in Coordinators /\ ~e.fault /\ e.pending = b.pending
      /\ Settles(e.journal, j, E)
      /\ e.journal.retained[Tx(q)] = AsVerdict(q.request, verdict)
      /\ Agree(b.journal, e.journal, D)
  BY <1>1, <1>2, TransmitSettles
<1>4. q.request \in Requests
  BY <1>1 DEF Queued
<1>5. PICK t0 \in TransactionIds : t0 = Tx(q)
  BY <1>4, RequestFacts DEF Tx
<1>6. v \in [TransactionIds -> 0 .. 1] /\ v[t0] = IF verdict.wrote THEN 1 ELSE 0
  BY <1>1, <1>2, <1>5 DEF Written
<1>7. \A t \in TransactionIds : t # Tx(q) => v[t] = w[t]
  BY <1>1, <1>2, <1>5 DEF Written
<1>8. D \subseteq TransactionIds
  BY <1>1 DEF Settles, Retained
<1>9. \A t \in E : Truthful(e.journal.retained[t], v[t]) /\ e.journal.retained[t].state # "superseded"
  <2> SUFFICES ASSUME NEW t \in E
               PROVE  /\ Truthful(e.journal.retained[t], v[t])
                      /\ e.journal.retained[t].state # "superseded"
    OBVIOUS
  <2>1. CASE t = Tx(q)
    <3>1. Truthful(AsVerdict(q.request, verdict), IF verdict.wrote THEN 1 ELSE 0)
      BY <1>4, VerdictTruthful
    <3>2. AsVerdict(q.request, verdict).state # "superseded"
      BY VerdictFacts DEF AsVerdict
    <3> QED
      BY <1>1, <1>3, <1>5, <1>6, <2>1, <3>1, <3>2
  <2>2. CASE t \in D
    <3>1. e.journal.retained[t] = b.journal.retained[t]
      BY <1>3, <2>2 DEF Agree
    <3>2. v[t] = w[t]
      BY <1>1, <1>7, <1>8, <2>2
    <3> QED
      BY <1>1, <2>2, <3>1, <3>2 DEF NoneSuperseded, AllTrue
  <2> QED
    BY <1>1, <2>1, <2>2
<1>10. \A t \in TransactionIds \ E : v[t] = w[t]
  BY <1>1, <1>7
<1> QED
  BY <1>1, <1>3, <1>6, <1>7, <1>9, <1>10 DEF Concludes, NoneSuperseded, SameBut

---------------------------------------------------------------------------
(***************************************************************************)
(* Admission.                                                              *)
(***************************************************************************)
\* room is d, perhaps without one finished outcome.
MakesRoom(room, d) ==
    /\ Retained(room) \subseteq Retained(d)
    /\ \A t \in Retained(room) : room.retained[t] = d.retained[t]
    /\ \A t \in Retained(d) \ Retained(room) : IsTerminal(d.retained[t])
    /\ Len(room.order) < Capacity
    /\ \A t, u \in Retained(room) : Before(d, t, u) => Before(room, t, u)

\* A full journal evicts a finished outcome.
LEMMA EvictionMakesRoom ==
    ASSUME NEW d, Sound(d), ~(Cardinality(Retained(d)) < Capacity), Terminals(d) # {},
           NEW room, room = EvictTerminal(d)
    PROVE  Sound(room) /\ MakesRoom(room, d)
<1>1. d \in Journals
  BY DEF Sound
<1>2. /\ d.retained \in [TransactionIds -> Outcomes \union {NoOutcome}]
      /\ d.order \in Seq(TransactionIds) /\ d.evicted \in Seq(Requests)
  BY <1>1 DEF Journals
<1>3. PICK i : i = Min(Terminals(d))
  OBVIOUS
<1>4. Terminals(d) \in SUBSET Nat
  BY <1>2 DEF Terminals
<1>5. i \in Terminals(d)
  BY <1>3, <1>4, MinIsMember
<1>6. i \in 1 .. Len(d.order) /\ IsTerminal(d.retained[d.order[i]])
  BY <1>2, <1>5 DEF Terminals
<1>7. PICK x : x = d.order[i]
  OBVIOUS
<1>8. x \in Retained(d) /\ x \in TransactionIds /\ IsTerminal(d.retained[x])
  BY <1>6, <1>7 DEF Sound, Retained
<1>9. d.retained[x] \in Outcomes
  BY <1>2, <1>8 DEF Retained
<1>10. PICK request \in Requests : request = d.retained[x].request
  BY <1>9 DEF Outcomes
<1>11. PICK memory : memory = IF Len(d.evicted) = Capacity THEN Tail(d.evicted) ELSE d.evicted
  OBVIOUS
<1>12. PICK kept : kept = [d.retained EXCEPT ![x] = NoOutcome]
  OBVIOUS
<1>13. PICK order : order = RemoveAt(d.order, i)
  OBVIOUS
<1>14. PICK evicted : evicted = Append(memory, request)
  OBVIOUS
<1>15. room = [retained |-> kept, order |-> order, evicted |-> evicted]
  BY <1>3, <1>7, <1>10, <1>11, <1>12, <1>13, <1>14 DEF EvictTerminal
<1>16. room.retained = kept /\ room.order = order /\ room.evicted = evicted
  BY <1>15
<1>17. Capacity \in Nat /\ Capacity > 0 /\ Len(d.evicted) <= Capacity /\ Len(d.order) <= Capacity
  BY TransactionConstants DEF Sound
<1>18. memory \in Seq(Requests) /\ Len(memory) < Capacity
  <2>1. PICK m \in Nat : m = Len(d.evicted)
    BY <1>2
  <2>2. CASE m = Capacity
    <3>1. d.evicted # <<>>
      <4>1. Len(<<>>) = 0
        BY EmptySeq
      <4>2. Len(d.evicted) # 0
        BY <1>17, <2>1, <2>2
      <4> QED
        BY <4>1, <4>2
    <3>2. memory = Tail(d.evicted)
      BY <1>11, <2>1, <2>2
    <3>3. memory \in Seq(Requests) /\ Len(memory) = m - 1
      BY <1>2, <2>1, <3>1, <3>2, HeadTailProperties
    <3> QED
      BY <1>17, <2>1, <2>2, <3>3
  <2>3. CASE m # Capacity
    <3>1. memory = d.evicted
      BY <1>11, <2>1, <2>3
    <3> QED
      BY <1>2, <1>17, <2>1, <2>3, <3>1
  <2> QED
    BY <2>2, <2>3
<1>19. evicted \in Seq(Requests) /\ Len(evicted) <= Capacity
  <2>1. PICK m \in Nat : m = Len(memory)
    BY <1>18
  <2>2. evicted \in Seq(Requests) /\ Len(evicted) = m + 1
    BY <1>14, <1>18, <2>1, AppendProperties
  <2> QED
    BY <1>17, <1>18, <2>1, <2>2
<1>20. /\ kept \in [TransactionIds -> Outcomes \union {NoOutcome}]
       /\ kept[x] = NoOutcome
       /\ \A t \in TransactionIds : t # x => kept[t] = d.retained[t]
  BY <1>2, <1>8, <1>12
<1>21. order \in Seq(TransactionIds) /\ Len(order) = Len(d.order) - 1 /\ KeepsOthers(order, d.order, i)
  BY <1>2, <1>6, <1>13, RemoveAtKeeps
<1>22. room \in Journals
  BY <1>15, <1>19, <1>20, <1>21 DEF Journals
<1>23. Retained(room) = Retained(d) \ {x}
  BY <1>16, <1>20 DEF Retained
<1>24. \A t \in Retained(room) : room.retained[t] = d.retained[t]
  BY <1>16, <1>20, <1>23 DEF Retained
<1>25. \A a, b \in 1 .. Len(order) : order[a] = order[b] => a = b
  <2>1. \A a, b \in 1 .. Len(order) : a < b => order[a] # order[b]
    <3> SUFFICES ASSUME NEW a \in 1 .. Len(order), NEW b \in 1 .. Len(order), a < b
                 PROVE  order[a] # order[b]
      OBVIOUS
    <3>1. PICK k \in 1 .. Len(d.order), l \in 1 .. Len(d.order) :
             k < l /\ order[a] = d.order[k] /\ order[b] = d.order[l]
      BY <1>21 DEF KeepsOthers
    <3>2. k # l
      BY <3>1
    <3> QED
      BY <3>1, <3>2 DEF Sound
  <2>2. \A a, b \in 1 .. Len(order) : a = b \/ a < b \/ b < a
    BY <1>21
  <2> QED
    BY <2>1, <2>2
<1>26. \A a \in 1 .. Len(order) : order[a] \in Retained(room)
  <2> SUFFICES ASSUME NEW a \in 1 .. Len(order) PROVE order[a] \in Retained(room)
    OBVIOUS
  <2>1. PICK k \in 1 .. Len(d.order) : order[a] = d.order[k] /\ k # i
    BY <1>21 DEF KeepsOthers
  <2>2. d.order[k] # x /\ d.order[k] \in Retained(d)
    BY <1>6, <1>7, <2>1 DEF Sound
  <2> QED
    BY <1>23, <2>1, <2>2
<1>27. \A t \in Retained(room) : \E a \in 1 .. Len(order) : order[a] = t
  <2> SUFFICES ASSUME NEW t \in Retained(room) PROVE \E a \in 1 .. Len(order) : order[a] = t
    OBVIOUS
  <2>1. PICK k \in 1 .. Len(d.order) : d.order[k] = t
    BY <1>23 DEF Sound
  <2>2. k # i
    BY <1>7, <1>23, <2>1
  <2> QED
    BY <1>21, <2>1, <2>2 DEF KeepsOthers
<1>28. Len(order) <= Capacity /\ Len(order) < Capacity
  BY <1>2, <1>17, <1>21
<1>29. \A t \in Retained(room) : room.retained[t].request.transaction = t
  BY <1>23, <1>24 DEF Sound
<1>30. Sound(room)
  BY <1>16, <1>19, <1>22, <1>25, <1>26, <1>27, <1>28, <1>29 DEF Sound
<1>31. \A t, u \in Retained(room) : Before(d, t, u) => Before(room, t, u)
  <2> SUFFICES ASSUME NEW t \in Retained(room), NEW u \in Retained(room), Before(d, t, u),
                      NEW a \in 1 .. Len(order), NEW b \in 1 .. Len(order),
                      order[a] = t, order[b] = u
               PROVE  a < b
    BY <1>16 DEF Before
  <2>1. a \in Nat /\ b \in Nat
    BY <1>21
  <2>2. CASE a = b
    <3>1. PICK k \in 1 .. Len(d.order) : order[a] = d.order[k]
      BY <1>21 DEF KeepsOthers
    <3>2. d.order[k] = t /\ d.order[k] = u
      BY <2>2, <3>1
    <3>3. k < k
      BY <3>2 DEF Before
    <3>4. k \in Nat
      BY <1>2
    <3> QED
      BY <3>3, <3>4
  <2>3. CASE b < a
    <3>1. PICK k \in 1 .. Len(d.order), l \in 1 .. Len(d.order) :
             k < l /\ order[b] = d.order[k] /\ order[a] = d.order[l]
      BY <1>21, <2>3 DEF KeepsOthers
    <3>2. l < k
      BY <3>1 DEF Before
    <3>3. k \in Nat /\ l \in Nat
      BY <1>2
    <3> QED
      BY <3>1, <3>2, <3>3
  <2> QED
    BY <2>1, <2>2, <2>3
<1>32. \A t \in Retained(d) \ Retained(room) : IsTerminal(d.retained[t])
  BY <1>8, <1>23
<1> QED
  BY <1>16, <1>23, <1>24, <1>28, <1>30, <1>31, <1>32 DEF MakesRoom

LEMMA RoomIsMade ==
    ASSUME NEW d, Sound(d), Cardinality(Retained(d)) < Capacity \/ Terminals(d) # {},
           NEW room, room = EvictTerminal(d)
    PROVE  Sound(room) /\ MakesRoom(room, d)
<1>1. CASE Cardinality(Retained(d)) < Capacity
  <2>1. room = d
    BY <1>1 DEF EvictTerminal
  <2>2. Len(d.order) < Capacity
    BY <1>1, Counted
  <2> QED
    BY <2>1, <2>2 DEF MakesRoom
<1>2. CASE ~(Cardinality(Retained(d)) < Capacity)
  BY <1>2, EvictionMakesRoom
<1> QED
  BY <1>1, <1>2

\* With free slots in the queue, the journal has a finished outcome or a free slot.
LEMMA JournalHasRoom ==
    ASSUME NEW d, Sound(d), NEW p, Matched(p, d), Len(p) < Capacity
    PROVE  Cardinality(Retained(d)) < Capacity \/ Terminals(d) # {}
<1> SUFFICES ASSUME Terminals(d) = {} PROVE Cardinality(Retained(d)) < Capacity
  OBVIOUS
<1>1. p \in Seq(Queued) /\ d.order \in Seq(TransactionIds)
  BY DEF Matched, Sound, Journals
<1>2. PICK m \in Nat : m = Len(p)
  BY <1>1
<1>3. PICK s : s = [i \in 1 .. m |-> Tx(p[i])]
  OBVIOUS
<1>4. \A i \in 1 .. m : Tx(p[i]) \in Retained(d) /\ Tx(p[i]) \in TransactionIds
  <2> SUFFICES ASSUME NEW i \in 1 .. m PROVE Tx(p[i]) \in Retained(d) /\ Tx(p[i]) \in TransactionIds
    OBVIOUS
  <2>1. p[i] \in Queued /\ d.retained[Tx(p[i])] = AsQueued(p[i].request)
    BY <1>1, <1>2 DEF Matched
  <2>2. p[i].request \in Requests
    BY <2>1 DEF Queued
  <2> QED
    BY <2>1, <2>2, RequestFacts DEF Retained, Tx
<1>5. s \in Seq(TransactionIds) /\ Len(s) = m
  BY <1>3, <1>4
<1>6. \A a, b \in 1 .. Len(s) : s[a] = s[b] => a = b
  BY <1>2, <1>3, <1>5 DEF Matched
<1>7. \A a \in 1 .. Len(s) : s[a] \in Retained(d)
  BY <1>3, <1>4, <1>5
<1>8. \A t \in Retained(d) : \E a \in 1 .. Len(s) : s[a] = t
  <2> SUFFICES ASSUME NEW t \in Retained(d) PROVE \E a \in 1 .. Len(s) : s[a] = t
    OBVIOUS
  <2>1. PICK k \in 1 .. Len(d.order) : d.order[k] = t
    BY DEF Sound
  <2>2. ~IsTerminal(d.retained[t])
    BY <1>1, <2>1 DEF Terminals
  <2>3. PICK i \in 1 .. Len(p) : Tx(p[i]) = t
    BY <2>2 DEF Matched
  <2>4. i \in 1 .. Len(s) /\ s[i] = t
    BY <1>2, <1>3, <1>5, <2>3
  <2> QED
    BY <2>4
<1>9. Cardinality(Retained(d)) = Len(s)
  BY <1>5, <1>6, <1>7, <1>8, Enumerated
<1> QED
  BY <1>2, <1>5, <1>9

\* Journal e has the outcomes of room and o for t.
Grows(e, room, t, o) ==
    /\ Retained(e) = Retained(room) \union {t} /\ e.retained[t] = o
    /\ \A u \in Retained(room) : e.retained[u] = room.retained[u]

WithQueued(room, q) ==
    [room EXCEPT !.retained[Tx(q)] = AsQueued(q.request), !.order = Append(@, Tx(q))]

\* e is room with one more outcome, queued, at the end.
LEMMA AdmissionSound ==
    ASSUME NEW room, Sound(room), Len(room.order) < Capacity, NEW p, Matched(p, room),
           NEW q \in Queued, Tx(q) \notin Retained(room), NEW e, e = WithQueued(room, q)
    PROVE  /\ Sound(e) /\ Matched(Append(p, q), e)
           /\ Grows(e, room, Tx(q), AsQueued(q.request))
<1>1. PICK t : t = Tx(q)
  OBVIOUS
<1>2. PICK o : o = AsQueued(q.request)
  OBVIOUS
<1>3. q.request \in Requests
  BY DEF Queued
<1>4. t \in TransactionIds /\ o \in Outcomes /\ o # NoOutcome /\ o.request = q.request
  BY <1>1, <1>2, <1>3, RequestFacts DEF Tx
<1>5. room \in Journals
  BY DEF Sound
<1>6. /\ room.retained \in [TransactionIds -> Outcomes \union {NoOutcome}]
      /\ room.order \in Seq(TransactionIds) /\ room.evicted \in Seq(Requests)
  BY <1>5 DEF Journals
<1>7. /\ e.retained = [room.retained EXCEPT ![t] = o] /\ e.order = Append(room.order, t)
      /\ e.evicted = room.evicted /\ e \in Journals
  <2>1. PICK kept : kept = [room.retained EXCEPT ![t] = o]
    OBVIOUS
  <2>2. PICK order : order = Append(room.order, t)
    OBVIOUS
  <2>3. kept \in [TransactionIds -> Outcomes \union {NoOutcome}] /\ order \in Seq(TransactionIds)
    BY <1>4, <1>6, <2>1, <2>2
  <2>4. e = [room EXCEPT !.retained = kept, !.order = order]
    BY <1>1, <1>2, <1>5, <2>1, <2>2 DEF Journals, WithQueued
  <2>5. e.retained = kept /\ e.order = order /\ e.evicted = room.evicted
    BY <1>5, <2>4 DEF Journals
  <2>6. e \in Journals
    BY <1>5, <2>3, <2>4 DEF Journals
  <2> QED
    BY <2>1, <2>2, <2>5, <2>6
<1>8. e.retained[t] = o /\ \A u \in TransactionIds : u # t => e.retained[u] = room.retained[u]
  BY <1>4, <1>6, <1>7
<1>9. Retained(e) = Retained(room) \union {t}
  BY <1>4, <1>8 DEF Retained
<1>10. \A u \in Retained(room) : u # t /\ u \in TransactionIds /\ e.retained[u] = room.retained[u]
  BY <1>1, <1>8 DEF Retained
<1>11. PICK m \in Nat : m = Len(room.order)
  BY <1>6
<1>12. /\ Len(e.order) = m + 1 /\ e.order[m + 1] = t
       /\ \A a \in 1 .. m : e.order[a] = room.order[a]
  BY <1>4, <1>6, <1>7, <1>11, AppendProperties
<1>13. \A a \in 1 .. m + 1 : a \in 1 .. m \/ a = m + 1
  OBVIOUS
<1>14. \A a \in 1 .. m : e.order[a] \in Retained(room) /\ e.order[a] # t
  BY <1>1, <1>11, <1>12 DEF Sound
<1>15. \A a, b \in 1 .. m + 1 : e.order[a] = e.order[b] => a = b
  <2> SUFFICES ASSUME NEW a \in 1 .. m + 1, NEW b \in 1 .. m + 1, e.order[a] = e.order[b]
               PROVE  a = b
    OBVIOUS
  <2>1. CASE a \in 1 .. m /\ b \in 1 .. m
    BY <1>11, <1>12, <2>1 DEF Sound
  <2>2. CASE ~(a \in 1 .. m /\ b \in 1 .. m)
    BY <1>12, <1>13, <1>14, <2>2
  <2> QED
    BY <2>1, <2>2
<1>16. \A a \in 1 .. m + 1 : e.order[a] \in Retained(e)
  BY <1>9, <1>12, <1>13, <1>14
<1>17. \A u \in Retained(e) : \E a \in 1 .. m + 1 : e.order[a] = u
  <2> SUFFICES ASSUME NEW u \in Retained(e) PROVE \E a \in 1 .. m + 1 : e.order[a] = u
    OBVIOUS
  <2>1. CASE u = t
    <3>1. m + 1 \in 1 .. m + 1
      OBVIOUS
    <3> QED
      BY <1>12, <2>1, <3>1
  <2>2. CASE u \in Retained(room)
    <3>1. PICK a \in 1 .. m : room.order[a] = u
      BY <1>11, <2>2 DEF Sound
    <3>2. a \in 1 .. m + 1 /\ e.order[a] = u
      BY <1>12, <3>1
    <3> QED
      BY <3>2
  <2> QED
    BY <1>9, <2>1, <2>2
<1>18. \A u \in Retained(e) : e.retained[u].request.transaction = u
  <2> SUFFICES ASSUME NEW u \in Retained(e) PROVE e.retained[u].request.transaction = u
    OBVIOUS
  <2>1. CASE u = t
    BY <1>1, <1>4, <1>8, <2>1 DEF Tx
  <2>2. CASE u \in Retained(room)
    BY <1>10, <2>2 DEF Sound
  <2> QED
    BY <1>9, <2>1, <2>2
<1>19. Len(e.order) <= Capacity /\ Len(e.evicted) <= Capacity
  BY <1>7, <1>11, <1>12, TransactionConstants DEF Sound
<1>20. Sound(e)
  BY <1>7, <1>12, <1>15, <1>16, <1>17, <1>18, <1>19 DEF Sound
<1>21. p \in Seq(Queued)
  BY DEF Matched
<1>22. PICK n \in Nat : n = Len(p)
  BY <1>21
<1>23. PICK p2 : p2 = Append(p, q)
  OBVIOUS
<1>24. p2 \in Seq(Queued) /\ Len(p2) = n + 1 /\ p2[n + 1] = q /\ \A i \in 1 .. n : p2[i] = p[i]
  BY <1>21, <1>22, <1>23, AppendProperties
<1>25. \A i \in 1 .. n + 1 : i \in 1 .. n \/ i = n + 1
  OBVIOUS
<1>26. \A i \in 1 .. n : Tx(p[i]) \in Retained(room) /\ room.retained[Tx(p[i])] = AsQueued(p[i].request)
  <2> SUFFICES ASSUME NEW i \in 1 .. n
               PROVE  Tx(p[i]) \in Retained(room) /\ room.retained[Tx(p[i])] = AsQueued(p[i].request)
    OBVIOUS
  <2>1. p[i] \in Queued /\ room.retained[Tx(p[i])] = AsQueued(p[i].request)
    BY <1>21, <1>22 DEF Matched
  <2>2. p[i].request \in Requests
    BY <2>1 DEF Queued
  <2> QED
    BY <2>1, <2>2, RequestFacts DEF Retained, Tx
<1>27. \A i \in 1 .. n : p2[i] = p[i] /\ Tx(p2[i]) \in Retained(room) /\ Tx(p2[i]) # t
  BY <1>10, <1>24, <1>26
<1>28. \A i \in 1 .. n + 1 : e.retained[Tx(p2[i])] = AsQueued(p2[i].request)
  <2> SUFFICES ASSUME NEW i \in 1 .. n + 1 PROVE e.retained[Tx(p2[i])] = AsQueued(p2[i].request)
    OBVIOUS
  <2>1. CASE i = n + 1
    BY <1>1, <1>2, <1>8, <1>24, <2>1
  <2>2. CASE i \in 1 .. n
    BY <1>10, <1>26, <1>27, <2>2
  <2> QED
    BY <1>25, <2>1, <2>2
<1>29. \A i, k \in 1 .. n + 1 : Tx(p2[i]) = Tx(p2[k]) => i = k
  <2> SUFFICES ASSUME NEW i \in 1 .. n + 1, NEW k \in 1 .. n + 1, Tx(p2[i]) = Tx(p2[k])
               PROVE  i = k
    OBVIOUS
  <2>1. CASE i \in 1 .. n /\ k \in 1 .. n
    BY <1>22, <1>27, <2>1 DEF Matched
  <2>2. CASE ~(i \in 1 .. n /\ k \in 1 .. n)
    BY <1>1, <1>24, <1>25, <1>27, <2>2
  <2> QED
    BY <2>1, <2>2
<1>30. \A u \in Retained(e) : IsTerminal(e.retained[u]) \/ \E i \in 1 .. n + 1 : Tx(p2[i]) = u
  <2> SUFFICES ASSUME NEW u \in Retained(e), ~IsTerminal(e.retained[u])
               PROVE  \E i \in 1 .. n + 1 : Tx(p2[i]) = u
    OBVIOUS
  <2>1. CASE u = t
    <3>1. n + 1 \in 1 .. n + 1
      OBVIOUS
    <3> QED
      BY <1>1, <1>24, <2>1, <3>1
  <2>2. CASE u \in Retained(room)
    <3>1. ~IsTerminal(room.retained[u])
      BY <1>10, <2>2
    <3>2. PICK i \in 1 .. n : Tx(p[i]) = u
      BY <1>22, <2>2, <3>1 DEF Matched
    <3>3. i \in 1 .. n + 1 /\ Tx(p2[i]) = u
      BY <1>24, <3>2
    <3> QED
      BY <3>3
  <2> QED
    BY <1>9, <2>1, <2>2
<1>31. \A i, k \in 1 .. n + 1 : i < k => Before(e, Tx(p2[i]), Tx(p2[k]))
  <2> SUFFICES ASSUME NEW i \in 1 .. n + 1, NEW k \in 1 .. n + 1, i < k
               PROVE  Before(e, Tx(p2[i]), Tx(p2[k]))
    OBVIOUS
  <2> SUFFICES ASSUME NEW a \in 1 .. Len(e.order), NEW b \in 1 .. Len(e.order),
                      e.order[a] = Tx(p2[i]), e.order[b] = Tx(p2[k])
               PROVE  a < b
    BY DEF Before
  <2>1. a \in 1 .. m + 1 /\ b \in 1 .. m + 1
    BY <1>12
  <2>2. i \in 1 .. n
    OBVIOUS
  <2>3. a \in 1 .. m
    <3>1. e.order[a] # t
      BY <1>27, <2>2
    <3> QED
      BY <1>13, <1>12, <2>1, <3>1
  <2>4. CASE k = n + 1
    <3>1. e.order[b] = t
      BY <1>1, <1>24, <2>4
    <3>2. b = m + 1
      BY <1>13, <1>14, <2>1, <3>1
    <3> QED
      BY <2>3, <3>2
  <2>5. CASE k \in 1 .. n
    <3>1. b \in 1 .. m
      BY <1>12, <1>13, <1>27, <2>5, <2>1
    <3>2. room.order[a] = Tx(p[i]) /\ room.order[b] = Tx(p[k])
      BY <1>12, <1>24, <2>2, <2>3, <2>5, <3>1
    <3>3. Before(room, Tx(p[i]), Tx(p[k]))
      BY <1>22, <2>2, <2>5 DEF Matched
    <3> QED
      BY <1>11, <2>3, <3>1, <3>2, <3>3 DEF Before
  <2> QED
    BY <1>25, <2>4, <2>5
<1>32. Matched(p2, e)
  BY <1>24, <1>28, <1>29, <1>30, <1>31 DEF Matched
<1> QED
  BY <1>1, <1>2, <1>8, <1>9, <1>10, <1>20, <1>23, <1>32 DEF Grows

\* Journal k has the outcomes of d, some evicted, and one more.
Extends(k, d, t) ==
    \A u \in Retained(k) : u = t \/ (u \in Retained(d) /\ k.retained[u] = d.retained[u])

\* record of a new transaction, for which the queue had a free slot.
LEMMA RecordedAdmission ==
    ASSUME NEW p, NEW d, NEW w, Consistent(p, d, w), Len(p) < Capacity,
           NEW q \in Queued, ~Answers(d, q.request),
           NEW c \in Coordinators, ~c.fault, c.journal = d,
           NEW e, e = Recorded(c, AsQueued(q.request))
    PROVE  /\ e \in Coordinators /\ ~e.fault /\ e.pending = c.pending
           /\ Consistent(Append(p, q), e.journal, KnownWrites(e.journal, w))
           /\ Extends(e.journal, d, Tx(q)) /\ ~Knows(d, Tx(q))
<1>1. Sound(d) /\ Matched(p, d) /\ Ledger(d, w)
  BY DEF Consistent
<1>2. PICK t : t = Tx(q)
  OBVIOUS
<1>3. PICK o : o = AsQueued(q.request)
  OBVIOUS
<1>4. q.request \in Requests
  BY DEF Queued
<1>5. t \in TransactionIds /\ o.request = q.request /\ o.request.transaction = t
  BY <1>2, <1>3, <1>4, RequestFacts DEF Tx
<1>6. ~Knows(d, t)
  BY <1>2 DEF Answers, Knows, Tx
<1>7. t \notin Retained(d)
  BY <1>1, <1>6, RetainedIsKnown
<1>8. ~RequestIdentityConflicts(d, o.request)
  BY <1>5 DEF RequestIdentityConflicts, Answers
<1>9. Cardinality(Retained(d)) < Capacity \/ Terminals(d) # {}
  BY <1>1, JournalHasRoom
<1>10. Accepts(d, o)
  BY <1>5, <1>7, <1>8, <1>9 DEF Accepts
<1>11. PICK room : room = EvictTerminal(d)
  OBVIOUS
<1>12. Sound(room) /\ MakesRoom(room, d)
  BY <1>1, <1>9, <1>11, RoomIsMade
<1>13. PICK k : k = [room EXCEPT !.retained[t] = o, !.order = Append(@, t)]
  OBVIOUS
<1>14. Record(d, o) = k
  BY <1>5, <1>7, <1>11, <1>13 DEF Record
<1>15. e = [c EXCEPT !.journal = k]
  BY <1>3, <1>10, <1>14 DEF Recorded
<1>16. t \notin Retained(room) /\ Len(room.order) < Capacity
  BY <1>7, <1>12 DEF MakesRoom
<1>17. Matched(p, room)
  <2>1. p \in Seq(Queued)
    BY <1>1 DEF Matched
  <2>2. \A i \in 1 .. Len(p) : Tx(p[i]) \in Retained(room)
    <3> SUFFICES ASSUME NEW i \in 1 .. Len(p) PROVE Tx(p[i]) \in Retained(room)
      OBVIOUS
    <3>1. Tx(p[i]) \in Retained(d) /\ d.retained[Tx(p[i])] = AsQueued(p[i].request)
          /\ p[i].request \in Requests
      BY QueuedUnwritten
    <3>2. ~IsTerminal(d.retained[Tx(p[i])])
      BY <3>1, RequestFacts
    <3> QED
      BY <1>12, <3>1, <3>2 DEF MakesRoom
  <2>3. \A i \in 1 .. Len(p) : room.retained[Tx(p[i])] = AsQueued(p[i].request)
    BY <1>1, <1>12, <2>2 DEF MakesRoom, Matched
  <2>4. \A u \in Retained(room) : IsTerminal(room.retained[u]) \/ \E i \in 1 .. Len(p) : Tx(p[i]) = u
    <3> SUFFICES ASSUME NEW u \in Retained(room), ~IsTerminal(room.retained[u])
                 PROVE  \E i \in 1 .. Len(p) : Tx(p[i]) = u
      OBVIOUS
    <3>1. u \in Retained(d) /\ ~IsTerminal(d.retained[u])
      BY <1>12 DEF MakesRoom
    <3> QED
      BY <1>1, <3>1 DEF Matched
  <2>5. \A i, n \in 1 .. Len(p) : i < n => Before(room, Tx(p[i]), Tx(p[n]))
    <3> SUFFICES ASSUME NEW i \in 1 .. Len(p), NEW n \in 1 .. Len(p), i < n
                 PROVE  Before(room, Tx(p[i]), Tx(p[n]))
      OBVIOUS
    <3>1. Before(d, Tx(p[i]), Tx(p[n]))
      BY <1>1 DEF Matched
    <3> QED
      BY <1>12, <2>2, <3>1 DEF MakesRoom
  <2> QED
    BY <1>1, <2>1, <2>3, <2>4, <2>5 DEF Matched
<1>18. /\ Sound(k) /\ Matched(Append(p, q), k)
       /\ Grows(k, room, t, o)
  <2>1. k = WithQueued(room, q) /\ Tx(q) \notin Retained(room)
    BY <1>2, <1>3, <1>13, <1>16 DEF WithQueued
  <2> QED
    BY <1>2, <1>3, <1>12, <1>16, <1>17, <2>1, AdmissionSound
<1>19. Extends(k, d, t)
  BY <1>12, <1>18 DEF Extends, MakesRoom, Grows
<1>20. PICK v : v = KnownWrites(k, w)
  OBVIOUS
<1>21. w \in [TransactionIds -> 0 .. 1] /\ w[t] = 0
  BY <1>1, <1>5, <1>6 DEF Ledger
<1>22. \A u \in TransactionIds : v[u] = IF Knows(k, u) THEN w[u] ELSE 0
  BY <1>20 DEF KnownWrites, Knows
<1>23. v \in [TransactionIds -> 0 .. 1]
  <2>1. \A u \in TransactionIds : v[u] \in 0 .. 1
    BY <1>21, <1>22
  <2>2. v = [u \in TransactionIds |-> v[u]]
    BY <1>20 DEF KnownWrites
  <2> QED
    BY <2>1, <2>2
<1>24. \A u \in Retained(k) : Truthful(k.retained[u], v[u])
  <2> SUFFICES ASSUME NEW u \in Retained(k) PROVE Truthful(k.retained[u], v[u])
    OBVIOUS
  <2>1. Knows(k, u) /\ u \in TransactionIds
    BY <1>18, RetainedIsKnown
  <2>2. v[u] = w[u]
    BY <1>22, <2>1
  <2>3. CASE u = t
    <3>1. v[u] = 0
      BY <1>21, <2>2, <2>3
    <3>2. o.state # "succeeded"
      BY <1>3, <1>4, RequestFacts
    <3>3. k.retained[u] = o
      BY <1>18, <2>3 DEF Grows
    <3> QED
      BY <3>1, <3>2, <3>3 DEF Truthful
  <2>4. CASE u # t
    <3>1. u \in Retained(d) /\ k.retained[u] = d.retained[u]
      BY <1>19, <2>4 DEF Extends
    <3> QED
      BY <1>1, <2>2, <3>1 DEF Ledger
  <2> QED
    BY <2>3, <2>4
<1>25. Ledger(k, v)
  BY <1>22, <1>23, <1>24 DEF Ledger
<1>26. Consistent(Append(p, q), k, v)
  BY <1>18, <1>25 DEF Consistent
<1>27. k \in Journals
  BY <1>18 DEF Sound
<1>28. e \in Coordinators /\ ~e.fault /\ e.pending = c.pending /\ e.journal = k
  BY <1>15, <1>27 DEF Coordinators
<1> QED
  BY <1>2, <1>6, <1>19, <1>20, <1>26, <1>28

\* Only a frame that q makes obsolete is superseded.
OnlyObsolete(k, p, q) ==
    \A i \in 1 .. Len(p) :
        Tx(p[i]) \in Retained(k) /\ k.retained[Tx(p[i])].state = "superseded" => i \in Obsolete(p, q)

\* The queue p1 that admission leaves before the new entry, with what it finishes.
LEMMA SupersedingLeaves ==
    ASSUME NEW p, NEW j, NEW w, Consistent(p, j, w), NEW q \in Queued, NEW now,
           Admissible(p, q, now), NEW s, s = Superseded(p, q)
    PROVE  \E p1 : /\ p1 \in Seq(Queued) /\ Len(p1) < Capacity /\ Admit(p, q) = Append(p1, q)
                   /\ Leaves(p1, p, FirstTx(s, Len(s))) /\ Sublist(s, p)
                   /\ \A i \in 1 .. Len(s) : \E a \in Obsolete(p, q) : s[i] = p[a]
<1>1. p \in Seq(Queued) /\ Once(p)
  BY DEF Consistent, Matched, Once
<1>2. Len(p) <= Capacity
  BY QueueBounded DEF Consistent
<1>3. PICK m \in Nat : m = Len(p)
  BY <1>1
<1>4. Capacity \in Nat
  BY TransactionConstants
<1>5. CASE Obsolete(p, q) = {}
  <2>1. s = <<>> /\ Admit(p, q) = Append(p, q) /\ Len(p) < Capacity
    BY <1>5 DEF Superseded, Admit, Admissible
  <2>2. Len(s) = 0 /\ s \in Seq(Queued) /\ 1 .. Len(s) = {}
    BY <2>1
  <2>3. FirstTx(s, Len(s)) = {}
    BY <2>2 DEF FirstTx
  <2>4. Sublist(s, p)
    BY <2>2 DEF Sublist
  <2>5. \A i, k \in 1 .. Len(p) : i < k =>
          \E a, b \in 1 .. Len(p) : a < b /\ p[i] = p[a] /\ p[k] = p[b]
    OBVIOUS
  <2>6. Sublist(p, p)
    BY <1>1, <2>5 DEF Sublist
  <2>7. Leaves(p, p, FirstTx(s, Len(s)))
    BY <2>3, <2>6 DEF Leaves
  <2> QED
    BY <1>1, <2>1, <2>2, <2>4, <2>7
<1>6. CASE Obsolete(p, q) # {}
  <2>1. PICK n : n = Min(Obsolete(p, q))
    OBVIOUS
  <2>2. Obsolete(p, q) \in SUBSET Nat
    BY <1>1 DEF Obsolete
  <2>3. n \in Obsolete(p, q)
    BY <1>6, <2>1, <2>2, MinIsMember
  <2>4. n \in 1 .. Len(p)
    BY <1>1, <2>3 DEF Obsolete
  <2>5. s = <<p[n]>> /\ Admit(p, q) = Append(RemoveAt(p, n), q)
    BY <1>6, <2>1 DEF Superseded, Admit
  <2>6. p[n] \in Queued
    BY <1>1, <2>4
  <2>7. Len(s) = 1 /\ s[1] = p[n] /\ s \in Seq(Queued) /\ \A i \in 1 .. Len(s) : i = 1
    BY <2>5, <2>6
  <2>8. FirstTx(s, Len(s)) = {Tx(p[n])}
    <3>1. 1 .. Len(s) = {1}
      BY <2>7
    <3> QED
      BY <2>7, <3>1 DEF FirstTx
  <2>9. Leaves(RemoveAt(p, n), p, {Tx(p[n])}) /\ Len(RemoveAt(p, n)) = Len(p) - 1
    BY <1>1, <2>4, RemoveLeaves
  <2>10. RemoveAt(p, n) \in Seq(Queued)
    BY <2>9 DEF Leaves, Sublist
  <2>11. Len(RemoveAt(p, n)) < Capacity
    BY <1>2, <1>3, <1>4, <2>9
  <2>12. \A i, k \in 1 .. Len(s) : ~(i < k)
    BY <2>7
  <2>13. \A i \in 1 .. Len(s) : \E a \in 1 .. Len(p) : s[i] = p[a]
    BY <2>4, <2>7
  <2>14. Sublist(s, p)
    BY <2>7, <2>12, <2>13 DEF Sublist
  <2>15. \A i \in 1 .. Len(s) : \E a \in Obsolete(p, q) : s[i] = p[a]
    BY <2>3, <2>7
  <2> QED
    BY <2>5, <2>8, <2>9, <2>10, <2>11, <2>14, <2>15
<1> QED
  BY <1>5, <1>6

LEMMA SubmitConsistent ==
    ASSUME NEW p, NEW j, NEW w, Consistent(p, j, w), NEW q \in Queued, NEW now,
           ~Answers(j, q.request), Admissible(p, q, now),
           NEW c \in Coordinators, ~c.fault, c.journal = j, c.pending = Admit(p, q),
           NEW b, b = FinishEach(c, Superseded(p, q), "superseded"),
           NEW e, e = Recorded(b, AsQueued(q.request))
    PROVE  /\ e \in Coordinators /\ ~e.fault /\ e.pending = Admit(p, q)
           /\ Consistent(e.pending, e.journal, KnownWrites(e.journal, w))
           /\ OnlyObsolete(e.journal, p, q) /\ ~Knows(j, Tx(q))
<1>1. PICK s : s = Superseded(p, q)
  OBVIOUS
<1>2. PICK p1 : /\ p1 \in Seq(Queued) /\ Len(p1) < Capacity /\ Admit(p, q) = Append(p1, q)
                /\ Leaves(p1, p, FirstTx(s, Len(s))) /\ Sublist(s, p)
                /\ \A i \in 1 .. Len(s) : \E a \in Obsolete(p, q) : s[i] = p[a]
  BY <1>1, SupersedingLeaves
<1>3. PICK D : D = FirstTx(s, Len(s))
  OBVIOUS
<1>4. "superseded" \in UnsentStates
  BY DEF UnsentStates
<1>5. /\ b \in Coordinators /\ ~b.fault /\ b.pending = c.pending
      /\ Settles(b.journal, j, D) /\ AllUnsent(b.journal, D, "superseded", w)
  BY <1>1, <1>2, <1>3, <1>4, FinishingWork
<1>6. PICK d : d = b.journal
  OBVIOUS
<1>7. PICK x : x = [b EXCEPT !.pending = p1]
  OBVIOUS
<1>8. x \in Coordinators /\ ~x.fault /\ x.journal = d /\ x.pending = p1
  BY <1>2, <1>5, <1>6, <1>7 DEF Coordinators
<1>9. Concludes(x, w, D, p, j, w)
  BY <1>2, <1>3, <1>5, <1>6, <1>8 DEF Concludes, Consistent, Ledger, AllUnsent
<1>10. Consistent(p1, d, w)
  BY <1>8, <1>9, ConcludedConsistent
<1>11. j \in Journals
  BY DEF Consistent, Sound
<1>12. Known(d) = Known(j)
  BY <1>5, <1>6, <1>11, SettlesKnown
<1>13. ~Answers(d, q.request)
  BY <1>12 DEF Answers
<1>14. /\ e \in Coordinators /\ ~e.fault /\ e.pending = b.pending
       /\ Consistent(Append(p1, q), e.journal, KnownWrites(e.journal, w))
       /\ Extends(e.journal, d, Tx(q)) /\ ~Knows(d, Tx(q))
  BY <1>2, <1>5, <1>6, <1>10, <1>13, RecordedAdmission
<1>15. ~Knows(j, Tx(q))
  BY <1>12, <1>14 DEF Knows
<1>16. OnlyObsolete(e.journal, p, q)
  <2> SUFFICES ASSUME NEW i \in 1 .. Len(p), Tx(p[i]) \in Retained(e.journal),
                      e.journal.retained[Tx(p[i])].state = "superseded"
               PROVE  i \in Obsolete(p, q)
    BY DEF OnlyObsolete
  <2>1. /\ Tx(p[i]) \in Retained(j) /\ Tx(p[i]) \in TransactionIds /\ p[i].request \in Requests
        /\ j.retained[Tx(p[i])] = AsQueued(p[i].request)
    BY QueuedUnwritten
  <2>2. Tx(p[i]) # Tx(q)
    BY <1>15, <2>1, RetainedIsKnown DEF Consistent
  <2>3. e.journal.retained[Tx(p[i])] = d.retained[Tx(p[i])]
    BY <1>14, <2>2 DEF Extends
  <2>4. CASE Tx(p[i]) \notin D
    <3>1. d.retained[Tx(p[i])] = AsQueued(p[i].request)
      BY <1>5, <1>6, <2>1, <2>4 DEF Settles
    <3>2. AsQueued(p[i].request).state = "queued"
      BY <2>1, RequestFacts
    <3> QED
      BY <2>3, <3>1, <3>2
  <2>5. CASE Tx(p[i]) \in D
    <3>1. PICK n \in 1 .. Len(s) : Tx(p[i]) = Tx(s[n])
      BY <1>3, <2>5 DEF FirstTx
    <3>2. PICK a \in Obsolete(p, q) : s[n] = p[a]
      BY <1>2
    <3>3. p \in Seq(Queued)
      BY DEF Consistent, Matched
    <3>4. a \in 1 .. Len(p)
      BY <3>3 DEF Obsolete
    <3>5. a = i
      BY <3>1, <3>2, <3>4 DEF Consistent, Matched
    <3> QED
      BY <3>5
  <2> QED
    BY <2>4, <2>5
<1> QED
  BY <1>2, <1>5, <1>14, <1>15, <1>16

---------------------------------------------------------------------------
(***************************************************************************)
(* Steps.                                                                  *)
(***************************************************************************)
\* What WritesAreAuthorised and SupersededIsObsolete say of one step.
WriteStep ==
    \A i \in DOMAIN pending :
        LET r == pending[i].request IN
        writes'[r.transaction] > writes[r.transaction] =>
            pending[i].session \in open /\ Owns(r) /\ IsCurrent(r.generation)

SupersedeStep ==
    \A i \in DOMAIN pending :
        LET old == pending[i].request
            outcome == journal'.retained[old.transaction]
        IN  outcome # NoOutcome /\ outcome.state = "superseded" =>
              \E k \in DOMAIN pending' :
                 LET new == pending'[k].request IN
                 /\ pending'[k].session = pending[i].session
                 /\ new.transaction \notin Retained(journal)
                 /\ old.class = EffectFrame /\ new.class = EffectFrame
                 /\ old.lease = new.lease /\ old.generation = new.generation
                 /\ old.resources = new.resources

LEMMA InitialConsistent ==
    ASSUME Init
    PROVE  IInv
<1>1. /\ journal = EmptyJournal /\ pending = <<>> /\ fault = FALSE
      /\ writes = [t \in TransactionIds |-> 0]
  BY DEF Init
<1>2. /\ EmptyJournal.retained = [t \in TransactionIds |-> NoOutcome]
      /\ EmptyJournal.order = <<>> /\ EmptyJournal.evicted = <<>>
  BY DEF EmptyJournal
<1>3. <<>> \in Seq(TransactionIds) /\ <<>> \in Seq(Requests) /\ <<>> \in Seq(Queued)
      /\ Len(<<>>) = 0 /\ 1 .. Len(<<>>) = {}
  BY EmptySeq
<1>4. journal \in Journals
  BY <1>1, <1>3 DEF EmptyJournal, Journals
<1>5. Retained(journal) = {}
  BY <1>1, <1>2 DEF Retained
<1>6. Sound(journal)
  BY <1>1, <1>2, <1>3, <1>4, <1>5, TransactionConstants DEF Sound
<1>7. Matched(pending, journal)
  BY <1>1, <1>3, <1>5 DEF Matched
<1>8. Ledger(journal, writes)
  BY <1>1, <1>5 DEF Ledger
<1>9. Authority
  BY CoordinatorConstants DEF Init, Authority
<1> QED
  BY <1>1, <1>6, <1>7, <1>8, <1>9 DEF IInv, Consistent

\* The coordinator as a value, with another queue.
Holding(rest) == [Coordinator EXCEPT !.pending = rest]

LEMMA CoordinatorValue ==
    ASSUME IInv, NEW rest \in Seq(Queued), NEW c, c = Holding(rest)
    PROVE  c \in Coordinators /\ ~c.fault /\ c.journal = journal /\ c.pending = rest
<1>1. pending \in Seq(Queued) /\ journal \in Journals /\ fault = FALSE
  BY DEF IInv, Consistent, Matched, Sound
<1>2. c = [pending |-> rest, journal |-> journal, fault |-> fault]
  BY DEF Coordinator, Holding
<1>3. c = [pending |-> rest, journal |-> journal, fault |-> FALSE]
  BY <1>1, <1>2
<1>4. c \in Coordinators
  BY <1>1, <1>3 DEF Coordinators
<1>5. c.fault = FALSE /\ c.journal = journal /\ c.pending = rest
  BY <1>3
<1> QED
  BY <1>4, <1>5

\* A step that only finishes queued work, and whose writes become v.
LEMMA ConcludingStep ==
    ASSUME IInv, NEW e, NEW v, NEW D, Concludes(e, v, D, pending, journal, writes),
           NoneSuperseded(e.journal, D), CoordinatorBecomes(e, v)
    PROVE  /\ Consistent(pending', journal', writes') /\ fault' = FALSE
           /\ writes' = v /\ SupersedeStep
<1>1. /\ pending' = e.pending /\ journal' = e.journal /\ fault' = e.fault
      /\ writes' = KnownWrites(e.journal, v)
  BY DEF CoordinatorBecomes
<1>2. Consistent(pending, journal, writes)
  BY DEF IInv
<1>3. Consistent(e.pending, e.journal, v) /\ KnownWrites(e.journal, v) = v
  BY <1>2, ConcludedConsistent
<1>4. e.fault = FALSE
  BY DEF Concludes, Coordinators
<1>5. ASSUME NEW i \in DOMAIN pending,
             e.journal.retained[pending[i].request.transaction].state = "superseded"
      PROVE  FALSE
  <2>1. pending \in Seq(Queued)
    BY <1>2 DEF Consistent, Matched
  <2>2. i \in 1 .. Len(pending)
    BY <2>1
  <2>3. /\ Tx(pending[i]) \in TransactionIds /\ pending[i].request \in Requests
        /\ journal.retained[Tx(pending[i])] = AsQueued(pending[i].request)
    BY <1>2, <2>2, QueuedUnwritten
  <2>4. CASE Tx(pending[i]) \in D
    BY <1>5, <2>4 DEF NoneSuperseded, Tx
  <2>5. CASE Tx(pending[i]) \notin D
    <3>1. e.journal.retained[Tx(pending[i])] = AsQueued(pending[i].request)
      BY <2>3, <2>5 DEF Concludes, Settles
    <3>2. AsQueued(pending[i].request).state = "queued"
      BY <2>3, RequestFacts
    <3> QED
      BY <1>5, <3>1, <3>2 DEF Tx
  <2> QED
    BY <2>4, <2>5
<1>6. SupersedeStep
  <2>1. \A i \in DOMAIN pending :
          journal'.retained[pending[i].request.transaction].state # "superseded"
    BY <1>1, <1>5
  <2> QED
    BY <2>1 DEF SupersedeStep
<1> QED
  BY <1>1, <1>3, <1>4, <1>6

LEMMA SameWrites ==
    ASSUME IInv, writes' = writes
    PROVE  WriteStep
<1>1. pending \in Seq(Queued) /\ writes \in [TransactionIds -> 0 .. 1]
  BY DEF IInv, Consistent, Matched, Ledger
<1>2. ASSUME NEW i \in DOMAIN pending
      PROVE  ~(writes'[pending[i].request.transaction] > writes[pending[i].request.transaction])
  <2>1. i \in 1 .. Len(pending)
    BY <1>1
  <2>2. pending[i].request.transaction \in TransactionIds
    BY <2>1, QueuedUnwritten DEF IInv, Tx
  <2>3. writes[pending[i].request.transaction] \in 0 .. 1
    BY <1>1, <2>2
  <2> QED
    BY <2>3
<1> QED
  BY <1>2 DEF WriteStep

\* Queue, journal and writes after a step, and what the step may do.
StepIsSound ==
    /\ Consistent(pending', journal', writes') /\ fault' = FALSE
    /\ WriteStep /\ SupersedeStep

LEMMA SubmitStep ==
    ASSUME IInv, NEW s \in Sessions, NEW r \in Requests, Submit(s, r)
    PROVE  StepIsSound
<1>1. Consistent(pending, journal, writes) /\ pending \in Seq(Queued)
  BY DEF IInv, Consistent, Matched
<1>2. PICK q \in Queued : q = [request |-> r, session |-> s]
  BY DEF Queued
<1>3. q.request = r /\ q.session = s
  BY <1>2
<1>4. ~Answers(journal, q.request) /\ Admissible(pending, q, clock)
  BY <1>2, <1>3 DEF Submit
<1>5. PICK p2 : p2 = Admit(pending, q)
  OBVIOUS
<1>6. PICK p1 : p1 \in Seq(Queued) /\ p2 = Append(p1, q)
  BY <1>1, <1>4, <1>5, SupersedingLeaves
<1>7. p2 \in Seq(Queued)
  BY <1>6
<1>8. PICK c : c = Holding(p2)
  OBVIOUS
<1>9. c \in Coordinators /\ ~c.fault /\ c.journal = journal /\ c.pending = Admit(pending, q)
  BY <1>5, <1>7, <1>8, CoordinatorValue
<1>10. PICK b : b = FinishEach(c, Superseded(pending, q), "superseded")
  OBVIOUS
<1>11. PICK e : e = Recorded(b, AsQueued(q.request))
  OBVIOUS
<1>12. /\ e \in Coordinators /\ ~e.fault /\ e.pending = Admit(pending, q)
       /\ Consistent(e.pending, e.journal, KnownWrites(e.journal, writes))
       /\ OnlyObsolete(e.journal, pending, q) /\ ~Knows(journal, Tx(q))
  BY <1>1, <1>4, <1>9, <1>10, <1>11, SubmitConsistent
<1>13. CoordinatorBecomes(e, writes)
  <2>1. c = [Coordinator EXCEPT !.pending = Admit(pending, q)]
    BY <1>5, <1>8 DEF Holding
  <2>2. b = FinishEach([Coordinator EXCEPT !.pending = Admit(pending, [request |-> r, session |-> s])],
                       Superseded(pending, [request |-> r, session |-> s]), "superseded")
    BY <1>2, <1>10, <2>1
  <2>3. e = Recorded(b, [request |-> r, state |-> "queued", live |-> FALSE, retry |-> FALSE])
    BY <1>3, <1>11 DEF AsQueued
  <2> QED
    BY <1>12, <2>2, <2>3 DEF Submit
<1>14. /\ pending' = e.pending /\ journal' = e.journal /\ fault' = e.fault
       /\ writes' = KnownWrites(e.journal, writes)
  BY <1>13 DEF CoordinatorBecomes
<1>15. fault' = FALSE
  BY <1>12, <1>14 DEF Coordinators
<1>16. WriteStep
  <2>1. writes \in [TransactionIds -> 0 .. 1]
    BY <1>1 DEF Consistent, Ledger
  <2>2. ASSUME NEW i \in DOMAIN pending
        PROVE  ~(writes'[pending[i].request.transaction] > writes[pending[i].request.transaction])
    <3>1. i \in 1 .. Len(pending)
      BY <1>1
    <3>2. PICK t \in TransactionIds : t = pending[i].request.transaction
      BY <1>1, <3>1, QueuedUnwritten DEF Tx
    <3>3. writes'[t] = IF \E k \in Known(e.journal) : k.transaction = t THEN writes[t] ELSE 0
      BY <1>14 DEF KnownWrites
    <3>4. writes[t] \in 0 .. 1
      BY <2>1
    <3>5. ~(writes'[t] > writes[t])
      BY <3>3, <3>4
    <3> QED
      BY <3>2, <3>5
  <2> QED
    BY <2>2 DEF WriteStep
<1>17. SupersedeStep
  <2> SUFFICES ASSUME NEW i \in DOMAIN pending,
                      journal'.retained[pending[i].request.transaction] # NoOutcome,
                      journal'.retained[pending[i].request.transaction].state = "superseded"
               PROVE  \E k \in DOMAIN pending' :
                        /\ pending'[k].session = pending[i].session
                        /\ pending'[k].request.transaction \notin Retained(journal)
                        /\ pending[i].request.class = EffectFrame
                        /\ pending'[k].request.class = EffectFrame
                        /\ pending[i].request.lease = pending'[k].request.lease
                        /\ pending[i].request.generation = pending'[k].request.generation
                        /\ pending[i].request.resources = pending'[k].request.resources
    BY DEF SupersedeStep
  <2>1. i \in 1 .. Len(pending)
    BY <1>1
  <2>2. Tx(pending[i]) \in TransactionIds
    BY <1>1, <2>1, QueuedUnwritten
  <2>3. Tx(pending[i]) \in Retained(e.journal) /\ e.journal.retained[Tx(pending[i])].state = "superseded"
    BY <1>14, <2>2 DEF Retained, Tx
  <2>4. i \in Obsolete(pending, q)
    BY <1>12, <2>1, <2>3 DEF OnlyObsolete
  <2>5. q.request.class = EffectFrame /\ CoalescingScope(pending[i], q)
    BY <2>4 DEF Obsolete
  <2>6. PICK n \in Nat : n = Len(p1)
    BY <1>6
  <2>7. pending' = Append(p1, q)
    BY <1>5, <1>6, <1>12, <1>14
  <2>8. n + 1 \in DOMAIN pending' /\ pending'[n + 1] = q
    BY <1>6, <2>6, <2>7, AppendProperties
  <2>9. q.request.transaction \notin Retained(journal)
    BY <1>1, <1>12, RetainedIsKnown DEF Tx, Consistent
  <2> QED
    BY <2>5, <2>8, <2>9 DEF CoalescingScope
<1> QED
  BY <1>12, <1>14, <1>15, <1>16, <1>17 DEF StepIsSound

\* Elapsed work is finished before the entry n of the live ones leaves the queue.
LEMMA DispatchBegins ==
    ASSUME IInv, NEW live, live = Unexpired(pending, clock), NEW n \in 1 .. Len(live),
           NEW rest, rest = RemoveAt(live, n), NEW b, b = AfterExpiry(rest)
    PROVE  \E D, E : Chosen(b, D, E, live[n], pending, journal, writes)
<1>1. Consistent(pending, journal, writes) /\ pending \in Seq(Queued)
  BY DEF IInv, Consistent, Matched
<1>2. PICK K : K = Elapsed(pending, clock)
  OBVIOUS
<1>3. live = Without(pending, K)
  BY <1>2 DEF Unexpired
<1>4. live \in Seq(Queued)
  BY <1>1, <1>3, WithoutProperties
<1>5. rest \in Seq(Queued)
  BY <1>4, RemoveAtProperties
<1>6. PICK c : c = Holding(rest)
  OBVIOUS
<1>7. c \in Coordinators /\ ~c.fault /\ c.journal = journal /\ c.pending = RemoveAt(live, n)
  BY <1>5, <1>6, CoordinatorValue
<1>8. b = FinishEach(c, Without(pending, ToSet(pending) \ K), "revoked")
  BY <1>2, <1>6 DEF AfterExpiry, Expired, Holding
<1> QED
  BY <1>1, <1>3, <1>7, <1>8, ExpiryBefore

LEMMA DispatchSentStep ==
    ASSUME IInv, NEW live, live = Unexpired(pending, clock), NEW n \in 1 .. Len(live),
           DispatchSent(live[n], RemoveAt(live, n))
    PROVE  StepIsSound
<1>1. Consistent(pending, journal, writes) /\ pending \in Seq(Queued)
  BY DEF IInv, Consistent, Matched
<1>2. PICK q : q = live[n]
  OBVIOUS
<1>3. PICK b : b = AfterExpiry(RemoveAt(live, n))
  OBVIOUS
<1>4. \E D, E : Chosen(b, D, E, live[n], pending, journal, writes)
  BY <1>3, DispatchBegins
<1>5. PICK D, E : Chosen(b, D, E, q, pending, journal, writes)
  BY <1>2, <1>4
<1>6. Preflight(q)
  BY <1>2 DEF DispatchSent
<1>7. PICK verdict \in Verdicts :
        CoordinatorBecomes(Transmit(b, q, verdict),
          IF verdict.wrote THEN [writes EXCEPT ![q.request.transaction] = @ + 1] ELSE writes)
  BY <1>2, <1>3 DEF DispatchSent
<1>8. PICK e : e = Transmit(b, q, verdict)
  OBVIOUS
<1>9. PICK v : v = Written(writes, Tx(q), verdict)
  OBVIOUS
<1>10. CoordinatorBecomes(e, v)
  BY <1>7, <1>8, <1>9 DEF Written, Tx
<1>11. /\ Concludes(e, v, E, pending, journal, writes) /\ NoneSuperseded(e.journal, E)
       /\ SameBut(v, writes, Tx(q))
  BY <1>1, <1>5, <1>8, <1>9, TransmitConcludes
<1>12. /\ Consistent(pending', journal', writes') /\ fault' = FALSE
       /\ writes' = v /\ SupersedeStep
  BY <1>10, <1>11, ConcludingStep
<1>13. WriteStep
  <2> SUFFICES ASSUME NEW i \in DOMAIN pending,
                      writes'[pending[i].request.transaction] > writes[pending[i].request.transaction]
               PROVE  /\ pending[i].session \in open /\ Owns(pending[i].request)
                      /\ IsCurrent(pending[i].request.generation)
    BY DEF WriteStep
  <2>1. i \in 1 .. Len(pending)
    BY <1>1
  <2>2. Tx(pending[i]) \in TransactionIds /\ Tx(pending[i]) = pending[i].request.transaction
    BY <1>1, <2>1, QueuedUnwritten DEF Tx
  <2>3. writes[Tx(pending[i])] \in 0 .. 1
    BY <1>1, <2>2 DEF Consistent, Ledger
  <2>4. Tx(pending[i]) = Tx(q)
    BY <1>11, <1>12, <2>2, <2>3 DEF SameBut
  <2>5. PICK a \in 1 .. Len(pending) : q = pending[a]
    BY <1>5 DEF Chosen
  <2>6. i = a
    BY <1>1, <2>1, <2>4, <2>5 DEF Consistent, Matched
  <2> QED
    BY <1>6, <2>5, <2>6 DEF Preflight
<1> QED
  BY <1>12, <1>13 DEF StepIsSound

LEMMA DispatchRefusedStep ==
    ASSUME IInv, NEW live, live = Unexpired(pending, clock), NEW n \in 1 .. Len(live),
           DispatchRefused(live[n], RemoveAt(live, n))
    PROVE  StepIsSound
<1>1. Consistent(pending, journal, writes)
  BY DEF IInv
<1>2. PICK q : q = live[n]
  OBVIOUS
<1>3. PICK b : b = AfterExpiry(RemoveAt(live, n))
  OBVIOUS
<1>4. \E D, E : Chosen(b, D, E, live[n], pending, journal, writes)
  BY <1>3, DispatchBegins
<1>5. PICK D, E : Chosen(b, D, E, q, pending, journal, writes)
  BY <1>2, <1>4
<1>6. PICK e : e = FinishUnsent(b, q, "revoked")
  OBVIOUS
<1>7. CoordinatorBecomes(e, writes)
  BY <1>2, <1>3, <1>6 DEF DispatchRefused
<1>8. Concludes(e, writes, E, pending, journal, writes) /\ NoneSuperseded(e.journal, E)
  BY <1>1, <1>5, <1>6, UnsentConcludes
<1>9. /\ Consistent(pending', journal', writes') /\ fault' = FALSE
      /\ writes' = writes /\ SupersedeStep
  BY <1>7, <1>8, ConcludingStep
<1> QED
  BY <1>9, SameWrites DEF StepIsSound

\* The entries K are finished as revoked, and everything else stays queued.
LEMMA RevokingStep ==
    ASSUME IInv, NEW K,
           CoordinatorBecomes(FinishEach(Holding(Without(pending, K)),
                                         Without(pending, ToSet(pending) \ K), "revoked"), writes)
    PROVE  StepIsSound
<1>1. Consistent(pending, journal, writes) /\ pending \in Seq(Queued)
  BY DEF IInv, Consistent, Matched
<1>2. PICK rest \in Seq(Queued) : rest = Without(pending, K)
  BY <1>1, WithoutProperties
<1>3. PICK c : c = Holding(rest)
  OBVIOUS
<1>4. c \in Coordinators /\ ~c.fault /\ c.journal = journal /\ c.pending = Without(pending, K)
  BY <1>2, <1>3, CoordinatorValue
<1>5. PICK e : e = FinishEach(c, Without(pending, ToSet(pending) \ K), "revoked")
  OBVIOUS
<1>6. CoordinatorBecomes(e, writes)
  BY <1>2, <1>3, <1>5
<1>7. PICK D : Concludes(e, writes, D, pending, journal, writes) /\ NoneSuperseded(e.journal, D)
  BY <1>1, <1>4, <1>5, RevokeConcludes
<1>8. /\ Consistent(pending', journal', writes') /\ fault' = FALSE
      /\ writes' = writes /\ SupersedeStep
  BY <1>6, <1>7, ConcludingStep
<1> QED
  BY <1>8, SameWrites DEF StepIsSound

LEMMA RevokeStep ==
    ASSUME IInv, NEW K, Revoke(K)
    PROVE  StepIsSound
BY RevokingStep DEF Revoke, Holding

\* Nothing but elapsed work is finished.
LEMMA ExpiryStep ==
    ASSUME IInv, CoordinatorBecomes(AfterExpiry(Unexpired(pending, clock)), writes)
    PROVE  StepIsSound
<1>1. PICK K : K = Elapsed(pending, clock)
  OBVIOUS
<1>2. AfterExpiry(Unexpired(pending, clock)) =
        FinishEach(Holding(Without(pending, K)), Without(pending, ToSet(pending) \ K), "revoked")
  BY <1>1 DEF AfterExpiry, Unexpired, Expired, Holding
<1> QED
  BY <1>2, RevokingStep

LEMMA DispatchNextStep ==
    ASSUME IInv, DispatchNext
    PROVE  StepIsSound
<1>1. pending \in Seq(Queued)
  BY DEF IInv, Consistent, Matched
<1>2. PICK live : live = Unexpired(pending, clock)
  OBVIOUS
<1>3. live \in Seq(Queued)
  BY <1>1, <1>2, WithoutProperties DEF Unexpired
<1>4. CASE live # <<>>
  <2>1. Tail(live) = RemoveAt(live, 1) /\ Head(live) = live[1] /\ 1 \in 1 .. Len(live)
    BY <1>3, <1>4, TailIsRemoveAt
  <2>2. DispatchRefused(live[1], RemoveAt(live, 1)) \/ DispatchSent(live[1], RemoveAt(live, 1))
    BY <1>2, <1>4, <2>1 DEF DispatchNext
  <2> QED
    BY <1>2, <2>1, <2>2, DispatchSentStep, DispatchRefusedStep
<1>5. CASE live = <<>>
  <2>1. CoordinatorBecomes(AfterExpiry(Unexpired(pending, clock)), writes)
    BY <1>2, <1>5 DEF DispatchNext
  <2> QED
    BY <2>1, ExpiryStep
<1> QED
  BY <1>4, <1>5

LEMMA DispatchTransactionStep ==
    ASSUME IInv, DispatchTransaction
    PROVE  StepIsSound
<1>1. pending \in Seq(Queued)
  BY DEF IInv, Consistent, Matched
<1>2. PICK live : live = Unexpired(pending, clock)
  OBVIOUS
<1>3. live \in Seq(Queued)
  BY <1>1, <1>2, WithoutProperties DEF Unexpired
<1>4. CASE \E i \in DOMAIN live :
             DispatchSent(live[i], RemoveAt(live, i)) \/ DispatchRefused(live[i], RemoveAt(live, i))
  <2>1. PICK i \in DOMAIN live :
          DispatchSent(live[i], RemoveAt(live, i)) \/ DispatchRefused(live[i], RemoveAt(live, i))
    BY <1>4
  <2>2. i \in 1 .. Len(live)
    BY <1>3
  <2> QED
    BY <1>2, <2>1, <2>2, DispatchSentStep, DispatchRefusedStep
<1>5. CASE CoordinatorBecomes(AfterExpiry(live), writes)
  BY <1>2, <1>5, ExpiryStep
<1> QED
  BY <1>2, <1>4, <1>5 DEF DispatchTransaction

LEMMA CancelStep ==
    ASSUME IInv, CancelTransaction
    PROVE  StepIsSound
<1>1. Consistent(pending, journal, writes) /\ pending \in Seq(Queued)
  BY DEF IInv, Consistent, Matched
<1>2. PICK i \in DOMAIN pending :
        CoordinatorBecomes(FinishUnsent([Coordinator EXCEPT !.pending = RemoveAt(pending, i)],
                                        pending[i], "revoked"), writes)
  BY DEF CancelTransaction
<1>3. i \in 1 .. Len(pending)
  BY <1>1
<1>4. PICK rest : rest = RemoveAt(pending, i)
  OBVIOUS
<1>5. PICK q : q = pending[i]
  OBVIOUS
<1>6. Once(pending)
  BY <1>1 DEF Consistent, Matched, Once
<1>7. PICK E : E = {Tx(q)}
  OBVIOUS
<1>8. Leaves(rest, pending, E)
  BY <1>1, <1>3, <1>4, <1>5, <1>6, <1>7, RemoveLeaves
<1>9. rest \in Seq(Queued)
  BY <1>8 DEF Leaves, Sublist
<1>10. PICK c : c = Holding(rest)
  OBVIOUS
<1>11. c \in Coordinators /\ ~c.fault /\ c.journal = journal /\ c.pending = rest
  BY <1>9, <1>10, CoordinatorValue
<1>12. PICK D : D = {}
  OBVIOUS
<1>13. journal \in Journals
  BY <1>1 DEF Consistent, Sound
<1>14. Settles(c.journal, journal, D)
  BY <1>11, <1>12, <1>13, SettlesNothing
<1>15. AllTrue(c.journal, D, writes) /\ NoneSuperseded(c.journal, D)
  BY <1>12 DEF AllTrue, NoneSuperseded
<1>16. q \in Queued /\ Tx(q) \notin D /\ E = D \union {Tx(q)} /\ Leaves(c.pending, pending, E)
       /\ journal.retained[Tx(q)] = AsQueued(q.request) /\ writes[Tx(q)] = 0
  BY <1>1, <1>3, <1>5, <1>7, <1>8, <1>11, <1>12, QueuedUnwritten
<1>17. PICK e : e = FinishUnsent(c, q, "revoked")
  OBVIOUS
<1>18. CoordinatorBecomes(e, writes)
  BY <1>2, <1>4, <1>5, <1>10, <1>17 DEF Holding
<1>19. Concludes(e, writes, E, pending, journal, writes) /\ NoneSuperseded(e.journal, E)
  <2>1. Chosen(c, D, E, q, pending, journal, writes)
    BY <1>3, <1>5, <1>11, <1>14, <1>15, <1>16 DEF Chosen
  <2> QED
    BY <1>1, <1>17, <2>1, UnsentConcludes
<1>20. /\ Consistent(pending', journal', writes') /\ fault' = FALSE
       /\ writes' = writes /\ SupersedeStep
  BY <1>18, <1>19, ConcludingStep
<1> QED
  BY <1>20, SameWrites DEF StepIsSound

\* A step that leaves the coordinator alone.
LEMMA AuthorityOnlyStep ==
    ASSUME IInv, UNCHANGED <<pending, journal, fault, writes>>
    PROVE  StepIsSound
<1>1. Consistent(pending, journal, writes) /\ pending \in Seq(Queued) /\ fault = FALSE
  BY DEF IInv, Consistent, Matched
<1>2. Consistent(pending', journal', writes') /\ fault' = FALSE
  BY <1>1
<1>3. ASSUME NEW i \in DOMAIN pending
      PROVE  journal.retained[pending[i].request.transaction].state # "superseded"
  <2>1. i \in 1 .. Len(pending)
    BY <1>1
  <2>2. /\ journal.retained[Tx(pending[i])] = AsQueued(pending[i].request)
        /\ pending[i].request \in Requests
    BY <1>1, <2>1, QueuedUnwritten
  <2>3. AsQueued(pending[i].request).state = "queued"
    BY <2>2, RequestFacts
  <2> QED
    BY <2>2, <2>3 DEF Tx
<1>4. SupersedeStep
  BY <1>3 DEF SupersedeStep
<1> QED
  BY <1>2, <1>4, SameWrites DEF StepIsSound

LEMMA AuthorityKept ==
    ASSUME IInv, [Next]_vars
    PROVE  Authority'
<1> USE DEF Authority
<1>1. Authority
  BY DEF IInv
<1>2. ASSUME UNCHANGED authority PROVE Authority'
  BY <1>1, <1>2 DEF authority
<1>3. ASSUME NEW s \in Sessions, NEW r \in Requests, Submit(s, r) PROVE Authority'
  BY <1>2, <1>3 DEF Submit
<1>4. ASSUME DispatchNext PROVE Authority'
  BY <1>2, <1>4 DEF DispatchNext, DispatchSent, DispatchRefused
<1>5. ASSUME DispatchTransaction PROVE Authority'
  BY <1>2, <1>5 DEF DispatchTransaction, DispatchSent, DispatchRefused
<1>6. ASSUME CancelTransaction PROVE Authority'
  BY <1>2, <1>6 DEF CancelTransaction
<1>7. ASSUME NEW s \in Sessions, Disconnect(s) PROVE Authority'
  BY <1>1, <1>7 DEF Disconnect, End
<1>8. ASSUME ReceiverLost PROVE Authority'
  BY <1>1, <1>8 DEF ReceiverLost
<1>9. ASSUME ReceiverReplaced PROVE Authority'
  BY <1>1, <1>9, CoordinatorConstants DEF ReceiverReplaced
<1>10. ASSUME NEW g \in 1 .. MaxGeneration, RetireGeneration(g) PROVE Authority'
  BY <1>1, <1>10 DEF RetireGeneration, End
<1>11. ASSUME NEW l \in Leases, LeaseGranted(l) \/ LeaseEnded(l) PROVE Authority'
  BY <1>1, <1>11 DEF LeaseGranted, LeaseEnded, End
<1>12. ASSUME Advance PROVE Authority'
  BY <1>1, <1>12, CoordinatorConstants DEF Advance
<1>13. ASSUME UNCHANGED vars PROVE Authority'
  BY <1>1, <1>13 DEF vars
<1> QED
  BY <1>3, <1>4, <1>5, <1>6, <1>7, <1>8, <1>9, <1>10, <1>11, <1>12, <1>13 DEF Next

LEMMA NextStep ==
    ASSUME IInv, [Next]_vars
    PROVE  IInv' /\ WriteStep /\ SupersedeStep
<1>1. ASSUME NEW s \in Sessions, NEW r \in Requests, Submit(s, r) PROVE StepIsSound
  BY <1>1, SubmitStep
<1>2. ASSUME NEW s \in Sessions, Disconnect(s) PROVE StepIsSound
  <2>1. PICK K : Revoke(K)
    BY <1>2 DEF Disconnect
  <2> QED
    BY <2>1, RevokeStep
<1>3. ASSUME NEW g \in 1 .. MaxGeneration, RetireGeneration(g) PROVE StepIsSound
  <2>1. PICK K : Revoke(K)
    BY <1>3 DEF RetireGeneration
  <2> QED
    BY <2>1, RevokeStep
<1>4. ASSUME ReceiverLost PROVE StepIsSound
  BY <1>4, AuthorityOnlyStep DEF ReceiverLost
<1>5. ASSUME ReceiverReplaced PROVE StepIsSound
  BY <1>5, AuthorityOnlyStep DEF ReceiverReplaced
<1>6. ASSUME NEW l \in Leases, LeaseGranted(l) \/ LeaseEnded(l) PROVE StepIsSound
  BY <1>6, AuthorityOnlyStep DEF LeaseGranted, LeaseEnded
<1>7. ASSUME Advance PROVE StepIsSound
  BY <1>7, AuthorityOnlyStep DEF Advance
<1>8. ASSUME UNCHANGED vars PROVE StepIsSound
  BY <1>8, AuthorityOnlyStep DEF vars
<1>9. StepIsSound
  BY <1>1, <1>2, <1>3, <1>4, <1>5, <1>6, <1>7, <1>8, DispatchNextStep, DispatchTransactionStep,
     CancelStep DEF Next
<1>10. Consistent(pending', journal', writes') /\ fault' = FALSE /\ WriteStep /\ SupersedeStep
  BY <1>9 DEF StepIsSound
<1>11. IInv'
  BY <1>10, AuthorityKept DEF IInv
<1> QED
  BY <1>10, <1>11

---------------------------------------------------------------------------
(***************************************************************************)
(* The theorems.                                                           *)
(***************************************************************************)
\* Whatever is submitted, dispatched, cancelled or invalidated, the queue matches
\* the journal and the writes match the recorded outcomes
\* (impl TransactionCoordinator).
THEOREM CoordinatorInvariant == Spec => []IInv
<1>1. Init => IInv
  BY InitialConsistent
<1>2. IInv /\ [Next]_vars => IInv'
  BY NextStep
<1> QED
  BY <1>1, <1>2, PTL DEF Spec

\* The state keeps its type, and queue, journal and eviction memory keep within
\* the one capacity they share, whatever is submitted (BoundedTransactionQueue,
\* BoundedOutcomeJournal).
THEOREM TypeCorrect == Spec => []TypeOK
<1>1. IInv => TypeOK
  <2> SUFFICES ASSUME IInv PROVE TypeOK
    OBVIOUS
  <2>1. Sound(journal) /\ Matched(pending, journal) /\ Ledger(journal, writes)
    BY DEF IInv, Consistent
  <2>2. Len(pending) <= Capacity
    BY <2>1, QueueBounded
  <2>3. Cardinality(Retained(journal)) <= Capacity
    BY <2>1, Counted DEF Sound
  <2>4. pending \in Seq(Queued) /\ journal \in Journals /\ Len(journal.evicted) <= Capacity
    BY <2>1 DEF Sound, Matched
  <2>5. writes \in [TransactionIds -> Nat]
    <3>1. writes \in [TransactionIds -> 0 .. 1] /\ 0 .. 1 \subseteq Nat
      BY <2>1 DEF Ledger
    <3> QED
      BY <3>1
  <2>6. fault \in BOOLEAN
    BY DEF IInv
  <2> QED
    BY <2>2, <2>3, <2>4, <2>5, <2>6 DEF TypeOK, IInv, Authority
<1> QED
  BY <1>1, CoordinatorInvariant, PTL

\* No operation meets an internal error: every queued transaction has a retained
\* outcome, the journal has room for what the queue admits and no outcome regresses
\* (finish, BoundedOutcomeJournal::record).
THEOREM NoInternalErrorHolds == Spec => []NoInternalError
<1>1. IInv => NoInternalError
  BY DEF IInv, NoInternalError
<1> QED
  BY <1>1, CoordinatorInvariant, PTL

\* The transactions the journal holds unfinished are exactly the queued ones, in
\* the order of admission: both list the same elements of the journal's order.
THEOREM QueueMatchesJournalHolds == Spec => []QueueMatchesJournal
<1>1. IInv => QueueMatchesJournal
  <2> SUFFICES ASSUME IInv PROVE QueueMatchesJournal
    OBVIOUS
  <2>1. Consistent(pending, journal, writes) /\ Sound(journal) /\ Matched(pending, journal)
    BY DEF IInv, Consistent
  <2>2. pending \in Seq(Queued) /\ journal.order \in Seq(TransactionIds)
    BY <2>1 DEF Matched, Sound, Journals
  <2>3. PICK o \in Seq(TransactionIds) : o = journal.order
    BY <2>2
  <2>4. PICK done : done = {t \in Retained(journal) : IsTerminal(journal.retained[t])}
    OBVIOUS
  <2>5. PICK u : u = Without(o, done)
    OBVIOUS
  <2>6. u \in Seq(TransactionIds) /\ Filters(u, o, Len(o), done)
    BY <2>5, WithoutProperties
  <2>7. PICK m \in Nat : m = Len(pending)
    BY <2>2
  <2>8. PICK v : v = [i \in DOMAIN pending |-> pending[i].request.transaction]
    OBVIOUS
  <2>9. \A i \in 1 .. m : /\ Tx(pending[i]) \in TransactionIds /\ Tx(pending[i]) \in Retained(journal)
                          /\ ~IsTerminal(journal.retained[Tx(pending[i])])
    <3> SUFFICES ASSUME NEW i \in 1 .. m
                 PROVE  /\ Tx(pending[i]) \in TransactionIds /\ Tx(pending[i]) \in Retained(journal)
                        /\ ~IsTerminal(journal.retained[Tx(pending[i])])
      OBVIOUS
    <3>1. /\ Tx(pending[i]) \in TransactionIds /\ Tx(pending[i]) \in Retained(journal)
          /\ journal.retained[Tx(pending[i])] = AsQueued(pending[i].request)
          /\ pending[i].request \in Requests
      BY <2>1, <2>7, QueuedUnwritten
    <3> QED
      BY <3>1, RequestFacts
  <2>10. v = [i \in 1 .. m |-> Tx(pending[i])]
    BY <2>2, <2>7, <2>8 DEF Tx
  <2>11. v \in Seq(TransactionIds) /\ Len(v) = m /\ \A i \in 1 .. m : v[i] = Tx(pending[i])
    BY <2>9, <2>10
  <2>12. Injective(o)
    BY <2>1, <2>3 DEF Sound, Injective
  <2>13. Lists(u, o)
    <3>1. \A i \in 1 .. Len(u) : \E x \in 1 .. Len(o) : u[i] = o[x]
      BY <2>6 DEF Filters
    <3>2. ASSUME NEW i \in 1 .. Len(u), NEW k \in 1 .. Len(u), i < k,
                 NEW x \in 1 .. Len(o), NEW y \in 1 .. Len(o), o[x] = u[i], o[y] = u[k]
          PROVE  x < y
      <4>1. PICK p \in 1 .. Len(o), q \in 1 .. Len(o) : p < q /\ u[i] = o[p] /\ u[k] = o[q]
        BY <2>6, <3>2 DEF Filters
      <4>2. x = p /\ y = q
        BY <2>12, <3>2, <4>1 DEF Injective
      <4> QED
        BY <4>1, <4>2
    <3> QED
      BY <3>1, <3>2 DEF Lists
  <2>14. Lists(v, o)
    <3>1. \A i \in 1 .. m : \E x \in 1 .. Len(o) : v[i] = o[x]
      <4> SUFFICES ASSUME NEW i \in 1 .. m PROVE \E x \in 1 .. Len(o) : v[i] = o[x]
        OBVIOUS
      <4>1. PICK x \in 1 .. Len(o) : o[x] = Tx(pending[i])
        BY <2>1, <2>3, <2>9 DEF Sound
      <4> QED
        BY <2>11, <4>1
    <3>2. ASSUME NEW i \in 1 .. m, NEW k \in 1 .. m, i < k,
                 NEW x \in 1 .. Len(o), NEW y \in 1 .. Len(o), o[x] = v[i], o[y] = v[k]
          PROVE  x < y
      <4>1. Before(journal, Tx(pending[i]), Tx(pending[k]))
        BY <2>1, <2>7, <3>2 DEF Matched
      <4>2. o[x] = Tx(pending[i]) /\ o[y] = Tx(pending[k])
        BY <2>11, <3>2
      <4> QED
        BY <2>3, <4>1, <4>2 DEF Before
    <3>3. 1 .. Len(v) = 1 .. m
      BY <2>11
    <3> QED
      BY <3>1, <3>2, <3>3 DEF Lists
  <2>15. Within(u, Len(u), v, Len(v))
    <3> SUFFICES ASSUME NEW i \in 1 .. Len(u) PROVE \E k \in 1 .. Len(v) : u[i] = v[k]
      BY DEF Within
    <3>1. PICK x \in 1 .. Len(o) : u[i] = o[x]
      BY <2>6 DEF Filters
    <3>2. u[i] \in Retained(journal)
      BY <2>1, <2>3, <3>1 DEF Sound
    <3>3. u[i] \notin done
      BY <2>6 DEF Filters
    <3>4. ~IsTerminal(journal.retained[u[i]])
      BY <2>4, <3>2, <3>3
    <3>5. PICK k \in 1 .. Len(pending) : Tx(pending[k]) = u[i]
      BY <2>1, <3>2, <3>4 DEF Matched
    <3>6. k \in 1 .. Len(v) /\ u[i] = v[k]
      BY <2>7, <2>11, <3>5
    <3> QED
      BY <3>6
  <2>16. Within(v, Len(v), u, Len(u))
    <3> SUFFICES ASSUME NEW k \in 1 .. Len(v) PROVE \E i \in 1 .. Len(u) : v[k] = u[i]
      BY DEF Within
    <3>1. k \in 1 .. m /\ v[k] = Tx(pending[k])
      BY <2>11
    <3>2. v[k] \in Retained(journal) /\ v[k] \notin done
      BY <2>4, <2>9, <3>1
    <3>3. PICK x \in 1 .. Len(o) : o[x] = v[k]
      BY <2>1, <2>3, <3>2 DEF Sound
    <3>4. o[x] \notin done
      BY <3>2, <3>3
    <3>5. PICK i \in 1 .. Len(u) : u[i] = o[x]
      BY <2>6, <3>4 DEF Filters
    <3> QED
      BY <3>3, <3>5
  <2>17. u = v
    BY <2>6, <2>11, <2>12, <2>13, <2>14, <2>15, <2>16, SameListing
  <2> QED
    BY <2>3, <2>4, <2>5, <2>8, <2>17 DEF QueueMatchesJournal
<1> QED
  BY <1>1, CoordinatorInvariant, PTL

\* A transaction the journal knows, retained or evicted, has reached the receiver at
\* most once, however often it is submitted (submit, dispatch_decision).
THEOREM AtMostOnceHolds == Spec => []AtMostOnce
<1>1. IInv => AtMostOnce
  BY DEF IInv, Consistent, Ledger, AtMostOnce
<1> QED
  BY <1>1, CoordinatorInvariant, PTL

\* What an outcome tells the client is true of the receiver: a success was written,
\* and a retry is offered only for what was not (classify_receipt,
\* classify_failure, normalize_facts).
THEOREM OutcomesAreTruthfulHolds == Spec => []OutcomesAreTruthful
<1>1. IInv => OutcomesAreTruthful
  BY DEF IInv, Consistent, Ledger, OutcomesAreTruthful, Truthful
<1> QED
  BY <1>1, CoordinatorInvariant, PTL

\* A write reaches the receiver only under the authority it was submitted with: the
\* preflight repeats every check at the moment of dispatch.
THEOREM WritesAreAuthorisedHolds == Spec => WritesAreAuthorised
<1>1. IInv /\ [Next]_vars => [WriteStep]_vars
  BY NextStep
<1> QED
  BY <1>1, CoordinatorInvariant, PTL DEF Spec, WritesAreAuthorised, WriteStep

\* A frame is superseded only by a new frame of the same authority and resources
\* (coalescing in BoundedTransactionQueue::admit).
THEOREM SupersededIsObsoleteHolds == Spec => SupersededIsObsolete
<1>1. IInv /\ [Next]_vars => [SupersedeStep]_vars
  BY NextStep
<1> QED
  BY <1>1, CoordinatorInvariant, PTL DEF Spec, SupersededIsObsolete, SupersedeStep
=============================================================================
