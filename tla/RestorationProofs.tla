-------------------------- MODULE RestorationProofs --------------------------
(***************************************************************************)
(* Proofs about Restoration, for every capacity of the kernel journal and  *)
(* every number of processes, generations, claims, user writes, nonces and *)
(* submissions.                                                            *)
(***************************************************************************)
EXTENDS Restoration, SequenceTheorems, TLAPS

-----------------------------------------------------------------------------
(* The inductive invariant, on values: d and f are documents, k a kernel   *)
(* object, p a process, ws the writes so far.                              *)

Docs == [entry : Entry, claims : Seq(Record)]

\* A state file the engine can read back.
DocOK(d) == d \in Docs /\ Len(d.claims) <= MaxClaims

\* The kernel has forgotten every write of claim c in the present generation.
Clear(c, k, ws) ==
    \A w \in ws : (w.claim = c /\ w.gen = k.gen) => Forgotten(w, k.seq)

SomeSucceeded(c, g, ws) ==
    \E w \in ws : w.claim = c /\ w.gen = g /\ w.outcome = "succeeded"

Unsent == {"planned", "deferred"}

Truthful(d, k, ws) ==
    \A c \in DOMAIN d.claims :
        /\ d.claims[c].status = "succeeded" => SomeSucceeded(c, d.claims[c].gen, ws)
        /\ d.claims[c].status \in Unsent /\ d.claims[c].gen = k.gen => Clear(c, k, ws)

\* A claim was made for an intent; the intent, unless it is a tombstone, is what
\* the user wrote last.
Intent(d, latest) ==
    /\ \A c \in DOMAIN d.claims :
        /\ d.claims[c].rev <= d.entry.rev
        /\ d.claims[c].rev = d.entry.rev /\ d.entry.write # 0
               => d.claims[c].write = d.entry.write
    /\ d.entry.write # 0 => d.entry.write = latest

KernelFields == {"gen", "plugged", "high", "seq", "results", "tombs"}
JournalEntry == [nonce : 0 .. MaxNonce, tx : Nat \X Nat \X Nat, status : Outcomes]

\* The kernel object: its fields, and a journal within its capacities.
KernelOK(k) ==
    /\ DOMAIN k = KernelFields
    /\ k.gen \in 1 .. MaxGenerations /\ k.high \in 0 .. MaxNonce /\ k.seq \in Nat
    /\ k.results \in Seq(JournalEntry) /\ k.tombs \in Seq(JournalEntry)
    /\ Len(k.results) <= ResultCapacity /\ Len(k.tombs) <= TombstoneCapacity
    /\ ~k.plugged => k.gen < MaxGenerations

\* The writes so far: of no later generation, process or sequence number.
HistoryOK(ws, k, run) ==
    /\ \A w \in ws :
        /\ w.gen \in Nat /\ w.seq \in Nat /\ w.run \in Nat /\ w.outcome \in Begun /\ w.latest
        /\ w.gen <= k.gen /\ w.run <= run
        /\ w.gen = k.gen => w.seq <= k.seq

\* A write of the present generation was of a claim the file still has.
Placed(f, k, ws) ==
    \A w \in ws : w.gen = k.gen =>
        /\ w.claim \in DOMAIN f.claims
        /\ f.claims[w.claim].gen = w.gen /\ f.claims[w.claim].rev = w.rev

RequestOf(f, c) ==
    [nonce |-> f.claims[c].nonce, tx |-> <<f.claims[c].gen, c, f.claims[c].attempt>>]

\* Request q is where sequence number s must be, counted from the journal's end.
Logged(k, q, s) ==
    \/ \E i \in DOMAIN k.results :
        SameRequest(k.results[i], q) /\ k.seq - s = Len(k.results) - i
    \/ \E i \in DOMAIN k.tombs :
        SameRequest(k.tombs[i], q) /\ k.seq - s = Len(k.results) + Len(k.tombs) - i

Answers(k, q, outcome) ==
    \A i \in DOMAIN k.results : SameRequest(k.results[i], q) => k.results[i].status = outcome

\* The transport can tell what became of an attempt that is still open.
Resolvable(f, k, ws) ==
    \A w \in ws :
        (w.gen = k.gen /\ f.claims[w.claim].status \in Active /\ k.plugged
            /\ ~Forgotten(w, k.seq))
            => Logged(k, RequestOf(f, w.claim), w.seq)
               /\ Answers(k, RequestOf(f, w.claim), w.outcome)

\* A write that stopped half way is still open or failed.
Stopped(f, k, ws) ==
    \A w \in ws :
        (w.gen = k.gen /\ w.outcome = "partial" /\ ~Forgotten(w, k.seq))
            => f.claims[w.claim].status \in Active \cup {"failed"}

Entered(k, e) ==
    (\E i \in DOMAIN k.results : k.results[i] = e) \/ (\E i \in DOMAIN k.tombs : k.tombs[i] = e)

\* The journal holds attempts of the file's claims.
Attempted(f, k) ==
    \A e : Entered(k, e) /\ e.tx # Other =>
        /\ e.tx[2] \in DOMAIN f.claims
        /\ e.tx[3] \in Nat /\ e.tx[3] <= f.claims[e.tx[2]].attempt

WasWritten(r, ws) == \E w \in ws : w.gen = r.tx[1] /\ w.claim = r.tx[2] /\ w.outcome = r.status

\* A result that says a claim's write began tells of a write.
Reported(k, ws) ==
    \A i \in DOMAIN k.results :
        k.results[i].status \in Begun /\ k.results[i].tx # Other => WasWritten(k.results[i], ws)

FileOK(f, k, ws) ==
    /\ Placed(f, k, ws) /\ Resolvable(f, k, ws) /\ Stopped(f, k, ws)
    /\ Attempted(f, k) /\ Reported(k, ws)

-----------------------------------------------------------------------------
\* The process: its memory.
ProcFields == {"up", "run", "nonce", "started", "configured", "prefer", "at", "trigger",
               "sched", "user", "pc", "cur"}

ProcShape(p) ==
    /\ DOMAIN p = ProcFields /\ DOMAIN p.at = {"gen", "max", "ready"}
    /\ p.run \in Nat /\ p.nonce \in 0 .. MaxNonce
    /\ p.at.gen \in 0 .. MaxGenerations /\ p.at.max \in 0 .. p.nonce
    /\ p.user.nonce \in 0 .. p.nonce /\ p.user.id \in 0 .. MaxUserWrites
    /\ DOMAIN p.sched = Claims
    /\ p.pc # "idle" => p.up

\* A claim on the schedule is open; while a plan supersedes claims it may not be.
Scheduled(p, f) ==
    \A c \in Claims : p.sched[c] # "none" =>
        /\ c \in DOMAIN f.claims
        /\ p.pc # "plan" => f.claims[c].status \notin Terminal

Mid == {"prepared", "queued", "applying"}

NotBarred(f, c) ==
    \A other \in DOMAIN f.claims \ {c} :
        f.claims[other].rev = f.claims[c].rev
            => f.claims[other].status \notin Active \cup {"failed"}

\* An attempt between its record and its submission.
InFlight(p, f, k, ws) ==
    /\ p.cur \in DOMAIN f.claims
    /\ f.claims[p.cur].status \in Active
    /\ f.entry.write # 0 /\ f.entry.rev = f.claims[p.cur].rev
    /\ f.claims[p.cur].gen = p.at.gen
    /\ f.claims[p.cur].nonce <= p.nonce
    /\ NotBarred(f, p.cur)
    /\ Clear(p.cur, k, ws)
    /\ \A w \in ws : (w.claim = p.cur /\ w.gen = k.gen) => w.run < p.run
    /\ \A e : Entered(k, e) /\ e.tx # Other /\ e.tx[2] = p.cur
                  => e.tx[3] < f.claims[p.cur].attempt

Progress(p, f, s, k, h) ==
    /\ p.pc = "plan" => p.at.gen # 0 /\ Len(f.claims) < MaxClaims
    /\ p.pc \in Mid => InFlight(p, f, k, h.writes)
    /\ p.pc = "submitted" =>
         p.cur \in DOMAIN f.claims /\ f.claims[p.cur].status \in Active
    /\ p.pc \in {"applying", "user"} => s = f
    /\ p.pc = "user" => f.entry.write = 0
    /\ p.pc = "capture" => p.user.id = h.latest

\* A write of this process is of a claim that is closed, or about to be.
OwnWrites(p, f, k, ws) ==
    p.up => \A w \in ws : (w.run = p.run /\ w.gen = k.gen) =>
        \/ f.claims[w.claim].status \in Terminal
        \/ p.pc = "submitted" /\ w.claim = p.cur /\ w.seq = k.seq

ProcOK(p, f, s, k, h) ==
    /\ ProcShape(p) /\ Scheduled(p, f) /\ Progress(p, f, s, k, h)
    /\ OwnWrites(p, f, k, h.writes)

\* A document that agrees with the history of the device, as what a power loss
\* leaves must, and one that agrees with the journal too, as the file must.
Readable(d, k, h) == DocOK(d) /\ Truthful(d, k, h.writes) /\ Intent(d, h.latest)
Good(d, k, h) == Readable(d, k, h) /\ FileOK(d, k, h.writes)

UsersOK(h) ==
    h.users \in 0 .. MaxUserWrites /\ h.latest \in 0 .. MaxUserWrites
    /\ DOMAIN h = {"writes", "users", "latest"}

\* The two statements about pairs of writes.
Rewritten(ws) ==
    \A v, w \in ws : (v.gen = w.gen /\ v.claim = w.claim /\ v.seq < w.seq)
        => v.run < w.run /\ Forgotten(v, w.seq - 1)

Repeated(ws) ==
    \A v, w \in ws : (v.rev = w.rev /\ v.gen = w.gen /\ v.seq < w.seq /\ v.outcome = "partial")
        => Forgotten(v, w.seq - 1)

IInv ==
    /\ KernelOK(kernel) /\ UsersOK(hist)
    /\ HistoryOK(hist.writes, kernel, proc.run)
    /\ Rewritten(hist.writes) /\ Repeated(hist.writes)
    /\ Good(disk.file, kernel, hist) /\ Readable(disk.synced, kernel, hist)
    /\ ProcOK(proc, disk.file, disk.synced, kernel, hist)

-----------------------------------------------------------------------------
(* The journal.                                                            *)

\* The journal after one more entry r: a results and b tombstones left it.
Shifted(k2, k, r, a, b) ==
    /\ Len(k2.results) = Len(k.results) + 1 - a
    /\ \A i \in 1 .. Len(k.results) - a : k2.results[i] = k.results[i + a]
    /\ k2.results[Len(k.results) + 1 - a] = r
    /\ Len(k2.tombs) = Len(k.tombs) + a - b
    /\ \A i \in 1 .. Len(k.tombs) - b : k2.tombs[i] = k.tombs[i + b]
    /\ a = 1 /\ Len(k.tombs) + 1 - b >= 1 => k2.tombs[Len(k.tombs) + 1 - b] = k.results[1]
    /\ a = IF Len(k.results) = ResultCapacity THEN 1 ELSE 0
    /\ b = IF a = 1 /\ Len(k.tombs) = TombstoneCapacity THEN 1 ELSE 0

\* hfx_submit_reserve on a journal that is not full: nothing leaves it.
LEMMA ReserveBelowCapacity ==
    ASSUME NEW k, KernelOK(k), NEW r \in JournalEntry, NEW k2, k2 = Reserve(k, r),
           Len(k.results) # ResultCapacity
    PROVE  /\ k2.results \in Seq(JournalEntry) /\ k2.tombs \in Seq(JournalEntry)
           /\ Shifted(k2, k, r, 0, 0)
<1>1. /\ k.results \in Seq(JournalEntry) /\ k.tombs \in Seq(JournalEntry)
      /\ Len(k.tombs) <= TombstoneCapacity
  BY DEF KernelOK
<1>2. k2.results = Append(k.results, r)
  BY DEF Reserve, KernelOK, KernelFields
<1>3. k2.tombs = k.tombs
  <2>1. k2.tombs = IF Len(k.tombs) > TombstoneCapacity THEN Tail(k.tombs) ELSE k.tombs
    BY DEF Reserve, KernelOK, KernelFields
  <2>2. PICK m \in Nat : m = Len(k.tombs)
    BY <1>1, LenProperties
  <2>3. QED
    BY <1>1, <2>1, <2>2, BoundsAssumption
<1>4. PICK n \in Nat : n = Len(k.results)
  BY <1>1, LenProperties
<1>5. PICK m \in Nat : m = Len(k.tombs)
  BY <1>1, LenProperties
<1>6. /\ k2.results \in Seq(JournalEntry) /\ Len(k2.results) = n + 1
      /\ \A i \in 1 .. n : k2.results[i] = k.results[i]
      /\ k2.results[n + 1] = r
  BY <1>1, <1>2, <1>4, AppendProperties
<1>7. QED
  BY <1>1, <1>3, <1>4, <1>5, <1>6 DEF Shifted

\* hfx_submit_reserve on a full journal: the oldest result becomes a tombstone.
LEMMA ReserveAtCapacity ==
    ASSUME NEW k, KernelOK(k), NEW r \in JournalEntry, NEW k2, k2 = Reserve(k, r),
           Len(k.results) = ResultCapacity
    PROVE  /\ k2.results \in Seq(JournalEntry) /\ k2.tombs \in Seq(JournalEntry)
           /\ \E b \in {0, 1} : Shifted(k2, k, r, 1, b)
<1>1. /\ k.results \in Seq(JournalEntry) /\ k.tombs \in Seq(JournalEntry)
      /\ Len(k.tombs) <= TombstoneCapacity
  BY DEF KernelOK
<1>2. PICK n \in Nat : n = Len(k.results)
  BY <1>1, LenProperties
<1>3. PICK m \in Nat : m = Len(k.tombs)
  BY <1>1, LenProperties
<1>4. n = ResultCapacity /\ n >= 1 /\ m <= TombstoneCapacity /\ TombstoneCapacity \in Nat
  BY <1>1, <1>2, <1>3, BoundsAssumption
<1>5. k.results # <<>>
  BY <1>1, <1>2, <1>4, EmptySeq
<1>6. PICK x : x = Head(k.results)
  OBVIOUS
<1>7. x \in JournalEntry /\ x = k.results[1]
  BY <1>1, <1>5, <1>6, HeadTailProperties
<1>8. PICK y : y = Tail(k.results)
  OBVIOUS
<1>9. y \in Seq(JournalEntry) /\ Len(y) = n - 1 /\ \A i \in 1 .. n - 1 : y[i] = k.results[i + 1]
  BY <1>1, <1>2, <1>5, <1>8, HeadTailProperties
<1>10. PICK t : t = Append(k.tombs, x)
  OBVIOUS
<1>11. /\ t \in Seq(JournalEntry) /\ t # <<>> /\ Len(t) = m + 1
       /\ \A i \in 1 .. m : t[i] = k.tombs[i]
       /\ t[m + 1] = x
  BY <1>1, <1>3, <1>7, <1>10, AppendProperties
<1>12. k2.results = Append(y, r)
  BY <1>8 DEF Reserve, KernelOK, KernelFields
<1>13. k2.tombs = IF Len(t) > TombstoneCapacity THEN Tail(t) ELSE t
  BY <1>6, <1>10 DEF Reserve, KernelOK, KernelFields
<1>14. /\ k2.results \in Seq(JournalEntry) /\ Len(k2.results) = n
       /\ \A i \in 1 .. n - 1 : k2.results[i] = k.results[i + 1]
       /\ k2.results[n] = r
  <2>1. PICK z : z = Append(y, r)
    OBVIOUS
  <2>2. PICK l \in Nat : l = Len(y)
    BY <1>9, LenProperties
  <2>3. /\ z \in Seq(JournalEntry) /\ Len(z) = l + 1 /\ \A i \in 1 .. l : z[i] = y[i]
        /\ z[l + 1] = r
    BY <1>9, <2>1, <2>2, AppendProperties
  <2>4. QED
    BY <1>4, <1>9, <1>12, <2>1, <2>2, <2>3
<1>15. CASE m = TombstoneCapacity
  <2>1. k2.tombs = Tail(t)
    BY <1>4, <1>11, <1>13, <1>15
  <2>2. /\ k2.tombs \in Seq(JournalEntry) /\ Len(k2.tombs) = m
        /\ \A i \in 1 .. m : k2.tombs[i] = t[i + 1]
    BY <1>11, <2>1, HeadTailProperties
  <2>3. Shifted(k2, k, r, 1, 1)
    <3>1. \A i \in 1 .. m - 1 : k2.tombs[i] = k.tombs[i + 1]
      BY <1>11, <2>2
    <3>2. m >= 1 => k2.tombs[m] = k.results[1]
      BY <1>7, <1>11, <2>2
    <3>3. QED
      BY <1>2, <1>3, <1>4, <1>14, <1>15, <2>2, <3>1, <3>2 DEF Shifted
  <2>4. QED
    BY <1>14, <2>2, <2>3
<1>16. CASE m # TombstoneCapacity
  <2>1. k2.tombs = t
    BY <1>4, <1>11, <1>13, <1>16
  <2>2. Shifted(k2, k, r, 1, 0)
    BY <1>2, <1>3, <1>4, <1>7, <1>11, <1>14, <1>16, <2>1 DEF Shifted
  <2>3. QED
    BY <1>11, <1>14, <2>1, <2>2
<1>17. QED
  BY <1>15, <1>16

\* What a submission does to the kernel object.
Submitted(k2, k, r) ==
    /\ k2.gen = k.gen /\ k2.plugged = k.plugged /\ k2.seq = k.seq + 1
    /\ \E a \in {0, 1}, b \in {0, 1} : Shifted(k2, k, r, a, b)

\* A reservation keeps the kernel object within its types and capacities.
LEMMA ReserveIsSound ==
    ASSUME NEW k, KernelOK(k), NEW r \in JournalEntry, NEW k2, k2 = Reserve(k, r)
    PROVE  KernelOK(k2) /\ Submitted(k2, k, r)
<1>1. /\ k2.results \in Seq(JournalEntry) /\ k2.tombs \in Seq(JournalEntry)
      /\ \E a \in {0, 1}, b \in {0, 1} : Shifted(k2, k, r, a, b)
  BY ReserveBelowCapacity, ReserveAtCapacity
<1>2. PICK a \in {0, 1}, b \in {0, 1} : Shifted(k2, k, r, a, b)
  BY <1>1
<1>3. /\ k2.gen = k.gen /\ k2.plugged = k.plugged /\ k2.seq = k.seq + 1
      /\ k2.high = (IF r.status \in {"partial", "revoked"} THEN 0 ELSE r.nonce)
      /\ DOMAIN k2 = KernelFields
  BY DEF Reserve, KernelOK, KernelFields
<1>4. k2.high \in 0 .. MaxNonce
  <2>1. r.nonce \in 0 .. MaxNonce /\ MaxNonce \in Nat
    BY BoundsAssumption DEF JournalEntry
  <2>2. QED
    BY <1>3, <2>1
<1>5. PICK n \in Nat : n = Len(k.results)
  BY LenProperties DEF KernelOK
<1>6. PICK m \in Nat : m = Len(k.tombs)
  BY LenProperties DEF KernelOK
<1>7. Len(k2.results) <= ResultCapacity /\ Len(k2.tombs) <= TombstoneCapacity
  <2>1. /\ Len(k2.results) = n + 1 - a /\ Len(k2.tombs) = m + a - b
        /\ a = IF n = ResultCapacity THEN 1 ELSE 0
        /\ b = IF a = 1 /\ m = TombstoneCapacity THEN 1 ELSE 0
    BY <1>2, <1>5, <1>6 DEF Shifted
  <2>2. n <= ResultCapacity /\ m <= TombstoneCapacity
    BY <1>5, <1>6 DEF KernelOK
  <2>3. ResultCapacity \in Nat /\ TombstoneCapacity \in Nat
    BY BoundsAssumption
  <2>4. QED
    BY <2>1, <2>2, <2>3
<1>8. QED
  BY <1>1, <1>3, <1>4, <1>7 DEF KernelOK, Submitted

\* Every entry of the journal was there before or is the new one.
LEMMA EntriesAfter ==
    ASSUME NEW k, KernelOK(k), NEW k2, KernelOK(k2), NEW r, Submitted(k2, k, r)
    PROVE  /\ \A i \in DOMAIN k2.results :
                k2.results[i] = r \/ \E j \in DOMAIN k.results : k2.results[i] = k.results[j]
           /\ \A i \in DOMAIN k2.tombs : Entered(k, k2.tombs[i])
           /\ Len(k2.results) \in DOMAIN k2.results /\ k2.results[Len(k2.results)] = r
<1>1. PICK a \in {0, 1}, b \in {0, 1} : Shifted(k2, k, r, a, b)
  BY DEF Submitted
<1>2. PICK n \in Nat : n = Len(k.results)
  BY LenProperties DEF KernelOK
<1>3. PICK m \in Nat : m = Len(k.tombs)
  BY LenProperties DEF KernelOK
<1>4. DOMAIN k.results = 1 .. n /\ DOMAIN k.tombs = 1 .. m
  BY <1>2, <1>3, LenProperties DEF KernelOK
<1>5. /\ Len(k2.results) = n + 1 - a /\ Len(k2.tombs) = m + a - b
      /\ \A i \in 1 .. n - a : k2.results[i] = k.results[i + a]
      /\ k2.results[n + 1 - a] = r
      /\ \A i \in 1 .. m - b : k2.tombs[i] = k.tombs[i + b]
      /\ a = 1 /\ m + 1 - b >= 1 => k2.tombs[m + 1 - b] = k.results[1]
      /\ a = IF n = ResultCapacity THEN 1 ELSE 0
      /\ b = IF a = 1 /\ m = TombstoneCapacity THEN 1 ELSE 0
  BY <1>1, <1>2, <1>3 DEF Shifted
<1>6. n + 1 - a \in Nat /\ n + 1 - a >= 1 /\ (a = 1 => n >= 1)
  BY <1>2, <1>5, BoundsAssumption
<1>7. DOMAIN k2.results = 1 .. n + 1 - a /\ DOMAIN k2.tombs = 1 .. m + a - b
  BY <1>5, LenProperties DEF KernelOK
<1>8. ASSUME NEW i \in DOMAIN k2.results, k2.results[i] # r
      PROVE  \E j \in DOMAIN k.results : k2.results[i] = k.results[j]
  <2>1. i \in 1 .. n - a /\ i + a \in 1 .. n
    BY <1>5, <1>6, <1>7, <1>8
  <2>2. QED
    BY <1>4, <1>5, <2>1
<1>9. ASSUME NEW i \in DOMAIN k2.tombs
      PROVE  Entered(k, k2.tombs[i])
  <2>1. CASE i \in 1 .. m - b
    <3>1. k2.tombs[i] = k.tombs[i + b] /\ i + b \in 1 .. m
      BY <1>5, <2>1
    <3>2. QED
      BY <1>4, <3>1 DEF Entered
  <2>2. CASE i \notin 1 .. m - b
    <3>1. a = 1 /\ i = m + 1 - b /\ m + 1 - b >= 1
      BY <1>5, <1>7, <2>2
    <3>2. k2.tombs[i] = k.results[1] /\ 1 \in 1 .. n
      BY <1>5, <1>6, <3>1
    <3>3. QED
      BY <1>4, <3>2 DEF Entered
  <2>3. QED
    BY <2>1, <2>2
<1>10. Len(k2.results) \in DOMAIN k2.results /\ k2.results[Len(k2.results)] = r
  BY <1>5, <1>6, <1>7
<1>11. QED
  BY <1>8, <1>9, <1>10

\* A request the journal holds stays there until as many submissions came after
\* it as results and tombstones together can hold.
LEMMA LoggedUntilForgotten ==
    ASSUME NEW k, KernelOK(k), NEW k2, KernelOK(k2), NEW r, Submitted(k2, k, r),
           NEW q, NEW s \in Nat, Logged(k, q, s)
    PROVE  Logged(k2, q, s) \/ k2.seq - s >= ResultCapacity + TombstoneCapacity
<1>1. PICK a \in {0, 1}, b \in {0, 1} : Shifted(k2, k, r, a, b)
  BY DEF Submitted
<1>2. PICK n \in Nat : n = Len(k.results)
  BY LenProperties DEF KernelOK
<1>3. PICK m \in Nat : m = Len(k.tombs)
  BY LenProperties DEF KernelOK
<1>4. DOMAIN k.results = 1 .. n /\ DOMAIN k.tombs = 1 .. m
  BY <1>2, <1>3, LenProperties DEF KernelOK
<1>5. \A i \in 1 .. n - a : k2.results[i] = k.results[i + a]
  BY <1>1, <1>2, <1>3 DEF Shifted
<1>6. \A i \in 1 .. m - b : k2.tombs[i] = k.tombs[i + b]
  BY <1>1, <1>2, <1>3 DEF Shifted
<1>7. a = 1 /\ m + 1 - b >= 1 => k2.tombs[m + 1 - b] = k.results[1]
  BY <1>1, <1>2, <1>3 DEF Shifted
<1>8. PICK n2 \in Nat : n2 = Len(k2.results)
  BY LenProperties DEF KernelOK
<1>9. PICK m2 \in Nat : m2 = Len(k2.tombs)
  BY LenProperties DEF KernelOK
<1>10. /\ n2 = n + 1 - a /\ m2 = m + a - b
       /\ a = 0 \/ (a = 1 /\ n = ResultCapacity)
       /\ b = 0 \/ (b = 1 /\ a = 1 /\ m = TombstoneCapacity)
  <2>1. /\ Len(k2.results) = n + 1 - a /\ Len(k2.tombs) = m + a - b
        /\ a = IF n = ResultCapacity THEN 1 ELSE 0
        /\ b = IF a = 1 /\ m = TombstoneCapacity THEN 1 ELSE 0
    BY <1>1, <1>2, <1>3 DEF Shifted
  <2>2. n2 = n + 1 - a /\ m2 = m + a - b
    BY <2>1, <1>8, <1>9
  <2>3. a = 0 \/ (a = 1 /\ n = ResultCapacity)
    BY <2>1
  <2>4. b = 0 \/ (b = 1 /\ a = 1 /\ m = TombstoneCapacity)
    BY <2>1
  <2>5. QED
    BY <2>2, <2>3, <2>4
<1>11. DOMAIN k2.results = 1 .. n2 /\ DOMAIN k2.tombs = 1 .. m2
  BY <1>8, <1>9, LenProperties DEF KernelOK
<1>12. k2.seq = k.seq + 1 /\ k.seq \in Nat
  BY DEF Submitted, KernelOK
<1>13. ResultCapacity \in Nat /\ TombstoneCapacity \in Nat /\ ResultCapacity >= 1
  BY BoundsAssumption
<1>14. ASSUME NEW i \in 1 .. n, SameRequest(k.results[i], q), k.seq - s = n - i
       PROVE  Logged(k2, q, s) \/ k2.seq - s >= ResultCapacity + TombstoneCapacity
  <2>1. CASE i > a
    <3>1. PICK j \in 1 .. n - a : j = i - a
      BY <1>10, <2>1
    <3>2. j \in DOMAIN k2.results /\ k2.results[j] = k.results[i]
      BY <1>10, <1>5, <1>11, <3>1
    <3>3. k2.seq - s = n2 - j
      BY <1>10, <1>12, <1>14, <3>1
    <3>4. QED
      BY <1>14, <3>2, <3>3, <1>8, <1>9 DEF Logged
  <2>2. CASE ~(i > a)
    <3>1. a = 1 /\ i = 1 /\ n = ResultCapacity
      BY <1>10, <2>2
    <3>2. CASE m + 1 - b >= 1
      <4>1. PICK j \in 1 .. m2 : j = m + 1 - b
        BY <1>10, <3>1, <3>2
      <4>2. j \in DOMAIN k2.tombs /\ k2.tombs[j] = k.results[i]
        <5>1. k2.tombs[m + 1 - b] = k.results[1]
          BY <1>7, <3>1, <3>2
        <5>2. QED
          BY <1>11, <3>1, <4>1, <5>1
      <4>3. k2.seq - s = n2 + m2 - j
        BY <1>10, <1>12, <1>14, <3>1, <4>1
      <4>4. QED
        BY <1>14, <4>2, <4>3, <1>8, <1>9 DEF Logged
    <3>3. CASE ~(m + 1 - b >= 1)
      BY <1>10, <1>12, <1>13, <1>14, <3>1, <3>3
    <3>4. QED
      BY <3>2, <3>3
  <2>3. QED
    BY <2>1, <2>2
<1>15. ASSUME NEW i \in 1 .. m, SameRequest(k.tombs[i], q), k.seq - s = n + m - i
       PROVE  Logged(k2, q, s) \/ k2.seq - s >= ResultCapacity + TombstoneCapacity
  <2>1. CASE i > b
    <3>1. PICK j \in 1 .. m - b : j = i - b
      BY <1>10, <2>1
    <3>2. j \in 1 .. m2 /\ j + b = i
      BY <1>10, <3>1
    <3>3. j \in DOMAIN k2.tombs /\ k2.tombs[j] = k.tombs[i]
      BY <1>6, <1>11, <3>1, <3>2
    <3>4. k2.seq - s = n2 + m2 - j
      BY <1>10, <1>12, <1>15, <3>1
    <3>5. QED
      BY <1>15, <3>3, <3>4, <1>8, <1>9 DEF Logged
  <2>2. CASE ~(i > b)
    BY <1>10, <1>12, <1>13, <1>15, <2>2
  <2>3. QED
    BY <2>1, <2>2
<1>16. QED
  BY <1>2, <1>3, <1>4, <1>14, <1>15 DEF Logged

-----------------------------------------------------------------------------
(* The state file.                                                         *)

NoPartial(c, k, ws) ==
    \A w \in ws : (w.claim = c /\ w.gen = k.gen /\ w.outcome = "partial") => Forgotten(w, k.seq)

\* Status s may be given to claim c, whose record is r.
Justified(s, r, c, k, ws) ==
    /\ r.status \notin Terminal
    /\ s = "succeeded" => SomeSucceeded(c, r.gen, ws)
    /\ s \in Unsent \cup Active => Clear(c, k, ws)
    /\ s \notin Active \cup {"failed"} => NoPartial(c, k, ws)

Allowed(r2, r, c, k, ws) ==
    /\ r2.gen = r.gen /\ r2.rev = r.rev /\ r2.write = r.write /\ r.attempt <= r2.attempt
    /\ r2 = r \/ Justified(r2.status, r, c, k, ws)

Revised(d, f, k, ws) ==
    /\ d \in Docs /\ d.entry = f.entry /\ Len(d.claims) = Len(f.claims)
    /\ DOMAIN d.claims = DOMAIN f.claims
    /\ \A c \in DOMAIN f.claims : Allowed(d.claims[c], f.claims[c], c, k, ws)

\* The claims of a document are numbered from 1, and each is a record.
LEMMA ClaimsOf ==
    ASSUME NEW d \in Docs
    PROVE  /\ d.claims \in Seq(Record) /\ d.entry \in Entry /\ Len(d.claims) \in Nat
           /\ DOMAIN d.claims = 1 .. Len(d.claims)
           /\ \A c \in DOMAIN d.claims : d.claims[c] \in Record
<1>1. d.claims \in Seq(Record) /\ d.entry \in Entry
  BY DEF Docs
<1>2. PICK s \in Seq(Record) : s = d.claims
  BY <1>1
<1>3. DOMAIN s = 1 .. Len(s) /\ Len(s) \in Nat /\ \A c \in 1 .. Len(s) : s[c] \in Record
  BY LenProperties, ElementOfSeq
<1>4. QED
  BY <1>1, <1>2, <1>3

\* Records whose new status is justified keep the document in agreement.
LEMMA RevisionKeeps ==
    ASSUME NEW f, NEW k, NEW h, Good(f, k, h), NEW d, Revised(d, f, k, h.writes)
    PROVE  Good(d, k, h)
<1>1. PICK ws : ws = h.writes
  OBVIOUS
<1>2. /\ DocOK(f) /\ Truthful(f, k, ws) /\ Intent(f, h.latest)
      /\ Placed(f, k, ws) /\ Resolvable(f, k, ws) /\ Stopped(f, k, ws)
      /\ Attempted(f, k) /\ Reported(k, ws)
  BY <1>1 DEF Good, Readable, FileOK
<1>3. /\ d \in Docs /\ d.entry = f.entry /\ Len(d.claims) = Len(f.claims)
      /\ DOMAIN d.claims = DOMAIN f.claims
  BY DEF Revised
<1>4. \A c \in DOMAIN f.claims :
        /\ d.claims[c].gen = f.claims[c].gen /\ d.claims[c].rev = f.claims[c].rev
        /\ d.claims[c].write = f.claims[c].write
        /\ f.claims[c].attempt <= d.claims[c].attempt
        /\ \/ d.claims[c] = f.claims[c]
           \/ Justified(d.claims[c].status, f.claims[c], c, k, ws)
  BY <1>1 DEF Revised, Allowed
<1>5. DocOK(d)
  BY <1>2, <1>3 DEF DocOK
<1>6. Truthful(d, k, ws)
  BY <1>2, <1>3, <1>4 DEF Truthful, Justified, Unsent
<1>7. Intent(d, h.latest)
  BY <1>2, <1>3, <1>4 DEF Intent
<1>8. Placed(d, k, ws)
  BY <1>2, <1>3, <1>4 DEF Placed
<1>9. Resolvable(d, k, ws)
  <2> SUFFICES ASSUME NEW w \in ws, w.gen = k.gen, d.claims[w.claim].status \in Active,
                      k.plugged, ~Forgotten(w, k.seq)
               PROVE  Logged(k, RequestOf(d, w.claim), w.seq)
                      /\ Answers(k, RequestOf(d, w.claim), w.outcome)
    BY DEF Resolvable
  <2>1. PICK c \in DOMAIN f.claims : c = w.claim
    BY <1>2 DEF Placed
  <2>2. d.claims[c] = f.claims[c]
    <3>1. ~Clear(c, k, ws)
      BY <2>1 DEF Clear
    <3>2. QED
      BY <1>4, <2>1, <3>1 DEF Justified
  <2>3. RequestOf(d, c) = RequestOf(f, c)
    BY <2>2 DEF RequestOf
  <2>4. QED
    BY <1>2, <2>1, <2>2, <2>3 DEF Resolvable
<1>10. Stopped(d, k, ws)
  <2> SUFFICES ASSUME NEW w \in ws, w.gen = k.gen, w.outcome = "partial", ~Forgotten(w, k.seq)
               PROVE  d.claims[w.claim].status \in Active \cup {"failed"}
    BY DEF Stopped
  <2>1. PICK c \in DOMAIN f.claims : c = w.claim
    BY <1>2 DEF Placed
  <2>2. ~NoPartial(c, k, ws)
    BY <2>1 DEF NoPartial
  <2>3. f.claims[c].status \in Active \cup {"failed"}
    BY <1>2, <2>1 DEF Stopped
  <2>4. QED
    BY <1>4, <2>1, <2>2, <2>3 DEF Justified
<1>11. Attempted(d, k)
  <2> SUFFICES ASSUME NEW e, Entered(k, e), e.tx # Other
               PROVE  /\ e.tx[2] \in DOMAIN d.claims
                      /\ e.tx[3] \in Nat /\ e.tx[3] <= d.claims[e.tx[2]].attempt
    BY DEF Attempted
  <2>1. /\ e.tx[2] \in DOMAIN f.claims
        /\ e.tx[3] \in Nat /\ e.tx[3] <= f.claims[e.tx[2]].attempt
    BY <1>2 DEF Attempted
  <2>2. PICK c \in DOMAIN f.claims : c = e.tx[2]
    BY <2>1
  <2>3. PICK a \in Nat : a = f.claims[c].attempt
    BY <1>2, ClaimsOf DEF DocOK, Record
  <2>4. PICK b \in Nat : b = d.claims[c].attempt
    BY <1>3, ClaimsOf DEF Record
  <2>5. a <= b
    BY <1>4, <2>3, <2>4
  <2>6. QED
    BY <1>3, <2>1, <2>2, <2>3, <2>4, <2>5
<1>12. QED
  BY <1>1, <1>2, <1>5, <1>6, <1>7, <1>8, <1>9, <1>10, <1>11 DEF Good, Readable, FileOK

\* Document d is f with the record of claim c replaced by r.
Replaced(d, f, c, r) ==
    /\ d \in Docs /\ d.entry = f.entry /\ Len(d.claims) = Len(f.claims)
    /\ DOMAIN d.claims = DOMAIN f.claims
    /\ d.claims[c] = r
    /\ \A other \in DOMAIN f.claims \ {c} : d.claims[other] = f.claims[other]

\* Replacing a record keeps a document.
LEMMA ReplaceRecord ==
    ASSUME NEW f \in Docs, NEW c \in DOMAIN f.claims, NEW r \in Record,
           NEW d, d = [f EXCEPT !.claims = [f.claims EXCEPT ![c] = r]]
    PROVE  Replaced(d, f, c, r)
<1>1. PICK s \in Seq(Record) : s = f.claims
  BY ClaimsOf
<1>2. PICK t : t = [s EXCEPT ![c] = r]
  OBVIOUS
<1>3. c \in 1 .. Len(s)
  BY <1>1, ClaimsOf
<1>4. t \in Seq(Record) /\ Len(t) = Len(s)
      /\ \A i \in 1 .. Len(s) : t[i] = IF i = c THEN r ELSE s[i]
  BY <1>2, <1>3, ExceptSeq
<1>5. d.entry = f.entry /\ d.claims = t
  BY <1>1, <1>2 DEF Docs
<1>6. d \in Docs
  <2>1. f.entry \in Entry
    BY DEF Docs
  <2>2. PICK E : E = Entry
    OBVIOUS
  <2>3. PICK S : S = Seq(Record)
    OBVIOUS
  <2>4. f \in [entry : E, claims : S] /\ t \in S
    BY <1>4, <2>2, <2>3 DEF Docs
  <2>5. d = [f EXCEPT !.claims = t]
    BY <1>1, <1>2
  <2>6. d \in [entry : E, claims : S]
    BY <2>4, <2>5
  <2>7. QED
    BY <2>2, <2>3, <2>6 DEF Docs
<1>7. DOMAIN t = 1 .. Len(t) /\ DOMAIN s = 1 .. Len(s)
  BY <1>4, LenProperties
<1>8. QED
  BY <1>1, <1>3, <1>4, <1>5, <1>6, <1>7 DEF Replaced

\* A new status for claim c.
LEMMA StatusReplaces ==
    ASSUME NEW f \in Docs, NEW c \in DOMAIN f.claims, NEW s \in Status,
           NEW d, d = [f EXCEPT !.claims[c].status = s],
           NEW r, r = [f.claims[c] EXCEPT !.status = s]
    PROVE  /\ Replaced(d, f, c, r) /\ r.status = s
           /\ r.gen = f.claims[c].gen /\ r.rev = f.claims[c].rev
           /\ r.write = f.claims[c].write /\ r.attempt = f.claims[c].attempt
           /\ r.nonce = f.claims[c].nonce
<1>1. PICK q \in Record : q = f.claims[c]
  BY ClaimsOf
<1>2. r \in Record
  <2>1. PICK S : S = Status
    OBVIOUS
  <2>2. PICK A : A = 1 .. MaxGenerations
    OBVIOUS
  <2>3. PICK B : B = 1 .. MaxUserWrites
    OBVIOUS
  <2>4. PICK N : N = 0 .. MaxNonce
    OBVIOUS
  <2>5. q \in [gen : A, rev : Nat, write : B, gated : BOOLEAN, status : S, attempt : Nat,
               nonce : N]
    BY <2>1, <2>2, <2>3, <2>4 DEF Record
  <2>6. r \in [gen : A, rev : Nat, write : B, gated : BOOLEAN, status : S, attempt : Nat,
               nonce : N]
    BY <1>1, <2>1, <2>5
  <2>7. QED
    BY <2>1, <2>2, <2>3, <2>4, <2>6 DEF Record
<1>3. d = [f EXCEPT !.claims = [f.claims EXCEPT ![c] = r]]
  OBVIOUS
<1>4. Replaced(d, f, c, r)
  BY <1>2, <1>3, ReplaceRecord
<1>5. QED
  BY <1>1, <1>4 DEF Record

\* One justified status.
LEMMA StatusKeeps ==
    ASSUME NEW f, NEW k, NEW h, Good(f, k, h), NEW c \in DOMAIN f.claims, NEW s \in Status,
           Justified(s, f.claims[c], c, k, h.writes),
           NEW d, d = [f EXCEPT !.claims[c].status = s]
    PROVE  Good(d, k, h) /\ Revised(d, f, k, h.writes)
<1>1. PICK r : r = [f.claims[c] EXCEPT !.status = s]
  OBVIOUS
<1>2. f \in Docs
  BY DEF Good, Readable, DocOK
<1>3. /\ Replaced(d, f, c, r) /\ r.status = s
      /\ r.gen = f.claims[c].gen /\ r.rev = f.claims[c].rev
      /\ r.write = f.claims[c].write /\ r.attempt = f.claims[c].attempt
  BY <1>1, <1>2, StatusReplaces
<1>4. \A i \in DOMAIN f.claims : f.claims[i].attempt \in Nat
  BY <1>2, ClaimsOf DEF Record
<1>5. Revised(d, f, k, h.writes)
  <2>1. Allowed(d.claims[c], f.claims[c], c, k, h.writes)
    BY <1>3, <1>4 DEF Allowed, Replaced
  <2>2. \A i \in DOMAIN f.claims \ {c} : Allowed(d.claims[i], f.claims[i], i, k, h.writes)
    BY <1>3, <1>4 DEF Allowed, Replaced
  <2>3. QED
    BY <1>3, <2>1, <2>2 DEF Revised, Replaced
<1>6. QED
  BY <1>5, RevisionKeeps

-----------------------------------------------------------------------------
(* Kernel steps that add nothing to the journal: a session ends, a native  *)
(* exchange, the receiver goes, the next generation comes.                 *)

Calmer(k2, k, ws) ==
    /\ k.gen <= k2.gen
    /\ \A w \in ws : w.gen = k2.gen => k2.gen = k.gen /\ k2.seq = k.seq
    /\ \A e : Entered(k2, e) => Entered(k, e)
    /\ \A i \in DOMAIN k2.results : \E j \in DOMAIN k.results : k2.results[i] = k.results[j]
    /\ \A w \in ws : (w.gen = k2.gen /\ k2.plugged)
           => k.plugged /\ k2.results = k.results /\ k2.tombs = k.tombs

\* A document agrees with the history of a calmer kernel object.
LEMMA CalmerReadable ==
    ASSUME NEW d, NEW k, NEW k2, NEW h, Calmer(k2, k, h.writes), Readable(d, k, h)
    PROVE  Readable(d, k2, h)
<1>1. PICK ws : ws = h.writes
  OBVIOUS
<1>2. DocOK(d) /\ Truthful(d, k, ws) /\ Intent(d, h.latest)
  BY <1>1 DEF Readable
<1>3. \A w \in ws : w.gen = k2.gen => k2.gen = k.gen /\ k2.seq = k.seq
  BY <1>1 DEF Calmer
<1>4. ASSUME NEW c, d.claims[c].gen = k.gen => Clear(c, k, ws), d.claims[c].gen = k2.gen
      PROVE  Clear(c, k2, ws)
  BY <1>3, <1>4 DEF Clear
<1>5. Truthful(d, k2, ws)
  BY <1>2, <1>4 DEF Truthful
<1>6. QED
  BY <1>1, <1>2, <1>5 DEF Readable

\* The file agrees with its journal too.
LEMMA CalmerGood ==
    ASSUME NEW f, NEW k, NEW k2, NEW h, Calmer(k2, k, h.writes), Good(f, k, h)
    PROVE  Good(f, k2, h)
<1>1. PICK ws : ws = h.writes
  OBVIOUS
<1>2. /\ Placed(f, k, ws) /\ Resolvable(f, k, ws) /\ Stopped(f, k, ws)
      /\ Attempted(f, k) /\ Reported(k, ws)
  BY <1>1 DEF Good, FileOK
<1>3. \A w \in ws : w.gen = k2.gen => k2.gen = k.gen /\ k2.seq = k.seq
  BY <1>1 DEF Calmer
<1>4. Placed(f, k2, ws) /\ Stopped(f, k2, ws)
  BY <1>2, <1>3 DEF Placed, Stopped
<1>5. Attempted(f, k2) /\ Reported(k2, ws)
  <2>1. Attempted(f, k2)
    BY <1>2 DEF Attempted, Calmer
  <2>2. Reported(k2, ws)
    <3> SUFFICES ASSUME NEW i \in DOMAIN k2.results, k2.results[i].status \in Begun,
                        k2.results[i].tx # Other
                 PROVE  WasWritten(k2.results[i], ws)
      BY DEF Reported
    <3>1. PICK j \in DOMAIN k.results : k2.results[i] = k.results[j]
      BY DEF Calmer
    <3>2. QED
      BY <1>2, <3>1 DEF Reported
  <2>3. QED
    BY <2>1, <2>2
<1>6. Resolvable(f, k2, ws)
  <2> SUFFICES ASSUME NEW w \in ws, w.gen = k2.gen, f.claims[w.claim].status \in Active,
                      k2.plugged, ~Forgotten(w, k2.seq)
               PROVE  Logged(k2, RequestOf(f, w.claim), w.seq)
                      /\ Answers(k2, RequestOf(f, w.claim), w.outcome)
    BY DEF Resolvable
  <2>1. k.plugged /\ k2.results = k.results /\ k2.tombs = k.tombs
    BY <1>1 DEF Calmer
  <2>2. k2.gen = k.gen /\ k2.seq = k.seq
    BY <1>3
  <2>3. /\ Logged(k, RequestOf(f, w.claim), w.seq)
        /\ Answers(k, RequestOf(f, w.claim), w.outcome)
    BY <1>2, <2>1, <2>2 DEF Resolvable
  <2>4. QED
    BY <2>1, <2>2, <2>3 DEF Logged, Answers
<1>7. QED
  BY <1>1, <1>2, <1>4, <1>5, <1>6, CalmerReadable DEF Good, FileOK

\* The process is where it was.
LEMMA CalmerProc ==
    ASSUME NEW p, NEW f, NEW s, NEW k, NEW k2, NEW h, Calmer(k2, k, h.writes),
           ProcOK(p, f, s, k, h)
    PROVE  ProcOK(p, f, s, k2, h)
<1>1. PICK ws : ws = h.writes
  OBVIOUS
<1>2. \A w \in ws : w.gen = k2.gen => k2.gen = k.gen /\ k2.seq = k.seq
  BY <1>1 DEF Calmer
<1>3. OwnWrites(p, f, k2, ws)
  BY <1>1, <1>2 DEF ProcOK, OwnWrites
<1>4. p.pc \in Mid => InFlight(p, f, k2, ws)
  <2> SUFFICES ASSUME p.pc \in Mid PROVE InFlight(p, f, k2, ws)
    OBVIOUS
  <2>1. InFlight(p, f, k, ws)
    BY <1>1 DEF ProcOK, Progress
  <2>2. Clear(p.cur, k2, ws)
    BY <1>2, <2>1 DEF InFlight, Clear
  <2>3. \A w \in ws : (w.claim = p.cur /\ w.gen = k2.gen) => w.run < p.run
    BY <1>2, <2>1 DEF InFlight
  <2>4. \A e : Entered(k2, e) /\ e.tx # Other /\ e.tx[2] = p.cur
                   => e.tx[3] < f.claims[p.cur].attempt
    BY <2>1 DEF InFlight, Calmer
  <2>5. QED
    BY <2>1, <2>2, <2>3, <2>4 DEF InFlight
<1>5. QED
  BY <1>1, <1>3, <1>4 DEF ProcOK, Progress

\* A generation without writes and without a journal says nothing of a document.
LEMMA NewGenerationGood ==
    ASSUME NEW d, NEW k, NEW h, Readable(d, k, h), k.results = <<>>, k.tombs = <<>>,
           \A w \in h.writes : w.gen # k.gen
    PROVE  Good(d, k, h)
<1>1. PICK ws : ws = h.writes
  OBVIOUS
<1>2. DOMAIN k.results = {} /\ DOMAIN k.tombs = {}
  OBVIOUS
<1>3. \A e : ~Entered(k, e)
  BY <1>2 DEF Entered
<1>4. Attempted(d, k) /\ Reported(k, ws)
  BY <1>2, <1>3 DEF Attempted, Reported
<1>5. Placed(d, k, ws) /\ Resolvable(d, k, ws) /\ Stopped(d, k, ws)
  BY <1>1 DEF Placed, Resolvable, Stopped
<1>6. QED
  BY <1>1, <1>4, <1>5 DEF Good, FileOK

\* The end of a session, or a native exchange, moves the high-water mark only.
LEMMA HighWaterIsCalm ==
    ASSUME NEW k, KernelOK(k), NEW n \in 0 .. MaxNonce, NEW k2, k2 = [k EXCEPT !.high = n],
           NEW ws
    PROVE  KernelOK(k2) /\ Calmer(k2, k, ws)
<1>1. /\ DOMAIN k2 = KernelFields /\ k2.high = n /\ k2.gen = k.gen /\ k2.seq = k.seq
      /\ k2.plugged = k.plugged /\ k2.results = k.results /\ k2.tombs = k.tombs
  BY DEF KernelOK, KernelFields
<1>2. KernelOK(k2)
  BY <1>1 DEF KernelOK
<1>3. k.gen <= k2.gen
  BY <1>1 DEF KernelOK
<1>4. QED
  BY <1>1, <1>2, <1>3 DEF Calmer, Entered

\* The kernel object as it begins.
LEMMA NewKernelOK ==
    ASSUME NEW g \in 1 .. MaxGenerations, NEW k, k = NewKernel(g)
    PROVE  /\ KernelOK(k) /\ k.gen = g /\ k.seq = 0 /\ k.plugged
           /\ k.results = <<>> /\ k.tombs = <<>>
<1>1. /\ DOMAIN k = KernelFields /\ k.gen = g /\ k.seq = 0 /\ k.plugged /\ k.high = 0
      /\ k.results = <<>> /\ k.tombs = <<>>
  BY DEF NewKernel, KernelFields
<1>2. k.results \in Seq(JournalEntry) /\ Len(k.results) = 0
  BY <1>1, EmptySeq
<1>3. 0 \in 0 .. MaxNonce /\ 0 <= ResultCapacity /\ 0 <= TombstoneCapacity
  BY BoundsAssumption
<1>4. QED
  BY <1>1, <1>2, <1>3 DEF KernelOK

\* The receiver goes, and its journal with it.
LEMMA UnplugIsCalm ==
    ASSUME NEW k, KernelOK(k), k.gen < MaxGenerations, NEW ws,
           NEW k2, k2 = [NewKernel(k.gen) EXCEPT !.plugged = FALSE, !.seq = k.seq]
    PROVE  KernelOK(k2) /\ Calmer(k2, k, ws)
<1>1. PICK n : n = NewKernel(k.gen)
  OBVIOUS
<1>2. k.gen \in 1 .. MaxGenerations /\ k.gen \in Nat /\ k.seq \in Nat
  BY BoundsAssumption DEF KernelOK
<1>3. KernelOK(n) /\ n.gen = k.gen /\ n.results = <<>> /\ n.tombs = <<>>
  BY <1>1, <1>2, NewKernelOK
<1>4. /\ DOMAIN k2 = KernelFields /\ k2.gen = k.gen /\ k2.seq = k.seq /\ ~k2.plugged
      /\ k2.high = n.high /\ k2.results = <<>> /\ k2.tombs = <<>>
      /\ k2.results = n.results /\ k2.tombs = n.tombs
  BY <1>1, <1>3 DEF KernelOK, KernelFields
<1>5. KernelOK(k2)
  BY <1>2, <1>3, <1>4 DEF KernelOK
<1>6. DOMAIN k2.results = {} /\ DOMAIN k2.tombs = {}
  BY <1>4
<1>7. QED
  BY <1>2, <1>4, <1>5, <1>6 DEF Calmer, Entered

\* The receiver comes back under the next generation.
LEMMA NextGenerationIsCalm ==
    ASSUME NEW k, KernelOK(k), k.gen < MaxGenerations, NEW ws, NEW run, HistoryOK(ws, k, run),
           NEW k2, k2 = NewKernel(k.gen + 1)
    PROVE  /\ KernelOK(k2) /\ Calmer(k2, k, ws) /\ k2.results = <<>> /\ k2.tombs = <<>>
           /\ \A w \in ws : w.gen # k2.gen
<1>1. PICK g \in Nat : g = k.gen
  BY DEF KernelOK
<1>2. g + 1 \in 1 .. MaxGenerations
  BY <1>1, BoundsAssumption DEF KernelOK
<1>3. KernelOK(k2) /\ k2.gen = g + 1 /\ k2.results = <<>> /\ k2.tombs = <<>>
  BY <1>1, <1>2, NewKernelOK
<1>4. DOMAIN k2.results = {} /\ DOMAIN k2.tombs = {}
  BY <1>3
<1>5. \A w \in ws : w.gen # k2.gen
  BY <1>1, <1>3 DEF HistoryOK
<1>6. k.gen <= k2.gen
  BY <1>1, <1>3
<1>7. QED
  BY <1>3, <1>4, <1>5, <1>6 DEF Calmer, Entered

\* History is not changed by a calmer kernel or a later process.
LEMMA CalmerHistory ==
    ASSUME NEW ws, NEW k, KernelOK(k), NEW k2, KernelOK(k2), NEW run \in Nat, NEW run2 \in Nat,
           run <= run2, HistoryOK(ws, k, run), Calmer(k2, k, ws)
    PROVE  HistoryOK(ws, k2, run2)
<1> SUFFICES ASSUME NEW w \in ws
             PROVE  /\ w.gen \in Nat /\ w.seq \in Nat /\ w.run \in Nat
                    /\ w.outcome \in Begun /\ w.latest
                    /\ w.gen <= k2.gen /\ w.run <= run2
                    /\ w.gen = k2.gen => w.seq <= k2.seq
  BY DEF HistoryOK
<1>1. /\ w.gen \in Nat /\ w.seq \in Nat /\ w.run \in Nat
      /\ w.outcome \in Begun /\ w.latest
      /\ w.gen <= k.gen /\ w.run <= run
      /\ w.gen = k.gen => w.seq <= k.seq
  BY DEF HistoryOK
<1>2. w.gen = k2.gen => k2.gen = k.gen /\ k2.seq = k.seq
  BY DEF Calmer
<1>3. PICK g \in Nat : g = k.gen
  BY DEF KernelOK
<1>4. PICK g2 \in Nat : g2 = k2.gen
  BY DEF KernelOK
<1>5. g <= g2
  BY <1>3, <1>4 DEF Calmer
<1>6. w.gen <= k2.gen /\ w.run <= run2
  BY <1>1, <1>3, <1>4, <1>5
<1>7. QED
  BY <1>1, <1>2, <1>6

\* A process that has just started, or none.
LEMMA FreshOK ==
    ASSUME NEW run \in Nat, NEW f, NEW s, NEW k, NEW h, NEW q,
           \/ q = Fresh(run) /\ \A w \in h.writes : w.run # run
           \/ q = [Fresh(run) EXCEPT !.up = FALSE]
    PROVE  ProcOK(q, f, s, k, h) /\ q.run = run
<1>1. /\ DOMAIN q = ProcFields /\ q.run = run /\ q.nonce = 0 /\ q.at = Detached
      /\ q.sched = [c \in Claims |-> "none"] /\ q.user = [nonce |-> 0, id |-> 0]
      /\ q.pc = "idle"
  BY DEF Fresh, ProcFields
<1>2. ~q.up \/ \A w \in h.writes : w.run # run
  BY DEF Fresh
<1>3. /\ DOMAIN q.at = {"gen", "max", "ready"} /\ q.at.gen = 0 /\ q.at.max = 0
      /\ q.user.nonce = 0 /\ q.user.id = 0
  BY <1>1 DEF Detached
<1>4. 0 \in 0 .. MaxNonce /\ 0 \in 0 .. MaxGenerations /\ 0 \in 0 .. MaxUserWrites
  BY BoundsAssumption
<1>5. ProcShape(q)
  BY <1>1, <1>3, <1>4 DEF ProcShape
<1>6. Scheduled(q, f) /\ Progress(q, f, s, k, h)
  BY <1>1 DEF Scheduled, Progress, Mid
<1>7. OwnWrites(q, f, k, h.writes)
  BY <1>1, <1>2 DEF OwnWrites
<1>8. QED
  BY <1>1, <1>5, <1>6, <1>7 DEF ProcOK

-----------------------------------------------------------------------------
(* Commits.                                                                *)

\* A commit of a document that agrees with history: if it succeeds the process
\* goes on as q, if it fails after the rename the process is gone.
LEMMA PersistKeeps ==
    ASSUME IInv, NEW d, NEW q, Persist(d, q), Good(d, kernel, hist),
           ProcOK(q, d, d, kernel, hist), q.run = proc.run
    PROVE  IInv'
<1>1. /\ KernelOK(kernel) /\ UsersOK(hist) /\ HistoryOK(hist.writes, kernel, proc.run)
      /\ Rewritten(hist.writes) /\ Repeated(hist.writes)
      /\ Readable(disk.synced, kernel, hist) /\ proc.run \in Nat
  BY DEF IInv, ProcOK, ProcShape
<1>2. hist' = hist
  BY DEF Persist
<1>3. CASE disk' = Committed(d) /\ proc' = q /\ UNCHANGED kernel
  <2>1. disk'.file = d /\ disk'.synced = d
    BY <1>3 DEF Committed
  <2>2. Readable(d, kernel, hist)
    BY DEF Good
  <2>3. QED
    BY <1>1, <1>2, <1>3, <2>1, <2>2 DEF IInv
<1>4. CASE disk' = Renamed(d) /\ proc' = Down(proc) /\ kernel' = SessionOver(kernel)
  <2>1. disk'.file = d /\ disk'.synced = disk.synced
    BY <1>4 DEF Renamed
  <2>2. PICK k2 : k2 = SessionOver(kernel)
    OBVIOUS
  <2>3. KernelOK(k2) /\ Calmer(k2, kernel, hist.writes)
    <3>1. k2 = [kernel EXCEPT !.high = 0]
      BY <2>2 DEF SessionOver
    <3>2. 0 \in 0 .. MaxNonce
      BY BoundsAssumption
    <3>3. QED
      BY <1>1, <3>1, <3>2, HighWaterIsCalm
  <2>4. Good(d, k2, hist)
    BY <2>3, CalmerGood
  <2>5. Readable(disk.synced, k2, hist)
    BY <1>1, <2>3, CalmerReadable
  <2>6. PICK q2 : q2 = Down(proc)
    OBVIOUS
  <2>7. ProcOK(q2, d, disk.synced, k2, hist) /\ q2.run = proc.run
    BY <1>1, <2>6, FreshOK DEF Down
  <2>8. HistoryOK(hist.writes, k2, proc.run)
    <3>1. proc.run <= proc.run
      BY <1>1
    <3>2. QED
      BY <1>1, <2>3, <3>1, CalmerHistory
  <2>9. QED
    BY <1>1, <1>2, <1>4, <2>1, <2>2, <2>3, <2>4, <2>5, <2>6, <2>7, <2>8 DEF IInv
<1>5. QED
  BY <1>3, <1>4 DEF Persist

-----------------------------------------------------------------------------
(* Steps of the process at rest.                                           *)

\* The process is the same but for its schedule, its turn and what it knows of
\* the receiver.
Related(q, p) ==
    /\ DOMAIN q = ProcFields /\ DOMAIN q.at = {"gen", "max", "ready"}
    /\ q.run = p.run /\ q.up = p.up /\ DOMAIN q.sched = Claims
    /\ q.nonce \in 0 .. MaxNonce
    /\ q.at.gen \in 0 .. MaxGenerations /\ q.at.max \in 0 .. q.nonce
    /\ q.user.nonce \in 0 .. q.nonce /\ q.user.id \in 0 .. MaxUserWrites

OpenIn(q, d) ==
    \A c \in Claims : q.sched[c] # "none" =>
        c \in DOMAIN d.claims /\ d.claims[c].status \notin Terminal

\* No write of this process is of an open claim.
Settled(p, f, k, ws) ==
    p.up => \A w \in ws : (w.run = p.run /\ w.gen = k.gen) =>
        f.claims[w.claim].status \in Terminal

\* Between two claims, the invariant of the process is about its schedule and
\* about the writes it has made.
LEMMA AtRest ==
    ASSUME NEW p, NEW f, NEW s, NEW k, NEW h, NEW q, Related(q, p), p.run \in Nat,
           q.pc \in {"idle", "claims"}, q.pc # "idle" => q.up,
           OpenIn(q, f), Settled(p, f, k, h.writes)
    PROVE  ProcOK(q, f, s, k, h) /\ q.run = p.run
<1>1. ProcShape(q)
  BY DEF ProcShape, Related
<1>2. Scheduled(q, f)
  BY DEF Scheduled, OpenIn
<1>3. Progress(q, f, s, k, h)
  BY DEF Progress, Mid
<1>4. OwnWrites(q, f, k, h.writes)
  BY DEF OwnWrites, Settled, Related
<1>5. QED
  BY <1>1, <1>2, <1>3, <1>4 DEF ProcOK, Related

\* A step that changes the process only.
LEMMA ProcStep ==
    ASSUME IInv, UNCHANGED <<disk, kernel, hist>>,
           NEW q, proc' = q, ProcOK(q, disk.file, disk.synced, kernel, hist),
           q.run = proc.run
    PROVE  IInv'
BY DEF IInv

\* Unless a submission is being answered, no claim of this process is open that
\* it wrote.
LEMMA NotSubmitted ==
    ASSUME IInv, proc.pc # "submitted"
    PROVE  Settled(proc, disk.file, kernel, hist.writes)
BY DEF IInv, ProcOK, OwnWrites, Settled

\* Justified changes of status leave closed claims closed.
LEMMA SettledStays ==
    ASSUME NEW p, NEW f, NEW k, NEW h, NEW d, Revised(d, f, k, h.writes), Good(f, k, h),
           Settled(p, f, k, h.writes)
    PROVE  Settled(p, d, k, h.writes)
<1>1. PICK ws : ws = h.writes
  OBVIOUS
<1>2. Placed(f, k, ws)
  BY <1>1 DEF Good, FileOK
<1>3. \A c \in DOMAIN f.claims : f.claims[c].status \in Terminal => d.claims[c] = f.claims[c]
  BY DEF Revised, Allowed, Justified
<1>4. QED
  BY <1>1, <1>2, <1>3 DEF Settled, Placed

\* What the invariant says of the process's memory, field by field.
LEMMA ProcFacts ==
    ASSUME IInv
    PROVE  /\ Related(proc, proc) /\ proc.run \in Nat
           /\ proc.pc # "idle" => proc.up
           /\ proc.pc # "plan" => OpenIn(proc, disk.file)
           /\ disk.file \in Docs /\ disk.synced \in Docs /\ KernelOK(kernel)
           /\ Good(disk.file, kernel, hist)
BY DEF IInv, ProcOK, ProcShape, Related, Scheduled, OpenIn, Good, Readable, DocOK

\* First contact with a generation.
LEMMA AttachStep == IInv /\ Attach => IInv'
<1> SUFFICES ASSUME IInv, Attach PROVE IInv'
  OBVIOUS
<1>1. PICK q : q = proc'
  OBVIOUS
<1>2. PICK t : t = Raised(IF proc.started THEN "generation" ELSE "start")
  OBVIOUS
<1>3. q = [proc EXCEPT !.at = [Detached EXCEPT !.gen = kernel.gen], !.started = TRUE,
                       !.trigger = t]
  BY <1>1, <1>2 DEF Attach
<1>4. /\ Related(proc, proc) /\ proc.run \in Nat /\ OpenIn(proc, disk.file)
      /\ KernelOK(kernel) /\ proc.pc = "idle" /\ Settled(proc, disk.file, kernel, hist.writes)
  BY ProcFacts, NotSubmitted DEF Attach, Idle
<1>5. /\ DOMAIN q = ProcFields /\ q.run = proc.run /\ q.up = proc.up /\ q.nonce = proc.nonce
      /\ q.user = proc.user /\ q.pc = "idle" /\ q.sched = proc.sched
      /\ q.at = [Detached EXCEPT !.gen = kernel.gen]
  BY <1>3, <1>4 DEF Related, ProcFields
<1>6. DOMAIN q.at = {"gen", "max", "ready"} /\ q.at.gen = kernel.gen /\ q.at.max = 0
  BY <1>5 DEF Detached
<1>7. Related(q, proc)
  <2>1. kernel.gen \in 0 .. MaxGenerations /\ 0 \in 0 .. proc.nonce
    BY <1>4, BoundsAssumption DEF KernelOK, Related
  <2>2. QED
    BY <1>4, <1>5, <1>6, <2>1 DEF Related
<1>8. OpenIn(q, disk.file)
  BY <1>4, <1>5 DEF OpenIn
<1>9. ProcOK(q, disk.file, disk.synced, kernel, hist) /\ q.run = proc.run
  BY <1>4, <1>5, <1>7, <1>8, AtRest
<1>10. QED
  BY <1>1, <1>9, ProcStep DEF Attach

\* A new schedule for the claims that are on it already.
LEMMA ScheduleStep ==
    ASSUME IInv, Idle, UNCHANGED <<disk, kernel, hist>>,
           NEW q, proc' = q, Related(q, proc), q.pc = "idle",
           \A c \in Claims : q.sched[c] # "none" => proc.sched[c] # "none"
    PROVE  IInv'
<1>1. /\ proc.run \in Nat /\ OpenIn(proc, disk.file) /\ proc.pc = "idle"
      /\ Settled(proc, disk.file, kernel, hist.writes)
  BY ProcFacts, NotSubmitted DEF Idle
<1>2. OpenIn(q, disk.file)
  BY <1>1 DEF OpenIn
<1>3. ProcOK(q, disk.file, disk.synced, kernel, hist) /\ q.run = proc.run
  BY <1>1, <1>2, AtRest
<1>4. QED
  BY <1>3, ProcStep

\* The device shows itself.
LEMMA DeviceReturnStep == IInv /\ DeviceReturn => IInv'
<1> SUFFICES ASSUME IInv, DeviceReturn PROVE IInv'
  OBVIOUS
<1>1. PICK q : q = proc'
  OBVIOUS
<1>2. PICK t : t = Raised("return")
  OBVIOUS
<1>3. PICK s : s = [c \in Claims |-> IF proc.sched[c] # "none" /\ rec(c).gen = proc.at.gen
                                     THEN "due" ELSE proc.sched[c]]
  OBVIOUS
<1>4. q = [proc EXCEPT !.at.ready = TRUE, !.trigger = t, !.sched = s]
  BY <1>1, <1>2, <1>3, ProcFacts DEF DeviceReturn, Related, ProcFields
<1>5. Related(proc, proc) /\ Idle
  BY ProcFacts DEF DeviceReturn, Attached
<1>6. /\ DOMAIN q = ProcFields /\ q.run = proc.run /\ q.up = proc.up /\ q.nonce = proc.nonce
      /\ q.user = proc.user /\ q.pc = "idle" /\ q.sched = s
      /\ q.at = [proc.at EXCEPT !.ready = TRUE]
  BY <1>4, <1>5 DEF Related, ProcFields, Idle
<1>7. DOMAIN q.at = {"gen", "max", "ready"} /\ q.at.gen = proc.at.gen /\ q.at.max = proc.at.max
  BY <1>5, <1>6 DEF Related
<1>8. Related(q, proc)
  BY <1>3, <1>5, <1>6, <1>7 DEF Related
<1>9. \A c \in Claims : q.sched[c] # "none" => proc.sched[c] # "none"
  BY <1>3, <1>6
<1>10. UNCHANGED <<disk, kernel, hist>> /\ proc' = q
  BY <1>1 DEF DeviceReturn
<1>11. QED
  BY <1>5, <1>6, <1>8, <1>9, <1>10, ScheduleStep

\* The system resumes.
LEMMA SystemResumeStep == IInv /\ SystemResume => IInv'
<1> SUFFICES ASSUME IInv, SystemResume PROVE IInv'
  OBVIOUS
<1>1. PICK q : q = proc'
  OBVIOUS
<1>2. PICK t : t = Raised("resume")
  OBVIOUS
<1>3. PICK s : s = [c \in Claims |-> IF proc.sched[c] # "none" /\ rec(c).gen = proc.at.gen
                                     THEN "park" ELSE proc.sched[c]]
  OBVIOUS
<1>4. q = [proc EXCEPT !.at.ready = FALSE, !.trigger = t, !.sched = s]
  BY <1>1, <1>2, <1>3, ProcFacts DEF SystemResume, Related, ProcFields
<1>5. Related(proc, proc) /\ Idle
  BY ProcFacts DEF SystemResume, Attached
<1>6. /\ DOMAIN q = ProcFields /\ q.run = proc.run /\ q.up = proc.up /\ q.nonce = proc.nonce
      /\ q.user = proc.user /\ q.pc = "idle" /\ q.sched = s
      /\ q.at = [proc.at EXCEPT !.ready = FALSE]
  BY <1>4, <1>5 DEF Related, ProcFields, Idle
<1>7. DOMAIN q.at = {"gen", "max", "ready"} /\ q.at.gen = proc.at.gen /\ q.at.max = proc.at.max
  BY <1>5, <1>6 DEF Related
<1>8. Related(q, proc)
  BY <1>3, <1>5, <1>6, <1>7 DEF Related
<1>9. \A c \in Claims : q.sched[c] # "none" => proc.sched[c] # "none"
  BY <1>3, <1>6
<1>10. UNCHANGED <<disk, kernel, hist>> /\ proc' = q
  BY <1>1 DEF SystemResume
<1>11. QED
  BY <1>5, <1>6, <1>8, <1>9, <1>10, ScheduleStep

\* A retry interval has passed.
LEMMA WakeStep == ASSUME NEW c \in Claims PROVE IInv /\ Wake(c) => IInv'
<1> SUFFICES ASSUME IInv, Wake(c) PROVE IInv'
  OBVIOUS
<1>1. PICK q : q = proc'
  OBVIOUS
<1>2. q = [proc EXCEPT !.sched[c] = "due"]
  BY <1>1 DEF Wake
<1>3. Related(proc, proc) /\ Idle /\ proc.sched[c] = "wait"
  BY ProcFacts DEF Wake
<1>4. /\ DOMAIN q = ProcFields /\ q.run = proc.run /\ q.up = proc.up /\ q.nonce = proc.nonce
      /\ q.user = proc.user /\ q.pc = "idle" /\ q.at = proc.at
      /\ q.sched = [proc.sched EXCEPT ![c] = "due"]
  BY <1>2, <1>3 DEF Related, ProcFields, Idle
<1>5. Related(q, proc)
  BY <1>3, <1>4 DEF Related
<1>6. \A i \in Claims : q.sched[i] # "none" => proc.sched[i] # "none"
  <2> SUFFICES ASSUME NEW i \in Claims, q.sched[i] # "none" PROVE proc.sched[i] # "none"
    OBVIOUS
  <2>1. CASE i = c
    BY <1>3, <2>1
  <2>2. CASE i # c
    BY <1>3, <1>4, <2>2 DEF Related
  <2>3. QED
    BY <2>1, <2>2
<1>7. UNCHANGED <<disk, kernel, hist>> /\ proc' = q
  BY <1>1 DEF Wake
<1>8. QED
  BY <1>3, <1>4, <1>5, <1>6, <1>7, ScheduleStep

\* The user's admission lapses.
LEMMA UserExpiresStep == IInv /\ UserExpires => IInv'
<1> SUFFICES ASSUME IInv, UserExpires PROVE IInv'
  OBVIOUS
<1>1. PICK q : q = proc'
  OBVIOUS
<1>2. q = [proc EXCEPT !.user = [nonce |-> 0, id |-> 0]]
  BY <1>1 DEF UserExpires
<1>3. Related(proc, proc) /\ Idle
  BY ProcFacts DEF UserExpires
<1>4. /\ DOMAIN q = ProcFields /\ q.run = proc.run /\ q.up = proc.up /\ q.nonce = proc.nonce
      /\ q.user = [nonce |-> 0, id |-> 0] /\ q.pc = "idle" /\ q.at = proc.at
      /\ q.sched = proc.sched
  BY <1>2, <1>3 DEF Related, ProcFields, Idle
<1>5. q.user.nonce \in 0 .. q.nonce /\ q.user.id \in 0 .. MaxUserWrites
  <2>1. MaxNonce \in Nat /\ MaxUserWrites \in Nat /\ q.nonce \in 0 .. MaxNonce
    BY <1>3, <1>4, BoundsAssumption DEF Related
  <2>2. QED
    BY <1>4, <2>1
<1>6. Related(q, proc)
  BY <1>3, <1>4, <1>5 DEF Related
<1>7. UNCHANGED <<disk, kernel, hist>> /\ proc' = q
  BY <1>1 DEF UserExpires
<1>8. QED
  BY <1>3, <1>4, <1>6, <1>7, ScheduleStep

-----------------------------------------------------------------------------
(* Triggers and plans.                                                     *)

KnownIn(q, d) == \A c \in Claims : q.sched[c] # "none" => c \in DOMAIN d.claims

\* While a plan is made the schedule may name claims just superseded.
LEMMA AtPlan ==
    ASSUME NEW p, NEW f, NEW s, NEW k, NEW h, NEW q, Related(q, p), p.run \in Nat,
           q.pc = "plan", q.up, q.at.gen # 0, Len(f.claims) < MaxClaims,
           KnownIn(q, f), Settled(p, f, k, h.writes)
    PROVE  ProcOK(q, f, s, k, h) /\ q.run = p.run
<1>1. ProcShape(q)
  BY DEF ProcShape, Related
<1>2. Scheduled(q, f)
  BY DEF Scheduled, KnownIn
<1>3. Progress(q, f, s, k, h)
  BY DEF Progress, Mid
<1>4. OwnWrites(q, f, k, h.writes)
  BY DEF OwnWrites, Settled, Related
<1>5. QED
  BY <1>1, <1>2, <1>3, <1>4 DEF ProcOK, Related

\* The synchronized schedule names open claims of the document only.
LEMMA SynchronizedIsOpen ==
    ASSUME IInv, proc.up, NEW d, NEW tr, NEW x, Related(x, proc), x.sched = Synchronize(d, tr),
           NEW q, q = ToClaims(x)
    PROVE  Related(q, proc) /\ q.pc \in {"idle", "claims"} /\ q.up /\ OpenIn(q, d)
<1>1. /\ DOMAIN q = ProcFields /\ q.run = x.run /\ q.up = x.up /\ q.nonce = x.nonce
      /\ q.user = x.user /\ q.at = x.at /\ q.sched = x.sched
      /\ q.pc = IF \E c \in Claims : x.sched[c] = "due" THEN "claims" ELSE "idle"
  BY DEF ToClaims, Related, ProcFields
<1>2. Related(q, proc) /\ q.up
  BY <1>1 DEF Related
<1>3. OpenIn(q, d)
  BY <1>1 DEF OpenIn, Synchronize
<1>4. QED
  BY <1>1, <1>2, <1>3

\* There was nothing to plan.
LEMMA PlanNothingStep == IInv /\ PlanNothing => IInv'
<1> SUFFICES ASSUME IInv, PlanNothing PROVE IInv'
  OBVIOUS
<1>1. PICK q : q = proc'
  OBVIOUS
<1>2. PICK d : d = disk.file
  OBVIOUS
<1>3. PICK tr : tr = proc.trigger
  OBVIOUS
<1>4. PICK x : x = [proc EXCEPT !.sched = Synchronize(d, tr)]
  OBVIOUS
<1>5. q = ToClaims(x) /\ proc.pc = "plan" /\ UNCHANGED <<disk, kernel, hist>>
  BY <1>1, <1>2, <1>3, <1>4 DEF PlanNothing, doc
<1>6. /\ Related(proc, proc) /\ proc.run \in Nat /\ proc.up
      /\ Settled(proc, disk.file, kernel, hist.writes)
  BY <1>5, ProcFacts, NotSubmitted
<1>7. x.sched = Synchronize(d, tr) /\ Related(x, proc)
  <2>1. PICK s : s = Synchronize(d, tr)
    OBVIOUS
  <2>2. DOMAIN s = Claims
    BY <2>1 DEF Synchronize
  <2>3. x = [proc EXCEPT !.sched = s]
    BY <1>4, <2>1
  <2>4. x.sched = s /\ Related(x, proc)
    BY <1>6, <2>2, <2>3 DEF Related, ProcFields
  <2>5. QED
    BY <2>1, <2>4
<1>8. Related(q, proc) /\ q.pc \in {"idle", "claims"} /\ q.up /\ OpenIn(q, d)
  BY <1>5, <1>6, <1>7, SynchronizedIsOpen
<1>9. ProcOK(q, disk.file, disk.synced, kernel, hist) /\ q.run = proc.run
  BY <1>2, <1>6, <1>8, AtRest
<1>10. QED
  BY <1>1, <1>5, <1>9, ProcStep

\* A trigger is taken: the policy is enabled, claims are recovered or planned.
LEMMA TakeTriggerStep == IInv /\ TakeTrigger => IInv'
<1> SUFFICES ASSUME IInv, TakeTrigger PROVE IInv'
  OBVIOUS
<1>1. PICK d : d = disk.file
  OBVIOUS
<1>2. PICK tr : tr = proc.trigger
  OBVIOUS
<1>3. PICK x : x = [proc EXCEPT !.configured = TRUE, !.sched = Synchronize(d, tr)]
  OBVIOUS
<1>4. PICK q : q = IF NeedsPlan THEN [proc EXCEPT !.configured = TRUE, !.pc = "plan"]
                   ELSE ToClaims(x)
  OBVIOUS
<1>5. \/ proc' = q /\ UNCHANGED <<disk, kernel, hist>>
      \/ Persist(d, q)
  BY <1>1, <1>2, <1>3, <1>4 DEF TakeTrigger, doc
<1>6. /\ Related(proc, proc) /\ proc.run \in Nat /\ proc.up /\ OpenIn(proc, d)
      /\ Settled(proc, d, kernel, hist.writes) /\ Good(d, kernel, hist)
      /\ proc.at.gen # 0 /\ proc.pc = "idle"
  BY <1>1, ProcFacts, NotSubmitted DEF TakeTrigger, Attached, Idle
<1>7. ASSUME NEW s PROVE ProcOK(q, d, s, kernel, hist) /\ q.run = proc.run
  <2>1. CASE NeedsPlan
    <3>1. q = [proc EXCEPT !.configured = TRUE, !.pc = "plan"]
      BY <1>4, <2>1
    <3>2. /\ DOMAIN q = ProcFields /\ q.run = proc.run /\ q.up = proc.up
          /\ q.nonce = proc.nonce /\ q.user = proc.user /\ q.pc = "plan" /\ q.at = proc.at
          /\ q.sched = proc.sched
      BY <1>6, <3>1 DEF Related, ProcFields
    <3>3. Related(q, proc)
      BY <1>6, <3>2 DEF Related
    <3>4. KnownIn(q, d)
      BY <1>6, <3>2 DEF OpenIn, KnownIn
    <3>5. Len(d.claims) < MaxClaims
      BY <1>1, <2>1 DEF NeedsPlan, doc
    <3>6. q.up /\ q.at.gen # 0
      BY <1>6, <3>2
    <3>7. QED
      BY <1>6, <3>2, <3>3, <3>4, <3>5, <3>6, AtPlan
  <2>2. CASE ~NeedsPlan
    <3>1. q = ToClaims(x)
      BY <1>4, <2>2
    <3>2. x.sched = Synchronize(d, tr) /\ Related(x, proc)
      <4>1. PICK z : z = Synchronize(d, tr)
        OBVIOUS
      <4>2. DOMAIN z = Claims
        BY <4>1 DEF Synchronize
      <4>3. x = [proc EXCEPT !.configured = TRUE, !.sched = z]
        BY <1>3, <4>1
      <4>4. x.sched = z /\ Related(x, proc)
        BY <1>6, <4>2, <4>3 DEF Related, ProcFields
      <4>5. QED
        BY <4>1, <4>4
    <3>3. Related(q, proc) /\ q.pc \in {"idle", "claims"} /\ q.up /\ OpenIn(q, d)
      BY <1>6, <3>1, <3>2, SynchronizedIsOpen
    <3>4. QED
      BY <1>6, <3>3, AtRest
  <2>3. QED
    BY <2>1, <2>2
<1>8. CASE proc' = q /\ UNCHANGED <<disk, kernel, hist>>
  <2>1. ProcOK(q, disk.file, disk.synced, kernel, hist) /\ q.run = proc.run
    <3>1. PICK s : s = disk.synced
      OBVIOUS
    <3>2. QED
      BY <1>1, <1>7, <3>1
  <2>2. QED
    BY <1>8, <2>1, ProcStep
<1>9. CASE Persist(d, q)
  BY <1>6, <1>7, <1>9, PersistKeeps
<1>10. QED
  BY <1>5, <1>8, <1>9

\* A write that stopped half way left its claim open or failed.
LEMMA UnsentHasNoPartial ==
    ASSUME NEW f, NEW k, NEW h, Good(f, k, h), NEW c,
           f.claims[c].status \notin Active \cup {"failed"}
    PROVE  NoPartial(c, k, h.writes)
BY DEF Good, FileOK, Stopped, NoPartial

\* A claim that waits is superseded.
LEMMA PlanSupersedeStep == IInv /\ PlanSupersede => IInv'
<1> SUFFICES ASSUME IInv, PlanSupersede PROVE IInv'
  OBVIOUS
<1>1. PICK f : f = disk.file
  OBVIOUS
<1>2. PICK c \in DOMAIN f.claims :
        f.claims[c].status \in Unsent /\ Persist(WithStatus(c, "invalidated"), proc)
  BY <1>1 DEF PlanSupersede, Supersedable, known, rec, doc, Unsent
<1>3. PICK d : d = [f EXCEPT !.claims[c].status = "invalidated"]
  OBVIOUS
<1>4. PICK q : q = proc
  OBVIOUS
<1>5. Persist(d, q)
  BY <1>1, <1>2, <1>3, <1>4 DEF WithStatus, doc
<1>6. /\ Related(q, proc) /\ proc.run \in Nat /\ proc.up /\ Good(f, kernel, hist)
      /\ Settled(proc, f, kernel, hist.writes) /\ q.pc = "plan"
  BY <1>1, <1>4, ProcFacts, NotSubmitted DEF PlanSupersede
<1>7. Justified("invalidated", f.claims[c], c, kernel, hist.writes)
  <2>1. f.claims[c].status \notin Terminal /\ f.claims[c].status \notin Active \cup {"failed"}
    BY <1>2 DEF Unsent, Terminal, Active
  <2>2. NoPartial(c, kernel, hist.writes)
    BY <1>6, <2>1, UnsentHasNoPartial
  <2>3. QED
    BY <2>1, <2>2 DEF Justified, Unsent, Active
<1>8. Good(d, kernel, hist) /\ Revised(d, f, kernel, hist.writes)
  <2>1. "invalidated" \in Status
    BY DEF Status, Terminal
  <2>2. QED
    BY <1>3, <1>6, <1>7, <2>1, StatusKeeps
<1>9. Settled(proc, d, kernel, hist.writes)
  BY <1>6, <1>8, SettledStays
<1>10. /\ q.at.gen # 0 /\ Len(f.claims) < MaxClaims /\ q.up
       /\ KnownIn(q, f)
  BY <1>1, <1>4, <1>6 DEF IInv, ProcOK, Progress, Scheduled, KnownIn
<1>11. Len(d.claims) < MaxClaims /\ KnownIn(q, d)
  BY <1>8, <1>10 DEF Revised, KnownIn
<1>12. ProcOK(q, d, d, kernel, hist) /\ q.run = proc.run
  BY <1>6, <1>9, <1>10, <1>11, AtPlan
<1>13. QED
  BY <1>5, <1>8, <1>12, PersistKeeps

\* Document d is f with one more claim.
Extended(d, f, r) ==
    /\ d \in Docs /\ d.entry = f.entry /\ Len(d.claims) = Len(f.claims) + 1
    /\ DOMAIN d.claims = DOMAIN f.claims \cup {Len(f.claims) + 1}
    /\ Len(f.claims) + 1 \notin DOMAIN f.claims
    /\ d.claims[Len(f.claims) + 1] = r
    /\ \A c \in DOMAIN f.claims : d.claims[c] = f.claims[c]

\* Appending a record keeps a document.
LEMMA AppendRecord ==
    ASSUME NEW f \in Docs, NEW r \in Record, NEW d, d = [f EXCEPT !.claims = Append(@, r)]
    PROVE  Extended(d, f, r)
<1>1. PICK s \in Seq(Record) : s = f.claims
  BY ClaimsOf
<1>2. PICK t : t = Append(s, r)
  OBVIOUS
<1>3. PICK n \in Nat : n = Len(s)
  BY LenProperties
<1>4. /\ t \in Seq(Record) /\ Len(t) = n + 1 /\ \A i \in 1 .. n : t[i] = s[i] /\ t[n + 1] = r
  BY <1>2, <1>3, AppendProperties
<1>5. d.entry = f.entry /\ d.claims = t
  BY <1>1, <1>2 DEF Docs
<1>6. d \in Docs
  <2>1. PICK E : E = Entry
    OBVIOUS
  <2>2. PICK S : S = Seq(Record)
    OBVIOUS
  <2>3. f \in [entry : E, claims : S] /\ t \in S
    BY <1>4, <2>1, <2>2 DEF Docs
  <2>4. d = [f EXCEPT !.claims = t]
    BY <1>1, <1>2
  <2>5. d \in [entry : E, claims : S]
    BY <2>3, <2>4
  <2>6. QED
    BY <2>1, <2>2, <2>5 DEF Docs
<1>7. DOMAIN t = 1 .. n + 1 /\ DOMAIN s = 1 .. n
  BY <1>3, <1>4, LenProperties
<1>8. t[n + 1] = r
  BY <1>2, <1>3, AppendProperties
<1>9. DOMAIN t = DOMAIN s \cup {n + 1} /\ n + 1 \notin DOMAIN s
  BY <1>7
<1>10. QED
  BY <1>1, <1>3, <1>4, <1>5, <1>6, <1>7, <1>8, <1>9 DEF Extended

\* A new claim for the present intent agrees with history.
LEMMA PlanKeeps ==
    ASSUME NEW f, NEW k, NEW h, Good(f, k, h), Len(f.claims) < MaxClaims,
           NEW r \in Record, r.status = "planned", r.rev = f.entry.rev,
           r.write = f.entry.write, NEW d, d = [f EXCEPT !.claims = Append(@, r)]
    PROVE  Good(d, k, h) /\ Extended(d, f, r)
<1>1. PICK ws : ws = h.writes
  OBVIOUS
<1>2. /\ DocOK(f) /\ Truthful(f, k, ws) /\ Intent(f, h.latest)
      /\ Placed(f, k, ws) /\ Resolvable(f, k, ws) /\ Stopped(f, k, ws)
      /\ Attempted(f, k) /\ Reported(k, ws)
  BY <1>1 DEF Good, Readable, FileOK
<1>3. f \in Docs /\ Extended(d, f, r)
  BY <1>2, AppendRecord DEF DocOK
<1>4. PICK n \in Nat : n = Len(f.claims)
  BY <1>3, ClaimsOf
<1>5. /\ d \in Docs /\ d.entry = f.entry /\ Len(d.claims) = n + 1
      /\ DOMAIN d.claims = DOMAIN f.claims \cup {n + 1} /\ n + 1 \notin DOMAIN f.claims
      /\ d.claims[n + 1] = r /\ \A c \in DOMAIN f.claims : d.claims[c] = f.claims[c]
  BY <1>3, <1>4 DEF Extended
<1>6. DocOK(d)
  BY <1>4, <1>5, BoundsAssumption DEF DocOK
<1>7. Clear(n + 1, k, ws)
  BY <1>2, <1>5 DEF Clear, Placed
<1>8. Truthful(d, k, ws)
  BY <1>2, <1>5, <1>7 DEF Truthful
<1>9. Intent(d, h.latest)
  <2>1. f.entry.rev \in Nat
    BY <1>3, ClaimsOf DEF Entry
  <2>2. QED
    BY <1>2, <1>5, <2>1 DEF Intent
<1>10. Placed(d, k, ws)
  BY <1>2, <1>5 DEF Placed
<1>11. Resolvable(d, k, ws)
  <2> SUFFICES ASSUME NEW w \in ws, w.gen = k.gen, d.claims[w.claim].status \in Active,
                      k.plugged, ~Forgotten(w, k.seq)
               PROVE  Logged(k, RequestOf(d, w.claim), w.seq)
                      /\ Answers(k, RequestOf(d, w.claim), w.outcome)
    BY DEF Resolvable
  <2>1. PICK c \in DOMAIN f.claims : c = w.claim
    BY <1>2 DEF Placed
  <2>2. d.claims[c] = f.claims[c]
    BY <1>5
  <2>3. RequestOf(d, c) = RequestOf(f, c)
    BY <2>2 DEF RequestOf
  <2>4. QED
    BY <1>2, <2>1, <2>2, <2>3 DEF Resolvable
<1>12. Stopped(d, k, ws)
  BY <1>2, <1>5 DEF Stopped, Placed
<1>13. Attempted(d, k)
  BY <1>2, <1>5 DEF Attempted
<1>14. QED
  BY <1>1, <1>2, <1>3, <1>6, <1>8, <1>9, <1>10, <1>11, <1>12, <1>13
     DEF Good, Readable, FileOK

\* A claim is planned.
LEMMA PlanClaimStep == IInv /\ PlanClaim => IInv'
<1> SUFFICES ASSUME IInv, PlanClaim PROVE IInv'
  OBVIOUS
<1>1. PICK f : f = disk.file
  OBVIOUS
<1>2. PICK b : b = (proc.trigger \in Gated) /\ b \in BOOLEAN
  <2>1. (proc.trigger \in Gated) \in BOOLEAN
    OBVIOUS
  <2>2. QED
    BY <2>1
<1>3. PICK r : r = [gen |-> proc.at.gen, rev |-> f.entry.rev, write |-> f.entry.write,
                    gated |-> b, status |-> "planned", attempt |-> 0, nonce |-> 0]
  OBVIOUS
<1>4. PICK d : d = [f EXCEPT !.claims = Append(@, r)]
  OBVIOUS
<1>5. PICK tr : tr = proc.trigger
  OBVIOUS
<1>6. PICK x : x = [proc EXCEPT !.sched = Synchronize(d, tr)]
  OBVIOUS
<1>7. PICK q : q = ToClaims(x)
  OBVIOUS
<1>8. Persist(d, q) /\ proc.pc = "plan" /\ f.entry.write # 0
  <2>1. r = [gen |-> proc.at.gen, rev |-> doc.entry.rev, write |-> doc.entry.write,
             gated |-> proc.trigger \in Gated, status |-> "planned", attempt |-> 0,
             nonce |-> 0]
    BY <1>1, <1>2, <1>3 DEF doc
  <2>2. d = [doc EXCEPT !.claims = Append(@, r)]
    BY <1>1, <1>4 DEF doc
  <2>3. QED
    BY <1>1, <1>5, <1>6, <1>7, <2>1, <2>2 DEF PlanClaim, doc
<1>9. /\ Related(proc, proc) /\ proc.run \in Nat /\ proc.up /\ Good(f, kernel, hist)
      /\ Settled(proc, f, kernel, hist.writes) /\ f \in Docs
  BY <1>1, <1>8, ProcFacts, NotSubmitted
<1>10. proc.at.gen # 0 /\ Len(f.claims) < MaxClaims
  BY <1>1, <1>8 DEF IInv, ProcOK, Progress
<1>11. r \in Record
  <2>1. f.entry \in Entry
    BY <1>9, ClaimsOf
  <2>2. /\ proc.at.gen \in 1 .. MaxGenerations /\ f.entry.rev \in Nat
        /\ f.entry.write \in 1 .. MaxUserWrites /\ 0 \in 0 .. MaxNonce /\ "planned" \in Status
    <3>1. MaxGenerations \in Nat /\ MaxUserWrites \in Nat /\ MaxNonce \in Nat
      BY BoundsAssumption
    <3>2. QED
      BY <1>8, <1>9, <1>10, <2>1, <3>1 DEF Related, Entry, Status
  <2>3. QED
    BY <1>2, <1>3, <2>2 DEF Record
<1>12. Good(d, kernel, hist) /\ Extended(d, f, r)
  <2>1. r.status = "planned" /\ r.rev = f.entry.rev /\ r.write = f.entry.write
    BY <1>3
  <2>2. QED
    BY <1>4, <1>9, <1>10, <1>11, <2>1, PlanKeeps
<1>13. Settled(proc, d, kernel, hist.writes)
  <2>1. Placed(f, kernel, hist.writes)
    BY <1>9 DEF Good, FileOK
  <2>2. \A c \in DOMAIN f.claims : d.claims[c] = f.claims[c]
    BY <1>12 DEF Extended
  <2>3. QED
    BY <1>9, <2>1, <2>2 DEF Settled, Placed
<1>14. x.sched = Synchronize(d, tr) /\ Related(x, proc)
  <2>1. PICK s : s = Synchronize(d, tr)
    OBVIOUS
  <2>2. DOMAIN s = Claims
    BY <2>1 DEF Synchronize
  <2>3. x = [proc EXCEPT !.sched = s]
    BY <1>6, <2>1
  <2>4. x.sched = s /\ Related(x, proc)
    BY <1>9, <2>2, <2>3 DEF Related, ProcFields
  <2>5. QED
    BY <2>1, <2>4
<1>15. Related(q, proc) /\ q.pc \in {"idle", "claims"} /\ q.up /\ OpenIn(q, d)
  BY <1>7, <1>9, <1>14, SynchronizedIsOpen
<1>16. ProcOK(q, d, d, kernel, hist) /\ q.run = proc.run
  BY <1>9, <1>13, <1>15, AtRest
<1>17. QED
  BY <1>8, <1>12, <1>16, PersistKeeps

-----------------------------------------------------------------------------
(* Claims.                                                                 *)

\* A claim that is due is open, and the process is between two claims.
LEMMA DueFacts ==
    ASSUME IInv, NEW c \in Claims, Due(c)
    PROVE  /\ c \in DOMAIN disk.file.claims /\ disk.file.claims[c].status \notin Terminal
           /\ proc.up /\ proc.pc \in {"idle", "claims"}
           /\ Settled(proc, disk.file, kernel, hist.writes)
<1>1. proc.sched[c] # "none" /\ proc.pc \in {"idle", "claims"}
  BY DEF Due, Idle
<1>2. proc.up
  BY <1>1, ProcFacts DEF Due, Idle
<1>3. OpenIn(proc, disk.file) /\ Settled(proc, disk.file, kernel, hist.writes)
  BY <1>1, ProcFacts, NotSubmitted
<1>4. QED
  BY <1>1, <1>2, <1>3 DEF OpenIn

\* The process after it has dealt with claim c.
LEMMA RescheduledIs ==
    ASSUME IInv, NEW c \in Claims, NEW v, NEW q, q = Rescheduled(c, v)
    PROVE  /\ Related(q, proc) /\ q.pc = "idle" /\ q.sched[c] = v
           /\ \A i \in Claims \ {c} : q.sched[i] = proc.sched[i]
<1>1. Related(proc, proc)
  BY ProcFacts
<1>2. /\ DOMAIN q = ProcFields /\ q.run = proc.run /\ q.up = proc.up /\ q.nonce = proc.nonce
      /\ q.user = proc.user /\ q.pc = "idle" /\ q.at = proc.at
      /\ q.sched = [proc.sched EXCEPT ![c] = v]
  BY <1>1 DEF Rescheduled, Related, ProcFields
<1>3. DOMAIN proc.sched = Claims
  BY <1>1 DEF Related
<1>4. QED
  BY <1>1, <1>2, <1>3 DEF Related

\* A barred claim is looked at again later.
LEMMA AdvanceBarredStep == ASSUME NEW c \in Claims PROVE IInv /\ AdvanceBarred(c) => IInv'
<1> SUFFICES ASSUME IInv, AdvanceBarred(c) PROVE IInv'
  OBVIOUS
<1>1. /\ c \in DOMAIN disk.file.claims /\ disk.file.claims[c].status \notin Terminal
      /\ proc.up /\ Settled(proc, disk.file, kernel, hist.writes)
  BY DueFacts DEF AdvanceBarred
<1>2. PICK y : y = Rescheduled(c, "wait")
  OBVIOUS
<1>3. PICK z : z = Synchronize(disk.file, "retry")
  OBVIOUS
<1>4. PICK q : q = [y EXCEPT !.sched = [z EXCEPT ![c] = "wait"]]
  OBVIOUS
<1>5. proc' = q /\ UNCHANGED <<disk, kernel, hist>>
  BY <1>2, <1>3, <1>4 DEF AdvanceBarred, doc
<1>6. Related(y, proc) /\ y.pc = "idle" /\ proc.run \in Nat
  BY <1>2, RescheduledIs, ProcFacts
<1>7. /\ DOMAIN z = Claims
      /\ \A i \in Claims : z[i] # "none" =>
            i \in DOMAIN disk.file.claims /\ disk.file.claims[i].status \notin Terminal
  BY <1>3 DEF Synchronize
<1>8. /\ DOMAIN q = ProcFields /\ q.run = y.run /\ q.up = y.up /\ q.nonce = y.nonce
      /\ q.user = y.user /\ q.pc = "idle" /\ q.at = y.at
      /\ q.sched = [z EXCEPT ![c] = "wait"]
  BY <1>4, <1>6 DEF Related, ProcFields
<1>9. Related(q, proc)
  BY <1>6, <1>7, <1>8 DEF Related
<1>10. OpenIn(q, disk.file)
  <2> SUFFICES ASSUME NEW i \in Claims, q.sched[i] # "none"
               PROVE  i \in DOMAIN disk.file.claims /\ disk.file.claims[i].status \notin Terminal
    BY DEF OpenIn
  <2>1. CASE i = c
    BY <1>1, <2>1
  <2>2. CASE i # c
    BY <1>7, <1>8, <2>2
  <2>3. QED
    BY <2>1, <2>2
<1>11. ProcOK(q, disk.file, disk.synced, kernel, hist) /\ q.run = proc.run
  BY <1>1, <1>6, <1>8, <1>9, <1>10, AtRest
<1>12. QED
  BY <1>5, <1>11, ProcStep

\* The record of claim c gets a justified status and the claim its place on the
\* schedule.
LEMMA SettleKeeps ==
    ASSUME IInv, NEW c \in Claims, c \in DOMAIN disk.file.claims, NEW s \in Status, NEW v,
           s \in Terminal => v = "none", proc.pc # "plan",
           Persist(WithStatus(c, s), Rescheduled(c, v)),
           Justified(s, disk.file.claims[c], c, kernel, hist.writes),
           NEW d, d = [disk.file EXCEPT !.claims[c].status = s],
           Settled(proc, d, kernel, hist.writes)
    PROVE  IInv'
<1>1. PICK f : f = disk.file
  OBVIOUS
<1>2. PICK q : q = Rescheduled(c, v)
  OBVIOUS
<1>3. Persist(d, q)
  BY <1>2 DEF WithStatus, doc
<1>4. /\ Related(q, proc) /\ q.pc = "idle" /\ q.sched[c] = v
      /\ \A i \in Claims \ {c} : q.sched[i] = proc.sched[i]
  BY <1>2, RescheduledIs
<1>5. Good(f, kernel, hist) /\ f \in Docs /\ OpenIn(proc, f) /\ proc.run \in Nat
  BY <1>1, ProcFacts
<1>6. Good(d, kernel, hist)
  BY <1>1, <1>5, StatusKeeps
<1>7. PICK r : r = [f.claims[c] EXCEPT !.status = s]
  OBVIOUS
<1>8. Replaced(d, f, c, r) /\ r.status = s
  <2>1. c \in DOMAIN f.claims /\ d = [f EXCEPT !.claims[c].status = s]
    BY <1>1
  <2>2. QED
    BY <1>5, <1>7, <2>1, StatusReplaces
<1>9. OpenIn(q, d)
  <2> SUFFICES ASSUME NEW i \in Claims, q.sched[i] # "none"
               PROVE  i \in DOMAIN d.claims /\ d.claims[i].status \notin Terminal
    BY DEF OpenIn
  <2>1. CASE i = c
    BY <1>1, <1>4, <1>8, <2>1 DEF Replaced
  <2>2. CASE i # c
    BY <1>4, <1>5, <1>8, <2>2 DEF Replaced, OpenIn
  <2>3. QED
    BY <2>1, <2>2
<1>10. ProcOK(q, d, d, kernel, hist) /\ q.run = proc.run
  BY <1>4, <1>5, <1>9, AtRest
<1>11. QED
  BY <1>3, <1>6, <1>10, PersistKeeps

\* The same before the claim's own submission.
LEMMA SettleBefore ==
    ASSUME IInv, NEW c \in Claims, c \in DOMAIN disk.file.claims, NEW s \in Status, NEW v,
           s \in Terminal => v = "none", proc.pc \notin {"plan", "submitted"},
           Persist(WithStatus(c, s), Rescheduled(c, v)),
           Justified(s, disk.file.claims[c], c, kernel, hist.writes)
    PROVE  IInv'
<1>1. PICK f : f = disk.file
  OBVIOUS
<1>2. PICK d : d = [f EXCEPT !.claims[c].status = s]
  OBVIOUS
<1>3. Good(f, kernel, hist) /\ Settled(proc, f, kernel, hist.writes)
  BY <1>1, ProcFacts, NotSubmitted
<1>4. Revised(d, f, kernel, hist.writes)
  BY <1>1, <1>2, <1>3, StatusKeeps
<1>5. Settled(proc, d, kernel, hist.writes)
  BY <1>3, <1>4, SettledStays
<1>6. QED
  BY <1>1, <1>2, <1>5, SettleKeeps

-----------------------------------------------------------------------------
(* What the transport answers.                                             *)

NoTrace(k, q) ==
    /\ \A i \in DOMAIN k.results : ~SameRequest(k.results[i], q)
    /\ \A i \in DOMAIN k.tombs : ~SameRequest(k.tombs[i], q)

HasResult(k, q, a) ==
    \E i \in DOMAIN k.results : SameRequest(k.results[i], q) /\ k.results[i].status = a

\* An outcome is that of a result, and not observed is what the journal of this
\* generation has no trace of.
LEMMA QueryFacts ==
    ASSUME KernelOK(kernel), NEW q, NEW a, a = Query(q)
    PROVE  /\ a # "unavailable" => kernel.plugged
           /\ a \in Outcomes => HasResult(kernel, q, a)
           /\ a = "not_observed" => NoTrace(kernel, q)
<1>1. PICK k : k = kernel
  OBVIOUS
<1>2. \A i \in DOMAIN k.results : k.results[i].status \in Outcomes
  <2>1. PICK s \in Seq(JournalEntry) : s = k.results
    BY <1>1 DEF KernelOK
  <2>2. DOMAIN s = 1 .. Len(s) /\ \A i \in 1 .. Len(s) : s[i] \in JournalEntry
    BY LenProperties, ElementOfSeq
  <2>3. QED
    BY <2>1, <2>2 DEF JournalEntry
<1>3. PICK R : R = {i \in DOMAIN k.results : SameRequest(k.results[i], q)}
  OBVIOUS
<1>4. PICK T : T = {i \in DOMAIN k.tombs : SameRequest(k.tombs[i], q)}
  OBVIOUS
<1>5. PICK x : x = CHOOSE i \in R : TRUE
  OBVIOUS
<1>6. R # {} => x \in R
  BY <1>5
<1>7. a = IF ~k.plugged \/ k.gen # proc.at.gen THEN "unavailable"
          ELSE IF R # {} THEN k.results[x].status
          ELSE IF T # {} THEN "evicted"
          ELSE IF q.nonce > k.high THEN "not_observed"
          ELSE "unavailable"
  BY <1>1, <1>3, <1>4, <1>5 DEF Query
<1>8. a # "unavailable" => kernel.plugged
  BY <1>1, <1>7
<1>9. a \in Outcomes => HasResult(kernel, q, a)
  <2> SUFFICES ASSUME a \in Outcomes PROVE HasResult(kernel, q, a)
    OBVIOUS
  <2>1. R # {} /\ a = k.results[x].status
    BY <1>7 DEF Outcomes
  <2>2. QED
    BY <1>1, <1>3, <1>6, <2>1 DEF HasResult
<1>10. a = "not_observed" => NoTrace(kernel, q)
  <2> SUFFICES ASSUME a = "not_observed" PROVE NoTrace(kernel, q)
    OBVIOUS
  <2>1. R = {} /\ T = {}
    BY <1>2, <1>3, <1>6, <1>7 DEF Outcomes
  <2>2. QED
    BY <1>1, <1>3, <1>4, <2>1 DEF NoTrace
<1>11. QED
  BY <1>8, <1>9, <1>10

\* The request of a claim, as a value of the file.
LEMMA RequestIs ==
    ASSUME NEW c
    PROVE  Request(c) = RequestOf(disk.file, c)
BY DEF Request, RequestOf, rec, doc

\* What the kernel knows of an open attempt is all there is to know: without a
\* trace of it, or with the result that nothing was sent, no write is remembered.
LEMMA AnswerClears ==
    ASSUME IInv, NEW c, c \in DOMAIN disk.file.claims,
           disk.file.claims[c].status \in Active,
           Query(Request(c)) \in {"unsent", "not_observed"}
    PROVE  Clear(c, kernel, hist.writes)
<1>1. PICK q : q = RequestOf(disk.file, c)
  OBVIOUS
<1>2. PICK a : a = Query(q)
  OBVIOUS
<1>3. a \in {"unsent", "not_observed"}
  BY <1>1, <1>2, RequestIs
<1>4. /\ a # "unavailable" => kernel.plugged
      /\ a \in Outcomes => HasResult(kernel, q, a)
      /\ a = "not_observed" => NoTrace(kernel, q)
  BY <1>2, QueryFacts DEF IInv
<1>5. Resolvable(disk.file, kernel, hist.writes) /\ HistoryOK(hist.writes, kernel, proc.run)
  BY DEF IInv, Good, FileOK
<1>6. SUFFICES ASSUME NEW w \in hist.writes, w.claim = c, w.gen = kernel.gen,
                      ~Forgotten(w, kernel.seq)
               PROVE  FALSE
  BY DEF Clear
<1>7. Logged(kernel, q, w.seq) /\ Answers(kernel, q, w.outcome)
  BY <1>1, <1>3, <1>4, <1>5, <1>6 DEF Resolvable
<1>8. w.outcome \in Begun
  BY <1>5 DEF HistoryOK
<1>9. CASE a = "unsent"
  <2>1. HasResult(kernel, q, "unsent")
    BY <1>4, <1>9 DEF Outcomes
  <2>2. w.outcome = "unsent"
    BY <1>7, <2>1 DEF HasResult, Answers
  <2>3. QED
    BY <1>8, <2>2 DEF Begun
<1>10. CASE a = "not_observed"
  BY <1>4, <1>7, <1>10 DEF Logged, NoTrace
<1>11. QED
  BY <1>3, <1>9, <1>10

\* A result of success was a write, and a result other than partial is not of a
\* write that stopped half way.
LEMMA AnswerIsTrue ==
    ASSUME IInv, NEW c, c \in DOMAIN disk.file.claims,
           disk.file.claims[c].status \in Active, NEW a, a = Query(Request(c))
    PROVE  /\ a = "succeeded" => SomeSucceeded(c, disk.file.claims[c].gen, hist.writes)
           /\ a \in {"succeeded", "revoked"} => NoPartial(c, kernel, hist.writes)
<1>1. PICK f : f = disk.file
  OBVIOUS
<1>2. PICK q : q = RequestOf(f, c)
  OBVIOUS
<1>3. a = Query(q)
  BY <1>1, <1>2, RequestIs
<1>4. /\ a # "unavailable" => kernel.plugged
      /\ a \in Outcomes => HasResult(kernel, q, a)
  BY <1>3, QueryFacts DEF IInv
<1>5. Resolvable(f, kernel, hist.writes) /\ Reported(kernel, hist.writes) /\ f \in Docs
  BY <1>1, ProcFacts DEF IInv, Good, FileOK
<1>6. a = "succeeded" => SomeSucceeded(c, f.claims[c].gen, hist.writes)
  <2> SUFFICES ASSUME a = "succeeded" PROVE SomeSucceeded(c, f.claims[c].gen, hist.writes)
    OBVIOUS
  <2>1. PICK i \in DOMAIN kernel.results :
          SameRequest(kernel.results[i], q) /\ kernel.results[i].status = "succeeded"
    BY <1>4 DEF Outcomes, HasResult
  <2>2. PICK t : t = kernel.results[i].tx
    OBVIOUS
  <2>3. t = <<f.claims[c].gen, c, f.claims[c].attempt>>
    BY <1>2, <2>1, <2>2 DEF SameRequest, RequestOf
  <2>4. f.claims[c].gen # 0
    BY <1>1, <1>5, ClaimsOf DEF Record
  <2>5. t # Other /\ t[1] = f.claims[c].gen /\ t[2] = c
    BY <2>3, <2>4 DEF Other
  <2>6. WasWritten(kernel.results[i], hist.writes)
    BY <1>5, <2>1, <2>2, <2>5 DEF Reported, Begun
  <2>7. QED
    BY <2>1, <2>2, <2>5, <2>6 DEF WasWritten, SomeSucceeded
<1>7. a \in {"succeeded", "revoked"} => NoPartial(c, kernel, hist.writes)
  <2> SUFFICES ASSUME a \in {"succeeded", "revoked"}, NEW w \in hist.writes, w.claim = c,
                      w.gen = kernel.gen, w.outcome = "partial", ~Forgotten(w, kernel.seq)
               PROVE  FALSE
    BY DEF NoPartial
  <2>1. HasResult(kernel, q, a) /\ kernel.plugged
    BY <1>4 DEF Outcomes
  <2>2. Answers(kernel, q, "partial")
    BY <1>1, <1>2, <1>5, <2>1 DEF Resolvable
  <2>3. a = "partial"
    BY <2>1, <2>2 DEF HasResult, Answers
  <2>4. QED
    BY <2>3
<1>8. QED
  BY <1>1, <1>6, <1>7

\* finish_record closes or defers an open attempt as the transport's answer
\* justifies.
LEMMA FinishJustified ==
    ASSUME IInv, NEW c, c \in DOMAIN disk.file.claims,
           disk.file.claims[c].status \in Active,
           NEW a, a = Query(Request(c)) \/ a = "unavailable", NEW s, s = Finish(a)
    PROVE  /\ s \in Status /\ Justified(s, disk.file.claims[c], c, kernel, hist.writes)
           /\ s = "deferred" => Clear(c, kernel, hist.writes)
           /\ s # "deferred" => s \in Terminal
<1>1. disk.file.claims[c].status \notin Terminal
  BY DEF Active, Terminal
<1>2. a = "unavailable" => s = "failed"
  BY DEF Finish
<1>3. CASE s = "failed"
  BY <1>1, <1>3 DEF Justified, Status, Terminal, Active, Unsent
<1>4. CASE s = "deferred"
  <2>1. a \in {"unsent", "not_observed"}
    BY <1>4 DEF Finish
  <2>2. Clear(c, kernel, hist.writes)
    BY <1>2, <1>4, <2>1, AnswerClears
  <2>3. NoPartial(c, kernel, hist.writes)
    BY <2>2 DEF NoPartial, Clear
  <2>4. QED
    BY <1>1, <1>4, <2>2, <2>3 DEF Justified, Status, Terminal
<1>5. CASE s = "succeeded"
  <2>1. a = "succeeded" /\ a = Query(Request(c))
    BY <1>2, <1>5 DEF Finish
  <2>2. /\ SomeSucceeded(c, disk.file.claims[c].gen, hist.writes)
        /\ NoPartial(c, kernel, hist.writes)
    BY <2>1, AnswerIsTrue
  <2>3. QED
    BY <1>1, <1>5, <2>2 DEF Justified, Status, Terminal, Active, Unsent
<1>6. CASE s = "invalidated"
  <2>1. a = "revoked" /\ a = Query(Request(c))
    BY <1>2, <1>6 DEF Finish
  <2>2. NoPartial(c, kernel, hist.writes)
    BY <2>1, AnswerIsTrue
  <2>3. QED
    BY <1>1, <1>6, <2>2 DEF Justified, Status, Terminal, Active, Unsent
<1>7. s \in {"failed", "deferred", "succeeded", "invalidated"}
  BY DEF Finish
<1>8. QED
  BY <1>3, <1>4, <1>5, <1>6, <1>7

-----------------------------------------------------------------------------
(* An advance of a claim up to its attempt.                                *)

\* Deferred, invalidated and retried are open to a claim whose writes, if any,
\* the kernel has forgotten.
LEMMA ClearJustifies ==
    ASSUME NEW r, r.status \notin Terminal, NEW s, s # "succeeded", NEW c, NEW k, NEW ws,
           Clear(c, k, ws)
    PROVE  Justified(s, r, c, k, ws)
<1>1. NoPartial(c, k, ws)
  BY DEF NoPartial, Clear
<1>2. QED
  BY <1>1 DEF Justified

\* The adapter knows nothing or what the kernel answers.
LEMMA ReconcileIs ==
    ASSUME NEW c
    PROVE  Reconcile(c) = Query(Request(c)) \/ Reconcile(c) = "unavailable"
BY DEF Reconcile

\* An earlier process's attempt is closed by what the transport knows of it.
LEMMA AdvanceReconcilesStep ==
    ASSUME NEW c \in Claims PROVE IInv /\ AdvanceReconciles(c) => IInv'
<1> SUFFICES ASSUME IInv, AdvanceReconciles(c) PROVE IInv'
  OBVIOUS
<1>1. PICK a : a = Answer(c)
  OBVIOUS
<1>2. PICK s : s = Finish(a)
  OBVIOUS
<1>3. Due(c) /\ a # "not_observed" /\ Settle(c, s)
  BY <1>1, <1>2 DEF AdvanceReconciles
<1>4. c \in DOMAIN disk.file.claims /\ proc.pc \in {"idle", "claims"}
  BY <1>3, DueFacts
<1>5. disk.file.claims[c].status \in Active /\ a = Reconcile(c)
  BY <1>1, <1>3 DEF Answer, rec, doc
<1>6. a = Query(Request(c)) \/ a = "unavailable"
  BY <1>5, ReconcileIs
<1>7. /\ s \in Status /\ Justified(s, disk.file.claims[c], c, kernel, hist.writes)
      /\ s # "deferred" => s \in Terminal
  BY <1>2, <1>4, <1>5, <1>6, FinishJustified
<1>8. PICK v : v = After(s)
  OBVIOUS
<1>9. s \in Terminal => v = "none"
  BY <1>8 DEF After, Terminal
<1>10. Persist(WithStatus(c, s), Rescheduled(c, v))
  BY <1>3, <1>8 DEF Settle
<1>11. QED
  BY <1>4, <1>7, <1>9, <1>10, SettleBefore

\* A claim that may be attempted has no write the kernel remembers.
LEMMA FreeClears ==
    ASSUME IInv, NEW c \in Claims, Free(c)
    PROVE  Clear(c, kernel, hist.writes)
<1>1. PICK f : f = disk.file
  OBVIOUS
<1>2. c \in DOMAIN f.claims /\ f.claims[c].status \notin Terminal
  BY <1>1, DueFacts DEF Free
<1>3. CASE f.claims[c].status \in Active
  <2>1. Reconcile(c) = "not_observed"
    BY <1>1, <1>3 DEF Free, Answer, rec, doc
  <2>2. Query(Request(c)) = "not_observed"
    BY <2>1, ReconcileIs
  <2>3. QED
    BY <1>1, <1>2, <1>3, <2>2, AnswerClears
<1>4. CASE f.claims[c].status \notin Active
  <2>1. f.claims[c].status \in Unsent
    <3>1. f.claims[c].status \in Status
      BY <1>1, <1>2, ProcFacts, ClaimsOf DEF Record
    <3>2. QED
      BY <1>2, <1>4, <3>1 DEF Status, Unsent
  <2>2. Truthful(f, kernel, hist.writes) /\ Placed(f, kernel, hist.writes)
    BY <1>1 DEF IInv, Good, Readable, FileOK
  <2>3. CASE f.claims[c].gen = kernel.gen
    BY <1>2, <2>1, <2>2, <2>3 DEF Truthful
  <2>4. CASE f.claims[c].gen # kernel.gen
    BY <2>2, <2>4 DEF Placed, Clear
  <2>5. QED
    BY <2>3, <2>4
<1>5. QED
  BY <1>3, <1>4

\* A claim that is not attempted for good.
LEMMA AdvanceInvalidatesStep ==
    ASSUME NEW c \in Claims PROVE IInv /\ AdvanceInvalidates(c) => IInv'
<1> SUFFICES ASSUME IInv, AdvanceInvalidates(c) PROVE IInv'
  OBVIOUS
<1>1. Free(c) /\ Due(c) /\ Persist(WithStatus(c, "invalidated"), Rescheduled(c, "none"))
  BY DEF AdvanceInvalidates, Settle, Free, After
<1>2. /\ c \in DOMAIN disk.file.claims /\ disk.file.claims[c].status \notin Terminal
      /\ proc.pc \in {"idle", "claims"}
  BY <1>1, DueFacts
<1>3. Justified("invalidated", disk.file.claims[c], c, kernel, hist.writes)
  BY <1>1, <1>2, FreeClears, ClearJustifies
<1>4. "invalidated" \in Status
  BY DEF Status, Terminal
<1>5. QED
  BY <1>1, <1>2, <1>3, <1>4, SettleBefore

\* A claim that is not attempted now.
LEMMA AdvanceDefersStep ==
    ASSUME NEW c \in Claims PROVE IInv /\ AdvanceDefers(c) => IInv'
<1> SUFFICES ASSUME IInv, AdvanceDefers(c) PROVE IInv'
  OBVIOUS
<1>1. PICK v : Free(c) /\ Due(c) /\ Persist(WithStatus(c, "deferred"), Rescheduled(c, v))
  BY DEF AdvanceDefers, Free
<1>2. /\ c \in DOMAIN disk.file.claims /\ disk.file.claims[c].status \notin Terminal
      /\ proc.pc \in {"idle", "claims"}
  BY <1>1, DueFacts
<1>3. Justified("deferred", disk.file.claims[c], c, kernel, hist.writes)
  BY <1>1, <1>2, FreeClears, ClearJustifies
<1>4. "deferred" \in Status /\ "deferred" \notin Terminal
  BY DEF Status, Terminal
<1>5. QED
  BY <1>1, <1>2, <1>3, <1>4, SettleBefore

\* The process while an attempt is under way.
LEMMA AtClaim ==
    ASSUME NEW p, NEW d, NEW k, NEW h, NEW q, Related(q, p), p.run \in Nat,
           q.pc \in Mid, q.up, OpenIn(q, d), Settled(p, d, k, h.writes),
           InFlight(q, d, k, h.writes)
    PROVE  ProcOK(q, d, d, k, h) /\ q.run = p.run
<1>1. ProcShape(q)
  BY DEF ProcShape, Related
<1>2. Scheduled(q, d)
  BY DEF Scheduled, OpenIn
<1>3. Progress(q, d, d, k, h)
  BY DEF Progress, Mid
<1>4. OwnWrites(q, d, k, h.writes)
  BY DEF OwnWrites, Settled, Related
<1>5. QED
  BY <1>1, <1>2, <1>3, <1>4 DEF ProcOK, Related

\* Document f with a new attempt of claim c under nonce n.
Prepared(f, c, n) == [f EXCEPT !.claims[c].status = "prepared",
                               !.claims[c].attempt = @ + 1, !.claims[c].nonce = n]

\* The record of a new attempt.
LEMMA PrepareReplaces ==
    ASSUME NEW f \in Docs, NEW c \in DOMAIN f.claims, NEW n \in 0 .. MaxNonce,
           NEW d, d = Prepared(f, c, n)
    PROVE  \E r \in Record :
              /\ Replaced(d, f, c, r) /\ r.status = "prepared"
              /\ r.gen = f.claims[c].gen /\ r.rev = f.claims[c].rev
              /\ r.write = f.claims[c].write /\ r.attempt = f.claims[c].attempt + 1
              /\ r.nonce = n
<1>1. PICK q \in Record : q = f.claims[c]
  BY ClaimsOf
<1>2. PICK r : r = [q EXCEPT !.status = "prepared", !.attempt = q.attempt + 1, !.nonce = n]
  OBVIOUS
<1>3. PICK z \in Nat : z = q.attempt + 1
  BY DEF Record
<1>4. r \in Record
  <2>1. PICK S : S = Status
    OBVIOUS
  <2>2. PICK A : A = 1 .. MaxGenerations
    OBVIOUS
  <2>3. PICK B : B = 1 .. MaxUserWrites
    OBVIOUS
  <2>4. PICK N : N = 0 .. MaxNonce
    OBVIOUS
  <2>5. q \in [gen : A, rev : Nat, write : B, gated : BOOLEAN, status : S, attempt : Nat,
               nonce : N]
    BY <2>1, <2>2, <2>3, <2>4 DEF Record
  <2>6. "prepared" \in S /\ n \in N
    BY <2>1, <2>4 DEF Status, Active
  <2>7. r = [q EXCEPT !.status = "prepared", !.attempt = z, !.nonce = n]
    BY <1>2, <1>3
  <2>8. r \in [gen : A, rev : Nat, write : B, gated : BOOLEAN, status : S, attempt : Nat,
               nonce : N]
    BY <2>5, <2>6, <2>7
  <2>9. QED
    BY <2>1, <2>2, <2>3, <2>4, <2>8 DEF Record
<1>5. d = [f EXCEPT !.claims = [f.claims EXCEPT ![c] = r]]
  BY <1>1, <1>2 DEF Record, Docs, Prepared
<1>6. Replaced(d, f, c, r)
  BY <1>4, <1>5, ReplaceRecord
<1>7. /\ r.status = "prepared" /\ r.gen = q.gen /\ r.rev = q.rev /\ r.write = q.write
      /\ r.attempt = q.attempt + 1 /\ r.nonce = n
  BY <1>2 DEF Record
<1>8. QED
  BY <1>1, <1>4, <1>6, <1>7

\* A claim's attempt is recorded before anything is sent.
LEMMA AdvancePreparesStep ==
    ASSUME NEW c \in Claims PROVE IInv /\ AdvancePrepares(c) => IInv'
<1> SUFFICES ASSUME IInv, AdvancePrepares(c) PROVE IInv'
  OBVIOUS
<1>1. PICK f : f = disk.file
  OBVIOUS
<1>2. PICK ws : ws = hist.writes
  OBVIOUS
<1>3. PICK n \in Nonces :
        Persist([doc EXCEPT !.claims[c].status = "prepared", !.claims[c].attempt = @ + 1,
                            !.claims[c].nonce = n],
                [proc EXCEPT !.pc = "prepared", !.cur = c, !.nonce = n])
  BY DEF AdvancePrepares
<1>4. PICK d : d = Prepared(f, c, n)
  OBVIOUS
<1>5. PICK q : q = [proc EXCEPT !.pc = "prepared", !.cur = c, !.nonce = n]
  OBVIOUS
<1>6. Persist(d, q)
  BY <1>1, <1>3, <1>4, <1>5 DEF Prepared, doc
<1>7. Free(c) /\ Current(c) /\ Due(c) /\ ~Barred(c)
  BY DEF AdvancePrepares, Free
<1>8. /\ c \in DOMAIN f.claims /\ f.claims[c].status \notin Terminal /\ proc.up
      /\ Settled(proc, f, kernel, ws) /\ proc.pc # "plan"
  BY <1>1, <1>2, <1>7, DueFacts
<1>9. /\ Related(proc, proc) /\ proc.run \in Nat /\ OpenIn(proc, f) /\ f \in Docs
      /\ Good(f, kernel, hist)
  BY <1>1, <1>8, ProcFacts
<1>10. n \in 0 .. MaxNonce /\ n \in Nat /\ proc.nonce < n /\ proc.nonce \in Nat
  <2>1. proc.nonce \in Nat /\ MaxNonce \in Nat
    BY <1>9, BoundsAssumption DEF Related
  <2>2. n \in (proc.nonce + 1) .. MaxNonce
    BY <1>3 DEF Nonces
  <2>3. QED
    BY <2>1, <2>2
<1>11. PICK r \in Record :
         /\ Replaced(d, f, c, r) /\ r.status = "prepared"
         /\ r.gen = f.claims[c].gen /\ r.rev = f.claims[c].rev
         /\ r.write = f.claims[c].write /\ r.attempt = f.claims[c].attempt + 1
         /\ r.nonce = n
  BY <1>4, <1>8, <1>9, <1>10, PrepareReplaces
<1>12. \A i \in DOMAIN f.claims : f.claims[i].attempt \in Nat
  BY <1>9, ClaimsOf DEF Record
<1>13. Clear(c, kernel, ws)
  BY <1>2, <1>7, FreeClears
<1>14. Revised(d, f, kernel, ws)
  <2>1. Justified("prepared", f.claims[c], c, kernel, ws)
    BY <1>8, <1>13, ClearJustifies
  <2>2. f.claims[c].attempt <= r.attempt
    BY <1>8, <1>11, <1>12
  <2>3. Allowed(d.claims[c], f.claims[c], c, kernel, ws)
    BY <1>11, <2>1, <2>2 DEF Allowed, Replaced
  <2>4. \A i \in DOMAIN f.claims \ {c} : Allowed(d.claims[i], f.claims[i], i, kernel, ws)
    BY <1>11, <1>12 DEF Allowed, Replaced
  <2>5. QED
    BY <1>11, <2>3, <2>4 DEF Revised, Replaced
<1>15. Good(d, kernel, hist)
  BY <1>2, <1>9, <1>14, RevisionKeeps
<1>16. Settled(proc, d, kernel, ws)
  BY <1>2, <1>8, <1>9, <1>14, SettledStays
<1>17. /\ DOMAIN q = ProcFields /\ q.run = proc.run /\ q.up = proc.up /\ q.nonce = n
       /\ q.user = proc.user /\ q.pc = "prepared" /\ q.at = proc.at
       /\ q.sched = proc.sched /\ q.cur = c
  BY <1>5, <1>9 DEF Related, ProcFields
<1>18. Related(q, proc)
  <2>1. q.at.max \in 0 .. n /\ q.user.nonce \in 0 .. n
    BY <1>9, <1>10, <1>17 DEF Related
  <2>2. QED
    BY <1>9, <1>10, <1>17, <2>1 DEF Related
<1>19. OpenIn(q, d)
  BY <1>9, <1>11, <1>17 DEF OpenIn, Replaced, Terminal
<1>20. InFlight(q, d, kernel, ws)
  <2>1. c \in DOMAIN d.claims /\ d.claims[c] = r /\ r.status \in Active
    BY <1>8, <1>11 DEF Replaced, Active
  <2>2. d.entry.write # 0 /\ d.entry.rev = r.rev /\ r.gen = q.at.gen
    BY <1>1, <1>7, <1>11, <1>17 DEF Current, Replaced, rec, doc
  <2>3. r.nonce <= q.nonce
    BY <1>10, <1>11, <1>17
  <2>4. NotBarred(d, c)
    <3>1. \A i \in DOMAIN f.claims \ {c} :
            f.claims[i].rev = f.claims[c].rev => f.claims[i].status \notin Active \cup {"failed"}
      BY <1>1, <1>7 DEF Barred, known, rec, doc
    <3>2. QED
      BY <1>11, <3>1 DEF NotBarred, Replaced
  <2>5. \A w \in ws : (w.claim = c /\ w.gen = kernel.gen) => w.run < proc.run
    <3> SUFFICES ASSUME NEW w \in ws, w.claim = c, w.gen = kernel.gen PROVE w.run < proc.run
      OBVIOUS
    <3>1. w.run \in Nat /\ w.run <= proc.run
      BY <1>2 DEF IInv, HistoryOK
    <3>2. w.run # proc.run
      BY <1>8 DEF Settled
    <3>3. QED
      BY <1>9, <3>1, <3>2
  <2>6. \A e : Entered(kernel, e) /\ e.tx # Other /\ e.tx[2] = c => e.tx[3] < r.attempt
    <3> SUFFICES ASSUME NEW e, Entered(kernel, e), e.tx # Other, e.tx[2] = c
                 PROVE  e.tx[3] < r.attempt
      OBVIOUS
    <3>1. e.tx[3] \in Nat /\ e.tx[3] <= f.claims[c].attempt
      BY <1>9 DEF Good, FileOK, Attempted
    <3>2. PICK a \in Nat : a = f.claims[c].attempt
      BY <1>8, <1>12
    <3>3. QED
      BY <1>11, <3>1, <3>2
  <2>7. QED
    BY <1>13, <1>17, <2>1, <2>2, <2>3, <2>4, <2>5, <2>6 DEF InFlight
<1>21. q.pc \in Mid /\ q.up
  BY <1>8, <1>17 DEF Mid
<1>22. ProcOK(q, d, d, kernel, hist) /\ q.run = proc.run
  BY <1>2, <1>9, <1>16, <1>18, <1>19, <1>20, <1>21, AtClaim
<1>23. QED
  BY <1>6, <1>15, <1>22, PersistKeeps

-----------------------------------------------------------------------------
(* dispatch_claim.                                                         *)

\* What holds while an attempt is under way.
LEMMA MidFacts ==
    ASSUME IInv, proc.pc \in Mid
    PROVE  /\ InFlight(proc, disk.file, kernel, hist.writes) /\ proc.up
           /\ proc.cur \in Claims /\ proc.cur \in DOMAIN disk.file.claims
           /\ Settled(proc, disk.file, kernel, hist.writes) /\ OpenIn(proc, disk.file)
           /\ proc.pc \notin {"plan", "submitted", "idle"}
<1>1. InFlight(proc, disk.file, kernel, hist.writes)
  BY DEF IInv, ProcOK, Progress
<1>2. proc.pc \notin {"plan", "submitted", "idle"}
  BY DEF Mid
<1>3. proc.cur \in Claims
  <2>1. disk.file \in Docs /\ Len(disk.file.claims) <= MaxClaims
    BY DEF IInv, Good, Readable, DocOK
  <2>2. PICK n \in Nat : n = Len(disk.file.claims) /\ DOMAIN disk.file.claims = 1 .. n
    BY <2>1, ClaimsOf
  <2>3. QED
    BY <1>1, <2>1, <2>2, BoundsAssumption DEF InFlight, Claims
<1>4. QED
  BY <1>1, <1>2, <1>3, ProcFacts, NotSubmitted DEF InFlight

\* The attempt's record moves on, and the process with it.
LEMMA ProceedKeeps ==
    ASSUME IInv, proc.pc \in Mid, NEW s \in Active, NEW x \in Mid, NEW q,
           Persist(WithStatus(proc.cur, s), q),
           DOMAIN q = ProcFields /\ q.run = proc.run /\ q.up = proc.up
               /\ q.nonce = proc.nonce /\ q.user = proc.user /\ q.pc = x
               /\ q.at = proc.at /\ q.sched = proc.sched /\ q.cur = proc.cur
    PROVE  IInv'
<1>1. PICK f : f = disk.file
  OBVIOUS
<1>2. PICK ws : ws = hist.writes
  OBVIOUS
<1>3. PICK c : c = proc.cur
  OBVIOUS
<1>4. PICK d : d = [f EXCEPT !.claims[c].status = s]
  OBVIOUS
<1>6. Persist(d, q)
  BY <1>1, <1>3, <1>4 DEF WithStatus, doc
<1>7. /\ InFlight(proc, f, kernel, ws) /\ c \in Claims /\ c \in DOMAIN f.claims
      /\ Settled(proc, f, kernel, ws) /\ OpenIn(proc, f) /\ proc.up
  BY <1>1, <1>2, <1>3, MidFacts
<1>8. /\ Related(proc, proc) /\ proc.run \in Nat /\ f \in Docs /\ Good(f, kernel, hist)
  BY <1>1, ProcFacts
<1>9. s \in Status /\ s # "succeeded" /\ s \notin Terminal
  BY DEF Status, Active, Terminal
<1>10. Justified(s, f.claims[c], c, kernel, ws)
  <2>1. Clear(c, kernel, ws) /\ f.claims[c].status \notin Terminal
    BY <1>3, <1>7 DEF InFlight, Active, Terminal
  <2>2. QED
    BY <1>9, <2>1, ClearJustifies
<1>11. Good(d, kernel, hist) /\ Revised(d, f, kernel, ws)
  BY <1>2, <1>4, <1>7, <1>8, <1>9, <1>10, StatusKeeps
<1>12. Settled(proc, d, kernel, ws)
  BY <1>2, <1>7, <1>8, <1>11, SettledStays
<1>13. PICK r : r = [f.claims[c] EXCEPT !.status = s]
  OBVIOUS
<1>14. /\ Replaced(d, f, c, r) /\ r.status = s
       /\ r.gen = f.claims[c].gen /\ r.rev = f.claims[c].rev
       /\ r.attempt = f.claims[c].attempt /\ r.nonce = f.claims[c].nonce
  BY <1>4, <1>7, <1>8, <1>9, <1>13, StatusReplaces
<1>15. /\ DOMAIN q = ProcFields /\ q.run = proc.run /\ q.up = proc.up
       /\ q.nonce = proc.nonce /\ q.user = proc.user /\ q.pc = x /\ q.at = proc.at
       /\ q.sched = proc.sched /\ q.cur = c
  BY <1>3
<1>16. Related(q, proc) /\ q.pc \in Mid /\ q.up
  BY <1>7, <1>8, <1>15 DEF Related
<1>17. OpenIn(q, d)
  BY <1>7, <1>9, <1>14, <1>15 DEF OpenIn, Replaced
<1>18. InFlight(q, d, kernel, ws)
  <2>1. NotBarred(d, c)
    BY <1>3, <1>7, <1>14 DEF InFlight, NotBarred, Replaced
  <2>2. /\ d.claims[c] = r /\ c \in DOMAIN d.claims /\ d.entry = f.entry
    BY <1>7, <1>14 DEF Replaced
  <2>3. QED
    BY <1>3, <1>7, <1>14, <1>15, <2>1, <2>2 DEF InFlight
<1>19. ProcOK(q, d, d, kernel, hist) /\ q.run = proc.run
  BY <1>2, <1>8, <1>12, <1>16, <1>17, <1>18, AtClaim
<1>20. QED
  BY <1>6, <1>11, <1>19, PersistKeeps

\* Before its submission an attempt may be put off or closed.
LEMMA MidSettles ==
    ASSUME IInv, proc.pc \in Mid, NEW s \in {"deferred", "invalidated"}, Settle(proc.cur, s)
    PROVE  IInv'
<1>1. PICK c \in Claims : c = proc.cur
  BY MidFacts
<1>2. /\ InFlight(proc, disk.file, kernel, hist.writes) /\ c \in DOMAIN disk.file.claims
      /\ proc.pc \notin {"plan", "submitted"}
  BY <1>1, MidFacts
<1>3. Justified(s, disk.file.claims[c], c, kernel, hist.writes)
  <2>1. Clear(c, kernel, hist.writes) /\ disk.file.claims[c].status \notin Terminal
    BY <1>1, <1>2 DEF InFlight, Active, Terminal
  <2>2. QED
    BY <2>1, ClearJustifies
<1>4. PICK v : v = After(s)
  OBVIOUS
<1>5. s \in Status /\ (s \in Terminal => v = "none")
  BY <1>4 DEF Status, Terminal, After
<1>6. Persist(WithStatus(c, s), Rescheduled(c, v))
  BY <1>1, <1>4 DEF Settle
<1>7. QED
  BY <1>2, <1>3, <1>5, <1>6, SettleBefore

\* The attempt is queued, or the lease is another's and it is put off, or it is closed.
LEMMA SubmitStep == IInv /\ Submit => IInv'
<1> SUFFICES ASSUME IInv, Submit PROVE IInv'
  OBVIOUS
<1>1. proc.pc \in Mid
  BY DEF Submit, Mid
<1>2. PICK q : q = [proc EXCEPT !.pc = "queued", !.prefer = FALSE]
  OBVIOUS
<1>3. CASE Persist(WithStatus(proc.cur, "queued"), q)
  <2>1. "queued" \in Active /\ "queued" \in Mid
    BY DEF Active, Mid
  <2>2. Related(proc, proc)
    BY ProcFacts
  <2>3. DOMAIN q = ProcFields /\ q.run = proc.run /\ q.up = proc.up
            /\ q.nonce = proc.nonce /\ q.user = proc.user /\ q.pc = "queued"
            /\ q.at = proc.at /\ q.sched = proc.sched /\ q.cur = proc.cur
    BY <1>2, <2>2 DEF Related, ProcFields
  <2>4. QED
    BY <1>1, <1>3, <2>1, <2>3, ProceedKeeps
<1>4. CASE \E s \in {"deferred", "invalidated"} : Settle(proc.cur, s)
  BY <1>1, <1>4, MidSettles
<1>5. QED
  BY <1>2, <1>3, <1>4 DEF Submit

\* The attempt is marked before the write.
LEMMA MarkApplyingStep == IInv /\ MarkApplying => IInv'
<1> SUFFICES ASSUME IInv, MarkApplying PROVE IInv'
  OBVIOUS
<1>1. proc.pc \in Mid /\ "applying" \in Active /\ "applying" \in Mid
  BY DEF MarkApplying, Mid, Active
<1>2. PICK q : q = [proc EXCEPT !.pc = "applying"]
  OBVIOUS
<1>3. Persist(WithStatus(proc.cur, "applying"), q)
  BY <1>2 DEF MarkApplying
<1>4. Related(proc, proc)
  BY ProcFacts
<1>5. DOMAIN q = ProcFields /\ q.run = proc.run /\ q.up = proc.up
          /\ q.nonce = proc.nonce /\ q.user = proc.user /\ q.pc = "applying"
          /\ q.at = proc.at /\ q.sched = proc.sched /\ q.cur = proc.cur
  BY <1>2, <1>4 DEF Related, ProcFields
<1>6. QED
  BY <1>1, <1>3, <1>5, ProceedKeeps

\* The transport already knows of the attempt, or cannot tell; or a gate stops it.
LEMMA DispatchStopsStep == IInv /\ DispatchStops => IInv'
<1> SUFFICES ASSUME IInv, DispatchStops PROVE IInv'
  OBVIOUS
<1>1. proc.pc \in Mid
  BY DEF DispatchStops, Mid
<1>2. CASE Settle(proc.cur, "invalidated") \/ Settle(proc.cur, "deferred")
  BY <1>1, <1>2, MidSettles
<1>3. CASE Settle(proc.cur, Finish(Reconcile(proc.cur)))
  <2>1. PICK c \in Claims : c = proc.cur
    BY <1>1, MidFacts
  <2>2. PICK a : a = Reconcile(c)
    OBVIOUS
  <2>3. PICK s : s = Finish(a)
    OBVIOUS
  <2>4. /\ disk.file.claims[c].status \in Active /\ c \in DOMAIN disk.file.claims
        /\ proc.pc \notin {"plan", "submitted"}
    BY <1>1, <2>1, MidFacts DEF InFlight
  <2>5. a = Query(Request(c)) \/ a = "unavailable"
    BY <2>2, ReconcileIs
  <2>6. s \in Status /\ Justified(s, disk.file.claims[c], c, kernel, hist.writes)
    BY <2>3, <2>4, <2>5, FinishJustified
  <2>7. PICK v : v = After(s)
    OBVIOUS
  <2>8. s \in Terminal => v = "none"
    BY <2>7 DEF After, Terminal
  <2>9. Persist(WithStatus(c, s), Rescheduled(c, v))
    BY <1>3, <2>1, <2>2, <2>3, <2>7 DEF Settle
  <2>10. QED
    BY <2>4, <2>6, <2>8, <2>9, SettleBefore
<1>4. QED
  BY <1>2, <1>3 DEF DispatchStops

\* The answer to the submission closes the claim; the submission itself cannot
\* have been forgotten yet.
LEMMA FinishDispatchStep == IInv /\ FinishDispatch => IInv'
<1> SUFFICES ASSUME IInv, FinishDispatch PROVE IInv'
  OBVIOUS
<1>1. PICK f : f = disk.file
  OBVIOUS
<1>2. PICK ws : ws = hist.writes
  OBVIOUS
<1>3. PICK c : c = proc.cur
  OBVIOUS
<1>4. /\ proc.pc = "submitted" /\ c \in DOMAIN f.claims /\ f.claims[c].status \in Active
      /\ OwnWrites(proc, f, kernel, ws) /\ proc.up
  BY <1>1, <1>2, <1>3, ProcFacts DEF FinishDispatch, IInv, ProcOK, Progress
<1>5. c \in Claims
  <2>1. f \in Docs /\ Len(f.claims) <= MaxClaims
    BY <1>1 DEF IInv, Good, Readable, DocOK
  <2>2. PICK n \in Nat : n = Len(f.claims) /\ DOMAIN f.claims = 1 .. n
    BY <2>1, ClaimsOf
  <2>3. QED
    BY <1>4, <2>1, <2>2, BoundsAssumption DEF Claims
<1>6. PICK a : a = Query(Request(c))
  OBVIOUS
<1>7. PICK s : s = Finish(a)
  OBVIOUS
<1>8. /\ s \in Status /\ Justified(s, f.claims[c], c, kernel, ws)
      /\ s = "deferred" => Clear(c, kernel, ws)
      /\ s # "deferred" => s \in Terminal
  BY <1>1, <1>2, <1>4, <1>6, <1>7, FinishJustified
<1>9. PICK d : d = [f EXCEPT !.claims[c].status = s]
  OBVIOUS
<1>10. f \in Docs /\ Good(f, kernel, hist) /\ KernelOK(kernel)
  BY <1>1, ProcFacts
<1>11. PICK r : r = [f.claims[c] EXCEPT !.status = s]
  OBVIOUS
<1>12. Replaced(d, f, c, r) /\ r.status = s
  BY <1>4, <1>8, <1>9, <1>10, <1>11, StatusReplaces
<1>13. Settled(proc, d, kernel, ws)
  <2> SUFFICES ASSUME NEW w \in ws, w.run = proc.run, w.gen = kernel.gen
               PROVE  d.claims[w.claim].status \in Terminal
    BY DEF Settled
  <2>1. CASE f.claims[w.claim].status \in Terminal
    <3>1. w.claim # c /\ w.claim \in DOMAIN f.claims
      BY <1>2, <1>4, <1>10, <2>1 DEF Active, Terminal, Good, FileOK, Placed
    <3>2. QED
      BY <1>12, <2>1, <3>1 DEF Replaced
  <2>2. CASE w.claim = c /\ w.seq = kernel.seq
    <3>1. ~Forgotten(w, kernel.seq)
      <4>1. kernel.seq \in Nat /\ ResultCapacity \in Nat \ {0} /\ TombstoneCapacity \in Nat
        BY <1>10, BoundsAssumption DEF KernelOK
      <4>2. QED
        BY <2>2, <4>1 DEF Forgotten
    <3>2. ~Clear(c, kernel, ws)
      BY <2>2, <3>1 DEF Clear
    <3>3. QED
      BY <1>8, <1>12, <2>2, <3>2 DEF Replaced
  <2>3. QED
    BY <1>3, <1>4, <2>1, <2>2 DEF OwnWrites
<1>14. PICK v : v = After(s)
  OBVIOUS
<1>15. s \in Terminal => v = "none"
  BY <1>14 DEF After, Terminal
<1>16. Persist(WithStatus(c, s), Rescheduled(c, v)) /\ proc.pc # "plan"
  BY <1>3, <1>4, <1>6, <1>7, <1>14 DEF FinishDispatch, Settle
<1>17. QED
  BY <1>1, <1>2, <1>4, <1>5, <1>8, <1>9, <1>13, <1>15, <1>16, SettleKeeps

-----------------------------------------------------------------------------
(* Submissions.                                                            *)

\* What the kernel has forgotten stays forgotten.
LEMMA ForgottenStays ==
    ASSUME NEW k, KernelOK(k), NEW k2, NEW r, Submitted(k2, k, r), NEW w, w.seq \in Nat,
           Forgotten(w, k.seq)
    PROVE  Forgotten(w, k2.seq)
<1>1. /\ k.seq \in Nat /\ k2.seq = k.seq + 1
      /\ ResultCapacity \in Nat /\ TombstoneCapacity \in Nat
  BY BoundsAssumption DEF KernelOK, Submitted
<1>2. QED
  BY <1>1 DEF Forgotten

\* A claim stays clear.
LEMMA ClearStays ==
    ASSUME NEW k, KernelOK(k), NEW k2, NEW r, Submitted(k2, k, r), NEW ws, NEW run,
           HistoryOK(ws, k, run), NEW c, Clear(c, k, ws)
    PROVE  Clear(c, k2, ws)
<1>1. k2.gen = k.gen
  BY DEF Submitted
<1>2. SUFFICES ASSUME NEW w \in ws, w.claim = c, w.gen = k.gen PROVE Forgotten(w, k2.seq)
  BY <1>1 DEF Clear
<1>3. Forgotten(w, k.seq) /\ w.seq \in Nat
  BY <1>2 DEF Clear, HistoryOK
<1>4. QED
  BY <1>3, ForgottenStays

\* A document agrees with a history to which a submission adds no write.
LEMMA SubmittedReadable ==
    ASSUME NEW k, KernelOK(k), NEW k2, NEW r, Submitted(k2, k, r), NEW h, NEW run,
           HistoryOK(h.writes, k, run), NEW d, Readable(d, k, h)
    PROVE  Readable(d, k2, h)
<1>1. DocOK(d) /\ Truthful(d, k, h.writes) /\ Intent(d, h.latest)
  BY DEF Readable
<1>2. k2.gen = k.gen
  BY DEF Submitted
<1>3. \A c : Clear(c, k, h.writes) => Clear(c, k2, h.writes)
  BY ClearStays
<1>4. Truthful(d, k2, h.writes)
  BY <1>1, <1>2, <1>3 DEF Truthful
<1>5. QED
  BY <1>1, <1>4 DEF Readable

\* So do the writes.
LEMMA SubmittedHistory ==
    ASSUME NEW k, KernelOK(k), NEW k2, NEW r, Submitted(k2, k, r), NEW ws, NEW run,
           HistoryOK(ws, k, run)
    PROVE  HistoryOK(ws, k2, run)
<1>1. k2.gen = k.gen /\ k2.seq = k.seq + 1 /\ k.seq \in Nat
  BY DEF Submitted, KernelOK
<1>2. \A w \in ws : w.seq \in Nat /\ w.seq <= k.seq => w.seq <= k2.seq
  BY <1>1
<1>3. QED
  BY <1>1, <1>2 DEF HistoryOK

\* The entries of the journal after a submission.
LEMMA EnteredAfter ==
    ASSUME NEW k, KernelOK(k), NEW k2, KernelOK(k2), NEW r, Submitted(k2, k, r), NEW e,
           Entered(k2, e)
    PROVE  e = r \/ Entered(k, e)
<1>1. CASE \E i \in DOMAIN k2.results : k2.results[i] = e
  BY <1>1, EntriesAfter DEF Entered
<1>2. CASE \E i \in DOMAIN k2.tombs : k2.tombs[i] = e
  BY <1>2, EntriesAfter
<1>3. QED
  BY <1>1, <1>2 DEF Entered

\* An open attempt that the new entry is not about stays resolvable.
LEMMA StaysResolvable ==
    ASSUME NEW k, KernelOK(k), NEW k2, KernelOK(k2), NEW r, Submitted(k2, k, r),
           NEW f, NEW ws, NEW run, HistoryOK(ws, k, run), Resolvable(f, k, ws),
           NEW w \in ws, w.gen = k2.gen, f.claims[w.claim].status \in Active, k2.plugged,
           ~Forgotten(w, k2.seq), r.tx # RequestOf(f, w.claim).tx
    PROVE  /\ Logged(k2, RequestOf(f, w.claim), w.seq)
           /\ Answers(k2, RequestOf(f, w.claim), w.outcome)
<1>1. PICK q : q = RequestOf(f, w.claim)
  OBVIOUS
<1>2. w.seq \in Nat
  BY DEF HistoryOK
<1>3. ~Forgotten(w, k.seq)
  BY <1>2, ForgottenStays
<1>4. k.gen = k2.gen /\ k.plugged
  BY DEF Submitted
<1>5. Logged(k, q, w.seq) /\ Answers(k, q, w.outcome)
  BY <1>1, <1>3, <1>4 DEF Resolvable
<1>6. Logged(k2, q, w.seq)
  <2>1. ~(k2.seq - w.seq >= ResultCapacity + TombstoneCapacity)
    BY DEF Forgotten
  <2>2. QED
    BY <1>2, <1>5, <2>1, LoggedUntilForgotten
<1>7. Answers(k2, q, w.outcome)
  <2> SUFFICES ASSUME NEW i \in DOMAIN k2.results, SameRequest(k2.results[i], q)
               PROVE  k2.results[i].status = w.outcome
    BY DEF Answers
  <2>1. k2.results[i] # r
    BY <1>1 DEF SameRequest
  <2>2. PICK j \in DOMAIN k.results : k2.results[i] = k.results[j]
    BY <2>1, EntriesAfter
  <2>3. QED
    BY <1>5, <2>2 DEF Answers
<1>8. QED
  BY <1>1, <1>6, <1>7

\* A submission that is no claim's leaves the file in agreement.
LEMMA OtherKeeps ==
    ASSUME NEW k, KernelOK(k), NEW k2, KernelOK(k2), NEW r, Submitted(k2, k, r), r.tx = Other,
           NEW h, NEW run, HistoryOK(h.writes, k, run), NEW f, Good(f, k, h)
    PROVE  Good(f, k2, h)
<1>1. PICK ws : ws = h.writes
  OBVIOUS
<1>2. /\ DocOK(f) /\ Placed(f, k, ws) /\ Resolvable(f, k, ws) /\ Stopped(f, k, ws)
      /\ Attempted(f, k) /\ Reported(k, ws) /\ Readable(f, k, h) /\ HistoryOK(ws, k, run)
  BY <1>1 DEF Good, Readable, FileOK
<1>3. k2.gen = k.gen /\ k2.plugged = k.plugged
  BY DEF Submitted
<1>4. Readable(f, k2, h)
  BY <1>2, SubmittedReadable
<1>5. Placed(f, k2, ws)
  BY <1>2, <1>3 DEF Placed
<1>6. Resolvable(f, k2, ws)
  <2> SUFFICES ASSUME NEW w \in ws, w.gen = k2.gen, f.claims[w.claim].status \in Active,
                      k2.plugged, ~Forgotten(w, k2.seq)
               PROVE  Logged(k2, RequestOf(f, w.claim), w.seq)
                      /\ Answers(k2, RequestOf(f, w.claim), w.outcome)
    BY DEF Resolvable
  <2>1. PICK c \in DOMAIN f.claims : c = w.claim
    BY <1>2, <1>3 DEF Placed
  <2>2. f.claims[c].gen # 0
    BY <1>2, ClaimsOf DEF DocOK, Record
  <2>3. r.tx # RequestOf(f, c).tx
    BY <2>2 DEF RequestOf, Other
  <2>4. QED
    BY <1>2, <2>1, <2>3, StaysResolvable
<1>7. Stopped(f, k2, ws)
  <2> SUFFICES ASSUME NEW w \in ws, w.gen = k2.gen, w.outcome = "partial",
                      ~Forgotten(w, k2.seq)
               PROVE  f.claims[w.claim].status \in Active \cup {"failed"}
    BY DEF Stopped
  <2>1. w.seq \in Nat
    BY <1>2 DEF HistoryOK
  <2>2. ~Forgotten(w, k.seq)
    BY <2>1, ForgottenStays
  <2>3. QED
    BY <1>2, <1>3, <2>2 DEF Stopped
<1>8. Attempted(f, k2)
  <2> SUFFICES ASSUME NEW e, Entered(k2, e), e.tx # Other
               PROVE  /\ e.tx[2] \in DOMAIN f.claims
                      /\ e.tx[3] \in Nat /\ e.tx[3] <= f.claims[e.tx[2]].attempt
    BY DEF Attempted
  <2>1. Entered(k, e)
    BY EnteredAfter
  <2>2. QED
    BY <1>2, <2>1 DEF Attempted
<1>9. Reported(k2, ws)
  <2> SUFFICES ASSUME NEW i \in DOMAIN k2.results, k2.results[i].status \in Begun,
                      k2.results[i].tx # Other
               PROVE  WasWritten(k2.results[i], ws)
    BY DEF Reported
  <2>1. PICK j \in DOMAIN k.results : k2.results[i] = k.results[j]
    BY EntriesAfter
  <2>2. QED
    BY <1>2, <2>1 DEF Reported
<1>10. QED
  BY <1>1, <1>4, <1>5, <1>6, <1>7, <1>8, <1>9 DEF Good, FileOK

\* What the submission of claim c under outcome o adds to the writes so far: a
\* write of this process, unless no frame was sent.
IsWriteOf(w, f, c, k, run, o) ==
    /\ w.gen = k.gen /\ w.claim = c /\ w.rev = f.claims[c].rev
    /\ w.run = run /\ w.seq = k.seq + 1 /\ w.outcome = o /\ w.latest

Grown(ws2, ws, f, c, k, run, o) ==
    /\ ws \subseteq ws2
    /\ \A w \in ws2 : w \notin ws => IsWriteOf(w, f, c, k, run, o) /\ o \in Begun
    /\ o \in Begun => \E w \in ws2 : IsWriteOf(w, f, c, k, run, o)

\* The writes after the submission of an attempt.
LEMMA AttemptHistory ==
    ASSUME NEW k, KernelOK(k), NEW k2, NEW r, Submitted(k2, k, r), NEW p, p.run \in Nat,
           NEW f, NEW ws, HistoryOK(ws, k, p.run), InFlight(p, f, k, ws), FileOK(f, k, ws),
           Rewritten(ws), Repeated(ws),
           NEW o, NEW ws2, Grown(ws2, ws, f, p.cur, k, p.run, o)
    PROVE  HistoryOK(ws2, k2, p.run) /\ Rewritten(ws2) /\ Repeated(ws2)
<1>1. PICK c : c = p.cur
  OBVIOUS
<1>2. PICK m \in Nat : m = k.seq
  BY DEF KernelOK
<1>3. k2.gen = k.gen /\ k2.seq = m + 1 /\ k.gen \in Nat /\ k.gen <= k.gen
  BY <1>2 DEF Submitted, KernelOK
<1>4. HistoryOK(ws, k2, p.run)
  BY SubmittedHistory
<1>5. \A w \in ws2 : w \notin ws =>
        /\ w.gen = k.gen /\ w.claim = c /\ w.rev = f.claims[c].rev
        /\ w.run = p.run /\ w.seq = m + 1 /\ w.outcome \in Begun /\ w.latest
  BY <1>1, <1>2 DEF Grown, IsWriteOf
<1>6. \A w \in ws : w.seq \in Nat /\ (w.gen = k.gen => w.seq <= m)
  BY <1>2 DEF HistoryOK
<1>7. HistoryOK(ws2, k2, p.run)
  <2> SUFFICES ASSUME NEW w \in ws2
               PROVE  /\ w.gen \in Nat /\ w.seq \in Nat /\ w.run \in Nat
                      /\ w.outcome \in Begun /\ w.latest
                      /\ w.gen <= k2.gen /\ w.run <= p.run
                      /\ w.gen = k2.gen => w.seq <= k2.seq
    BY DEF HistoryOK
  <2>1. CASE w \in ws
    BY <1>4, <2>1 DEF HistoryOK
  <2>2. CASE w \notin ws
    <3>1. /\ w.gen = k.gen /\ w.run = p.run /\ w.seq = m + 1 /\ w.outcome \in Begun /\ w.latest
      BY <1>5, <2>2
    <3>2. m + 1 \in Nat /\ m + 1 <= k2.seq /\ p.run <= p.run
      BY <1>3
    <3>3. QED
      BY <1>3, <3>1, <3>2
  <2>3. QED
    BY <2>1, <2>2
<1>8. \A w \in ws : (w.claim = c /\ w.gen = k.gen) => w.run < p.run /\ Forgotten(w, m)
  BY <1>1, <1>2 DEF InFlight, Clear
<1>9. ASSUME NEW v \in ws2, NEW w \in ws2, v.gen = w.gen, v.seq < w.seq
      PROVE  v \in ws /\ (w \notin ws => w.seq - 1 = m)
  <2>1. CASE w \in ws
    <3>1. v \notin ws => v.gen = k.gen /\ v.seq = m + 1
      BY <1>5
    <3>2. v \notin ws => w.seq \in Nat /\ w.seq <= m
      BY <1>6, <1>9, <2>1, <3>1
    <3>3. v \in ws
      BY <1>9, <3>1, <3>2
    <3>4. QED
      BY <2>1, <3>3
  <2>2. CASE w \notin ws
    <3>1. w.seq = m + 1
      BY <1>5, <2>2
    <3>2. v \notin ws => v.seq = m + 1
      BY <1>5
    <3>3. v \in ws
      BY <1>9, <3>1, <3>2
    <3>4. QED
      BY <3>1, <3>3
  <2>3. QED
    BY <2>1, <2>2
<1>10. Rewritten(ws2)
  <2> SUFFICES ASSUME NEW v \in ws2, NEW w \in ws2, v.gen = w.gen, v.claim = w.claim,
                      v.seq < w.seq
               PROVE  v.run < w.run /\ Forgotten(v, w.seq - 1)
    BY DEF Rewritten
  <2>1. v \in ws /\ (w \notin ws => w.seq - 1 = m)
    BY <1>9
  <2>2. CASE w \in ws
    BY <2>1, <2>2 DEF Rewritten
  <2>3. CASE w \notin ws
    <3>1. w.gen = k.gen /\ w.claim = c /\ w.run = p.run
      BY <1>5, <2>3
    <3>2. v.run < p.run /\ Forgotten(v, m)
      BY <1>8, <2>1, <3>1
    <3>3. QED
      BY <2>1, <2>3, <3>1, <3>2
  <2>4. QED
    BY <2>2, <2>3
<1>11. Repeated(ws2)
  <2> SUFFICES ASSUME NEW v \in ws2, NEW w \in ws2, v.rev = w.rev, v.gen = w.gen,
                      v.seq < w.seq, v.outcome = "partial"
               PROVE  Forgotten(v, w.seq - 1)
    BY DEF Repeated
  <2>1. v \in ws /\ (w \notin ws => w.seq - 1 = m)
    BY <1>9
  <2>2. CASE w \in ws
    BY <2>1, <2>2 DEF Repeated
  <2>3. CASE w \notin ws
    <3>1. w.gen = k.gen /\ w.rev = f.claims[c].rev
      BY <1>5, <2>3
    <3>2. /\ v.claim \in DOMAIN f.claims /\ f.claims[v.claim].rev = f.claims[c].rev
      BY <2>1, <3>1 DEF FileOK, Placed
    <3>3. Forgotten(v, m)
      <4>1. SUFFICES ASSUME ~Forgotten(v, m) PROVE FALSE
        OBVIOUS
      <4>2. f.claims[v.claim].status \in Active \cup {"failed"}
        BY <1>2, <2>1, <3>1, <4>1 DEF FileOK, Stopped
      <4>3. v.claim # c
        BY <1>8, <2>1, <3>1, <4>1
      <4>4. QED
        BY <1>1, <3>2, <4>2, <4>3 DEF InFlight, NotBarred
    <3>4. QED
      BY <2>1, <2>3, <3>3
  <2>4. QED
    BY <2>2, <2>3
<1>12. QED
  BY <1>7, <1>10, <1>11

\* The file after the submission of an attempt.
LEMMA AttemptKeeps ==
    ASSUME NEW k, KernelOK(k), NEW k2, KernelOK(k2), NEW r, Submitted(k2, k, r),
           NEW p, NEW f, NEW h, NEW h2, h2.latest = h.latest,
           HistoryOK(h.writes, k, p.run), InFlight(p, f, k, h.writes), Good(f, k, h),
           f.claims[p.cur].gen = k.gen,
           NEW o, o \in Outcomes, Grown(h2.writes, h.writes, f, p.cur, k, p.run, o),
           r = Submission(f.claims[p.cur].nonce, RequestOf(f, p.cur).tx, o)
    PROVE  Good(f, k2, h2)
<1>1. PICK ws : ws = h.writes
  OBVIOUS
<1>2. PICK ws2 : ws2 = h2.writes
  OBVIOUS
<1>3. PICK c : c = p.cur
  OBVIOUS
<1>4. /\ DocOK(f) /\ Placed(f, k, ws) /\ Resolvable(f, k, ws) /\ Stopped(f, k, ws)
      /\ Attempted(f, k) /\ Reported(k, ws) /\ Readable(f, k2, h) /\ HistoryOK(ws, k, p.run)
  BY <1>1, SubmittedReadable DEF Good, Readable, FileOK
<1>5. /\ c \in DOMAIN f.claims /\ f.claims[c].status \in Active /\ Clear(c, k, ws)
      /\ \A e : Entered(k, e) /\ e.tx # Other /\ e.tx[2] = c => e.tx[3] < f.claims[c].attempt
  BY <1>1, <1>3 DEF InFlight
<1>6. PICK a \in Nat : a = f.claims[c].attempt
  BY <1>4, <1>5, ClaimsOf DEF DocOK, Record
<1>7. PICK g \in Nat : g = f.claims[c].gen /\ g # 0 /\ g = k.gen
  <2>1. f.claims[c].gen \in 1 .. MaxGenerations /\ f.claims[c].gen = k.gen
    BY <1>3, <1>4, <1>5, ClaimsOf DEF DocOK, Record
  <2>2. QED
    BY <2>1, BoundsAssumption
<1>8. /\ r.tx = <<g, c, a>> /\ r.status = o /\ r.nonce = f.claims[c].nonce
      /\ SameRequest(r, RequestOf(f, c))
  <2>1. PICK q : q = RequestOf(f, c)
    OBVIOUS
  <2>2. q.nonce = f.claims[c].nonce /\ q.tx = <<g, c, a>>
    BY <1>6, <1>7, <2>1 DEF RequestOf
  <2>3. r = Submission(f.claims[c].nonce, q.tx, o)
    BY <1>3, <2>1
  <2>4. r.nonce = f.claims[c].nonce /\ r.tx = q.tx /\ r.status = o
    BY <2>3 DEF Submission
  <2>5. QED
    BY <2>1, <2>2, <2>4 DEF SameRequest
<1>9. r.tx # Other /\ r.tx[1] = g /\ r.tx[2] = c /\ r.tx[3] = a
  BY <1>7, <1>8 DEF Other
<1>10. k2.gen = k.gen /\ k2.plugged = k.plugged /\ k2.seq = k.seq + 1 /\ k.seq \in Nat
  BY DEF Submitted, KernelOK
<1>11. /\ ws \subseteq ws2
       /\ \A w \in ws2 : w \notin ws =>
            /\ w.gen = k.gen /\ w.claim = c /\ w.rev = f.claims[c].rev
            /\ w.seq = k.seq + 1 /\ w.outcome = o
       /\ o \in Begun => \E w \in ws2 : w.gen = g /\ w.claim = c /\ w.outcome = o
  BY <1>1, <1>2, <1>3, <1>7 DEF Grown, IsWriteOf
<1>12. Readable(f, k2, h2)
  <2>1. Truthful(f, k2, ws) /\ Intent(f, h2.latest)
    BY <1>1, <1>4 DEF Readable
  <2>2. ASSUME NEW i, SomeSucceeded(i, f.claims[i].gen, ws)
        PROVE  SomeSucceeded(i, f.claims[i].gen, ws2)
    BY <1>11, <2>2 DEF SomeSucceeded
  <2>3. ASSUME NEW i, f.claims[i].status \in Unsent, Clear(i, k2, ws)
        PROVE  Clear(i, k2, ws2)
    <3>1. i # c
      BY <1>5, <2>3 DEF Unsent, Active
    <3>2. QED
      BY <1>11, <2>3, <3>1 DEF Clear
  <2>4. Truthful(f, k2, ws2)
    BY <2>1, <2>2, <2>3 DEF Truthful
  <2>5. QED
    BY <1>2, <1>4, <2>1, <2>4 DEF Readable
<1>13. Placed(f, k2, ws2)
  BY <1>4, <1>5, <1>7, <1>10, <1>11 DEF Placed
<1>14. Resolvable(f, k2, ws2)
  <2> SUFFICES ASSUME NEW w \in ws2, w.gen = k2.gen, f.claims[w.claim].status \in Active,
                      k2.plugged, ~Forgotten(w, k2.seq)
               PROVE  Logged(k2, RequestOf(f, w.claim), w.seq)
                      /\ Answers(k2, RequestOf(f, w.claim), w.outcome)
    BY DEF Resolvable
  <2>1. CASE w \in ws
    <3>1. w.claim # c
      <4>1. Clear(c, k2, ws)
        BY <1>4, <1>5, ClearStays
      <4>2. QED
        BY <2>1, <4>1 DEF Clear
    <3>2. PICK t : t = RequestOf(f, w.claim).tx
      OBVIOUS
    <3>3. t[2] = w.claim
      BY <3>2 DEF RequestOf
    <3>4. r.tx # RequestOf(f, w.claim).tx
      BY <1>9, <3>1, <3>2, <3>3
    <3>5. QED
      BY <1>4, <2>1, <3>4, StaysResolvable
  <2>2. CASE w \notin ws
    <3>1. w.claim = c /\ w.seq = k2.seq /\ w.outcome = o
      BY <1>10, <1>11, <2>2
    <3>2. PICK n \in Nat : n = Len(k2.results)
      BY LenProperties DEF KernelOK
    <3>3. n \in DOMAIN k2.results /\ k2.results[n] = r
      BY <3>2, EntriesAfter
    <3>4. k2.seq - w.seq = n - n
      BY <1>10, <3>1
    <3>5. Logged(k2, RequestOf(f, c), w.seq)
      BY <1>8, <3>2, <3>3, <3>4 DEF Logged
    <3>6. Answers(k2, RequestOf(f, c), o)
      <4> SUFFICES ASSUME NEW i \in DOMAIN k2.results,
                          SameRequest(k2.results[i], RequestOf(f, c)), k2.results[i] # r
                   PROVE  FALSE
        BY <1>8 DEF Answers
      <4>1. PICK e : e = k2.results[i] /\ Entered(k, e)
        BY EntriesAfter DEF Entered
      <4>2. e.tx = r.tx
        BY <1>8, <4>1 DEF SameRequest
      <4>3. e.tx[3] < a
        BY <1>5, <1>6, <1>9, <4>1, <4>2
      <4>4. QED
        BY <1>9, <4>2, <4>3
    <3>7. QED
      BY <3>1, <3>5, <3>6
  <2>3. QED
    BY <2>1, <2>2
<1>15. Stopped(f, k2, ws2)
  <2> SUFFICES ASSUME NEW w \in ws2, w.gen = k2.gen, w.outcome = "partial",
                      ~Forgotten(w, k2.seq)
               PROVE  f.claims[w.claim].status \in Active \cup {"failed"}
    BY DEF Stopped
  <2>1. CASE w \in ws
    <3>1. w.seq \in Nat
      BY <1>4, <2>1 DEF HistoryOK
    <3>2. ~Forgotten(w, k.seq)
      BY <3>1, ForgottenStays
    <3>3. QED
      BY <1>4, <1>10, <2>1, <3>2 DEF Stopped
  <2>2. CASE w \notin ws
    BY <1>5, <1>11, <2>2
  <2>3. QED
    BY <2>1, <2>2
<1>16. Attempted(f, k2)
  <2> SUFFICES ASSUME NEW e, Entered(k2, e), e.tx # Other
               PROVE  /\ e.tx[2] \in DOMAIN f.claims
                      /\ e.tx[3] \in Nat /\ e.tx[3] <= f.claims[e.tx[2]].attempt
    BY DEF Attempted
  <2>1. CASE e = r
    <3>1. a <= a
      OBVIOUS
    <3>2. QED
      BY <1>5, <1>6, <1>9, <2>1, <3>1
  <2>2. CASE Entered(k, e)
    BY <1>4, <2>2 DEF Attempted
  <2>3. QED
    BY <2>1, <2>2, EnteredAfter
<1>17. Reported(k2, ws2)
  <2> SUFFICES ASSUME NEW i \in DOMAIN k2.results, k2.results[i].status \in Begun,
                      k2.results[i].tx # Other
               PROVE  WasWritten(k2.results[i], ws2)
    BY DEF Reported
  <2>1. CASE k2.results[i] = r
    BY <1>8, <1>9, <1>11, <2>1 DEF WasWritten
  <2>2. CASE k2.results[i] # r
    <3>1. PICK j \in DOMAIN k.results : k2.results[i] = k.results[j]
      BY <2>2, EntriesAfter
    <3>2. WasWritten(k2.results[i], ws)
      BY <1>4, <3>1 DEF Reported
    <3>3. QED
      BY <1>11, <3>2 DEF WasWritten
  <2>3. QED
    BY <2>1, <2>2
<1>18. QED
  BY <1>2, <1>12, <1>13, <1>14, <1>15, <1>16, <1>17 DEF Good, FileOK

\* The process once its attempt was submitted.
LEMMA AtSubmitted ==
    ASSUME NEW p, NEW f, NEW s, NEW k, NEW h, NEW q, Related(q, p), p.run \in Nat,
           q.pc = "submitted", q.up, OpenIn(q, f), q.cur \in DOMAIN f.claims,
           f.claims[q.cur].status \in Active, OwnWrites(q, f, k, h.writes)
    PROVE  ProcOK(q, f, s, k, h) /\ q.run = p.run
<1>1. ProcShape(q)
  BY DEF ProcShape, Related
<1>2. Scheduled(q, f)
  BY DEF Scheduled, OpenIn
<1>3. Progress(q, f, s, k, h)
  BY DEF Progress, Mid
<1>4. QED
  BY <1>1, <1>2, <1>3 DEF ProcOK, Related

\* The writes after the submission, as the model records them.
LEMMA DispatchGrows ==
    ASSUME IInv, proc.pc = "applying", rec(proc.cur).gen = kernel.gen, NEW o, NEW h2,
           h2 = IF o \in Begun THEN [hist EXCEPT !.writes = @ \cup {Write(proc.cur, o)}]
                ELSE hist
    PROVE  /\ Grown(h2.writes, hist.writes, disk.file, proc.cur, kernel, proc.run, o)
           /\ h2.latest = hist.latest /\ UsersOK(h2)
<1>1. PICK c : c = proc.cur
  OBVIOUS
<1>2. PICK w : w = Write(c, o)
  OBVIOUS
<1>3. rec(c).write = hist.latest
  <2>1. proc.pc \in Mid
    BY DEF Mid
  <2>2. /\ c \in DOMAIN disk.file.claims /\ disk.file.entry.write # 0
        /\ disk.file.entry.rev = disk.file.claims[c].rev
    BY <1>1, <2>1, MidFacts DEF InFlight
  <2>3. QED
    BY <2>2 DEF IInv, Good, Readable, Intent, rec, doc
<1>4. IsWriteOf(w, disk.file, c, kernel, proc.run, o)
  BY <1>1, <1>2, <1>3 DEF IsWriteOf, Write, rec, doc
<1>5. UsersOK(hist)
  BY DEF IInv
<1>6. CASE o \in Begun
  <2>1. h2 = [hist EXCEPT !.writes = hist.writes \cup {w}]
    BY <1>1, <1>2, <1>6
  <2>2. /\ h2.writes = hist.writes \cup {w} /\ h2.latest = hist.latest
        /\ h2.users = hist.users /\ DOMAIN h2 = {"writes", "users", "latest"}
    BY <1>5, <2>1 DEF UsersOK
  <2>3. QED
    BY <1>1, <1>4, <1>5, <1>6, <2>2 DEF Grown, UsersOK
<1>7. CASE o \notin Begun
  BY <1>5, <1>7 DEF Grown
<1>8. QED
  BY <1>6, <1>7

\* The kernel submission of a claim.
LEMMA DispatchStep == IInv /\ Dispatch => IInv'
<1> SUFFICES ASSUME IInv, Dispatch PROVE IInv'
  OBVIOUS
<1>1. PICK f : f = disk.file
  OBVIOUS
<1>2. PICK c : c = proc.cur
  OBVIOUS
<1>3. PICK n : n = f.claims[c].nonce
  OBVIOUS
<1>4. PICK x : x = IF Sendable(n) THEN n ELSE proc.at.max
  OBVIOUS
<1>5. PICK q : q = [proc EXCEPT !.pc = "submitted", !.at.max = x]
  OBVIOUS
<1>6. proc.pc = "applying" /\ proc' = q /\ disk' = disk
  BY <1>1, <1>2, <1>3, <1>4, <1>5 DEF Dispatch, rec, doc
<1>7. proc.pc \in Mid
  BY <1>6 DEF Mid
<1>8. /\ InFlight(proc, f, kernel, hist.writes) /\ c \in DOMAIN f.claims /\ proc.up
      /\ Settled(proc, f, kernel, hist.writes) /\ OpenIn(proc, f)
  BY <1>1, <1>2, <1>7, MidFacts
<1>9. /\ Related(proc, proc) /\ proc.run \in Nat /\ f \in Docs /\ Good(f, kernel, hist)
      /\ KernelOK(kernel) /\ HistoryOK(hist.writes, kernel, proc.run)
      /\ Rewritten(hist.writes) /\ Repeated(hist.writes)
  BY <1>1, ProcFacts DEF IInv
<1>10. disk.synced = f
  BY <1>1, <1>6 DEF IInv, ProcOK, Progress
<1>11. n \in 0 .. MaxNonce /\ n <= proc.nonce
  BY <1>2, <1>3, <1>8, <1>9, ClaimsOf DEF Record, InFlight
<1>12. x \in 0 .. proc.nonce
  <2>1. proc.nonce \in Nat /\ MaxNonce \in Nat /\ proc.at.max \in 0 .. proc.nonce
    BY <1>9, BoundsAssumption DEF Related
  <2>2. QED
    BY <1>4, <1>11, <2>1
<1>13. /\ DOMAIN q = ProcFields /\ q.run = proc.run /\ q.up = proc.up
       /\ q.nonce = proc.nonce /\ q.user = proc.user /\ q.pc = "submitted"
       /\ q.at = [proc.at EXCEPT !.max = x] /\ q.sched = proc.sched /\ q.cur = c
  BY <1>2, <1>5, <1>9 DEF Related, ProcFields
<1>14. DOMAIN q.at = {"gen", "max", "ready"} /\ q.at.gen = proc.at.gen /\ q.at.max = x
  BY <1>9, <1>13 DEF Related
<1>15. Related(q, proc) /\ q.up /\ OpenIn(q, f)
  BY <1>8, <1>9, <1>12, <1>13, <1>14 DEF Related, OpenIn
<1>16. f.claims[c].status \in Active /\ f.claims[c].gen = proc.at.gen
  BY <1>2, <1>8 DEF InFlight
<1>17. CASE UNCHANGED <<kernel, hist>>
  <2>1. UNCHANGED <<disk, kernel, hist>>
    BY <1>6, <1>17
  <2>2. OwnWrites(q, f, kernel, hist.writes)
    BY <1>8, <1>13 DEF OwnWrites, Settled
  <2>3. ProcOK(q, f, f, kernel, hist) /\ q.run = proc.run
    BY <1>8, <1>9, <1>13, <1>15, <1>16, <2>2, AtSubmitted
  <2>4. QED
    BY <1>1, <1>6, <1>10, <2>1, <2>3, ProcStep
<1>18. CASE Sendable(n) /\ ~UNCHANGED <<kernel, hist>>
  <2>1. PICK o \in Outcomes :
          /\ kernel' = Reserve(kernel, Submission(n, Request(c).tx, o))
          /\ hist' = IF o \in Begun THEN [hist EXCEPT !.writes = @ \cup {Write(c, o)}]
                     ELSE hist
    BY <1>1, <1>2, <1>3, <1>18 DEF Dispatch, rec, doc
  <2>2. PICK r : r = Submission(n, RequestOf(f, c).tx, o)
    OBVIOUS
  <2>3. PICK k2 : k2 = Reserve(kernel, r)
    OBVIOUS
  <2>4. PICK h2 : h2 = IF o \in Begun THEN [hist EXCEPT !.writes = @ \cup {Write(c, o)}]
                       ELSE hist
    OBVIOUS
  <2>5. kernel' = k2 /\ hist' = h2
    BY <1>1, <2>1, <2>2, <2>3, <2>4, RequestIs
  <2>6. f.claims[c].gen = kernel.gen
    BY <1>16, <1>18 DEF Sendable
  <2>7. r \in JournalEntry
    <3>1. f.claims[c].gen \in Nat /\ c \in Nat /\ f.claims[c].attempt \in Nat
      <4>1. f.claims[c] \in Record /\ c \in 1 .. Len(f.claims) /\ Len(f.claims) \in Nat
        BY <1>8, <1>9, ClaimsOf
      <4>2. QED
        BY <4>1, BoundsAssumption DEF Record
    <3>2. PICK t : t = RequestOf(f, c).tx
      OBVIOUS
    <3>3. t = <<f.claims[c].gen, c, f.claims[c].attempt>>
      BY <3>2 DEF RequestOf
    <3>4. t \in Nat \X Nat \X Nat
      BY <3>1, <3>3
    <3>5. r = Submission(n, t, o)
      BY <2>2, <3>2
    <3>6. QED
      BY <1>11, <3>4, <3>5 DEF Submission, JournalEntry
  <2>8. KernelOK(k2) /\ Submitted(k2, kernel, r)
    BY <1>9, <2>3, <2>7, ReserveIsSound
  <2>9. /\ Grown(h2.writes, hist.writes, f, c, kernel, proc.run, o)
        /\ h2.latest = hist.latest /\ UsersOK(h2)
    <3>1. rec(proc.cur).gen = kernel.gen
      BY <1>1, <1>2, <2>6 DEF rec, doc
    <3>2. QED
      BY <1>1, <1>2, <1>6, <2>4, <3>1, DispatchGrows
  <2>10. HistoryOK(h2.writes, k2, proc.run) /\ Rewritten(h2.writes) /\ Repeated(h2.writes)
    <3>1. FileOK(f, kernel, hist.writes)
      BY <1>9 DEF Good
    <3>2. QED
      BY <1>2, <1>8, <1>9, <2>8, <2>9, <3>1, AttemptHistory
  <2>11. Good(f, k2, h2)
    BY <1>2, <1>3, <1>8, <1>9, <2>2, <2>6, <2>8, <2>9, AttemptKeeps
  <2>12. OwnWrites(q, f, k2, h2.writes)
    <3> SUFFICES ASSUME NEW w \in h2.writes, w.run = proc.run, w.gen = k2.gen
                 PROVE  \/ f.claims[w.claim].status \in Terminal
                        \/ w.claim = c /\ w.seq = k2.seq
      BY <1>13 DEF OwnWrites
    <3>1. k2.gen = kernel.gen /\ k2.seq = kernel.seq + 1
      BY <2>8 DEF Submitted
    <3>2. CASE w \in hist.writes
      BY <1>8, <3>1, <3>2 DEF Settled
    <3>3. CASE w \notin hist.writes
      BY <2>9, <3>1, <3>3 DEF Grown, IsWriteOf
    <3>4. QED
      BY <3>2, <3>3
  <2>13. ProcOK(q, f, f, k2, h2) /\ q.run = proc.run
    BY <1>8, <1>9, <1>13, <1>15, <1>16, <2>12, AtSubmitted
  <2>14. Readable(f, k2, h2)
    BY <2>11 DEF Good
  <2>15. QED
    BY <1>1, <1>6, <1>10, <2>5, <2>8, <2>9, <2>10, <2>11, <2>13, <2>14 DEF IInv
<1>19. QED
  BY <1>1, <1>2, <1>3, <1>17, <1>18 DEF Dispatch, rec, doc

-----------------------------------------------------------------------------
(* The applications' writes.                                               *)

\* The process while it serves a stable write of the user.
LEMMA AtUser ==
    ASSUME NEW p, NEW f, NEW s, NEW k, NEW h, NEW q, Related(q, p), p.run \in Nat,
           q.pc \in {"user", "capture"}, q.up, OpenIn(q, f), Settled(p, f, k, h.writes),
           q.pc = "user" => s = f /\ f.entry.write = 0,
           q.pc = "capture" => q.user.id = h.latest
    PROVE  ProcOK(q, f, s, k, h) /\ q.run = p.run
<1>1. ProcShape(q)
  BY DEF ProcShape, Related
<1>2. Scheduled(q, f)
  BY DEF Scheduled, OpenIn
<1>3. Progress(q, f, s, k, h)
  BY DEF Progress, Mid
<1>4. OwnWrites(q, f, k, h.writes)
  BY DEF OwnWrites, Settled, Related
<1>5. QED
  BY <1>1, <1>2, <1>3, <1>4 DEF ProcOK, Related

\* A submission of the applications is an entry of the journal.
LEMMA OtherIsSound ==
    ASSUME NEW k, KernelOK(k), NEW n \in 0 .. MaxNonce, NEW o \in Outcomes,
           NEW r, r = Submission(n, Other, o), NEW k2, k2 = Reserve(k, r)
    PROVE  KernelOK(k2) /\ Submitted(k2, k, r) /\ r.tx = Other
<1>1. Other \in Nat \X Nat \X Nat
  BY DEF Other
<1>2. r \in JournalEntry /\ r.tx = Other
  BY <1>1 DEF Submission, JournalEntry
<1>3. QED
  BY <1>2, ReserveIsSound

\* The nonce of an application's submission, once sent, is the adapter's mark.
LEMMA NextNonceFacts ==
    ASSUME IInv, NextNonce <= MaxNonce
    PROVE  /\ NextNonce \in 0 .. MaxNonce /\ NextNonce \in 0 .. NextNonce
           /\ proc.user.nonce \in 0 .. NextNonce /\ proc.at.max \in 0 .. NextNonce
<1>1. /\ proc.nonce \in 0 .. MaxNonce /\ proc.user.nonce \in 0 .. proc.nonce
      /\ proc.at.max \in 0 .. proc.nonce
  BY ProcFacts DEF Related
<1>2. MaxNonce \in Nat
  BY BoundsAssumption
<1>3. QED
  BY <1>1, <1>2 DEF NextNonce

\* Another transaction of the receiver.
LEMMA TrafficStep == IInv /\ Traffic => IInv'
<1> SUFFICES ASSUME IInv, Traffic PROVE IInv'
  OBVIOUS
<1>1. PICK n : n = NextNonce
  OBVIOUS
<1>2. PICK r : r = Submission(n, Other, "succeeded")
  OBVIOUS
<1>3. PICK k2 : k2 = Reserve(kernel, r)
  OBVIOUS
<1>4. PICK q : q = [proc EXCEPT !.nonce = n, !.at.max = n, !.prefer = TRUE]
  OBVIOUS
<1>5. kernel' = k2 /\ proc' = q /\ UNCHANGED <<disk, hist>> /\ proc.pc = "idle"
  BY <1>1, <1>2, <1>3, <1>4 DEF Traffic, ApplicationTurn, Attached, Idle
<1>6. /\ n \in 0 .. MaxNonce /\ n \in 0 .. n /\ proc.user.nonce \in 0 .. n
  BY <1>1, NextNonceFacts DEF Traffic
<1>7. /\ Related(proc, proc) /\ proc.run \in Nat /\ OpenIn(proc, disk.file)
      /\ Settled(proc, disk.file, kernel, hist.writes)
      /\ KernelOK(kernel) /\ HistoryOK(hist.writes, kernel, proc.run)
      /\ Good(disk.file, kernel, hist) /\ Readable(disk.synced, kernel, hist)
  BY <1>5, ProcFacts, NotSubmitted DEF IInv
<1>8. KernelOK(k2) /\ Submitted(k2, kernel, r) /\ r.tx = Other
  <2>1. "succeeded" \in Outcomes
    BY DEF Outcomes
  <2>2. QED
    BY <1>2, <1>3, <1>6, <1>7, <2>1, OtherIsSound
<1>9. /\ Good(disk.file, k2, hist) /\ Readable(disk.synced, k2, hist)
      /\ HistoryOK(hist.writes, k2, proc.run)
  BY <1>7, <1>8, OtherKeeps, SubmittedReadable, SubmittedHistory
<1>10. /\ DOMAIN q = ProcFields /\ q.run = proc.run /\ q.up = proc.up /\ q.nonce = n
       /\ q.user = proc.user /\ q.pc = "idle" /\ q.at = [proc.at EXCEPT !.max = n]
       /\ q.sched = proc.sched
  BY <1>4, <1>5, <1>7 DEF Related, ProcFields
<1>11. DOMAIN q.at = {"gen", "max", "ready"} /\ q.at.gen = proc.at.gen /\ q.at.max = n
  BY <1>7, <1>10 DEF Related
<1>12. Related(q, proc) /\ OpenIn(q, disk.file)
  BY <1>6, <1>7, <1>10, <1>11 DEF Related, OpenIn
<1>13. Settled(proc, disk.file, k2, hist.writes)
  BY <1>7, <1>8 DEF Settled, Submitted
<1>14. ProcOK(q, disk.file, disk.synced, k2, hist) /\ q.run = proc.run
  BY <1>7, <1>10, <1>12, <1>13, AtRest
<1>15. QED
  BY <1>5, <1>8, <1>9, <1>14 DEF IInv

\* A native exchange moves the high-water mark.
LEMMA NativeExchangeStep == IInv /\ NativeExchange => IInv'
<1> SUFFICES ASSUME IInv, NativeExchange PROVE IInv'
  OBVIOUS
<1>1. PICK n : n = NextNonce
  OBVIOUS
<1>2. PICK k2 : k2 = [kernel EXCEPT !.high = n]
  OBVIOUS
<1>3. PICK q : q = [proc EXCEPT !.nonce = n, !.at.max = n]
  OBVIOUS
<1>4. kernel' = k2 /\ proc' = q /\ UNCHANGED <<disk, hist>> /\ proc.pc = "idle"
  BY <1>1, <1>2, <1>3 DEF NativeExchange, Attached, Idle
<1>5. /\ n \in 0 .. MaxNonce /\ n \in 0 .. n /\ proc.user.nonce \in 0 .. n
  BY <1>1, NextNonceFacts DEF NativeExchange
<1>6. /\ Related(proc, proc) /\ proc.run \in Nat /\ OpenIn(proc, disk.file)
      /\ Settled(proc, disk.file, kernel, hist.writes)
      /\ KernelOK(kernel) /\ HistoryOK(hist.writes, kernel, proc.run)
      /\ Good(disk.file, kernel, hist) /\ Readable(disk.synced, kernel, hist)
  BY <1>4, ProcFacts, NotSubmitted DEF IInv
<1>7. KernelOK(k2) /\ Calmer(k2, kernel, hist.writes) /\ k2.gen = kernel.gen
  <2>1. KernelOK(k2) /\ Calmer(k2, kernel, hist.writes)
    BY <1>2, <1>5, <1>6, HighWaterIsCalm
  <2>2. QED
    BY <1>2, <1>6, <2>1 DEF KernelOK, KernelFields
<1>8. /\ Good(disk.file, k2, hist) /\ Readable(disk.synced, k2, hist)
  BY <1>6, <1>7, CalmerGood, CalmerReadable
<1>9. HistoryOK(hist.writes, k2, proc.run)
  <2>1. proc.run <= proc.run
    BY <1>6
  <2>2. QED
    BY <1>6, <1>7, <2>1, CalmerHistory
<1>10. /\ DOMAIN q = ProcFields /\ q.run = proc.run /\ q.up = proc.up /\ q.nonce = n
       /\ q.user = proc.user /\ q.pc = "idle" /\ q.at = [proc.at EXCEPT !.max = n]
       /\ q.sched = proc.sched
  BY <1>3, <1>4, <1>6 DEF Related, ProcFields
<1>11. DOMAIN q.at = {"gen", "max", "ready"} /\ q.at.gen = proc.at.gen /\ q.at.max = n
  BY <1>6, <1>10 DEF Related
<1>12. Related(q, proc) /\ OpenIn(q, disk.file)
  BY <1>5, <1>6, <1>10, <1>11 DEF Related, OpenIn
<1>13. Settled(proc, disk.file, k2, hist.writes)
  BY <1>6, <1>7 DEF Settled
<1>14. ProcOK(q, disk.file, disk.synced, k2, hist) /\ q.run = proc.run
  BY <1>6, <1>10, <1>12, <1>13, AtRest
<1>15. QED
  BY <1>4, <1>7, <1>8, <1>9, <1>14 DEF IInv

\* A stable write is admitted.
LEMMA UserAdmitStep == IInv /\ UserAdmit => IInv'
<1> SUFFICES ASSUME IInv, UserAdmit PROVE IInv'
  OBVIOUS
<1>1. PICK n : n = NextNonce
  OBVIOUS
<1>2. PICK u : u = [nonce |-> n, id |-> hist.users + 1]
  OBVIOUS
<1>3. PICK q : q = [proc EXCEPT !.nonce = n, !.user = u]
  OBVIOUS
<1>4. PICK h2 : h2 = [hist EXCEPT !.users = @ + 1]
  OBVIOUS
<1>5. /\ proc' = q /\ hist' = h2 /\ UNCHANGED <<disk, kernel>> /\ proc.pc = "idle"
      /\ hist.users < MaxUserWrites
  BY <1>1, <1>2, <1>3, <1>4 DEF UserAdmit, Attached, Idle
<1>6. /\ n \in 0 .. MaxNonce /\ n \in 0 .. n /\ proc.at.max \in 0 .. n
  BY <1>1, NextNonceFacts DEF UserAdmit
<1>7. /\ Related(proc, proc) /\ proc.run \in Nat /\ OpenIn(proc, disk.file)
      /\ Settled(proc, disk.file, kernel, hist.writes) /\ UsersOK(hist)
  BY <1>5, ProcFacts, NotSubmitted DEF IInv
<1>8. hist.users + 1 \in 0 .. MaxUserWrites
  BY <1>5, <1>7, BoundsAssumption DEF UsersOK
<1>9. /\ h2.writes = hist.writes /\ h2.latest = hist.latest /\ UsersOK(h2)
  BY <1>4, <1>7, <1>8 DEF UsersOK
<1>10. /\ DOMAIN q = ProcFields /\ q.run = proc.run /\ q.up = proc.up /\ q.nonce = n
       /\ q.user.nonce = n /\ q.user.id = hist.users + 1 /\ q.pc = "idle"
       /\ q.at = proc.at /\ q.sched = proc.sched
  BY <1>2, <1>3, <1>5, <1>7 DEF Related, ProcFields
<1>11. Related(q, proc) /\ OpenIn(q, disk.file)
  BY <1>6, <1>7, <1>8, <1>10 DEF Related, OpenIn
<1>12. ProcOK(q, disk.file, disk.synced, kernel, h2) /\ q.run = proc.run
  BY <1>7, <1>9, <1>10, <1>11, AtRest
<1>13. Good(disk.file, kernel, h2) /\ Readable(disk.synced, kernel, h2)
  BY <1>9 DEF IInv, Good, Readable
<1>14. QED
  BY <1>5, <1>9, <1>12, <1>13 DEF IInv

\* A new revision of the entry: a tombstone, or what the user wrote last.
Reentered(f, w) == [f EXCEPT !.entry = [rev |-> @.rev + 1, write |-> w]]

\* A new entry keeps the claims, and none of them is of its revision.
LEMMA EntryKeeps ==
    ASSUME NEW f, NEW k, NEW h, Good(f, k, h), NEW w \in 0 .. MaxUserWrites,
           w # 0 => w = h.latest, NEW d, d = Reentered(f, w)
    PROVE  Good(d, k, h) /\ d.claims = f.claims /\ d.entry.write = w
<1>1. f \in Docs /\ Len(f.claims) <= MaxClaims /\ Intent(f, h.latest)
  BY DEF Good, Readable, DocOK
<1>2. PICK e : e = [rev |-> f.entry.rev + 1, write |-> w]
  OBVIOUS
<1>3. d = [f EXCEPT !.entry = e]
  BY <1>2 DEF Reentered
<1>4. f.entry.rev \in Nat
  BY <1>1, ClaimsOf DEF Entry
<1>5. e \in Entry /\ e.rev = f.entry.rev + 1 /\ e.write = w
  BY <1>2, <1>4 DEF Entry
<1>6. d.claims = f.claims /\ d.entry = e
  BY <1>1, <1>3 DEF Docs
<1>7. d \in Docs
  <2>1. PICK E : E = Entry
    OBVIOUS
  <2>2. PICK S : S = Seq(Record)
    OBVIOUS
  <2>3. f \in [entry : E, claims : S] /\ e \in E
    BY <1>1, <1>5, <2>1, <2>2 DEF Docs
  <2>4. d \in [entry : E, claims : S]
    BY <1>3, <2>3
  <2>5. QED
    BY <2>1, <2>2, <2>4 DEF Docs
<1>8. Intent(d, h.latest)
  <2>1. ASSUME NEW c \in DOMAIN f.claims
        PROVE  f.claims[c].rev <= e.rev /\ f.claims[c].rev # e.rev
    <3>1. f.claims[c].rev \in Nat
      BY <1>1, ClaimsOf DEF Record
    <3>2. f.claims[c].rev <= f.entry.rev
      BY <1>1 DEF Intent
    <3>3. QED
      BY <1>4, <1>5, <3>1, <3>2
  <2>2. QED
    BY <1>5, <1>6, <2>1 DEF Intent
<1>9. Truthful(d, k, h.writes) /\ FileOK(d, k, h.writes)
  <2>1. Truthful(f, k, h.writes) /\ FileOK(f, k, h.writes)
    BY DEF Good, Readable
  <2>2. QED
    BY <1>6, <2>1 DEF Truthful, FileOK, Placed, Resolvable, RequestOf, Stopped, Attempted
<1>10. QED
  BY <1>1, <1>5, <1>6, <1>7, <1>8, <1>9 DEF Good, Readable, DocOK

\* The entry becomes a tombstone before the user's write.
LEMMA UserPrepareStep == IInv /\ UserPrepare => IInv'
<1> SUFFICES ASSUME IInv, UserPrepare PROVE IInv'
  OBVIOUS
<1>1. PICK f : f = disk.file
  OBVIOUS
<1>2. PICK d : d = Reentered(f, 0)
  OBVIOUS
<1>3. PICK q : q = [proc EXCEPT !.pc = "user"]
  OBVIOUS
<1>4. Persist(d, q) /\ proc.pc = "idle" /\ proc.up
  BY <1>1, <1>2, <1>3 DEF UserPrepare, ApplicationTurn, Attached, Idle, Reentered, doc
<1>5. /\ Related(proc, proc) /\ proc.run \in Nat /\ OpenIn(proc, f)
      /\ Settled(proc, f, kernel, hist.writes) /\ Good(f, kernel, hist)
  BY <1>1, <1>4, ProcFacts, NotSubmitted
<1>6. Good(d, kernel, hist) /\ d.claims = f.claims /\ d.entry.write = 0
  <2>1. 0 \in 0 .. MaxUserWrites
    BY BoundsAssumption
  <2>2. QED
    BY <1>2, <1>5, <2>1, EntryKeeps
<1>7. /\ DOMAIN q = ProcFields /\ q.run = proc.run /\ q.up = proc.up
      /\ q.nonce = proc.nonce /\ q.user = proc.user /\ q.pc = "user" /\ q.at = proc.at
      /\ q.sched = proc.sched
  BY <1>3, <1>5 DEF Related, ProcFields
<1>8. Related(q, proc) /\ OpenIn(q, d) /\ q.up /\ Settled(proc, d, kernel, hist.writes)
  BY <1>4, <1>5, <1>6, <1>7 DEF Related, OpenIn, Settled
<1>9. ProcOK(q, d, d, kernel, hist) /\ q.run = proc.run
  BY <1>5, <1>6, <1>7, <1>8, AtUser
<1>10. QED
  BY <1>4, <1>6, <1>9, PersistKeeps

\* A definitive success becomes the stable intent.
LEMMA UserCaptureStep == IInv /\ UserCapture => IInv'
<1> SUFFICES ASSUME IInv, UserCapture PROVE IInv'
  OBVIOUS
<1>1. PICK f : f = disk.file
  OBVIOUS
<1>2. PICK w : w = proc.user.id
  OBVIOUS
<1>3. PICK d : d = Reentered(f, w)
  OBVIOUS
<1>4. PICK u : u = [nonce |-> 0, id |-> 0]
  OBVIOUS
<1>5. PICK q : q = [proc EXCEPT !.pc = "idle", !.prefer = TRUE, !.user = u]
  OBVIOUS
<1>6. Persist(d, q) /\ proc.pc = "capture"
  BY <1>1, <1>2, <1>3, <1>4, <1>5 DEF UserCapture, Reentered, doc
<1>7. /\ Related(proc, proc) /\ proc.run \in Nat /\ OpenIn(proc, f)
      /\ Settled(proc, f, kernel, hist.writes) /\ Good(f, kernel, hist)
  BY <1>1, <1>6, ProcFacts, NotSubmitted
<1>8. w \in 0 .. MaxUserWrites /\ w = hist.latest
  BY <1>2, <1>6, <1>7 DEF Related, IInv, ProcOK, Progress
<1>9. Good(d, kernel, hist) /\ d.claims = f.claims
  BY <1>3, <1>7, <1>8, EntryKeeps
<1>10. /\ DOMAIN q = ProcFields /\ q.run = proc.run /\ q.up = proc.up
       /\ q.nonce = proc.nonce /\ q.user.nonce = 0 /\ q.user.id = 0 /\ q.pc = "idle"
       /\ q.at = proc.at /\ q.sched = proc.sched
  BY <1>4, <1>5, <1>7 DEF Related, ProcFields
<1>11. 0 \in 0 .. proc.nonce /\ 0 \in 0 .. MaxUserWrites
  BY <1>7, BoundsAssumption DEF Related
<1>12. Related(q, proc) /\ OpenIn(q, d) /\ Settled(proc, d, kernel, hist.writes)
  BY <1>7, <1>9, <1>10, <1>11 DEF Related, OpenIn, Settled
<1>13. ProcOK(q, d, d, kernel, hist) /\ q.run = proc.run
  BY <1>7, <1>10, <1>12, AtRest
<1>14. QED
  BY <1>6, <1>9, <1>13, PersistKeeps

\* The user's write: sent, refused, or stopped half way.
LEMMA UserDispatchStep == IInv /\ UserDispatch => IInv'
<1> SUFFICES ASSUME IInv, UserDispatch PROVE IInv'
  OBVIOUS
<1>1. PICK n : n = proc.user.nonce
  OBVIOUS
<1>2. PICK u : u = [nonce |-> 0, id |-> 0]
  OBVIOUS
<1>3. PICK done : done = [proc EXCEPT !.pc = "idle", !.user = u, !.prefer = TRUE]
  OBVIOUS
<1>4. PICK f : f = disk.file
  OBVIOUS
<1>5. proc.pc = "user" /\ disk' = disk
  BY DEF UserDispatch
<1>6. /\ Related(proc, proc) /\ proc.run \in Nat /\ OpenIn(proc, f) /\ proc.up
      /\ Settled(proc, f, kernel, hist.writes) /\ Good(f, kernel, hist)
      /\ KernelOK(kernel) /\ HistoryOK(hist.writes, kernel, proc.run) /\ UsersOK(hist)
  BY <1>4, <1>5, ProcFacts, NotSubmitted DEF IInv
<1>7. disk.synced = f /\ f.entry.write = 0
  BY <1>4, <1>5 DEF IInv, ProcOK, Progress
<1>8. /\ DOMAIN done = ProcFields /\ done.run = proc.run /\ done.up = proc.up
      /\ done.nonce = proc.nonce /\ done.user.nonce = 0 /\ done.user.id = 0
      /\ done.pc = "idle" /\ done.at = proc.at /\ done.sched = proc.sched
  BY <1>2, <1>3, <1>6 DEF Related, ProcFields
<1>9. 0 \in 0 .. proc.nonce /\ 0 \in 0 .. MaxUserWrites
  BY <1>6, BoundsAssumption DEF Related
<1>10. Related(done, proc) /\ OpenIn(done, f)
  BY <1>6, <1>8, <1>9 DEF Related, OpenIn
<1>11. CASE ~Sendable(n)
  <2>1. proc' = done /\ UNCHANGED <<disk, kernel, hist>>
    BY <1>1, <1>2, <1>3, <1>11 DEF UserDispatch
  <2>2. ProcOK(done, disk.file, disk.synced, kernel, hist) /\ done.run = proc.run
    BY <1>4, <1>6, <1>8, <1>10, AtRest
  <2>3. QED
    BY <2>1, <2>2, ProcStep
<1>12. CASE Sendable(n)
  <2>1. PICK o \in Outcomes :
          /\ kernel' = Reserve(kernel, Submission(n, Other, o))
          /\ hist' = IF o \in Begun THEN [hist EXCEPT !.latest = proc.user.id] ELSE hist
          /\ proc' = [(IF o = "succeeded" THEN [proc EXCEPT !.pc = "capture"] ELSE done)
                         EXCEPT !.at.max = n]
    BY <1>1, <1>2, <1>3, <1>12 DEF UserDispatch
  <2>2. PICK r : r = Submission(n, Other, o)
    OBVIOUS
  <2>3. PICK k2 : k2 = Reserve(kernel, r)
    OBVIOUS
  <2>4. PICK h2 : h2 = IF o \in Begun THEN [hist EXCEPT !.latest = proc.user.id] ELSE hist
    OBVIOUS
  <2>5. PICK x : x = IF o = "succeeded" THEN [proc EXCEPT !.pc = "capture"] ELSE done
    OBVIOUS
  <2>6. PICK q : q = [x EXCEPT !.at.max = n]
    OBVIOUS
  <2>7. kernel' = k2 /\ hist' = h2 /\ proc' = q
    BY <2>1, <2>2, <2>3, <2>4, <2>5, <2>6
  <2>8. n \in 0 .. MaxNonce /\ n \in 0 .. proc.nonce
    <3>1. MaxNonce \in Nat /\ proc.nonce \in 0 .. MaxNonce /\ n \in 0 .. proc.nonce
      BY <1>1, <1>6, BoundsAssumption DEF Related
    <3>2. QED
      BY <3>1
  <2>9. KernelOK(k2) /\ Submitted(k2, kernel, r) /\ r.tx = Other
    BY <1>6, <2>2, <2>3, <2>8, OtherIsSound
  <2>10. Good(f, k2, hist) /\ HistoryOK(hist.writes, k2, proc.run)
    BY <1>6, <2>9, OtherKeeps, SubmittedHistory
  <2>11. /\ h2.writes = hist.writes /\ UsersOK(h2)
         /\ o = "succeeded" => h2.latest = proc.user.id
    <3>1. CASE o \in Begun
      <4>1. h2 = [hist EXCEPT !.latest = proc.user.id]
        BY <2>4, <3>1
      <4>2. /\ h2.writes = hist.writes /\ h2.users = hist.users
            /\ h2.latest = proc.user.id /\ DOMAIN h2 = {"writes", "users", "latest"}
        BY <1>6, <4>1 DEF UsersOK
      <4>3. proc.user.id \in 0 .. MaxUserWrites
        BY <1>6 DEF Related
      <4>4. QED
        BY <1>6, <4>2, <4>3 DEF UsersOK
    <3>2. CASE o \notin Begun
      BY <1>6, <2>4, <3>2 DEF Begun
    <3>3. QED
      BY <3>1, <3>2
  <2>12. Good(f, k2, h2) /\ Readable(f, k2, h2)
    <3>1. Intent(f, h2.latest)
      BY <1>7, <2>10 DEF Good, Readable, Intent
    <3>2. QED
      BY <2>10, <2>11, <3>1 DEF Good, Readable
  <2>13. /\ DOMAIN x = ProcFields /\ x.run = proc.run /\ x.up = proc.up
         /\ x.nonce = proc.nonce /\ x.user.nonce \in 0 .. proc.nonce
         /\ x.user.id \in 0 .. MaxUserWrites /\ x.at = proc.at /\ x.sched = proc.sched
         /\ o = "succeeded" => x.pc = "capture" /\ x.user.id = proc.user.id
         /\ o # "succeeded" => x.pc = "idle"
    <3>1. CASE o = "succeeded"
      <4>1. x = [proc EXCEPT !.pc = "capture"]
        BY <2>5, <3>1
      <4>2. /\ DOMAIN x = ProcFields /\ x.run = proc.run /\ x.up = proc.up
            /\ x.nonce = proc.nonce /\ x.user = proc.user /\ x.at = proc.at
            /\ x.sched = proc.sched /\ x.pc = "capture"
        BY <1>6, <4>1 DEF Related, ProcFields
      <4>3. QED
        BY <1>6, <3>1, <4>2 DEF Related
    <3>2. CASE o # "succeeded"
      <4>1. x = done
        BY <2>5, <3>2
      <4>2. QED
        BY <1>8, <1>9, <3>2, <4>1
    <3>3. QED
      BY <3>1, <3>2
  <2>14. /\ DOMAIN q = ProcFields /\ q.run = x.run /\ q.up = x.up /\ q.nonce = x.nonce
         /\ q.user = x.user /\ q.pc = x.pc /\ q.at = [x.at EXCEPT !.max = n]
         /\ q.sched = x.sched
    BY <2>6, <2>13 DEF ProcFields
  <2>15. DOMAIN q.at = {"gen", "max", "ready"} /\ q.at.gen = proc.at.gen /\ q.at.max = n
    BY <1>6, <2>13, <2>14 DEF Related
  <2>16. Related(q, proc) /\ OpenIn(q, f) /\ q.up
    BY <1>6, <2>8, <2>13, <2>14, <2>15 DEF Related, OpenIn
  <2>17. Settled(proc, f, k2, h2.writes)
    BY <1>6, <2>9, <2>11 DEF Settled, Submitted
  <2>18. ProcOK(q, f, f, k2, h2) /\ q.run = proc.run
    <3>1. CASE o = "succeeded"
      <4>1. q.pc = "capture" /\ q.user.id = h2.latest
        BY <2>11, <2>13, <2>14, <3>1
      <4>2. QED
        BY <1>6, <2>16, <2>17, <4>1, AtUser
    <3>2. CASE o # "succeeded"
      <4>1. q.pc = "idle"
        BY <2>13, <2>14, <3>2
      <4>2. QED
        BY <1>6, <2>16, <2>17, <4>1, AtRest
    <3>3. QED
      BY <3>1, <3>2
  <2>19. HistoryOK(h2.writes, k2, proc.run) /\ Rewritten(h2.writes) /\ Repeated(h2.writes)
    BY <2>10, <2>11 DEF IInv
  <2>20. QED
    BY <1>4, <1>5, <1>7, <2>7, <2>9, <2>11, <2>12, <2>18, <2>19 DEF IInv
<1>13. QED
  BY <1>11, <1>12

-----------------------------------------------------------------------------
(* What happens to the receiver and to the service.                        *)

\* The record of a claim once its generation g has ended.
Closed(r, g) ==
    IF r.gen # g \/ r.status \in Terminal THEN r
    ELSE [r EXCEPT !.status = IF @ \in Active THEN "failed" ELSE "invalidated"]

\* Closing a record is an allowed change of it.
LEMMA ClosedAllowed ==
    ASSUME NEW f, NEW k, NEW h, Good(f, k, h), NEW c \in DOMAIN f.claims, NEW g,
           NEW r, r = Closed(f.claims[c], g)
    PROVE  /\ r \in Record /\ Allowed(r, f.claims[c], c, k, h.writes)
           /\ f.claims[c].gen # g => r = f.claims[c]
<1>1. PICK z \in Record : z = f.claims[c]
  BY ClaimsOf DEF Good, Readable, DocOK
<1>2. z.attempt \in Nat /\ z.status \in Status
  BY DEF Record
<1>3. CASE z.gen # g \/ z.status \in Terminal
  BY <1>1, <1>2, <1>3 DEF Closed, Allowed
<1>4. CASE ~(z.gen # g \/ z.status \in Terminal)
  <2>1. PICK s : s = IF z.status \in Active THEN "failed" ELSE "invalidated"
    OBVIOUS
  <2>2. r = [z EXCEPT !.status = s]
    BY <1>1, <1>4, <2>1 DEF Closed
  <2>3. r \in Record
    <3>1. PICK S : S = Status
      OBVIOUS
    <3>2. PICK A : A = 1 .. MaxGenerations
      OBVIOUS
    <3>3. PICK B : B = 1 .. MaxUserWrites
      OBVIOUS
    <3>4. PICK N : N = 0 .. MaxNonce
      OBVIOUS
    <3>5. z \in [gen : A, rev : Nat, write : B, gated : BOOLEAN, status : S, attempt : Nat,
                 nonce : N] /\ s \in S
      BY <2>1, <3>1, <3>2, <3>3, <3>4 DEF Record, Status, Terminal
    <3>6. r \in [gen : A, rev : Nat, write : B, gated : BOOLEAN, status : S, attempt : Nat,
                 nonce : N]
      BY <2>2, <3>5
    <3>7. QED
      BY <3>1, <3>2, <3>3, <3>4, <3>6 DEF Record
  <2>4. /\ r.gen = z.gen /\ r.rev = z.rev /\ r.write = z.write /\ r.attempt = z.attempt
        /\ r.status = s
    BY <2>2 DEF Record
  <2>5. Justified(s, z, c, k, h.writes)
    <3>1. CASE z.status \in Active
      BY <1>4, <2>1, <3>1 DEF Justified, Unsent, Active
    <3>2. CASE z.status \notin Active
      <4>1. z.status \notin Active \cup {"failed"}
        BY <1>4, <3>2 DEF Terminal
      <4>2. NoPartial(c, k, h.writes)
        BY <1>1, <4>1, UnsentHasNoPartial
      <4>3. QED
        BY <1>4, <2>1, <3>2, <4>2 DEF Justified, Unsent, Active
    <3>3. QED
      BY <3>1, <3>2
  <2>6. QED
    BY <1>1, <1>2, <1>4, <2>3, <2>4, <2>5 DEF Allowed
<1>5. QED
  BY <1>3, <1>4

\* The batch that closes every claim of a generation.
AllClosed(f, g) == [c \in DOMAIN f.claims |-> Closed(f.claims[c], g)]
Retired(f, g) == [f EXCEPT !.claims = AllClosed(f, g)]

\* It is a revision of the file, and leaves the claims of other generations alone.
LEMMA ClosedRevises ==
    ASSUME NEW f, NEW k, NEW h, Good(f, k, h), NEW g, NEW d, d = Retired(f, g)
    PROVE  /\ Revised(d, f, k, h.writes)
           /\ \A c \in DOMAIN f.claims : f.claims[c].gen # g => d.claims[c] = f.claims[c]
<1> DEFINE t == AllClosed(f, g)
<1>1. f \in Docs
  BY DEF Good, Readable, DocOK
<1>2. PICK n \in Nat : n = Len(f.claims) /\ DOMAIN f.claims = 1 .. n
  BY <1>1, ClaimsOf
<1>3. ASSUME NEW c \in DOMAIN f.claims
      PROVE  /\ t[c] \in Record /\ Allowed(t[c], f.claims[c], c, k, h.writes)
             /\ f.claims[c].gen # g => t[c] = f.claims[c]
  <2>1. t[c] = Closed(f.claims[c], g)
    BY DEF AllClosed
  <2>2. QED
    BY <2>1, ClosedAllowed
<1>4. t \in [1 .. n -> Record]
  BY <1>2, <1>3 DEF AllClosed
<1>5. t \in Seq(Record) /\ Len(t) = n /\ DOMAIN t = 1 .. n
  <2>1. t \in Seq(Record)
    BY <1>4, SeqDef
  <2>2. DOMAIN t = 1 .. n
    BY <1>4
  <2>3. QED
    BY <2>1, <2>2, LenProperties
<1>6. d.entry = f.entry /\ d.claims = t
  BY <1>1 DEF Docs, Retired
<1>7. d \in Docs
  <2>1. PICK E : E = Entry
    OBVIOUS
  <2>2. PICK S : S = Seq(Record)
    OBVIOUS
  <2>3. f \in [entry : E, claims : S] /\ t \in S
    BY <1>1, <1>5, <2>1, <2>2 DEF Docs
  <2>4. d \in [entry : E, claims : S]
    BY <2>3 DEF Retired
  <2>5. QED
    BY <2>1, <2>2, <2>4 DEF Docs
<1>8. QED
  BY <1>2, <1>3, <1>5, <1>6, <1>7 DEF Revised

\* The generation's claims are closed and the adapter is gone.
LEMMA RetireStep == IInv /\ Retire => IInv'
<1> SUFFICES ASSUME IInv, Retire PROVE IInv'
  OBVIOUS
<1>1. PICK f : f = disk.file
  OBVIOUS
<1>2. PICK g : g = proc.at.gen
  OBVIOUS
<1>3. PICK t : t = AllClosed(f, g)
  OBVIOUS
<1>4. PICK d : d = Retired(f, g)
  OBVIOUS
<1>5. PICK u : u = [nonce |-> 0, id |-> 0]
  OBVIOUS
<1>6. PICK z : z = [c \in Claims |-> IF c \in DOMAIN f.claims /\ f.claims[c].gen = g
                                     THEN "none" ELSE proc.sched[c]]
  OBVIOUS
<1>7. PICK q : q = [proc EXCEPT !.at = Detached, !.trigger = "none", !.user = u, !.sched = z]
  OBVIOUS
<1>8. Idle /\ Related(proc, proc)
  BY ProcFacts DEF Retire, Attached
<1>9. \/ proc' = q /\ UNCHANGED <<disk, kernel, hist>>
      \/ Persist(d, q)
  <2>1. t = [c \in known |-> IF rec(c).gen # proc.at.gen \/ rec(c).status \in Terminal
                             THEN rec(c)
                             ELSE [rec(c) EXCEPT !.status = IF @ \in Active THEN "failed"
                                                            ELSE "invalidated"]]
    BY <1>1, <1>2, <1>3 DEF AllClosed, Closed, known, rec, doc
  <2>2. z = [c \in Claims |-> IF c \in known /\ rec(c).gen = proc.at.gen
                              THEN "none" ELSE proc.sched[c]]
    BY <1>1, <1>2, <1>6 DEF known, rec, doc
  <2>3. q = [proc EXCEPT !.at = Detached, !.trigger = "none",
                         !.user = [nonce |-> 0, id |-> 0],
                         !.sched = [c \in Claims |->
                             IF c \in known /\ rec(c).gen = proc.at.gen
                             THEN "none" ELSE @[c]]]
    BY <1>5, <1>7, <1>8, <2>2 DEF Related, ProcFields
  <2>4. d = [doc EXCEPT !.claims = t]
    BY <1>1, <1>3, <1>4 DEF Retired, doc
  <2>5. QED
    BY <2>1, <2>3, <2>4 DEF Retire
<1>10. /\ DOMAIN q = ProcFields /\ q.run = proc.run /\ q.up = proc.up
       /\ q.nonce = proc.nonce /\ q.user.nonce = 0 /\ q.user.id = 0 /\ q.pc = "idle"
       /\ q.at = Detached /\ q.sched = z
  BY <1>5, <1>7, <1>8 DEF Related, ProcFields, Idle
<1>11. DOMAIN q.at = {"gen", "max", "ready"} /\ q.at.gen = 0 /\ q.at.max = 0
  BY <1>10 DEF Detached
<1>12. 0 \in 0 .. proc.nonce /\ 0 \in 0 .. MaxUserWrites /\ 0 \in 0 .. MaxGenerations
  BY <1>8, BoundsAssumption DEF Related
<1>13. Related(q, proc)
  BY <1>6, <1>8, <1>10, <1>11, <1>12 DEF Related
<1>14. CASE proc' = q /\ UNCHANGED <<disk, kernel, hist>>
  <2>1. \A c \in Claims : q.sched[c] # "none" => proc.sched[c] # "none"
    BY <1>6, <1>10
  <2>2. QED
    BY <1>8, <1>10, <1>13, <1>14, <2>1, ScheduleStep
<1>15. CASE Persist(d, q)
  <2>1. /\ proc.run \in Nat /\ OpenIn(proc, f) /\ Good(f, kernel, hist)
        /\ Settled(proc, f, kernel, hist.writes)
    BY <1>1, <1>8, ProcFacts, NotSubmitted DEF Idle
  <2>2. /\ Revised(d, f, kernel, hist.writes)
        /\ \A c \in DOMAIN f.claims : f.claims[c].gen # g => d.claims[c] = f.claims[c]
    BY <1>4, <2>1, ClosedRevises
  <2>3. Good(d, kernel, hist) /\ Settled(proc, d, kernel, hist.writes)
    BY <2>1, <2>2, RevisionKeeps, SettledStays
  <2>4. OpenIn(q, d)
    <3> SUFFICES ASSUME NEW c \in Claims, q.sched[c] # "none"
                 PROVE  c \in DOMAIN d.claims /\ d.claims[c].status \notin Terminal
      BY DEF OpenIn
    <3>1. proc.sched[c] # "none" /\ ~(c \in DOMAIN f.claims /\ f.claims[c].gen = g)
      BY <1>6, <1>10
    <3>2. c \in DOMAIN f.claims /\ f.claims[c].status \notin Terminal
      BY <2>1, <3>1 DEF OpenIn
    <3>3. QED
      BY <2>2, <3>1, <3>2 DEF Revised
  <2>5. ProcOK(q, d, d, kernel, hist) /\ q.run = proc.run
    BY <1>10, <1>13, <2>1, <2>3, <2>4, AtRest
  <2>6. QED
    BY <1>15, <2>3, <2>5, PersistKeeps
<1>16. QED
  BY <1>9, <1>14, <1>15

\* A kernel object without more of a journal, under the same process.
LEMMA CalmStep ==
    ASSUME IInv, UNCHANGED <<disk, proc, hist>>, NEW k2, kernel' = k2, KernelOK(k2),
           Calmer(k2, kernel, hist.writes)
    PROVE  IInv'
<1>1. /\ KernelOK(kernel) /\ HistoryOK(hist.writes, kernel, proc.run) /\ proc.run \in Nat
      /\ Good(disk.file, kernel, hist) /\ Readable(disk.synced, kernel, hist)
      /\ ProcOK(proc, disk.file, disk.synced, kernel, hist) /\ proc.run <= proc.run
  BY DEF IInv, ProcOK, ProcShape
<1>2. /\ Good(disk.file, k2, hist) /\ Readable(disk.synced, k2, hist)
      /\ ProcOK(proc, disk.file, disk.synced, k2, hist)
  BY <1>1, CalmerGood, CalmerReadable, CalmerProc
<1>3. HistoryOK(hist.writes, k2, proc.run)
  BY <1>1, CalmerHistory
<1>4. QED
  BY <1>2, <1>3 DEF IInv

\* The session of the writer ends.
LEMMA SessionOverIsCalm ==
    ASSUME IInv, NEW k2, k2 = SessionOver(kernel)
    PROVE  KernelOK(k2) /\ Calmer(k2, kernel, hist.writes)
<1>1. k2 = [kernel EXCEPT !.high = 0] /\ 0 \in 0 .. MaxNonce
  BY BoundsAssumption DEF SessionOver
<1>2. QED
  BY <1>1, HighWaterIsCalm DEF IInv

\* The same, as a step of its own.
LEMMA SessionEndsStep == IInv /\ SessionEnds => IInv'
<1> SUFFICES ASSUME IInv, SessionEnds PROVE IInv'
  OBVIOUS
<1>1. PICK k2 : k2 = SessionOver(kernel)
  OBVIOUS
<1>2. KernelOK(k2) /\ Calmer(k2, kernel, hist.writes)
  BY <1>1, SessionOverIsCalm
<1>3. kernel' = k2 /\ UNCHANGED <<disk, proc, hist>>
  BY <1>1 DEF SessionEnds
<1>4. QED
  BY <1>2, <1>3, CalmStep

\* The receiver is unplugged.
LEMMA UnplugStep == IInv /\ Unplug => IInv'
<1> SUFFICES ASSUME IInv, Unplug PROVE IInv'
  OBVIOUS
<1>1. PICK k2 : k2 = [NewKernel(kernel.gen) EXCEPT !.plugged = FALSE, !.seq = kernel.seq]
  OBVIOUS
<1>2. kernel' = k2 /\ UNCHANGED <<disk, proc, hist>> /\ kernel.gen < MaxGenerations
  BY <1>1 DEF Unplug
<1>3. KernelOK(k2) /\ Calmer(k2, kernel, hist.writes)
  BY <1>1, <1>2, UnplugIsCalm DEF IInv
<1>4. QED
  BY <1>2, <1>3, CalmStep

\* The receiver comes back under the next generation.
LEMMA PlugStep == IInv /\ Plug => IInv'
<1> SUFFICES ASSUME IInv, Plug PROVE IInv'
  OBVIOUS
<1>1. PICK k2 : k2 = NewKernel(kernel.gen + 1)
  OBVIOUS
<1>2. kernel' = k2 /\ UNCHANGED <<disk, proc, hist>> /\ ~kernel.plugged
  BY <1>1 DEF Plug
<1>3. KernelOK(kernel) /\ kernel.gen < MaxGenerations
  BY <1>2 DEF IInv, KernelOK
<1>4. KernelOK(k2) /\ Calmer(k2, kernel, hist.writes)
  BY <1>1, <1>3, NextGenerationIsCalm DEF IInv
<1>5. QED
  BY <1>2, <1>4, CalmStep

\* The service process ends.
LEMMA CrashStep == IInv /\ Crash => IInv'
<1> SUFFICES ASSUME IInv, Crash PROVE IInv'
  OBVIOUS
<1>1. PICK k2 : k2 = SessionOver(kernel)
  OBVIOUS
<1>2. PICK q : q = Down(proc)
  OBVIOUS
<1>3. kernel' = k2 /\ proc' = q /\ UNCHANGED <<disk, hist>>
  BY <1>1, <1>2 DEF Crash
<1>4. KernelOK(k2) /\ Calmer(k2, kernel, hist.writes)
  BY <1>1, SessionOverIsCalm
<1>5. /\ KernelOK(kernel) /\ HistoryOK(hist.writes, kernel, proc.run) /\ proc.run \in Nat
      /\ Good(disk.file, kernel, hist) /\ Readable(disk.synced, kernel, hist)
      /\ proc.run <= proc.run
  BY DEF IInv, ProcOK, ProcShape
<1>6. Good(disk.file, k2, hist) /\ Readable(disk.synced, k2, hist)
  BY <1>4, <1>5, CalmerGood, CalmerReadable
<1>7. HistoryOK(hist.writes, k2, proc.run)
  BY <1>4, <1>5, CalmerHistory
<1>8. ProcOK(q, disk.file, disk.synced, k2, hist) /\ q.run = proc.run
  BY <1>2, <1>5, FreshOK DEF Down
<1>9. QED
  BY <1>3, <1>4, <1>6, <1>7, <1>8 DEF IInv

\* The service manager starts the next process.
LEMMA StartStep == IInv /\ Start => IInv'
<1> SUFFICES ASSUME IInv, Start PROVE IInv'
  OBVIOUS
<1>1. PICK n \in Nat : n = proc.run
  BY ProcFacts
<1>2. PICK q : q = Fresh(n + 1)
  OBVIOUS
<1>3. proc' = q /\ UNCHANGED <<disk, kernel, hist>>
  BY <1>1, <1>2 DEF Start
<1>4. HistoryOK(hist.writes, kernel, n) /\ KernelOK(kernel)
  BY <1>1 DEF IInv
<1>5. \A w \in hist.writes : w.run # n + 1 /\ w.run <= n + 1
  BY <1>1, <1>4 DEF HistoryOK
<1>6. ProcOK(q, disk.file, disk.synced, kernel, hist) /\ q.run = n + 1
  <2>1. PICK m \in Nat : m = n + 1
    BY <1>1
  <2>2. \A w \in hist.writes : w.run # m
    BY <1>5, <2>1
  <2>3. ProcOK(q, disk.file, disk.synced, kernel, hist) /\ q.run = m
    BY <1>2, <2>1, <2>2, FreshOK
  <2>4. QED
    BY <2>1, <2>3
<1>7. HistoryOK(hist.writes, kernel, n + 1)
  BY <1>4, <1>5 DEF HistoryOK
<1>8. QED
  BY <1>3, <1>6, <1>7 DEF IInv

\* A power loss leaves one of the two documents and begins a generation.
LEMMA PowerLossStep == IInv /\ PowerLoss => IInv'
<1> SUFFICES ASSUME IInv, PowerLoss PROVE IInv'
  OBVIOUS
<1>1. PICK d : d \in {disk.file, disk.synced} /\ disk' = Committed(d)
  BY DEF PowerLoss
<1>2. PICK k2 : k2 = NewKernel(kernel.gen + 1)
  OBVIOUS
<1>3. PICK q : q = Down(proc)
  OBVIOUS
<1>4. kernel' = k2 /\ proc' = q /\ hist' = hist /\ disk'.file = d /\ disk'.synced = d
  BY <1>1, <1>2, <1>3 DEF PowerLoss, Committed
<1>5. /\ KernelOK(kernel) /\ HistoryOK(hist.writes, kernel, proc.run) /\ proc.run \in Nat
      /\ Readable(d, kernel, hist) /\ proc.run <= proc.run /\ kernel.gen < MaxGenerations
  BY <1>1 DEF IInv, ProcOK, ProcShape, Good, PowerLoss
<1>6. /\ KernelOK(k2) /\ Calmer(k2, kernel, hist.writes) /\ k2.results = <<>>
      /\ k2.tombs = <<>> /\ \A w \in hist.writes : w.gen # k2.gen
  BY <1>2, <1>5, NextGenerationIsCalm
<1>7. Readable(d, k2, hist)
  BY <1>5, <1>6, CalmerReadable
<1>8. Good(d, k2, hist)
  BY <1>6, <1>7, NewGenerationGood
<1>9. HistoryOK(hist.writes, k2, proc.run)
  BY <1>5, <1>6, CalmerHistory
<1>10. ProcOK(q, d, d, k2, hist) /\ q.run = proc.run
  BY <1>3, <1>5, FreshOK DEF Down
<1>11. QED
  BY <1>4, <1>6, <1>7, <1>8, <1>9, <1>10 DEF IInv

-----------------------------------------------------------------------------
(* The invariant, and what follows from it.                                *)

\* The state after a boot.
LEMMA InitHolds == Init => IInv
<1> SUFFICES ASSUME Init PROVE IInv
  OBVIOUS
<1>1. PICK d : d = [entry |-> [rev |-> 2, write |-> 1], claims |-> <<>>]
  OBVIOUS
<1>2. PICK k : k = NewKernel(1)
  OBVIOUS
<1>3. PICK q : q = Fresh(1)
  OBVIOUS
<1>4. PICK h : h = [writes |-> {}, users |-> 1, latest |-> 1]
  OBVIOUS
<1>5. disk.file = d /\ disk.synced = d /\ kernel = k /\ proc = q /\ hist = h
  BY <1>1, <1>2, <1>3, <1>4 DEF Init
<1>6. MaxGenerations \in Nat \ {0} /\ MaxUserWrites \in Nat \ {0} /\ MaxClaims \in Nat
  BY BoundsAssumption
<1>7. KernelOK(k) /\ k.results = <<>> /\ k.tombs = <<>>
  <2>1. 1 \in 1 .. MaxGenerations
    BY <1>6
  <2>2. QED
    BY <1>2, <2>1, NewKernelOK
<1>8. UsersOK(h) /\ h.writes = {} /\ h.latest = 1
  BY <1>4, <1>6 DEF UsersOK
<1>9. /\ d.claims = <<>> /\ d.entry.write = 1 /\ d.entry = [rev |-> 2, write |-> 1]
  BY <1>1
<1>10. DocOK(d)
  <2>1. d.claims \in Seq(Record) /\ Len(d.claims) = 0
    BY <1>9, EmptySeq
  <2>2. d.entry \in Entry
    BY <1>6, <1>9 DEF Entry
  <2>3. d \in Docs
    BY <1>1, <2>1, <2>2 DEF Docs
  <2>4. QED
    BY <1>6, <2>1, <2>3 DEF DocOK
<1>11. Readable(d, k, h)
  <2>1. DOMAIN d.claims = {}
    BY <1>9
  <2>2. QED
    BY <1>8, <1>9, <1>10, <2>1 DEF Readable, Truthful, Intent
<1>12. Good(d, k, h)
  BY <1>7, <1>8, <1>11, NewGenerationGood
<1>13. ProcOK(q, d, d, k, h) /\ q.run = 1
  BY <1>3, <1>8, FreshOK
<1>14. HistoryOK(h.writes, k, q.run) /\ Rewritten(h.writes) /\ Repeated(h.writes)
  BY <1>8 DEF HistoryOK, Rewritten, Repeated
<1>15. QED
  BY <1>5, <1>7, <1>8, <1>11, <1>12, <1>13, <1>14 DEF IInv

\* Every step of the service, of the receiver and of the machine.
LEMMA NextHolds == IInv /\ [Next]_vars => IInv'
<1> SUFFICES ASSUME IInv, [Next]_vars PROVE IInv'
  OBVIOUS
<1>1. CASE Attach \/ Retire \/ DeviceReturn \/ SystemResume \/ TakeTrigger
  BY <1>1, AttachStep, RetireStep, DeviceReturnStep, SystemResumeStep, TakeTriggerStep
<1>2. CASE \E c \in Claims : Wake(c) \/ Advance(c)
  <2>1. PICK c \in Claims : Wake(c) \/ Advance(c)
    BY <1>2
  <2>2. CASE Wake(c)
    BY <2>2, WakeStep
  <2>3. CASE Advance(c)
    BY <2>3, AdvanceBarredStep, AdvanceReconcilesStep, AdvanceInvalidatesStep,
       AdvanceDefersStep, AdvancePreparesStep DEF Advance
  <2>4. QED
    BY <2>1, <2>2, <2>3
<1>3. CASE TickStep
  BY <1>3, PlanSupersedeStep, PlanClaimStep, PlanNothingStep, SubmitStep, MarkApplyingStep,
     DispatchStopsStep, DispatchStep, FinishDispatchStep, UserDispatchStep, UserCaptureStep
     DEF TickStep
<1>4. CASE UserAdmit \/ UserExpires \/ UserPrepare \/ Traffic \/ NativeExchange
  BY <1>4, UserAdmitStep, UserExpiresStep, UserPrepareStep, TrafficStep, NativeExchangeStep
<1>5. CASE Crash \/ Start \/ PowerLoss \/ Unplug \/ Plug \/ SessionEnds
  BY <1>5, CrashStep, StartStep, PowerLossStep, UnplugStep, PlugStep, SessionEndsStep
<1>6. CASE UNCHANGED vars
  BY <1>6 DEF vars, IInv
<1>7. QED
  BY <1>1, <1>2, <1>3, <1>4, <1>5, <1>6 DEF Next

\* The state file, what a power loss leaves of it, the kernel's journal, the
\* process and the history of the device agree at all times.
THEOREM RestorationInvariant == Spec => []IInv
<1>1. Init => IInv
  BY InitHolds
<1>2. IInv /\ [Next]_vars => IInv'
  BY NextHolds
<1>3. QED
  BY <1>1, <1>2, PTL DEF Spec

\* Document, journal and schedule keep their types, and the journal its
\* capacities, whatever hfx_submit_reserve is given and wherever a tick is cut.
THEOREM TypeCorrect == Spec => []TypeOK
<1>1. IInv => TypeOK
  <2> SUFFICES ASSUME IInv PROVE TypeOK
    OBVIOUS
  <2>1. ASSUME NEW d, DocOK(d)
        PROVE  d.entry \in Entry /\ Len(d.claims) <= MaxClaims /\ Range(d.claims) \subseteq Record
    <3>1. d \in Docs /\ Len(d.claims) <= MaxClaims
      BY <2>1 DEF DocOK
    <3>2. d.entry \in Entry /\ \A c \in DOMAIN d.claims : d.claims[c] \in Record
      BY <3>1, ClaimsOf
    <3>3. QED
      BY <3>1, <3>2 DEF Range
  <2>2. DocOK(disk.file) /\ DocOK(disk.synced)
    BY DEF IInv, Good, Readable
  <2>3. /\ Len(kernel.results) <= ResultCapacity /\ Len(kernel.tombs) <= TombstoneCapacity
        /\ kernel.high \in 0 .. MaxNonce
    BY DEF IInv, KernelOK
  <2>4. /\ proc.at.max \in 0 .. proc.nonce
        /\ \A c \in Claims : proc.sched[c] # "none" => c \in known
    BY DEF IInv, ProcOK, ProcShape, Scheduled, known, doc
  <2>5. QED
    BY <2>1, <2>2, <2>3, <2>4 DEF TypeOK
<1>2. QED
  BY <1>1, RestorationInvariant, PTL

\* A claim whose write began is written again only by a later process, and only
\* once the kernel keeps neither its result nor its tombstone.
THEOREM RewritesOnlyForgotten == Spec => []RewrittenOnlyIfForgotten
<1>1. IInv => RewrittenOnlyIfForgotten
  BY DEF IInv, Rewritten, RewrittenOnlyIfForgotten
<1>2. QED
  BY <1>1, RestorationInvariant, PTL

\* enforce_prior_outcome_barrier: an intent whose write the transport failed half way
\* is not written again by any of its claims while the kernel remembers.
THEOREM FailedWriteNeverRepeated == Spec => []FailedWriteIsNotRepeated
<1>1. IInv => FailedWriteIsNotRepeated
  BY DEF IInv, Repeated, FailedWriteIsNotRepeated
<1>2. QED
  BY <1>1, RestorationInvariant, PTL

\* finish_record and the barrier: a record that says succeeded tells of a write
\* that did, one that says planned or deferred of none the kernel remembers, in
\* the file and in what a power loss leaves of it.
THEOREM RecordsTellTheTruth == Spec => []RecordsAreTruthful
<1>1. IInv => RecordsAreTruthful
  <2> SUFFICES ASSUME IInv, NEW d \in {disk.file, disk.synced}, NEW c \in DOMAIN d.claims
               PROVE  /\ d.claims[c].status = "succeeded"
                           => \E w \in WritesOf(d, c) : w.outcome = "succeeded"
                      /\ d.claims[c].status \in {"planned", "deferred"}
                           => \A w \in WritesOf(d, c) :
                                w.gen = kernel.gen => Forgotten(w, kernel.seq)
    BY DEF RecordsAreTruthful
  <2>1. Truthful(d, kernel, hist.writes)
    BY DEF IInv, Good, Readable
  <2>2. QED
    BY <2>1 DEF Truthful, SomeSucceeded, Clear, Unsent, WritesOf
<1>2. QED
  BY <1>1, RestorationInvariant, PTL

\* prepare_stable_dispatch writes the tombstone first: no restoration brings back
\* a colour after the user wrote another.
THEOREM OnlyLatestRestored == Spec => []RestoresLatest
<1>1. IInv => RestoresLatest
  BY DEF IInv, HistoryOK, RestoresLatest
<1>2. QED
  BY <1>1, RestorationInvariant, PTL
=============================================================================
