----------------------------- MODULE Restoration -----------------------------
(***************************************************************************)
(* Durable restoration of stable lighting, from the persisted claim to the *)
(* kernel's journal: the restoration engine (hfx-core restoration), the    *)
(* state file it commits through (hfx-bridge persistence.rs), the daemon's *)
(* scheduler and tick (hfx-daemon restoration, manager.rs), the kernel     *)
(* adapter's dispatch history and the kernel module's result journal.      *)
(*                                                                         *)
(* One receiver with one device.  The actor thread runs one tick at a time *)
(* (pc); a process crash, a power loss, an unplug and a session's end come *)
(* between any two of its steps.  A commit that does not return success    *)
(* makes the tick fail and the service exit.                               *)
(*                                                                         *)
(* Abstracted: the migration of an intent to a compatible profile, effect  *)
(* replays, and the dispatch bindings of the adapter, which only tell a    *)
(* conflict from a forgotten nonce (both end a claim as uncertain).  Every *)
(* submission and every advance takes a fresh nonce even when it is then   *)
(* refused, so the nonce of a dispatch may skip values.                    *)
(***************************************************************************)
EXTENDS Integers, Sequences, FiniteSets, SequencesExt

CONSTANTS
    ResultCapacity,     \* full results the kernel journal keeps (64)
    TombstoneCapacity,  \* digests it keeps after that (64)
    MaxRuns,            \* bound: service processes
    MaxGenerations,     \* bound: receiver generations
    MaxClaims,          \* bound: claims in the state file
    MaxUserWrites,      \* bound: stable writes of the user
    MaxNonce,           \* bound: dispatch nonces of one process
    MaxSequence         \* bound: kernel submissions of one generation

ASSUME BoundsAssumption ==
    /\ ResultCapacity \in Nat \ {0} /\ TombstoneCapacity \in Nat
    /\ {MaxRuns, MaxGenerations, MaxClaims, MaxUserWrites, MaxNonce, MaxSequence}
           \subseteq Nat \ {0}

VARIABLES
    disk,    \* the state file as it reads now, and as a power loss leaves it
    kernel,  \* the receiver's kernel object
    proc,    \* the service process
    hist     \* what was ever written to the device

vars == <<disk, kernel, proc, hist>>

-----------------------------------------------------------------------------
(* The document: the stable entry (write = 0 is a tombstone or no entry,   *)
(* otherwise the user write it captured) and the restore records.          *)

Entry == [rev : Nat, write : 0 .. MaxUserWrites]

Active == {"prepared", "queued", "applying"}
Terminal == {"succeeded", "failed", "invalidated"}
Status == {"planned", "deferred"} \cup Active \cup Terminal

Record == [gen : 1 .. MaxGenerations, rev : Nat, write : 1 .. MaxUserWrites,
           gated : BOOLEAN, status : Status, attempt : Nat, nonce : 0 .. MaxNonce]

Claims == 1 .. MaxClaims
doc == disk.file
rec(c) == doc.claims[c]
known == DOMAIN doc.claims
Pending == {c \in known : rec(c).status \notin Terminal}

\* The trigger kinds whose claims wait for the device to show itself.
Gated == {"generation", "resume"}
Triggers == {"start", "return"} \cup Gated

\* The adapter of a generation starts without history.
Detached == [gen |-> 0, max |-> 0, ready |-> FALSE]

\* A process as it starts: nothing of an earlier process survives in memory.
Fresh(run) ==
    [up |-> TRUE, run |-> run, nonce |-> 0, started |-> FALSE, configured |-> FALSE,
     prefer |-> TRUE, at |-> Detached, trigger |-> "none",
     sched |-> [c \in Claims |-> "none"], user |-> [nonce |-> 0, id |-> 0],
     pc |-> "idle", cur |-> 1]

Down(p) == [Fresh(p.run) EXCEPT !.up = FALSE]

\* Closing the writer's file revokes its session, and with it the high-water mark.
SessionOver(k) == [k EXCEPT !.high = 0]

NewKernel(g) == [gen |-> g, plugged |-> TRUE, high |-> 0, seq |-> 0,
                 results |-> <<>>, tombs |-> <<>>]

\* A boot after the user set a colour: its tombstone and its capture are committed.
Init ==
    /\ disk = LET d == [entry |-> [rev |-> 2, write |-> 1], claims |-> <<>>]
              IN [file |-> d, synced |-> d]
    /\ kernel = NewKernel(1)
    /\ proc = Fresh(1)
    /\ hist = [writes |-> {}, users |-> 1, latest |-> 1]

-----------------------------------------------------------------------------
(* The state file.                                                         *)

\* Variant: the directory is never synced.
NeverSynced(d) == [file |-> d, synced |-> disk.synced]

\* Write and sync a temporary file, rename it over the state, sync the directory.
Committed(d) == [file |-> d, synced |-> d]

\* The rename is visible and the directory sync failed or was not reached.
Renamed(d) == [file |-> d, synced |-> disk.synced]

\* One commit: p is the process after it succeeded.  A commit that fails before
\* the rename leaves what Crash leaves; one that fails after it ends the process.
Persist(d, p) ==
    /\ \/ disk' = Committed(d) /\ proc' = p /\ UNCHANGED kernel
       \/ /\ proc.run < MaxRuns
          /\ disk' = Renamed(d) /\ proc' = Down(proc) /\ kernel' = SessionOver(kernel)
    /\ UNCHANGED hist

WithStatus(c, s) == [doc EXCEPT !.claims[c].status = s]

-----------------------------------------------------------------------------
(* The kernel journal and the adapter in front of it.                      *)

\* Variant: the journal grows without bound.
KeepsEverything(k, r) ==
    [k EXCEPT !.seq = @ + 1, !.high = r.nonce, !.results = Append(@, r)]

\* What the journal keeps of a submission: its nonce, its transaction (<<0, 0, 0>>
\* when it is no claim's) and its outcome.
Submission(n, t, outcome) == [nonce |-> n, tx |-> t, status |-> outcome]
Other == <<0, 0, 0>>

\* hfx_submit_reserve: the oldest result becomes a tombstone, the oldest tombstone goes.
Reserve(k, r) ==
    LET full == Len(k.results) = ResultCapacity
        tombs == IF full THEN Append(k.tombs, Head(k.results)) ELSE k.tombs
    IN [k EXCEPT !.seq = @ + 1,
                 !.high = IF r.status \in {"partial", "revoked"} THEN 0 ELSE r.nonce,
                 !.results = Append(IF full THEN Tail(@) ELSE @, r),
                 !.tombs = IF Len(tombs) > TombstoneCapacity THEN Tail(tombs) ELSE tombs]

SameRequest(r, q) == r.nonce = q.nonce /\ r.tx = q.tx

\* Variant: a request without a full result counts as not observed.
IgnoresTombstones(q) ==
    LET found == {i \in DOMAIN kernel.results : SameRequest(kernel.results[i], q)}
    IN IF ~kernel.plugged \/ kernel.gen # proc.at.gen THEN "unavailable"
       ELSE IF found # {} THEN kernel.results[CHOOSE i \in found : TRUE].status
       ELSE "not_observed"

\* hfx_transport_get_result for request q = [nonce, tx].
Query(q) ==
    LET Found(s) == {i \in DOMAIN s : SameRequest(s[i], q)}
    IN IF ~kernel.plugged \/ kernel.gen # proc.at.gen THEN "unavailable"
       ELSE IF Found(kernel.results) # {}
            THEN kernel.results[CHOOSE i \in Found(kernel.results) : TRUE].status
       ELSE IF Found(kernel.tombs) # {} THEN "evicted"
       ELSE IF q.nonce > kernel.high THEN "not_observed"
       ELSE "unavailable"

\* The adapter answers for its own generation and for nonces above those it sent.
LookupDispatch(nonce) == IF nonce <= proc.at.max THEN "forgotten" ELSE "new"

Request(c) == [nonce |-> rec(c).nonce, tx |-> <<rec(c).gen, c, rec(c).attempt>>]

Reconcile(c) ==
    IF rec(c).gen # proc.at.gen \/ LookupDispatch(rec(c).nonce) = "forgotten"
    THEN "unavailable"
    ELSE Query(Request(c))

\* What a submission may come to: complete, failed or revoked after the first
\* frame began, or failed before it.
Outcomes == {"succeeded", "partial", "revoked", "unsent"}
Begun == {"succeeded", "partial", "revoked"}

Sendable(nonce) ==
    kernel.plugged /\ kernel.gen = proc.at.gen /\ LookupDispatch(nonce) = "new"
    /\ nonce > kernel.high

\* An advance that ends without an attempt has used a nonce too.
Nonces == (proc.nonce + 1) .. MaxNonce
NextNonce == proc.nonce + 1

-----------------------------------------------------------------------------
(* The scheduler.                                                          *)

Idle == proc.up /\ proc.pc = "idle"
Attached == Idle /\ proc.at.gen # 0

\* schedule_trigger_record: a claim of a gated kind is parked until its device,
\* in the claim's own generation, has shown itself.  A barrier retries later.
DueOf(r, trigger) ==
    IF trigger = "retry" THEN "wait"
    ELSE IF (r.gated \/ trigger \in Gated) /\ ~(proc.at.ready /\ r.gen = proc.at.gen)
    THEN "park" ELSE "due"

\* synchronize_pending_claims: schedules pending claims that are not, drops the rest.
Synchronize(d, trigger) ==
    [c \in Claims |->
        IF c \notin DOMAIN d.claims \/ d.claims[c].status \in Terminal THEN "none"
        ELSE IF proc.sched[c] # "none" THEN proc.sched[c]
        ELSE DueOf(d.claims[c], trigger)]

\* A tick that took a trigger goes on to one due claim.
ToClaims(p) == [p EXCEPT !.trigger = "none",
                         !.pc = IF \E c \in Claims : p.sched[c] = "due" THEN "claims" ELSE "idle"]

Rescheduled(c, s) == [proc EXCEPT !.sched[c] = s, !.pc = "idle", !.cur = 1]

\* One trigger waits at a time; past MaxClaims no more are explored.
Raised(t) ==
    IF proc.trigger = "none" /\ (proc.configured => Len(doc.claims) < MaxClaims)
    THEN t ELSE proc.trigger

\* First contact with the current generation, and the trigger it raises.
Attach ==
    /\ Idle /\ proc.at.gen = 0 /\ kernel.plugged
    /\ proc' = [proc EXCEPT !.at = [Detached EXCEPT !.gen = kernel.gen],
                            !.started = TRUE,
                            !.trigger = Raised(IF proc.started THEN "generation"
                                               ELSE "start")]
    /\ UNCHANGED <<disk, kernel, hist>>

\* The receiver is gone: one batch closes every claim of its generation.  No
\* claim is mid-dispatch between ticks, and the route already answers unavailable.
Retire ==
    /\ Attached
    /\ ~kernel.plugged \/ kernel.gen # proc.at.gen
    /\ LET retired(r) == IF r.gen # proc.at.gen \/ r.status \in Terminal THEN r
                         ELSE [r EXCEPT !.status = IF @ \in Active THEN "failed"
                                                   ELSE "invalidated"]
           claims == [c \in known |-> retired(rec(c))]
           p == [proc EXCEPT !.at = Detached, !.trigger = "none",
                             !.user = [nonce |-> 0, id |-> 0],
                             !.sched = [c \in Claims |->
                                 IF c \in known /\ rec(c).gen = proc.at.gen
                                 THEN "none" ELSE @[c]]]
       IN IF claims = doc.claims
          THEN proc' = p /\ UNCHANGED <<disk, kernel, hist>>
          ELSE Persist([doc EXCEPT !.claims = claims], p)

\* Variant: the return raises its trigger and wakes no claim.
ReturnWithoutWake ==
    /\ Attached
    /\ proc' = [proc EXCEPT !.at.ready = TRUE, !.trigger = Raised("return")]
    /\ UNCHANGED <<disk, kernel, hist>>

\* schedule_device_return_epoch_at: the device shows itself; claims of this
\* generation wake.
DeviceReturn ==
    /\ Attached
    /\ proc' = [proc EXCEPT
            !.at.ready = TRUE,
            !.trigger = Raised("return"),
            !.sched = [c \in Claims |-> IF @[c] # "none" /\ rec(c).gen = proc.at.gen
                                        THEN "due" ELSE @[c]]]
    /\ UNCHANGED <<disk, kernel, hist>>

\* The suspend boundary parks this generation's claims (and revokes the session:
\* SessionEnds); resume raises its trigger.
SystemResume ==
    /\ Attached
    /\ proc.trigger = "none"
    /\ proc' = [proc EXCEPT
            !.at.ready = FALSE,
            !.trigger = Raised("resume"),
            !.sched = [c \in Claims |-> IF @[c] # "none" /\ rec(c).gen = proc.at.gen
                                        THEN "park" ELSE @[c]]]
    /\ UNCHANGED <<disk, kernel, hist>>

\* A backoff or a retry interval has passed.
Wake(c) ==
    /\ Idle /\ proc.sched[c] = "wait"
    /\ proc' = [proc EXCEPT !.sched[c] = "due"]
    /\ UNCHANGED <<disk, kernel, hist>>

\* A trigger past MaxClaims plans nothing.
NeedsPlan == (proc.configured \/ Pending = {}) /\ Len(doc.claims) < MaxClaims

\* process_due_trigger: the first trigger of a process enables the policy, a
\* commit of its own, and only recovers the claims it finds.
TakeTrigger ==
    /\ Attached /\ proc.trigger # "none"
    /\ LET q == IF NeedsPlan THEN [proc EXCEPT !.configured = TRUE, !.pc = "plan"]
                ELSE ToClaims([proc EXCEPT !.configured = TRUE,
                                           !.sched = Synchronize(doc, proc.trigger)])
       IN IF proc.configured THEN proc' = q /\ UNCHANGED <<disk, kernel, hist>>
          ELSE Persist(doc, q)

Supersedable == {c \in known : rec(c).status \in {"planned", "deferred"}}

\* plan_restore: each claim a new one supersedes is a commit, then the new one.
PlanSupersede ==
    /\ proc.pc = "plan" /\ doc.entry.write # 0
    /\ \E c \in Supersedable :
        /\ \A other \in Supersedable : c <= other
        /\ Persist(WithStatus(c, "invalidated"), proc)

PlanClaim ==
    /\ proc.pc = "plan" /\ doc.entry.write # 0 /\ Supersedable = {}
    /\ LET r == [gen |-> proc.at.gen, rev |-> doc.entry.rev, write |-> doc.entry.write,
                 gated |-> proc.trigger \in Gated, status |-> "planned",
                 attempt |-> 0, nonce |-> 0]
           d == [doc EXCEPT !.claims = Append(@, r)]
       IN Persist(d, ToClaims([proc EXCEPT !.sched = Synchronize(d, proc.trigger)]))

PlanNothing ==
    /\ proc.pc = "plan" /\ doc.entry.write = 0
    /\ proc' = ToClaims([proc EXCEPT !.sched = Synchronize(doc, proc.trigger)])
    /\ UNCHANGED <<disk, kernel, hist>>

-----------------------------------------------------------------------------
(* advance_claim and dispatch_claim.                                       *)

\* Variant: only an unresolved sibling bars a claim.
BarredByActive(c) == \E other \in known \ {c} :
                        rec(other).rev = rec(c).rev /\ rec(other).status \in Active

\* enforce_prior_outcome_barrier: an unresolved or uncertain sibling of the
\* same intent.  Every failed record is uncertain: what is known to be unsent
\* is deferred instead.
Barred(c) == \E other \in known \ {c} :
                rec(other).rev = rec(c).rev /\ rec(other).status \in Active \cup {"failed"}

\* Variant: an attempt an earlier process left is simply made again.
NoAnswer(c) == "not_observed"

\* The transport is asked about an attempt that may have been dispatched.
Answer(c) == IF rec(c).status \in Active THEN Reconcile(c) ELSE "not_observed"

\* Variant: what the transport cannot answer for is retried.
RetriesUnknown(r) == CASE r = "succeeded" -> "succeeded"
                       [] r = "partial" -> "failed"
                       [] r = "revoked" -> "invalidated"
                       [] OTHER -> "deferred"

\* finish_record.
Finish(r) == CASE r = "succeeded" -> "succeeded"
               [] r \in {"unsent", "not_observed"} -> "deferred"
               [] r = "revoked" -> "invalidated"
               [] OTHER -> "failed"

\* A deferred claim is retried after a backoff, a terminal one leaves the schedule.
After(s) == IF s = "deferred" THEN "wait" ELSE "none"

Settle(c, s) == Persist(WithStatus(c, s), Rescheduled(c, After(s)))

Due(c) == /\ proc.sched[c] = "due"
          /\ proc.pc = "claims" \/ (Idle /\ proc.trigger = "none")

AdvanceBarred(c) ==
    /\ Due(c) /\ Barred(c)
    /\ proc' = [Rescheduled(c, "wait") EXCEPT
                    !.sched = [Synchronize(doc, "retry") EXCEPT ![c] = "wait"]]
    /\ UNCHANGED <<disk, kernel, hist>>

AdvanceReconciles(c) ==
    /\ Due(c) /\ ~Barred(c) /\ Answer(c) # "not_observed"
    /\ Settle(c, Finish(Answer(c)))

Free(c) == Due(c) /\ ~Barred(c) /\ Answer(c) = "not_observed"

Current(c) == doc.entry.write # 0 /\ doc.entry.rev = rec(c).rev /\ rec(c).gen = proc.at.gen

\* The intent changed, the generation ended, or the profile no longer matches.
AdvanceInvalidates(c) ==
    /\ Free(c)
    /\ Settle(c, "invalidated")

\* The device sleeps, or the session or the deadline is gone.
AdvanceDefers(c) ==
    /\ Free(c) /\ Current(c)
    /\ \E s \in {"park", "wait"} : Persist(WithStatus(c, "deferred"), Rescheduled(c, s))

AdvancePrepares(c) ==
    /\ Free(c) /\ Current(c) /\ kernel.seq < MaxSequence
    /\ \E n \in Nonces :
        Persist([doc EXCEPT !.claims[c].status = "prepared",
                            !.claims[c].attempt = @ + 1,
                            !.claims[c].nonce = n],
                [proc EXCEPT !.pc = "prepared", !.cur = c, !.nonce = n])

\* The lease and the queue: a user who waits to write holds the lease.  What is
\* queued is dispatched in the same tick, after which applications have the turn.
Submit ==
    /\ proc.pc = "prepared"
    /\ \/ /\ proc.user.id = 0
          /\ Persist(WithStatus(proc.cur, "queued"),
                     [proc EXCEPT !.pc = "queued", !.prefer = FALSE])
       \/ \E s \in {"deferred", "invalidated"} : Settle(proc.cur, s)

\* dispatch_claim asks the transport again and commits before the write.
MarkApplying ==
    /\ proc.pc = "queued" /\ Reconcile(proc.cur) = "not_observed"
    /\ Persist(WithStatus(proc.cur, "applying"), [proc EXCEPT !.pc = "applying"])

\* The transport answers for the attempt or the gate puts it off, the gate closes
\* it (the intent, the policy, the generation or the profile changed), or the
\* coordinator's preflight refuses it unsent.
DispatchStops ==
    \/ proc.pc = "queued" /\ Settle(proc.cur, Finish(Reconcile(proc.cur)))
    \/ /\ proc.pc = "queued" /\ Reconcile(proc.cur) = "not_observed"
       /\ Settle(proc.cur, "invalidated")
    \/ proc.pc = "applying" /\ Settle(proc.cur, "deferred")

Write(c, outcome) == [gen |-> rec(c).gen, claim |-> c, rev |-> rec(c).rev,
                      run |-> proc.run, seq |-> kernel.seq + 1, outcome |-> outcome,
                      latest |-> rec(c).write = hist.latest]

\* The kernel submission, which the kernel may refuse before it reserves anything.
Dispatch ==
    /\ proc.pc = "applying"
    /\ \/ UNCHANGED <<kernel, hist>>
       \/ /\ Sendable(rec(proc.cur).nonce)
          /\ \E outcome \in Outcomes :
                /\ kernel' = Reserve(kernel, Submission(rec(proc.cur).nonce,
                                                        Request(proc.cur).tx, outcome))
                /\ hist' = IF outcome \in Begun
                           THEN [hist EXCEPT !.writes = @ \cup {Write(proc.cur, outcome)}]
                           ELSE hist
    /\ proc' = [proc EXCEPT !.pc = "submitted",
                    !.at.max = IF Sendable(rec(proc.cur).nonce) THEN rec(proc.cur).nonce ELSE @]
    /\ UNCHANGED disk

\* submit_new reads the result back; the terminal record is committed.
FinishDispatch ==
    /\ proc.pc = "submitted"
    /\ Settle(proc.cur, Finish(Query(Request(proc.cur))))

-----------------------------------------------------------------------------
(* The applications' writes.                                               *)

\* A queued application write goes first only after a claim was dispatched.
ApplicationTurn ==
    Attached /\ proc.configured /\ (proc.prefer => \A c \in Claims : proc.sched[c] # "due")

\* A stable write is admitted, and takes its nonce, before its turn comes.
UserAdmit ==
    /\ Attached /\ proc.user.id = 0
    /\ hist.users < MaxUserWrites /\ NextNonce <= MaxNonce
    /\ proc' = [proc EXCEPT !.nonce = NextNonce,
                            !.user = [nonce |-> NextNonce, id |-> hist.users + 1]]
    /\ hist' = [hist EXCEPT !.users = @ + 1]
    /\ UNCHANGED <<disk, kernel>>

UserExpires ==
    /\ Idle /\ proc.user.id # 0
    /\ proc' = [proc EXCEPT !.user = [nonce |-> 0, id |-> 0]]
    /\ UNCHANGED <<disk, kernel, hist>>

\* prepare_stable_dispatch: the entry becomes a tombstone before the write.
UserPrepare ==
    /\ ApplicationTurn /\ proc.user.id # 0 /\ kernel.seq < MaxSequence
    /\ Persist([doc EXCEPT !.entry = [rev |-> @.rev + 1, write |-> 0]],
               [proc EXCEPT !.pc = "user"])

\* A nonce that a later one has overtaken is refused as forgotten, unsent.
UserDispatch ==
    /\ proc.pc = "user"
    /\ LET n == proc.user.nonce
           done == [proc EXCEPT !.pc = "idle", !.user = [nonce |-> 0, id |-> 0],
                                !.prefer = TRUE]
       IN IF Sendable(n)
          THEN \E outcome \in Outcomes :
                   /\ kernel' = Reserve(kernel, Submission(n, Other, outcome))
                   /\ hist' = IF outcome \in Begun
                              THEN [hist EXCEPT !.latest = proc.user.id] ELSE hist
                   /\ proc' = [(IF outcome = "succeeded" THEN [proc EXCEPT !.pc = "capture"]
                                ELSE done) EXCEPT !.at.max = n]
          ELSE proc' = done /\ UNCHANGED <<kernel, hist>>
    /\ UNCHANGED disk

\* capture_completed: only a definitive success becomes the stable intent.
UserCapture ==
    /\ proc.pc = "capture"
    /\ Persist([doc EXCEPT !.entry = [rev |-> @.rev + 1, write |-> proc.user.id]],
               [proc EXCEPT !.pc = "idle", !.prefer = TRUE,
                            !.user = [nonce |-> 0, id |-> 0]])

\* Any other transaction of the receiver passes through the same journal.
Traffic ==
    /\ ApplicationTurn /\ kernel.seq < MaxSequence
    /\ NextNonce <= MaxNonce /\ Sendable(NextNonce)
    /\ kernel' = Reserve(kernel, Submission(NextNonce, Other, "succeeded"))
    /\ proc' = [proc EXCEPT !.nonce = NextNonce, !.at.max = NextNonce, !.prefer = TRUE]
    /\ UNCHANGED <<disk, hist>>

\* A native exchange has a journal of its own and shares the nonces.
NativeExchange ==
    /\ Attached /\ NextNonce <= MaxNonce /\ Sendable(NextNonce)
    /\ kernel' = [kernel EXCEPT !.high = NextNonce]
    /\ proc' = [proc EXCEPT !.nonce = NextNonce, !.at.max = NextNonce]
    /\ UNCHANGED <<disk, hist>>

-----------------------------------------------------------------------------
(* What happens to the service and to the receiver.                        *)

Crash ==
    /\ proc.up /\ proc.run < MaxRuns /\ proc' = Down(proc)
    /\ kernel' = SessionOver(kernel)
    /\ UNCHANGED <<disk, hist>>

Start ==
    /\ ~proc.up
    /\ proc' = Fresh(proc.run + 1)
    /\ UNCHANGED <<disk, kernel, hist>>

PowerLoss ==
    /\ kernel.gen < MaxGenerations /\ proc.run < MaxRuns
    /\ \E d \in {disk.file, disk.synced} : disk' = Committed(d)
    /\ proc' = Down(proc) /\ kernel' = NewKernel(kernel.gen + 1)
    /\ UNCHANGED hist

Unplug ==
    /\ kernel.plugged /\ kernel.gen < MaxGenerations
    /\ kernel' = [NewKernel(kernel.gen) EXCEPT !.plugged = FALSE, !.seq = kernel.seq]
    /\ UNCHANGED <<disk, proc, hist>>

Plug ==
    /\ ~kernel.plugged
    /\ kernel' = NewKernel(kernel.gen + 1)
    /\ UNCHANGED <<disk, proc, hist>>

SessionEnds ==
    /\ kernel.high > 0 /\ kernel' = SessionOver(kernel)
    /\ UNCHANGED <<disk, proc, hist>>

Advance(c) ==
    \/ AdvanceBarred(c) \/ AdvanceReconciles(c) \/ AdvanceInvalidates(c)
    \/ AdvanceDefers(c) \/ AdvancePrepares(c)

\* The steps of a tick once begun, each taken by the actor thread without waiting.
TickStep ==
    \/ PlanSupersede \/ PlanClaim \/ PlanNothing
    \/ Submit \/ MarkApplying \/ DispatchStops \/ Dispatch \/ FinishDispatch
    \/ UserDispatch \/ UserCapture

Next ==
    \/ Attach \/ Retire \/ DeviceReturn \/ SystemResume
    \/ TakeTrigger
    \/ \E c \in Claims : Wake(c) \/ Advance(c)
    \/ TickStep
    \/ UserAdmit \/ UserExpires \/ UserPrepare \/ Traffic \/ NativeExchange
    \/ Crash \/ Start \/ PowerLoss \/ Unplug \/ Plug \/ SessionEnds

\* The actor's loop ticks while the process is up, the service manager restarts
\* the process, and the user goes on using the device.  A claim that is due again
\* and again is advanced: a tick is milliseconds away, a suspend is not.
Fairness ==
    /\ WF_vars(TickStep) /\ WF_vars(Attach) /\ WF_vars(Retire) /\ WF_vars(Start)
    /\ WF_vars(DeviceReturn) /\ WF_vars(Plug)
    /\ WF_vars(TakeTrigger)
    /\ \A c \in Claims : WF_vars(Wake(c)) /\ SF_vars(Advance(c))

Spec == Init /\ [][Next]_vars
FairSpec == Spec /\ Fairness

-----------------------------------------------------------------------------
(* Properties.                                                             *)

\* The state file, the journal, the kernel and the schedule keep their types;
\* results and tombstones stay within the driver's capacities whatever is
\* reserved, evicted or interrupted.
TypeOK ==
    /\ \A d \in {disk.file, disk.synced} :
        d.entry \in Entry /\ Len(d.claims) <= MaxClaims /\ Range(d.claims) \subseteq Record
    /\ Len(kernel.results) <= ResultCapacity /\ Len(kernel.tombs) <= TombstoneCapacity
    /\ kernel.high \in 0 .. MaxNonce /\ proc.at.max \in 0 .. proc.nonce
    /\ \A c \in Claims : proc.sched[c] # "none" => c \in known

\* The kernel has forgotten write w: so many submissions came after it that
\* neither its result nor its tombstone is left.
Forgotten(w, now) == now - w.seq >= ResultCapacity + TombstoneCapacity

\* A claim whose write began is written again only by a later process and only
\* once the kernel has forgotten the first write.
RewrittenOnlyIfForgotten ==
    \A v, w \in hist.writes :
        (v.gen = w.gen /\ v.claim = w.claim /\ v.seq < w.seq)
            => v.run < w.run /\ Forgotten(v, w.seq - 1)

\* An intent whose restoration write the transport failed after it had begun is
\* not written again in that generation, by any claim and any process, until the
\* kernel has forgotten the write.  A write that was revoked half way is repeated:
\* its record is invalidated, which bars no sibling.  Only a new claim repeats it
\* (RewrittenOnlyIfForgotten).
FailedWriteIsNotRepeated ==
    \A v, w \in hist.writes :
        (v.rev = w.rev /\ v.gen = w.gen /\ v.seq < w.seq /\ v.outcome = "partial")
            => Forgotten(v, w.seq - 1)

WritesOf(d, c) == {w \in hist.writes : w.claim = c /\ w.gen = d.claims[c].gen}

\* What a record says of the device is true, in the file and in what a power
\* loss leaves of it.
RecordsAreTruthful ==
    \A d \in {disk.file, disk.synced} : \A c \in DOMAIN d.claims :
        /\ d.claims[c].status = "succeeded"
               => \E w \in WritesOf(d, c) : w.outcome = "succeeded"
        /\ d.claims[c].status \in {"planned", "deferred"}
               => \A w \in WritesOf(d, c) : w.gen = kernel.gen => Forgotten(w, kernel.seq)

\* Restoration never brings back a colour after the user wrote another.
RestoresLatest == \A w \in hist.writes : w.latest

\* A claim is written at most once: its write, once begun, is not begun again.
WrittenAtMostOnce ==
    \A v, w \in hist.writes : (v.gen = w.gen /\ v.claim = w.claim) => v = w

\* Under the fairness above, a claim that was interrupted in the receiver's
\* present generation is settled.  It does not hold of a claim left over from
\* an earlier generation: recovery parks it under that generation's readiness
\* (schedule.rs), which nothing wakes any more.
InterruptedIsSettled ==
    \A c \in Claims :
        (c \in known /\ rec(c).status \in Active /\ rec(c).gen = kernel.gen)
            ~> (c \notin known \/ rec(c).status \notin Active \/ rec(c).gen # kernel.gen)
=============================================================================
