-------------------------- MODULE RecoveringClient --------------------------
(***************************************************************************)
(* The recovering client and the lighting session of the Python SDK        *)
(* (sdk/python/hyperflux_sdk) talking to the bridge over Unix sockets that *)
(* fail.  One RecoveringClient is shared by two threads: "app" owns a      *)
(* LightingSession, "aux" reads and closes.  Every public method of the    *)
(* client holds its lock for the whole call, reconnects included; the      *)
(* session above it takes no lock, so "aux" may reconnect between two      *)
(* calls of one session method.                                            *)
(*                                                                         *)
(* A connection is a number.  What the client has sent and the bridge has  *)
(* not read is in inbox, what the bridge has answered and the client has   *)
(* not read is in outbox; both survive a client that gave up waiting.  The *)
(* bridge is the promise modules Leases and Coordinator establish: one     *)
(* lease on one resource, a queue, an outcome journal, all lost in a       *)
(* crash.  The journal and its memory of evicted outcomes are bounded and  *)
(* shared: the traffic of other clients may push any finished outcome out  *)
(* of them.  A lease may end at any moment.  Arguments a session refuses   *)
(* before it makes a call change nothing, and a bridge error other than    *)
(* those below is an answer like any other: neither has an action.         *)
(***************************************************************************)
EXTENDS Naturals, SequencesExt, Filtering

CONSTANTS
    MaxConnections, \* bound of the connections opened
    MaxEpoch,       \* bound of the connection epoch
    MaxLeases,      \* bound of the leases granted to this client
    MaxTransactions,\* bound of the transaction ids drawn
    MaxCrashes,     \* bound of the crashes of the bridge
    MaxEvictions    \* bound of the transactions whose outcome is evicted or lost

ASSUME RecoveringConstants ==
    /\ MaxConnections \in Nat /\ MaxEpoch \in Nat
    /\ MaxLeases \in Nat /\ MaxTransactions \in Nat /\ MaxCrashes \in Nat
    /\ MaxEvictions \in Nat

VARIABLES
    connection, \* RecoveringClient._connection, 0 for None
    epoch,      \* RecoveringClient._connection_epoch
    call,       \* what each thread is doing
    session,    \* the LightingSession of "app"
    drawn,      \* transaction ids drawn from the identity source
    result,     \* what the submission of each transaction told the application
    opened,     \* sockets connected so far
    inbox,      \* requests the bridge has not read, by connection
    outbox,     \* answers the client has not read, by connection
    closed,     \* connections whose client end is closed
    up,         \* the bridge process runs
    serving,    \* connections the bridge serves
    registered, \* those with a registered session of this client
    holder,     \* the lease on the resource, 0 for none
    granted,    \* leases granted to this client, by the connection that asked
    queue,      \* admitted transactions
    journal,    \* outcome journal
    crashes,    \* crashes so far
    submitted,  \* history: how often each submission was put on a socket
    written,    \* history: transactions in the order they reached the receiver
    reused,     \* history: a lease of an earlier connection was put on a socket
    lost,       \* history: transactions whose record the bridge has lost
    overtaken   \* history: "aux" changed the epoch while "app" was between two calls

client == <<connection, epoch, call, session, drawn, result>>
sockets == <<opened, inbox, outbox, closed>>
bridge == <<up, serving, registered, holder, granted, queue, journal, crashes>>
history == <<submitted, written, reused, lost, overtaken>>
vars == <<client, sockets, bridge, history>>

Connections == 1 .. MaxConnections
Transactions == 1 .. MaxTransactions    \* drawn in this order
Threads == {"app", "aux"}

Ops == {"none", "read", "acquire", "renew", "release", "next", "submit", "outcome"}

\* unlocked: idle, or between two calls of one session method.
Unlocked == {"idle", "granted", "checked", "ready"}
FirstTry == {"connect", "negotiate", "send", "await"}
Raised == {"sdk-error", "os-error"}
Retry == {"reconnect", "renegotiate", "resend", "reawait"}

Idle == [op |-> "none", stage |-> "idle", lease |-> 0, transaction |-> 0, id |-> 0]
NoSession == [lease |-> 0, epoch |-> 0]

Request(op, id, lease, t) == [op |-> op, id |-> id, lease |-> lease, transaction |-> t]
Answer(request, value) == [id |-> request.id, value |-> value, about |-> request]

\* The fields keep their types and at most one thread is inside the client: the
\* lock is held from the entry of a call to its end, reconnects included.
TypeOK ==
    /\ connection \in 0 .. opened
    /\ epoch \in 0 .. MaxEpoch
    /\ call \in [Threads -> [op : Ops, stage : Unlocked \union FirstTry \union Retry,
                             lease : 0 .. MaxLeases, transaction : {0} \union Transactions,
                             id : 0 .. 2]]
    /\ \A t, u \in Threads : call[t].stage \notin Unlocked /\ call[u].stage \notin Unlocked => t = u
    /\ session \in [lease : 0 .. MaxLeases, epoch : 0 .. MaxEpoch]
    /\ drawn \in {0} \union Transactions
    /\ opened \in 0 .. MaxConnections
    /\ closed \subseteq 1 .. opened
    /\ \A c \in Connections : Len(inbox[c]) + Len(outbox[c]) <= 3
    /\ serving \subseteq 1 .. opened /\ registered \subseteq serving
    /\ holder \in 0 .. MaxLeases
    /\ granted \in Seq(Connections) /\ Len(granted) <= MaxLeases

Init ==
    /\ connection = 0 /\ epoch = 0
    /\ call = [t \in Threads |-> Idle]
    /\ session = NoSession
    /\ drawn = 0
    /\ result = [t \in Transactions |-> "none"]
    /\ opened = 0
    /\ inbox = [c \in Connections |-> <<>>]
    /\ outbox = [c \in Connections |-> <<>>]
    /\ closed = {}
    /\ up = TRUE /\ serving = {} /\ registered = {}
    /\ holder = 0 /\ granted = <<>>
    /\ queue = <<>>
    /\ journal = [t \in Transactions |-> "unknown"]
    /\ crashes = 0
    /\ submitted = [t \in Transactions |-> 0]
    /\ written = <<>>
    /\ reused = FALSE /\ lost = {} /\ overtaken = FALSE

---------------------------------------------------------------------------
(***************************************************************************)
(* RecoveringClient: the lock, and how a call ends.                        *)
(***************************************************************************)
\* Mutant: the client does not exclude its threads.
Unguarded == TRUE

LockFree == \A t \in Threads : call[t].stage \in Unlocked

\* _ensure_connected under the lock.
Enter(t, op, lease, transaction) ==
    /\ LockFree
    /\ call' = [call EXCEPT ![t] =
          [op |-> op, stage |-> IF connection = 0 THEN "connect" ELSE "send",
           lease |-> lease, transaction |-> transaction, id |-> 0]]

\* What LightingSession and the application do with the result of a call: an
\* acquired lease waits for its session, a failed renewal and any release end
\* the session, and a failed lookup tells nothing new.
Return(t, value) ==
    LET k == call[t] IN
    /\ call' = [call EXCEPT ![t] = Idle]
    /\ session' = IF k.op = "release" \/ (k.op = "renew" /\ value # "renewed")
                  THEN NoSession ELSE session
    /\ result' = IF k.op = "submit" \/ (k.op = "outcome" /\ value \notin Raised)
                 THEN [result EXCEPT ![k.transaction] = value] ELSE result

\* _unknown_outcome is "gave-up" here and "unknown" when a lookup answers so;
\* the application cannot tell them apart.
\* A connection error of an exchange: a first try reconnects, a second one
\* is raised, except that a submission is then of unknown outcome.
ExchangeFails(t) ==
    IF call[t].stage \in FirstTry
    THEN /\ call' = [call EXCEPT ![t].stage = "reconnect"]
         /\ UNCHANGED <<session, result>>
    ELSE Return(t, IF call[t].op = "submit" THEN "gave-up" ELSE "sdk-error")

\* factory.connect() raised: an operating system error is not an SDK error,
\* so submit_transaction only turns the second into an unknown outcome.
ConnectFails(t, raised) ==
    Return(t, IF call[t].op = "submit" /\ call[t].stage \in Retry /\ raised = "sdk-error"
              THEN "gave-up" ELSE raised)

---------------------------------------------------------------------------
(***************************************************************************)
(* _reconnect: drop the connection, advance the epoch, connect, negotiate. *)
(***************************************************************************)
\* Closing a socket discards the answers not yet read.
Unread(c) == [d \in Connections |-> IF d = c THEN <<>> ELSE outbox[d]]

Advance(t) ==
    /\ epoch < MaxEpoch
    /\ epoch' = epoch + 1
    /\ closed' = closed \union ({connection} \ {0})
    /\ outbox' = Unread(connection)
    /\ connection' = 0
    /\ overtaken' = (overtaken \/ (t = "aux" /\ call["app"].stage # "idle"))

\* The socket is absent or refuses.
ConnectRefused(t) ==
    /\ call[t].stage \in {"connect", "reconnect"}
    /\ ~up
    /\ Advance(t)
    /\ ConnectFails(t, "os-error")
    /\ UNCHANGED <<drawn, opened, inbox, bridge, submitted, written, reused, lost>>

Connect(t) ==
    LET c == opened + 1 IN
    /\ call[t].stage \in {"connect", "reconnect"}
    /\ up /\ opened < MaxConnections
    /\ Advance(t)
    /\ opened' = c
    /\ inbox' = [inbox EXCEPT ![c] = <<Request("negotiate", 0, 0, 0)>>]
    /\ serving' = serving \union {c}
    /\ call' = [call EXCEPT ![t].stage = IF @ = "connect" THEN "negotiate" ELSE "renegotiate"]
    /\ UNCHANGED <<session, drawn, result, up, registered, holder, granted, queue,
                   journal, crashes, submitted, written, reused, lost>>

\* The candidate is the connection opened last.  A renewal or a release that
\* had to reconnect is not sent again.
Negotiated(t) ==
    LET c == opened IN
    /\ call[t].stage \in {"negotiate", "renegotiate"}
    /\ outbox[c] # <<>>
    /\ outbox' = [outbox EXCEPT ![c] = Tail(@)]
    /\ IF Head(outbox[c]).value = "ok"
       THEN /\ connection' = c
            /\ closed' = closed
            /\ IF call[t].stage = "renegotiate" /\ call[t].op \in {"renew", "release"}
               THEN Return(t, "inactive")
               ELSE /\ call' = [call EXCEPT ![t].stage =
                          IF @ = "negotiate" THEN "send" ELSE "resend"]
                    /\ UNCHANGED <<session, result>>
       ELSE /\ connection' = connection
            /\ closed' = closed \union {c}
            /\ ConnectFails(t, "sdk-error")
    /\ UNCHANGED <<epoch, drawn, opened, inbox, bridge, history>>

\* No answer in time, or the bridge is gone.
NegotiationLost(t) ==
    /\ call[t].stage \in {"negotiate", "renegotiate"}
    /\ closed' = closed \union {opened}
    /\ outbox' = Unread(opened)
    /\ ConnectFails(t, "sdk-error")
    /\ UNCHANGED <<connection, epoch, drawn, opened, inbox, bridge, history>>

---------------------------------------------------------------------------
(***************************************************************************)
(* Client._exchange_session over UnixRpcChannel.exchange.                  *)
(***************************************************************************)
\* Mutant: the uncertain submission is replayed after the reconnect.
ReplayedMethod(k) == IF k.op = "outcome" THEN "lookup" ELSE k.op

\* submit_transaction asks for the outcome after a reconnect.
Method(k) ==
    IF k.op = "outcome" \/ (k.op = "submit" /\ k.stage \in Retry) THEN "lookup" ELSE k.op

\* Three request ids tell apart the answers that can be outstanding on one
\* connection; the next one differs from those of the answers not yet read.
NextId(c) ==
    CHOOSE i \in 0 .. 2 : \A r \in ToSet(inbox[c]) \union ToSet(outbox[c]) : r.id # i

Send(t) ==
    LET k == call[t]
        r == Request(Method(k), NextId(connection),
                     IF Method(k) = "lookup" THEN 0 ELSE k.lease, k.transaction)
    IN  /\ k.stage \in {"send", "resend"}
        /\ k.op # "next"
        /\ inbox' = IF connection \in serving
                    THEN [inbox EXCEPT ![connection] = Append(@, r)] ELSE inbox
        /\ call' = [call EXCEPT ![t].stage = IF @ = "send" THEN "await" ELSE "reawait",
                                ![t].id = r.id]
        /\ submitted' = IF r.op = "submit" THEN [submitted EXCEPT ![k.transaction] = @ + 1]
                        ELSE submitted
        /\ reused' = (reused \/ (r.lease # 0 /\ granted[r.lease] # connection))
        /\ UNCHANGED <<connection, epoch, session, drawn, result, opened, outbox, closed,
                       bridge, written, lost, overtaken>>

\* CodecError while encoding, or OSError from sendall: nothing arrives.
SendFails(t) ==
    /\ call[t].stage \in {"send", "resend"}
    /\ call[t].op # "next"
    /\ ExchangeFails(t)
    /\ UNCHANGED <<connection, epoch, drawn, sockets, bridge, history>>

\* next_transaction_id needs a connection and no exchange.
DrawId(t) ==
    /\ call[t].stage = "send" /\ call[t].op = "next"
    /\ drawn' = drawn + 1
    /\ call' = [call EXCEPT ![t].stage = "ready", ![t].transaction = drawn + 1]
    /\ UNCHANGED <<connection, epoch, session, result, sockets, bridge, history>>

\* Mutant: any answer is taken for the answer to the outstanding request.
AnyAnswerMatches(k, answer) == TRUE

\* _validate_request_id
Matches(k, answer) == answer.id = k.id

Receive(t) ==
    LET k == call[t]
        answer == Head(outbox[connection])
    IN  /\ k.stage \in {"await", "reawait"}
        /\ outbox[connection] # <<>>
        /\ outbox' = [outbox EXCEPT ![connection] = Tail(@)]
        /\ IF ~Matches(k, answer)
           THEN ExchangeFails(t)
           ELSE IF answer.about.op # Method(k)
           THEN Return(t, IF k.op = "submit" /\ k.stage \in Retry THEN "gave-up" ELSE "sdk-error")
           ELSE IF k.op = "acquire" /\ answer.value = "granted"
           THEN /\ call' = [call EXCEPT ![t] =
                      [Idle EXCEPT !.stage = "granted", !.lease = answer.about.lease]]
                /\ UNCHANGED <<session, result>>
           ELSE Return(t, answer.value)
        /\ UNCHANGED <<connection, epoch, drawn, opened, inbox, closed, bridge, history>>

\* The bounded wait ends, or the stream does: the answer may still come.
GiveUp(t) ==
    /\ call[t].stage \in {"await", "reawait"}
    /\ ExchangeFails(t)
    /\ UNCHANGED <<connection, epoch, drawn, sockets, bridge, history>>

Exchange(t) ==
    \/ ConnectRefused(t) \/ Connect(t) \/ Negotiated(t) \/ NegotiationLost(t)
    \/ Send(t) \/ SendFails(t) \/ DrawId(t) \/ Receive(t) \/ GiveUp(t)

---------------------------------------------------------------------------
(***************************************************************************)
(* The public methods.                                                     *)
(***************************************************************************)
clientIdle == <<connection, epoch, drawn, result, sockets, bridge, history>>

\* integration_view, snapshot and diagnostics; subscribe retries likewise, its
\* answer being a fresh stream that reports a gap.
Read(t) ==
    /\ call[t] = Idle
    /\ Enter(t, "read", 0, 0)
    /\ UNCHANGED <<session, clientIdle>>

Close ==
    /\ call["aux"] = Idle
    /\ LockFree
    /\ connection # 0
    /\ Advance("aux")
    /\ UNCHANGED <<call, session, drawn, result, opened, inbox, bridge,
                   submitted, written, reused, lost>>

\* RecoveringClient.transaction_outcome, for a submission whose outcome is open
Outcome(t) ==
    /\ call["app"] = Idle
    /\ result[t] \in {"queued", "gave-up", "os-error"}
    /\ Enter("app", "outcome", 0, t)
    /\ UNCHANGED <<session, clientIdle>>

\* LightingSession.acquire
Acquire ==
    /\ call["app"] = Idle
    /\ session = NoSession
    /\ Enter("app", "acquire", 0, 0)
    /\ UNCHANGED <<session, clientIdle>>

\* LightingSession.__init__ reads the epoch in a call of its own.
Construct ==
    /\ call["app"].stage = "granted"
    /\ LockFree
    /\ session' = [lease |-> call["app"].lease, epoch |-> epoch]
    /\ call' = [call EXCEPT !["app"] = Idle]
    /\ UNCHANGED clientIdle

\* Mutant: a session does not notice that the connection changed.
RequireAnyGrant == session # NoSession

\* _require_grant, for renew, release and submit
RequireGrant == session # NoSession /\ session.epoch = epoch

Check(op) ==
    /\ call["app"] = Idle
    /\ session # NoSession
    /\ LockFree
    /\ op = "next" => drawn < MaxTransactions
    /\ IF RequireGrant
       THEN /\ call' = [call EXCEPT !["app"] =
                  [Idle EXCEPT !.op = op, !.stage = "checked", !.lease = session.lease]]
            /\ session' = session
       ELSE /\ call' = call
            /\ session' = NoSession
    /\ UNCHANGED clientIdle

\* renew_lease, release_lease, next_transaction_id
Proceed ==
    /\ call["app"].stage = "checked"
    /\ Enter("app", call["app"].op, call["app"].lease, 0)
    /\ UNCHANGED <<session, clientIdle>>

Submit ==
    /\ call["app"].stage = "ready"
    /\ Enter("app", "submit", call["app"].lease, call["app"].transaction)
    /\ UNCHANGED <<session, clientIdle>>

---------------------------------------------------------------------------
(***************************************************************************)
(* The bridge.                                                             *)
(***************************************************************************)
\* Mutant: a client may register while an earlier connection is still registered.
RegistersAgain(c) == TRUE

\* SessionRegistry.register
Registers(c) == registered = {}

\* The values a request finds: what it answers and what it changes.
Admits(r) == journal[r.transaction] = "unknown" /\ holder = r.lease

Respond(r, c) ==
    CASE r.op = "negotiate" -> IF Registers(c) THEN "ok" ELSE "already-connected"
      [] r.op = "read" -> "ok"
      [] r.op = "acquire" -> IF holder = 0 /\ Len(granted) < MaxLeases THEN "granted" ELSE "conflict"
      [] r.op = "renew" -> IF holder = r.lease THEN "renewed" ELSE "rejected"
      [] r.op = "release" -> IF holder = r.lease THEN "released" ELSE "rejected"
      [] r.op = "submit" -> IF Admits(r) THEN "queued"
                            ELSE IF journal[r.transaction] = "unknown" THEN "rejected"
                            ELSE journal[r.transaction]
      [] r.op = "lookup" -> journal[r.transaction]

Serve(c) ==
    LET r == Head(inbox[c])
        value == Respond(r, c)
        about == IF value = "granted" THEN [r EXCEPT !.lease = Len(granted) + 1] ELSE r
    IN  /\ c \in serving
        /\ inbox[c] # <<>>
        /\ inbox' = [inbox EXCEPT ![c] = Tail(@)]
        /\ outbox' = IF c \in closed THEN outbox
                     ELSE [outbox EXCEPT ![c] = Append(@, Answer(about, value))]
        /\ registered' = IF value = "ok" /\ r.op = "negotiate" THEN registered \union {c}
                         ELSE registered
        /\ granted' = IF value = "granted" THEN Append(granted, c) ELSE granted
        /\ holder' = CASE value = "granted" -> Len(granted) + 1
                       [] value = "released" -> 0
                       [] OTHER -> holder
        /\ IF r.op = "submit" /\ Admits(r)
           THEN /\ queue' = Append(queue, [transaction |-> r.transaction, lease |-> r.lease,
                                           connection |-> c])
                /\ journal' = [journal EXCEPT ![r.transaction] = "queued"]
           ELSE UNCHANGED <<queue, journal>>
        /\ UNCHANGED <<client, opened, closed, up, serving, crashes, history>>

\* Disconnect: revoke the session, release every lease of the client, revoke
\* the queued work of the session.  Unread requests are lost.
Disconnect(c) ==
    LET cancelled == {q.transaction : q \in {x \in ToSet(queue) : x.connection = c}} IN
    /\ c \in serving \intersect closed
    /\ serving' = serving \ {c}
    /\ inbox' = [inbox EXCEPT ![c] = <<>>]
    /\ registered' = registered \ {c}
    /\ IF c \in registered
       THEN /\ holder' = 0
            /\ queue' = Without(queue, {q \in ToSet(queue) : q.connection = c})
            /\ journal' = [t \in Transactions |->
                  IF t \in cancelled THEN "unsent" ELSE journal[t]]
       ELSE UNCHANGED <<holder, queue, journal>>
    /\ UNCHANGED <<client, opened, outbox, closed, up, granted, crashes, history>>

\* A terminal outcome is "succeeded", or else revoked or failed: "unsent" when its
\* facts exclude a live write, "uncertain" when they do not.
Dispatch ==
    LET q == Head(queue) IN
    /\ queue # <<>>
    /\ queue' = Tail(queue)
    /\ \E outcome \in {"succeeded", "unsent", "uncertain"} :
        /\ outcome # "unsent" => q.connection \in registered /\ holder = q.lease
        /\ journal' = [journal EXCEPT ![q.transaction] = outcome]
        /\ \/ outcome # "unsent" /\ written' = Append(written, q.transaction)
           \/ outcome # "succeeded" /\ written' = written
    /\ UNCHANGED <<client, sockets, up, serving, registered, holder, granted, crashes,
                   submitted, reused, lost, overtaken>>

\* The journal is full and another client's admission evicts a finished outcome.
Evict(t) ==
    /\ journal[t] \in {"succeeded", "unsent", "uncertain"}
    /\ Cardinality(lost \union {u \in Transactions : journal[u] = "evicted"}) < MaxEvictions
    /\ journal' = [journal EXCEPT ![t] = "evicted"]
    /\ UNCHANGED <<client, sockets, up, serving, registered, holder, granted, queue,
                   crashes, history>>

\* The memory of evicted outcomes is full too.
Forget(t) ==
    /\ journal[t] = "evicted"
    /\ journal' = [journal EXCEPT ![t] = "unknown"]
    /\ lost' = lost \union {t}
    /\ UNCHANGED <<client, sockets, up, serving, registered, holder, granted, queue,
                   crashes, submitted, written, reused, overtaken>>

Expire ==
    /\ holder # 0
    /\ holder' = 0
    /\ UNCHANGED <<client, sockets, up, serving, registered, granted, queue, journal,
                   crashes, history>>

Crash ==
    /\ up /\ crashes < MaxCrashes
    /\ up' = FALSE
    /\ crashes' = crashes + 1
    /\ serving' = {} /\ registered' = {}
    /\ holder' = 0
    /\ queue' = <<>>
    /\ journal' = [t \in Transactions |-> "unknown"]
    /\ inbox' = [c \in Connections |-> <<>>]
    /\ lost' = lost \union {t \in Transactions : journal[t] # "unknown"}
    /\ UNCHANGED <<client, opened, outbox, closed, granted, submitted, written, reused,
                   overtaken>>

Restart ==
    /\ ~up
    /\ up' = TRUE
    /\ UNCHANGED <<client, sockets, serving, registered, holder, granted, queue, journal,
                   crashes, history>>

---------------------------------------------------------------------------
Next ==
    \/ \E t \in Threads : Exchange(t) \/ Read(t)
    \/ Close \/ Acquire \/ Construct \/ Proceed \/ Submit
    \/ \E op \in {"renew", "release", "next"} : Check(op)
    \/ \E t \in Transactions : Outcome(t) \/ Evict(t) \/ Forget(t)
    \/ \E c \in Connections : Serve(c) \/ Disconnect(c)
    \/ Dispatch \/ Expire \/ Crash \/ Restart

Spec == Init /\ [][Next]_vars

---------------------------------------------------------------------------
(***************************************************************************)
(* Safety                                                                  *)
(***************************************************************************)
\* An uncertain write is never replayed: a submission is put on a socket at
\* most once and its frames reach the receiver at most once, through lost
\* answers, reconnects and crashes of the bridge.
NeverReplayed ==
    /\ \A t \in Transactions : submitted[t] <= 1
    /\ IsInjective(written)

\* What the application was told of a submission is true: a write reported
\* as done was done; one refused, or reported to have ended without a live write,
\* was not and will not be; and neither will one whose outcome a lookup found
\* unknown, unless the bridge once had its record and lost it, in a crash or to
\* the bounds of its journal.
ReportedOutcomeHolds ==
    \A t \in Transactions :
        /\ result[t] = "succeeded" => t \in ToSet(written)
        /\ result[t] \in {"unsent", "rejected"} => t \notin ToSet(written)
        /\ result[t] = "unknown" => t \notin ToSet(written) \/ t \in lost

\* The lease the bridge holds for this client belongs to its one registered
\* session: the late cleanup of an earlier connection releases by client and
\* cannot take a lease the client holds through a later one, and no lease
\* outlives the connection it was granted on.
LeaseOfLiveSession ==
    holder # 0 => registered = {granted[holder]}

\* Only another thread's reconnect between two calls of one session method
\* makes a session put a lease of an earlier connection on a socket.
EpochGuardsLease == reused => overtaken
=============================================================================
