-------------------------- MODULE RecoveringProofs --------------------------
(***************************************************************************)
(* The safety of the recovering client, for every bound on connections,    *)
(* epochs, leases, transactions, crashes and evictions.  The invariant     *)
(* comes in five layers, each proved inductive with the ones before it:    *)
(*                                                                         *)
(*   Shape      the types, the lock, what a thread can be doing at each    *)
(*              stage, and how much can be outstanding on a connection;    *)
(*   Sessions   who is registered, and which lease belongs to whom;        *)
(*   Epochs     where the lease a session works with was granted;          *)
(*   Once       where a submission can be, and that it is in one place;    *)
(*   Truth      what the journal, an answer and a result say of it.        *)
(***************************************************************************)
EXTENDS RecoveringClient, SequenceLemmas

Stages == Unlocked \union FirstTry \union Retry
Methods == {"negotiate", "read", "acquire", "renew", "release", "submit", "lookup"}
Finished == {"succeeded", "unsent", "uncertain"}
Journalled == {"unknown", "queued", "evicted"} \union Finished
Values == Journalled \union {"ok", "already-connected", "granted", "conflict", "renewed",
                             "rejected", "released"}

Requests ==
    {r \in [op : Methods, id : 0 .. 2, lease : 0 .. MaxLeases, transaction : 0 .. MaxTransactions] :
        r.op \in {"submit", "lookup"} => r.transaction \in Transactions}
Answers == [id : 0 .. 2, value : Values, about : Requests]
Entries == [transaction : Transactions, lease : 0 .. MaxLeases, connection : Connections]
Calls == [op : Ops, stage : Stages, lease : 0 .. MaxLeases,
          transaction : 0 .. MaxTransactions, id : 0 .. 2]

---------------------------------------------------------------------------
(***************************************************************************)
(* The invariant.                                                          *)
(***************************************************************************)
\* Only of a transaction whose id was drawn was anything told.
Told ==
    /\ DOMAIN result = Transactions
    /\ \A t \in Transactions : result[t] # "none" => t <= drawn

ClientTypes ==
    /\ connection \in 0 .. opened
    /\ epoch \in 0 .. MaxEpoch
    /\ session \in [lease : 0 .. MaxLeases, epoch : 0 .. MaxEpoch]
    /\ drawn \in 0 .. MaxTransactions
    /\ Told

SocketTypes ==
    /\ opened \in 0 .. MaxConnections
    /\ inbox \in [Connections -> Seq(Requests)]
    /\ outbox \in [Connections -> Seq(Answers)]
    /\ closed \subseteq 1 .. opened

BridgeTypes ==
    /\ serving \subseteq 1 .. opened /\ registered \subseteq serving
    /\ holder \in 0 .. MaxLeases
    /\ granted \in Seq(Connections) /\ Len(granted) <= MaxLeases
    /\ queue \in Seq(Entries)
    /\ journal \in [Transactions -> Journalled]

HistoryTypes ==
    /\ submitted \in [Transactions -> Nat]
    /\ written \in Seq(Transactions)

\* The lock: at most one thread is inside the client.
Locked == \A t, u \in Threads : call[t].stage \notin Unlocked /\ call[u].stage \notin Unlocked => t = u

\* What a call is at each stage.
CallShape(k) ==
    /\ k.stage = "idle" => k = Idle
    /\ k.stage \in {"idle", "granted"} <=> k.op = "none"
    /\ k.stage = "checked" => k.op \in {"renew", "release", "next"}
    /\ k.op = "next" => k.stage \in {"checked", "connect", "negotiate", "send", "ready"}
    /\ k.stage = "ready" => k.op = "next" /\ k.transaction = drawn /\ drawn \in Transactions
    /\ k.op = "next" /\ k.stage # "ready" => drawn < MaxTransactions
    /\ k.op \in {"renew", "release"} => k.stage \notin {"resend", "reawait"}
    /\ k.op \in {"read", "acquire", "outcome"} => k.lease = 0
    /\ k.op \in {"submit", "outcome"} => k.transaction \in 1 .. drawn

Roles ==
    /\ CallShape(call["app"])
    /\ CallShape(call["aux"])
    /\ call["aux"].op \in {"none", "read"} /\ call["aux"].stage # "granted"

\* A connection not yet opened carries nothing.
Unopened == \A c \in Connections : c > opened => inbox[c] = <<>> /\ outbox[c] = <<>>

\* How much is outstanding: a thread that gives up on a first try reconnects, so
\* at most one answer is left behind for the next exchange to find.
Outstanding(c) == Len(inbox[c]) + Len(outbox[c])

Few == \A c \in Connections : Outstanding(c) <= 2

\* The connection and what is outstanding on it while a call is at its stage.
Placed(k) ==
    /\ k.stage \in {"negotiate", "renegotiate"} =>
          connection = 0 /\ opened # 0 /\ Outstanding(opened) <= 1
    /\ k.stage \in {"send", "await", "resend", "reawait"} => connection # 0
    /\ connection # 0 /\ k.stage \notin {"await", "reconnect"} => Outstanding(connection) <= 1
    /\ k.stage = "resend" => Outstanding(connection) = 0

Others(t) == \A u \in Threads \ {t} : call[u].stage \in Unlocked

Calling ==
    /\ call \in [Threads -> Calls]
    /\ Locked
    /\ Roles
    /\ \A t \in Threads : Others(t) => Placed(call[t])

Types == ClientTypes /\ SocketTypes /\ BridgeTypes /\ HistoryTypes

Shape == Types /\ Unopened /\ Few /\ Calling

\* Requests other than the first are served for a registered session only.
Registration ==
    /\ \A c \in serving : \A i \in 1 .. Len(inbox[c]) :
          inbox[c][i].op # "negotiate" => c \in registered
    /\ \A c \in serving : \A i \in 1 .. Len(outbox[c]) :
          outbox[c][i].value = "ok" => c \in registered
    /\ connection \in serving => connection \in registered
    /\ \A c, d \in registered : c = d

\* A lease belongs to the connection that asked for it, and is held only while
\* that connection is registered.
Leased ==
    /\ holder \in 0 .. Len(granted)
    /\ holder # 0 => granted[holder] \in registered
    /\ \A c \in Connections : \A i \in 1 .. Len(outbox[c]) :
          outbox[c][i].value = "granted" =>
             /\ outbox[c][i].about.lease \in 1 .. Len(granted)
             /\ granted[outbox[c][i].about.lease] = c

Sessions == Registration /\ Leased

\* The lease a session works with is of the present connection, unless another
\* thread reconnected between two of its calls.
SessionLease ==
    session.lease # 0 /\ session.epoch = epoch => connection = granted[session.lease]

CallLease(k) ==
    k.lease # 0 =>
       /\ k.stage \notin {"connect", "negotiate"}
       /\ k.stage \in {"granted", "checked", "ready", "send", "await"} =>
             connection = granted[k.lease]

Epochs ==
    /\ session.lease \in 0 .. Len(granted) /\ session.epoch <= epoch
    /\ \A t \in Threads : call[t].lease \in 0 .. Len(granted)
    /\ call["aux"].lease = 0
    /\ ~overtaken => SessionLease /\ CallLease(call["app"])
    /\ reused => overtaken

\* A transaction id is put on a socket once, in order of drawing.
Fresh(t) ==
    \/ t > drawn
    \/ call["app"].stage = "ready" /\ call["app"].transaction = t
    \/ /\ call["app"].op = "submit" /\ call["app"].transaction = t
       /\ call["app"].stage \in {"connect", "negotiate", "send"}

Submits(c, i, t) == inbox[c][i].op = "submit" /\ inbox[c][i].transaction = t

Waits(t) == \E c \in Connections : \E i \in 1 .. Len(inbox[c]) : Submits(c, i, t)
InQueue(t) == \E i \in 1 .. Len(queue) : queue[i].transaction = t
Written(t) == \E i \in 1 .. Len(written) : written[i] = t

\* No transaction is at two places, or twice at one.
SentOnce == \A t \in Transactions : submitted[t] <= 1 /\ (Fresh(t) => submitted[t] = 0)
Unsent == \A t \in Transactions : submitted[t] = 0 => ~Waits(t) /\ ~InQueue(t) /\ ~Written(t)
OnePlace ==
    /\ \A t \in Transactions : Waits(t) => ~InQueue(t) /\ ~Written(t)
    /\ \A t \in Transactions : InQueue(t) => ~Written(t)
OneRequest ==
    \A t \in Transactions, c, d \in Connections :
       \A i \in 1 .. Len(inbox[c]), j \in 1 .. Len(inbox[d]) :
          Submits(c, i, t) /\ Submits(d, j, t) => c = d /\ i = j
OneEntry == \A i, j \in 1 .. Len(queue) : queue[i].transaction = queue[j].transaction => i = j
OneWrite == \A i, j \in 1 .. Len(written) : written[i] = written[j] => i = j

Once == SentOnce /\ Unsent /\ OnePlace /\ OneRequest /\ OneEntry /\ OneWrite

\* A transaction that was not written and never will be.
Dead(t) == ~Fresh(t) /\ ~Waits(t) /\ ~InQueue(t) /\ ~Written(t)

\* What a value says of a transaction's submission.
Says(value, t) ==
    /\ value = "succeeded" => Written(t)
    /\ value \in {"unsent", "rejected"} => Dead(t)
    /\ value = "unknown" /\ t \notin lost => Dead(t)

\* The journal is the queue and the history, until its record is lost.
Journal ==
    /\ \A t \in Transactions : journal[t] = "queued" <=> InQueue(t)
    /\ \A t \in Transactions : journal[t] = "succeeded" => Written(t)
    /\ \A t \in Transactions : journal[t] = "unsent" => Dead(t)
    /\ \A t \in Transactions : journal[t] = "unknown" /\ t \notin lost => ~Written(t)

\* A lookup is sent after the submission it is about, and over one connection
\* arrives after it; a connection not served carries no request.
LookupsOn(c) ==
    \A i \in 1 .. Len(inbox[c]) :
       inbox[c][i].op = "lookup" =>
          /\ ~Fresh(inbox[c][i].transaction)
          /\ \A j \in 1 .. Len(inbox[c]) : Submits(c, j, inbox[c][i].transaction) => j < i

Lookups ==
    /\ \A c \in Connections : LookupsOn(c)
    /\ \A c \in Connections \ serving : inbox[c] = <<>>

\* An answer says what holds.
Answered ==
    \A c \in Connections : \A i \in 1 .. Len(outbox[c]) :
       outbox[c][i].about.op \in {"submit", "lookup"} =>
          Says(outbox[c][i].value, outbox[c][i].about.transaction)

\* The id a call waits for is that of its own request only.
Ids ==
    \A t \in Threads : call[t].stage \in {"await", "reawait"} =>
       /\ \A i \in 1 .. Len(inbox[connection]) :
             inbox[connection][i].id = call[t].id =>
                inbox[connection][i].transaction = call[t].transaction
       /\ \A i \in 1 .. Len(outbox[connection]) :
             outbox[connection][i].id = call[t].id =>
                outbox[connection][i].about.transaction = call[t].transaction

Reported == \A t \in Transactions : Says(result[t], t)

Truth == Journal /\ Lookups /\ Answered /\ Ids /\ Reported

---------------------------------------------------------------------------
(***************************************************************************)
(* Shape.                                                                  *)
(***************************************************************************)
\* The first state.
LEMMA InitShape == Init => Shape
<1> SUFFICES ASSUME Init PROVE Shape
  OBVIOUS
<1>1. /\ 0 \in 0 .. MaxEpoch /\ 0 \in 0 .. MaxLeases /\ 0 \in 0 .. MaxTransactions
      /\ 0 \in 0 .. MaxConnections /\ 0 \in 0 .. 0
  BY RecoveringConstants
<1>2. Types
  <2>1. ClientTypes
    BY <1>1 DEF Init, ClientTypes, NoSession, Told
  <2>2. SocketTypes
    BY <1>1 DEF Init, SocketTypes
  <2>3. BridgeTypes
    BY <1>1, RecoveringConstants DEF Init, BridgeTypes, Journalled
  <2>4. HistoryTypes
    BY DEF Init, HistoryTypes
  <2> QED
    BY <2>1, <2>2, <2>3, <2>4 DEF Types
<1>3. Unopened /\ Few
  BY DEF Init, Unopened, Few, Outstanding
<1>4. Calling
  <2>1. Idle \in Calls
    BY <1>1 DEF Idle, Calls, Ops, Stages, Unlocked
  <2>2. call \in [Threads -> Calls] /\ \A t \in Threads : call[t] = Idle
    BY <2>1 DEF Init
  <2>3. Locked
    BY <2>2 DEF Locked, Idle, Unlocked
  <2>4. Roles
    BY <2>2 DEF Roles, CallShape, Idle, Threads
  <2>5. \A t \in Threads : Placed(call[t])
    BY <2>2 DEF Placed, Idle, Init
  <2> QED
    BY <2>2, <2>3, <2>4, <2>5 DEF Calling
<1> QED
  BY <1>2, <1>3, <1>4 DEF Shape

\* A thread that is inside the client, or finds it free, moves: the other is
\* outside and stays as it was.
LEMMA ThreadStep ==
    ASSUME Shape, NEW t \in Threads, NEW k \in Calls, Others(t),
           call' = [call EXCEPT ![t] = k],
           CallShape(k)', Placed(k)',
           t = "aux" => drawn' = drawn /\ k.op \in {"none", "read"} /\ k.stage # "granted"
    PROVE  Calling'
<1>1. call \in [Threads -> Calls]
  BY DEF Shape, Calling
<1>2. call' \in [Threads -> Calls] /\ call'[t] = k /\ \A u \in Threads \ {t} : call'[u] = call[u]
  BY <1>1
<1>3. Locked'
  BY <1>2 DEF Locked, Others
<1>4. Roles'
  <2>1. CASE t = "app"
    <3>1. call'["app"] = k /\ call'["aux"] = call["aux"]
      BY <1>2, <2>1 DEF Threads
    <3>2. call["aux"].op \in {"none", "read"} /\ call["aux"].stage # "granted"
          /\ CallShape(call["aux"])
      BY DEF Shape, Calling, Roles
    <3>3. PICK a : a = call["aux"]
      OBVIOUS
    <3>4. CallShape(a)'
      BY <3>2, <3>3 DEF CallShape
    <3>5. CallShape(call["aux"])' /\ CallShape(call["app"])'
      BY <3>1, <3>3, <3>4 DEF CallShape
    <3> QED
      BY <3>1, <3>2, <3>5 DEF Roles
  <2>2. CASE t = "aux"
    <3>1. call'["aux"] = k /\ call'["app"] = call["app"] /\ drawn' = drawn
      BY <1>2, <2>2 DEF Threads
    <3>2. CallShape(call["app"])
      BY DEF Shape, Calling, Roles
    <3>3. CallShape(call["aux"])' /\ CallShape(call["app"])'
      BY <3>1, <3>2 DEF CallShape
    <3> QED
      BY <2>2, <3>1, <3>3 DEF Roles
  <2> QED
    BY <2>1, <2>2 DEF Threads
<1>5. \A u \in Threads : Others(u)' => Placed(call[u])'
  <2> SUFFICES ASSUME NEW u \in Threads, Others(u)' PROVE Placed(call[u])'
    OBVIOUS
  <2>1. CASE u = t
    BY <1>2, <2>1 DEF Placed
  <2>2. CASE u # t
    <3>1. k.stage \in Unlocked /\ call'[u].stage \in Unlocked
      BY <1>2, <2>2 DEF Others
    <3> QED
      BY <3>1 DEF Placed, Unlocked
  <2> QED
    BY <2>1, <2>2
<1> QED
  BY <1>2, <1>3, <1>4, <1>5 DEF Calling

\* The bridge moves: no more is outstanding than before.
LEMMA BridgeKeepsCalling ==
    ASSUME Shape, UNCHANGED <<connection, call, drawn, opened>>,
           \A c \in Connections : Outstanding(c)' <= Outstanding(c),
           SocketTypes'
    PROVE  Calling' /\ Few'
<1>1. connection # 0 => connection \in Connections
  BY RecoveringConstants DEF Shape, Types, ClientTypes, SocketTypes, Connections
<1>2. opened # 0 => opened \in Connections
  BY RecoveringConstants DEF Shape, Types, SocketTypes, Connections
<1>3. \A c \in Connections : Outstanding(c) \in Nat /\ Outstanding(c)' \in Nat
  BY DEF Shape, Types, SocketTypes, Outstanding
<1>4. Few'
  BY <1>3 DEF Shape, Few
<1>5. Locked' /\ Roles' /\ call' \in [Threads -> Calls]
  BY DEF Shape, Calling, Locked, Roles, CallShape
<1>6. connection # 0 => Outstanding(connection)' <= Outstanding(connection)
  BY <1>1
<1>7. opened # 0 => Outstanding(opened)' <= Outstanding(opened)
  BY <1>2
<1>8. ASSUME NEW t \in Threads, Others(t)' PROVE Placed(call[t])'
  <2>1. Placed(call[t])
    BY <1>8 DEF Shape, Calling, Others
  <2>2. connection # 0 => Outstanding(connection) \in Nat /\ Outstanding(connection)' \in Nat
    BY <1>1, <1>3
  <2>3. opened # 0 => Outstanding(opened) \in Nat /\ Outstanding(opened)' \in Nat
    BY <1>2, <1>3
  <2> QED
    BY <1>6, <1>7, <2>1, <2>2, <2>3 DEF Placed
<1> QED
  BY <1>4, <1>5, <1>8 DEF Calling

\* A thread inside the client is there alone.
LEMMA InsideAlone ==
    ASSUME Shape, NEW t \in Threads, call[t].stage \notin Unlocked
    PROVE  Others(t) /\ Placed(call[t]) /\ CallShape(call[t]) /\ call[t] \in Calls
<1>1. Others(t)
  BY DEF Shape, Calling, Locked, Others
<1>2. call[t] \in Calls /\ Placed(call[t])
  BY <1>1 DEF Shape, Calling
<1>3. CallShape(call[t])
  BY DEF Shape, Calling, Roles, Threads
<1> QED
  BY <1>1, <1>2, <1>3

\* A call goes on to another stage.
LEMMA CallGoesOn ==
    ASSUME Shape, NEW t \in Threads, NEW k \in Calls, call[t].stage \notin Unlocked,
           call' = [call EXCEPT ![t] = k], drawn' = drawn,
           k.op = call[t].op, k.lease = call[t].lease, k.transaction = call[t].transaction,
           k.stage \notin Unlocked,
           k.op = "next" => k.stage \in {"connect", "negotiate", "send"},
           k.op \in {"renew", "release"} => k.stage \notin {"resend", "reawait"},
           Placed(k)'
    PROVE  Calling'
<1>1. Others(t) /\ CallShape(call[t])
  BY InsideAlone
<1>2. CallShape(k)'
  BY <1>1 DEF CallShape, Unlocked
<1>3. t = "aux" => drawn' = drawn /\ k.op \in {"none", "read"} /\ k.stage # "granted"
  BY DEF Shape, Calling, Roles, Unlocked
<1> QED
  BY <1>1, <1>2, <1>3, ThreadStep

\* A call ends.
LEMMA CallReturns ==
    ASSUME Shape, NEW t \in Threads, NEW v, call[t].stage \notin Unlocked, Return(t, v),
           drawn' = drawn, connection' # 0 => Outstanding(connection)' <= 1
    PROVE  /\ Calling'
           /\ session' \in [lease : 0 .. MaxLeases, epoch : 0 .. MaxEpoch]
           /\ Told'
<1>1. PICK k : k = Idle
  OBVIOUS
<1>2. k \in Calls
  BY <1>1, RecoveringConstants DEF Idle, Calls, Ops, Stages, Unlocked
<1>3. CallShape(k)'
  BY <1>1, RecoveringConstants DEF CallShape, Idle
<1>4. Placed(k)'
  BY <1>1 DEF Placed, Idle
<1>5. Calling'
  BY <1>1, <1>2, <1>3, <1>4, InsideAlone, ThreadStep DEF Return, Idle
<1>6. session' \in [lease : 0 .. MaxLeases, epoch : 0 .. MaxEpoch]
  BY RecoveringConstants DEF Return, NoSession, Shape, Types, ClientTypes
<1>7. Told'
  <2>1. call[t].op \in {"submit", "outcome"} => call[t].transaction \in 1 .. drawn
    BY InsideAlone DEF CallShape
  <2>2. drawn \in Nat
    BY DEF Shape, Types, ClientTypes
  <2> QED
    BY <2>1, <2>2, RecoveringConstants DEF Return, Shape, Types, ClientTypes, Told, Transactions
<1> QED
  BY <1>5, <1>6, <1>7

\* A thread enters the client: nobody else is inside.
LEMMA CallEnters ==
    ASSUME Shape, NEW t \in Threads, NEW op \in Ops \ {"none"}, NEW lease \in 0 .. MaxLeases,
           NEW transaction \in 0 .. MaxTransactions, Enter(t, op, lease, transaction),
           t = "aux" => op = "read",
           op = "next" => drawn < MaxTransactions,
           op \in {"read", "acquire", "outcome"} => lease = 0,
           op \in {"submit", "outcome"} => transaction \in 1 .. drawn,
           UNCHANGED <<connection, drawn, sockets>>
    PROVE  Calling'
<1>1. PICK k : k = [op |-> op, stage |-> IF connection = 0 THEN "connect" ELSE "send",
                    lease |-> lease, transaction |-> transaction, id |-> 0]
  OBVIOUS
<1>2. k \in Calls
  BY <1>1 DEF Calls, Stages, FirstTry
<1>3. CallShape(k)'
  BY <1>1 DEF CallShape
<1>4. \A u \in Threads : Others(u)
  BY DEF Enter, LockFree, Others
<1>5. Placed(call[t]) /\ call[t].stage \in Unlocked
  BY <1>4 DEF Shape, Calling, Enter, LockFree
<1>6. connection # 0 => Outstanding(connection) <= 1
  BY <1>5 DEF Placed, Unlocked
<1>7. Placed(k)'
  BY <1>1, <1>6 DEF Placed, Outstanding, sockets
<1> QED
  BY <1>1, <1>2, <1>3, <1>4, <1>7, ThreadStep DEF Enter

\* The session or a thread moves and nothing below the client does.
LEMMA QuietShape ==
    ASSUME Shape, UNCHANGED clientIdle, Calling',
           session' \in [lease : 0 .. MaxLeases, epoch : 0 .. MaxEpoch]
    PROVE  Shape'
<1>1. ClientTypes'
  BY DEF Shape, Types, ClientTypes, clientIdle, sockets, Told
<1>2. SocketTypes'
  BY DEF Shape, Types, SocketTypes, clientIdle, sockets
<1>3. BridgeTypes'
  BY DEF Shape, Types, BridgeTypes, clientIdle, sockets, bridge
<1>4. HistoryTypes'
  BY DEF Shape, Types, HistoryTypes, clientIdle, history
<1>5. Unopened' /\ Few'
  BY DEF Shape, Unopened, Few, Outstanding, clientIdle, sockets
<1> QED
  BY <1>1, <1>2, <1>3, <1>4, <1>5 DEF Shape, Types

\* The public methods.
LEMMA MethodShape ==
    ASSUME Shape,
           \/ \E t \in Threads : Read(t)
           \/ Acquire \/ Construct \/ Proceed \/ Submit
           \/ \E op \in {"renew", "release", "next"} : Check(op)
           \/ \E t \in Transactions : Outcome(t)
    PROVE  Shape'
<1>1. /\ 0 \in 0 .. MaxEpoch /\ 0 \in 0 .. MaxLeases /\ 0 \in 0 .. MaxTransactions
      /\ "app" \in Threads /\ call["app"] \in Calls /\ CallShape(call["app"])
      /\ drawn \in 0 .. MaxTransactions /\ epoch \in 0 .. MaxEpoch
      /\ session \in [lease : 0 .. MaxLeases, epoch : 0 .. MaxEpoch]
  BY RecoveringConstants DEF Threads, Shape, Calling, Roles, Types, ClientTypes
<1>2. \A op \in {"read", "acquire", "renew", "release", "next", "submit", "outcome"} :
         op \in Ops \ {"none"}
  BY DEF Ops
<1> USE DEF clientIdle
<1>3. ASSUME NEW t \in Threads, Read(t) PROVE Shape'
  BY <1>1, <1>2, <1>3, CallEnters, QuietShape DEF Read
<1>4. CASE Acquire
  BY <1>1, <1>2, <1>4, CallEnters, QuietShape DEF Acquire
<1>5. CASE Proceed
  <2>1. call["app"].op \in {"renew", "release", "next"} /\ call["app"].lease \in 0 .. MaxLeases
        /\ (call["app"].op = "next" => drawn < MaxTransactions)
    BY <1>1, <1>5 DEF Proceed, CallShape, Calls
  <2> QED
    BY <1>1, <1>2, <1>5, <2>1, CallEnters, QuietShape DEF Proceed
<1>6. CASE Submit
  <2>1. call["app"].lease \in 0 .. MaxLeases /\ call["app"].transaction \in 1 .. drawn
        /\ call["app"].transaction \in 0 .. MaxTransactions
    BY <1>1, <1>6 DEF Submit, CallShape, Calls, Transactions
  <2> QED
    BY <1>1, <1>2, <1>6, <2>1, CallEnters, QuietShape DEF Submit
<1>7. ASSUME NEW t \in Transactions, Outcome(t) PROVE Shape'
  <2>1. t \in 1 .. drawn /\ t \in 0 .. MaxTransactions
    BY <1>1, <1>7, RecoveringConstants DEF Outcome, Shape, Types, ClientTypes, Told, Transactions
  <2> QED
    BY <1>1, <1>2, <1>7, <2>1, CallEnters, QuietShape DEF Outcome
<1>8. ASSUME LockFree PROVE Others("app") /\ (connection # 0 => Outstanding(connection) <= 1)
  <2>1. Others("app") /\ Placed(call["app"]) /\ call["app"].stage \in Unlocked
    BY <1>1, <1>8 DEF Shape, Calling, LockFree, Others
  <2> QED
    BY <2>1 DEF Placed, Unlocked
<1>9. CASE Construct
  <2>1. PICK k : k = Idle
    OBVIOUS
  <2>2. k \in Calls /\ call' = [call EXCEPT !["app"] = k]
    BY <1>1, <1>9, <2>1 DEF Idle, Calls, Ops, Stages, Unlocked, Construct
  <2>3. CallShape(k)'
    BY <1>1, <2>1 DEF CallShape, Idle
  <2>4. Placed(k)'
    BY <1>8, <1>9, <2>1 DEF Placed, Idle, Construct, Outstanding, sockets
  <2>5. Calling'
    BY <1>1, <1>8, <1>9, <2>2, <2>3, <2>4, ThreadStep DEF Construct
  <2>6. session' \in [lease : 0 .. MaxLeases, epoch : 0 .. MaxEpoch]
    BY <1>1, <1>9 DEF Construct, Calls
  <2> QED
    BY <1>9, <2>5, <2>6, QuietShape DEF Construct
<1>10. ASSUME NEW op \in {"renew", "release", "next"}, Check(op) PROVE Shape'
  <2>1. session' \in [lease : 0 .. MaxLeases, epoch : 0 .. MaxEpoch]
    BY <1>1, <1>10 DEF Check, NoSession
  <2>2. CASE RequireGrant
    <3>1. PICK k : k = [Idle EXCEPT !.op = op, !.stage = "checked", !.lease = session.lease]
      OBVIOUS
    <3>2. k \in Calls /\ call' = [call EXCEPT !["app"] = k]
      BY <1>1, <1>10, <2>2, <3>1 DEF Idle, Calls, Ops, Stages, Unlocked, Check
    <3>3. CallShape(k)'
      BY <1>1, <1>10, <3>1 DEF CallShape, Idle, Check
    <3>4. Placed(k)'
      BY <1>8, <1>10, <3>1 DEF Placed, Idle, Check, Outstanding, sockets
    <3>5. Calling'
      BY <1>1, <1>8, <1>10, <3>2, <3>3, <3>4, ThreadStep DEF Check
    <3> QED
      BY <1>10, <2>1, <3>5, QuietShape DEF Check
  <2>3. CASE ~RequireGrant
    <3>1. UNCHANGED <<call, connection, drawn, sockets>>
      BY <1>10, <2>3 DEF Check
    <3>2. Calling'
      BY <3>1, BridgeKeepsCalling, <1>10 DEF Shape, Types, SocketTypes, Outstanding, sockets
    <3> QED
      BY <1>10, <2>1, <3>2, QuietShape DEF Check
  <2> QED
    BY <2>2, <2>3
<1> QED
  BY <1>3, <1>4, <1>5, <1>6, <1>7, <1>9, <1>10

LEMMA SocketFacts ==
    ASSUME Shape
    PROVE  /\ connection \in Nat /\ opened \in Nat /\ connection <= opened
           /\ connection # 0 => connection \in Connections
           /\ opened # 0 => opened \in Connections
           /\ \A c \in Connections :
                 /\ inbox[c] \in Seq(Requests) /\ outbox[c] \in Seq(Answers)
                 /\ Len(inbox[c]) \in Nat /\ Len(outbox[c]) \in Nat
  BY RecoveringConstants DEF Shape, Types, ClientTypes, SocketTypes, Connections

LEMMA OutstandingNat ==
    ASSUME Shape, NEW c \in Connections
    PROVE  Outstanding(c) \in Nat
<1>1. PICK m \in Nat : m = Len(inbox[c])
  BY SocketFacts
<1>2. PICK n \in Nat : n = Len(outbox[c])
  BY SocketFacts
<1>3. Outstanding(c) = m + n
  BY <1>1, <1>2 DEF Outstanding
<1> QED
  BY <1>3

\* An exchange fails: a first try reconnects, a second ends the call.
LEMMA FailureCalling ==
    ASSUME Shape, NEW t \in Threads, call[t].stage \in {"send", "await", "resend", "reawait"},
           call[t].op # "next", ExchangeFails(t), drawn' = drawn,
           call[t].stage \in {"resend", "reawait"} /\ connection' # 0 =>
              Outstanding(connection)' <= 1
    PROVE  /\ Calling'
           /\ session' \in [lease : 0 .. MaxLeases, epoch : 0 .. MaxEpoch]
           /\ Told'
<1>1. call[t].stage \notin Unlocked
  BY DEF Unlocked
<1>2. CASE call[t].stage \in FirstTry
  <2>1. PICK k : k = [call[t] EXCEPT !.stage = "reconnect"]
    OBVIOUS
  <2>2. call[t] \in Calls
    BY <1>1, InsideAlone
  <2>3. /\ k \in Calls /\ call' = [call EXCEPT ![t] = k] /\ k.op = call[t].op
        /\ k.lease = call[t].lease /\ k.transaction = call[t].transaction
        /\ k.stage = "reconnect"
    BY <1>2, <2>1, <2>2 DEF Calls, Stages, Retry, ExchangeFails
  <2>4. Placed(k)'
    BY <2>3 DEF Placed
  <2>5. Calling'
    BY <1>1, <2>3, <2>4, CallGoesOn DEF Unlocked
  <2> QED
    BY <1>2, <2>5 DEF ExchangeFails, Shape, Types, ClientTypes, Told
<1>3. CASE call[t].stage \notin FirstTry
  <2>1. call[t].stage \in {"resend", "reawait"}
    BY <1>3 DEF FirstTry
  <2>2. Return(t, IF call[t].op = "submit" THEN "gave-up" ELSE "sdk-error")
    BY <1>3 DEF ExchangeFails
  <2> QED
    BY <1>1, <2>1, <2>2, CallReturns
<1> QED
  BY <1>2, <1>3

\* The first try or the second sends nothing, or waits no longer.
LEMMA FailureShape ==
    ASSUME Shape, NEW t \in Threads, SendFails(t) \/ GiveUp(t)
    PROVE  Shape'
<1>1. /\ call[t].stage \in {"send", "await", "resend", "reawait"} /\ call[t].op # "next"
      /\ ExchangeFails(t)
      /\ UNCHANGED <<connection, epoch, drawn, sockets, bridge, history>>
  <2>1. call[t].stage \notin Unlocked => CallShape(call[t])
    BY InsideAlone
  <2> QED
    BY <2>1 DEF SendFails, GiveUp, CallShape, Unlocked
<1>2. Placed(call[t])
  BY <1>1, InsideAlone DEF Unlocked
<1>3. call[t].stage \in {"resend", "reawait"} /\ connection' # 0 => Outstanding(connection)' <= 1
  BY <1>1, <1>2, SocketFacts DEF Placed, Outstanding, sockets
<1>4. /\ Calling' /\ Told'
      /\ session' \in [lease : 0 .. MaxLeases, epoch : 0 .. MaxEpoch]
  BY <1>1, <1>3, FailureCalling
<1>5. ClientTypes'
  BY <1>1, <1>4 DEF Shape, Types, ClientTypes, sockets
<1>6. SocketTypes' /\ Unopened' /\ Few'
  BY <1>1 DEF Shape, Types, SocketTypes, Unopened, Few, Outstanding, sockets
<1>7. BridgeTypes'
  BY <1>1 DEF Shape, Types, BridgeTypes, bridge, sockets
<1>8. HistoryTypes'
  BY <1>1 DEF Shape, Types, HistoryTypes, history
<1> QED
  BY <1>4, <1>5, <1>6, <1>7, <1>8 DEF Shape, Types

\* With one answer outstanding at most, an unused request id is left.
LEMMA NextIdIsFree ==
    ASSUME Shape, connection # 0, Outstanding(connection) <= 1
    PROVE  /\ NextId(connection) \in 0 .. 2
           /\ \A i \in 1 .. Len(inbox[connection]) : inbox[connection][i].id # NextId(connection)
           /\ \A i \in 1 .. Len(outbox[connection]) : outbox[connection][i].id # NextId(connection)
<1>1. /\ connection \in Connections
      /\ inbox[connection] \in Seq(Requests) /\ outbox[connection] \in Seq(Answers)
      /\ Len(inbox[connection]) \in Nat /\ Len(outbox[connection]) \in Nat
  BY SocketFacts
<1>2. PICK s : s = inbox[connection]
  OBVIOUS
<1>3. PICK o : o = outbox[connection]
  OBVIOUS
<1>4. s \in Seq(Requests) /\ o \in Seq(Answers)
  BY <1>1, <1>2, <1>3
<1>5. /\ ToSet(s) = {s[i] : i \in 1 .. Len(s)}
      /\ ToSet(o) = {o[i] : i \in 1 .. Len(o)}
  BY <1>4 DEF ToSet
<1>6. \E i \in 0 .. 2 : \A r \in ToSet(s) \union ToSet(o) : r.id # i
  <2>1. CASE Len(s) = 0 /\ Len(o) = 0
    BY <1>5, <2>1
  <2>2. CASE Len(s) = 1 /\ Len(o) = 0
    <3>1. \A r \in ToSet(s) \union ToSet(o) : r = s[1]
      BY <1>5, <2>2
    <3> QED
      BY <3>1
  <2>3. CASE Len(s) = 0 /\ Len(o) = 1
    <3>1. \A r \in ToSet(s) \union ToSet(o) : r = o[1]
      BY <1>5, <2>3
    <3> QED
      BY <3>1
  <2>4. \/ Len(s) = 0 /\ Len(o) = 0
        \/ Len(s) = 1 /\ Len(o) = 0
        \/ Len(s) = 0 /\ Len(o) = 1
    <3>1. PICK m \in Nat : m = Len(s)
      BY <1>1, <1>2
    <3>2. PICK n \in Nat : n = Len(o)
      BY <1>1, <1>3
    <3>3. m + n <= 1
      BY <1>2, <1>3, <3>1, <3>2 DEF Outstanding
    <3> QED
      BY <3>1, <3>2, <3>3
  <2> QED
    BY <2>1, <2>2, <2>3, <2>4
<1>7. /\ NextId(connection) \in 0 .. 2
      /\ \A r \in ToSet(s) \union ToSet(o) : r.id # NextId(connection)
  BY <1>2, <1>3, <1>6 DEF NextId
<1> QED
  BY <1>2, <1>3, <1>5, <1>7

\* The request of an exchange is well formed.
LEMMA SentRequest ==
    ASSUME Shape, NEW t \in Threads, call[t].stage \in {"send", "resend"}, call[t].op # "next"
    PROVE  /\ connection # 0 /\ Outstanding(connection) <= 1
           /\ call[t].stage = "resend" => Outstanding(connection) = 0
           /\ Method(call[t]) \in Methods \ {"negotiate"}
           /\ Request(Method(call[t]), NextId(connection),
                      IF Method(call[t]) = "lookup" THEN 0 ELSE call[t].lease,
                      call[t].transaction) \in Requests
<1>1. CallShape(call[t]) /\ Placed(call[t]) /\ call[t] \in Calls
  BY InsideAlone DEF Unlocked
<1>2. connection # 0 /\ Outstanding(connection) <= 1 /\ NextId(connection) \in 0 .. 2
      /\ (call[t].stage = "resend" => Outstanding(connection) = 0)
  BY <1>1, NextIdIsFree DEF Placed
<1>3. call[t].op \in Ops \ {"none", "next"}
  BY <1>1 DEF CallShape, Calls
<1>4. Method(call[t]) \in Methods \ {"negotiate"}
  BY <1>3 DEF Method, Methods, Ops
<1>5. Method(call[t]) \in {"submit", "lookup"} => call[t].transaction \in Transactions
  <2>1. Method(call[t]) \in {"submit", "lookup"} => call[t].op \in {"submit", "outcome"}
    BY <1>3 DEF Method, Ops
  <2>2. drawn \in 0 .. MaxTransactions
    BY DEF Shape, Types, ClientTypes
  <2> QED
    BY <1>1, <2>1, <2>2, RecoveringConstants DEF CallShape, Transactions
<1> QED
  BY <1>1, <1>2, <1>4, <1>5, RecoveringConstants DEF Requests, Request, Calls

LEMMA SendShape ==
    ASSUME Shape, NEW t \in Threads, Send(t)
    PROVE  Shape'
<1>1. PICK r : r = Request(Method(call[t]), NextId(connection),
                           IF Method(call[t]) = "lookup" THEN 0 ELSE call[t].lease,
                           call[t].transaction)
  OBVIOUS
<1>2. /\ call[t].stage \in {"send", "resend"} /\ call[t].op # "next"
      /\ UNCHANGED <<connection, epoch, session, drawn, result, opened, outbox, closed, bridge, written>>
      /\ inbox' = IF connection \in serving
                  THEN [inbox EXCEPT ![connection] = Append(@, r)] ELSE inbox
      /\ call' = [call EXCEPT ![t].stage = IF @ = "send" THEN "await" ELSE "reawait",
                              ![t].id = r.id]
      /\ submitted' = IF r.op = "submit" THEN [submitted EXCEPT ![call[t].transaction] = @ + 1]
                      ELSE submitted
  BY <1>1 DEF Send
<1>3. /\ connection # 0 /\ Outstanding(connection) <= 1
      /\ call[t].stage = "resend" => Outstanding(connection) = 0
      /\ r \in Requests
  BY <1>1, <1>2, SentRequest
<1>4. connection \in Connections
  BY <1>3, SocketFacts
<1>5. /\ inbox' \in [Connections -> Seq(Requests)]
      /\ \A c \in Connections : Len(inbox'[c]) = Len(inbox[c]) \/
            (c = connection /\ Len(inbox'[c]) = Len(inbox[c]) + 1)
  <2>1. inbox[connection] \in Seq(Requests)
    BY <1>4, SocketFacts
  <2>2. Append(inbox[connection], r) \in Seq(Requests)
        /\ Len(Append(inbox[connection], r)) = Len(inbox[connection]) + 1
    BY <1>3, <2>1
  <2> QED
    BY <1>2, <1>4, <2>2 DEF Shape, Types, SocketTypes
<1>6. ClientTypes'
  BY <1>2 DEF Shape, Types, ClientTypes, Told
<1>7. SocketTypes'
  BY <1>2, <1>5 DEF Shape, Types, SocketTypes
<1>8. BridgeTypes'
  BY <1>2 DEF Shape, Types, BridgeTypes, bridge
<1>9. HistoryTypes'
  <2>1. r.op = "submit" => call[t].transaction \in Transactions
    BY <1>1, <1>3 DEF Requests, Request
  <2> QED
    BY <1>2, <2>1 DEF Shape, Types, HistoryTypes
<1>10. Unopened'
  BY <1>2, <1>4, SocketFacts DEF Shape, Unopened, Connections
<1>11. /\ Outstanding(connection)' <= Outstanding(connection) + 1
       /\ \A c \in Connections \ {connection} : Outstanding(c)' = Outstanding(c)
  <2>1. outbox' = outbox /\ connection' = connection /\ Len(outbox[connection]) \in Nat
        /\ Len(inbox[connection]) \in Nat
    BY <1>2, <1>4, SocketFacts
  <2>2. Len(inbox'[connection]) <= Len(inbox[connection]) + 1
    BY <1>4, <1>5, <2>1
  <2>3. \A c \in Connections \ {connection} : Len(inbox'[c]) = Len(inbox[c])
    BY <1>5
  <2>4. Outstanding(connection)' <= Outstanding(connection) + 1
    <3>1. PICK m \in Nat : m = Len(inbox[connection])
      BY <2>1
    <3>2. PICK n \in Nat : n = Len(outbox[connection])
      BY <2>1
    <3>3. PICK l \in Nat : l = Len(inbox'[connection])
      BY <1>4, <1>5
    <3>4. Outstanding(connection)' = l + n /\ Outstanding(connection) = m + n
      BY <2>1, <3>1, <3>2, <3>3 DEF Outstanding
    <3>5. l <= m + 1
      BY <2>2, <3>1, <3>3
    <3> QED
      BY <3>4, <3>5
  <2> QED
    BY <2>1, <2>3, <2>4 DEF Outstanding
<1>12. Few'
  <2> SUFFICES ASSUME NEW c \in Connections PROVE Outstanding(c)' <= 2
    BY DEF Few
  <2>1. CASE c = connection
    <3>1. Outstanding(c)' = Outstanding(connection)'
      BY <1>2, <2>1 DEF Outstanding
    <3>2. Outstanding(connection) \in Nat /\ Outstanding(connection)' \in Nat
      BY <1>2, <1>4, <1>7, SocketFacts DEF Outstanding, SocketTypes
    <3> QED
      BY <1>3, <1>11, <3>1, <3>2
  <2>2. CASE c # connection
    BY <1>11, <2>2 DEF Shape, Few
  <2> QED
    BY <2>1, <2>2
<1>13. Calling'
  <2>1. call[t].stage \notin Unlocked
    BY <1>2 DEF Unlocked
  <2>2. call[t] \in Calls /\ CallShape(call[t])
    BY <2>1, InsideAlone
  <2>3. PICK k : k = [call[t] EXCEPT !.stage = IF call[t].stage = "send" THEN "await" ELSE "reawait",
                                     !.id = r.id]
    OBVIOUS
  <2>4. /\ k \in Calls /\ call' = [call EXCEPT ![t] = k] /\ k.op = call[t].op
        /\ k.lease = call[t].lease /\ k.transaction = call[t].transaction
        /\ k.stage = IF call[t].stage = "send" THEN "await" ELSE "reawait"
    BY <1>2, <1>3, <2>2, <2>3 DEF Calls, Stages, FirstTry, Retry, Requests
  <2>5. k.op # "next" /\ (k.op \in {"renew", "release"} => k.stage \notin {"resend", "reawait"})
    BY <1>2, <2>2, <2>4 DEF CallShape
  <2>6. call[t].stage = "resend" => Outstanding(connection)' <= 1
    BY <1>3, <1>11, <1>2
  <2>7. Placed(k)'
    BY <1>2, <1>3, <2>4, <2>6 DEF Placed
  <2> QED
    BY <1>2, <2>1, <2>4, <2>5, <2>7, CallGoesOn DEF Unlocked
<1> QED
  BY <1>6, <1>7, <1>8, <1>9, <1>10, <1>12, <1>13 DEF Shape, Types

\* The client reads an answer.
LEMMA Popped ==
    ASSUME Shape, NEW c \in Connections, outbox[c] # <<>>,
           outbox' = [outbox EXCEPT ![c] = Tail(@)], inbox' = inbox
    PROVE  /\ outbox' \in [Connections -> Seq(Answers)]
           /\ Head(outbox[c]) \in Answers /\ Head(outbox[c]) = outbox[c][1]
           /\ \A i \in 1 .. Len(outbox'[c]) : i + 1 \in 1 .. Len(outbox[c]) /\ outbox'[c][i] = outbox[c][i + 1]
           /\ \A d \in Connections \ {c} : outbox'[d] = outbox[d]
           /\ Outstanding(c) \in Nat \ {0} /\ Outstanding(c)' = Outstanding(c) - 1
           /\ Few'
<1>1. /\ outbox[c] \in Seq(Answers) /\ inbox[c] \in Seq(Requests)
      /\ Len(inbox[c]) \in Nat /\ Len(outbox[c]) \in Nat
      /\ outbox \in [Connections -> Seq(Answers)]
  BY SocketFacts DEF Shape, Types, SocketTypes
<1>2. PICK s \in Seq(Answers) : s = outbox[c]
  BY <1>1
<1>3. /\ Tail(s) \in Seq(Answers) /\ Len(Tail(s)) = Len(s) - 1 /\ Len(s) \in Nat \ {0}
      /\ Head(s) = s[1] /\ Head(s) \in Answers
      /\ \A i \in 1 .. Len(Tail(s)) : i + 1 \in 1 .. Len(s) /\ Tail(s)[i] = s[i + 1]
  BY <1>2
<1>4. outbox'[c] = Tail(s) /\ \A d \in Connections \ {c} : outbox'[d] = outbox[d]
  BY <1>1, <1>2
<1>5. outbox' \in [Connections -> Seq(Answers)]
  BY <1>1, <1>2, <1>3
<1>6. Outstanding(c) \in Nat \ {0} /\ Outstanding(c)' = Outstanding(c) - 1
  <2>1. PICK m \in Nat : m = Len(inbox[c])
    BY <1>1
  <2>2. PICK n \in Nat \ {0} : n = Len(s)
    BY <1>3
  <2>3. Outstanding(c) = m + n /\ Outstanding(c)' = m + (n - 1)
    BY <1>2, <1>3, <1>4, <2>1, <2>2 DEF Outstanding
  <2> QED
    BY <2>3
<1>7. Few'
  <2> SUFFICES ASSUME NEW d \in Connections PROVE Outstanding(d)' <= 2
    BY DEF Few
  <2>1. CASE d = c
    BY <1>6, <2>1 DEF Shape, Few
  <2>2. CASE d # c
    BY <1>4, <2>2 DEF Shape, Few, Outstanding
  <2> QED
    BY <2>1, <2>2
<1> QED
  BY <1>2, <1>3, <1>4, <1>5, <1>6, <1>7

\* The client closes a socket: answers not yet read are lost.
LEMMA Discarded ==
    ASSUME Shape, NEW c, outbox' = Unread(c)
    PROVE  /\ outbox' \in [Connections -> Seq(Answers)]
           /\ \A d \in Connections : outbox'[d] = <<>> \/ outbox'[d] = outbox[d]
           /\ \A d \in Connections : Len(outbox'[d]) \in Nat /\ Len(outbox'[d]) <= Len(outbox[d])
<1>1. \A d \in Connections : outbox[d] \in Seq(Answers) /\ Len(outbox[d]) \in Nat
  BY SocketFacts
<1>2. <<>> \in Seq(Answers) /\ Len(<<>>) = 0
  OBVIOUS
<1>3. \A d \in Connections : outbox'[d] = <<>> \/ outbox'[d] = outbox[d]
  BY DEF Unread
<1>4. outbox' \in [Connections -> Seq(Answers)]
  BY <1>1, <1>2 DEF Unread
<1>5. \A d \in Connections : Len(outbox'[d]) \in Nat /\ Len(outbox'[d]) <= Len(outbox[d])
  BY <1>1, <1>2, <1>3
<1> QED
  BY <1>3, <1>4, <1>5

\* No connection carries more than before.
LEMMA FewerOutstanding ==
    ASSUME Shape, inbox' = inbox,
           \A d \in Connections : Len(outbox'[d]) \in Nat /\ Len(outbox'[d]) <= Len(outbox[d])
    PROVE  Few' /\ \A d \in Connections : Outstanding(d)' <= Outstanding(d)
<1>1. ASSUME NEW d \in Connections
      PROVE  Outstanding(d)' <= Outstanding(d) /\ Outstanding(d)' <= 2
  <2>1. PICK m \in Nat : m = Len(inbox[d])
    BY SocketFacts
  <2>2. PICK n \in Nat : n = Len(outbox[d])
    BY SocketFacts
  <2>3. PICK l \in Nat : l = Len(outbox'[d])
    OBVIOUS
  <2>4. Outstanding(d) = m + n /\ Outstanding(d)' = m + l /\ l <= n
    BY <2>1, <2>2, <2>3 DEF Outstanding
  <2>5. Outstanding(d) <= 2
    BY DEF Shape, Few
  <2> QED
    BY <2>4, <2>5
<1> QED
  BY <1>1 DEF Few

\* What is below the sockets, and the history, is as it was.
LEMMA BelowShape ==
    ASSUME Shape, UNCHANGED <<bridge, submitted, written>>, opened' \in 0 .. MaxConnections,
           opened' >= opened
    PROVE  BridgeTypes' /\ HistoryTypes'
<1>1. 1 .. opened \subseteq 1 .. opened'
  BY SocketFacts, RecoveringConstants
<1>2. BridgeTypes'
  BY <1>1 DEF Shape, Types, BridgeTypes, bridge
<1>3. HistoryTypes'
  BY DEF Shape, Types, HistoryTypes
<1> QED
  BY <1>2, <1>3

LEMMA DrawIdShape ==
    ASSUME Shape, NEW t \in Threads, DrawId(t)
    PROVE  Shape'
<1>1. call[t].stage \notin Unlocked /\ drawn \in 0 .. MaxTransactions
  BY DEF DrawId, Unlocked, Shape, Types, ClientTypes
<1>2. /\ Others(t) /\ Placed(call[t]) /\ CallShape(call[t]) /\ call[t] \in Calls
  BY <1>1, InsideAlone
<1>3. drawn < MaxTransactions /\ t # "aux"
  BY <1>2 DEF CallShape, DrawId, Shape, Calling, Roles
<1>4. drawn' \in 0 .. MaxTransactions /\ drawn' \in Transactions /\ drawn' = drawn + 1
  BY <1>1, <1>3, RecoveringConstants DEF DrawId, Transactions
<1>5. PICK k : k = [call[t] EXCEPT !.stage = "ready", !.transaction = drawn + 1]
  OBVIOUS
<1>6. /\ k \in Calls /\ call' = [call EXCEPT ![t] = k] /\ k.op = "next"
      /\ k.stage = "ready" /\ k.transaction = drawn'
  BY <1>2, <1>4, <1>5 DEF Calls, Stages, Unlocked, DrawId
<1>7. CallShape(k)'
  BY <1>4, <1>6 DEF CallShape
<1>8. Placed(k)'
  BY <1>2, <1>6 DEF Placed, DrawId, Outstanding, sockets
<1>9. Calling'
  BY <1>2, <1>3, <1>6, <1>7, <1>8, ThreadStep
<1>10. ClientTypes'
  BY <1>1, <1>4, RecoveringConstants
     DEF Shape, Types, ClientTypes, Told, DrawId, sockets, Transactions
<1>11. SocketTypes' /\ Unopened' /\ Few'
  BY DEF Shape, Types, SocketTypes, Unopened, Few, Outstanding, sockets, DrawId
<1>12. BridgeTypes' /\ HistoryTypes'
  BY BelowShape, SocketFacts DEF Shape, Types, SocketTypes, sockets, history, DrawId
<1> QED
  BY <1>9, <1>10, <1>11, <1>12 DEF Shape, Types

LEMMA ReceiveShape ==
    ASSUME Shape, NEW t \in Threads, Receive(t)
    PROVE  Shape'
<1>1. /\ call[t].stage \in {"await", "reawait"} /\ outbox[connection] # <<>>
      /\ outbox' = [outbox EXCEPT ![connection] = Tail(@)]
      /\ UNCHANGED <<connection, epoch, drawn, opened, inbox, closed, bridge, history>>
  BY DEF Receive
<1>2. call[t].stage \notin Unlocked
  BY <1>1 DEF Unlocked
<1>3. Others(t) /\ Placed(call[t]) /\ CallShape(call[t]) /\ call[t] \in Calls
  BY <1>2, InsideAlone
<1>4. connection # 0 /\ connection \in Connections
  BY <1>1, <1>3, SocketFacts DEF Placed
<1>5. PICK c \in Connections : c = connection
  BY <1>4
<1>6. /\ outbox' \in [Connections -> Seq(Answers)] /\ Few'
      /\ Head(outbox[c]) \in Answers
      /\ \A d \in Connections \ {c} : outbox'[d] = outbox[d]
      /\ Outstanding(c) \in Nat \ {0} /\ Outstanding(c)' = Outstanding(c) - 1
  BY <1>1, <1>5, Popped
<1>7. Outstanding(connection)' <= 1
  <2>1. Outstanding(c) <= 2 /\ Outstanding(connection)' = Outstanding(c)'
    BY <1>1, <1>5 DEF Shape, Few, Outstanding
  <2> QED
    BY <1>6, <2>1
<1>8. Unopened'
  BY <1>1, <1>5, <1>6, SocketFacts DEF Shape, Unopened, Connections
<1>9. SocketTypes'
  BY <1>1, <1>6 DEF Shape, Types, SocketTypes
<1>10. BridgeTypes' /\ HistoryTypes'
  BY <1>1, BelowShape, SocketFacts DEF Shape, Types, SocketTypes, history
<1>11. /\ Calling' /\ Told'
       /\ session' \in [lease : 0 .. MaxLeases, epoch : 0 .. MaxEpoch]
  <2>1. PICK answer : answer = Head(outbox[connection])
    OBVIOUS
  <2>2. \/ ExchangeFails(t)
        \/ \E v : Return(t, v)
        \/ /\ call[t].op = "acquire"
           /\ call' = [call EXCEPT ![t] = [Idle EXCEPT !.stage = "granted",
                                                       !.lease = answer.about.lease]]
           /\ UNCHANGED <<session, result>>
    BY <2>1 DEF Receive
  <2>3. CASE ExchangeFails(t)
    BY <1>1, <1>3, <1>7, <2>3, FailureCalling DEF CallShape
  <2>4. ASSUME NEW v, Return(t, v)
        PROVE  /\ Calling' /\ Told'
               /\ session' \in [lease : 0 .. MaxLeases, epoch : 0 .. MaxEpoch]
    BY <1>1, <1>2, <1>7, <2>4, CallReturns
  <2>5. CASE /\ call[t].op = "acquire"
             /\ call' = [call EXCEPT ![t] = [Idle EXCEPT !.stage = "granted",
                                                         !.lease = answer.about.lease]]
             /\ UNCHANGED <<session, result>>
    <3>1. PICK k : k = [Idle EXCEPT !.stage = "granted", !.lease = answer.about.lease]
      OBVIOUS
    <3>2. answer.about.lease \in 0 .. MaxLeases
      BY <1>5, <1>6, <2>1 DEF Answers, Requests
    <3>3. k \in Calls /\ k.stage = "granted" /\ k.op = "none"
      <4>1. k = [op |-> "none", stage |-> "granted", lease |-> answer.about.lease,
                 transaction |-> 0, id |-> 0]
        BY <3>1 DEF Idle
      <4>2. 0 \in 0 .. MaxTransactions /\ "none" \in Ops /\ "granted" \in Stages
        BY RecoveringConstants DEF Ops, Stages, Unlocked
      <4> QED
        BY <3>2, <4>1, <4>2 DEF Calls
    <3>4. CallShape(k)'
      BY <3>3 DEF CallShape
    <3>5. Placed(k)'
      BY <1>7, <3>3 DEF Placed
    <3>6. t # "aux"
      BY <2>5 DEF Shape, Calling, Roles
    <3>7. Calling'
      BY <1>3, <2>5, <3>1, <3>3, <3>4, <3>5, <3>6, ThreadStep
    <3> QED
      BY <1>1, <2>5, <3>7 DEF Shape, Types, ClientTypes, Told
  <2> QED
    BY <2>2, <2>3, <2>4, <2>5
<1>12. ClientTypes'
  BY <1>1, <1>11 DEF Shape, Types, ClientTypes
<1> QED
  BY <1>6, <1>8, <1>9, <1>10, <1>11, <1>12 DEF Shape, Types

\* The client drops its connection.
LEMMA AdvanceFacts ==
    ASSUME Shape, NEW t \in Threads, Advance(t), inbox' = inbox
    PROVE  /\ connection' = 0 /\ epoch' \in 0 .. MaxEpoch /\ epoch' = epoch + 1
           /\ closed' \subseteq 1 .. opened
           /\ outbox' \in [Connections -> Seq(Answers)]
           /\ \A d \in Connections : outbox'[d] = <<>> \/ outbox'[d] = outbox[d]
           /\ Few'
<1>1. connection' = 0 /\ epoch' = epoch + 1
  BY DEF Advance
<1>2. epoch' \in 0 .. MaxEpoch
  BY RecoveringConstants DEF Advance, Shape, Types, ClientTypes
<1>3. closed' \subseteq 1 .. opened
  <2>1. closed \subseteq 1 .. opened /\ closed' = closed \union ({connection} \ {0})
    BY DEF Advance, Shape, Types, SocketTypes
  <2>2. connection # 0 => connection \in 1 .. opened
    BY SocketFacts
  <2> QED
    BY <2>1, <2>2
<1>4. outbox' = Unread(connection)
  BY DEF Advance
<1> QED
  BY <1>1, <1>2, <1>3, <1>4, Discarded, FewerOutstanding

\* Connecting is refused, or the answer to the first request never comes.
LEMMA ConnectFailureShape ==
    ASSUME Shape, NEW t \in Threads, ConnectRefused(t) \/ NegotiationLost(t)
    PROVE  Shape'
<1>1. /\ call[t].stage \in {"connect", "reconnect", "negotiate", "renegotiate"}
      /\ UNCHANGED <<drawn, opened, inbox, bridge, submitted, written>>
  BY DEF ConnectRefused, NegotiationLost, history
<1>2. call[t].stage \notin Unlocked
  BY <1>1 DEF Unlocked
<1>3. Others(t) /\ Placed(call[t]) /\ CallShape(call[t]) /\ call[t] \in Calls
  BY <1>2, InsideAlone
<1>4. /\ connection' = 0 /\ epoch' \in 0 .. MaxEpoch
      /\ closed' \subseteq 1 .. opened
      /\ outbox' \in [Connections -> Seq(Answers)]
      /\ \A d \in Connections : outbox'[d] = <<>> \/ outbox'[d] = outbox[d]
      /\ Few'
  <2>1. CASE ConnectRefused(t)
    BY <1>1, <2>1, AdvanceFacts DEF ConnectRefused
  <2>2. CASE NegotiationLost(t)
    <3>1. connection = 0 /\ opened # 0
      BY <1>3, <2>2 DEF Placed, NegotiationLost
    <3>2. outbox' = Unread(opened) /\ UNCHANGED <<connection, epoch>>
          /\ closed' = closed \union {opened}
      BY <2>2 DEF NegotiationLost
    <3>3. closed' \subseteq 1 .. opened /\ epoch' \in 0 .. MaxEpoch /\ connection' = 0
      BY <3>1, <3>2, SocketFacts DEF Shape, Types, SocketTypes, ClientTypes
    <3> QED
      BY <1>1, <3>2, <3>3, Discarded, FewerOutstanding
  <2> QED
    BY <2>1, <2>2
<1>5. \E v : Return(t, v)
  BY DEF ConnectRefused, NegotiationLost, ConnectFails
<1>6. /\ Calling' /\ Told'
      /\ session' \in [lease : 0 .. MaxLeases, epoch : 0 .. MaxEpoch]
  BY <1>1, <1>2, <1>4, <1>5, CallReturns
<1>7. ClientTypes'
  BY <1>1, <1>4, <1>6, SocketFacts DEF Shape, Types, ClientTypes
<1>8. SocketTypes'
  BY <1>1, <1>4 DEF Shape, Types, SocketTypes
<1>9. Unopened'
  BY <1>1, <1>4 DEF Shape, Unopened
<1>10. BridgeTypes' /\ HistoryTypes'
  BY <1>1, BelowShape, SocketFacts DEF Shape, Types, SocketTypes
<1> QED
  BY <1>4, <1>6, <1>7, <1>8, <1>9, <1>10 DEF Shape, Types

LEMMA CloseShape ==
    ASSUME Shape, Close
    PROVE  Shape'
<1>1. /\ UNCHANGED <<call, session, drawn, result, opened, inbox, bridge, submitted, written>>
      /\ LockFree
  BY DEF Close
<1>2. /\ connection' = 0 /\ epoch' \in 0 .. MaxEpoch
      /\ closed' \subseteq 1 .. opened
      /\ outbox' \in [Connections -> Seq(Answers)]
      /\ \A d \in Connections : outbox'[d] = <<>> \/ outbox'[d] = outbox[d]
      /\ Few'
  BY <1>1, AdvanceFacts DEF Close, Threads
<1>3. Locked' /\ call' \in [Threads -> Calls]
  BY <1>1 DEF Shape, Calling, Locked
<1>4. Roles'
  BY <1>1 DEF Shape, Calling, Roles, CallShape
<1>5. \A t \in Threads : Placed(call[t])'
  BY <1>1, <1>2 DEF Placed, LockFree, Unlocked
<1>6. ClientTypes'
  BY <1>1, <1>2, SocketFacts DEF Shape, Types, ClientTypes, Told
<1>7. SocketTypes'
  BY <1>1, <1>2 DEF Shape, Types, SocketTypes
<1>8. Unopened'
  BY <1>1, <1>2 DEF Shape, Unopened
<1>9. BridgeTypes' /\ HistoryTypes'
  BY <1>1, BelowShape, SocketFacts DEF Shape, Types, SocketTypes
<1> QED
  BY <1>2, <1>3, <1>4, <1>5, <1>6, <1>7, <1>8, <1>9 DEF Shape, Types, Calling

LEMMA ConnectShape ==
    ASSUME Shape, NEW t \in Threads, Connect(t)
    PROVE  Shape'
<1>1. PICK c : c = opened + 1
  OBVIOUS
<1>2. /\ call[t].stage \in {"connect", "reconnect"} /\ opened < MaxConnections
      /\ Advance(t) /\ opened' = c
      /\ inbox' = [inbox EXCEPT ![c] = <<Request("negotiate", 0, 0, 0)>>]
      /\ serving' = serving \union {c}
      /\ call' = [call EXCEPT ![t].stage = IF @ = "connect" THEN "negotiate" ELSE "renegotiate"]
      /\ UNCHANGED <<session, drawn, result, registered, holder, granted, queue,
                     journal, submitted, written>>
  BY <1>1 DEF Connect
<1>3. c \in Connections /\ opened \in Nat /\ c > opened /\ opened' \in 0 .. MaxConnections
  BY <1>1, <1>2, SocketFacts, RecoveringConstants DEF Connections
<1>4. inbox[c] = <<>> /\ outbox[c] = <<>>
  BY <1>3 DEF Shape, Unopened
<1>5. connection' = 0 /\ epoch' \in 0 .. MaxEpoch
  BY <1>2, RecoveringConstants DEF Advance, Shape, Types, ClientTypes
<1>6. closed' \subseteq 1 .. opened'
  <2>1. closed \subseteq 1 .. opened /\ closed' = closed \union ({connection} \ {0})
    BY <1>2 DEF Advance, Shape, Types, SocketTypes
  <2>2. connection # 0 => connection \in 1 .. opened
    BY SocketFacts
  <2> QED
    BY <1>1, <1>2, <1>3, <2>1, <2>2
<1>7. /\ outbox' \in [Connections -> Seq(Answers)]
      /\ \A d \in Connections : outbox'[d] = <<>> \/ outbox'[d] = outbox[d]
      /\ \A d \in Connections : Len(outbox'[d]) \in Nat /\ Len(outbox'[d]) <= Len(outbox[d])
  BY <1>2, Discarded DEF Advance
<1>8. Request("negotiate", 0, 0, 0) \in Requests
  BY RecoveringConstants DEF Request, Requests, Methods
<1>9. inbox' \in [Connections -> Seq(Requests)] /\ inbox'[c] = <<Request("negotiate", 0, 0, 0)>>
      /\ \A d \in Connections \ {c} : inbox'[d] = inbox[d]
  BY <1>2, <1>3, <1>8 DEF Shape, Types, SocketTypes
<1>10. outbox'[c] = <<>>
  BY <1>3, <1>4, <1>7
<1>11. Outstanding(c)' = 1
  <2>1. Len(inbox'[c]) = 1 /\ Len(outbox'[c]) = 0
    BY <1>9, <1>10
  <2> QED
    BY <2>1 DEF Outstanding
<1>12. Few'
  <2> SUFFICES ASSUME NEW d \in Connections PROVE Outstanding(d)' <= 2
    BY DEF Few
  <2>1. CASE d = c
    BY <1>11, <2>1
  <2>2. CASE d # c
    <3>1. PICK m \in Nat : m = Len(inbox[d]) /\ m = Len(inbox'[d])
      BY <1>9, <2>2, SocketFacts
    <3>2. PICK n \in Nat : n = Len(outbox[d])
      BY SocketFacts
    <3>3. PICK l \in Nat : l = Len(outbox'[d])
      BY <1>7
    <3>4. Outstanding(d) = m + n /\ Outstanding(d)' = m + l /\ l <= n
      BY <1>7, <3>1, <3>2, <3>3 DEF Outstanding
    <3>5. Outstanding(d) <= 2
      BY DEF Shape, Few
    <3> QED
      BY <3>4, <3>5
  <2> QED
    BY <2>1, <2>2
<1>13. Unopened'
  <2> SUFFICES ASSUME NEW d \in Connections, d > opened' PROVE inbox'[d] = <<>> /\ outbox'[d] = <<>>
    BY DEF Unopened
  <2>1. d > opened /\ d # c
    BY <1>1, <1>2, <1>3 DEF Connections
  <2> QED
    BY <1>7, <1>9, <2>1 DEF Shape, Unopened
<1>14. Calling'
  <2>1. call[t].stage \notin Unlocked
    BY <1>2 DEF Unlocked
  <2>2. call[t] \in Calls /\ CallShape(call[t])
    BY <2>1, InsideAlone
  <2>3. PICK k : k = [call[t] EXCEPT !.stage = IF call[t].stage = "connect" THEN "negotiate" ELSE "renegotiate"]
    OBVIOUS
  <2>4. /\ k \in Calls /\ call' = [call EXCEPT ![t] = k] /\ k.op = call[t].op
        /\ k.lease = call[t].lease /\ k.transaction = call[t].transaction
        /\ k.stage = IF call[t].stage = "connect" THEN "negotiate" ELSE "renegotiate"
    BY <1>2, <2>2, <2>3 DEF Calls, Stages, FirstTry, Retry
  <2>5. /\ k.op = "next" => k.stage = "negotiate"
        /\ k.op \in {"renew", "release"} => k.stage \notin {"resend", "reawait"}
    BY <1>2, <2>2, <2>4 DEF CallShape
  <2>6. Outstanding(opened)' = 1
    BY <1>2, <1>11 DEF Outstanding
  <2>7. Placed(k)'
    BY <1>1, <1>2, <1>3, <1>5, <2>4, <2>6 DEF Placed
  <2> QED
    BY <1>2, <2>1, <2>4, <2>5, <2>7, CallGoesOn DEF Unlocked
<1>15. ClientTypes'
  BY <1>2, <1>3, <1>5 DEF Shape, Types, ClientTypes, Told
<1>16. SocketTypes'
  BY <1>3, <1>6, <1>7, <1>9 DEF SocketTypes
<1>17. BridgeTypes'
  <2>1. serving' \subseteq 1 .. opened'
    BY <1>1, <1>2, <1>3 DEF Shape, Types, BridgeTypes
  <2> QED
    BY <1>2, <2>1 DEF Shape, Types, BridgeTypes
<1>18. HistoryTypes'
  BY <1>2 DEF Shape, Types, HistoryTypes
<1> QED
  BY <1>12, <1>13, <1>14, <1>15, <1>16, <1>17, <1>18 DEF Shape, Types

LEMMA NegotiatedShape ==
    ASSUME Shape, NEW t \in Threads, Negotiated(t)
    PROVE  Shape'
<1>1. PICK c : c = opened
  OBVIOUS
<1>2. /\ call[t].stage \in {"negotiate", "renegotiate"} /\ outbox[c] # <<>>
      /\ outbox' = [outbox EXCEPT ![c] = Tail(@)]
      /\ UNCHANGED <<epoch, drawn, opened, inbox, bridge, history>>
  BY <1>1 DEF Negotiated
<1>3. call[t].stage \notin Unlocked
  BY <1>2 DEF Unlocked
<1>4. Others(t) /\ Placed(call[t]) /\ CallShape(call[t]) /\ call[t] \in Calls
  BY <1>3, InsideAlone
<1>5. connection = 0 /\ c # 0 /\ c \in Connections /\ Outstanding(c) <= 1
  BY <1>1, <1>2, <1>4, SocketFacts DEF Placed
<1>6. /\ outbox' \in [Connections -> Seq(Answers)] /\ Few'
      /\ \A d \in Connections \ {c} : outbox'[d] = outbox[d]
      /\ Outstanding(c) \in Nat \ {0} /\ Outstanding(c)' = Outstanding(c) - 1
  BY <1>2, <1>5, Popped
<1>7. Outstanding(c)' = 0
  BY <1>5, <1>6
<1>8. \/ connection' = c /\ closed' = closed
      \/ connection' = 0 /\ closed' = closed \union {c}
  BY <1>1, <1>5 DEF Negotiated
<1>9. connection' # 0 => Outstanding(connection)' = 0
  BY <1>7, <1>8 DEF Outstanding
<1>10. /\ Calling' /\ Told'
       /\ session' \in [lease : 0 .. MaxLeases, epoch : 0 .. MaxEpoch]
  <2>1. \/ \E v : Return(t, v)
        \/ /\ connection' = c
           /\ ~(call[t].stage = "renegotiate" /\ call[t].op \in {"renew", "release"})
           /\ call' = [call EXCEPT ![t].stage = IF @ = "negotiate" THEN "send" ELSE "resend"]
           /\ UNCHANGED <<session, result>>
    BY <1>1 DEF Negotiated, ConnectFails
  <2>2. ASSUME NEW v, Return(t, v)
        PROVE  /\ Calling' /\ Told'
               /\ session' \in [lease : 0 .. MaxLeases, epoch : 0 .. MaxEpoch]
    <3>1. connection' # 0 => Outstanding(connection)' <= 1
      BY <1>9
    <3> QED
      BY <1>2, <1>3, <2>2, <3>1, CallReturns
  <2>3. CASE /\ connection' = c
             /\ ~(call[t].stage = "renegotiate" /\ call[t].op \in {"renew", "release"})
             /\ call' = [call EXCEPT ![t].stage = IF @ = "negotiate" THEN "send" ELSE "resend"]
             /\ UNCHANGED <<session, result>>
    <3>1. PICK k : k = [call[t] EXCEPT !.stage = IF call[t].stage = "negotiate" THEN "send" ELSE "resend"]
      OBVIOUS
    <3>2. /\ k \in Calls /\ call' = [call EXCEPT ![t] = k] /\ k.op = call[t].op
          /\ k.lease = call[t].lease /\ k.transaction = call[t].transaction
          /\ k.stage = IF call[t].stage = "negotiate" THEN "send" ELSE "resend"
      BY <1>4, <2>3, <3>1 DEF Calls, Stages, FirstTry, Retry
    <3>3. /\ k.op = "next" => k.stage = "send"
          /\ k.op \in {"renew", "release"} => k.stage \notin {"resend", "reawait"}
      BY <1>2, <1>4, <2>3, <3>2 DEF CallShape
    <3>4. Placed(k)'
      BY <1>5, <1>9, <2>3, <3>2 DEF Placed
    <3>5. Calling'
      BY <1>2, <1>3, <3>2, <3>3, <3>4, CallGoesOn DEF Unlocked
    <3> QED
      BY <1>2, <2>3, <3>5 DEF Shape, Types, ClientTypes, Told
  <2> QED
    BY <2>1, <2>2, <2>3
<1>11. ClientTypes'
  <2>1. connection' \in 0 .. opened'
    BY <1>1, <1>2, <1>8, SocketFacts
  <2> QED
    BY <1>2, <1>10, <2>1 DEF Shape, Types, ClientTypes
<1>12. SocketTypes'
  <2>1. closed' \subseteq 1 .. opened'
    <3>1. c \in 1 .. opened /\ closed \subseteq 1 .. opened /\ opened' = opened
      BY <1>1, <1>2, <1>5, SocketFacts DEF Shape, Types, SocketTypes
    <3> QED
      BY <1>8, <3>1
  <2> QED
    BY <1>2, <1>6, <2>1 DEF Shape, Types, SocketTypes
<1>13. Unopened'
  BY <1>1, <1>2, <1>6, SocketFacts DEF Shape, Unopened, Connections
<1>14. BridgeTypes' /\ HistoryTypes'
  BY <1>2, BelowShape, SocketFacts DEF Shape, Types, SocketTypes, history
<1> QED
  BY <1>6, <1>10, <1>11, <1>12, <1>13, <1>14 DEF Shape, Types

\* The bridge takes a request from a socket and answers it.
LEMMA ServedRequest ==
    ASSUME Shape, NEW c \in Connections, Serve(c)
    PROVE  /\ Head(inbox[c]) \in Requests /\ Head(inbox[c]) = inbox[c][1]
           /\ Respond(Head(inbox[c]), c) \in Values
           /\ Respond(Head(inbox[c]), c) = "granted" => Head(inbox[c]).op = "acquire" /\ Len(granted) < MaxLeases
           /\ inbox' \in [Connections -> Seq(Requests)]
           /\ \A d \in Connections \ {c} : inbox'[d] = inbox[d]
           /\ \A i \in 1 .. Len(inbox'[c]) : i + 1 \in 1 .. Len(inbox[c]) /\ inbox'[c][i] = inbox[c][i + 1]
           /\ Len(inbox[c]) \in Nat \ {0} /\ Len(inbox'[c]) = Len(inbox[c]) - 1
<1>1. inbox[c] # <<>> /\ inbox' = [inbox EXCEPT ![c] = Tail(@)]
  BY DEF Serve
<1>2. inbox \in [Connections -> Seq(Requests)] /\ inbox[c] \in Seq(Requests)
  BY DEF Shape, Types, SocketTypes
<1>3. PICK s \in Seq(Requests) : s = inbox[c]
  BY <1>2
<1>4. /\ Tail(s) \in Seq(Requests) /\ Len(Tail(s)) = Len(s) - 1 /\ Len(s) \in Nat \ {0}
      /\ Head(s) = s[1] /\ Head(s) \in Requests
      /\ \A i \in 1 .. Len(Tail(s)) : i + 1 \in 1 .. Len(s) /\ Tail(s)[i] = s[i + 1]
  BY <1>1, <1>3
<1>5. inbox'[c] = Tail(s) /\ \A d \in Connections \ {c} : inbox'[d] = inbox[d]
  BY <1>1, <1>2, <1>3
<1>6. inbox' \in [Connections -> Seq(Requests)]
  BY <1>1, <1>2, <1>3, <1>4
<1>7. PICK r : r = Head(inbox[c])
  OBVIOUS
<1>8. r.op \in Methods /\ (r.op \in {"submit", "lookup"} => journal[r.transaction] \in Journalled)
  BY <1>3, <1>4, <1>7 DEF Requests, Shape, Types, BridgeTypes
<1>9. Respond(r, c) \in Values
  BY <1>8 DEF Respond, Values, Methods, Journalled, Finished
<1>10. Respond(r, c) = "granted" => r.op = "acquire" /\ Len(granted) < MaxLeases
  BY <1>8 DEF Respond, Methods, Journalled, Finished
<1> QED
  BY <1>3, <1>4, <1>5, <1>6, <1>7, <1>9, <1>10

\* The answers on each connection after a request was served.
LEMMA ServedAnswer ==
    ASSUME Shape, NEW c \in Connections, Serve(c)
    PROVE  \E a \in Answers :
              /\ a.value = Respond(Head(inbox[c]), c)
              /\ a.id = Head(inbox[c]).id
              /\ a.about.op = Head(inbox[c]).op /\ a.about.transaction = Head(inbox[c]).transaction
              /\ a.about.lease = IF a.value = "granted" THEN Len(granted) + 1
                                 ELSE Head(inbox[c]).lease
              /\ outbox' = IF c \in closed THEN outbox
                           ELSE [outbox EXCEPT ![c] = Append(@, a)]
<1>1. PICK r \in Requests : r = Head(inbox[c])
  BY ServedRequest
<1>2. PICK v \in Values : v = Respond(r, c)
  BY <1>1, ServedRequest
<1>3. PICK about : about = IF v = "granted" THEN [r EXCEPT !.lease = Len(granted) + 1] ELSE r
  OBVIOUS
<1>4. v = "granted" => Len(granted) + 1 \in 0 .. MaxLeases
  BY <1>1, <1>2, ServedRequest, RecoveringConstants DEF Shape, Types, BridgeTypes
<1>5. /\ about \in Requests /\ about.op = r.op /\ about.id = r.id
      /\ about.transaction = r.transaction
      /\ about.lease = IF v = "granted" THEN Len(granted) + 1 ELSE r.lease
  BY <1>1, <1>3, <1>4 DEF Requests
<1>6. PICK a : a = Answer(about, v)
  OBVIOUS
<1>7. a \in Answers /\ a.value = v /\ a.id = r.id /\ a.about = about
  <2>1. about.id \in 0 .. 2
    BY <1>5 DEF Requests
  <2> QED
    BY <1>2, <1>5, <1>6, <2>1 DEF Answer, Answers
<1>8. outbox' = IF c \in closed THEN outbox ELSE [outbox EXCEPT ![c] = Append(@, a)]
  BY <1>1, <1>2, <1>3, <1>6 DEF Serve
<1> QED
  BY <1>1, <1>2, <1>5, <1>7, <1>8

LEMMA ServeShape ==
    ASSUME Shape, NEW c \in Connections, Serve(c)
    PROVE  Shape'
<1>1. /\ c \in serving
      /\ UNCHANGED <<client, opened, closed, serving, history>>
  BY DEF Serve
<1>2. PICK r \in Requests : r = Head(inbox[c])
  BY ServedRequest
<1>3. PICK v \in Values : v = Respond(r, c)
  BY <1>2, ServedRequest
<1>4. PICK a \in Answers :
         outbox' = IF c \in closed THEN outbox ELSE [outbox EXCEPT ![c] = Append(@, a)]
  BY ServedAnswer
<1>5. inbox' \in [Connections -> Seq(Requests)]
      /\ (\A d \in Connections \ {c} : inbox'[d] = inbox[d])
      /\ Len(inbox[c]) \in Nat \ {0} /\ Len(inbox'[c]) = Len(inbox[c]) - 1
  BY ServedRequest
<1>6. /\ outbox' \in [Connections -> Seq(Answers)]
      /\ Len(outbox'[c]) \in {Len(outbox[c]), Len(outbox[c]) + 1}
      /\ \A d \in Connections \ {c} : outbox'[d] = outbox[d]
  <2>1. outbox \in [Connections -> Seq(Answers)] /\ outbox[c] \in Seq(Answers)
    BY DEF Shape, Types, SocketTypes
  <2>2. Append(outbox[c], a) \in Seq(Answers)
        /\ Len(Append(outbox[c], a)) = Len(outbox[c]) + 1
    BY <2>1
  <2> QED
    BY <1>4, <2>1, <2>2
<1>7. SocketTypes'
  BY <1>1, <1>5, <1>6 DEF Shape, Types, SocketTypes
<1>8. \A d \in Connections : Outstanding(d)' <= Outstanding(d)
  <2> SUFFICES ASSUME NEW d \in Connections PROVE Outstanding(d)' <= Outstanding(d)
    OBVIOUS
  <2>1. CASE d = c
    <3>1. PICK m \in Nat \ {0} : m = Len(inbox[c])
      BY <1>5
    <3>2. PICK n \in Nat : n = Len(outbox[c])
      BY SocketFacts
    <3>3. PICK l : l = Len(outbox'[c])
      OBVIOUS
    <3>4. Outstanding(d) = m + n /\ Outstanding(d)' = (m - 1) + l /\ l \in {n, n + 1}
      BY <1>5, <1>6, <2>1, <3>1, <3>2, <3>3 DEF Outstanding
    <3> QED
      BY <3>4
  <2>2. CASE d # c
    <3>1. Outstanding(d)' = Outstanding(d)
      BY <1>5, <1>6, <2>2 DEF Outstanding
    <3> QED
      BY <3>1, OutstandingNat
  <2> QED
    BY <2>1, <2>2
<1>9. Calling' /\ Few'
  BY <1>1, <1>7, <1>8, BridgeKeepsCalling DEF client
<1>10. ClientTypes'
  BY <1>1 DEF Shape, Types, ClientTypes, Told, client
<1>11. HistoryTypes'
  BY <1>1 DEF Shape, Types, HistoryTypes, history
<1>12. Unopened'
  <2>1. ~(c > opened)
    BY <1>1, SocketFacts DEF Shape, Types, BridgeTypes
  <2> SUFFICES ASSUME NEW d \in Connections, d > opened
               PROVE  inbox'[d] = <<>> /\ outbox'[d] = <<>>
    BY <1>1 DEF Unopened
  <2>2. d \in Connections \ {c}
    BY <2>1
  <2> QED
    BY <1>5, <1>6, <2>2 DEF Shape, Unopened
<1>13. BridgeTypes'
  <2>1. serving' \subseteq 1 .. opened' /\ registered' \subseteq serving'
    BY <1>1 DEF Serve, Shape, Types, BridgeTypes
  <2>2. v = "granted" => Len(granted) < MaxLeases
    BY <1>2, <1>3, ServedRequest
  <2>3. granted \in Seq(Connections) /\ Len(granted) \in Nat /\ Len(granted) <= MaxLeases
        /\ holder \in 0 .. MaxLeases
    BY DEF Shape, Types, BridgeTypes
  <2>4. granted' = IF v = "granted" THEN Append(granted, c) ELSE granted
    BY <1>2, <1>3 DEF Serve
  <2>5. granted' \in Seq(Connections) /\ Len(granted') <= MaxLeases
    BY <2>2, <2>3, <2>4, RecoveringConstants
  <2>6. holder' = CASE v = "granted" -> Len(granted) + 1
                    [] v = "released" -> 0
                    [] OTHER -> holder
    BY <1>2, <1>3 DEF Serve
  <2>7. holder' \in 0 .. MaxLeases
    BY <2>2, <2>3, <2>6, RecoveringConstants
  <2>8. queue' \in Seq(Entries) /\ journal' \in [Transactions -> Journalled]
    <3>1. queue \in Seq(Entries) /\ journal \in [Transactions -> Journalled]
      BY DEF Shape, Types, BridgeTypes
    <3>2. CASE r.op = "submit" /\ Admits(r)
      <4>1. r.transaction \in Transactions /\ r.lease \in 0 .. MaxLeases
        BY <3>2 DEF Requests
      <4>2. [transaction |-> r.transaction, lease |-> r.lease, connection |-> c] \in Entries
        BY <4>1 DEF Entries
      <4>3. /\ queue' = Append(queue, [transaction |-> r.transaction, lease |-> r.lease,
                                       connection |-> c])
            /\ journal' = [journal EXCEPT ![r.transaction] = "queued"]
        BY <1>2, <3>2 DEF Serve
      <4> QED
        BY <3>1, <4>1, <4>2, <4>3 DEF Journalled
    <3>3. CASE ~(r.op = "submit" /\ Admits(r))
      BY <1>2, <3>1, <3>3 DEF Serve
    <3> QED
      BY <3>2, <3>3
  <2> QED
    BY <2>1, <2>5, <2>7, <2>8 DEF BridgeTypes
<1> QED
  BY <1>7, <1>9, <1>10, <1>11, <1>12, <1>13 DEF Shape, Types

LEMMA DisconnectShape ==
    ASSUME Shape, NEW c \in Connections, Disconnect(c)
    PROVE  Shape'
<1>1. /\ inbox' = [inbox EXCEPT ![c] = <<>>] /\ serving' = serving \ {c} /\ registered' = registered \ {c}
      /\ UNCHANGED <<client, opened, outbox, closed, granted, history>>
  BY DEF Disconnect
<1>2. inbox' \in [Connections -> Seq(Requests)] /\ inbox'[c] = <<>>
      /\ \A d \in Connections \ {c} : inbox'[d] = inbox[d]
  BY <1>1 DEF Shape, Types, SocketTypes
<1>3. SocketTypes'
  BY <1>1, <1>2 DEF Shape, Types, SocketTypes
<1>4. \A d \in Connections : Outstanding(d)' <= Outstanding(d)
  <2> SUFFICES ASSUME NEW d \in Connections PROVE Outstanding(d)' <= Outstanding(d)
    OBVIOUS
  <2>1. PICK m \in Nat : m = Len(inbox[d])
    BY SocketFacts
  <2>2. PICK n \in Nat : n = Len(outbox[d])
    BY SocketFacts
  <2>3. PICK l \in Nat : l = Len(inbox'[d]) /\ l <= m
    BY <1>2, <2>1
  <2>4. Outstanding(d) = m + n /\ Outstanding(d)' = l + n
    BY <1>1, <2>1, <2>2, <2>3 DEF Outstanding
  <2> QED
    BY <2>3, <2>4
<1>5. Calling' /\ Few'
  BY <1>1, <1>3, <1>4, BridgeKeepsCalling DEF client
<1>6. ClientTypes'
  BY <1>1 DEF Shape, Types, ClientTypes, Told, client
<1>7. HistoryTypes'
  BY <1>1 DEF Shape, Types, HistoryTypes, history
<1>8. Unopened'
  BY <1>1, <1>2 DEF Shape, Unopened
<1>9. BridgeTypes'
  <2>1. queue' \in Seq(Entries)
    BY WithoutProperties DEF Disconnect, Shape, Types, BridgeTypes
  <2>2. journal' \in [Transactions -> Journalled] /\ holder' \in 0 .. MaxLeases
    BY RecoveringConstants DEF Disconnect, Shape, Types, BridgeTypes, Journalled, Finished
  <2> QED
    BY <1>1, <2>1, <2>2 DEF Shape, Types, BridgeTypes
<1> QED
  BY <1>3, <1>5, <1>6, <1>7, <1>8, <1>9 DEF Shape, Types

\* An outcome leaves the journal, or the memory of evicted ones.
Evicts == \E t \in Transactions : Evict(t) \/ Forget(t)

\* The sockets stay as they are.
LEMMA DispatchShape ==
    ASSUME Shape, Dispatch \/ Expire \/ Restart \/ Evicts
    PROVE  Shape'
<1>1. UNCHANGED <<client, sockets, serving, registered, granted, submitted>>
  BY DEF Dispatch, Expire, Restart, Evicts, Evict, Forget, history
<1>2. SocketTypes' /\ Unopened' /\ \A d \in Connections : Outstanding(d)' <= Outstanding(d)
  <2>1. \A d \in Connections : Outstanding(d)' = Outstanding(d)
    BY <1>1 DEF sockets, Outstanding
  <2>2. \A d \in Connections : Outstanding(d)' <= Outstanding(d)
    BY <2>1, OutstandingNat
  <2> QED
    BY <1>1, <2>2 DEF Shape, Types, SocketTypes, Unopened, sockets
<1>3. Calling' /\ Few'
  BY <1>1, <1>2, BridgeKeepsCalling DEF client, sockets
<1>4. ClientTypes'
  BY <1>1 DEF Shape, Types, ClientTypes, Told, client, sockets
<1>5. /\ queue' \in Seq(Entries) /\ journal' \in [Transactions -> Journalled]
      /\ written' \in Seq(Transactions) /\ holder' \in 0 .. MaxLeases
  <2>1. /\ queue \in Seq(Entries) /\ journal \in [Transactions -> Journalled]
        /\ written \in Seq(Transactions) /\ holder \in 0 .. MaxLeases
    BY DEF Shape, Types, BridgeTypes, HistoryTypes
  <2>2. CASE Dispatch
    <3>1. PICK q : q = Head(queue)
      OBVIOUS
    <3>2. q \in Entries /\ Tail(queue) \in Seq(Entries)
      BY <2>1, <2>2, <3>1 DEF Dispatch
    <3>3. q.transaction \in Transactions
      BY <3>2 DEF Entries
    <3>4. queue' = Tail(queue) /\ holder' = holder /\ written' \in {written, Append(written, q.transaction)}
          /\ \E v \in Journalled : journal' = [journal EXCEPT ![q.transaction] = v]
      BY <2>2, <3>1 DEF Dispatch, Journalled, Finished
    <3>5. Append(written, q.transaction) \in Seq(Transactions)
      BY <2>1, <3>3
    <3>6. journal' \in [Transactions -> Journalled]
      BY <2>1, <3>4
    <3> QED
      BY <2>1, <3>2, <3>4, <3>5, <3>6
  <2>3. CASE Expire \/ Restart
    BY <2>1, <2>3, RecoveringConstants DEF Expire, Restart, history
  <2>4. CASE Evicts
    <3>1. UNCHANGED <<queue, written, holder>>
      BY <2>4 DEF Evicts, Evict, Forget, history
    <3>2. \E t \in Transactions, v \in Journalled : journal' = [journal EXCEPT ![t] = v]
      BY <2>4 DEF Evicts, Evict, Forget, Journalled
    <3> QED
      BY <2>1, <3>1, <3>2
  <2> QED
    BY <2>2, <2>3, <2>4
<1>6. BridgeTypes'
  BY <1>1, <1>5 DEF Shape, Types, BridgeTypes, sockets
<1>7. HistoryTypes'
  BY <1>1, <1>5 DEF Shape, Types, HistoryTypes
<1> QED
  BY <1>2, <1>3, <1>4, <1>6, <1>7 DEF Shape, Types

LEMMA CrashShape ==
    ASSUME Shape, Crash
    PROVE  Shape'
<1>1. /\ inbox' = [c \in Connections |-> <<>>]
      /\ UNCHANGED <<client, opened, outbox, closed, granted, submitted, written>>
  BY DEF Crash
<1>2. SocketTypes' /\ Unopened'
  BY <1>1 DEF Shape, Types, SocketTypes, Unopened
<1>3. \A d \in Connections : Outstanding(d)' <= Outstanding(d)
  <2> SUFFICES ASSUME NEW d \in Connections PROVE Outstanding(d)' <= Outstanding(d)
    OBVIOUS
  <2>1. PICK m \in Nat : m = Len(inbox[d])
    BY SocketFacts
  <2>2. PICK n \in Nat : n = Len(outbox[d])
    BY SocketFacts
  <2>3. Outstanding(d) = m + n /\ Outstanding(d)' = 0 + n
    BY <1>1, <2>1, <2>2 DEF Outstanding
  <2> QED
    BY <2>3
<1>4. Calling' /\ Few'
  BY <1>1, <1>2, <1>3, BridgeKeepsCalling DEF client
<1>5. ClientTypes'
  BY <1>1 DEF Shape, Types, ClientTypes, Told, client
<1>6. BridgeTypes'
  <2>1. journal' \in [Transactions -> Journalled] /\ queue' \in Seq(Entries)
    BY DEF Crash, Journalled
  <2> QED
    BY <1>1, <2>1, RecoveringConstants DEF Crash, Shape, Types, BridgeTypes
<1>7. HistoryTypes'
  BY <1>1 DEF Shape, Types, HistoryTypes
<1> QED
  BY <1>2, <1>4, <1>5, <1>6, <1>7 DEF Shape, Types

\* Shape is inductive.
LEMMA NextShape == Shape /\ [Next]_vars => Shape'
<1> SUFFICES ASSUME Shape, [Next]_vars PROVE Shape'
  OBVIOUS
<1>1. CASE UNCHANGED vars
  <2>1. UNCHANGED <<clientIdle, call, session>>
    BY <1>1 DEF vars, client, clientIdle
  <2>2. Calling'
    BY <2>1 DEF Shape, Calling, Locked, Roles, CallShape, Placed, Outstanding, Others,
                clientIdle, sockets
  <2>3. session' \in [lease : 0 .. MaxLeases, epoch : 0 .. MaxEpoch]
    BY <2>1 DEF Shape, Types, ClientTypes
  <2> QED
    BY <2>1, <2>2, <2>3, QuietShape
<1>2. CASE Next
  BY <1>2, MethodShape, FailureShape, SendShape, DrawIdShape, ReceiveShape,
     ConnectFailureShape, CloseShape, ConnectShape, NegotiatedShape, ServeShape,
     DisconnectShape, DispatchShape, CrashShape DEF Next, Exchange, Evicts
<1> QED
  BY <1>1, <1>2

LEMMA ShapeHolds == Spec => []Shape
<1>1. Init => Shape
  BY InitShape
<1>2. Shape /\ [Next]_vars => Shape'
  BY NextShape
<1> QED
  BY <1>1, <1>2, PTL DEF Spec

\* The fields of the client, the sockets and the bridge keep their types and at
\* most one thread is inside the client, reconnects included (recovery.py's
\* lock): for every bound.
THEOREM TypeCorrect == Spec => []TypeOK
<1>1. Shape => TypeOK
  <2> SUFFICES ASSUME Shape PROVE TypeOK
    OBVIOUS
  <2>1. 0 .. MaxTransactions = {0} \union Transactions
    BY RecoveringConstants DEF Transactions
  <2>2. \A t, u \in Threads : call[t].stage \notin Unlocked /\ call[u].stage \notin Unlocked => t = u
    BY DEF Shape, Calling, Locked
  <2>3. call \in [Threads -> [op : Ops, stage : Unlocked \union FirstTry \union Retry,
                              lease : 0 .. MaxLeases, transaction : {0} \union Transactions,
                              id : 0 .. 2]]
    BY <2>1 DEF Shape, Calling, Calls, Stages
  <2>4. \A c \in Connections : Len(inbox[c]) + Len(outbox[c]) <= 3
    <3>1. \A c \in Connections : Outstanding(c) <= 3
      BY OutstandingNat DEF Shape, Few
    <3> QED
      BY <3>1 DEF Outstanding
  <2>5. /\ connection \in 0 .. opened /\ epoch \in 0 .. MaxEpoch
        /\ session \in [lease : 0 .. MaxLeases, epoch : 0 .. MaxEpoch]
        /\ drawn \in {0} \union Transactions
        /\ opened \in 0 .. MaxConnections /\ closed \subseteq 1 .. opened
    BY <2>1 DEF Shape, Types, ClientTypes, SocketTypes
  <2>6. /\ serving \subseteq 1 .. opened /\ registered \subseteq serving
        /\ holder \in 0 .. MaxLeases
        /\ granted \in Seq(Connections) /\ Len(granted) <= MaxLeases
    BY DEF Shape, Types, BridgeTypes
  <2> QED
    BY <2>2, <2>3, <2>4, <2>5, <2>6 DEF TypeOK
<1> QED
  BY <1>1, ShapeHolds, PTL

---------------------------------------------------------------------------
(***************************************************************************)
(* Sessions.                                                               *)
(***************************************************************************)
\* The steps of the client that put nothing on a socket.
ClientStep ==
    \/ \E t \in Threads :
          \/ ConnectRefused(t) \/ Negotiated(t) \/ NegotiationLost(t) \/ SendFails(t)
          \/ DrawId(t) \/ Receive(t) \/ GiveUp(t) \/ Read(t)
    \/ Close \/ Acquire \/ Construct \/ Proceed \/ Submit
    \/ \E op \in {"renew", "release", "next"} : Check(op)
    \/ \E t \in Transactions : Outcome(t)

\* No answer appears.
OutboxShrinks ==
    \A c \in Connections : \A i \in 1 .. Len(outbox'[c]) :
       \E j \in 1 .. Len(outbox[c]) : outbox'[c][i] = outbox[c][j]

LEMMA NextSplits ==
    ASSUME Next
    PROVE  \/ ClientStep
           \/ \E t \in Threads : Connect(t) \/ Send(t)
           \/ \E c \in Connections : Serve(c) \/ Disconnect(c)
           \/ Dispatch \/ Expire \/ Crash \/ Restart \/ Evicts
  BY DEF Next, Exchange, ClientStep, Evicts

\* Reading an answer, or dropping some, leaves answers that were there.
LEMMA PoppedShrinks ==
    ASSUME Shape, NEW c \in Connections, outbox[c] # <<>>,
           outbox' = [outbox EXCEPT ![c] = Tail(@)], inbox' = inbox
    PROVE  OutboxShrinks
<1> SUFFICES ASSUME NEW d \in Connections, NEW i \in 1 .. Len(outbox'[d])
             PROVE  \E j \in 1 .. Len(outbox[d]) : outbox'[d][i] = outbox[d][j]
  BY DEF OutboxShrinks
<1>1. CASE d = c
  BY <1>1, Popped
<1>2. CASE d # c
  BY <1>2, Popped
<1> QED
  BY <1>1, <1>2

LEMMA DroppedShrinks ==
    ASSUME \A d \in Connections : outbox'[d] = <<>> \/ outbox'[d] = outbox[d]
    PROVE  OutboxShrinks
<1> SUFFICES ASSUME NEW d \in Connections, NEW i \in 1 .. Len(outbox'[d])
             PROVE  \E j \in 1 .. Len(outbox[d]) : outbox'[d][i] = outbox[d][j]
  BY DEF OutboxShrinks
<1>1. outbox'[d] # <<>>
  OBVIOUS
<1> QED
  BY <1>1

\* The client only reads answers and drops them, and the connection it turns to is
\* one whose first request was answered "ok".
LEMMA ClientStepFacts ==
    ASSUME Shape, ClientStep
    PROVE  /\ inbox' = inbox /\ UNCHANGED <<bridge, opened, submitted, written, reused, lost>>
           /\ OutboxShrinks
           /\ \/ connection' \in {0, connection}
              \/ /\ connection' = opened /\ opened \in Connections
                 /\ 1 \in 1 .. Len(outbox[opened]) /\ outbox[opened][1].value = "ok"
<1>1. inbox' = inbox /\ UNCHANGED <<bridge, opened, submitted, written, reused, lost>>
  BY DEF ClientStep, ConnectRefused, Negotiated, NegotiationLost, SendFails, DrawId, Receive,
         GiveUp, Read, Close, Acquire, Construct, Proceed, Submit, Check, Outcome, clientIdle,
         sockets, history
<1>2. CASE UNCHANGED <<connection, outbox>>
  <2>1. \A d \in Connections : outbox'[d] = outbox[d]
    BY <1>2
  <2> QED
    BY <1>1, <1>2, <2>1, DroppedShrinks
<1>3. ASSUME NEW t \in Threads, SendFails(t) \/ DrawId(t) \/ GiveUp(t) \/ Read(t)
      PROVE  UNCHANGED <<connection, outbox>>
  BY <1>3 DEF SendFails, DrawId, GiveUp, Read, clientIdle, sockets
<1>4. ASSUME \/ Acquire \/ Construct \/ Proceed \/ Submit
             \/ \E op \in {"renew", "release", "next"} : Check(op)
             \/ \E t \in Transactions : Outcome(t)
      PROVE  UNCHANGED <<connection, outbox>>
  BY <1>4 DEF Acquire, Construct, Proceed, Submit, Check, Outcome, clientIdle, sockets
<1>5. ASSUME NEW t \in Threads, ConnectRefused(t)
      PROVE  OutboxShrinks /\ connection' = 0
  <2>1. outbox' = Unread(connection) /\ connection' = 0
    BY <1>5 DEF ConnectRefused, Advance
  <2> QED
    BY <2>1, Discarded, DroppedShrinks
<1>6. ASSUME Close PROVE OutboxShrinks /\ connection' = 0
  <2>1. outbox' = Unread(connection) /\ connection' = 0
    BY <1>6 DEF Close, Advance
  <2> QED
    BY <2>1, Discarded, DroppedShrinks
<1>7. ASSUME NEW t \in Threads, NegotiationLost(t)
      PROVE  OutboxShrinks /\ connection' = connection
  <2>1. outbox' = Unread(opened) /\ connection' = connection
    BY <1>7 DEF NegotiationLost
  <2> QED
    BY <2>1, Discarded, DroppedShrinks
<1>8. ASSUME NEW t \in Threads, Receive(t)
      PROVE  OutboxShrinks /\ connection' = connection
  <2>1. /\ call[t].stage \in {"await", "reawait"} /\ outbox[connection] # <<>>
        /\ outbox' = [outbox EXCEPT ![connection] = Tail(@)] /\ connection' = connection
    BY <1>8 DEF Receive
  <2>2. connection \in Connections
    <3>1. Placed(call[t])
      BY <2>1, InsideAlone DEF Unlocked
    <3> QED
      BY <2>1, <3>1, SocketFacts DEF Placed
  <2>3. PICK c \in Connections : c = connection
    BY <2>2
  <2> QED
    BY <1>1, <2>1, <2>3, PoppedShrinks
<1>9. ASSUME NEW t \in Threads, Negotiated(t)
      PROVE  /\ OutboxShrinks
             /\ \/ connection' = connection
                \/ /\ connection' = opened /\ opened \in Connections
                   /\ 1 \in 1 .. Len(outbox[opened]) /\ outbox[opened][1].value = "ok"
  <2>1. PICK c : c = opened
    OBVIOUS
  <2>2. /\ call[t].stage \in {"negotiate", "renegotiate"} /\ outbox[c] # <<>>
        /\ outbox' = [outbox EXCEPT ![c] = Tail(@)]
        /\ \/ connection' = connection
           \/ connection' = c /\ Head(outbox[c]).value = "ok"
    BY <1>9, <2>1 DEF Negotiated
  <2>3. c \in Connections
    <3>1. Placed(call[t])
      BY <2>2, InsideAlone DEF Unlocked
    <3> QED
      BY <2>1, <2>2, <3>1, SocketFacts DEF Placed
  <2>4. 1 \in 1 .. Len(outbox[c]) /\ Head(outbox[c]) = outbox[c][1]
    BY <2>2, <2>3, SocketFacts
  <2> QED
    BY <1>1, <2>1, <2>2, <2>3, <2>4, PoppedShrinks
<1> QED
  BY <1>1, <1>2, <1>3, <1>4, <1>5, <1>6, <1>7, <1>8, <1>9 DEF ClientStep

\* The bridge's sessions and leases do not move and no answer appears.
LEMMA QuietSessions ==
    ASSUME Shape, Sessions, OutboxShrinks, inbox' = inbox,
           UNCHANGED <<serving, registered, granted>>, holder' \in {0, holder},
           connection' \in serving => connection' \in registered
    PROVE  Sessions'
<1>1. Registration'
  <2>1. \A c \in serving : \A i \in 1 .. Len(outbox'[c]) :
           outbox'[c][i].value = "ok" => c \in registered
    <3>1. serving \subseteq Connections
      BY SocketFacts, RecoveringConstants
         DEF Shape, Types, BridgeTypes, SocketTypes, Connections
    <3> QED
      BY <3>1 DEF Sessions, Registration, OutboxShrinks
  <2> QED
    BY <2>1 DEF Sessions, Registration
<1>2. Leased'
  <2>1. holder' \in 0 .. Len(granted') /\ (holder' # 0 => granted'[holder'] \in registered')
    BY DEF Sessions, Leased, Shape, Types, BridgeTypes
  <2>2. \A c \in Connections : \A i \in 1 .. Len(outbox'[c]) :
           outbox'[c][i].value = "granted" =>
              /\ outbox'[c][i].about.lease \in 1 .. Len(granted)
              /\ granted[outbox'[c][i].about.lease] = c
    <3> SUFFICES ASSUME NEW c \in Connections, NEW i \in 1 .. Len(outbox'[c]),
                        outbox'[c][i].value = "granted"
                 PROVE  /\ outbox'[c][i].about.lease \in 1 .. Len(granted)
                        /\ granted[outbox'[c][i].about.lease] = c
      OBVIOUS
    <3>1. PICK j \in 1 .. Len(outbox[c]) : outbox'[c][i] = outbox[c][j]
      BY Zenon DEF OutboxShrinks
    <3>2. outbox[c][j].value = "granted" =>
             /\ outbox[c][j].about.lease \in 1 .. Len(granted)
             /\ granted[outbox[c][j].about.lease] = c
      BY Zenon DEF Sessions, Leased
    <3> QED
      BY <3>1, <3>2, Zenon
  <2> QED
    BY <2>1, <2>2 DEF Leased
<1> QED
  BY <1>1, <1>2 DEF Sessions

LEMMA ClientSessions ==
    ASSUME Shape, Sessions, ClientStep
    PROVE  Sessions'
<1>1. /\ inbox' = inbox /\ UNCHANGED <<serving, registered, granted, holder>>
      /\ OutboxShrinks
      /\ \/ connection' \in {0, connection}
         \/ /\ connection' = opened /\ opened \in Connections
            /\ 1 \in 1 .. Len(outbox[opened]) /\ outbox[opened][1].value = "ok"
  BY ClientStepFacts DEF bridge
<1>2. connection' \in serving => connection' \in registered
  <2>1. 0 \notin serving
    BY SocketFacts DEF Shape, Types, BridgeTypes
  <2> QED
    BY <1>1, <2>1 DEF Sessions, Registration
<1> QED
  BY <1>1, <1>2, QuietSessions

LEMMA ConnectSessions ==
    ASSUME Shape, Sessions, NEW t \in Threads, Connect(t)
    PROVE  Sessions'
<1>1. PICK c : c = opened + 1
  OBVIOUS
<1>2. /\ opened < MaxConnections /\ Advance(t) /\ outbox' = Unread(connection) /\ connection' = 0
      /\ inbox' = [inbox EXCEPT ![c] = <<Request("negotiate", 0, 0, 0)>>]
      /\ serving' = serving \union {c}
      /\ UNCHANGED <<registered, holder, granted>>
  BY <1>1 DEF Connect, Advance
<1>3. c \in Connections /\ opened \in Nat /\ c > opened
  BY <1>1, <1>2, SocketFacts, RecoveringConstants DEF Connections
<1>4. serving \subseteq 1 .. opened /\ c \notin serving /\ 0 \notin serving'
      /\ serving \subseteq Connections
  BY <1>1, <1>2, <1>3, RecoveringConstants DEF Shape, Types, BridgeTypes, Connections
<1>5. /\ \A d \in Connections : outbox'[d] = <<>> \/ outbox'[d] = outbox[d]
      /\ OutboxShrinks
  BY <1>2, Discarded, DroppedShrinks
<1>6. outbox'[c] = <<>> /\ Len(<<>>) = 0
  BY <1>3, <1>5 DEF Shape, Unopened
<1>7. inbox'[c] = <<Request("negotiate", 0, 0, 0)>> /\ \A d \in Connections \ {c} : inbox'[d] = inbox[d]
  BY <1>2, <1>3 DEF Shape, Types, SocketTypes
<1>8. Registration'
  <2>1. ASSUME NEW d \in serving', NEW i \in 1 .. Len(inbox'[d]), inbox'[d][i].op # "negotiate"
        PROVE  d \in registered
    <3>1. CASE d = c
      <4>1. inbox'[d][i] = Request("negotiate", 0, 0, 0)
        BY <1>7, <3>1
      <4> QED
        BY <2>1, <4>1 DEF Request
    <3>2. CASE d # c
      BY <1>2, <1>4, <1>7, <2>1, <3>2 DEF Sessions, Registration
    <3> QED
      BY <3>1, <3>2
  <2>2. ASSUME NEW d \in serving', NEW i \in 1 .. Len(outbox'[d]), outbox'[d][i].value = "ok"
        PROVE  d \in registered
    <3>1. d # c
      BY <1>6, <2>2
    <3>2. d \in serving /\ d \in Connections
      BY <1>2, <1>4, <2>2, <3>1
    <3>3. PICK j \in 1 .. Len(outbox[d]) : outbox'[d][i] = outbox[d][j]
      BY <1>5, <3>2 DEF OutboxShrinks
    <3> QED
      BY <2>2, <3>2, <3>3 DEF Sessions, Registration
  <2> QED
    BY <1>2, <1>4, <2>1, <2>2 DEF Sessions, Registration
<1>9. Leased'
  <2>1. OutboxShrinks
    BY <1>5
  <2>2. \A d \in Connections : \A i \in 1 .. Len(outbox'[d]) :
           outbox'[d][i].value = "granted" =>
              /\ outbox'[d][i].about.lease \in 1 .. Len(granted)
              /\ granted[outbox'[d][i].about.lease] = d
    BY <2>1 DEF Sessions, Leased, OutboxShrinks
  <2> QED
    BY <1>2, <2>2 DEF Sessions, Leased
<1> QED
  BY <1>8, <1>9 DEF Sessions

LEMMA SendSessions ==
    ASSUME Shape, Sessions, NEW t \in Threads, Send(t)
    PROVE  Sessions'
<1>1. PICK r : r = Request(Method(call[t]), NextId(connection),
                           IF Method(call[t]) = "lookup" THEN 0 ELSE call[t].lease,
                           call[t].transaction)
  OBVIOUS
<1>2. /\ call[t].stage \in {"send", "resend"} /\ call[t].op # "next"
      /\ UNCHANGED <<connection, outbox, bridge>>
      /\ inbox' = IF connection \in serving
                  THEN [inbox EXCEPT ![connection] = Append(@, r)] ELSE inbox
  BY <1>1 DEF Send
<1>3. connection # 0 /\ connection \in Connections
  BY <1>2, SentRequest, SocketFacts
<1>4. \A d \in Connections : \A i \in 1 .. Len(inbox'[d]) :
         \/ i \in 1 .. Len(inbox[d]) /\ inbox'[d][i] = inbox[d][i]
         \/ d = connection /\ connection \in serving
  <2>1. inbox \in [Connections -> Seq(Requests)]
    BY DEF Shape, Types, SocketTypes
  <2> QED
    BY <1>2, <1>3, <2>1
<1>5. serving \subseteq Connections
  BY SocketFacts, RecoveringConstants DEF Shape, Types, BridgeTypes, SocketTypes, Connections
<1>6. Registration'
  BY <1>2, <1>4, <1>5 DEF Sessions, Registration, bridge
<1>7. Leased'
  BY <1>2 DEF Sessions, Leased, bridge
<1> QED
  BY <1>6, <1>7 DEF Sessions

LEMMA ServeSessions ==
    ASSUME Shape, Sessions, NEW c \in Connections, Serve(c)
    PROVE  Sessions'
<1>1. c \in serving /\ UNCHANGED <<connection, serving>>
  BY DEF Serve, client
<1>2. PICK r \in Requests : r = Head(inbox[c]) /\ r = inbox[c][1]
  BY ServedRequest
<1>3. PICK v \in Values : v = Respond(r, c)
  BY <1>2, ServedRequest
<1>4. /\ registered' = IF v = "ok" /\ r.op = "negotiate" THEN registered \union {c} ELSE registered
      /\ granted' = IF v = "granted" THEN Append(granted, c) ELSE granted
      /\ holder' = CASE v = "granted" -> Len(granted) + 1
                     [] v = "released" -> 0
                     [] OTHER -> holder
  BY <1>2, <1>3 DEF Serve
<1>5. PICK a \in Answers :
         /\ a.value = v
         /\ a.about.lease = IF a.value = "granted" THEN Len(granted) + 1 ELSE r.lease
         /\ outbox' = IF c \in closed THEN outbox ELSE [outbox EXCEPT ![c] = Append(@, a)]
  BY <1>2, <1>3, ServedAnswer
<1>6. \A d \in Connections : \A i \in 1 .. Len(inbox'[d]) :
         \E j \in 1 .. Len(inbox[d]) : inbox'[d][i] = inbox[d][j]
  <2> SUFFICES ASSUME NEW d \in Connections, NEW i \in 1 .. Len(inbox'[d])
               PROVE  \E j \in 1 .. Len(inbox[d]) : inbox'[d][i] = inbox[d][j]
    OBVIOUS
  <2>1. CASE d = c
    BY <2>1, ServedRequest
  <2>2. CASE d # c
    BY <2>2, ServedRequest
  <2> QED
    BY <2>1, <2>2
<1>7. \A d \in Connections : \A i \in 1 .. Len(outbox'[d]) :
         \/ i \in 1 .. Len(outbox[d]) /\ outbox'[d][i] = outbox[d][i]
         \/ d = c /\ outbox'[d][i] = a
  <2>1. outbox \in [Connections -> Seq(Answers)]
    BY DEF Shape, Types, SocketTypes
  <2> QED
    BY <1>5, <2>1
<1>8. /\ r.op # "negotiate" => c \in registered
      /\ v = "ok" => c \in registered'
      /\ v = "granted" => c \in registered
      /\ v = "ok" /\ r.op = "negotiate" => registered = {}
  <2>1. 1 \in 1 .. Len(inbox[c])
    BY ServedRequest
  <2>2. r.op # "negotiate" => c \in registered
    BY <1>1, <1>2, <2>1 DEF Sessions, Registration
  <2>3. v = "granted" => r.op = "acquire"
    BY <1>2, <1>3, ServedRequest
  <2>4. v = "ok" /\ r.op = "negotiate" => registered = {}
    BY <1>3 DEF Respond, Registers
  <2> QED
    BY <1>4, <2>2, <2>3, <2>4
<1>9. serving \subseteq Connections
  BY SocketFacts, RecoveringConstants DEF Shape, Types, BridgeTypes, SocketTypes, Connections
<1>10. registered \subseteq registered' /\ \A d, e \in registered' : d = e
  BY <1>4, <1>8 DEF Sessions, Registration
<1>11. Registration'
  <2>1. \A d \in serving' : \A i \in 1 .. Len(inbox'[d]) :
           inbox'[d][i].op # "negotiate" => d \in registered'
    BY <1>1, <1>6, <1>9, <1>10 DEF Sessions, Registration
  <2>2. \A d \in serving' : \A i \in 1 .. Len(outbox'[d]) :
           outbox'[d][i].value = "ok" => d \in registered'
    BY <1>1, <1>5, <1>7, <1>8, <1>9, <1>10 DEF Sessions, Registration
  <2> QED
    BY <1>1, <1>10, <2>1, <2>2 DEF Sessions, Registration
<1>12. Leased'
  <2>1. granted \in Seq(Connections) /\ Len(granted) \in Nat /\ holder \in 0 .. Len(granted)
    BY DEF Shape, Types, BridgeTypes, Sessions, Leased
  <2>2. /\ Len(granted') = IF v = "granted" THEN Len(granted) + 1 ELSE Len(granted)
        /\ \A i \in 1 .. Len(granted) : i \in 1 .. Len(granted') /\ granted'[i] = granted[i]
        /\ v = "granted" => granted'[Len(granted) + 1] = c
    BY <1>4, <2>1
  <2>3. holder' \in 0 .. Len(granted') /\ (holder' # 0 => granted'[holder'] \in registered')
    <3>1. CASE v = "granted"
      BY <1>4, <1>8, <1>10, <2>1, <2>2, <3>1
    <3>2. CASE v # "granted"
      <4>1. holder' \in {0, holder} /\ granted' = granted
        BY <1>4, <3>2
      <4> QED
        BY <1>10, <2>1, <4>1 DEF Sessions, Leased
    <3> QED
      BY <3>1, <3>2
  <2>4. ASSUME NEW d \in Connections, NEW i \in 1 .. Len(outbox'[d]), outbox'[d][i].value = "granted"
        PROVE  /\ outbox'[d][i].about.lease \in 1 .. Len(granted')
               /\ granted'[outbox'[d][i].about.lease] = d
    <3>1. CASE i \in 1 .. Len(outbox[d]) /\ outbox'[d][i] = outbox[d][i]
      <4>1. outbox[d][i].about.lease \in 1 .. Len(granted) /\ granted[outbox[d][i].about.lease] = d
        BY <2>4, <3>1 DEF Sessions, Leased
      <4> QED
        BY <2>2, <3>1, <4>1
    <3>2. CASE d = c /\ outbox'[d][i] = a
      BY <1>5, <2>1, <2>2, <2>4, <3>2
    <3> QED
      BY <1>7, <3>1, <3>2
  <2> QED
    BY <2>3, <2>4 DEF Leased
<1> QED
  BY <1>11, <1>12 DEF Sessions

LEMMA DisconnectSessions ==
    ASSUME Shape, Sessions, NEW c \in Connections, Disconnect(c)
    PROVE  Sessions'
<1>1. /\ inbox' = [inbox EXCEPT ![c] = <<>>] /\ serving' = serving \ {c} /\ registered' = registered \ {c}
      /\ UNCHANGED <<connection, outbox, granted>>
      /\ holder' = IF c \in registered THEN 0 ELSE holder
  BY DEF Disconnect, client
<1>2. \A d \in Connections \ {c} : inbox'[d] = inbox[d]
  BY <1>1 DEF Shape, Types, SocketTypes
<1>3. serving \subseteq Connections
  BY SocketFacts, RecoveringConstants DEF Shape, Types, BridgeTypes, SocketTypes, Connections
<1>4. Registration'
  BY <1>1, <1>2, <1>3 DEF Sessions, Registration
<1>5. Leased'
  BY <1>1 DEF Sessions, Leased, Shape, Types, BridgeTypes
<1> QED
  BY <1>4, <1>5 DEF Sessions

\* Sessions is inductive with Shape.
LEMMA NextSessions == Shape /\ Sessions /\ [Next]_vars => Sessions'
<1> SUFFICES ASSUME Shape, Sessions, [Next]_vars PROVE Sessions'
  OBVIOUS
<1>1. CASE UNCHANGED vars \/ Dispatch \/ Expire \/ Restart \/ Evicts
  <2>1. /\ UNCHANGED <<inbox, outbox, serving, registered, granted, connection>>
        /\ holder' \in {0, holder}
    BY <1>1 DEF vars, client, sockets, bridge, Dispatch, Expire, Restart, Evicts, Evict, Forget
  <2>2. OutboxShrinks
    BY <2>1, DroppedShrinks
  <2>3. connection' \in serving => connection' \in registered
    BY <2>1 DEF Sessions, Registration
  <2> QED
    BY <2>1, <2>2, <2>3, QuietSessions
<1>2. CASE Crash
  <2>1. /\ serving' = {} /\ registered' = {} /\ holder' = 0 /\ UNCHANGED <<outbox, granted>>
    BY <1>2 DEF Crash
  <2>2. Leased'
    BY <2>1 DEF Sessions, Leased, Shape, Types, BridgeTypes
  <2> QED
    BY <2>1, <2>2 DEF Sessions, Registration
<1>3. CASE Next
  BY <1>1, <1>2, <1>3, NextSplits, ClientSessions, ConnectSessions, SendSessions, ServeSessions,
     DisconnectSessions
<1> QED
  BY <1>1, <1>3

LEMMA SessionsHold == Spec => [](Shape /\ Sessions)
<1>1. Init => Shape /\ Sessions
  BY InitShape DEF Init, Sessions, Registration, Leased
<1>2. Shape /\ Sessions /\ [Next]_vars => (Shape /\ Sessions)'
  BY NextShape, NextSessions
<1> QED
  BY <1>1, <1>2, PTL DEF Spec

\* The lease the bridge holds for this client is that of its one registered
\* session: a late disconnect of an earlier connection (Registry::revoke releasing
\* by client) never takes it.
THEOREM LeaseOfLiveSessionHolds == Spec => []LeaseOfLiveSession
<1>1. Sessions => LeaseOfLiveSession
  BY DEF Sessions, Registration, Leased, LeaseOfLiveSession
<1> QED
  BY <1>1, SessionsHold, PTL

---------------------------------------------------------------------------
(***************************************************************************)
(* Epochs.                                                                 *)
(***************************************************************************)
\* A thread moves: the connection stays, or is dropped with its epoch, or is taken
\* up where there was none.
LEMMA ThreadEpochs ==
    ASSUME Shape, Epochs, NEW t \in Threads, NEW k, Others(t),
           call' = [call EXCEPT ![t] = k], granted' = granted, session' \in {NoSession, session},
           \/ k.lease = 0
           \/ t = "app" /\ k.lease \in 0 .. Len(granted) /\ (~overtaken => CallLease(k)'),
           \/ UNCHANGED <<connection, epoch, overtaken>>
           \/ Advance(t)
           \/ connection = 0 /\ UNCHANGED <<epoch, overtaken>>,
           reused' => overtaken'
    PROVE  Epochs'
<1>1. /\ granted \in Seq(Connections) /\ Len(granted) \in Nat /\ epoch \in Nat
      /\ session.lease \in 0 .. Len(granted) /\ session.epoch \in Nat /\ session.epoch <= epoch
      /\ call \in [Threads -> Calls] /\ 0 \notin Connections
      /\ \A i \in 1 .. Len(granted) : granted[i] # 0
  <2>1. granted \in Seq(Connections) /\ Len(granted) \in Nat /\ 0 \notin Connections
    BY DEF Shape, Types, BridgeTypes, Connections
  <2>2. \A i \in 1 .. Len(granted) : granted[i] # 0
    BY <2>1
  <2>3. epoch \in Nat /\ session.epoch \in Nat /\ call \in [Threads -> Calls]
    BY DEF Shape, Types, ClientTypes, Calling
  <2> QED
    BY <2>1, <2>2, <2>3 DEF Epochs
<1>2. session'.lease \in 0 .. Len(granted') /\ session'.epoch <= epoch'
  <2>1. epoch' \in {epoch, epoch + 1}
    BY DEF Advance
  <2> QED
    BY <1>1, <2>1 DEF NoSession
<1>3. /\ \A u \in Threads : call'[u].lease \in 0 .. Len(granted')
      /\ call'["aux"].lease = 0
  <2>1. call'[t] = k /\ \A u \in Threads \ {t} : call'[u] = call[u]
    BY <1>1
  <2>2. "aux" \in Threads
    BY DEF Threads
  <2> QED
    BY <1>1, <2>1, <2>2 DEF Epochs
<1>4. ASSUME ~overtaken' PROVE ~overtaken
  BY <1>4 DEF Advance
<1>5. ASSUME ~overtaken' PROVE SessionLease'
  <2>1. session' = NoSession => SessionLease'
    BY DEF SessionLease, NoSession
  <2>2. SessionLease
    BY <1>4, <1>5 DEF Epochs
  <2>3. ASSUME session' = session, UNCHANGED <<connection, epoch, overtaken>> PROVE SessionLease'
    BY <2>2, <2>3 DEF SessionLease
  <2>4. ASSUME session' = session, Advance(t) PROVE SessionLease'
    BY <1>1, <2>4 DEF SessionLease, Advance
  <2>5. ASSUME session' = session, connection = 0, epoch' = epoch PROVE SessionLease'
    BY <1>1, <2>2, <2>5 DEF SessionLease
  <2> QED
    BY <2>1, <2>3, <2>4, <2>5
<1>6. ASSUME ~overtaken' PROVE CallLease(call["app"])'
  <2>1. CASE t = "app"
    <3>1. call'["app"] = k
      BY <1>1, <2>1
    <3>2. k.lease = 0 \/ CallLease(k)'
      BY <1>4, <1>6
    <3> QED
      BY <3>1, <3>2 DEF CallLease
  <2>2. CASE t = "aux"
    <3>1. call'["app"] = call["app"] /\ CallLease(call["app"])
      BY <1>1, <1>4, <1>6, <2>2 DEF Threads, Epochs
    <3>2. CASE UNCHANGED <<connection, epoch, overtaken>>
      BY <3>1, <3>2 DEF CallLease
    <3>3. CASE Advance(t)
      <4>1. call["app"].stage = "idle"
        BY <1>6, <2>2, <3>3 DEF Advance
      <4>2. call["app"].lease = 0
        BY <4>1 DEF Shape, Calling, Roles, CallShape, Idle
      <4> QED
        BY <3>1, <4>2 DEF CallLease
    <3>4. CASE connection = 0 /\ UNCHANGED <<epoch, overtaken>>
      <4>1. call["app"].stage \in Unlocked /\ call["app"].lease \in 0 .. Len(granted)
        BY <2>2 DEF Others, Threads, Epochs
      <4>2. call["app"].stage = "idle" => call["app"].lease = 0
        BY DEF Shape, Calling, Roles, CallShape, Idle
      <4>3. call["app"].lease = 0
        BY <1>1, <3>1, <3>4, <4>1, <4>2 DEF CallLease, Unlocked
      <4> QED
        BY <3>1, <4>3 DEF CallLease
    <3> QED
      BY <3>2, <3>3, <3>4
  <2> QED
    BY <2>1, <2>2 DEF Threads
<1> QED
  BY <1>2, <1>3, <1>5, <1>6 DEF Epochs

LEMMA ReturnEpochs ==
    ASSUME Shape, Epochs, NEW t \in Threads, NEW v, Others(t), Return(t, v),
           UNCHANGED <<granted, reused>>,
           \/ UNCHANGED <<connection, epoch, overtaken>>
           \/ Advance(t)
           \/ connection = 0 /\ UNCHANGED <<epoch, overtaken>>
    PROVE  Epochs'
<1>1. PICK k : k = Idle
  OBVIOUS
<1>2. k.lease = 0 /\ call' = [call EXCEPT ![t] = k] /\ session' \in {NoSession, session}
  BY <1>1 DEF Return, Idle
<1>3. reused' => overtaken'
  BY DEF Epochs, Advance
<1> QED
  BY <1>2, <1>3, ThreadEpochs

LEMMA FailureEpochs ==
    ASSUME Shape, Epochs, NEW t \in Threads, call[t].stage \notin Unlocked, ExchangeFails(t),
           UNCHANGED <<connection, epoch, granted, reused, overtaken>>
    PROVE  Epochs'
<1>1. Others(t) /\ call[t] \in Calls
  BY InsideAlone
<1>2. CASE call[t].stage \in FirstTry
  <2>1. PICK k : k = [call[t] EXCEPT !.stage = "reconnect"]
    OBVIOUS
  <2>2. /\ call' = [call EXCEPT ![t] = k] /\ k.lease = call[t].lease /\ k.stage = "reconnect"
        /\ session' = session
    BY <1>1, <1>2, <2>1 DEF Calls, ExchangeFails
  <2>3. CallLease(k)'
    BY <2>2 DEF CallLease
  <2>4. k.lease = 0 \/ (t = "app" /\ k.lease \in 0 .. Len(granted))
    BY <2>2 DEF Epochs, Threads
  <2>5. reused' => overtaken'
    BY DEF Epochs
  <2> QED
    BY <1>1, <2>2, <2>3, <2>4, <2>5, ThreadEpochs
<1>3. CASE call[t].stage \notin FirstTry
  BY <1>1, <1>3, ReturnEpochs DEF ExchangeFails
<1> QED
  BY <1>2, <1>3

\* The steps of the exchange.
LEMMA ExchangeEpochs ==
    ASSUME Shape, Sessions, Epochs, NEW t \in Threads,
           \/ ConnectRefused(t) \/ Connect(t) \/ Negotiated(t) \/ NegotiationLost(t)
           \/ SendFails(t) \/ DrawId(t) \/ Receive(t) \/ GiveUp(t)
    PROVE  Epochs'
<1>1. call[t].stage \notin Unlocked
  BY DEF ConnectRefused, Connect, Negotiated, NegotiationLost, SendFails, DrawId, Receive, GiveUp,
         Unlocked
<1>2. Others(t) /\ call[t] \in Calls /\ Placed(call[t]) /\ CallShape(call[t])
  BY <1>1, InsideAlone
<1>3. call[t].lease = 0 \/ (t = "app" /\ call[t].lease \in 0 .. Len(granted))
  BY DEF Epochs, Threads
<1>4. UNCHANGED <<granted, reused>>
  BY DEF ConnectRefused, Connect, Negotiated, NegotiationLost, SendFails, DrawId, Receive, GiveUp,
         bridge, history
<1>5. CASE ConnectRefused(t)
  BY <1>2, <1>4, <1>5, ReturnEpochs DEF ConnectRefused, ConnectFails
<1>6. CASE NegotiationLost(t)
  BY <1>2, <1>4, <1>6, ReturnEpochs DEF NegotiationLost, ConnectFails, history
<1>7. CASE SendFails(t) \/ GiveUp(t)
  BY <1>1, <1>4, <1>7, FailureEpochs DEF SendFails, GiveUp, history
<1>8. CASE Connect(t)
  <2>1. PICK k : k = [call[t] EXCEPT !.stage = IF call[t].stage = "connect" THEN "negotiate" ELSE "renegotiate"]
    OBVIOUS
  <2>2. /\ call' = [call EXCEPT ![t] = k] /\ k.lease = call[t].lease
        /\ k.stage = IF call[t].stage = "connect" THEN "negotiate" ELSE "renegotiate"
        /\ session' = session /\ Advance(t)
    BY <1>2, <1>8, <2>1 DEF Calls, Connect
  <2>3. t = "app" /\ ~overtaken => CallLease(k)'
    BY <2>2 DEF CallLease, Epochs
  <2>4. reused' => overtaken'
    BY <1>4, <2>2 DEF Epochs, Advance
  <2> QED
    BY <1>2, <1>3, <1>4, <2>2, <2>3, <2>4, ThreadEpochs
<1>9. CASE Negotiated(t)
  <2>1. connection = 0 /\ UNCHANGED <<epoch, overtaken>>
    BY <1>2, <1>9 DEF Negotiated, Placed, history
  <2>2. ASSUME NEW v, Return(t, v) PROVE Epochs'
    BY <1>2, <1>4, <2>1, <2>2, ReturnEpochs
  <2>3. CASE /\ call' = [call EXCEPT ![t].stage = IF @ = "negotiate" THEN "send" ELSE "resend"]
             /\ session' = session
    <3>1. PICK k : k = [call[t] EXCEPT !.stage = IF call[t].stage = "negotiate" THEN "send" ELSE "resend"]
      OBVIOUS
    <3>2. /\ call' = [call EXCEPT ![t] = k] /\ k.lease = call[t].lease
          /\ k.stage = IF call[t].stage = "negotiate" THEN "send" ELSE "resend"
      BY <1>2, <2>3, <3>1 DEF Calls
    <3>3. t = "app" /\ ~overtaken => CallLease(k)'
      BY <1>9, <3>2 DEF CallLease, Epochs, Negotiated
    <3>4. reused' => overtaken'
      BY <1>4, <2>1 DEF Epochs
    <3> QED
      BY <1>2, <1>3, <1>4, <2>1, <2>3, <3>2, <3>3, <3>4, ThreadEpochs
  <2> QED
    BY <1>9, <2>2, <2>3 DEF Negotiated, ConnectFails
<1>10. CASE DrawId(t)
  <2>1. PICK k : k = [call[t] EXCEPT !.stage = "ready", !.transaction = drawn + 1]
    OBVIOUS
  <2>2. /\ call' = [call EXCEPT ![t] = k] /\ k.lease = call[t].lease /\ k.stage = "ready"
        /\ UNCHANGED <<session, connection, epoch, overtaken>> /\ call[t].stage = "send"
    BY <1>2, <1>10, <2>1 DEF Calls, DrawId, history
  <2>3. t = "app" /\ ~overtaken => CallLease(k)'
    BY <1>4, <2>2 DEF CallLease, Epochs
  <2>4. reused' => overtaken'
    BY <1>4, <2>2 DEF Epochs
  <2> QED
    BY <1>2, <1>3, <1>4, <2>2, <2>3, <2>4, ThreadEpochs
<1>11. CASE Receive(t)
  <2>1. PICK answer : answer = Head(outbox[connection])
    OBVIOUS
  <2>2. UNCHANGED <<connection, epoch, overtaken>>
    BY <1>11 DEF Receive, history
  <2>3. \/ ExchangeFails(t)
        \/ \E v : Return(t, v)
        \/ /\ call[t].op = "acquire" /\ answer.value = "granted"
           /\ call' = [call EXCEPT ![t] = [Idle EXCEPT !.stage = "granted",
                                                       !.lease = answer.about.lease]]
           /\ session' = session
    BY <1>11, <2>1 DEF Receive
  <2>4. CASE ExchangeFails(t)
    BY <1>1, <1>4, <2>2, <2>4, FailureEpochs
  <2>5. ASSUME NEW v, Return(t, v) PROVE Epochs'
    BY <1>2, <1>4, <2>2, <2>5, ReturnEpochs
  <2>6. CASE /\ call[t].op = "acquire" /\ answer.value = "granted"
             /\ call' = [call EXCEPT ![t] = [Idle EXCEPT !.stage = "granted",
                                                         !.lease = answer.about.lease]]
             /\ session' = session
    <3>1. PICK k : k = [Idle EXCEPT !.stage = "granted", !.lease = answer.about.lease]
      OBVIOUS
    <3>2. call' = [call EXCEPT ![t] = k] /\ k.stage = "granted" /\ k.lease = answer.about.lease
      BY <2>6, <3>1 DEF Idle
    <3>3. connection \in Connections /\ outbox[connection] # <<>>
      BY <1>2, <1>11, SocketFacts DEF Receive, Placed
    <3>4. 1 \in 1 .. Len(outbox[connection]) /\ answer = outbox[connection][1]
      BY <2>1, <3>3, SocketFacts
    <3>5. k.lease \in 1 .. Len(granted) /\ granted[k.lease] = connection
      BY <2>6, <3>2, <3>3, <3>4 DEF Sessions, Leased
    <3>6. CallLease(k)'
      BY <1>4, <2>2, <3>2, <3>5 DEF CallLease
    <3>7. t = "app"
      BY <2>6 DEF Shape, Calling, Roles, Threads
    <3>8. reused' => overtaken'
      BY <1>4, <2>2 DEF Epochs
    <3>9. k.lease \in 0 .. Len(granted)
      BY <3>5
    <3> QED
      BY <1>2, <1>4, <2>2, <2>6, <3>2, <3>6, <3>7, <3>8, <3>9, ThreadEpochs
  <2> QED
    BY <2>3, <2>4, <2>5, <2>6
<1> QED
  BY <1>5, <1>6, <1>7, <1>8, <1>9, <1>10, <1>11

\* A lease put on a socket is of the connection it goes to, unless overtaken.
LEMMA SendEpochs ==
    ASSUME Shape, Epochs, NEW t \in Threads, Send(t)
    PROVE  Epochs'
<1>1. call[t].stage \in {"send", "resend"} /\ call[t].op # "next" /\ call[t].stage \notin Unlocked
  BY DEF Send, Unlocked
<1>2. Others(t) /\ call[t] \in Calls /\ CallShape(call[t])
  BY <1>1, InsideAlone
<1>3. PICK r : r = Request(Method(call[t]), NextId(connection),
                           IF Method(call[t]) = "lookup" THEN 0 ELSE call[t].lease,
                           call[t].transaction)
  OBVIOUS
<1>4. /\ call' = [call EXCEPT ![t].stage = IF @ = "send" THEN "await" ELSE "reawait", ![t].id = r.id]
      /\ reused' = (reused \/ (r.lease # 0 /\ granted[r.lease] # connection))
      /\ UNCHANGED <<connection, epoch, session, granted, overtaken>>
  BY <1>3 DEF Send, bridge
<1>5. PICK k : k = [call[t] EXCEPT !.stage = IF call[t].stage = "send" THEN "await" ELSE "reawait",
                                   !.id = r.id]
  OBVIOUS
<1>6. /\ call' = [call EXCEPT ![t] = k] /\ k.lease = call[t].lease
      /\ k.stage = IF call[t].stage = "send" THEN "await" ELSE "reawait"
  BY <1>2, <1>4, <1>5 DEF Calls
<1>7. t = "app" /\ ~overtaken => CallLease(k)'
  BY <1>1, <1>4, <1>6 DEF CallLease, Epochs
<1>8. call[t].lease = 0 \/ (t = "app" /\ call[t].lease \in 0 .. Len(granted))
  BY DEF Epochs, Threads
<1>9. reused' => overtaken'
  <2> SUFFICES ASSUME r.lease # 0, ~overtaken PROVE granted[r.lease] = connection
    BY <1>4 DEF Epochs
  <2>1. r.lease = call[t].lease /\ Method(call[t]) # "lookup" /\ call[t].lease # 0
    BY <1>3 DEF Request
  <2>2. t = "app" /\ CallLease(call["app"])
    BY <1>8, <2>1 DEF Epochs
  <2>3. call[t].stage # "resend"
    <3> SUFFICES ASSUME call[t].stage = "resend" PROVE FALSE
      OBVIOUS
    <3>1. call[t].op \in Ops \ {"none", "next", "submit", "outcome", "renew", "release", "read", "acquire"}
      BY <1>1, <1>2, <2>1 DEF Method, Retry, CallShape, Calls
    <3> QED
      BY <3>1 DEF Ops
  <2> QED
    BY <1>1, <2>1, <2>2, <2>3 DEF CallLease
<1> QED
  BY <1>2, <1>4, <1>6, <1>7, <1>8, <1>9, ThreadEpochs

\* A thread enters the client with a lease of the present connection, or with none.
LEMMA EnterEpochs ==
    ASSUME Shape, Epochs, NEW t \in Threads, NEW op, NEW lease, NEW transaction,
           Enter(t, op, lease, transaction),
           \/ lease = 0
           \/ /\ t = "app" /\ lease \in 1 .. Len(granted)
              /\ ~overtaken => connection = granted[lease],
           session' = session, UNCHANGED clientIdle
    PROVE  Epochs'
<1>1. PICK k : k = [op |-> op, stage |-> IF connection = 0 THEN "connect" ELSE "send",
                    lease |-> lease, transaction |-> transaction, id |-> 0]
  OBVIOUS
<1>2. /\ call' = [call EXCEPT ![t] = k] /\ Others(t) /\ k.lease = lease
      /\ k.stage = IF connection = 0 THEN "connect" ELSE "send"
  BY <1>1 DEF Enter, LockFree, Others
<1>3. UNCHANGED <<connection, epoch, overtaken, granted, reused>>
  BY DEF clientIdle, bridge, history
<1>4. reused' => overtaken'
  BY <1>3 DEF Epochs
<1>5. granted \in Seq(Connections) /\ 0 \notin Connections
  BY DEF Shape, Types, BridgeTypes, Connections
<1>6. ~overtaken => CallLease(k)'
  BY <1>2, <1>3, <1>5 DEF CallLease
<1>7. \/ k.lease = 0
      \/ t = "app" /\ k.lease \in 0 .. Len(granted) /\ (~overtaken => CallLease(k)')
  BY <1>2, <1>6
<1> QED
  BY <1>2, <1>3, <1>4, <1>7, ThreadEpochs

LEMMA MethodEpochs ==
    ASSUME Shape, Epochs,
           \/ \E t \in Threads : Read(t)
           \/ Close \/ Acquire \/ Construct \/ Proceed \/ Submit
           \/ \E op \in {"renew", "release", "next"} : Check(op)
           \/ \E t \in Transactions : Outcome(t)
    PROVE  Epochs'
<1>1. /\ "app" \in Threads /\ "aux" \in Threads /\ call \in [Threads -> Calls]
      /\ granted \in Seq(Connections) /\ Len(granted) \in Nat
      /\ call["app"].lease \in 0 .. Len(granted) /\ session.lease \in 0 .. Len(granted)
      /\ CallShape(call["app"])
  BY DEF Threads, Shape, Calling, Roles, Types, BridgeTypes, Epochs
<1>2. ASSUME NEW t \in Threads, Read(t) PROVE Epochs'
  BY <1>2, EnterEpochs DEF Read
<1>3. CASE Acquire
  BY <1>1, <1>3, EnterEpochs DEF Acquire
<1>4. ASSUME NEW t \in Transactions, Outcome(t) PROVE Epochs'
  BY <1>1, <1>4, EnterEpochs DEF Outcome
<1>5. CASE Proceed \/ Submit
  <2>1. call["app"].stage \in {"checked", "ready"} /\ session' = session /\ UNCHANGED clientIdle
    BY <1>5 DEF Proceed, Submit
  <2>2. PICK lease : lease = call["app"].lease
    OBVIOUS
  <2>3. \/ lease = 0
        \/ lease \in 1 .. Len(granted) /\ (~overtaken => connection = granted[lease])
    BY <1>1, <2>1, <2>2 DEF Epochs, CallLease
  <2>4. \E op, transaction : Enter("app", op, lease, transaction)
    BY <1>5, <2>2 DEF Proceed, Submit
  <2> QED
    BY <1>1, <2>1, <2>3, <2>4, EnterEpochs
<1>6. CASE Construct
  <2>1. PICK k : k = Idle
    OBVIOUS
  <2>2. /\ call' = [call EXCEPT !["app"] = Idle] /\ call["app"].stage = "granted"
        /\ session' = [lease |-> call["app"].lease, epoch |-> epoch]
        /\ UNCHANGED <<connection, epoch, granted, overtaken, reused>>
    BY <1>6 DEF Construct, clientIdle, bridge, history
  <2>3. call'["app"] = Idle /\ call'["aux"] = call["aux"]
    BY <1>1, <2>2
  <2>4. session'.lease \in 0 .. Len(granted') /\ session'.epoch <= epoch'
    BY <1>1, <2>2 DEF Shape, Types, ClientTypes
  <2>5. /\ \A t \in Threads : call'[t].lease \in 0 .. Len(granted')
        /\ call'["aux"].lease = 0
    BY <1>1, <2>2, <2>3 DEF Threads, Epochs, Idle
  <2>6. ~overtaken' => SessionLease'
    BY <2>2 DEF Epochs, CallLease, SessionLease
  <2>7. CallLease(call["app"])'
    BY <2>3 DEF CallLease, Idle
  <2> QED
    BY <2>2, <2>4, <2>5, <2>6, <2>7 DEF Epochs
<1>7. ASSUME NEW op \in {"renew", "release", "next"}, Check(op) PROVE Epochs'
  <2>1. /\ UNCHANGED <<connection, epoch, granted, overtaken, reused>> /\ LockFree
        /\ call["app"] = Idle
    BY <1>7 DEF Check, clientIdle, bridge, history
  <2>2. (reused' => overtaken') /\ Others("app")
    BY <2>1 DEF Epochs, LockFree, Others
  <2>3. CASE RequireGrant
    <3>1. PICK k : k = [Idle EXCEPT !.op = op, !.stage = "checked", !.lease = session.lease]
      OBVIOUS
    <3>2. /\ call' = [call EXCEPT !["app"] = k] /\ session' = session
          /\ k.lease = session.lease /\ k.stage = "checked"
      BY <1>7, <2>3, <3>1 DEF Check, Idle
    <3>3. ~overtaken => CallLease(k)'
      BY <2>1, <2>3, <3>2 DEF CallLease, Epochs, SessionLease, RequireGrant
    <3> QED
      BY <1>1, <2>1, <2>2, <3>2, <3>3, ThreadEpochs
  <2>4. CASE ~RequireGrant
    <3>1. PICK k : k = Idle
      OBVIOUS
    <3>2. call' = [call EXCEPT !["app"] = k] /\ session' = NoSession /\ k.lease = 0
      BY <1>1, <1>7, <2>1, <2>4, <3>1 DEF Check, Idle
    <3> QED
      BY <1>1, <2>1, <2>2, <3>2, ThreadEpochs
  <2> QED
    BY <2>3, <2>4
<1>8. CASE Close
  <2>1. PICK k : k = Idle
    OBVIOUS
  <2>2. /\ call' = [call EXCEPT !["aux"] = k] /\ session' = session /\ k.lease = 0
        /\ Advance("aux") /\ UNCHANGED <<granted, reused>> /\ LockFree
    BY <1>1, <1>8, <2>1 DEF Close, Idle, bridge
  <2>3. (reused' => overtaken') /\ Others("aux")
    BY <2>2 DEF Epochs, Advance, LockFree, Others
  <2> QED
    BY <1>1, <2>2, <2>3, ThreadEpochs
<1> QED
  BY <1>2, <1>3, <1>4, <1>5, <1>6, <1>7, <1>8

\* Epochs is inductive with Shape and Sessions.
LEMMA NextEpochs == Shape /\ Sessions /\ Epochs /\ [Next]_vars => Epochs'
<1> SUFFICES ASSUME Shape, Sessions, Epochs, [Next]_vars PROVE Epochs'
  OBVIOUS
<1>1. granted \in Seq(Connections) /\ Len(granted) \in Nat
  BY DEF Shape, Types, BridgeTypes
<1>2. ASSUME UNCHANGED <<client, reused, overtaken>>, Len(granted') \in Nat,
             Len(granted') >= Len(granted), \A i \in 1 .. Len(granted) : granted'[i] = granted[i]
      PROVE  Epochs'
  <2>1. UNCHANGED <<connection, epoch, call, session, reused, overtaken>>
    BY <1>2 DEF client
  <2>2. \A i \in 0 .. Len(granted) : i \in 0 .. Len(granted')
    BY <1>1, <1>2
  <2>3. /\ session'.lease \in 0 .. Len(granted') /\ session'.epoch <= epoch'
        /\ \A t \in Threads : call'[t].lease \in 0 .. Len(granted')
        /\ call'["aux"].lease = 0 /\ (reused' => overtaken')
    BY <2>1, <2>2 DEF Epochs
  <2>4. SessionLease => SessionLease'
    BY <1>1, <1>2, <2>1 DEF Epochs, SessionLease
  <2>5. CallLease(call["app"]) => CallLease(call["app"])'
    BY <1>1, <1>2, <2>1 DEF Epochs, CallLease, Threads
  <2> QED
    BY <2>1, <2>3, <2>4, <2>5 DEF Epochs
<1>3. ASSUME NEW c \in Connections, Serve(c) PROVE Epochs'
  <2>1. granted' \in {granted, Append(granted, c)} /\ UNCHANGED <<client, reused, overtaken>>
    BY <1>3 DEF Serve, history
  <2> QED
    BY <1>1, <1>2, <2>1
<1>4. ASSUME NEW c \in Connections, Disconnect(c) PROVE Epochs'
  <2>1. UNCHANGED <<granted, client, reused, overtaken>>
    BY <1>4 DEF Disconnect, history
  <2> QED
    BY <1>1, <1>2, <2>1
<1>5. CASE UNCHANGED vars \/ Dispatch \/ Expire \/ Crash \/ Restart \/ Evicts
  <2>1. UNCHANGED <<granted, client, reused, overtaken>>
    BY <1>5 DEF vars, bridge, history, Dispatch, Expire, Crash, Restart, Evicts, Evict, Forget
  <2> QED
    BY <1>1, <1>2, <2>1
<1>6. CASE Next
  BY <1>3, <1>4, <1>5, <1>6, NextSplits, ExchangeEpochs, SendEpochs, MethodEpochs DEF ClientStep
<1> QED
  BY <1>5, <1>6

LEMMA EpochsHold == Spec => [](Shape /\ Sessions /\ Epochs)
<1>1. Init => Epochs
  BY RecoveringConstants DEF Init, Epochs, SessionLease, CallLease, NoSession, Idle, Threads
<1>2. Init => Sessions
  BY DEF Init, Sessions, Registration, Leased
<1>3. Shape /\ Sessions /\ Epochs /\ [Next]_vars => (Shape /\ Sessions /\ Epochs)'
  BY NextShape, NextSessions, NextEpochs
<1> QED
  BY <1>1, <1>2, <1>3, InitShape, PTL DEF Spec

\* A session puts a lease of an earlier connection on a socket only after another
\* thread reconnected between two of its calls: LightingSession's epoch check
\* (_require_grant) leaves no other way.
THEOREM EpochGuardsLeaseHolds == Spec => []EpochGuardsLease
<1>1. Epochs => EpochGuardsLease
  BY DEF Epochs, EpochGuardsLease
<1> QED
  BY <1>1, EpochsHold, PTL

---------------------------------------------------------------------------
(***************************************************************************)
(* Once.                                                                   *)
(***************************************************************************)
\* No submission appears on a socket.
SubmitsShrink ==
    \A c \in Connections : \E s \in {0, 1} : \A i \in 1 .. Len(inbox'[c]) :
       inbox'[c][i].op = "submit" => i + s \in 1 .. Len(inbox[c]) /\ inbox'[c][i] = inbox[c][i + s]

LEMMA FewerSubmits ==
    ASSUME SubmitsShrink
    PROVE  (\A t \in Transactions : Waits(t)' => Waits(t)) /\ (OneRequest => OneRequest')
<1>1. ASSUME NEW t \in Transactions, Waits(t)' PROVE Waits(t)
  <2>0. PICK c \in Connections : \E i \in 1 .. Len(inbox'[c]) :
           inbox'[c][i].op = "submit" /\ inbox'[c][i].transaction = t
    BY <1>1 DEF Waits, Submits
  <2>1. PICK i \in 1 .. Len(inbox'[c]) : inbox'[c][i].op = "submit" /\ inbox'[c][i].transaction = t
    BY <2>0
  <2>2. PICK s \in {0, 1} : i + s \in 1 .. Len(inbox[c]) /\ inbox'[c][i] = inbox[c][i + s]
    BY <2>1 DEF SubmitsShrink
  <2> QED
    BY <2>1, <2>2 DEF Waits, Submits
<1>2. ASSUME OneRequest PROVE OneRequest'
  <2> SUFFICES ASSUME NEW t \in Transactions, NEW c \in Connections, NEW d \in Connections,
                      NEW i \in 1 .. Len(inbox'[c]), NEW j \in 1 .. Len(inbox'[d]),
                      inbox'[c][i].op = "submit", inbox'[c][i].transaction = t,
                      inbox'[d][j].op = "submit", inbox'[d][j].transaction = t
               PROVE  c = d /\ i = j
    BY DEF OneRequest, Submits
  <2>1. PICK s \in {0, 1} : \A l \in 1 .. Len(inbox'[c]) :
           inbox'[c][l].op = "submit" => l + s \in 1 .. Len(inbox[c]) /\ inbox'[c][l] = inbox[c][l + s]
    BY DEF SubmitsShrink
  <2>2. PICK r \in {0, 1} : \A l \in 1 .. Len(inbox'[d]) :
           inbox'[d][l].op = "submit" => l + r \in 1 .. Len(inbox[d]) /\ inbox'[d][l] = inbox[d][l + r]
    BY DEF SubmitsShrink
  <2>3. i + s \in 1 .. Len(inbox[c]) /\ inbox'[c][i] = inbox[c][i + s]
    BY <2>1
  <2>4. j + r \in 1 .. Len(inbox[d]) /\ inbox'[d][j] = inbox[d][j + r]
    BY <2>2
  <2>5. c = d /\ i + s = j + r
    BY <1>2, <2>3, <2>4 DEF OneRequest, Submits
  <2>6. j + s \in 1 .. Len(inbox[d]) /\ inbox'[d][j] = inbox[d][j + s]
    BY <2>1, <2>5
  <2>7. i + s = j + s
    BY <1>2, <2>3, <2>5, <2>6 DEF OneRequest, Submits
  <2> QED
    BY <2>5, <2>7
<1> QED
  BY <1>1, <1>2

\* Nothing is sent, admitted or written; admitted work may be dropped.
LEMMA QuietOnce ==
    ASSUME Once, SubmitsShrink, UNCHANGED <<written, submitted>>,
           \A t \in Transactions : Fresh(t)' => Fresh(t),
           \A t \in Transactions : InQueue(t)' => InQueue(t),
           OneEntry'
    PROVE  Once'
<1>1. (\A t \in Transactions : Waits(t)' => Waits(t)) /\ OneRequest'
  BY FewerSubmits DEF Once
<1>2. \A t \in Transactions : Written(t)' <=> Written(t)
  BY DEF Written
<1>3. OneWrite'
  BY DEF Once, OneWrite
<1>4. SentOnce'
  BY DEF Once, SentOnce
<1>5. Unsent' /\ OnePlace'
  BY <1>1, <1>2 DEF Once, Unsent, OnePlace
<1> QED
  BY <1>1, <1>3, <1>4, <1>5 DEF Once

\* The call of "app" is as before, or no longer a submission to be sent, or a
\* submission that was to be sent before, or has just been given an id.
LEMMA FreshStays ==
    ASSUME drawn' >= drawn, drawn \in Nat, drawn' \in Nat,
           \/ UNCHANGED <<call, drawn>>
           \/ call'["app"] = call["app"]
           \/ /\ call'["app"].stage # "ready"
              /\ \/ call'["app"].op # "submit"
                 \/ call'["app"].stage \notin {"connect", "negotiate", "send"}
                 \/ /\ call'["app"].transaction = call["app"].transaction
                    /\ \/ call["app"].stage = "ready"
                       \/ /\ call["app"].op = "submit"
                          /\ call["app"].stage \in {"connect", "negotiate", "send"}
           \/ call'["app"].op = "next" /\ call'["app"].transaction > drawn
    PROVE  \A t \in Transactions : Fresh(t)' => Fresh(t)
<1> SUFFICES ASSUME NEW t \in Transactions, Fresh(t)' PROVE Fresh(t)
  OBVIOUS
<1>1. \/ t > drawn'
      \/ call'["app"].stage = "ready" /\ call'["app"].transaction = t
      \/ /\ call'["app"].op = "submit" /\ call'["app"].transaction = t
         /\ call'["app"].stage \in {"connect", "negotiate", "send"}
  BY DEF Fresh
<1>2. t > drawn' => t > drawn
  BY DEF Transactions
<1> QED
  BY <1>1, <1>2 DEF Fresh

\* No step makes a submission that was sent one to be sent.
LEMMA FreshKept ==
    ASSUME Shape, ClientStep \/ \E t \in Threads : Connect(t) \/ Send(t)
    PROVE  \A t \in Transactions : Fresh(t)' => Fresh(t)
<1>1. /\ drawn \in Nat /\ "app" \in Threads /\ "aux" \in Threads
      /\ call \in [Threads -> Calls] /\ call["app"] \in Calls
  BY DEF Shape, Types, ClientTypes, Calling, Threads
<1>2. CASE \E t \in Threads : DrawId(t)
  <2>1. PICK t \in Threads : DrawId(t)
    BY <1>2
  <2>2. PICK k : k = [call[t] EXCEPT !.stage = "ready", !.transaction = drawn + 1]
    OBVIOUS
  <2>3. call[t] \in Calls /\ call' = [call EXCEPT ![t] = k] /\ drawn' = drawn + 1 /\ call[t].op = "next"
    BY <1>1, <2>1, <2>2 DEF DrawId
  <2>4. k.op = "next" /\ k.transaction > drawn
    BY <1>1, <2>2, <2>3 DEF Calls
  <2>5. t = "app"
    BY <2>3 DEF Shape, Calling, Roles, Threads
  <2>6. call'["app"] = k
    BY <1>1, <2>3, <2>5
  <2> QED
    BY <1>1, <2>3, <2>4, <2>6, FreshStays
<1>3. ASSUME NEW t \in Threads, NEW k, call' = [call EXCEPT ![t] = k], drawn' = drawn,
             k.stage # "ready",
             \/ k.op # "submit" \/ k.stage \notin {"connect", "negotiate", "send"}
             \/ /\ t = "app" /\ k.transaction = call[t].transaction
                /\ \/ call[t].stage = "ready"
                   \/ /\ call[t].op = "submit"
                      /\ call[t].stage \in {"connect", "negotiate", "send"}
      PROVE  \A u \in Transactions : Fresh(u)' => Fresh(u)
  <2>1. t = "app" => call'["app"] = k
    BY <1>1, <1>3
  <2>2. t # "app" => call'["app"] = call["app"]
    BY <1>1, <1>3
  <2>3. drawn' >= drawn /\ drawn' \in Nat
    BY <1>1, <1>3
  <2> QED
    BY <1>1, <1>3, <2>1, <2>2, <2>3, FreshStays
<1>4. ASSUME NEW t \in Threads, NEW v, Return(t, v), drawn' = drawn
      PROVE  \A u \in Transactions : Fresh(u)' => Fresh(u)
  <2>1. PICK k : k = Idle
    OBVIOUS
  <2>2. call' = [call EXCEPT ![t] = k] /\ k.op = "none" /\ k.stage = "idle"
    BY <1>4, <2>1 DEF Return, Idle
  <2> QED
    BY <1>3, <1>4, <2>2
<1>5. ASSUME NEW t \in Threads, NEW s, call' = [call EXCEPT ![t].stage = s], drawn' = drawn,
             s \in {"reconnect", "negotiate", "renegotiate", "send", "resend"},
             s \in {"negotiate", "send"} => call[t].stage \in {"connect", "negotiate"}
      PROVE  \A u \in Transactions : Fresh(u)' => Fresh(u)
  <2>1. PICK k : k = [call[t] EXCEPT !.stage = s]
    OBVIOUS
  <2>2. /\ call' = [call EXCEPT ![t] = k] /\ k.op = call[t].op /\ k.stage = s
        /\ k.transaction = call[t].transaction
    BY <1>1, <1>5, <2>1 DEF Calls
  <2>3. k.op = "submit" => t = "app"
    BY <2>2 DEF Shape, Calling, Roles, Threads
  <2> QED
    BY <1>3, <1>5, <2>2, <2>3
<1>6. ASSUME NEW t \in Threads, ExchangeFails(t), drawn' = drawn
      PROVE  \A u \in Transactions : Fresh(u)' => Fresh(u)
  BY <1>4, <1>5, <1>6 DEF ExchangeFails
<1>7. ASSUME NEW t \in Threads, ConnectRefused(t) \/ NegotiationLost(t)
      PROVE  \A u \in Transactions : Fresh(u)' => Fresh(u)
  BY <1>4, <1>7 DEF ConnectRefused, NegotiationLost, ConnectFails
<1>8. ASSUME NEW t \in Threads, SendFails(t) \/ GiveUp(t)
      PROVE  \A u \in Transactions : Fresh(u)' => Fresh(u)
  BY <1>6, <1>8 DEF SendFails, GiveUp
<1>9. ASSUME NEW t \in Threads, Receive(t)
      PROVE  \A u \in Transactions : Fresh(u)' => Fresh(u)
  <2>1. PICK answer : answer = Head(outbox[connection])
    OBVIOUS
  <2>2. \/ ExchangeFails(t)
        \/ \E v : Return(t, v)
        \/ call' = [call EXCEPT ![t] = [Idle EXCEPT !.stage = "granted",
                                                    !.lease = answer.about.lease]]
    BY <1>9, <2>1 DEF Receive
  <2>3. drawn' = drawn
    BY <1>9 DEF Receive
  <2>4. PICK k : k = [Idle EXCEPT !.stage = "granted", !.lease = answer.about.lease]
    OBVIOUS
  <2>5. k.stage = "granted"
    BY <2>4 DEF Idle
  <2> QED
    BY <1>3, <1>4, <1>6, <2>2, <2>3, <2>4, <2>5
<1>10. ASSUME NEW t \in Threads, Negotiated(t)
       PROVE  \A u \in Transactions : Fresh(u)' => Fresh(u)
  <2>1. PICK s : s = IF call[t].stage = "negotiate" THEN "send" ELSE "resend"
    OBVIOUS
  <2>2. \/ \E v : Return(t, v)
        \/ call' = [call EXCEPT ![t].stage = s]
    BY <1>10, <2>1 DEF Negotiated, ConnectFails
  <2>3. drawn' = drawn
    BY <1>10 DEF Negotiated
  <2> QED
    BY <1>4, <1>5, <2>1, <2>2, <2>3
<1>11. ASSUME NEW t \in Threads, Connect(t)
       PROVE  \A u \in Transactions : Fresh(u)' => Fresh(u)
  <2>1. PICK s : s = IF call[t].stage = "connect" THEN "negotiate" ELSE "renegotiate"
    OBVIOUS
  <2> QED
    BY <1>5, <1>11, <2>1 DEF Connect
<1>12. ASSUME NEW t \in Threads, Send(t)
       PROVE  \A u \in Transactions : Fresh(u)' => Fresh(u)
  <2>1. \E i : call' = [call EXCEPT ![t].stage = IF @ = "send" THEN "await" ELSE "reawait", ![t].id = i]
    BY <1>12 DEF Send
  <2>2. PICK i : call' = [call EXCEPT ![t].stage = IF @ = "send" THEN "await" ELSE "reawait", ![t].id = i]
    BY <2>1
  <2>3. PICK k : k = [call[t] EXCEPT !.stage = IF call[t].stage = "send" THEN "await" ELSE "reawait", !.id = i]
    OBVIOUS
  <2>4. call' = [call EXCEPT ![t] = k] /\ k.stage \in {"await", "reawait"} /\ drawn' = drawn
    BY <1>1, <1>12, <2>2, <2>3 DEF Calls, Send
  <2> QED
    BY <1>3, <2>4
<1>13. ASSUME NEW t \in Threads, NEW op, NEW lease, NEW transaction,
              Enter(t, op, lease, transaction), drawn' = drawn,
              op # "submit" \/ (t = "app" /\ call["app"].stage = "ready" /\ transaction = call["app"].transaction)
       PROVE  \A u \in Transactions : Fresh(u)' => Fresh(u)
  <2>1. PICK k : k = [op |-> op, stage |-> IF connection = 0 THEN "connect" ELSE "send",
                      lease |-> lease, transaction |-> transaction, id |-> 0]
    OBVIOUS
  <2>2. /\ call' = [call EXCEPT ![t] = k] /\ k.op = op /\ k.transaction = transaction
        /\ k.stage # "ready"
    BY <1>13, <2>1 DEF Enter
  <2> QED
    BY <1>3, <1>13, <2>2
<1>14. ASSUME \/ \E t \in Threads : Read(t)
              \/ Acquire \/ Proceed \/ Submit
              \/ \E t \in Transactions : Outcome(t)
       PROVE  \A u \in Transactions : Fresh(u)' => Fresh(u)
  <2>1. call["app"].stage = "checked" => call["app"].op # "submit"
    BY DEF Shape, Calling, Roles, CallShape
  <2> QED
    BY <1>1, <1>13, <1>14, <2>1 DEF Read, Acquire, Proceed, Submit, Outcome, clientIdle
<1>15. CASE Close
  BY <1>1, <1>15, FreshStays DEF Close
<1>16. CASE Construct
  <2>1. PICK k : k = Idle
    OBVIOUS
  <2>2. call' = [call EXCEPT !["app"] = k] /\ k.op = "none" /\ k.stage = "idle" /\ drawn' = drawn
    BY <1>16, <2>1 DEF Construct, clientIdle, Idle
  <2> QED
    BY <1>1, <1>3, <2>2
<1>17. ASSUME NEW op \in {"renew", "release", "next"}, Check(op)
       PROVE  \A u \in Transactions : Fresh(u)' => Fresh(u)
  <2>1. PICK k : k = [Idle EXCEPT !.op = op, !.stage = "checked", !.lease = session.lease]
    OBVIOUS
  <2>2. k.stage = "checked"
    BY <2>1 DEF Idle
  <2>3. drawn' = drawn /\ (call' = call \/ call' = [call EXCEPT !["app"] = k])
    BY <1>17, <2>1 DEF Check, clientIdle
  <2> QED
    BY <1>1, <1>3, <2>2, <2>3, FreshStays
<1> QED
  BY <1>2, <1>7, <1>8, <1>9, <1>10, <1>11, <1>12, <1>14, <1>15, <1>16, <1>17 DEF ClientStep

LEMMA SameInboxShrinks ==
    ASSUME inbox' = inbox
    PROVE  SubmitsShrink
<1> SUFFICES ASSUME NEW c \in Connections
             PROVE  \E s \in {0, 1} : \A i \in 1 .. Len(inbox'[c]) :
                       inbox'[c][i].op = "submit" =>
                          i + s \in 1 .. Len(inbox[c]) /\ inbox'[c][i] = inbox[c][i + s]
  BY DEF SubmitsShrink
<1>1. \A i \in 1 .. Len(inbox'[c]) : i + 0 = i
  OBVIOUS
<1> QED
  BY <1>1

\* A connection carries new requests that are no submissions, or none.
LEMMA GrownInboxShrinks ==
    ASSUME NEW c \in Connections,
           \A d \in Connections \ {c} : inbox'[d] = inbox[d],
           \A i \in 1 .. Len(inbox'[c]) : inbox'[c][i].op = "submit" =>
              i \in 1 .. Len(inbox[c]) /\ inbox'[c][i] = inbox[c][i]
    PROVE  SubmitsShrink
<1> SUFFICES ASSUME NEW d \in Connections
             PROVE  \A i \in 1 .. Len(inbox'[d]) :
                       inbox'[d][i].op = "submit" =>
                          i + 0 \in 1 .. Len(inbox[d]) /\ inbox'[d][i] = inbox[d][i + 0]
  BY DEF SubmitsShrink
<1>1. \A i \in 1 .. Len(inbox'[d]) : i + 0 = i
  OBVIOUS
<1>2. CASE d = c
  BY <1>1, <1>2
<1>3. CASE d # c
  BY <1>1, <1>3
<1> QED
  BY <1>2, <1>3

LEMMA ClientOnce ==
    ASSUME Shape, Once, ClientStep
    PROVE  Once'
<1>1. inbox' = inbox /\ UNCHANGED <<queue, submitted, written>>
  BY ClientStepFacts DEF bridge
<1>2. SubmitsShrink
  BY <1>1, SameInboxShrinks
<1>3. (\A t \in Transactions : InQueue(t)' => InQueue(t)) /\ OneEntry'
  BY <1>1 DEF InQueue, Once, OneEntry
<1> QED
  BY <1>1, <1>2, <1>3, FreshKept, QuietOnce

LEMMA ConnectOnce ==
    ASSUME Shape, Once, NEW t \in Threads, Connect(t)
    PROVE  Once'
<1>1. PICK c : c = opened + 1
  OBVIOUS
<1>2. /\ inbox' = [inbox EXCEPT ![c] = <<Request("negotiate", 0, 0, 0)>>]
      /\ UNCHANGED <<queue, submitted, written>> /\ opened < MaxConnections
  BY <1>1 DEF Connect
<1>3. c \in Connections
  BY <1>1, <1>2, SocketFacts, RecoveringConstants DEF Connections
<1>4. inbox'[c] = <<Request("negotiate", 0, 0, 0)>> /\ \A d \in Connections \ {c} : inbox'[d] = inbox[d]
  BY <1>2, <1>3 DEF Shape, Types, SocketTypes
<1>5. \A i \in 1 .. Len(inbox'[c]) : inbox'[c][i].op # "submit"
  <2>1. \A i \in 1 .. Len(inbox'[c]) : inbox'[c][i] = Request("negotiate", 0, 0, 0)
    BY <1>4
  <2> QED
    BY <2>1 DEF Request
<1>6. SubmitsShrink
  BY <1>3, <1>4, <1>5, GrownInboxShrinks
<1>7. (\A u \in Transactions : InQueue(u)' => InQueue(u)) /\ OneEntry'
  BY <1>2 DEF InQueue, Once, OneEntry
<1> QED
  BY <1>2, <1>6, <1>7, FreshKept, QuietOnce

\* A submission is put on a socket: it was not sent before.
LEMMA SendOnce ==
    ASSUME Shape, Once, NEW t \in Threads, Send(t)
    PROVE  Once'
<1>1. PICK r : r = Request(Method(call[t]), NextId(connection),
                           IF Method(call[t]) = "lookup" THEN 0 ELSE call[t].lease,
                           call[t].transaction)
  OBVIOUS
<1>2. /\ call[t].stage \in {"send", "resend"} /\ call[t].op # "next"
      /\ UNCHANGED <<drawn, queue, written>>
      /\ inbox' = IF connection \in serving
                  THEN [inbox EXCEPT ![connection] = Append(@, r)] ELSE inbox
      /\ submitted' = IF r.op = "submit" THEN [submitted EXCEPT ![call[t].transaction] = @ + 1]
                      ELSE submitted
  BY <1>1 DEF Send, bridge
<1>3. connection \in Connections /\ r \in Requests
  BY <1>1, <1>2, SentRequest, SocketFacts
<1>4. PICK c \in Connections : c = connection
  BY <1>3
<1>5. /\ \A d \in Connections \ {c} : inbox'[d] = inbox[d]
      /\ \A i \in 1 .. Len(inbox'[c]) :
            \/ i \in 1 .. Len(inbox[c]) /\ inbox'[c][i] = inbox[c][i]
            \/ i = Len(inbox[c]) + 1 /\ inbox'[c][i] = r
  <2>1. inbox \in [Connections -> Seq(Requests)]
    BY DEF Shape, Types, SocketTypes
  <2> QED
    BY <1>2, <1>3, <1>4, <2>1
<1>6. (\A u \in Transactions : InQueue(u)' <=> InQueue(u)) /\ OneEntry'
      /\ (\A u \in Transactions : Written(u)' <=> Written(u)) /\ OneWrite'
  BY <1>2 DEF InQueue, Written, Once, OneEntry, OneWrite
<1>7. CASE r.op # "submit"
  <2>1. SubmitsShrink
    BY <1>5, <1>7, GrownInboxShrinks
  <2> QED
    BY <1>2, <1>6, <1>7, <2>1, FreshKept, QuietOnce
<1>8. CASE r.op = "submit"
  <2>1. PICK x : x = call[t].transaction
    OBVIOUS
  <2>2. r.transaction = x /\ x \in Transactions
    BY <1>1, <1>3, <1>8, <2>1 DEF Request, Requests
  <2>3. call[t].op = "submit" /\ call[t].stage = "send"
    BY <1>1, <1>2, <1>8 DEF Request, Method, Retry
  <2>4. t = "app"
    BY <2>3 DEF Shape, Calling, Roles, Threads
  <2>5. Fresh(x)
    BY <2>1, <2>3, <2>4 DEF Fresh
  <2>6. submitted[x] = 0 /\ submitted' = [submitted EXCEPT ![x] = 1]
    <3>1. submitted[x] = 0
      BY <2>2, <2>5 DEF Once, SentOnce
    <3> QED
      BY <1>2, <1>8, <2>1, <3>1
  <2>7. submitted'[x] = 1 /\ \A u \in Transactions \ {x} : submitted'[u] = submitted[u]
    BY <2>2, <2>6 DEF Shape, Types, HistoryTypes
  <2>8. ~Waits(x) /\ ~InQueue(x) /\ ~Written(x)
    BY <2>2, <2>6 DEF Once, Unsent
  <2>9. ~Fresh(x)'
    <3>1. x <= drawn /\ x \in Nat /\ drawn \in Nat
      BY <2>1, <2>2, <2>3, InsideAlone DEF CallShape, Unlocked, Shape, Types, ClientTypes, Transactions
    <3>2. call'["app"].stage = "await"
      BY <2>3, <2>4 DEF Send, Shape, Calling, Calls, Threads
    <3> QED
      BY <1>2, <3>1, <3>2 DEF Fresh
  <2>10. SentOnce'
    <3> SUFFICES ASSUME NEW u \in Transactions PROVE submitted'[u] <= 1 /\ (Fresh(u)' => submitted'[u] = 0)
      BY DEF SentOnce
    <3>1. CASE u = x
      BY <2>7, <2>9, <3>1
    <3>2. CASE u # x
      BY <2>7, <3>2, FreshKept DEF Once, SentOnce
    <3> QED
      BY <3>1, <3>2
  <2>11. \A u \in Transactions : Waits(u)' => Waits(u) \/ u = x
    <3> SUFFICES ASSUME NEW u \in Transactions, Waits(u)', u # x PROVE Waits(u)
      OBVIOUS
    <3>1. PICK d \in Connections : \E i \in 1 .. Len(inbox'[d]) :
             inbox'[d][i].op = "submit" /\ inbox'[d][i].transaction = u
      BY DEF Waits, Submits
    <3>2. PICK i \in 1 .. Len(inbox'[d]) : inbox'[d][i].op = "submit" /\ inbox'[d][i].transaction = u
      BY <3>1
    <3>3. i \in 1 .. Len(inbox[d]) /\ inbox'[d][i] = inbox[d][i]
      BY <1>5, <2>2, <3>2
    <3> QED
      BY <3>2, <3>3 DEF Waits, Submits
  <2>12. Unsent'
    BY <1>6, <2>7, <2>11 DEF Once, Unsent
  <2>13. OnePlace'
    BY <1>6, <2>8, <2>11 DEF Once, OnePlace
  <2>14. OneRequest'
    <3> SUFFICES ASSUME NEW u \in Transactions, NEW d \in Connections, NEW e \in Connections,
                        NEW i \in 1 .. Len(inbox'[d]), NEW j \in 1 .. Len(inbox'[e]),
                        inbox'[d][i].op = "submit", inbox'[d][i].transaction = u,
                        inbox'[e][j].op = "submit", inbox'[e][j].transaction = u
                 PROVE  d = e /\ i = j
      BY DEF OneRequest, Submits
    <3>1. \/ i \in 1 .. Len(inbox[d]) /\ inbox'[d][i] = inbox[d][i]
          \/ d = c /\ i = Len(inbox[c]) + 1 /\ inbox'[d][i] = r
      BY <1>5
    <3>2. \/ j \in 1 .. Len(inbox[e]) /\ inbox'[e][j] = inbox[e][j]
          \/ e = c /\ j = Len(inbox[c]) + 1 /\ inbox'[e][j] = r
      BY <1>5
    <3>3. i \in 1 .. Len(inbox[d]) /\ inbox'[d][i] = inbox[d][i] => Waits(u)
      BY DEF Waits, Submits
    <3>4. j \in 1 .. Len(inbox[e]) /\ inbox'[e][j] = inbox[e][j] => Waits(u)
      BY DEF Waits, Submits
    <3>5. CASE u = x
      BY <2>8, <3>1, <3>2, <3>3, <3>4, <3>5
    <3>6. CASE u # x
      BY <2>2, <3>1, <3>2, <3>6 DEF Once, OneRequest, Submits
    <3> QED
      BY <3>5, <3>6
  <2> QED
    BY <1>6, <2>10, <2>12, <2>13, <2>14 DEF Once
<1> QED
  BY <1>7, <1>8

LEMMA BridgeFresh ==
    ASSUME UNCHANGED client
    PROVE  \A t \in Transactions : Fresh(t)' => Fresh(t)
  BY DEF Fresh, client

LEMMA ServeShrinks ==
    ASSUME Shape, NEW c \in Connections, Serve(c)
    PROVE  SubmitsShrink
<1> SUFFICES ASSUME NEW d \in Connections
             PROVE  \E s \in {0, 1} : \A i \in 1 .. Len(inbox'[d]) :
                       i + s \in 1 .. Len(inbox[d]) /\ inbox'[d][i] = inbox[d][i + s]
  BY DEF SubmitsShrink
<1>1. CASE d = c
  BY <1>1, ServedRequest
<1>2. CASE d # c
  <2>1. \A i \in 1 .. Len(inbox'[d]) : i + 0 = i
    OBVIOUS
  <2> QED
    BY ServedRequest, <1>2, <2>1
<1> QED
  BY <1>1, <1>2

\* A submission that was served waits nowhere any more.
LEMMA ServedLeaves ==
    ASSUME Shape, Once, NEW c \in Connections, Serve(c), NEW x \in Transactions,
           Head(inbox[c]).op = "submit", Head(inbox[c]).transaction = x
    PROVE  Waits(x) /\ ~Waits(x)'
<1>1. /\ \A d \in Connections \ {c} : inbox'[d] = inbox[d]
      /\ \A i \in 1 .. Len(inbox'[c]) : i + 1 \in 1 .. Len(inbox[c]) /\ inbox'[c][i] = inbox[c][i + 1]
      /\ 1 \in 1 .. Len(inbox[c])
  BY ServedRequest
<1>2. Submits(c, 1, x)
  BY ServedRequest DEF Submits
<1>3. ASSUME Waits(x)' PROVE FALSE
  <2>1. PICK d \in Connections : \E i \in 1 .. Len(inbox'[d]) :
           inbox'[d][i].op = "submit" /\ inbox'[d][i].transaction = x
    BY <1>3 DEF Waits, Submits
  <2>2. PICK i \in 1 .. Len(inbox'[d]) : inbox'[d][i].op = "submit" /\ inbox'[d][i].transaction = x
    BY <2>1
  <2>3. CASE d = c
    <3>1. i + 1 \in 1 .. Len(inbox[c]) /\ Submits(c, i + 1, x)
      BY <1>1, <2>2, <2>3 DEF Submits
    <3>2. i + 1 = 1
      BY <1>1, <1>2, <3>1 DEF Once, OneRequest
    <3> QED
      BY <3>2
  <2>4. CASE d # c
    <3>1. i \in 1 .. Len(inbox[d]) /\ Submits(d, i, x)
      BY <1>1, <2>2, <2>4 DEF Submits
    <3>2. d = c
      BY <1>1, <1>2, <3>1 DEF Once, OneRequest
    <3> QED
      BY <2>4, <3>2
  <2> QED
    BY <2>3, <2>4
<1> QED
  BY <1>1, <1>2, <1>3 DEF Waits

\* Serving a submission takes it from its socket, and admits it or not.
LEMMA ServeOnce ==
    ASSUME Shape, Once, NEW c \in Connections, Serve(c)
    PROVE  Once'
<1>1. UNCHANGED <<client, submitted, written>>
  BY DEF Serve, history
<1>2. PICK r \in Requests : r = Head(inbox[c]) /\ r = inbox[c][1]
  BY ServedRequest
<1>3. /\ \A d \in Connections \ {c} : inbox'[d] = inbox[d]
      /\ \A i \in 1 .. Len(inbox'[c]) : i + 1 \in 1 .. Len(inbox[c]) /\ inbox'[c][i] = inbox[c][i + 1]
      /\ 1 \in 1 .. Len(inbox[c])
  BY ServedRequest
<1>4. SubmitsShrink
  BY ServeShrinks
<1>5. (\A t \in Transactions : Waits(t)' => Waits(t)) /\ OneRequest'
  BY <1>4, FewerSubmits DEF Once
<1>6. \A t \in Transactions : Fresh(t)' => Fresh(t)
  BY <1>1, BridgeFresh
<1>7. CASE ~(r.op = "submit" /\ Admits(r))
  <2>1. queue' = queue
    BY <1>2, <1>7 DEF Serve
  <2>2. (\A t \in Transactions : InQueue(t)' => InQueue(t)) /\ OneEntry'
    BY <2>1 DEF InQueue, Once, OneEntry
  <2> QED
    BY <1>1, <1>4, <1>6, <2>2, QuietOnce
<1>8. CASE r.op = "submit" /\ Admits(r)
  <2>1. PICK x \in Transactions : x = r.transaction
    BY <1>8 DEF Requests
  <2>2. PICK q : q = [transaction |-> r.transaction, lease |-> r.lease, connection |-> c]
    OBVIOUS
  <2>3. queue' = Append(queue, q) /\ q.transaction = x /\ queue \in Seq(Entries)
    BY <1>2, <1>8, <2>1, <2>2 DEF Serve, Shape, Types, BridgeTypes
  <2>4. Submits(c, 1, x)
    BY <1>2, <1>8, <2>1 DEF Submits
  <2>5. Waits(x)
    BY <1>3, <2>4 DEF Waits
  <2>6. ~InQueue(x) /\ ~Written(x) /\ submitted[x] # 0
    BY <2>5 DEF Once, OnePlace, Unsent
  <2>7. ~Waits(x)'
    BY <1>2, <1>8, <2>1, ServedLeaves
  <2>8. \A t \in Transactions : InQueue(t)' => InQueue(t) \/ t = x
    BY <2>3 DEF InQueue
  <2>9. OneEntry'
    <3> SUFFICES ASSUME NEW i \in 1 .. Len(queue'), NEW j \in 1 .. Len(queue'),
                        queue'[i].transaction = queue'[j].transaction
                 PROVE  i = j
      BY DEF OneEntry
    <3>1. \A l \in 1 .. Len(queue') :
             \/ l \in 1 .. Len(queue) /\ queue'[l] = queue[l]
             \/ l = Len(queue) + 1 /\ queue'[l] = q
      BY <2>3
    <3>2. \A l \in 1 .. Len(queue) : queue[l].transaction # x
      BY <2>6 DEF InQueue
    <3>3. CASE queue'[i].transaction = x
      BY <2>3, <3>1, <3>2, <3>3
    <3>4. CASE queue'[i].transaction # x
      BY <2>3, <3>1, <3>4 DEF Once, OneEntry
    <3> QED
      BY <3>3, <3>4
  <2>10. (\A t \in Transactions : Written(t)' <=> Written(t)) /\ OneWrite'
    BY <1>1 DEF Written, Once, OneWrite
  <2>11. SentOnce'
    BY <1>1, <1>6 DEF Once, SentOnce
  <2>12. Unsent'
    BY <1>1, <1>5, <2>6, <2>8, <2>10 DEF Once, Unsent
  <2>13. OnePlace'
    BY <1>5, <2>6, <2>7, <2>8, <2>10 DEF Once, OnePlace
  <2> QED
    BY <1>5, <2>9, <2>10, <2>11, <2>12, <2>13 DEF Once
<1> QED
  BY <1>7, <1>8

\* Dropping admitted work leaves entries that were there, in their order.
LEMMA DisconnectQueue ==
    ASSUME Shape, NEW c \in Connections, Disconnect(c)
    PROVE  \/ UNCHANGED <<queue, journal>>
           \/ /\ queue' \in Seq(Entries)
              /\ Filters(queue', queue, Len(queue), {q \in ToSet(queue) : q.connection = c})
<1>1. queue \in Seq(Entries)
  BY DEF Shape, Types, BridgeTypes
<1>2. PICK s \in Seq(Entries) : s = queue
  BY <1>1
<1>3. PICK S : S = {q \in ToSet(queue) : q.connection = c}
  OBVIOUS
<1>4. Without(s, S) \in Seq(Entries) /\ Filters(Without(s, S), s, Len(s), S)
  BY WithoutProperties
<1>5. UNCHANGED <<queue, journal>> \/ queue' = Without(s, S)
  BY <1>2, <1>3 DEF Disconnect
<1> QED
  BY <1>2, <1>3, <1>4, <1>5

LEMMA DisconnectOnce ==
    ASSUME Shape, Once, NEW c \in Connections, Disconnect(c)
    PROVE  Once'
<1>1. UNCHANGED <<client, submitted, written>> /\ inbox' = [inbox EXCEPT ![c] = <<>>]
  BY DEF Disconnect, history
<1>2. inbox'[c] = <<>> /\ \A d \in Connections \ {c} : inbox'[d] = inbox[d]
  BY <1>1 DEF Shape, Types, SocketTypes
<1>3. SubmitsShrink
  BY <1>2, GrownInboxShrinks
<1>4. (\A t \in Transactions : InQueue(t)' => InQueue(t)) /\ OneEntry'
  <2>1. CASE queue' = queue
    BY <2>1 DEF InQueue, Once, OneEntry
  <2>2. CASE \E S : queue' \in Seq(Entries) /\ Filters(queue', queue, Len(queue), S)
    <3>1. /\ \A i \in 1 .. Len(queue') : \E p \in 1 .. Len(queue) : queue'[i] = queue[p]
          /\ \A i, j \in 1 .. Len(queue') : i < j =>
               \E p, q \in 1 .. Len(queue) : p < q /\ queue'[i] = queue[p] /\ queue'[j] = queue[q]
      BY <2>2 DEF Filters
    <3>2. \A t \in Transactions : InQueue(t)' => InQueue(t)
      BY <3>1 DEF InQueue
    <3>3. ASSUME NEW i \in 1 .. Len(queue'), NEW j \in 1 .. Len(queue'), i < j,
                 queue'[i].transaction = queue'[j].transaction
          PROVE  FALSE
      <4>1. PICK p \in 1 .. Len(queue), q \in 1 .. Len(queue) :
               p < q /\ queue'[i] = queue[p] /\ queue'[j] = queue[q]
        BY <3>1, <3>3
      <4>2. p = q
        BY <3>3, <4>1 DEF Once, OneEntry
      <4> QED
        BY <4>1, <4>2
    <3>4. OneEntry'
      <4> SUFFICES ASSUME NEW i \in 1 .. Len(queue'), NEW j \in 1 .. Len(queue'),
                          queue'[i].transaction = queue'[j].transaction
                   PROVE  i = j
        BY DEF OneEntry
      <4>1. i < j \/ j < i \/ i = j
        OBVIOUS
      <4> QED
        BY <3>3, <4>1
    <3> QED
      BY <3>2, <3>4
  <2> QED
    BY <2>1, <2>2, DisconnectQueue
<1> QED
  BY <1>1, <1>3, <1>4, BridgeFresh, QuietOnce

\* Dispatching an entry takes it from the queue, and writes it or not.
LEMMA DispatchOnce ==
    ASSUME Shape, Once, Dispatch
    PROVE  Once'
<1>1. UNCHANGED <<client, inbox, submitted>> /\ queue # <<>> /\ queue' = Tail(queue)
  BY DEF Dispatch, sockets
<1>2. queue \in Seq(Entries) /\ written \in Seq(Transactions)
  BY DEF Shape, Types, BridgeTypes, HistoryTypes
<1>3. PICK q : q = Head(queue)
  OBVIOUS
<1>4. /\ q \in Entries /\ q = queue[1] /\ 1 \in 1 .. Len(queue)
      /\ \A i \in 1 .. Len(queue') : i + 1 \in 1 .. Len(queue) /\ queue'[i] = queue[i + 1] /\ i + 1 # 1
  BY <1>1, <1>2, <1>3
<1>5. PICK x \in Transactions : x = q.transaction
  BY <1>4 DEF Entries
<1>6. written' = written \/ written' = Append(written, x)
  BY <1>3, <1>5 DEF Dispatch
<1>7. SubmitsShrink
  BY <1>1, SameInboxShrinks
<1>8. (\A t \in Transactions : Waits(t)' => Waits(t)) /\ OneRequest'
  BY <1>7, FewerSubmits DEF Once
<1>9. (\A t \in Transactions : InQueue(t)' => InQueue(t) /\ t # x) /\ InQueue(x)
  BY <1>4, <1>5 DEF InQueue, Once, OneEntry
<1>10. OneEntry'
  <2> SUFFICES ASSUME NEW i \in 1 .. Len(queue'), NEW j \in 1 .. Len(queue'),
                      queue'[i].transaction = queue'[j].transaction
               PROVE  i = j
    BY DEF OneEntry
  <2>1. /\ i + 1 \in 1 .. Len(queue) /\ j + 1 \in 1 .. Len(queue)
        /\ queue[i + 1].transaction = queue[j + 1].transaction
    BY <1>4
  <2>2. i + 1 = j + 1
    BY <2>1 DEF Once, OneEntry
  <2> QED
    BY <2>2
<1>11. \A t \in Transactions : Fresh(t)' => Fresh(t)
  BY <1>1, BridgeFresh
<1>12. CASE written' = written
  BY <1>1, <1>7, <1>9, <1>10, <1>11, <1>12, QuietOnce
<1>13. CASE written' = Append(written, x)
  <2>1. ~Written(x) /\ ~Waits(x) /\ submitted[x] # 0
    BY <1>9 DEF Once, OnePlace, Unsent
  <2>2. \A l \in 1 .. Len(written') :
           \/ l \in 1 .. Len(written) /\ written'[l] = written[l]
           \/ l = Len(written) + 1 /\ written'[l] = x
    BY <1>2, <1>13
  <2>3. \A t \in Transactions : Written(t)' => Written(t) \/ t = x
    BY <2>2 DEF Written
  <2>4. OneWrite'
    <3> SUFFICES ASSUME NEW i \in 1 .. Len(written'), NEW j \in 1 .. Len(written'),
                        written'[i] = written'[j]
                 PROVE  i = j
      BY DEF OneWrite
    <3>1. \A l \in 1 .. Len(written) : written[l] # x
      BY <2>1 DEF Written
    <3>2. CASE written'[i] = x
      BY <2>2, <3>1, <3>2
    <3>3. CASE written'[i] # x
      BY <2>2, <3>3 DEF Once, OneWrite
    <3> QED
      BY <3>2, <3>3
  <2>5. SentOnce'
    BY <1>1, <1>11 DEF Once, SentOnce
  <2>6. Unsent'
    BY <1>1, <1>8, <1>9, <2>1, <2>3 DEF Once, Unsent
  <2>7. OnePlace'
    BY <1>8, <1>9, <2>1, <2>3 DEF Once, OnePlace
  <2> QED
    BY <1>8, <1>10, <2>4, <2>5, <2>6, <2>7 DEF Once
<1> QED
  BY <1>6, <1>12, <1>13

\* Once is inductive with Shape.
LEMMA NextOnce == Shape /\ Once /\ [Next]_vars => Once'
<1> SUFFICES ASSUME Shape, Once, [Next]_vars PROVE Once'
  OBVIOUS
<1>1. CASE UNCHANGED vars \/ Expire \/ Restart \/ Evicts
  <2>1. UNCHANGED <<client, inbox, queue, submitted, written>>
    BY <1>1 DEF vars, sockets, bridge, history, Expire, Restart, Evicts, Evict, Forget
  <2>2. (\A t \in Transactions : InQueue(t)' => InQueue(t)) /\ OneEntry'
    BY <2>1 DEF InQueue, Once, OneEntry
  <2> QED
    BY <2>1, <2>2, SameInboxShrinks, BridgeFresh, QuietOnce
<1>2. CASE Crash
  <2>1. UNCHANGED <<client, submitted, written>> /\ queue' = <<>> /\ inbox' = [c \in Connections |-> <<>>]
    BY <1>2 DEF Crash, history
  <2>2. SubmitsShrink
    BY <2>1 DEF SubmitsShrink
  <2>3. (\A t \in Transactions : InQueue(t)' => InQueue(t)) /\ OneEntry'
    BY <2>1 DEF InQueue, OneEntry
  <2> QED
    BY <2>1, <2>2, <2>3, BridgeFresh, QuietOnce
<1>3. CASE Next
  BY <1>1, <1>2, <1>3, NextSplits, ClientOnce, ConnectOnce, SendOnce, ServeOnce, DisconnectOnce,
     DispatchOnce
<1> QED
  BY <1>1, <1>3

LEMMA OnceHolds == Spec => [](Shape /\ Once)
<1>1. Init => Once
  <2> SUFFICES ASSUME Init PROVE Once
    OBVIOUS
  <2>1. \A t \in Transactions : submitted[t] = 0 /\ ~Waits(t) /\ ~InQueue(t) /\ ~Written(t)
    BY DEF Init, Waits, InQueue, Written
  <2>2. OneRequest /\ OneEntry /\ OneWrite
    BY DEF Init, OneRequest, OneEntry, OneWrite
  <2> QED
    BY <2>1, <2>2 DEF Once, SentOnce, Unsent, OnePlace
<1>2. Shape /\ Once /\ [Next]_vars => (Shape /\ Once)'
  BY NextShape, NextOnce
<1> QED
  BY <1>1, <1>2, InitShape, PTL DEF Spec

\* An uncertain write is never replayed (RecoveringClient.submit_transaction): a
\* submission is put on a socket at most once and its frames reach the receiver at
\* most once, through any number of lost answers, reconnects and crashes.
THEOREM NeverReplayedHolds == Spec => []NeverReplayed
<1>1. Shape /\ Once => NeverReplayed
  BY DEF Shape, Types, HistoryTypes, Once, SentOnce, OneWrite, NeverReplayed, IsInjective
<1> QED
  BY <1>1, OnceHolds, PTL

---------------------------------------------------------------------------
(***************************************************************************)
(* Truth.                                                                  *)
(***************************************************************************)
\* What a thread puts on its connection.
LEMMA SentFacts ==
    ASSUME Shape, NEW t \in Threads, Send(t)
    PROVE  \E r \in Requests, c \in Connections :
              /\ c = connection /\ r.id = NextId(c) /\ r.transaction = call[t].transaction
              /\ r.op \in {"submit", "lookup"} => t = "app" /\ r.transaction \in Transactions
              /\ r.op = "submit" => Fresh(r.transaction)
              /\ r.op = "lookup" => ~Fresh(r.transaction)
              /\ call' = [call EXCEPT ![t].stage = IF @ = "send" THEN "await" ELSE "reawait",
                                      ![t].id = r.id]
              /\ c \notin serving => inbox' = inbox
              /\ \A d \in Connections \ {c} : inbox'[d] = inbox[d]
              /\ \A i \in 1 .. Len(inbox'[c]) :
                    \/ i \in 1 .. Len(inbox[c]) /\ inbox'[c][i] = inbox[c][i]
                    \/ i = Len(inbox[c]) + 1 /\ inbox'[c][i] = r
<1>1. PICK r : r = Request(Method(call[t]), NextId(connection),
                           IF Method(call[t]) = "lookup" THEN 0 ELSE call[t].lease,
                           call[t].transaction)
  OBVIOUS
<1>2. /\ call[t].stage \in {"send", "resend"} /\ call[t].op # "next"
      /\ inbox' = IF connection \in serving
                  THEN [inbox EXCEPT ![connection] = Append(@, r)] ELSE inbox
      /\ call' = [call EXCEPT ![t].stage = IF @ = "send" THEN "await" ELSE "reawait",
                              ![t].id = r.id]
  BY <1>1 DEF Send
<1>3. connection \in Connections /\ r \in Requests
  BY <1>1, <1>2, SentRequest, SocketFacts
<1>4. PICK c \in Connections : c = connection
  BY <1>3
<1>5. /\ \A d \in Connections \ {c} : inbox'[d] = inbox[d]
      /\ \A i \in 1 .. Len(inbox'[c]) :
            \/ i \in 1 .. Len(inbox[c]) /\ inbox'[c][i] = inbox[c][i]
            \/ i = Len(inbox[c]) + 1 /\ inbox'[c][i] = r
  <2>1. inbox \in [Connections -> Seq(Requests)]
    BY DEF Shape, Types, SocketTypes
  <2> QED
    BY <1>2, <1>3, <1>4, <2>1
<1>6. r.op = Method(call[t]) /\ r.id = NextId(c) /\ r.transaction = call[t].transaction
  BY <1>1, <1>4 DEF Request
<1>7. /\ CallShape(call[t]) /\ call[t] \in Calls /\ drawn \in Nat
  BY <1>2, InsideAlone DEF Unlocked, Shape, Types, ClientTypes
<1>8. ASSUME r.op \in {"submit", "lookup"}
      PROVE  /\ t = "app" /\ r.transaction \in Transactions
             /\ call[t].op \in {"submit", "outcome"} /\ r.transaction \in 1 .. drawn
  <2>1. call[t].op \in {"submit", "outcome"}
    BY <1>2, <1>6, <1>7, <1>8 DEF Method, CallShape, Calls, Ops
  <2>2. t = "app"
    BY <2>1 DEF Shape, Calling, Roles, Threads
  <2> QED
    BY <1>3, <1>6, <1>7, <1>8, <2>1, <2>2 DEF CallShape, Requests
<1>9. r.op = "submit" => Fresh(r.transaction)
  <2>1. r.op = "submit" => call[t].op = "submit" /\ call[t].stage = "send"
    BY <1>2, <1>6 DEF Method, Retry
  <2> QED
    BY <1>6, <1>8, <2>1 DEF Fresh
<1>10. r.op = "lookup" => ~Fresh(r.transaction)
  <2>1. r.op = "lookup" => call[t].op = "outcome" \/ call[t].stage = "resend"
    BY <1>2, <1>6, <1>7, <1>8 DEF Method, Retry
  <2>2. r.op = "lookup" => ~(r.transaction > drawn)
    BY <1>7, <1>8
  <2> QED
    BY <1>2, <1>8, <2>1, <2>2 DEF Fresh
<1>11. c \notin serving => inbox' = inbox
  BY <1>2, <1>4
<1>12. r.op \in {"submit", "lookup"} => t = "app" /\ r.transaction \in Transactions
  BY <1>8
<1>13. /\ c = connection /\ r.id = NextId(c) /\ r.transaction = call[t].transaction
       /\ r.op \in {"submit", "lookup"} => t = "app" /\ r.transaction \in Transactions
       /\ r.op = "submit" => Fresh(r.transaction)
       /\ r.op = "lookup" => ~Fresh(r.transaction)
       /\ call' = [call EXCEPT ![t].stage = IF @ = "send" THEN "await" ELSE "reawait",
                               ![t].id = r.id]
       /\ c \notin serving => inbox' = inbox
       /\ \A d \in Connections \ {c} : inbox'[d] = inbox[d]
       /\ \A i \in 1 .. Len(inbox'[c]) :
             \/ i \in 1 .. Len(inbox[c]) /\ inbox'[c][i] = inbox[c][i]
             \/ i = Len(inbox[c]) + 1 /\ inbox'[c][i] = r
  BY <1>2, <1>4, <1>5, <1>6, <1>9, <1>10, <1>11, <1>12
<1> QED
  BY <1>3, <1>13

\* A transaction goes from being fresh to waiting, to the queue, to the receiver.
Flows(t) ==
    /\ Fresh(t)' => Fresh(t)
    /\ Waits(t)' => Waits(t) \/ Fresh(t)
    /\ InQueue(t)' => InQueue(t) \/ Waits(t)
    /\ Written(t)' => Written(t) \/ InQueue(t)
    /\ Written(t) => Written(t)'

LEMMA SentFlows ==
    ASSUME Shape, NEW u \in Threads, Send(u), NEW t \in Transactions
    PROVE  Flows(t)
<1>1. PICK r \in Requests, c \in Connections :
              /\ r.op = "submit" => Fresh(r.transaction)
              /\ \A d \in Connections \ {c} : inbox'[d] = inbox[d]
              /\ \A i \in 1 .. Len(inbox'[c]) :
                    \/ i \in 1 .. Len(inbox[c]) /\ inbox'[c][i] = inbox[c][i]
                    \/ i = Len(inbox[c]) + 1 /\ inbox'[c][i] = r
  BY SentFacts
<1>2. Waits(t)' => Waits(t) \/ Fresh(t)
  <2> SUFFICES ASSUME Waits(t)' PROVE Waits(t) \/ Fresh(t)
    OBVIOUS
  <2>1. PICK d \in Connections : \E i \in 1 .. Len(inbox'[d]) :
           inbox'[d][i].op = "submit" /\ inbox'[d][i].transaction = t
    BY DEF Waits, Submits
  <2>2. PICK i \in 1 .. Len(inbox'[d]) : inbox'[d][i].op = "submit" /\ inbox'[d][i].transaction = t
    BY <2>1
  <2>3. \/ i \in 1 .. Len(inbox[d]) /\ inbox'[d][i] = inbox[d][i]
        \/ inbox'[d][i] = r
    BY <1>1
  <2> QED
    BY <1>1, <2>2, <2>3 DEF Waits, Submits
<1>3. UNCHANGED <<queue, written>>
  BY DEF Send, bridge
<1> QED
  BY <1>2, <1>3, FreshKept DEF Flows, InQueue, Written

LEMMA StepFlows ==
    ASSUME Shape, Once, [Next]_vars, NEW t \in Transactions
    PROVE  Flows(t)
<1>1. ASSUME SubmitsShrink, UNCHANGED <<queue, written>>, Fresh(t)' => Fresh(t) PROVE Flows(t)
  BY <1>1, FewerSubmits DEF Flows, InQueue, Written
<1>2. CASE ClientStep
  <2>1. inbox' = inbox /\ UNCHANGED <<queue, written>>
    BY <1>2, ClientStepFacts DEF bridge
  <2> QED
    BY <1>1, <1>2, <2>1, SameInboxShrinks, FreshKept
<1>3. ASSUME NEW u \in Threads, Connect(u) PROVE Flows(t)
  <2>1. PICK c : c = opened + 1
    OBVIOUS
  <2>2. /\ inbox' = [inbox EXCEPT ![c] = <<Request("negotiate", 0, 0, 0)>>]
        /\ UNCHANGED <<queue, written>> /\ opened < MaxConnections
    BY <1>3, <2>1 DEF Connect
  <2>3. c \in Connections
    BY <2>1, <2>2, SocketFacts, RecoveringConstants DEF Connections
  <2>4. inbox'[c] = <<Request("negotiate", 0, 0, 0)>> /\ \A d \in Connections \ {c} : inbox'[d] = inbox[d]
    BY <2>2, <2>3 DEF Shape, Types, SocketTypes
  <2>5. \A i \in 1 .. Len(inbox'[c]) : inbox'[c][i] = Request("negotiate", 0, 0, 0)
    BY <2>4
  <2>6. \A i \in 1 .. Len(inbox'[c]) : inbox'[c][i].op # "submit"
    BY <2>5 DEF Request
  <2> QED
    BY <1>1, <1>3, <2>2, <2>3, <2>4, <2>6, GrownInboxShrinks, FreshKept
<1>4. ASSUME NEW u \in Threads, Send(u) PROVE Flows(t)
  BY <1>4, SentFlows
<1>5. ASSUME NEW c \in Connections, Serve(c) PROVE Flows(t)
  <2>1. SubmitsShrink /\ UNCHANGED <<client, written>>
    BY <1>5, ServeShrinks DEF Serve, history
  <2>2. (Waits(t)' => Waits(t)) /\ (Fresh(t)' => Fresh(t))
    BY <2>1, FewerSubmits, BridgeFresh
  <2>3. PICK r \in Requests : r = Head(inbox[c])
    BY <1>5, ServedRequest
  <2>4. CASE ~(r.op = "submit" /\ Admits(r))
    BY <1>1, <1>5, <2>1, <2>2, <2>3, <2>4 DEF Serve
  <2>5. CASE r.op = "submit" /\ Admits(r)
    <3>1. PICK q : q = [transaction |-> r.transaction, lease |-> r.lease, connection |-> c]
      OBVIOUS
    <3>2. queue' = Append(queue, q) /\ q.transaction = r.transaction /\ queue \in Seq(Entries)
      BY <1>5, <2>3, <2>5, <3>1 DEF Serve, Shape, Types, BridgeTypes
    <3>3. r.transaction \in Transactions
      BY <2>5 DEF Requests
    <3>4. Waits(r.transaction)
      BY <1>5, <2>3, <2>5, <3>3, ServedLeaves
    <3>5. InQueue(t)' => InQueue(t) \/ t = r.transaction
      BY <3>2 DEF InQueue
    <3> QED
      BY <2>1, <2>2, <3>4, <3>5 DEF Flows, Written
  <2> QED
    BY <2>4, <2>5
<1>6. ASSUME NEW c \in Connections, Disconnect(c) PROVE Flows(t)
  <2>1. UNCHANGED <<client, written>> /\ inbox' = [inbox EXCEPT ![c] = <<>>]
    BY <1>6 DEF Disconnect, history
  <2>2. inbox'[c] = <<>> /\ \A d \in Connections \ {c} : inbox'[d] = inbox[d]
    BY <2>1 DEF Shape, Types, SocketTypes
  <2>3. SubmitsShrink
    BY <2>2, GrownInboxShrinks
  <2>4. InQueue(t)' => InQueue(t)
    <3>1. CASE queue' = queue
      BY <3>1 DEF InQueue
    <3>2. CASE \E S : Filters(queue', queue, Len(queue), S)
      <4>1. \A i \in 1 .. Len(queue') : \E p \in 1 .. Len(queue) : queue'[i] = queue[p]
        BY <3>2 DEF Filters
      <4> QED
        BY <4>1 DEF InQueue
    <3> QED
      BY <1>6, <3>1, <3>2, DisconnectQueue
  <2> QED
    BY <2>1, <2>3, <2>4, FewerSubmits, BridgeFresh DEF Flows, Written
<1>7. CASE Dispatch
  <2>1. UNCHANGED <<client, inbox>> /\ queue # <<>> /\ queue' = Tail(queue)
        /\ queue \in Seq(Entries) /\ written \in Seq(Transactions)
    BY <1>7 DEF Dispatch, sockets, Shape, Types, BridgeTypes, HistoryTypes
  <2>2. PICK q \in Entries : q = Head(queue) /\ q = queue[1] /\ 1 \in 1 .. Len(queue)
    BY <2>1
  <2>3. \A i \in 1 .. Len(queue') : i + 1 \in 1 .. Len(queue) /\ queue'[i] = queue[i + 1]
    BY <2>1
  <2>4. InQueue(t)' => InQueue(t)
    BY <2>3 DEF InQueue
  <2>5. written' = written \/ written' = Append(written, q.transaction)
    BY <1>7, <2>2 DEF Dispatch
  <2>6. InQueue(q.transaction)
    BY <2>2 DEF InQueue
  <2>7. (Written(t)' => Written(t) \/ t = q.transaction) /\ (Written(t) => Written(t)')
    <3>1. CASE written' = written
      BY <3>1 DEF Written
    <3>2. CASE written' = Append(written, q.transaction)
      <4>1. q.transaction \in Transactions
        BY DEF Entries
      <4>2. /\ \A l \in 1 .. Len(written') :
                  \/ l \in 1 .. Len(written) /\ written'[l] = written[l]
                  \/ written'[l] = q.transaction
            /\ \A l \in 1 .. Len(written) : l \in 1 .. Len(written') /\ written'[l] = written[l]
        BY <2>1, <3>2, <4>1
      <4> QED
        BY <4>2 DEF Written
    <3> QED
      BY <2>5, <3>1, <3>2
  <2> QED
    BY <2>1, <2>4, <2>6, <2>7, SameInboxShrinks, FewerSubmits, BridgeFresh DEF Flows
<1>8. CASE Crash
  <2>1. UNCHANGED <<client, written>> /\ queue' = <<>> /\ inbox' = [c \in Connections |-> <<>>]
    BY <1>8 DEF Crash, history
  <2>2. ~Waits(t)' /\ ~InQueue(t)'
    BY <2>1 DEF Waits, InQueue
  <2> QED
    BY <2>1, <2>2, BridgeFresh DEF Flows, Written
<1>9. CASE UNCHANGED vars \/ Expire \/ Restart \/ Evicts
  <2>1. UNCHANGED <<client, inbox, queue, written>>
    BY <1>9 DEF vars, sockets, bridge, history, Expire, Restart, Evicts, Evict, Forget
  <2> QED
    BY <1>1, <2>1, SameInboxShrinks, BridgeFresh
<1> QED
  BY <1>2, <1>3, <1>4, <1>5, <1>6, <1>7, <1>8, <1>9, NextSplits

\* What was said stays true.
LEMMA SaysStays ==
    ASSUME NEW t \in Transactions, Flows(t), NEW v, Says(v, t), t \in lost => t \in lost'
    PROVE  Says(v, t)'
<1>1. Dead(t) => Dead(t)'
  BY DEF Flows, Dead
<1> QED
  BY <1>1 DEF Says, Flows

LEMMA DeadStays ==
    ASSUME NEW t \in Transactions, Flows(t), Dead(t)
    PROVE  Dead(t)'
  BY DEF Flows, Dead

\* What the bridge has lost it does not find again.
LEMMA LostGrows ==
    ASSUME [Next]_vars
    PROVE  \A t \in Transactions : t \in lost => t \in lost'
<1>1. CASE Crash \/ Evicts
  BY <1>1 DEF Crash, Evicts, Evict, Forget, history
<1>2. CASE ~(Crash \/ Evicts)
  <2>1. lost' = lost
    BY <1>2 DEF vars, history, Next, Exchange, ConnectRefused, Connect, Negotiated, NegotiationLost,
           Send, SendFails, DrawId, Receive, GiveUp, Read, Close, Acquire, Construct, Proceed,
           Submit, Check, Outcome, clientIdle, Serve, Disconnect, Dispatch, Expire, Restart, Evicts
  <2> QED
    BY <2>1
<1> QED
  BY <1>1, <1>2

\* Neither the journal nor the queue moves.
LEMMA QuietJournal ==
    ASSUME Shape, Once, Journal, [Next]_vars, UNCHANGED <<queue, journal, written>>
    PROVE  Journal'
<1>1. \A t \in Transactions : t \in lost => t \in lost'
  BY LostGrows
<1>2. \A t \in Transactions : (InQueue(t)' <=> InQueue(t)) /\ (Written(t)' <=> Written(t))
  BY DEF InQueue, Written
<1>3. \A t \in Transactions : Dead(t) => Dead(t)'
  BY StepFlows, DeadStays
<1> QED
  BY <1>1, <1>2, <1>3 DEF Journal

\* A submission is admitted: it was of unknown outcome and is queued.
LEMMA ServeJournal ==
    ASSUME Shape, Once, Journal, [Next]_vars, NEW c \in Connections, Serve(c)
    PROVE  Journal'
<1>1. PICK r \in Requests : r = Head(inbox[c])
  BY ServedRequest
<1>2. written' = written
  BY DEF Serve, history
<1>3. CASE ~(r.op = "submit" /\ Admits(r))
  BY <1>1, <1>2, <1>3, QuietJournal DEF Serve
<1>4. CASE r.op = "submit" /\ Admits(r)
  <2>1. PICK x \in Transactions : x = r.transaction
    BY <1>4 DEF Requests
  <2>2. PICK q : q = [transaction |-> r.transaction, lease |-> r.lease, connection |-> c]
    OBVIOUS
  <2>3. /\ queue' = Append(queue, q) /\ q.transaction = x /\ queue \in Seq(Entries)
        /\ journal' = [journal EXCEPT ![x] = "queued"]
    BY <1>1, <1>4, <2>1, <2>2 DEF Serve, Shape, Types, BridgeTypes
  <2>4. journal'[x] = "queued" /\ \A t \in Transactions \ {x} : journal'[t] = journal[t]
    BY <2>3 DEF Shape, Types, BridgeTypes
  <2>5. /\ \A l \in 1 .. Len(queue) : l \in 1 .. Len(queue') /\ queue'[l] = queue[l]
        /\ \A l \in 1 .. Len(queue') :
              \/ l \in 1 .. Len(queue) /\ queue'[l] = queue[l]
              \/ queue'[l] = q
        /\ Len(queue) + 1 \in 1 .. Len(queue') /\ queue'[Len(queue) + 1] = q
    BY <2>3
  <2>6. InQueue(x)' /\ \A t \in Transactions \ {x} : InQueue(t)' <=> InQueue(t)
    BY <2>3, <2>5 DEF InQueue
  <2>7. \A t \in Transactions : Written(t)' <=> Written(t)
    BY <1>2 DEF Written
  <2>8. \A t \in Transactions : Dead(t) => Dead(t)'
    BY StepFlows, DeadStays
  <2> QED
    BY <2>4, <2>6, <2>7, <2>8, LostGrows DEF Journal
<1> QED
  BY <1>3, <1>4

\* Queued work that is dropped is dead, and recorded so.
LEMMA DroppedIsDead ==
    ASSUME Shape, Once, [Next]_vars, NEW x \in Transactions, InQueue(x), ~InQueue(x)',
           written' = written
    PROVE  Dead(x)'
<1>1. ~Waits(x) /\ ~Written(x) /\ submitted[x] # 0
  BY DEF Once, OnePlace, Unsent
<1>2. ~Fresh(x)
  BY <1>1 DEF Once, SentOnce
<1>3. Flows(x)
  BY StepFlows
<1> QED
  BY <1>1, <1>2, <1>3 DEF Dead, Flows, Written

LEMMA DisconnectJournal ==
    ASSUME Shape, Once, Journal, [Next]_vars, NEW c \in Connections, Disconnect(c)
    PROVE  Journal'
<1>1. written' = written
  BY DEF Disconnect, history
<1>2. CASE UNCHANGED <<queue, journal>>
  BY <1>1, <1>2, QuietJournal
<1>3. CASE ~UNCHANGED <<queue, journal>>
  <2>1. PICK cancelled : cancelled = {q.transaction : q \in {x \in ToSet(queue) : x.connection = c}}
    OBVIOUS
  <2>2. /\ journal' = [t \in Transactions |-> IF t \in cancelled THEN "unsent" ELSE journal[t]]
        /\ queue' \in Seq(Entries) /\ queue \in Seq(Entries)
        /\ Filters(queue', queue, Len(queue), {q \in ToSet(queue) : q.connection = c})
    BY <1>3, <2>1, DisconnectQueue DEF Disconnect, Shape, Types, BridgeTypes
  <2>3. \A i \in 1 .. Len(queue) : queue[i] \in ToSet(queue)
    BY <2>2 DEF ToSet
  <2>4. \A q \in ToSet(queue) : \E i \in 1 .. Len(queue) : q = queue[i]
    BY <2>2 DEF ToSet
  <2>5. \A i \in 1 .. Len(queue') :
           (\E p \in 1 .. Len(queue) : queue'[i] = queue[p]) /\ queue'[i].connection # c
    <3> SUFFICES ASSUME NEW i \in 1 .. Len(queue')
                 PROVE  (\E p \in 1 .. Len(queue) : queue'[i] = queue[p]) /\ queue'[i].connection # c
      OBVIOUS
    <3>1. PICK p \in 1 .. Len(queue) : queue'[i] = queue[p]
      BY <2>2 DEF Filters
    <3>2. queue'[i] \notin {q \in ToSet(queue) : q.connection = c}
      BY <2>2 DEF Filters
    <3> QED
      BY <2>3, <3>1, <3>2
  <2>6. \A p \in 1 .. Len(queue) : queue[p].connection # c => \E i \in 1 .. Len(queue') : queue'[i] = queue[p]
    BY <2>2 DEF Filters
  <2>7. ASSUME NEW t \in Transactions, t \in cancelled PROVE InQueue(t) /\ ~InQueue(t)'
    <3>1. PICK q \in ToSet(queue) : q.connection = c /\ q.transaction = t
      BY <2>1, <2>7
    <3>2. PICK p \in 1 .. Len(queue) : queue[p] = q
      BY <2>4
    <3>3. InQueue(t)
      BY <3>1, <3>2 DEF InQueue
    <3>4. ASSUME NEW i \in 1 .. Len(queue'), queue'[i].transaction = t PROVE FALSE
      <4>1. PICK l \in 1 .. Len(queue) : queue'[i] = queue[l]
        BY <2>5
      <4>2. l = p
        BY <3>1, <3>2, <3>4, <4>1 DEF Once, OneEntry
      <4> QED
        BY <2>5, <3>1, <3>2, <4>1, <4>2
    <3> QED
      BY <3>3, <3>4 DEF InQueue
  <2>8. ASSUME NEW t \in Transactions, t \notin cancelled PROVE InQueue(t)' <=> InQueue(t)
    <3>1. ASSUME InQueue(t) PROVE InQueue(t)'
      <4>1. PICK p \in 1 .. Len(queue) : queue[p].transaction = t
        BY <3>1 DEF InQueue
      <4>2. queue[p].connection # c
        BY <2>1, <2>3, <2>8, <4>1
      <4>3. PICK i \in 1 .. Len(queue') : queue'[i] = queue[p]
        BY <2>6, <4>2
      <4> QED
        BY <4>1, <4>3 DEF InQueue
    <3>2. ASSUME InQueue(t)' PROVE InQueue(t)
      BY <2>5, <3>2 DEF InQueue
    <3> QED
      BY <3>1, <3>2
  <2>9. \A t \in Transactions : journal'[t] = IF t \in cancelled THEN "unsent" ELSE journal[t]
    BY <2>2
  <2>10. \A t \in Transactions : Written(t)' <=> Written(t)
    BY <1>1 DEF Written
  <2>11. \A t \in Transactions : Dead(t) => Dead(t)'
    BY StepFlows, DeadStays
  <2>12. \A t \in Transactions : t \in cancelled => Dead(t)'
    BY <1>1, <2>7, DroppedIsDead
  <2> QED
    BY <2>7, <2>8, <2>9, <2>10, <2>11, <2>12, LostGrows DEF Journal
<1> QED
  BY <1>2, <1>3

LEMMA DispatchJournal ==
    ASSUME Shape, Once, Journal, [Next]_vars, Dispatch
    PROVE  Journal'
<1>1. queue # <<>> /\ queue' = Tail(queue) /\ queue \in Seq(Entries) /\ written \in Seq(Transactions)
  BY DEF Dispatch, Shape, Types, BridgeTypes, HistoryTypes
<1>2. PICK q \in Entries : q = Head(queue) /\ q = queue[1] /\ 1 \in 1 .. Len(queue)
  BY <1>1
<1>3. PICK x \in Transactions : x = q.transaction
  BY DEF Entries
<1>4. /\ \A i \in 1 .. Len(queue') : i + 1 \in 1 .. Len(queue) /\ queue'[i] = queue[i + 1] /\ i + 1 # 1
      /\ \A p \in 1 .. Len(queue) : p = 1 \/ (p - 1 \in 1 .. Len(queue') /\ queue'[p - 1] = queue[p])
  BY <1>1
<1>5. InQueue(x) /\ ~InQueue(x)'
  BY <1>2, <1>3, <1>4 DEF InQueue, Once, OneEntry
<1>6. \A t \in Transactions \ {x} : InQueue(t)' <=> InQueue(t)
  <2> SUFFICES ASSUME NEW t \in Transactions \ {x} PROVE InQueue(t)' <=> InQueue(t)
    OBVIOUS
  <2>1. ASSUME InQueue(t) PROVE InQueue(t)'
    <3>1. PICK p \in 1 .. Len(queue) : queue[p].transaction = t
      BY <2>1 DEF InQueue
    <3>2. p - 1 \in 1 .. Len(queue') /\ queue'[p - 1] = queue[p]
      BY <1>2, <1>3, <1>4, <3>1
    <3> QED
      BY <3>1, <3>2 DEF InQueue
  <2>2. ASSUME InQueue(t)' PROVE InQueue(t)
    BY <1>4, <2>2 DEF InQueue
  <2> QED
    BY <2>1, <2>2
<1>7. PICK outcome \in Finished :
          /\ journal' = [journal EXCEPT ![x] = outcome]
          /\ \/ outcome # "unsent" /\ written' = Append(written, x)
             \/ outcome # "succeeded" /\ written' = written
  BY <1>2, <1>3 DEF Dispatch, Finished
<1>8. /\ \A t \in Transactions \ {x} : journal'[t] = journal[t]
      /\ journal'[x] = outcome
  BY <1>7 DEF Shape, Types, BridgeTypes
<1>9. \A t \in Transactions \ {x} : Written(t)' <=> Written(t)
  <2>1. CASE written' = written
    BY <2>1 DEF Written
  <2>2. CASE written' = Append(written, x)
    <3>1. /\ \A l \in 1 .. Len(written') :
                \/ l \in 1 .. Len(written) /\ written'[l] = written[l]
                \/ written'[l] = x
          /\ \A l \in 1 .. Len(written) : l \in 1 .. Len(written') /\ written'[l] = written[l]
      BY <1>1, <2>2
    <3> QED
      BY <3>1 DEF Written
  <2> QED
    BY <1>7, <2>1, <2>2
<1>10. journal'[x] = "succeeded" => Written(x)'
  <2>1. written' = Append(written, x) => Len(written) + 1 \in 1 .. Len(written') /\ written'[Len(written) + 1] = x
    BY <1>1
  <2> QED
    BY <1>7, <1>8, <2>1 DEF Written
<1>11. journal'[x] = "unsent" => Dead(x)'
  BY <1>5, <1>7, <1>8, DroppedIsDead
<1>12. \A t \in Transactions : Dead(t) => Dead(t)'
  BY StepFlows, DeadStays
<1>13. \A t \in Transactions : t \in lost => t \in lost'
  BY LostGrows
<1>14. \A t \in Transactions \ {x} :
          /\ journal'[t] = "queued" <=> InQueue(t)'
          /\ journal'[t] = "succeeded" => Written(t)'
          /\ journal'[t] = "unsent" => Dead(t)'
          /\ journal'[t] = "unknown" /\ t \notin lost' => ~Written(t)'
  BY <1>6, <1>8, <1>9, <1>12, <1>13 DEF Journal
<1>15. /\ journal'[x] = "queued" <=> InQueue(x)'
       /\ journal'[x] # "unknown"
  BY <1>5, <1>8 DEF Finished
<1> QED
  BY <1>10, <1>11, <1>13, <1>14, <1>15 DEF Journal

\* A finished outcome is evicted, or an evicted one lost.
LEMMA EvictsJournal ==
    ASSUME Shape, Once, Journal, [Next]_vars, Evicts
    PROVE  Journal'
<1>1. UNCHANGED <<queue, written>>
  BY DEF Evicts, Evict, Forget, history
<1>2. PICK x \in Transactions :
          /\ journal[x] \notin {"queued", "unknown"}
          /\ \/ journal' = [journal EXCEPT ![x] = "evicted"]
             \/ journal' = [journal EXCEPT ![x] = "unknown"] /\ x \in lost'
  BY DEF Evicts, Evict, Forget
<1>3. /\ \A t \in Transactions \ {x} : journal'[t] = journal[t]
      /\ journal'[x] = "evicted" \/ (journal'[x] = "unknown" /\ x \in lost')
  BY <1>2 DEF Shape, Types, BridgeTypes
<1>4. \A t \in Transactions : (InQueue(t)' <=> InQueue(t)) /\ (Written(t)' <=> Written(t))
  BY <1>1 DEF InQueue, Written
<1>5. \A t \in Transactions : Dead(t) => Dead(t)'
  BY StepFlows, DeadStays
<1>6. \A t \in Transactions : t \in lost => t \in lost'
  BY LostGrows
<1> QED
  BY <1>2, <1>3, <1>4, <1>5, <1>6 DEF Journal

LEMMA NextJournal ==
    ASSUME Shape, Once, Journal, [Next]_vars
    PROVE  Journal'
<1>1. CASE ClientStep \/ (\E t \in Threads : Connect(t) \/ Send(t)) \/ Expire \/ Restart \/ UNCHANGED vars
  <2>1. ClientStep => UNCHANGED <<queue, journal, written>>
    BY ClientStepFacts DEF bridge
  <2> QED
    BY <1>1, <2>1, QuietJournal DEF Connect, Send, Expire, Restart, vars, bridge, history
<1>2. CASE Crash
  <2>1. /\ queue' = <<>> /\ journal' = [t \in Transactions |-> "unknown"] /\ written' = written
        /\ lost' = lost \union {t \in Transactions : journal[t] # "unknown"}
    BY <1>2 DEF Crash
  <2>2. \A t \in Transactions : t \notin lost' => ~Written(t)'
    BY <2>1 DEF Journal, Written
  <2>3. \A t \in Transactions : journal'[t] = "unknown" /\ ~InQueue(t)'
    BY <2>1 DEF InQueue
  <2> QED
    BY <2>2, <2>3 DEF Journal
<1> QED
  BY <1>1, <1>2, NextSplits, ServeJournal, DisconnectJournal, DispatchJournal, EvictsJournal

\* The requests of a connection are as before, less the first perhaps.
LEMMA ShiftedLookups ==
    ASSUME Shape, Lookups, NEW d \in Connections, NEW s \in {0, 1},
           \A i \in 1 .. Len(inbox'[d]) : i + s \in 1 .. Len(inbox[d]) /\ inbox'[d][i] = inbox[d][i + s],
           \A t \in Transactions : Fresh(t)' => Fresh(t)
    PROVE  LookupsOn(d)'
<1> SUFFICES ASSUME NEW i \in 1 .. Len(inbox'[d]), inbox'[d][i].op = "lookup",
                    NEW x, x = inbox'[d][i].transaction
             PROVE  /\ ~Fresh(x)'
                    /\ \A j \in 1 .. Len(inbox'[d]) :
                          inbox'[d][j].op = "submit" /\ inbox'[d][j].transaction = x => j < i
  BY DEF LookupsOn, Submits
<1>1. x = inbox[d][i + s].transaction
  OBVIOUS
<1>2. i + s \in 1 .. Len(inbox[d]) /\ inbox'[d][i] = inbox[d][i + s] /\ inbox[d][i + s].op = "lookup"
  OBVIOUS
<1>3. x \in Transactions
  <2>1. inbox[d][i + s] \in Requests
    BY <1>2 DEF Shape, Types, SocketTypes
  <2> QED
    BY <1>1, <1>2, <2>1 DEF Requests
<1>4. ~Fresh(x) /\ \A j \in 1 .. Len(inbox[d]) : Submits(d, j, x) => j < i + s
  BY <1>1, <1>2 DEF Lookups, LookupsOn
<1>5. ~Fresh(x)' 
  BY <1>1, <1>2, <1>3, <1>4
<1>6. ASSUME NEW j \in 1 .. Len(inbox'[d]), inbox'[d][j].op = "submit", inbox'[d][j].transaction = x
      PROVE  j < i
  <2>1. j + s \in 1 .. Len(inbox[d]) /\ Submits(d, j + s, x)
    BY <1>6 DEF Submits
  <2> QED
    BY <1>4, <2>1
<1> QED
  BY <1>5, <1>6

LEMMA SentLookups ==
    ASSUME Shape, Lookups, NEW t \in Threads, Send(t)
    PROVE  Lookups'
<1>1. PICK r \in Requests, c \in Connections :
              /\ c = connection /\ r.transaction = call[t].transaction
              /\ r.op \in {"submit", "lookup"} => t = "app" /\ r.transaction \in Transactions
              /\ r.op = "submit" => Fresh(r.transaction)
              /\ r.op = "lookup" => ~Fresh(r.transaction)
              /\ c \notin serving => inbox' = inbox
              /\ \A d \in Connections \ {c} : inbox'[d] = inbox[d]
              /\ \A i \in 1 .. Len(inbox'[c]) :
                    \/ i \in 1 .. Len(inbox[c]) /\ inbox'[c][i] = inbox[c][i]
                    \/ i = Len(inbox[c]) + 1 /\ inbox'[c][i] = r
  BY SentFacts
<1>2. serving' = serving
  BY DEF Send, bridge
<1>3. \A u \in Transactions : Fresh(u)' => Fresh(u)
  BY FreshKept
<1>4. \A d \in Connections \ serving' : inbox'[d] = <<>>
  BY <1>1, <1>2 DEF Lookups
<1>5. \A d \in Connections \ {c} : LookupsOn(d)'
  <2> SUFFICES ASSUME NEW d \in Connections \ {c} PROVE LookupsOn(d)'
    OBVIOUS
  <2>1. \A i \in 1 .. Len(inbox'[d]) : i + 0 \in 1 .. Len(inbox[d]) /\ inbox'[d][i] = inbox[d][i + 0]
    BY <1>1
  <2> QED
    BY <1>3, <2>1, ShiftedLookups
<1>6. LookupsOn(c)'
  <2> SUFFICES ASSUME NEW i \in 1 .. Len(inbox'[c]), inbox'[c][i].op = "lookup",
                    NEW x, x = inbox'[c][i].transaction
               PROVE  /\ ~Fresh(x)'
                      /\ \A j \in 1 .. Len(inbox'[c]) :
                            inbox'[c][j].op = "submit" /\ inbox'[c][j].transaction = x => j < i
    BY DEF LookupsOn, Submits
  <2>0. Len(inbox[c]) \in Nat
    BY SocketFacts
  <2>1. CASE i \in 1 .. Len(inbox[c]) /\ inbox'[c][i] = inbox[c][i]
    <3>1. x = inbox[c][i].transaction
      BY <2>1
    <3>2. x \in Transactions
      <4>1. inbox[c][i] \in Requests
        BY <2>1 DEF Shape, Types, SocketTypes
      <4> QED
        BY <2>1, <3>1, <4>1 DEF Requests
    <3>3. ~Fresh(x) /\ \A j \in 1 .. Len(inbox[c]) : Submits(c, j, x) => j < i
      BY <2>1, <3>1 DEF Lookups, LookupsOn
    <3>4. ~Fresh(x)' 
      BY <1>3, <2>1, <3>1, <3>2, <3>3
    <3>5. ASSUME NEW j \in 1 .. Len(inbox'[c]), inbox'[c][j].op = "submit", inbox'[c][j].transaction = x
          PROVE  j < i
      <4>1. ~(inbox'[c][j] = r)
        BY <1>1, <3>3, <3>5
      <4>2. j \in 1 .. Len(inbox[c]) /\ inbox'[c][j] = inbox[c][j]
        BY <1>1, <4>1
      <4> QED
        BY <3>3, <3>5, <4>2 DEF Submits
    <3> QED
      BY <3>4, <3>5
  <2>2. CASE i = Len(inbox[c]) + 1 /\ inbox'[c][i] = r
    <3>1. x \in Transactions /\ x = r.transaction
      BY <1>1, <2>2
    <3>2. ~Fresh(x)' 
      BY <1>1, <1>3, <2>2, <3>1
    <3>3. ASSUME NEW j \in 1 .. Len(inbox'[c]), inbox'[c][j].op = "submit"
          PROVE  j < i
      <4>1. ~(inbox'[c][j] = r)
        BY <2>2, <3>3
      <4>2. j \in 1 .. Len(inbox[c])
        BY <1>1, <4>1
      <4> QED
        BY <2>0, <2>2, <4>2
    <3> QED
      BY <3>2, <3>3
  <2> QED
    BY <1>1, <2>1, <2>2
<1> QED
  BY <1>4, <1>5, <1>6 DEF Lookups

LEMMA ConnectLookups ==
    ASSUME Shape, Lookups, NEW t \in Threads, Connect(t)
    PROVE  Lookups'
<1>1. PICK c : c = opened + 1
  OBVIOUS
<1>2. /\ inbox' = [inbox EXCEPT ![c] = <<Request("negotiate", 0, 0, 0)>>]
      /\ serving' = serving \union {c} /\ opened < MaxConnections
  BY <1>1 DEF Connect
<1>3. c \in Connections
  BY <1>1, <1>2, SocketFacts, RecoveringConstants DEF Connections
<1>4. inbox'[c] = <<Request("negotiate", 0, 0, 0)>> /\ \A d \in Connections \ {c} : inbox'[d] = inbox[d]
  BY <1>2, <1>3 DEF Shape, Types, SocketTypes
<1>5. \A d \in Connections \ {c} : LookupsOn(d)'
  <2> SUFFICES ASSUME NEW d \in Connections \ {c} PROVE LookupsOn(d)'
    OBVIOUS
  <2>1. \A i \in 1 .. Len(inbox'[d]) : i + 0 \in 1 .. Len(inbox[d]) /\ inbox'[d][i] = inbox[d][i + 0]
    BY <1>4
  <2> QED
    BY <2>1, FreshKept, ShiftedLookups
<1>6. LookupsOn(c)'
  <2>1. \A i \in 1 .. Len(inbox'[c]) : inbox'[c][i] = Request("negotiate", 0, 0, 0)
    BY <1>4
  <2>2. \A i \in 1 .. Len(inbox'[c]) : inbox'[c][i].op # "lookup"
    BY <2>1 DEF Request
  <2> QED
    BY <2>2 DEF LookupsOn
<1>7. \A d \in Connections \ serving' : inbox'[d] = <<>>
  BY <1>2, <1>4 DEF Lookups
<1> QED
  BY <1>5, <1>6, <1>7 DEF Lookups

\* Lookups is inductive.
LEMMA NextLookups ==
    ASSUME Shape, Lookups, [Next]_vars
    PROVE  Lookups'
<1>0. ASSUME NEW d \in Connections, inbox'[d] = inbox[d] \/ inbox'[d] = <<>>,
             \A t \in Transactions : Fresh(t)' => Fresh(t)
      PROVE  LookupsOn(d)'
  <2>1. \A i \in 1 .. Len(inbox'[d]) : i + 0 \in 1 .. Len(inbox[d]) /\ inbox'[d][i] = inbox[d][i + 0]
    BY <1>0
  <2> QED
    BY <1>0, <2>1, ShiftedLookups
<1>1. CASE ClientStep
  <2>1. inbox' = inbox /\ serving' = serving
    BY <1>1, ClientStepFacts DEF bridge
  <2>2. \A d \in Connections : inbox'[d] = inbox[d]
    BY <2>1
  <2> QED
    BY <1>0, <1>1, <2>1, <2>2, FreshKept DEF Lookups
<1>2. CASE Dispatch \/ Expire \/ Restart \/ Evicts \/ UNCHANGED vars
  <2>1. inbox' = inbox /\ serving' = serving /\ UNCHANGED client
    BY <1>2 DEF Dispatch, Expire, Restart, Evicts, Evict, Forget, vars, bridge, sockets
  <2>2. \A d \in Connections : inbox'[d] = inbox[d]
    BY <2>1
  <2> QED
    BY <1>0, <2>1, <2>2, BridgeFresh DEF Lookups
<1>3. CASE Crash
  <2>1. inbox' = [d \in Connections |-> <<>>] /\ UNCHANGED client
    BY <1>3 DEF Crash
  <2>2. \A d \in Connections : inbox'[d] = <<>>
    BY <2>1
  <2> QED
    BY <1>0, <2>1, <2>2, BridgeFresh DEF Lookups
<1>4. ASSUME NEW c \in Connections, Disconnect(c) PROVE Lookups'
  <2>1. inbox' = [inbox EXCEPT ![c] = <<>>] /\ serving' = serving \ {c} /\ UNCHANGED client
    BY <1>4 DEF Disconnect
  <2>2. inbox'[c] = <<>> /\ \A d \in Connections \ {c} : inbox'[d] = inbox[d]
    BY <2>1 DEF Shape, Types, SocketTypes
  <2>3. \A d \in Connections : inbox'[d] = inbox[d] \/ inbox'[d] = <<>>
    BY <2>2
  <2>4. \A d \in Connections \ serving' : inbox'[d] = <<>>
    BY <2>1, <2>2 DEF Lookups
  <2> QED
    BY <1>0, <2>1, <2>3, <2>4, BridgeFresh DEF Lookups
<1>5. ASSUME NEW c \in Connections, Serve(c) PROVE Lookups'
  <2>1. c \in serving /\ serving' = serving /\ UNCHANGED client
    BY <1>5 DEF Serve
  <2>2. /\ \A d \in Connections \ {c} : inbox'[d] = inbox[d]
        /\ \A i \in 1 .. Len(inbox'[c]) : i + 1 \in 1 .. Len(inbox[c]) /\ inbox'[c][i] = inbox[c][i + 1]
    BY <1>5, ServedRequest
  <2>3. LookupsOn(c)'
    BY <2>1, <2>2, BridgeFresh, ShiftedLookups
  <2>4. \A d \in Connections \ {c} : LookupsOn(d)'
    BY <1>0, <2>1, <2>2, BridgeFresh
  <2>5. \A d \in Connections \ serving' : inbox'[d] = <<>>
    BY <2>1, <2>2 DEF Lookups
  <2> QED
    BY <2>3, <2>4, <2>5 DEF Lookups
<1> QED
  BY <1>1, <1>2, <1>3, <1>4, <1>5, NextSplits, SentLookups, ConnectLookups

\* No answer appears: those left still hold.
LEMMA ShrunkAnswers ==
    ASSUME Shape, Once, Journal, Answered, [Next]_vars, OutboxShrinks
    PROVE  Answered'
<1> SUFFICES ASSUME NEW c \in Connections, NEW i \in 1 .. Len(outbox'[c]), NEW a, a = outbox'[c][i],
                    a.about.op \in {"submit", "lookup"}
             PROVE  Says(a.value, a.about.transaction)'
  BY DEF Answered
<1>1. PICK j \in 1 .. Len(outbox[c]) : a = outbox[c][j]
  BY DEF OutboxShrinks
<1>2. a \in Answers
  BY <1>1 DEF Shape, Types, SocketTypes
<1>3. PICK x \in Transactions : x = a.about.transaction
  BY <1>2 DEF Answers, Requests
<1>4. PICK v : v = a.value
  OBVIOUS
<1>5. Says(v, x)
  BY <1>1, <1>3, <1>4 DEF Answered
<1>6. Says(v, x)'
  BY <1>5, StepFlows, LostGrows, SaysStays
<1> QED
  BY <1>3, <1>4, <1>6

\* A submission that was not admitted is dead.
LEMMA RefusedIsDead ==
    ASSUME Shape, Once, [Next]_vars, NEW c \in Connections, Serve(c), NEW x \in Transactions,
           Head(inbox[c]).op = "submit", Head(inbox[c]).transaction = x, ~Admits(Head(inbox[c]))
    PROVE  Dead(x)'
<1>1. Waits(x) /\ ~Waits(x)'
  BY ServedLeaves
<1>2. UNCHANGED <<queue, written>>
  BY DEF Serve, history
<1>3. ~InQueue(x) /\ ~Written(x) /\ submitted[x] # 0
  BY <1>1 DEF Once, OnePlace, Unsent
<1>4. ~Fresh(x)
  BY <1>3 DEF Once, SentOnce
<1>5. ~Fresh(x)'
  BY <1>4, StepFlows DEF Flows
<1> QED
  BY <1>1, <1>2, <1>3, <1>5 DEF Dead, InQueue, Written

\* What the journal holds when it is looked up: unless its record was lost, a
\* submission of unknown outcome is nowhere, since the lookup came after it.
LEMMA LookedUp ==
    ASSUME Shape, Sessions, Once, Journal, Lookups, NEW c \in Connections, Serve(c),
           NEW x \in Transactions, Head(inbox[c]).op = "lookup", Head(inbox[c]).transaction = x
    PROVE  Says(journal[x], x)
<1>1. /\ 1 \in 1 .. Len(inbox[c]) /\ inbox[c][1].op = "lookup" /\ inbox[c][1].transaction = x
  BY ServedRequest
<1>2. c \in serving
  BY DEF Serve
<1>3. ~Fresh(x) /\ \A j \in 1 .. Len(inbox[c]) : Submits(c, j, x) => j < 1
  BY <1>1 DEF Lookups, LookupsOn
<1>4. c \in registered
  BY <1>1, <1>2 DEF Sessions, Registration
<1>5. ASSUME Waits(x) PROVE FALSE
  <2>1. PICK d \in Connections : \E j \in 1 .. Len(inbox[d]) : Submits(d, j, x)
    BY <1>5 DEF Waits
  <2>2. PICK j \in 1 .. Len(inbox[d]) : Submits(d, j, x)
    BY <2>1
  <2>3. d \in serving
    <3>1. inbox[d] # <<>>
      OBVIOUS
    <3> QED
      BY <3>1 DEF Lookups
  <2>4. d \in registered
    BY <2>2, <2>3 DEF Submits, Sessions, Registration
  <2>5. d = c
    BY <1>4, <2>4 DEF Sessions, Registration
  <2> QED
    BY <1>3, <2>2, <2>5
<1>6. journal[x] = "unknown" /\ x \notin lost => Dead(x)
  BY <1>3, <1>5 DEF Journal, Dead
<1> QED
  BY <1>6 DEF Says, Journal, Shape, Types, BridgeTypes, Journalled, Finished

LEMMA ServeAnswered ==
    ASSUME Shape, Sessions, Once, Journal, Lookups, Answered, [Next]_vars,
           NEW c \in Connections, Serve(c)
    PROVE  Answered'
<1>1. PICK r \in Requests : r = Head(inbox[c])
  BY ServedRequest
<1>2. PICK a \in Answers :
         /\ a.value = Respond(r, c) /\ a.about.op = r.op /\ a.about.transaction = r.transaction
         /\ outbox' = IF c \in closed THEN outbox ELSE [outbox EXCEPT ![c] = Append(@, a)]
  BY <1>1, ServedAnswer
<1>3. CASE c \in closed
  <2>1. \A d \in Connections : outbox'[d] = outbox[d]
    BY <1>2, <1>3
  <2> QED
    BY <2>1, DroppedShrinks, ShrunkAnswers
<1>4. CASE c \notin closed
  <2>1. \A d \in Connections : \A i \in 1 .. Len(outbox'[d]) :
           \/ \E j \in 1 .. Len(outbox[d]) : outbox'[d][i] = outbox[d][j]
           \/ outbox'[d][i] = a
    <3>1. outbox \in [Connections -> Seq(Answers)] /\ outbox' = [outbox EXCEPT ![c] = Append(@, a)]
      BY <1>2, <1>4 DEF Shape, Types, SocketTypes
    <3> QED
      BY <3>1
  <2>2. ASSUME a.about.op \in {"submit", "lookup"} PROVE Says(a.value, a.about.transaction)'
    <3>1. PICK x \in Transactions : x = r.transaction
      BY <1>2, <2>2 DEF Requests
    <3>2. PICK v : v = a.value
      OBVIOUS
    <3>3. ASSUME Says(v, x) PROVE Says(v, x)'
      BY <3>3, StepFlows, LostGrows, SaysStays
    <3>4. CASE r.op = "lookup"
      <4>1. v = journal[x]
        BY <1>2, <3>1, <3>2, <3>4 DEF Respond
      <4> QED
        BY <1>1, <1>2, <3>1, <3>2, <3>3, <3>4, <4>1, LookedUp
    <3>5. CASE r.op = "submit" /\ Admits(r)
      <4>1. v = "queued"
        BY <1>2, <3>2, <3>5 DEF Respond
      <4> QED
        BY <1>2, <3>1, <3>2, <4>1 DEF Says
    <3>6. CASE r.op = "submit" /\ ~Admits(r) /\ journal[x] = "unknown"
      <4>1. Dead(x)' /\ v = "rejected"
        BY <1>1, <1>2, <3>1, <3>2, <3>6, RefusedIsDead DEF Respond
      <4> QED
        BY <1>2, <3>1, <3>2, <4>1 DEF Says
    <3>7. CASE r.op = "submit" /\ ~Admits(r) /\ journal[x] # "unknown"
      <4>1. v = journal[x]
        BY <1>2, <3>1, <3>2, <3>7 DEF Respond
      <4>2. Says(v, x)
        BY <3>7, <4>1 DEF Says, Journal, Shape, Types, BridgeTypes, Journalled, Finished
      <4> QED
        BY <1>2, <3>1, <3>2, <3>3, <4>2
    <3> QED
      BY <1>2, <2>2, <3>4, <3>5, <3>6, <3>7
  <2> SUFFICES ASSUME NEW d \in Connections, NEW i \in 1 .. Len(outbox'[d]), NEW b, b = outbox'[d][i],
                      b.about.op \in {"submit", "lookup"}
               PROVE  Says(b.value, b.about.transaction)'
    BY DEF Answered
  <2>3. CASE b = a
    BY <2>2, <2>3
  <2>4. CASE b # a
    <3>1. PICK j \in 1 .. Len(outbox[d]) : b = outbox[d][j]
      BY <2>1, <2>4
    <3>2. b \in Answers
      BY <3>1 DEF Shape, Types, SocketTypes
    <3>3. PICK x \in Transactions : x = b.about.transaction
      BY <3>2 DEF Answers, Requests
    <3>4. PICK v : v = b.value
      OBVIOUS
    <3>5. Says(v, x)
      BY <3>1, <3>3, <3>4 DEF Answered
    <3>6. Says(v, x)'
      BY <3>5, StepFlows, LostGrows, SaysStays
    <3> QED
      BY <3>3, <3>4, <3>6
  <2> QED
    BY <2>3, <2>4
<1> QED
  BY <1>3, <1>4

LEMMA NextAnswered ==
    ASSUME Shape, Sessions, Once, Journal, Lookups, Answered, [Next]_vars
    PROVE  Answered'
<1>1. ASSUME outbox' = outbox PROVE Answered'
  <2>1. \A d \in Connections : outbox'[d] = outbox[d]
    BY <1>1
  <2> QED
    BY <2>1, DroppedShrinks, ShrunkAnswers
<1>2. CASE ClientStep
  BY <1>2, ClientStepFacts, ShrunkAnswers
<1>3. ASSUME NEW t \in Threads, Connect(t) PROVE Answered'
  <2>1. outbox' = Unread(connection)
    BY <1>3 DEF Connect, Advance
  <2> QED
    BY <2>1, Discarded, DroppedShrinks, ShrunkAnswers
<1>4. ASSUME NEW t \in Threads, Send(t) PROVE Answered'
  BY <1>1, <1>4 DEF Send
<1>5. ASSUME NEW c \in Connections, Disconnect(c) PROVE Answered'
  BY <1>1, <1>5 DEF Disconnect
<1>6. CASE Dispatch \/ Expire \/ Restart \/ Crash \/ Evicts \/ UNCHANGED vars
  BY <1>1, <1>6 DEF Dispatch, Expire, Restart, Crash, Evicts, Evict, Forget, vars, sockets
<1> QED
  BY <1>2, <1>3, <1>4, <1>5, <1>6, NextSplits, ServeAnswered

\* After a step of the client that sends nothing no thread waits for an answer: the
\* lock keeps the others out.
LEMMA NobodyAwaits ==
    ASSUME Shape, ClientStep \/ \E t \in Threads : Connect(t)
    PROVE  \A u \in Threads : call'[u].stage \notin {"await", "reawait"}
<1>1. /\ "app" \in Threads /\ "aux" \in Threads /\ call \in [Threads -> Calls]
  BY DEF Shape, Calling, Threads
<1>2. ASSUME LockFree PROVE \A u \in Threads : Others(u)
  BY <1>2 DEF LockFree, Others
<1>3. ASSUME NEW t \in Threads, NEW k, Others(t), call' = [call EXCEPT ![t] = k],
             k.stage \notin {"await", "reawait"}
      PROVE  \A u \in Threads : call'[u].stage \notin {"await", "reawait"}
  <2>1. call'[t] = k /\ \A u \in Threads \ {t} : call'[u] = call[u]
    BY <1>1, <1>3
  <2>2. \A u \in Threads \ {t} : call[u].stage \notin {"await", "reawait"}
    BY <1>3 DEF Others, Unlocked
  <2> QED
    BY <1>3, <2>1, <2>2
<1>4. ASSUME NEW t \in Threads, NEW v, call[t].stage \notin Unlocked, Return(t, v)
      PROVE  \A u \in Threads : call'[u].stage \notin {"await", "reawait"}
  <2>1. PICK k : k = Idle
    OBVIOUS
  <2>2. call' = [call EXCEPT ![t] = k] /\ k.stage = "idle"
    BY <1>4, <2>1 DEF Return, Idle
  <2> QED
    BY <1>3, <1>4, <2>2, InsideAlone
<1>5. ASSUME NEW t \in Threads, NEW s, call[t].stage \notin Unlocked,
             call' = [call EXCEPT ![t].stage = s], s \notin {"await", "reawait"}
      PROVE  \A u \in Threads : call'[u].stage \notin {"await", "reawait"}
  <2>1. PICK k : k = [call[t] EXCEPT !.stage = s]
    OBVIOUS
  <2>2. call' = [call EXCEPT ![t] = k] /\ k.stage = s
    BY <1>1, <1>5, <2>1 DEF Calls
  <2> QED
    BY <1>3, <1>5, <2>2, InsideAlone
<1>6. ASSUME NEW t \in Threads, call[t].stage \notin Unlocked, ExchangeFails(t)
      PROVE  \A u \in Threads : call'[u].stage \notin {"await", "reawait"}
  BY <1>4, <1>5, <1>6 DEF ExchangeFails
<1>7. ASSUME NEW t \in Threads, ConnectRefused(t) \/ NegotiationLost(t)
      PROVE  \A u \in Threads : call'[u].stage \notin {"await", "reawait"}
  BY <1>4, <1>7 DEF ConnectRefused, NegotiationLost, ConnectFails, Unlocked
<1>8. ASSUME NEW t \in Threads, SendFails(t) \/ GiveUp(t)
      PROVE  \A u \in Threads : call'[u].stage \notin {"await", "reawait"}
  BY <1>6, <1>8 DEF SendFails, GiveUp, Unlocked
<1>9. ASSUME NEW t \in Threads, Receive(t)
      PROVE  \A u \in Threads : call'[u].stage \notin {"await", "reawait"}
  <2>1. PICK answer : answer = Head(outbox[connection])
    OBVIOUS
  <2>2. /\ call[t].stage \notin Unlocked
        /\ \/ ExchangeFails(t)
           \/ \E v : Return(t, v)
           \/ call' = [call EXCEPT ![t] = [Idle EXCEPT !.stage = "granted",
                                                       !.lease = answer.about.lease]]
    BY <1>9, <2>1 DEF Receive, Unlocked
  <2>3. PICK k : k = [Idle EXCEPT !.stage = "granted", !.lease = answer.about.lease]
    OBVIOUS
  <2>4. k.stage = "granted"
    BY <2>3 DEF Idle
  <2> QED
    BY <1>3, <1>4, <1>6, <2>2, <2>3, <2>4, InsideAlone
<1>10. ASSUME NEW t \in Threads, Negotiated(t)
       PROVE  \A u \in Threads : call'[u].stage \notin {"await", "reawait"}
  <2>1. PICK s : s = IF call[t].stage = "negotiate" THEN "send" ELSE "resend"
    OBVIOUS
  <2>2. /\ call[t].stage \notin Unlocked
        /\ \/ \E v : Return(t, v)
           \/ call' = [call EXCEPT ![t].stage = s]
    BY <1>10, <2>1 DEF Negotiated, ConnectFails, Unlocked
  <2> QED
    BY <1>4, <1>5, <2>1, <2>2
<1>11. ASSUME NEW t \in Threads, Connect(t)
       PROVE  \A u \in Threads : call'[u].stage \notin {"await", "reawait"}
  <2>1. PICK s : s = IF call[t].stage = "connect" THEN "negotiate" ELSE "renegotiate"
    OBVIOUS
  <2>2. call[t].stage \notin Unlocked /\ call' = [call EXCEPT ![t].stage = s]
    BY <1>11, <2>1 DEF Connect, Unlocked
  <2>3. s \notin {"await", "reawait"}
    BY <2>1
  <2> QED
    BY <1>5, <2>2, <2>3
<1>12. ASSUME NEW t \in Threads, DrawId(t)
       PROVE  \A u \in Threads : call'[u].stage \notin {"await", "reawait"}
  <2>1. PICK k : k = [call[t] EXCEPT !.stage = "ready", !.transaction = drawn + 1]
    OBVIOUS
  <2>2. call[t] \in Calls /\ call' = [call EXCEPT ![t] = k] /\ call[t].stage \notin Unlocked
    BY <1>1, <1>12, <2>1 DEF DrawId, Unlocked
  <2>3. k.stage = "ready"
    BY <2>1, <2>2 DEF Calls
  <2> QED
    BY <1>3, <2>2, <2>3, InsideAlone
<1>13. ASSUME NEW t \in Threads, NEW op, NEW lease, NEW transaction,
              Enter(t, op, lease, transaction)
       PROVE  \A u \in Threads : call'[u].stage \notin {"await", "reawait"}
  <2>1. PICK k : k = [op |-> op, stage |-> IF connection = 0 THEN "connect" ELSE "send",
                      lease |-> lease, transaction |-> transaction, id |-> 0]
    OBVIOUS
  <2>2. LockFree /\ call' = [call EXCEPT ![t] = k] /\ k.stage \in {"connect", "send"}
    BY <1>13, <2>1 DEF Enter
  <2> QED
    BY <1>2, <1>3, <2>2
<1>14. ASSUME \/ \E t \in Threads : Read(t)
              \/ Acquire \/ Proceed \/ Submit
              \/ \E t \in Transactions : Outcome(t)
       PROVE  \A u \in Threads : call'[u].stage \notin {"await", "reawait"}
  BY <1>1, <1>13, <1>14 DEF Read, Acquire, Proceed, Submit, Outcome
<1>15. ASSUME LockFree, call' = call
       PROVE  \A u \in Threads : call'[u].stage \notin {"await", "reawait"}
  BY <1>15 DEF LockFree, Unlocked
<1>16. CASE Construct
  <2>1. PICK k : k = Idle
    OBVIOUS
  <2>2. LockFree /\ call' = [call EXCEPT !["app"] = k] /\ k.stage = "idle"
    BY <1>16, <2>1 DEF Construct, Idle
  <2> QED
    BY <1>1, <1>2, <1>3, <2>2
<1>17. ASSUME NEW op \in {"renew", "release", "next"}, Check(op)
       PROVE  \A u \in Threads : call'[u].stage \notin {"await", "reawait"}
  <2>1. PICK k : k = [Idle EXCEPT !.op = op, !.stage = "checked", !.lease = session.lease]
    OBVIOUS
  <2>2. k.stage = "checked"
    BY <2>1 DEF Idle
  <2>3. LockFree /\ (call' = call \/ call' = [call EXCEPT !["app"] = k])
    BY <1>17, <2>1 DEF Check
  <2> QED
    BY <1>1, <1>2, <1>3, <1>15, <2>2, <2>3
<1>18. CASE Close
  BY <1>15, <1>18 DEF Close
<1> QED
  BY <1>7, <1>8, <1>9, <1>10, <1>11, <1>12, <1>14, <1>16, <1>17, <1>18 DEF ClientStep

\* The request just sent is the only one with its id.
LEMMA SendIds ==
    ASSUME Shape, NEW t \in Threads, Send(t)
    PROVE  Ids'
<1>1. PICK r \in Requests, c \in Connections :
              /\ c = connection /\ r.id = NextId(c) /\ r.transaction = call[t].transaction
              /\ call' = [call EXCEPT ![t].stage = IF @ = "send" THEN "await" ELSE "reawait",
                                      ![t].id = r.id]
              /\ \A i \in 1 .. Len(inbox'[c]) :
                    \/ i \in 1 .. Len(inbox[c]) /\ inbox'[c][i] = inbox[c][i]
                    \/ i = Len(inbox[c]) + 1 /\ inbox'[c][i] = r
  BY SentFacts
<1>2. call[t].stage \in {"send", "resend"} /\ call[t].op # "next" /\ UNCHANGED <<connection, outbox>>
  BY DEF Send
<1>3. connection # 0 /\ Outstanding(connection) <= 1
  BY <1>2, SentRequest
<1>4. /\ \A i \in 1 .. Len(inbox[c]) : inbox[c][i].id # r.id
      /\ \A i \in 1 .. Len(outbox[c]) : outbox[c][i].id # r.id
  BY <1>1, <1>3, NextIdIsFree
<1>5. call \in [Threads -> Calls] /\ Others(t)
  BY <1>2, InsideAlone DEF Shape, Calling, Unlocked
<1>6. call'[t].id = r.id /\ call'[t].transaction = r.transaction
  <2>1. PICK k : k = [call[t] EXCEPT !.stage = IF call[t].stage = "send" THEN "await" ELSE "reawait", !.id = r.id]
    OBVIOUS
  <2>2. call'[t] = k
    BY <1>1, <1>5, <2>1
  <2> QED
    BY <1>1, <1>5, <2>1, <2>2 DEF Calls
<1>7. \A u \in Threads \ {t} : call'[u].stage \notin {"await", "reawait"}
  BY <1>1, <1>5 DEF Others, Unlocked
<1>8. \A i \in 1 .. Len(inbox'[c]) : inbox'[c][i].id = r.id => inbox'[c][i].transaction = r.transaction
  BY <1>1, <1>4
<1>9. \A i \in 1 .. Len(outbox'[c]) : outbox'[c][i].id # r.id
  BY <1>2, <1>4
<1>10. connection' = c
  BY <1>1, <1>2
<1> QED
  BY <1>6, <1>7, <1>8, <1>9, <1>10 DEF Ids

\* The bridge answers with the id of the request and drops requests.
LEMMA BridgeIds ==
    ASSUME Shape, Ids, UNCHANGED <<call, connection>>, NEW c \in Connections, c = connection,
           \A i \in 1 .. Len(inbox'[c]) : \E j \in 1 .. Len(inbox[c]) : inbox'[c][i] = inbox[c][j],
           \A i \in 1 .. Len(outbox'[c]) :
              \/ \E j \in 1 .. Len(outbox[c]) : outbox'[c][i] = outbox[c][j]
              \/ \E j \in 1 .. Len(inbox[c]) :
                    /\ outbox'[c][i].id = inbox[c][j].id
                    /\ outbox'[c][i].about.transaction = inbox[c][j].transaction
    PROVE  Ids'
<1> SUFFICES ASSUME NEW t \in Threads, call[t].stage \in {"await", "reawait"}
             PROVE  /\ \A i \in 1 .. Len(inbox'[c]) :
                          inbox'[c][i].id = call[t].id => inbox'[c][i].transaction = call[t].transaction
                    /\ \A i \in 1 .. Len(outbox'[c]) :
                          outbox'[c][i].id = call[t].id =>
                             outbox'[c][i].about.transaction = call[t].transaction
  BY DEF Ids
<1>1. /\ \A i \in 1 .. Len(inbox[c]) :
            inbox[c][i].id = call[t].id => inbox[c][i].transaction = call[t].transaction
      /\ \A i \in 1 .. Len(outbox[c]) :
            outbox[c][i].id = call[t].id => outbox[c][i].about.transaction = call[t].transaction
  BY DEF Ids
<1>2. ASSUME NEW i \in 1 .. Len(inbox'[c]), inbox'[c][i].id = call[t].id
      PROVE  inbox'[c][i].transaction = call[t].transaction
  <2>1. PICK j \in 1 .. Len(inbox[c]) : inbox'[c][i] = inbox[c][j]
    OBVIOUS
  <2> QED
    BY <1>1, <1>2, <2>1
<1>3. ASSUME NEW i \in 1 .. Len(outbox'[c]), outbox'[c][i].id = call[t].id
      PROVE  outbox'[c][i].about.transaction = call[t].transaction
  <2>1. CASE \E j \in 1 .. Len(outbox[c]) : outbox'[c][i] = outbox[c][j]
    <3>1. PICK j \in 1 .. Len(outbox[c]) : outbox'[c][i] = outbox[c][j]
      BY <2>1
    <3>2. PICK a : a = outbox[c][j]
      OBVIOUS
    <3>3. a.id = call[t].id => a.about.transaction = call[t].transaction
      BY <1>1, <3>2
    <3>4. a = outbox'[c][i]
      BY <3>1, <3>2
    <3>5. a.id = call[t].id
      BY <1>3, <3>4
    <3> QED
      BY <3>3, <3>4, <3>5
  <2>2. CASE \E j \in 1 .. Len(inbox[c]) :
                /\ outbox'[c][i].id = inbox[c][j].id
                /\ outbox'[c][i].about.transaction = inbox[c][j].transaction
    BY <1>1, <1>3, <2>2
  <2> QED
    BY <2>1, <2>2
<1> QED
  BY <1>2, <1>3

\* Ids is inductive.
LEMMA NextIds ==
    ASSUME Shape, Ids, [Next]_vars
    PROVE  Ids'
<1>1. CASE ClientStep \/ \E t \in Threads : Connect(t)
  BY <1>1, NobodyAwaits DEF Ids
<1>2. ASSUME NEW t \in Threads, Send(t) PROVE Ids'
  BY <1>2, SendIds
<1>3. CASE \E u \in Threads : call[u].stage \in {"await", "reawait"}
  <2>1. connection \in Connections
    <3>1. PICK u \in Threads : call[u].stage \in {"await", "reawait"}
      BY <1>3
    <3>2. Placed(call[u])
      BY <3>1, InsideAlone DEF Unlocked
    <3> QED
      BY <3>1, <3>2, SocketFacts DEF Placed
  <2>2. PICK d \in Connections : d = connection
    BY <2>1
  <2>3. ASSUME NEW c \in Connections, Serve(c) PROVE Ids'
    <3>1. UNCHANGED <<call, connection>>
      BY <2>3 DEF Serve, client
    <3>2. PICK a \in Answers :
             /\ a.id = Head(inbox[c]).id /\ a.about.transaction = Head(inbox[c]).transaction
             /\ outbox' = IF c \in closed THEN outbox ELSE [outbox EXCEPT ![c] = Append(@, a)]
      BY <2>3, ServedAnswer
    <3>3. outbox \in [Connections -> Seq(Answers)]
      BY DEF Shape, Types, SocketTypes
    <3>4. /\ Head(inbox[c]) = inbox[c][1] /\ 1 \in 1 .. Len(inbox[c])
          /\ \A e \in Connections \ {c} : inbox'[e] = inbox[e]
          /\ \A i \in 1 .. Len(inbox'[c]) : i + 1 \in 1 .. Len(inbox[c]) /\ inbox'[c][i] = inbox[c][i + 1]
      BY <2>3, ServedRequest
    <3>5. \A i \in 1 .. Len(inbox'[d]) : \E j \in 1 .. Len(inbox[d]) : inbox'[d][i] = inbox[d][j]
      BY <3>4
    <3>6. \A i \in 1 .. Len(outbox'[d]) :
             \/ \E j \in 1 .. Len(outbox[d]) : outbox'[d][i] = outbox[d][j]
             \/ c = d /\ outbox'[d][i] = a
      BY <3>2, <3>3
    <3> QED
      BY <2>2, <3>1, <3>2, <3>4, <3>5, <3>6, BridgeIds
  <2>4. ASSUME UNCHANGED <<call, connection, outbox>>, inbox'[d] = inbox[d] \/ inbox'[d] = <<>>
        PROVE  Ids'
    <3>1. \A i \in 1 .. Len(inbox'[d]) : \E j \in 1 .. Len(inbox[d]) : inbox'[d][i] = inbox[d][j]
      BY <2>4
    <3> QED
      BY <2>2, <2>4, <3>1, BridgeIds
  <2>5. ASSUME NEW c \in Connections, Disconnect(c) PROVE Ids'
    <3>1. UNCHANGED <<call, connection, outbox>> /\ inbox' = [inbox EXCEPT ![c] = <<>>]
      BY <2>5 DEF Disconnect, client
    <3>2. inbox'[d] = inbox[d] \/ inbox'[d] = <<>>
      BY <3>1 DEF Shape, Types, SocketTypes
    <3> QED
      BY <2>4, <3>1, <3>2
  <2>6. CASE Dispatch \/ Expire \/ Restart \/ Crash \/ Evicts \/ UNCHANGED vars
    <3>1. UNCHANGED <<call, connection, outbox>> /\ (inbox' = inbox \/ inbox' = [c \in Connections |-> <<>>])
      BY <2>6 DEF Dispatch, Expire, Restart, Crash, Evicts, Evict, Forget, vars, sockets, client
    <3> QED
      BY <2>4, <3>1
  <2> QED
    BY <1>1, <1>2, <2>3, <2>5, <2>6, NextSplits
<1>4. CASE ~\E u \in Threads : call[u].stage \in {"await", "reawait"}
  <2>1. ASSUME UNCHANGED call PROVE Ids'
    BY <1>4, <2>1 DEF Ids
  <2> QED
    BY <1>1, <1>2, <2>1, NextSplits DEF Serve, Disconnect, Dispatch, Expire, Restart, Crash, Evicts, Evict,
         Forget, vars, client
<1> QED
  BY <1>3, <1>4

\* The result of a call that failed says nothing of its transaction.
Failures == {"gave-up", "sdk-error", "os-error", "inactive"}

\* What a step of the client can tell the application: nothing new, a failure, or the
\* answer to its own request.
LEMMA ClientTells ==
    ASSUME Shape, ClientStep
    PROVE  \/ result' = result
           \/ \E t \in Threads : \E v :
                 /\ result' = [result EXCEPT ![call[t].transaction] = v]
                 /\ call[t].op \in {"submit", "outcome"}
                 /\ \/ v \in Failures
                    \/ /\ connection \in Connections /\ call[t].stage \in {"await", "reawait"}
                       /\ 1 \in 1 .. Len(outbox[connection])
                       /\ v = outbox[connection][1].value
                       /\ outbox[connection][1].id = call[t].id
                       /\ outbox[connection][1].about.op = Method(call[t])
<1> DEFINE Tells(t, v) == /\ result' = [result EXCEPT ![call[t].transaction] = v]
                          /\ call[t].op \in {"submit", "outcome"}
<1>1. ASSUME NEW t \in Threads, NEW v, Return(t, v) PROVE result' = result \/ Tells(t, v)
  BY <1>1 DEF Return
<1>2. ASSUME NEW t \in Threads, ExchangeFails(t)
      PROVE  result' = result \/ \E v \in Failures : Tells(t, v)
  BY <1>1, <1>2 DEF ExchangeFails, Failures
<1>3. ASSUME NEW t \in Threads, ConnectFails(t, "sdk-error") \/ ConnectFails(t, "os-error")
      PROVE  result' = result \/ \E v \in Failures : Tells(t, v)
  BY <1>1, <1>3 DEF ConnectFails, Failures
<1>4. ASSUME NEW t \in Threads,
             ConnectRefused(t) \/ NegotiationLost(t) \/ SendFails(t) \/ GiveUp(t)
      PROVE  result' = result \/ \E v \in Failures : Tells(t, v)
  BY <1>2, <1>3, <1>4 DEF ConnectRefused, NegotiationLost, SendFails, GiveUp
<1>5. ASSUME NEW t \in Threads, Negotiated(t)
      PROVE  result' = result \/ \E v \in Failures : Tells(t, v)
  <2>1. \/ result' = result
        \/ Return(t, "inactive")
        \/ ConnectFails(t, "sdk-error")
    BY <1>5 DEF Negotiated
  <2> QED
    BY <1>1, <1>3, <2>1 DEF Failures
<1>6. ASSUME NEW t \in Threads, Receive(t)
      PROVE  \/ result' = result
             \/ \E v \in Failures : Tells(t, v)
             \/ /\ connection \in Connections /\ call[t].stage \in {"await", "reawait"}
                /\ 1 \in 1 .. Len(outbox[connection])
                /\ Tells(t, outbox[connection][1].value)
                /\ outbox[connection][1].id = call[t].id
                /\ outbox[connection][1].about.op = Method(call[t])
  <2>1. call[t].stage \in {"await", "reawait"} /\ outbox[connection] # <<>>
    BY <1>6 DEF Receive
  <2>2. connection \in Connections
    <3>1. Placed(call[t])
      BY <2>1, InsideAlone DEF Unlocked
    <3> QED
      BY <2>1, <3>1, SocketFacts DEF Placed
  <2>3. 1 \in 1 .. Len(outbox[connection]) /\ Head(outbox[connection]) = outbox[connection][1]
    BY <2>1, <2>2, SocketFacts
  <2>4. PICK answer : answer = outbox[connection][1]
    OBVIOUS
  <2>5. \/ ExchangeFails(t)
        \/ Return(t, "sdk-error") \/ Return(t, "gave-up")
        \/ result' = result
        \/ /\ Return(t, answer.value)
           /\ answer.id = call[t].id /\ answer.about.op = Method(call[t])
    BY <1>6, <2>3, <2>4 DEF Receive, Matches
  <2>6. CASE Return(t, answer.value) /\ answer.id = call[t].id /\ answer.about.op = Method(call[t])
    BY <1>1, <2>1, <2>2, <2>3, <2>4, <2>6
  <2>7. CASE Return(t, "sdk-error") \/ Return(t, "gave-up")
    BY <1>1, <2>7 DEF Failures
  <2> QED
    BY <1>2, <2>5, <2>6, <2>7
<1>7. ASSUME \/ \E t \in Threads : DrawId(t) \/ Read(t)
             \/ Close \/ Acquire \/ Construct \/ Proceed \/ Submit
             \/ \E op \in {"renew", "release", "next"} : Check(op)
             \/ \E t \in Transactions : Outcome(t)
      PROVE  result' = result
  BY <1>7 DEF DrawId, Read, Close, Acquire, Construct, Proceed, Submit, Check, Outcome, clientIdle
<1>8. CASE \E t \in Threads : ConnectRefused(t) \/ NegotiationLost(t) \/ SendFails(t) \/ GiveUp(t) \/ Negotiated(t)
  BY <1>4, <1>5, <1>8
<1>9. CASE \E t \in Threads : Receive(t)
  BY <1>6, <1>9
<1> QED
  BY <1>7, <1>8, <1>9 DEF ClientStep

\* Reported is inductive with the rest of Truth.
LEMMA NextReported ==
    ASSUME Shape, Once, Journal, Answered, Ids, Reported, [Next]_vars
    PROVE  Reported'
<1>1. ASSUME result' = result PROVE Reported'
  <2> SUFFICES ASSUME NEW x \in Transactions, NEW v, v = result[x] PROVE Says(v, x)'
    BY <1>1 DEF Reported
  <2>1. Says(v, x)
    BY DEF Reported
  <2> QED
    BY <2>1, StepFlows, LostGrows, SaysStays
<1>2. ASSUME NEW t \in Threads, NEW v,
             result' = [result EXCEPT ![call[t].transaction] = v],
             NEW x \in Transactions, x = call[t].transaction, Says(v, x)'
      PROVE  Reported'
  <2> SUFFICES ASSUME NEW y \in Transactions, NEW w, w = result'[y] PROVE Says(w, y)'
    BY DEF Reported
  <2>1. DOMAIN result = Transactions
    BY DEF Shape, Types, ClientTypes, Told
  <2>2. CASE y = x
    <3>1. w = v
      BY <1>2, <2>1, <2>2
    <3> QED
      BY <1>2, <2>2, <3>1
  <2>3. CASE y # x
    <3>1. w = result[y]
      BY <1>2, <2>1, <2>3
    <3>2. Says(w, y)
      BY <3>1 DEF Reported
    <3> QED
      BY <3>2, StepFlows, LostGrows, SaysStays
  <2> QED
    BY <2>2, <2>3
<1>3. ASSUME NEW t \in Threads, call[t].op \in {"submit", "outcome"}
      PROVE  call[t].transaction \in Transactions
  <2>1. CallShape(call[t]) /\ drawn \in 0 .. MaxTransactions
    BY DEF Shape, Calling, Roles, Threads, Types, ClientTypes
  <2> QED
    BY <1>3, <2>1, RecoveringConstants DEF CallShape, Transactions
<1>4. CASE ClientStep /\ result' # result
  <2>0. PICK t \in Threads : \E v :
                 /\ result' = [result EXCEPT ![call[t].transaction] = v]
                 /\ call[t].op \in {"submit", "outcome"}
                 /\ \/ v \in Failures
                    \/ /\ connection \in Connections /\ call[t].stage \in {"await", "reawait"}
                       /\ 1 \in 1 .. Len(outbox[connection])
                       /\ v = outbox[connection][1].value
                       /\ outbox[connection][1].id = call[t].id
                       /\ outbox[connection][1].about.op = Method(call[t])
    BY <1>4, ClientTells
  <2>1. PICK v :
                 /\ result' = [result EXCEPT ![call[t].transaction] = v]
                 /\ call[t].op \in {"submit", "outcome"}
                 /\ \/ v \in Failures
                    \/ /\ connection \in Connections /\ call[t].stage \in {"await", "reawait"}
                       /\ 1 \in 1 .. Len(outbox[connection])
                       /\ v = outbox[connection][1].value
                       /\ outbox[connection][1].id = call[t].id
                       /\ outbox[connection][1].about.op = Method(call[t])
    BY <2>0
  <2>2. PICK x \in Transactions : x = call[t].transaction
    BY <1>3, <2>1
  <2>3. CASE v \in Failures
    <3>1. Says(v, x)'
      BY <2>3 DEF Failures, Says
    <3> QED
      BY <1>2, <2>1, <2>2, <3>1
  <2>4. CASE v \notin Failures
    <3>1. PICK c \in Connections : c = connection
      BY <2>1, <2>4
    <3>2. /\ outbox[c][1].about.op \in {"submit", "lookup"} /\ 1 \in 1 .. Len(outbox[c])
          /\ v = outbox[c][1].value
      BY <2>1, <2>4, <3>1 DEF Method
    <3>3. outbox[c][1].about.transaction = x
      BY <2>1, <2>2, <2>4, <3>1 DEF Ids
    <3>4. Says(v, x)
      BY <3>2, <3>3 DEF Answered
    <3>5. Says(v, x)'
      BY <3>4, StepFlows, LostGrows, SaysStays
    <3> QED
      BY <1>2, <2>1, <2>2, <3>5
  <2> QED
    BY <2>3, <2>4
<1>5. CASE ~ClientStep
  <2>1. result' = result
    BY <1>5, NextSplits DEF Connect, Send, Serve, Disconnect, Dispatch, Expire, Restart, Crash, Evicts, Evict,
         Forget, vars, client
  <2> QED
    BY <1>1, <2>1
<1> QED
  BY <1>1, <1>4, <1>5

LEMMA InitTruth == Init => Truth
<1> SUFFICES ASSUME Init PROVE Truth
  OBVIOUS
<1>1. \A t \in Transactions : ~Waits(t) /\ ~InQueue(t) /\ ~Written(t)
  BY DEF Init, Waits, InQueue, Written
<1>2. Journal
  BY <1>1 DEF Init, Journal
<1>3. Lookups
  BY DEF Init, Lookups, LookupsOn
<1>4. Answered
  BY DEF Init, Answered
<1>5. Ids
  BY DEF Init, Ids, Idle
<1>6. Reported
  BY DEF Init, Reported, Says
<1> QED
  BY <1>2, <1>3, <1>4, <1>5, <1>6 DEF Truth

LEMMA TruthHolds == Spec => [](Shape /\ Sessions /\ Once /\ Truth)
<1>1. Truth /\ Shape /\ Sessions /\ Once /\ [Next]_vars => Truth'
  BY NextJournal, NextLookups, NextAnswered, NextIds, NextReported DEF Truth
<1> QED
  BY <1>1, InitTruth, SessionsHold, OnceHolds, PTL DEF Spec

\* What the application was told of a submission is true
\* (RecoveringClient.submit_transaction, transaction_outcome): a write reported as done
\* was done, one refused or reported to have ended without a live write was not, and
\* neither was one whose outcome a lookup found unknown, unless the bridge had its
\* record and lost it, in a crash or to the bounds of its journal.
THEOREM ReportsAreTrue == Spec => []ReportedOutcomeHolds
<1>1. Shape /\ Truth => ReportedOutcomeHolds
  <2> SUFFICES ASSUME Shape, Truth, NEW t \in Transactions
               PROVE  /\ result[t] = "succeeded" => t \in ToSet(written)
                      /\ result[t] \in {"unsent", "rejected"} => t \notin ToSet(written)
                      /\ result[t] = "unknown" => t \notin ToSet(written) \/ t \in lost
    BY DEF ReportedOutcomeHolds
  <2>1. written \in Seq(Transactions)
    BY DEF Shape, Types, HistoryTypes
  <2>2. t \in ToSet(written) <=> Written(t)
    BY <2>1 DEF ToSet, Written
  <2> QED
    BY <2>2 DEF Truth, Reported, Says, Dead
<1> QED
  BY <1>1, TruthHolds, PTL
=============================================================================
