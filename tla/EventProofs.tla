---------------------------- MODULE EventProofs ----------------------------
(***************************************************************************)
(* Why a program that rereads the bridge only when the event stream tells  *)
(* it to still shows what the bridge says, for every capacity of the ring, *)
(* every batch limit and any number of restarts and lost answers.  The     *)
(* invariant relates the viewer to a bridge value b:                       *)
(*                                                                         *)
(*   LogKept    the ring holds the last events, at least one if any;       *)
(*   Linked     sessions and subscriptions of the two sides;               *)
(*   Mirrored   a viewer that polls is due a refresh, or shows what the    *)
(*              bridge says, or the stream has something to tell it: an    *)
(*              event it has yet to read, or a gap.                        *)
(*                                                                         *)
(* A step of the bridge is a composition of few moves, so that what every  *)
(* move preserves is shown once (Moves).                                   *)
(***************************************************************************)
EXTENDS EventStream, SequenceTheorems, TLAPS

Kinds == {"ownership", "completed"}

Leases == [owner : Clients \union {"none"}, expires : Nat]

Bridges ==
    [up : BOOLEAN, epoch : Nat, lease : Leases, log : Seq(Kinds), latest : Nat,
     session : Nat, subscription : Nat]

Exchanging == {"resubscribe", "refresh", "reread"}

Points == Exchanging \union {"poll", "reconnect", "recover", "failed"}

Cursors == [epoch : Nat, sequence : Nat]

Viewers ==
    [pc : Points, after : Exchanging, gap : BOOLEAN, connection : Nat, known : Nat,
     subscription : Nat, cursor : Cursors, view : Leases, required : BOOLEAN,
     needs : BOOLEAN, batches : Nat, lost : Nat]

LogKept(b) ==
    /\ b \in Bridges /\ b.epoch > 0
    /\ Len(b.log) <= Capacity /\ Len(b.log) <= b.latest
    /\ b.latest > 0 => Len(b.log) > 0

Sessions(v, b) ==
    /\ b.session # 0 => b.session = v.connection
    /\ b.subscription # 0 => b.subscription = b.session
    /\ v.known <= v.connection
    /\ v.subscription = 0 \/ v.subscription = v.known
    /\ b.session # 0 /\ v.subscription = b.session => b.subscription = b.session

Linked(v, b) ==
    /\ Sessions(v, b)
    /\ v.pc = "poll" => v.known = v.connection
    /\ v.pc = "reconnect" => v.lost > 0 \/ ~b.up \/ b.session = 0
    /\ v.pc = "failed" => v.lost > 0

Agrees(view, lease, now) ==
    view = lease \/ (lease = NoLease /\ view.expires <= now)

\* A reader that has read up to sequence number s misses the oldest unread event,
\* or one of the events it has yet to read makes it refresh.
Behind(s, b) ==
    \/ s < Oldest(b) - 1
    \/ \E i \in 1 .. Len(b.log) : RefreshEvent(b.log[i]) /\ s < b.latest - Len(b.log) + i

Fresh(view, s, b, now) == Agrees(view, b.lease, now) \/ Behind(s, b)

Mirrored(v, b, now) ==
    v.pc = "poll" =>
        /\ 0 < v.cursor.epoch /\ v.cursor.epoch <= b.epoch
        /\ v.cursor.epoch = b.epoch =>
             /\ v.cursor.sequence <= b.latest
             /\ v.required \/ Fresh(v.view, v.cursor.sequence, b, now)

Good(v, b, now) ==
    LogKept(b) /\ v \in Viewers /\ Linked(v, b) /\ Mirrored(v, b, now)

IInv == clock \in Nat /\ Good(viewer, bridge, clock)

---------------------------------------------------------------------------
(***************************************************************************)
(* Moves of the bridge.                                                    *)
(***************************************************************************)
SameLink(c, b) ==
    c.up = b.up /\ c.epoch = b.epoch /\ c.session = b.session /\ c.subscription = b.subscription

\* c is b later, in the same process: no reader is left behind unawares.
Moves(c, b, later, now) ==
    /\ LogKept(c)
    /\ SameLink(c, b)
    /\ b.latest <= c.latest
    /\ \A view \in Leases : \A s \in 0 .. b.latest : Fresh(view, s, b, now) => Fresh(view, s, c, later)

LEMMA MovesCompose ==
    ASSUME NEW b, LogKept(b), NEW c, NEW d, NEW now, NEW then, NEW later,
           Moves(c, b, then, now), Moves(d, c, later, then)
    PROVE  Moves(d, b, later, now)
<1>1. b.latest \in Nat /\ c.latest \in Nat /\ d.latest \in Nat
  BY DEF Moves, LogKept, Bridges
<1>2. b.latest <= c.latest /\ c.latest <= d.latest
  BY DEF Moves
<1>3. b.latest <= d.latest /\ \A s \in 0 .. b.latest : s \in 0 .. c.latest
  BY <1>1, <1>2
<1>4. LogKept(d) /\ SameLink(d, b)
  BY DEF Moves, SameLink
<1>5. ASSUME NEW view \in Leases, NEW s \in 0 .. b.latest, Fresh(view, s, b, now)
      PROVE  Fresh(view, s, d, later)
  <2>1. Fresh(view, s, c, then)
    BY <1>5 DEF Moves
  <2>2. s \in 0 .. c.latest
    BY <1>3
  <2> QED
    BY <2>1, <2>2 DEF Moves
<1> QED
  BY <1>3, <1>4, <1>5 DEF Moves

LEMMA LeaseFacts ==
    /\ NoLease \in Leases
    /\ \A c \in Clients, n \in Nat : [owner |-> c, expires |-> n] \in Leases
BY DEF NoLease, Leases

\* Time passes.
LEMMA TimeMoves ==
    ASSUME NEW b, LogKept(b), NEW now \in Nat, NEW later \in Nat, now <= later
    PROVE  Moves(b, b, later, now)
<1>1. b.latest \in Nat
  BY DEF LogKept, Bridges
<1>2. ASSUME NEW view \in Leases, NEW s \in 0 .. b.latest, Fresh(view, s, b, now)
      PROVE  Fresh(view, s, b, later)
  <2>1. view.expires \in Nat
    BY DEF Leases
  <2> QED
    BY <1>2, <2>1 DEF Fresh, Agrees
<1> QED
  BY <1>1, <1>2 DEF Moves, SameLink

\* The oldest retained event.
LEMMA OldestOf ==
    ASSUME NEW b, LogKept(b), Len(b.log) > 0
    PROVE  Oldest(b) = b.latest - Len(b.log) + 1
<1>1. b.log \in Seq(Kinds)
  BY DEF LogKept, Bridges
<1>2. b.log # <<>>
  BY <1>1
<1> QED
  BY <1>2 DEF Oldest

KeepsBehind(c, b) == \A s \in 0 .. b.latest : Behind(s, b) => Behind(s, c)

LeavesBehind(c, b) == \A s \in 0 .. b.latest : Behind(s, c)

\* Appending an event: what a reader has yet to read it has still to read, or
\* the ring has passed over it.
LEMMA AppendKept ==
    ASSUME NEW b, LogKept(b), NEW kind \in Kinds, NEW c, c = Appended(b, kind)
    PROVE  /\ LogKept(c) /\ SameLink(c, b) /\ c.latest = b.latest + 1 /\ c.lease = b.lease
           /\ KeepsBehind(c, b)
           /\ RefreshEvent(kind) => LeavesBehind(c, b)
<1>1. /\ b \in Bridges /\ b.log \in Seq(Kinds) /\ b.latest \in Nat /\ b.epoch > 0
      /\ Len(b.log) <= Capacity /\ Len(b.log) <= b.latest
      /\ Capacity \in Nat \ {0}
  BY EventConstants DEF LogKept, Bridges
<1>2. PICK n \in Nat : n = Len(b.log)
  BY <1>1
<1>3. PICK l \in Nat : l = b.latest
  BY <1>1
<1>4. n <= l /\ n <= Capacity
  BY <1>1, <1>2, <1>3
<1>5. PICK d \in 0 .. 1 : d = IF n = Capacity THEN 1 ELSE 0
  OBVIOUS
<1>6. PICK kept : kept = IF n = Capacity THEN Tail(b.log) ELSE b.log
  OBVIOUS
<1>7. /\ kept \in Seq(Kinds) /\ Len(kept) = n - d /\ n - d \in Nat
      /\ \A i \in 1 .. n - d : kept[i] = b.log[i + d]
  <2>1. CASE n = Capacity
    <3>1. b.log # <<>>
      BY <1>1, <1>2, <2>1
    <3>2. kept = Tail(b.log) /\ d = 1
      BY <1>5, <1>6, <2>1
    <3>3. kept \in Seq(Kinds) /\ Len(kept) = n - 1
      BY <1>1, <1>2, <3>1, <3>2
    <3>4. \A i \in 1 .. n - 1 : kept[i] = b.log[i + 1]
      BY <1>1, <1>2, <3>1, <3>2
    <3> QED
      BY <1>1, <2>1, <3>2, <3>3, <3>4
  <2>2. CASE n # Capacity
    <3>1. kept = b.log /\ d = 0
      BY <1>5, <1>6, <2>2
    <3> QED
      BY <1>1, <1>2, <3>1
  <2> QED
    BY <2>1, <2>2
<1>8. PICK log : log = Append(kept, kind)
  OBVIOUS
<1>9. PICK m \in Nat : m = n - d + 1
  BY <1>7
<1>10. /\ log \in Seq(Kinds) /\ Len(log) = m /\ log[m] = kind /\ m \in 1 .. m
       /\ \A i \in 1 .. m - 1 : log[i] = b.log[i + d]
  <2>1. PICK k \in Nat : k = n - d
    BY <1>7
  <2>2. Len(kept) = k /\ m = k + 1
    BY <1>7, <1>9, <2>1
  <2>3. /\ log \in Seq(Kinds) /\ Len(log) = k + 1 /\ log[k + 1] = kind
        /\ \A i \in 1 .. k : log[i] = kept[i]
    BY <1>7, <1>8, <2>2, AppendProperties
  <2> QED
    BY <1>7, <2>1, <2>2, <2>3
<1>11. c = [b EXCEPT !.latest = l + 1, !.log = log]
  BY <1>2, <1>3, <1>6, <1>8 DEF Appended
<1>12. /\ c \in Bridges /\ c.log = log /\ c.latest = l + 1 /\ c.lease = b.lease
       /\ SameLink(c, b)
  <2>1. c.log = log /\ c.latest = l + 1 /\ c.lease = b.lease
    BY <1>1, <1>11 DEF Bridges
  <2>2. c \in Bridges
    <3>1. b \in Bridges /\ log \in Seq(Kinds)
      BY <1>1, <1>10
    <3>2. PICK e \in Nat : e = l + 1
      OBVIOUS
    <3>3. c = [b EXCEPT !.latest = e, !.log = log]
      BY <1>11, <3>2
    <3> QED
      BY <3>1, <3>3 DEF Bridges
  <2>3. c.up = b.up
    BY <1>1, <1>11 DEF Bridges
  <2>4. c.epoch = b.epoch /\ c.session = b.session /\ c.subscription = b.subscription
    BY <1>1, <1>11 DEF Bridges
  <2> QED
    BY <2>1, <2>2, <2>3, <2>4 DEF SameLink
<1>13. LogKept(c)
  BY <1>1, <1>3, <1>4, <1>5, <1>9, <1>10, <1>12 DEF LogKept, SameLink
<1>14. Oldest(c) = l + 1 - m + 1
  BY <1>10, <1>12, <1>13, OldestOf
<1>15. ASSUME NEW s \in 0 .. l, Behind(s, b) PROVE Behind(s, c)
  <2>1. CASE s < Oldest(b) - 1
    <3>1. CASE n > 0
      <4>1. Oldest(b) = l - n + 1
        BY <1>2, <1>3, <3>1, OldestOf
      <4>2. s < Oldest(c) - 1
        BY <1>5, <1>9, <1>14, <2>1, <4>1
      <4> QED
        BY <4>2 DEF Behind
    <3>2. CASE n = 0
      <4>1. l = 0
        <5>1. b.latest > 0 => Len(b.log) > 0
          BY DEF LogKept
        <5> QED
          BY <1>2, <1>3, <3>2, <5>1
      <4>2. b.log = <<>>
        <5>1. PICK empty \in Seq(Kinds) : empty = b.log
          BY <1>1
        <5>2. Len(empty) = 0
          BY <1>2, <3>2, <5>1
        <5>3. empty = <<>>
          BY <5>2, EmptySeq
        <5> QED
          BY <5>1, <5>3
      <4>3. Oldest(b) = 0
        BY <1>3, <4>1, <4>2 DEF Oldest
      <4> QED
        BY <2>1, <4>3
    <3> QED
      BY <3>1, <3>2
  <2>2. ASSUME NEW i \in 1 .. n, RefreshEvent(b.log[i]), s < l - n + i PROVE Behind(s, c)
    <3>1. CASE i > d
      <4>1. i - d \in 1 .. m - 1 /\ (i - d) + d = i /\ i - d \in 1 .. m
        BY <1>9, <3>1
      <4>2. log[i - d] = b.log[i]
        BY <1>10, <4>1
      <4>3. s < (l + 1) - m + (i - d)
        BY <1>9, <2>2
      <4> QED
        BY <1>10, <1>12, <2>2, <4>1, <4>2, <4>3 DEF Behind
    <3>2. CASE ~(i > d)
      <4>1. i = 1 /\ d = 1
        BY <3>2
      <4>2. s < Oldest(c) - 1
        BY <1>9, <1>14, <2>2, <4>1
      <4> QED
        BY <4>2 DEF Behind
    <3> QED
      BY <3>1, <3>2
  <2> QED
    BY <1>2, <1>3, <1>15, <2>1, <2>2 DEF Behind
<1>16. ASSUME RefreshEvent(kind), NEW s \in 0 .. l PROVE Behind(s, c)
  <2>1. s < l + 1 - m + m
    OBVIOUS
  <2> QED
    BY <1>10, <1>12, <1>16, <2>1 DEF Behind
<1> QED
  BY <1>3, <1>12, <1>13, <1>15, <1>16 DEF KeepsBehind, LeavesBehind

\* An announced change of the lease.
LEMMA AnnouncedMoves ==
    ASSUME NEW b, LogKept(b), NEW lease \in Leases, NEW now, NEW later,
           NEW c, c = Appended([b EXCEPT !.lease = lease], "ownership")
    PROVE  Moves(c, b, later, now)
<1>1. PICK a : a = [b EXCEPT !.lease = lease]
  OBVIOUS
<1>2. /\ LogKept(a) /\ SameLink(a, b) /\ a.log = b.log /\ a.latest = b.latest
  BY <1>1 DEF LogKept, Bridges, SameLink
<1>3. "ownership" \in Kinds /\ RefreshEvent("ownership")
  BY DEF Kinds, RefreshEvent
<1>4. /\ LogKept(c) /\ SameLink(c, a) /\ c.latest = a.latest + 1
      /\ LeavesBehind(c, a)
  BY <1>1, <1>2, <1>3, AppendKept
<1>5. SameLink(c, b) /\ b.latest \in Nat
  BY <1>2, <1>4 DEF SameLink, LogKept, Bridges
<1> QED
  BY <1>2, <1>4, <1>5 DEF Moves, Fresh, LeavesBehind

\* An event that does not concern the mirror.
LEMMA CompletedMoves ==
    ASSUME NEW b, LogKept(b), NEW now, NEW c, c = Appended(b, "completed")
    PROVE  Moves(c, b, now, now)
<1>1. "completed" \in Kinds
  BY DEF Kinds
<1>2. /\ LogKept(c) /\ SameLink(c, b) /\ c.latest = b.latest + 1 /\ c.lease = b.lease
      /\ KeepsBehind(c, b)
  BY <1>1, AppendKept
<1>3. b.latest \in Nat
  BY DEF LogKept, Bridges
<1> QED
  BY <1>2, <1>3 DEF Moves, Fresh, KeepsBehind

LEMMA TickedMoves ==
    ASSUME NEW b, LogKept(b), NEW now \in Nat, NEW c, c = Ticked(b, now)
    PROVE  Moves(c, b, now, now)
<1>1. CASE Expired(b, now)
  <2>1. c = Appended([b EXCEPT !.lease = NoLease], "ownership")
    BY <1>1 DEF Ticked
  <2> QED
    BY <2>1, AnnouncedMoves, LeaseFacts
<1>2. CASE ~Expired(b, now)
  <2>1. c = b
    BY <1>2 DEF Ticked
  <2> QED
    BY <2>1, TimeMoves
<1> QED
  BY <1>1, <1>2

\* A grant dropped in silence has expired by the clock of the reader, too.
LEMMA DroppedMoves ==
    ASSUME NEW b, LogKept(b), NEW now \in Nat, NEW later \in Nat, now <= later,
           NEW c, c = Dropped(b, later)
    PROVE  Moves(c, b, later, now)
<1>1. CASE Expired(b, later)
  <2>1. c = [b EXCEPT !.lease = NoLease]
    BY <1>1 DEF Dropped
  <2>2. /\ LogKept(c) /\ SameLink(c, b) /\ c.log = b.log /\ c.latest = b.latest /\ c.lease = NoLease
    BY <2>1, LeaseFacts DEF LogKept, Bridges, SameLink
  <2>3. b.latest \in Nat /\ b.lease \in Leases
    BY DEF LogKept, Bridges
  <2>4. \A s \in 0 .. b.latest : Behind(s, b) => Behind(s, c)
    BY <2>2 DEF Behind, Oldest
  <2>5. ASSUME NEW view \in Leases, Agrees(view, b.lease, now) PROVE Agrees(view, c.lease, later)
    <3>1. b.lease # NoLease /\ b.lease.expires <= later
      BY <1>1 DEF Expired
    <3>2. view = b.lease
      BY <2>5, <3>1 DEF Agrees
    <3> QED
      BY <2>2, <3>1, <3>2 DEF Agrees
  <2> QED
    BY <2>2, <2>3, <2>4, <2>5 DEF Moves, Fresh
<1>2. CASE ~Expired(b, later)
  <2>1. c = b
    BY <1>2 DEF Dropped
  <2> QED
    BY <2>1, TimeMoves
<1> QED
  BY <1>1, <1>2

LEMMA HandlerMoves ==
    ASSUME NEW b, LogKept(b), NEW now \in Nat, NEW later \in Nat, now <= later,
           NEW c, c = Handler(b, now, later)
    PROVE  Moves(c, b, later, now)
<1>1. PICK a : a = Ticked(b, now)
  OBVIOUS
<1>2. Moves(a, b, now, now)
  BY <1>1, TickedMoves
<1>3. LogKept(a)
  BY <1>2 DEF Moves
<1>4. c = Dropped(a, later)
  BY <1>1 DEF Handler
<1>5. Moves(c, a, later, now)
  BY <1>3, <1>4, DroppedMoves
<1> QED
  BY <1>2, <1>5, MovesCompose

---------------------------------------------------------------------------
(***************************************************************************)
(* The viewer while the bridge moves.                                      *)
(***************************************************************************)
LEMMA ViewerTypes ==
    ASSUME NEW v \in Viewers
    PROVE  /\ v.connection \in Nat /\ v.known \in Nat /\ v.subscription \in Nat
           /\ v.batches \in Nat /\ v.lost \in Nat /\ v.view \in Leases
           /\ v.cursor \in Cursors
           /\ v.cursor.epoch \in Nat /\ v.cursor.sequence \in Nat
BY DEF Viewers, Cursors

LEMMA BridgeTypes ==
    ASSUME NEW b, LogKept(b)
    PROVE  /\ b.epoch \in Nat /\ b.epoch > 0 /\ b.latest \in Nat
           /\ b.session \in Nat /\ b.subscription \in Nat /\ b.lease \in Leases
           /\ b.log \in Seq(Kinds) /\ Len(b.log) \in Nat
BY DEF LogKept, Bridges

LEMMA MovesKeepGood ==
    ASSUME NEW v, NEW b, NEW now, Good(v, b, now), NEW c, NEW later, Moves(c, b, later, now)
    PROVE  Good(v, c, later)
<1>1. LogKept(b) /\ v \in Viewers /\ Linked(v, b) /\ Mirrored(v, b, now)
  BY DEF Good
<1>2. LogKept(c) /\ SameLink(c, b) /\ b.latest <= c.latest
  BY DEF Moves
<1>3. Linked(v, c)
  BY <1>1, <1>2 DEF Linked, Sessions, SameLink
<1>4. Mirrored(v, c, later)
  <2> SUFFICES ASSUME v.pc = "poll"
               PROVE  /\ 0 < v.cursor.epoch /\ v.cursor.epoch <= c.epoch
                      /\ v.cursor.epoch = c.epoch =>
                           /\ v.cursor.sequence <= c.latest
                           /\ v.required \/ Fresh(v.view, v.cursor.sequence, c, later)
    BY DEF Mirrored
  <2>1. 0 < v.cursor.epoch /\ v.cursor.epoch <= c.epoch
    BY <1>1, <1>2 DEF Mirrored, SameLink
  <2>2. ASSUME v.cursor.epoch = c.epoch
        PROVE  v.cursor.sequence <= c.latest /\ (v.required \/ Fresh(v.view, v.cursor.sequence, c, later))
    <3>1. /\ v.cursor.sequence <= b.latest
          /\ v.required \/ Fresh(v.view, v.cursor.sequence, b, now)
      BY <1>1, <1>2, <2>2 DEF Mirrored, SameLink
    <3>2. v.cursor.sequence \in Nat /\ b.latest \in Nat /\ c.latest \in Nat /\ v.view \in Leases
      BY <1>1, <1>2, ViewerTypes, BridgeTypes
    <3>3. v.cursor.sequence \in 0 .. b.latest /\ v.cursor.sequence <= c.latest
      BY <1>2, <3>1, <3>2
    <3>4. Fresh(v.view, v.cursor.sequence, b, now) => Fresh(v.view, v.cursor.sequence, c, later)
      BY <3>2, <3>3 DEF Moves
    <3> QED
      BY <3>1, <3>3, <3>4
  <2> QED
    BY <2>1, <2>2
<1> QED
  BY <1>1, <1>2, <1>3, <1>4 DEF Good

\* The bridge has served a subscribe: the subscription is the session's.
LEMMA SubscribedGood ==
    ASSUME NEW v, NEW b, clock \in Nat, Good(v, b, clock), b.session # 0,
           NEW subscription, NEW c, c = Subscribed(b, subscription)
    PROVE  /\ Good(v, c, clock)
           /\ c.session = b.session
           /\ Resolves(b, subscription) => c.subscription = c.session
<1>1. PICK a : a = Ticked(b, clock)
  OBVIOUS
<1>2. Moves(a, b, clock, clock)
  BY <1>1, TickedMoves DEF Good
<1>3. Good(v, a, clock) /\ SameLink(a, b)
  BY <1>2, MovesKeepGood DEF Moves
<1>4. CASE ~Resolves(b, subscription)
  <2>1. c = a
    BY <1>1, <1>4 DEF Subscribed
  <2> QED
    BY <1>3, <1>4, <2>1 DEF SameLink
<1>5. CASE Resolves(b, subscription)
  <2>1. c = [a EXCEPT !.subscription = b.session]
    BY <1>1, <1>5 DEF Subscribed
  <2>2. a \in Bridges /\ LogKept(a) /\ b.session \in Nat /\ a.session = b.session
    BY <1>3, BridgeTypes DEF Good, LogKept, SameLink
  <2>3. /\ c \in Bridges /\ c.log = a.log /\ c.latest = a.latest /\ c.epoch = a.epoch
        /\ c.lease = a.lease /\ c.session = a.session /\ c.subscription = a.session
    BY <2>1, <2>2 DEF Bridges
  <2>4. c.up = a.up
    BY <2>1, <2>2 DEF Bridges
  <2>5. LogKept(c)
    BY <2>2, <2>3 DEF LogKept
  <2>6. Linked(v, c)
    BY <1>3, <2>2, <2>3, <2>4 DEF Good, Linked, Sessions
  <2>7. Mirrored(v, c, clock)
    BY <1>3, <2>3 DEF Good, Mirrored, Fresh, Behind, Oldest
  <2>8. Good(v, c, clock)
    BY <1>3, <2>5, <2>6, <2>7 DEF Good
  <2> QED
    BY <2>2, <2>3, <2>8
<1> QED
  BY <1>4, <1>5

\* A subscription the viewer names is the one its session has.
LEMMA SubscriptionResolves ==
    ASSUME NEW v, NEW b, NEW now, Good(v, b, now), b.session # 0, v.pc = "poll"
    PROVE  Resolves(b, v.subscription)
<1>1. LogKept(b) /\ v \in Viewers /\ Linked(v, b)
  BY DEF Good
<1>2. b.session = v.connection /\ v.known = v.connection
  BY <1>1 DEF Linked, Sessions
<1>3. v.subscription = 0 \/ v.subscription = b.session
  BY <1>1, <1>2 DEF Linked, Sessions
<1>4. b.subscription = 0 \/ b.subscription = b.session
  BY <1>1 DEF Linked, Sessions
<1>5. v.subscription = b.session => b.subscription = b.session
  BY <1>1 DEF Linked, Sessions
<1> QED
  BY <1>3, <1>4, <1>5 DEF Resolves

LEMMA NamelessResolves ==
    ASSUME NEW v, NEW b, NEW now, Good(v, b, now)
    PROVE  Resolves(b, 0)
BY DEF Good, Linked, Sessions, Resolves

---------------------------------------------------------------------------
(***************************************************************************)
(* Reading the stream.                                                     *)
(***************************************************************************)
HasGap(batch) == batch.gap

\* A batch without a gap moves the cursor on, and what the reader was behind of is
\* in the batch or still ahead of it.
LEMMA BatchReads ==
    ASSUME NEW b, LogKept(b), NEW cursor \in Cursors, ~Gap(b, cursor),
           NEW batch, batch = Batch(b, cursor)
    PROVE  /\ ~HasGap(batch)
           /\ \E n \in Nat : /\ batch.cursor = [epoch |-> b.epoch, sequence |-> n]
                             /\ n <= b.latest
                             /\ Behind(cursor.sequence, b) =>
                                  Behind(n, b) \/ \E kind \in ToSet(batch.events) : RefreshEvent(kind)
<1>1. PICK s \in Nat : s = cursor.sequence
  BY DEF Cursors
<1>2. PICK l \in Nat : l = b.latest
  BY BridgeTypes
<1>3. PICK log \in Seq(Kinds) : log = b.log
  BY BridgeTypes
<1>4. PICK m \in Nat : m = Len(log)
  OBVIOUS
<1>5. m <= l /\ (l > 0 => m > 0)
  BY <1>2, <1>3, <1>4 DEF LogKept
<1>6. PICK o \in Int : o = Oldest(b)
  BY <1>2, <1>3, <1>4 DEF Oldest
<1>7. s >= o - 1 /\ s <= l
  BY <1>1, <1>2, <1>6 DEF Gap
<1>8. m > 0 => o = l - m + 1
  BY <1>2, <1>3, <1>4, <1>6, OldestOf
<1>9. m = 0 => l = 0 /\ o = 0 /\ log = <<>>
  <2>1. m = 0 => log = <<>>
    BY <1>4, EmptySeq
  <2> QED
    BY <1>2, <1>3, <1>5, <1>6, <2>1 DEF Oldest
<1>10. PICK first : first = IF s >= o THEN s - o + 2 ELSE 1
  OBVIOUS
<1>11. /\ first \in Int /\ first >= 1
       /\ m > 0 => first = s - o + 2
  BY <1>7, <1>10
<1>12. PICK unread : unread = SubSeq(log, first, m)
  OBVIOUS
<1>13. /\ unread \in Seq(Kinds)
       /\ \A j \in 1 .. Len(unread) : unread[j] = log[first + j - 1] /\ first + j - 1 \in 1 .. m
       /\ Len(unread) = IF first <= m THEN m - first + 1 ELSE 0
  BY <1>4, <1>10, <1>11, <1>12
<1>14. PICK k \in Nat : k = IF Len(unread) > BatchLimit THEN BatchLimit ELSE Len(unread)
  BY <1>13, EventConstants
<1>15. k <= Len(unread) /\ Len(unread) \in Nat
  BY <1>13, <1>14, EventConstants
<1>16. PICK events : events = SubSeq(unread, 1, k)
  OBVIOUS
<1>17. /\ events \in Seq(Kinds) /\ Len(events) = k
       /\ \A j \in 1 .. k : events[j] = unread[j]
  BY <1>13, <1>15, <1>16
<1>18. PICK n : n = IF events = <<>> THEN s ELSE o + first + k - 2
  OBVIOUS
<1>19. n = s + k
  <2>1. CASE k = 0
    <3>1. events = <<>>
      BY <1>17, <2>1, EmptySeq
    <3> QED
      BY <1>18, <2>1, <3>1
  <2>2. CASE k # 0
    <3>1. events # <<>>
      BY <1>17, <2>2
    <3>2. m > 0
      BY <1>11, <1>13, <1>15, <2>2
    <3> QED
      BY <1>11, <1>18, <3>1, <3>2
  <2> QED
    BY <2>1, <2>2
<1>20. n \in Nat /\ n <= l
  <2>1. CASE k = 0
    BY <1>7, <1>19, <2>1
  <2>2. CASE k # 0
    <3>1. m > 0 /\ k <= m - first + 1
      BY <1>11, <1>13, <1>15, <2>2
    <3> QED
      BY <1>8, <1>11, <1>19, <3>1
  <2> QED
    BY <2>1, <2>2
<1>21. ASSUME Behind(s, b)
       PROVE  Behind(n, b) \/ \E kind \in ToSet(events) : RefreshEvent(kind)
  <2>1. ~(s < o - 1)
    BY <1>7
  <2>2. PICK i \in 1 .. m : RefreshEvent(log[i]) /\ s < l - m + i
    BY <1>2, <1>3, <1>4, <1>6, <1>21, <2>1 DEF Behind
  <2>3. PICK j \in Int : j = i - first + 1
    BY <1>11
  <2>4. o = l - m + 1 /\ first = s - o + 2 /\ i - first + 1 >= 1 /\ first <= m
    BY <1>8, <1>11, <2>2
  <2>5. j >= 1 /\ first + j - 1 = i /\ l - m + i = s + j
    BY <2>3, <2>4
  <2>6. CASE j <= k
    <3>1. j \in 1 .. k /\ j \in 1 .. Len(unread)
      BY <1>15, <2>5, <2>6
    <3>2. events[j] = log[i]
      BY <1>13, <1>17, <2>5, <3>1
    <3>3. events[j] \in ToSet(events)
      BY <1>17, <3>1 DEF ToSet
    <3> QED
      BY <2>2, <3>2, <3>3
  <2>7. CASE ~(j <= k)
    <3>1. n < l - m + i
      BY <1>19, <2>5, <2>7
    <3> QED
      BY <1>2, <1>3, <1>4, <2>2, <3>1 DEF Behind
  <2> QED
    BY <2>6, <2>7
<1>22. ~HasGap(batch) /\ batch.events = events /\ batch.cursor = [epoch |-> b.epoch, sequence |-> n]
  <2>1. n = IF events = <<>> THEN s ELSE o + first + Len(events) - 2
    BY <1>17, <1>18
  <2>2. PICK more : more = (~Gap(b, cursor) /\ n < b.latest)
    OBVIOUS
  <2>3. PICK gap : gap = Gap(b, cursor)
    OBVIOUS
  <2>4. batch = [gap |-> gap, events |-> events, more |-> more,
                 cursor |-> [epoch |-> b.epoch, sequence |-> n]]
    BY <1>1, <1>3, <1>4, <1>6, <1>10, <1>12, <1>14, <1>16, <2>1, <2>2, <2>3 DEF Batch
  <2>5. batch.events = events /\ batch.cursor = [epoch |-> b.epoch, sequence |-> n]
        /\ batch.gap = gap
    BY <2>4
  <2> QED
    BY <2>3, <2>5 DEF HasGap
<1> QED
  BY <1>1, <1>2, <1>20, <1>21, <1>22

\* A batch with a gap leaves the cursor where it is.
LEMMA BatchWithGap ==
    ASSUME NEW b, LogKept(b), NEW cursor \in Cursors, Gap(b, cursor),
           NEW batch, batch = Batch(b, cursor)
    PROVE  HasGap(batch) /\ batch.cursor = [epoch |-> b.epoch, sequence |-> cursor.sequence]
<1>1. PICK gap, more : gap = Gap(b, cursor) /\ more = FALSE
  OBVIOUS
<1>2. batch = [gap |-> gap, events |-> <<>>, more |-> more,
               cursor |-> [epoch |-> b.epoch, sequence |-> cursor.sequence]]
  BY <1>1 DEF Batch
<1>3. batch.gap = gap /\ batch.cursor = [epoch |-> b.epoch, sequence |-> cursor.sequence]
  BY <1>2
<1> QED
  BY <1>1, <1>3 DEF HasGap

LEMMA BatchCursor ==
    ASSUME NEW b, LogKept(b), NEW cursor \in Cursors,
           NEW batch, batch = Batch(b, cursor)
    PROVE  /\ batch.cursor \in Cursors
           /\ batch.cursor.epoch = b.epoch
<1>1. b.epoch \in Nat /\ cursor.sequence \in Nat
  BY BridgeTypes DEF Cursors
<1>2. PICK n \in Nat : batch.cursor = [epoch |-> b.epoch, sequence |-> n]
  <2>1. CASE Gap(b, cursor)
    <3>1. batch.cursor = [epoch |-> b.epoch, sequence |-> cursor.sequence]
      BY <2>1, BatchWithGap
    <3> QED
      BY <1>1, <3>1
  <2>2. CASE ~Gap(b, cursor)
    <3>1. \E n \in Nat : batch.cursor = [epoch |-> b.epoch, sequence |-> n]
      BY <2>2, BatchReads
    <3> QED
      BY <3>1
  <2> QED
    BY <2>1, <2>2
<1> QED
  BY <1>1, <1>2 DEF Cursors

LEMMA SynchronizeFacts ==
    ASSUME NEW v \in Viewers, NEW w, w = Synchronize(v)
    PROVE  /\ w \in Viewers
           /\ w.connection = v.connection /\ w.known = v.connection
           /\ w.subscription = IF v.connection = v.known THEN v.subscription ELSE 0
           /\ w.lost = v.lost /\ w.batches = v.batches
           /\ v.connection = v.known => w = v
<1>1. CASE v.connection = v.known
  BY <1>1 DEF Synchronize
<1>2. CASE v.connection # v.known
  <2>1. w = [v EXCEPT !.subscription = 0, !.cursor = NoCursor, !.known = v.connection,
                      !.required = TRUE]
    BY <1>2 DEF Synchronize
  <2>2. NoCursor \in Cursors
    BY DEF NoCursor, Cursors
  <2>3. w \in Viewers
    <3>1. PICK required \in BOOLEAN : required = TRUE
      OBVIOUS
    <3>2. PICK cursor \in Cursors : cursor = NoCursor
      BY <2>2
    <3>3. PICK known \in Nat : known = v.connection
      BY ViewerTypes
    <3>4. w = [v EXCEPT !.subscription = 0, !.cursor = cursor, !.known = known,
                        !.required = required]
      BY <2>1, <3>1, <3>2, <3>3
    <3>5. ASSUME NEW x, x = [v EXCEPT !.subscription = 0, !.cursor = cursor, !.known = known,
                                      !.required = required]
          PROVE  x \in Viewers
      BY <3>5 DEF Viewers
    <3> QED
      BY <3>4, <3>5
  <2>4. /\ w.connection = v.connection /\ w.known = v.connection /\ w.subscription = 0
        /\ w.lost = v.lost /\ w.batches = v.batches
    BY <2>1 DEF Viewers
  <2> QED
    BY <1>2, <2>3, <2>4
<1> QED
  BY <1>1, <1>2

---------------------------------------------------------------------------
(***************************************************************************)
(* Steps of the viewer.                                                    *)
(***************************************************************************)
\* What Sessions and Mirrored read of a viewer beside its pc and required.
Same(w, v) ==
    /\ w.connection = v.connection /\ w.known = v.known /\ w.subscription = v.subscription
    /\ w.cursor = v.cursor /\ w.view = v.view /\ w.lost = v.lost

LEMMA GoesTo ==
    ASSUME NEW v \in Viewers, NEW pc \in Points, NEW w, w = [v EXCEPT !.pc = pc]
    PROVE  w \in Viewers /\ w.pc = pc /\ Same(w, v)
BY DEF Viewers, Same

LEMMA GoesToRefresh ==
    ASSUME NEW v \in Viewers, NEW gap \in BOOLEAN,
           NEW w, w = [v EXCEPT !.pc = "refresh", !.gap = gap]
    PROVE  w \in Viewers /\ w.pc = "refresh" /\ Same(w, v)
<1>1. PICK pc \in Points : pc = "refresh"
  BY DEF Points, Exchanging
<1>2. ASSUME NEW x, x = [v EXCEPT !.pc = pc, !.gap = gap]
      PROVE  x \in Viewers /\ x.pc = pc /\ Same(x, v)
  BY <1>2 DEF Viewers, Same
<1> QED
  BY <1>1, <1>2

LEMMA GoesToReconnect ==
    ASSUME NEW v \in Viewers, NEW after \in Exchanging,
           NEW w, w = [v EXCEPT !.pc = "reconnect", !.after = after]
    PROVE  w \in Viewers /\ w.pc = "reconnect" /\ Same(w, v)
<1>1. PICK pc \in Points : pc = "reconnect"
  BY DEF Points
<1>2. ASSUME NEW x, x = [v EXCEPT !.pc = pc, !.after = after]
      PROVE  x \in Viewers /\ x.pc = pc /\ Same(x, v)
  BY <1>2 DEF Viewers, Same
<1> QED
  BY <1>1, <1>2

LEMMA GoesToPoll ==
    ASSUME NEW v \in Viewers, NEW w, w = [v EXCEPT !.pc = "poll", !.needs = FALSE, !.batches = 0]
    PROVE  w \in Viewers /\ w.pc = "poll" /\ Same(w, v)
<1>1. PICK pc \in Points : pc = "poll"
  BY DEF Points
<1>2. PICK needs \in BOOLEAN : needs = FALSE
  OBVIOUS
<1>3. ASSUME NEW x, x = [v EXCEPT !.pc = pc, !.needs = needs, !.batches = 0]
      PROVE  x \in Viewers /\ x.pc = pc /\ Same(x, v)
  BY <1>3 DEF Viewers, Same
<1> QED
  BY <1>1, <1>2, <1>3

\* A viewer in an exchange other than polling, or waiting to recover.
LEMMA ElsewhereIsGood ==
    ASSUME NEW v, NEW b, NEW now, LogKept(b), Sessions(v, b), NEW w \in Viewers, Same(w, v),
           w.pc \in Exchanging \union {"recover"}
    PROVE  Good(w, b, now)
<1>1. w.pc # "poll" /\ w.pc # "reconnect" /\ w.pc # "failed"
  BY DEF Exchanging
<1>2. Sessions(w, b)
  BY DEF Sessions, Same
<1> QED
  BY <1>1, <1>2 DEF Good, Linked, Mirrored

\* A viewer that polls with a cursor of this bridge.
LEMMA PollingIsGood ==
    ASSUME NEW v, NEW b, NEW now, LogKept(b), Sessions(v, b), v.known = v.connection,
           v.cursor.epoch = b.epoch, v.cursor.sequence <= b.latest,
           NEW w \in Viewers, Same(w, v), w.pc = "poll",
           w.required \/ Fresh(v.view, v.cursor.sequence, b, now)
    PROVE  Good(w, b, now)
<1>1. Sessions(w, b) /\ w.known = w.connection
  BY DEF Sessions, Same
<1>2. b.epoch \in Nat /\ b.epoch > 0
  BY BridgeTypes
<1>3. Mirrored(w, b, now)
  BY <1>2 DEF Mirrored, Same
<1> QED
  BY <1>1, <1>3 DEF Good, Linked

\* Where the viewer stands after it took a batch, before it decides what to do.
Took(w, v, batch, issuer) ==
    w = [Synchronize(v) EXCEPT !.subscription = issuer, !.cursor = batch.cursor]

LEMMA TookFacts ==
    ASSUME NEW v \in Viewers, NEW c, LogKept(c), c.session # 0, c.session = v.connection,
           c.subscription = c.session, NEW batch, batch.cursor \in Cursors,
           NEW w, Took(w, v, batch, c.session)
    PROVE  /\ w \in Viewers /\ Sessions(w, c) /\ w.known = w.connection
           /\ w.cursor = batch.cursor
           /\ v.connection = v.known => w.view = v.view /\ w.pc = v.pc
<1>1. PICK u : u = Synchronize(v)
  OBVIOUS
<1>2. /\ u \in Viewers /\ u.connection = v.connection /\ u.known = v.connection
      /\ v.connection = v.known => u = v
  BY <1>1, SynchronizeFacts
<1>3. PICK cursor \in Cursors : cursor = batch.cursor
  OBVIOUS
<1>4. PICK issuer \in Nat : issuer = c.session
  BY BridgeTypes
<1>5. w = [u EXCEPT !.subscription = issuer, !.cursor = cursor]
  BY <1>1, <1>3, <1>4 DEF Took
<1>6. /\ w \in Viewers /\ w.connection = u.connection /\ w.known = u.known
      /\ w.subscription = issuer /\ w.cursor = cursor /\ w.view = u.view /\ w.pc = u.pc
  BY <1>2, <1>5 DEF Viewers
<1>7. w.connection \in Nat
  BY <1>6, ViewerTypes
<1>8. Sessions(w, c)
  BY <1>2, <1>4, <1>6, <1>7 DEF Sessions
<1> QED
  BY <1>2, <1>3, <1>6, <1>8

LEMMA TookRequired ==
    ASSUME NEW v \in Viewers, v.connection = v.known, NEW batch, NEW issuer,
           NEW w, Took(w, v, batch, issuer)
    PROVE  w.required = v.required
<1>1. w = [v EXCEPT !.subscription = issuer, !.cursor = batch.cursor]
  BY DEF Took, Synchronize
<1> QED
  BY <1>1 DEF Viewers

\* A gap, or a new connection, leads to a refresh.
LEMMA PolledWithGap ==
    ASSUME NEW v \in Viewers, NEW c, LogKept(c), NEW now, c.session # 0,
           c.session = v.connection, c.subscription = c.session, NEW batch,
           batch.cursor \in Cursors, HasGap(batch) \/ v.connection # v.known,
           NEW w, w = Polled(v, batch, c.session)
    PROVE  Good(w, c, now)
<1>1. PICK u : Took(u, v, batch, c.session)
  BY DEF Took
<1>2. u \in Viewers /\ Sessions(u, c)
  BY <1>1, TookFacts
<1>3. w = [u EXCEPT !.pc = "refresh", !.gap = TRUE]
  BY <1>1 DEF Took, Polled, HasGap
<1>4. PICK gap \in BOOLEAN : gap = TRUE
  OBVIOUS
<1>5. w \in Viewers /\ w.pc = "refresh" /\ Same(w, u)
  BY <1>2, <1>3, <1>4, GoesToRefresh
<1>6. w.pc \in Exchanging \union {"recover"}
  BY <1>5 DEF Exchanging
<1> QED
  BY <1>2, <1>5, <1>6, ElsewhereIsGood

\* A batch of events: what makes the viewer refresh is due, the rest is still ahead.
LEMMA PolledEvents ==
    ASSUME NEW v, NEW c, NEW now, Good(v, c, now), v.pc = "poll", c.session # 0,
           c.session = v.connection, c.subscription = c.session, v.connection = v.known,
           v.cursor.epoch = c.epoch, ~Gap(c, v.cursor),
           NEW batch, batch = Batch(c, v.cursor), NEW w, w = Polled(v, batch, c.session)
    PROVE  Good(w, c, now)
<1>1. LogKept(c) /\ v \in Viewers /\ v.cursor \in Cursors /\ v.view \in Leases
  BY ViewerTypes DEF Good
<1>2. PICK n \in Nat : /\ batch.cursor = [epoch |-> c.epoch, sequence |-> n]
                       /\ n <= c.latest
                       /\ Behind(v.cursor.sequence, c) =>
                            Behind(n, c) \/ \E kind \in ToSet(batch.events) : RefreshEvent(kind)
  BY <1>1, BatchReads
<1>3. ~HasGap(batch)
  BY <1>1, BatchReads
<1>4. batch.cursor \in Cursors /\ batch.cursor.epoch = c.epoch /\ batch.cursor.sequence = n
  BY <1>1, <1>2, BridgeTypes DEF Cursors
<1>5. PICK u : Took(u, v, batch, c.session)
  BY DEF Took
<1>6. /\ u \in Viewers /\ Sessions(u, c) /\ u.known = u.connection
      /\ u.cursor = batch.cursor /\ u.view = v.view /\ u.pc = "poll"
  BY <1>1, <1>4, <1>5, TookFacts
<1>7. u.required = v.required
  BY <1>1, <1>5, TookRequired
<1>8. PICK needs \in BOOLEAN :
         needs = (u.needs \/ \E kind \in ToSet(batch.events) : RefreshEvent(kind))
  OBVIOUS
<1>9. PICK required \in BOOLEAN : required = (u.required \/ needs)
  OBVIOUS
<1>10. PICK read : read = [u EXCEPT !.needs = needs, !.required = required, !.batches = u.batches + 1]
  OBVIOUS
<1>11. read \in Viewers /\ Same(read, u) /\ read.pc = "poll"
  <2>1. PICK batches \in Nat : batches = u.batches + 1
    BY <1>6, ViewerTypes
  <2>2. ASSUME NEW x, x = [u EXCEPT !.needs = needs, !.required = required, !.batches = batches]
        PROVE  x \in Viewers /\ Same(x, u) /\ x.pc = u.pc
    BY <1>6, <2>2 DEF Viewers, Same
  <2> QED
    BY <1>6, <1>10, <2>1, <2>2
<1>12. read.required = required
  BY <1>6, <1>10 DEF Viewers
<1>13. required \/ Fresh(u.view, u.cursor.sequence, c, now)
  <2>1. v.required \/ Fresh(v.view, v.cursor.sequence, c, now)
    BY DEF Good, Mirrored
  <2>2. v.required => required
    BY <1>7, <1>9
  <2>3. Agrees(v.view, c.lease, now) => Fresh(u.view, u.cursor.sequence, c, now)
    BY <1>6 DEF Fresh
  <2>4. Behind(n, c) => Fresh(u.view, u.cursor.sequence, c, now)
    BY <1>4, <1>6 DEF Fresh
  <2>5. (\E kind \in ToSet(batch.events) : RefreshEvent(kind)) => required
    BY <1>8, <1>9
  <2> QED
    BY <1>2, <2>1, <2>2, <2>3, <2>4, <2>5 DEF Fresh
<1>14. w = IF batch.more /\ read.batches < MaxBatches THEN read
           ELSE IF needs THEN [read EXCEPT !.pc = "refresh", !.gap = FALSE]
           ELSE StepDone(read)
  <2>1. PICK next : next = [u EXCEPT !.needs = (u.needs \/ \E kind \in ToSet(batch.events) : RefreshEvent(kind)),
                                     !.required = @ \/ (u.needs \/ \E kind \in ToSet(batch.events) : RefreshEvent(kind)),
                                     !.batches = @ + 1]
    OBVIOUS
  <2>2. w = IF batch.more /\ next.batches < MaxBatches THEN next
            ELSE IF u.needs \/ \E kind \in ToSet(batch.events) : RefreshEvent(kind)
            THEN [next EXCEPT !.pc = "refresh", !.gap = FALSE]
            ELSE StepDone(next)
    BY <1>3, <1>5, <2>1 DEF Took, Polled, HasGap
  <2>3. next = read
    BY <1>8, <1>9, <1>10, <2>1
  <2> QED
    BY <1>8, <2>2, <2>3
<1>15. u.cursor.epoch = c.epoch /\ u.cursor.sequence <= c.latest
  BY <1>2, <1>4, <1>6
<1>16. PICK gap \in BOOLEAN : gap = FALSE
  OBVIOUS
<1>17. PICK up \in BOOLEAN : up = TRUE
  OBVIOUS
<1>18. CASE w = read
  <2>1. w.required \/ Fresh(u.view, u.cursor.sequence, c, now)
    BY <1>12, <1>13, <1>18
  <2> QED
    BY <1>1, <1>6, <1>11, <1>15, <1>18, <2>1, PollingIsGood
<1>19. CASE w = [read EXCEPT !.pc = "refresh", !.gap = FALSE] \/ w = [read EXCEPT !.pc = "refresh", !.gap = TRUE]
  <2>1. w \in Viewers /\ w.pc = "refresh" /\ Same(w, read)
    BY <1>11, <1>16, <1>17, <1>19, GoesToRefresh
  <2>2. w.pc \in Exchanging \union {"recover"} /\ Same(w, u)
    BY <1>11, <2>1 DEF Exchanging, Same
  <2> QED
    BY <1>1, <1>6, <2>1, <2>2, ElsewhereIsGood
<1>20. CASE ~required /\ w = [read EXCEPT !.pc = "poll", !.needs = FALSE, !.batches = 0]
  <2>1. w \in Viewers /\ w.pc = "poll" /\ Same(w, read)
    BY <1>11, <1>20, GoesToPoll
  <2>2. Same(w, u)
    BY <1>11, <2>1 DEF Same
  <2>3. Fresh(u.view, u.cursor.sequence, c, now)
    BY <1>13, <1>20
  <2>4. w.required \/ Fresh(u.view, u.cursor.sequence, c, now)
    BY <2>3
  <2> QED
    BY <1>1, <1>6, <1>15, <2>1, <2>2, <2>4, PollingIsGood
<1>21. w = StepDone(read) => \/ w = [read EXCEPT !.pc = "refresh", !.gap = TRUE]
                             \/ ~required /\ w = [read EXCEPT !.pc = "poll", !.needs = FALSE, !.batches = 0]
  BY <1>12 DEF StepDone
<1> QED
  BY <1>14, <1>18, <1>19, <1>20, <1>21

\* A refresh brings the viewer up to the bridge's state and the end of the stream.
LEMMA RefreshedGood ==
    ASSUME NEW v, NEW c, NEW now, Good(v, c, now), NEW w, w = Refreshed(v, c)
    PROVE  Good(w, c, now)
<1>1. LogKept(c) /\ v \in Viewers /\ Sessions(v, c)
  BY DEF Good, Linked
<1>2. PICK s : s = Synchronize(v)
  OBVIOUS
<1>3. /\ s \in Viewers /\ s.connection = v.connection /\ s.known = v.connection
      /\ s.subscription = IF v.connection = v.known THEN v.subscription ELSE 0
  BY <1>1, <1>2, SynchronizeFacts
<1>4. PICK cursor : cursor = [epoch |-> c.epoch, sequence |-> c.latest]
  OBVIOUS
<1>5. cursor \in Cursors /\ cursor.epoch = c.epoch /\ cursor.sequence = c.latest /\ c.lease \in Leases
      /\ c.latest \in Nat
  BY <1>1, <1>4, BridgeTypes DEF Cursors
<1>6. PICK subscription \in Nat :
        subscription = IF v.gap \/ v.connection # v.known THEN 0 ELSE s.subscription
  BY <1>3, ViewerTypes
<1>7. PICK required \in BOOLEAN : required = FALSE
  OBVIOUS
<1>8. PICK view \in Leases : view = c.lease
  BY <1>5
<1>9. PICK u : u = [s EXCEPT !.view = view, !.required = required, !.cursor = cursor]
  OBVIOUS
<1>10. /\ u \in Viewers /\ u.connection = v.connection /\ u.known = v.connection
       /\ u.subscription = s.subscription /\ u.view = c.lease /\ u.cursor = cursor
  BY <1>3, <1>5, <1>8, <1>9 DEF Viewers
<1>11. u.required = FALSE
  BY <1>3, <1>7, <1>9 DEF Viewers
<1>12. PICK x : x = IF v.gap \/ v.connection # v.known THEN [u EXCEPT !.subscription = 0] ELSE u
  OBVIOUS
<1>13. /\ x \in Viewers /\ x.connection = v.connection /\ x.known = v.connection
       /\ x.subscription = 0 \/ (v.connection = v.known /\ x.subscription = v.subscription)
       /\ x.view = c.lease /\ x.cursor = cursor
  <2>1. CASE v.gap \/ v.connection # v.known
    <3>1. x = [u EXCEPT !.subscription = 0]
      BY <1>12, <2>1
    <3> QED
      BY <1>10, <3>1 DEF Viewers
  <2>2. CASE ~(v.gap \/ v.connection # v.known)
    <3>1. x = u
      BY <1>12, <2>2
    <3> QED
      BY <1>3, <1>10, <2>2, <3>1
  <2> QED
    BY <2>1, <2>2
<1>14. x.required = FALSE
  BY <1>10, <1>11, <1>12 DEF Viewers
<1>15. w = StepDone(x)
  BY <1>2, <1>4, <1>7, <1>8, <1>9, <1>12 DEF Refreshed
<1>16. w = [x EXCEPT !.pc = "poll", !.needs = FALSE, !.batches = 0]
  BY <1>14, <1>15 DEF StepDone
<1>17. w \in Viewers /\ w.pc = "poll" /\ Same(w, x)
  BY <1>13, <1>16, GoesToPoll
<1>18. Sessions(x, c)
  <2>1. v.connection \in Nat
    BY <1>1, ViewerTypes
  <2> QED
    BY <1>1, <1>13, <2>1 DEF Sessions
<1>19. Fresh(x.view, x.cursor.sequence, c, now)
  BY <1>13 DEF Fresh, Agrees
<1>20. /\ x.cursor.epoch = c.epoch /\ x.cursor.sequence <= c.latest /\ x.known = x.connection
  BY <1>5, <1>13
<1>21. w.required \/ Fresh(x.view, x.cursor.sequence, c, now)
  BY <1>19
<1> QED
  BY <1>1, <1>17, <1>18, <1>20, <1>21, PollingIsGood

---------------------------------------------------------------------------
(***************************************************************************)
(* Every step preserves the invariant.                                     *)
(***************************************************************************)
LEMMA InvariantFacts ==
    ASSUME IInv
    PROVE  /\ clock \in Nat /\ Good(viewer, bridge, clock) /\ LogKept(bridge)
           /\ viewer \in Viewers /\ Linked(viewer, bridge) /\ Sessions(viewer, bridge)
           /\ Mirrored(viewer, bridge, clock)
BY DEF IInv, Good, Linked

LEMMA LaterFacts ==
    ASSUME clock \in Nat, NEW later \in Later
    PROVE  later \in Nat /\ clock <= later
BY DEF Later

LEMMA BridgeMoved ==
    ASSUME IInv, clock' \in Nat, viewer' = viewer, Moves(bridge', bridge, clock', clock)
    PROVE  IInv'
<1>1. Good(viewer, bridge', clock')
  BY MovesKeepGood DEF IInv
<1> QED
  BY <1>1 DEF IInv

\* A handler that announces a new lease, or does nothing more.
LEMMA HandledMoves ==
    ASSUME IInv, NEW later \in Later, NEW b, b = Handler(bridge, clock, later),
           NEW lease \in Leases,
           NEW c, c = b \/ c = Appended([b EXCEPT !.lease = lease], "ownership")
    PROVE  Moves(c, bridge, later, clock)
<1>1. clock \in Nat /\ LogKept(bridge) /\ later \in Nat /\ clock <= later
  BY InvariantFacts, LaterFacts
<1>2. Moves(b, bridge, later, clock)
  BY <1>1, HandlerMoves
<1>3. LogKept(b)
  BY <1>2 DEF Moves
<1>4. ASSUME c = Appended([b EXCEPT !.lease = lease], "ownership")
      PROVE  Moves(c, bridge, later, clock)
  <2>1. Moves(c, b, later, later)
    BY <1>3, <1>4, AnnouncedMoves
  <2> QED
    BY <1>1, <1>2, <2>1, MovesCompose
<1> QED
  BY <1>2, <1>4

LEMMA GrantStep ==
    ASSUME IInv, NEW c \in Clients, AcquireLease(c) \/ RenewLease(c)
    PROVE  IInv'
<1>1. PICK later \in Later :
         /\ clock' = later /\ viewer' = viewer
         /\ \/ bridge' = Handler(bridge, clock, later)
            \/ bridge' = Granted(Handler(bridge, clock, later), c, later)
  BY DEF AcquireLease, RenewLease
<1>2. clock \in Nat /\ later \in Nat
  BY InvariantFacts, LaterFacts
<1>3. PICK b : b = Handler(bridge, clock, later)
  OBVIOUS
<1>4. PICK lease : lease = [owner |-> c, expires |-> later + Term]
  OBVIOUS
<1>5. lease \in Leases
  BY <1>2, <1>4, LeaseFacts, EventConstants
<1>6. PICK d : d = bridge'
  OBVIOUS
<1>7. d = b \/ d = Appended([b EXCEPT !.lease = lease], "ownership")
  BY <1>1, <1>3, <1>4, <1>6 DEF Granted
<1>8. Moves(d, bridge, later, clock)
  BY <1>3, <1>5, <1>7, HandledMoves
<1> QED
  BY <1>1, <1>2, <1>6, <1>8, BridgeMoved

LEMMA ReleaseStep ==
    ASSUME IInv, NEW c \in Clients, ReleaseLease(c)
    PROVE  IInv'
<1>1. PICK later \in Later :
         /\ clock' = later /\ viewer' = viewer
         /\ \/ bridge' = Handler(bridge, clock, later)
            \/ bridge' = Appended([Handler(bridge, clock, later) EXCEPT !.lease = NoLease], "ownership")
  BY DEF ReleaseLease
<1>2. clock \in Nat /\ later \in Nat /\ NoLease \in Leases
  BY InvariantFacts, LaterFacts, LeaseFacts
<1>3. PICK b : b = Handler(bridge, clock, later)
  OBVIOUS
<1>4. PICK d : d = bridge'
  OBVIOUS
<1>5. d = b \/ d = Appended([b EXCEPT !.lease = NoLease], "ownership")
  BY <1>1, <1>3, <1>4
<1>6. Moves(d, bridge, later, clock)
  BY <1>2, <1>3, <1>5, HandledMoves
<1> QED
  BY <1>1, <1>2, <1>4, <1>6, BridgeMoved

LEMMA DisconnectStep ==
    ASSUME IInv, NEW c \in Clients, Disconnect(c)
    PROVE  IInv'
<1>1. PICK b : b = Ticked(bridge, clock)
  OBVIOUS
<1>2. PICK d : d = bridge'
  OBVIOUS
<1>3. /\ clock' = clock /\ viewer' = viewer
      /\ d = b \/ d = Appended([b EXCEPT !.lease = NoLease], "ownership")
  BY <1>1, <1>2 DEF Disconnect
<1>4. clock \in Nat /\ LogKept(bridge) /\ NoLease \in Leases
  BY InvariantFacts, LeaseFacts
<1>5. Moves(b, bridge, clock, clock)
  BY <1>1, <1>4, TickedMoves
<1>6. LogKept(b)
  BY <1>5 DEF Moves
<1>7. ASSUME d = Appended([b EXCEPT !.lease = NoLease], "ownership")
      PROVE  Moves(d, bridge, clock, clock)
  <2>1. Moves(d, b, clock, clock)
    BY <1>4, <1>6, <1>7, AnnouncedMoves
  <2> QED
    BY <1>4, <1>5, <2>1, MovesCompose
<1>8. Moves(d, bridge, clock, clock)
  BY <1>3, <1>5, <1>7
<1> QED
  BY <1>2, <1>3, <1>4, <1>8, BridgeMoved

LEMMA QuietStep ==
    ASSUME IInv, Tick \/ TransactionCompletes \/ Elapse
    PROVE  IInv'
<1>1. clock \in Nat /\ LogKept(bridge)
  BY InvariantFacts
<1>2. PICK d : d = bridge'
  OBVIOUS
<1>3. CASE Tick
  <2>1. d = Ticked(bridge, clock) /\ clock' = clock /\ viewer' = viewer
    BY <1>2, <1>3 DEF Tick
  <2>2. Moves(d, bridge, clock, clock)
    BY <1>1, <2>1, TickedMoves
  <2> QED
    BY <1>1, <1>2, <2>1, <2>2, BridgeMoved
<1>4. CASE TransactionCompletes
  <2>1. d = Appended(bridge, "completed") /\ clock' = clock /\ viewer' = viewer
    BY <1>2, <1>4 DEF TransactionCompletes
  <2>2. Moves(d, bridge, clock, clock)
    BY <1>1, <2>1, CompletedMoves
  <2> QED
    BY <1>1, <1>2, <2>1, <2>2, BridgeMoved
<1>5. CASE Elapse
  <2>1. clock' = clock + 1 /\ bridge' = bridge /\ viewer' = viewer
    BY <1>5 DEF Elapse
  <2>2. PICK later \in Nat : later = clock + 1
    BY <1>1
  <2>3. Moves(bridge, bridge, later, clock)
    BY <1>1, <2>2, TimeMoves
  <2> QED
    BY <2>1, <2>2, <2>3, BridgeMoved
<1> QED
  BY <1>3, <1>4, <1>5

\* The bridge stops: its values stay, but no exchange reaches it.
LEMMA StopStep ==
    ASSUME IInv, BridgeStops
    PROVE  IInv'
<1>1. clock \in Nat /\ LogKept(bridge) /\ viewer \in Viewers /\ Linked(viewer, bridge)
      /\ Mirrored(viewer, bridge, clock)
  BY InvariantFacts
<1>2. PICK up \in BOOLEAN : up = FALSE
  OBVIOUS
<1>3. PICK b : b = [bridge EXCEPT !.up = up]
  OBVIOUS
<1>4. bridge' = b /\ viewer' = viewer /\ clock' = clock
  BY <1>2, <1>3 DEF BridgeStops
<1>5. /\ b \in Bridges /\ b.epoch = bridge.epoch /\ b.lease = bridge.lease /\ b.log = bridge.log
      /\ b.latest = bridge.latest /\ b.session = bridge.session
      /\ b.subscription = bridge.subscription
  BY <1>1, <1>3 DEF LogKept, Bridges
<1>6. ~b.up
  BY <1>1, <1>2, <1>3 DEF LogKept, Bridges
<1>7. LogKept(b)
  BY <1>1, <1>5 DEF LogKept
<1>8. Linked(viewer, b)
  BY <1>1, <1>5, <1>6 DEF Linked, Sessions
<1>9. Mirrored(viewer, b, clock)
  BY <1>1, <1>5 DEF Mirrored, Fresh, Behind, Oldest
<1> QED
  BY <1>1, <1>4, <1>7, <1>8, <1>9 DEF IInv, Good

LEMMA BootedFacts ==
    ASSUME NEW e \in Nat, e > 0, NEW b, b = Booted(e)
    PROVE  /\ LogKept(b) /\ b.epoch = e /\ b.session = 0 /\ b.subscription = 0
<1>1. PICK up \in BOOLEAN : up = TRUE
  OBVIOUS
<1>2. PICK log \in Seq(Kinds) : log = <<>>
  BY EmptySeq
<1>3. Len(log) = 0
  BY <1>2
<1>4. b = [up |-> up, epoch |-> e, lease |-> NoLease, log |-> log, latest |-> 0,
           session |-> 0, subscription |-> 0]
  BY <1>1, <1>2 DEF Booted
<1>5. b \in Bridges
  BY <1>4, LeaseFacts DEF Bridges
<1>6. b.epoch = e /\ b.session = 0 /\ b.subscription = 0 /\ b.log = log /\ b.latest = 0
  BY <1>4
<1> QED
  BY <1>3, <1>5, <1>6, EventConstants DEF LogKept

\* A new bridge knows no session, and every cursor is of an earlier stream.
LEMMA StartStep ==
    ASSUME IInv, BridgeStarts
    PROVE  IInv'
<1>1. clock \in Nat /\ LogKept(bridge) /\ viewer \in Viewers /\ Linked(viewer, bridge)
      /\ Mirrored(viewer, bridge, clock)
  BY InvariantFacts
<1>2. PICK e \in Nat : e = bridge.epoch
  BY <1>1, BridgeTypes
<1>3. PICK b : b = Booted(e + 1)
  OBVIOUS
<1>4. bridge' = b /\ viewer' = viewer /\ clock' = clock
  BY <1>2, <1>3 DEF BridgeStarts
<1>5. LogKept(b) /\ b.epoch = e + 1 /\ b.session = 0 /\ b.subscription = 0
  BY <1>3, BootedFacts
<1>6. Linked(viewer, b)
  BY <1>1, <1>5 DEF Linked, Sessions
<1>7. Mirrored(viewer, b, clock)
  <2>1. viewer.cursor.epoch \in Nat
    BY <1>1, ViewerTypes
  <2> QED
    BY <1>1, <1>2, <1>5, <2>1 DEF Mirrored
<1> QED
  BY <1>1, <1>4, <1>5, <1>6, <1>7 DEF IInv, Good

\* A subscribe on the viewer's own connection.
LEMMA PollStep ==
    ASSUME IInv, Poll
    PROVE  IInv'
<1>1. clock \in Nat /\ Good(viewer, bridge, clock) /\ Sessions(viewer, bridge) /\ viewer \in Viewers
      /\ Linked(viewer, bridge)
  BY InvariantFacts
<1>2. PICK c : c = Subscribed(bridge, viewer.subscription)
  OBVIOUS
<1>3. viewer.pc = "poll" /\ bridge.session # 0 /\ bridge.session = viewer.connection
  BY DEF Poll, Reachable
<1>4. Resolves(bridge, viewer.subscription)
  BY <1>1, <1>3, SubscriptionResolves
<1>5. PICK batch : batch = Batch(c, viewer.cursor)
  OBVIOUS
<1>6. PICK w : w = Polled(viewer, batch, c.session)
  OBVIOUS
<1>7. bridge' = c /\ viewer' = w /\ clock' = clock
  BY <1>2, <1>4, <1>5, <1>6 DEF Poll
<1>8. Good(viewer, c, clock) /\ c.session = bridge.session /\ c.subscription = c.session
  BY <1>1, <1>2, <1>3, <1>4, SubscribedGood
<1>9. LogKept(c) /\ Mirrored(viewer, c, clock) /\ viewer.cursor \in Cursors
  BY <1>1, <1>8, ViewerTypes DEF Good
<1>10. batch.cursor \in Cursors
  BY <1>5, <1>9, BatchCursor
<1>11. CASE Gap(c, viewer.cursor)
  <2>1. HasGap(batch)
    BY <1>5, <1>9, <1>11, BatchWithGap
  <2>2. Good(w, c, clock)
    BY <1>1, <1>3, <1>6, <1>8, <1>9, <1>10, <2>1, PolledWithGap
  <2> QED
    BY <1>1, <1>7, <2>2 DEF IInv
<1>12. CASE ~Gap(c, viewer.cursor)
  <2>1. viewer.connection = viewer.known
    BY <1>1, <1>3 DEF Linked
  <2>2. viewer.cursor.epoch \in Nat /\ 0 < viewer.cursor.epoch
    BY <1>1, <1>3, <1>9, ViewerTypes DEF Mirrored
  <2>3. viewer.cursor # NoCursor
    <3>1. NoCursor.epoch = 0
      BY DEF NoCursor
    <3> QED
      BY <2>2, <3>1
  <2>4. viewer.cursor.epoch = c.epoch
    BY <1>12, <2>3 DEF Gap
  <2>5. Good(w, c, clock)
    BY <1>3, <1>5, <1>6, <1>8, <1>12, <2>1, <2>4, PolledEvents
  <2> QED
    BY <1>1, <1>7, <2>5 DEF IInv
<1> QED
  BY <1>11, <1>12

\* The retry on a new connection is answered as a gap.
LEMMA ResubscribeStep ==
    ASSUME IInv, Resubscribe
    PROVE  IInv'
<1>1. clock \in Nat /\ Good(viewer, bridge, clock) /\ viewer \in Viewers
  BY InvariantFacts
<1>2. PICK c : c = Subscribed(bridge, 0)
  OBVIOUS
<1>3. bridge.session # 0 /\ bridge.session = viewer.connection
  BY DEF Resubscribe, Reachable
<1>4. Resolves(bridge, 0)
  BY <1>1, NamelessResolves
<1>5. PICK read : read = Batch(c, NoCursor)
  OBVIOUS
<1>6. PICK batch : batch = [read EXCEPT !.gap = TRUE, !.more = FALSE]
  OBVIOUS
<1>7. PICK w : w = Polled(viewer, batch, c.session)
  OBVIOUS
<1>8. bridge' = c /\ viewer' = w /\ clock' = clock
  BY <1>2, <1>4, <1>5, <1>6, <1>7 DEF Resubscribe
<1>9. Good(viewer, c, clock) /\ c.session = bridge.session /\ c.subscription = c.session
  BY <1>1, <1>2, <1>3, <1>4, SubscribedGood
<1>10. LogKept(c) /\ NoCursor \in Cursors
  BY <1>9 DEF Good, NoCursor, Cursors
<1>11. read.cursor \in Cursors
  BY <1>5, <1>10, BatchCursor
<1>12. PICK gap, events, more, cursor :
         read = [gap |-> gap, events |-> events, more |-> more, cursor |-> cursor]
  BY <1>5 DEF Batch
<1>13. PICK yes, no : yes = TRUE /\ no = FALSE
  OBVIOUS
<1>14. batch = [gap |-> yes, events |-> events, more |-> no, cursor |-> cursor]
  BY <1>6, <1>12, <1>13
<1>15. batch.cursor = read.cursor /\ batch.gap = yes
  BY <1>12, <1>14
<1>16. HasGap(batch)
  BY <1>13, <1>15 DEF HasGap
<1>17. batch.cursor \in Cursors
  BY <1>11, <1>15
<1>18. Good(w, c, clock)
  BY <1>1, <1>3, <1>7, <1>9, <1>10, <1>16, <1>17, PolledWithGap
<1> QED
  BY <1>1, <1>8, <1>18 DEF IInv

LEMMA RefreshStep ==
    ASSUME IInv, Refresh
    PROVE  IInv'
<1>1. PICK later \in Later :
         /\ clock' = later /\ bridge' = Handler(bridge, clock, later)
         /\ viewer' = Refreshed(viewer, Handler(bridge, clock, later))
  BY DEF Refresh
<1>2. /\ clock \in Nat /\ Good(viewer, bridge, clock) /\ LogKept(bridge)
      /\ later \in Nat /\ clock <= later
  BY InvariantFacts, LaterFacts
<1>3. PICK c : c = Handler(bridge, clock, later)
  OBVIOUS
<1>4. PICK w : w = Refreshed(viewer, c)
  OBVIOUS
<1>5. Moves(c, bridge, later, clock)
  BY <1>2, <1>3, HandlerMoves
<1>6. Good(viewer, c, later)
  BY <1>2, <1>5, MovesKeepGood
<1>7. Good(w, c, later)
  BY <1>4, <1>6, RefreshedGood
<1> QED
  BY <1>1, <1>2, <1>3, <1>4, <1>7 DEF IInv

---------------------------------------------------------------------------
(***************************************************************************)
(* Exchanges that fail, and what follows them.                             *)
(***************************************************************************)
LEMMA FailedExchange ==
    ASSUME NEW v \in Viewers, NEW w, w = ExchangeFails(v)
    PROVE  w \in Viewers /\ Same(w, v) /\ (w.pc = "reconnect" \/ w.pc = "recover")
<1>1. PICK resubscribe \in Exchanging : resubscribe = "resubscribe"
  BY DEF Exchanging
<1>2. PICK reread \in Exchanging : reread = "reread"
  BY DEF Exchanging
<1>3. PICK recover \in Points : recover = "recover"
  BY DEF Points
<1>4. CASE v.pc = "poll"
  <2>1. w = [v EXCEPT !.pc = "reconnect", !.after = resubscribe]
    BY <1>1, <1>4 DEF ExchangeFails
  <2> QED
    BY <2>1, GoesToReconnect
<1>5. CASE v.pc = "refresh"
  <2>1. w = [v EXCEPT !.pc = "reconnect", !.after = reread]
    BY <1>2, <1>5 DEF ExchangeFails
  <2> QED
    BY <2>1, GoesToReconnect
<1>6. CASE v.pc # "poll" /\ v.pc # "refresh"
  <2>1. w = [v EXCEPT !.pc = recover]
    BY <1>3, <1>6 DEF ExchangeFails, StepFailed
  <2> QED
    BY <1>3, <2>1, GoesTo
<1> QED
  BY <1>4, <1>5, <1>6

\* A viewer that reconnects because the bridge does not know it.
LEMMA ReconnectingIsGood ==
    ASSUME NEW v, NEW b, NEW now, LogKept(b), Sessions(v, b), ~b.up \/ b.session = 0,
           NEW w \in Viewers, Same(w, v), w.pc = "reconnect"
    PROVE  Good(w, b, now)
<1>1. Sessions(w, b)
  BY DEF Sessions, Same
<1> QED
  BY <1>1 DEF Good, Linked, Mirrored

LEMMA ConnectionErrorStep ==
    ASSUME IInv, ConnectionError
    PROVE  IInv'
<1>1. clock \in Nat /\ LogKept(bridge) /\ viewer \in Viewers /\ Sessions(viewer, bridge)
  BY InvariantFacts
<1>2. PICK w : w = ExchangeFails(viewer)
  OBVIOUS
<1>3. viewer' = w /\ bridge' = bridge /\ clock' = clock /\ ~Reachable
  BY <1>2 DEF ConnectionError
<1>4. ~bridge.up \/ bridge.session = 0
  BY <1>1, <1>3 DEF Reachable, Sessions
<1>5. w \in Viewers /\ Same(w, viewer) /\ (w.pc = "reconnect" \/ w.pc = "recover")
  BY <1>1, <1>2, FailedExchange
<1>6. Good(w, bridge, clock)
  <2>1. CASE w.pc = "reconnect"
    BY <1>1, <1>4, <1>5, <2>1, ReconnectingIsGood
  <2>2. CASE w.pc = "recover"
    <3>1. w.pc \in Exchanging \union {"recover"}
      BY <2>2
    <3> QED
      BY <1>1, <1>5, <3>1, ElsewhereIsGood
  <2> QED
    BY <1>5, <2>1, <2>2
<1> QED
  BY <1>1, <1>3, <1>6 DEF IInv

\* The bridge has served the request whose answer comes too late.
LEMMA TimeoutStep ==
    ASSUME IInv, AnswerTimesOut
    PROVE  IInv'
<1>1. clock \in Nat /\ Good(viewer, bridge, clock) /\ LogKept(bridge) /\ viewer \in Viewers
  BY InvariantFacts
<1>2. bridge.session # 0 /\ viewer' = AnswerLost(ExchangeFails(viewer))
  BY DEF AnswerTimesOut, Reachable
<1>3. PICK later \in Later :
         /\ clock' = later
         /\ bridge' = CASE viewer.pc = "poll" -> Subscribed(bridge, viewer.subscription)
                        [] viewer.pc = "resubscribe" -> Subscribed(bridge, 0)
                        [] OTHER -> Handler(bridge, clock, later)
         /\ viewer.pc \in {"poll", "resubscribe"} => later = clock
  BY DEF AnswerTimesOut
<1>4. later \in Nat /\ clock <= later
  BY <1>1, LaterFacts
<1>5. PICK c : c = bridge'
  OBVIOUS
<1>6. Good(viewer, c, later)
  <2>1. CASE viewer.pc = "poll"
    <3>1. c = Subscribed(bridge, viewer.subscription) /\ later = clock
      BY <1>3, <1>5, <2>1
    <3> QED
      BY <1>1, <1>2, <3>1, SubscribedGood
  <2>2. CASE viewer.pc = "resubscribe"
    <3>1. c = Subscribed(bridge, 0) /\ later = clock
      BY <1>3, <1>5, <2>2
    <3> QED
      BY <1>1, <1>2, <3>1, SubscribedGood
  <2>3. CASE viewer.pc # "poll" /\ viewer.pc # "resubscribe"
    <3>1. c = Handler(bridge, clock, later)
      BY <1>3, <1>5, <2>3
    <3>2. Moves(c, bridge, later, clock)
      BY <1>1, <1>4, <3>1, HandlerMoves
    <3> QED
      BY <1>1, <3>2, MovesKeepGood
  <2> QED
    BY <2>1, <2>2, <2>3
<1>7. LogKept(c) /\ Sessions(viewer, c)
  BY <1>6 DEF Good, Linked
<1>8. PICK x : x = ExchangeFails(viewer)
  OBVIOUS
<1>9. x \in Viewers /\ Same(x, viewer) /\ (x.pc = "reconnect" \/ x.pc = "recover")
  BY <1>1, <1>8, FailedExchange
<1>10. PICK lost \in Nat : lost = x.lost + 1
  BY <1>9, ViewerTypes
<1>11. PICK w : w = [x EXCEPT !.lost = lost]
  OBVIOUS
<1>12. viewer' = w
  BY <1>2, <1>8, <1>10, <1>11 DEF AnswerLost
<1>13. /\ w \in Viewers /\ w.lost = lost /\ w.pc = x.pc /\ w.connection = x.connection
       /\ w.known = x.known /\ w.subscription = x.subscription
  BY <1>9, <1>11 DEF Viewers
<1>14. lost > 0
  BY <1>9, <1>10, ViewerTypes
<1>15. Sessions(w, c)
  BY <1>7, <1>9, <1>13 DEF Sessions, Same
<1>16. Linked(w, c) /\ Mirrored(w, c, later)
  BY <1>9, <1>13, <1>14, <1>15 DEF Linked, Mirrored
<1>17. Good(w, c, later)
  BY <1>7, <1>13, <1>16 DEF Good
<1> QED
  BY <1>3, <1>4, <1>5, <1>12, <1>17 DEF IInv

LEMMA ReconnectStep ==
    ASSUME IInv, Reconnect
    PROVE  IInv'
<1>1. clock \in Nat /\ LogKept(bridge) /\ viewer \in Viewers /\ Sessions(viewer, bridge)
      /\ Linked(viewer, bridge)
  BY InvariantFacts
<1>2. viewer.pc = "reconnect" /\ clock' = clock
  BY DEF Reconnect
<1>3. CASE ~bridge.up
  <2>1. PICK recover \in Points : recover = "recover"
    BY DEF Points
  <2>2. PICK w : w = [viewer EXCEPT !.pc = recover]
    OBVIOUS
  <2>3. viewer' = w /\ bridge' = bridge
    BY <1>3, <2>1, <2>2 DEF Reconnect, StepFailed
  <2>4. w \in Viewers /\ w.pc = recover /\ Same(w, viewer)
    BY <1>1, <2>2, GoesTo
  <2>5. w.pc \in Exchanging \union {"recover"}
    BY <2>1, <2>4
  <2>6. Good(w, bridge, clock)
    BY <1>1, <2>4, <2>5, ElsewhereIsGood
  <2> QED
    BY <1>1, <1>2, <2>3, <2>6 DEF IInv
<1>4. CASE bridge.up /\ bridge.session # 0
  <2>1. PICK failed \in Points : failed = "failed"
    BY DEF Points
  <2>2. PICK w : w = [viewer EXCEPT !.pc = failed]
    OBVIOUS
  <2>3. viewer' = w /\ bridge' = bridge
    BY <1>4, <2>1, <2>2 DEF Reconnect, WorkerFails
  <2>4. w \in Viewers /\ w.pc = "failed" /\ Same(w, viewer)
    BY <1>1, <2>1, <2>2, GoesTo
  <2>5. viewer.lost > 0
    BY <1>1, <1>2, <1>4 DEF Linked
  <2>6. Sessions(w, bridge) /\ w.lost > 0
    BY <1>1, <2>4, <2>5 DEF Sessions, Same
  <2>7. Good(w, bridge, clock)
    BY <1>1, <2>4, <2>6 DEF Good, Linked, Mirrored
  <2> QED
    BY <1>1, <1>2, <2>3, <2>7 DEF IInv
<1>5. CASE bridge.up /\ bridge.session = 0
  <2>1. PICK n \in Nat : n = viewer.connection + 1
    BY <1>1, ViewerTypes
  <2>2. PICK b : b = [bridge EXCEPT !.session = n]
    OBVIOUS
  <2>3. PICK after \in Exchanging : after = viewer.after
    BY <1>1 DEF Viewers
  <2>4. PICK pc \in Points : pc = after
    BY <2>3 DEF Points
  <2>5. PICK w : w = [viewer EXCEPT !.pc = pc, !.connection = n]
    OBVIOUS
  <2>6. viewer' = w /\ bridge' = b
    BY <1>5, <2>1, <2>2, <2>3, <2>4, <2>5 DEF Reconnect
  <2>7. /\ b \in Bridges /\ b.epoch = bridge.epoch /\ b.log = bridge.log
        /\ b.latest = bridge.latest /\ b.session = n /\ b.subscription = bridge.subscription
    BY <1>1, <2>2 DEF LogKept, Bridges
  <2>8. LogKept(b)
    BY <1>1, <2>7 DEF LogKept
  <2>9. /\ w \in Viewers /\ w.pc = pc /\ w.connection = n /\ w.known = viewer.known
        /\ w.subscription = viewer.subscription
    BY <1>1, <2>5 DEF Viewers
  <2>10. bridge.subscription = 0
    BY <1>1, <1>5 DEF Sessions
  <2>11. /\ viewer.connection \in Nat /\ viewer.known \in Nat
         /\ viewer.known <= viewer.connection
         /\ viewer.subscription = 0 \/ viewer.subscription = viewer.known
    BY <1>1, ViewerTypes DEF Sessions
  <2>12. Sessions(w, b)
    BY <2>1, <2>7, <2>9, <2>10, <2>11 DEF Sessions
  <2>13. w.pc \in Exchanging \union {"recover"} /\ Same(w, w)
    BY <2>4, <2>9 DEF Same
  <2>14. Good(w, b, clock)
    BY <2>8, <2>9, <2>12, <2>13, ElsewhereIsGood
  <2> QED
    BY <1>1, <1>2, <2>6, <2>14 DEF IInv
<1> QED
  BY <1>3, <1>4, <1>5

LEMMA RescanStep ==
    ASSUME IInv, Rescan
    PROVE  IInv'
<1>1. clock \in Nat /\ LogKept(bridge) /\ viewer \in Viewers /\ Sessions(viewer, bridge)
  BY InvariantFacts
<1>2. clock' = clock /\ bridge' = bridge
  BY DEF Rescan
<1>3. CASE viewer.connection = 0
  <2>1. PICK after \in Exchanging : after = "refresh"
    BY DEF Exchanging
  <2>2. PICK w : w = [viewer EXCEPT !.pc = "reconnect", !.after = after]
    OBVIOUS
  <2>3. viewer' = w
    BY <1>3, <2>1, <2>2 DEF Rescan
  <2>4. w \in Viewers /\ w.pc = "reconnect" /\ Same(w, viewer)
    BY <1>1, <2>2, GoesToReconnect
  <2>5. bridge.session = 0
    BY <1>1, <1>3 DEF Sessions
  <2>6. Good(w, bridge, clock)
    BY <1>1, <2>4, <2>5, ReconnectingIsGood
  <2> QED
    BY <1>1, <1>2, <2>3, <2>6 DEF IInv
<1>4. CASE viewer.connection # 0
  <2>1. PICK gap \in BOOLEAN : gap = FALSE
    OBVIOUS
  <2>2. PICK w : w = [viewer EXCEPT !.pc = "refresh", !.gap = gap]
    OBVIOUS
  <2>3. viewer' = w
    BY <1>4, <2>1, <2>2 DEF Rescan
  <2>4. w \in Viewers /\ w.pc = "refresh" /\ Same(w, viewer)
    BY <1>1, <2>2, GoesToRefresh
  <2>5. w.pc \in Exchanging \union {"recover"}
    BY <2>4 DEF Exchanging
  <2>6. Good(w, bridge, clock)
    BY <1>1, <2>4, <2>5, ElsewhereIsGood
  <2> QED
    BY <1>1, <1>2, <2>3, <2>6 DEF IInv
<1> QED
  BY <1>3, <1>4

---------------------------------------------------------------------------
(***************************************************************************)
(* The theorems.                                                           *)
(***************************************************************************)
LEMMA InitGood ==
    ASSUME Init
    PROVE  IInv
<1>1. clock = 0
  BY DEF Init
<1>2. LogKept(bridge) /\ bridge.epoch = 1 /\ bridge.session = 0 /\ bridge.subscription = 0
  BY BootedFacts DEF Init
<1>3. PICK pc \in Points : pc = "reconnect"
  BY DEF Points
<1>4. PICK after \in Exchanging : after = "refresh"
  BY DEF Exchanging
<1>5. PICK no \in BOOLEAN : no = FALSE
  OBVIOUS
<1>6. PICK cursor \in Cursors : cursor = NoCursor
  BY DEF Cursors, NoCursor
<1>7. PICK view \in Leases : view = NoLease
  BY LeaseFacts
<1>8. viewer = [pc |-> pc, after |-> after, gap |-> no, connection |-> 0,
                known |-> 0, subscription |-> 0, cursor |-> cursor, view |-> view,
                required |-> no, needs |-> no, batches |-> 0, lost |-> 0]
  BY <1>3, <1>4, <1>5, <1>6, <1>7 DEF Init
<1>9. ASSUME NEW v, v = [pc |-> pc, after |-> after, gap |-> no, connection |-> 0,
                         known |-> 0, subscription |-> 0, cursor |-> cursor, view |-> view,
                         required |-> no, needs |-> no, batches |-> 0, lost |-> 0]
      PROVE  v \in Viewers /\ v.pc = pc /\ v.connection = 0 /\ v.known = 0 /\ v.subscription = 0
  BY <1>9 DEF Viewers
<1>10. /\ viewer \in Viewers /\ viewer.pc = "reconnect" /\ viewer.connection = 0
       /\ viewer.known = 0 /\ viewer.subscription = 0
  BY <1>3, <1>8, <1>9
<1>11. Sessions(viewer, bridge) /\ Same(viewer, viewer)
  BY <1>2, <1>10 DEF Sessions, Same
<1>12. Good(viewer, bridge, clock)
  BY <1>2, <1>10, <1>11, ReconnectingIsGood
<1> QED
  BY <1>1, <1>12 DEF IInv

\* The ring, the sessions of both sides and the mirror stay related, whatever the
\* bridge, its clients, the clock and lost answers do
\* (BoundedEventLog, SubscriptionRegistry and RuntimeCore).
THEOREM EventInvariant == Spec => []IInv
<1>1. Init => IInv
  BY InitGood
<1>2. IInv /\ [Next]_vars => IInv'
  <2> SUFFICES ASSUME IInv, [Next]_vars PROVE IInv'
    OBVIOUS
  <2>1. ASSUME NEW c \in Clients, AcquireLease(c) \/ RenewLease(c) PROVE IInv'
    BY <2>1, GrantStep
  <2>2. ASSUME NEW c \in Clients, ReleaseLease(c) PROVE IInv'
    BY <2>2, ReleaseStep
  <2>3. ASSUME NEW c \in Clients, Disconnect(c) PROVE IInv'
    BY <2>3, DisconnectStep
  <2>4. CASE Tick \/ TransactionCompletes \/ Elapse
    BY <2>4, QuietStep
  <2>5. CASE BridgeStops
    BY <2>5, StopStep
  <2>6. CASE BridgeStarts
    BY <2>6, StartStep
  <2>7. CASE Poll
    BY <2>7, PollStep
  <2>8. CASE Resubscribe
    BY <2>8, ResubscribeStep
  <2>9. CASE Refresh
    BY <2>9, RefreshStep
  <2>10. CASE ConnectionError
    BY <2>10, ConnectionErrorStep
  <2>11. CASE AnswerTimesOut
    BY <2>11, TimeoutStep
  <2>12. CASE Reconnect
    BY <2>12, ReconnectStep
  <2>13. CASE Rescan
    BY <2>13, RescanStep
  <2>14. CASE UNCHANGED vars
    BY <2>14 DEF vars, IInv
  <2> QED
    BY <2>1, <2>2, <2>3, <2>4, <2>5, <2>6, <2>7, <2>8, <2>9, <2>10, <2>11, <2>12, <2>13, <2>14
       DEF Next
<1> QED
  BY <1>1, <1>2, PTL DEF Spec

\* A viewer at the end of the stream, with no refresh due, shows the ownership the
\* bridge has: an event behind its cursor would be one it has yet to read
\* (BoundedEventLog::read with RuntimeCore::poll_events).
THEOREM MirrorIsCurrentHolds == Spec => []MirrorIsCurrent
<1>1. IInv => MirrorIsCurrent
  <2> SUFFICES ASSUME IInv, CaughtUp PROVE MirrorAgrees
    BY DEF MirrorIsCurrent
  <2>1. LogKept(bridge) /\ Mirrored(viewer, bridge, clock)
    BY InvariantFacts
  <2>2. viewer.pc = "poll" /\ ~viewer.required
    BY DEF CaughtUp
  <2>3. viewer.cursor.epoch = bridge.epoch /\ viewer.cursor.sequence = bridge.latest
    BY DEF CaughtUp
  <2>4. Fresh(viewer.view, bridge.latest, bridge, clock)
    BY <2>1, <2>2, <2>3 DEF Mirrored
  <2>5. PICK l \in Nat : l = bridge.latest
    BY <2>1, BridgeTypes
  <2>6. PICK m \in Nat : m = Len(bridge.log)
    BY <2>1, BridgeTypes
  <2>7. ~(l < Oldest(bridge) - 1)
    BY <2>5, <2>6 DEF Oldest
  <2>8. \A i \in 1 .. m : ~(l < l - m + i)
    OBVIOUS
  <2>9. ~Behind(bridge.latest, bridge)
    BY <2>5, <2>6, <2>7, <2>8 DEF Behind
  <2> QED
    BY <2>4, <2>9 DEF Fresh, Agrees, MirrorAgrees
<1> QED
  BY <1>1, EventInvariant, PTL

\* The worker ends only if an answer was lost: neither the session registry nor the
\* subscription registry refuses it over restarts of the bridge
\* (SubscriptionRegistry::resolve with RuntimeCore::synchronize_connection).
THEOREM RefusedOnlyAfterLossHolds == Spec => []RefusedOnlyAfterLoss
<1>1. IInv => RefusedOnlyAfterLoss
  BY InvariantFacts DEF Linked, RefusedOnlyAfterLoss
<1> QED
  BY <1>1, EventInvariant, PTL
=============================================================================
