---------------------------- MODULE NativeProofs ----------------------------
(***************************************************************************)
(* The safety of the native exchange path, for every set of clients,       *)
(* requests and tokens and every capacity.  The invariant has two parts    *)
(* that meet only in the operations: FairQueue about lanes and rotation,   *)
(* and WellKept about the exchange journal, stated of exchange values      *)
(* because a cancellation rejects several calls in turn and only the last  *)
(* value is a state.                                                       *)
(***************************************************************************)
EXTENDS NativeExchange, SequenceLemmas, FiniteSetTheorems

\* A request as it is served: its timeout is what is left of the one it carried.
Served == [client : Clients, request : RequestIds, token : Tokens, timeout : Nat]

Fields == {"records", "order", "sets", "misjudged"}

\* The order lists the keys with a record once each and stays within its bound; a
\* remembered exchange began at most one SET, and one that matched a response did.
WellKept(x) ==
    /\ DOMAIN x = Fields
    /\ x.records \in [Keys -> Records \union {NoRecord}]
    /\ x.order \in Seq(Keys)
    /\ x.sets \in [Keys -> Nat]
    /\ Len(x.order) <= JournalCapacity
    /\ Injective(x.order)
    /\ \A i \in 1 .. Len(x.order) : x.records[x.order[i]] # NoRecord
    /\ \A k \in Keys : x.records[k] # NoRecord => \E i \in 1 .. Len(x.order) : x.order[i] = k
    /\ \A k \in Keys : x.records[k] = NoRecord => x.sets[k] = 0
    /\ \A k \in Keys : x.sets[k] <= 1
    /\ \A k \in Keys :
         x.records[k] # NoRecord /\ x.records[k].result = "matched-response" => x.sets[k] = 1

\* No SET began.
NoMoreSets(y, x) == \A k \in Keys : y.sets[k] <= x.sets[k]

\* Every lane holds calls of its route, within the bound of the queue, and the
\* rotation lists the routes with calls once each.
FairQueue ==
    /\ lanes \in [Tokens -> Seq(Items)]
    /\ \A t \in Tokens : \A i \in 1 .. Len(lanes[t]) : lanes[t][i].request.token = t
    /\ IsFiniteSet(Slots) /\ Cardinality(Slots) <= QueueCapacity
    /\ rotation \in Seq(Tokens)
    /\ Injective(rotation)
    /\ \A i \in 1 .. Len(rotation) : lanes[rotation[i]] # <<>>
    /\ \A t \in Tokens : lanes[t] # <<>> => \E i \in 1 .. Len(rotation) : rotation[i] = t

RoutesKept ==
    /\ routes \in [Tokens -> {"unissued", "current", "invalid"}]
    /\ tombstones \in Seq(Tokens)
    /\ Len(tombstones) <= JournalCapacity
    /\ \A t \in notices : \E i \in 1 .. Len(tombstones) : tombstones[i] = t

Environment ==
    /\ owner \in [Tokens -> Lessees \union {NoOwner}]
    /\ clock \in 0 .. MaxClock

IInv == FairQueue /\ WellKept(Exchanges) /\ RoutesKept /\ Environment

---------------------------------------------------------------------------
(***************************************************************************)
(* The exchange journal.                                                   *)
(***************************************************************************)
LEMMA RequestFacts ==
    ASSUME NEW r \in Requests
    PROVE  r \in Served /\ Key(r) \in Keys /\ Key(r)[1] = r.client
<1>1. r.timeout \in Nat
  BY NativeConstants DEF Requests
<1> QED
  BY <1>1 DEF Requests, Served, Key, Keys

LEMMA JudgeKeeps ==
    ASSUME NEW x, WellKept(x), NEW r, NEW asked, NEW y, y = Judge(x, r, asked)
    PROVE  WellKept(y) /\ y.sets = x.sets
<1>1. PICK verdict : verdict = (x.misjudged \/
          /\ x.records[Key(r)].asked = asked
          /\ <<x.records[Key(r)].token, x.records[Key(r)].timeout>> # <<r.token, r.timeout>>)
  OBVIOUS
<1>2. y = [x EXCEPT !.misjudged = verdict]
  BY <1>1 DEF Judge
<1>3. DOMAIN x = Fields
  BY DEF WellKept
<1>4. DOMAIN y = Fields /\ y.records = x.records /\ y.order = x.order /\ y.sets = x.sets
  BY <1>2, <1>3 DEF Fields
<1> QED
  BY <1>4 DEF WellKept

\* A key without a record gets one, and the oldest record makes room for it.
LEMMA RememberKeeps ==
    ASSUME NEW x, WellKept(x), NEW r \in Served, NEW asked \in Requests, NEW result \in Results,
           NEW begun \in {0, 1}, result = "matched-response" => begun = 1,
           NEW key \in Keys, key = Key(r), x.records[key] = NoRecord,
           NEW y, y = Remember(x, r, asked, result, begun)
    PROVE  /\ WellKept(y)
           /\ \A k \in Keys : k # key => y.sets[k] <= x.sets[k]
           /\ y.sets[key] = begun
<1>1. /\ DOMAIN x = Fields /\ x.records \in [Keys -> Records \union {NoRecord}]
      /\ x.order \in Seq(Keys) /\ x.sets \in [Keys -> Nat] /\ Len(x.order) <= JournalCapacity
  BY DEF WellKept
<1>2. PICK record : record = [token |-> r.token, timeout |-> r.timeout, asked |-> asked,
                              result |-> result]
  OBVIOUS
<1>3. record \in Records /\ record # NoRecord /\ record.result = result
  BY <1>2, NoRecordIsNoEntry DEF Records, Served
<1>4. PICK old : old = {k \in Keys : Len(x.order) = JournalCapacity /\ k = Head(x.order)}
  OBVIOUS
<1>5. PICK listed : listed = Slide(x.order, key, JournalCapacity)
  OBVIOUS
<1>6. PICK kept : kept = [k \in Keys |-> IF k = key THEN record
                                         ELSE IF k \in old THEN NoRecord ELSE x.records[k]]
  OBVIOUS
<1>7. PICK sent : sent = [k \in Keys |-> IF k = key THEN x.sets[k] + begun
                                         ELSE IF k \in old THEN 0 ELSE x.sets[k]]
  OBVIOUS
<1>8. y = [x EXCEPT !.order = listed, !.records = kept, !.sets = sent]
  BY <1>2, <1>4, <1>5, <1>6, <1>7 DEF Remember, Slide
<1>9. /\ DOMAIN y = Fields /\ y.records = kept /\ y.order = listed /\ y.sets = sent
  BY <1>1, <1>8 DEF Fields
<1>10. x.sets[key] = 0
  BY DEF WellKept
<1>11. /\ sent \in [Keys -> Nat] /\ sent[key] = begun
       /\ \A k \in Keys : k # key => sent[k] <= x.sets[k]
       /\ \A k \in Keys : k # key => sent[k] = IF k \in old THEN 0 ELSE x.sets[k]
  <2>1. ASSUME NEW k \in Keys
        PROVE  /\ x.sets[k] \in Nat
               /\ k = key => sent[k] = begun
               /\ k # key => sent[k] = IF k \in old THEN 0 ELSE x.sets[k]
    BY <1>1, <1>7, <1>10
  <2>2. ASSUME NEW k \in Keys PROVE sent[k] \in Nat /\ (k # key => sent[k] <= x.sets[k])
    BY <2>1
  <2>3. sent \in [Keys -> Nat]
    BY <1>7, <2>2
  <2> QED
    BY <2>1, <2>2, <2>3
<1>12. /\ kept \in [Keys -> Records \union {NoRecord}] /\ kept[key] = record
       /\ \A k \in Keys : k # key => kept[k] = IF k \in old THEN NoRecord ELSE x.records[k]
  BY <1>1, <1>3, <1>6
<1>13. JournalCapacity \in Nat \ {0}
  BY NativeConstants
<1>14. Injective(x.order) /\ Lacks(x.order, key)
  BY DEF WellKept, Lacks
<1>15. /\ listed \in Seq(Keys) /\ Len(listed) <= JournalCapacity
       /\ Slides(listed, x.order, key, JournalCapacity) /\ Injective(listed)
  <2>1. PICK s \in Seq(Keys) : s = x.order
    BY <1>1
  <2>2. Len(s) <= JournalCapacity /\ listed = Slide(s, key, JournalCapacity)
    BY <1>1, <1>5, <2>1
  <2>3. Injective(s) /\ Lacks(s, key)
    BY <1>14, <2>1
  <2>4. /\ listed \in Seq(Keys) /\ Len(listed) <= JournalCapacity
        /\ Slides(listed, s, key, JournalCapacity) /\ Injective(listed)
    BY <1>13, <2>2, <2>3, SlideProperties
  <2> QED
    BY <2>1, <2>4
<1>16. PICK n \in Nat : n = Len(x.order)
  BY <1>1
<1>17. \A j \in 1 .. n : x.order[j] \in old <=> n = JournalCapacity /\ j = 1
  <2> SUFFICES ASSUME NEW j \in 1 .. n
               PROVE  x.order[j] \in old <=> n = JournalCapacity /\ j = 1
    OBVIOUS
  <2>1. Head(x.order) = x.order[1] /\ 1 \in 1 .. n /\ x.order[j] \in Keys
    BY <1>1, <1>16
  <2>2. x.order[j] = x.order[1] <=> j = 1
    BY <1>14, <1>16, <2>1 DEF Injective
  <2> QED
    BY <1>4, <1>16, <2>1, <2>2
<1>18. ASSUME NEW i \in 1 .. Len(listed) PROVE kept[listed[i]] # NoRecord
  <2>1. CASE listed[i] = key
    BY <1>3, <1>12, <2>1
  <2>2. CASE listed[i] # key
    <3>1. PICK j \in 1 .. n : listed[i] = x.order[j] /\ ~(n = JournalCapacity /\ j = 1)
      BY <1>15, <1>16, <2>2 DEF Slides
    <3>2. x.order[j] \notin old /\ x.order[j] \in Keys
      BY <1>1, <1>16, <1>17, <3>1
    <3>3. x.records[x.order[j]] # NoRecord
      BY <1>16 DEF WellKept
    <3> QED
      BY <1>12, <2>2, <3>1, <3>2, <3>3
  <2> QED
    BY <2>1, <2>2
<1>19. ASSUME NEW k \in Keys, kept[k] # NoRecord PROVE \E i \in 1 .. Len(listed) : listed[i] = k
  <2>1. CASE k = key
    BY <1>15, <2>1 DEF Slides
  <2>2. CASE k # key
    <3>1. k \notin old /\ x.records[k] # NoRecord
      BY <1>12, <1>19, <2>2
    <3>2. PICK j \in 1 .. n : x.order[j] = k
      BY <1>16, <3>1 DEF WellKept
    <3>3. ~(n = JournalCapacity /\ j = 1)
      BY <1>17, <3>1, <3>2
    <3> QED
      BY <1>15, <1>16, <3>2, <3>3 DEF Slides
  <2> QED
    BY <2>1, <2>2
<1>20. ASSUME NEW k \in Keys
       PROVE  /\ kept[k] = NoRecord => sent[k] = 0
              /\ sent[k] <= 1
              /\ kept[k] # NoRecord /\ kept[k].result = "matched-response" => sent[k] = 1
  <2>1. CASE k = key
    BY <1>3, <1>11, <1>12, <2>1
  <2>2. CASE k # key /\ k \in old
    BY <1>11, <1>12, <2>2
  <2>3. CASE k # key /\ k \notin old
    BY <1>11, <1>12, <2>3 DEF WellKept
  <2> QED
    BY <2>1, <2>2, <2>3
<1>21. WellKept(y)
  BY <1>9, <1>11, <1>12, <1>15, <1>18, <1>19, <1>20 DEF WellKept
<1> QED
  BY <1>9, <1>11, <1>21

LEMMA RejectKeeps ==
    ASSUME NEW x, WellKept(x), NEW r \in Requests, NEW y, y = Reject(x, r, r)
    PROVE  WellKept(y) /\ NoMoreSets(y, x)
<1>1. r \in Served /\ Key(r) \in Keys
  BY RequestFacts
<1>2. x.sets \in [Keys -> Nat]
  BY DEF WellKept
<1>3. CASE x.records[Key(r)] # NoRecord
  <2>1. y = Judge(x, r, r)
    BY <1>3 DEF Reject
  <2>2. WellKept(y) /\ y.sets = x.sets
    BY <2>1, JudgeKeeps
  <2> QED
    BY <1>2, <2>2 DEF NoMoreSets
<1>4. CASE x.records[Key(r)] = NoRecord
  <2>1. y = Remember(x, r, r, "not-sent", 0)
    BY <1>4 DEF Reject
  <2>2. PICK key \in Keys : key = Key(r)
    BY <1>1
  <2>3. "not-sent" \in Results /\ "not-sent" # "matched-response"
    BY DEF Results
  <2>4. /\ WellKept(y) /\ \A k \in Keys : k # key => y.sets[k] <= x.sets[k]
        /\ y.sets[key] = 0
    BY <1>1, <1>4, <2>1, <2>2, <2>3, RememberKeeps
  <2> QED
    BY <1>2, <2>4 DEF NoMoreSets
<1> QED
  BY <1>3, <1>4

---------------------------------------------------------------------------
(***************************************************************************)
(* Cancelling several calls: the recursions have solutions, and induction  *)
(* on the number of calls shows what the last value is.                    *)
(***************************************************************************)
Rejections(x, calls, f, k) ==
    f = [n \in 0 .. k |-> IF n = 0 THEN x
                          ELSE Reject(f[n - 1], calls[n].request, calls[n].request)]

LEMMA RejectionsExist ==
    ASSUME NEW x, NEW calls, NEW k \in Nat
    PROVE  \E f : Rejections(x, calls, f, k)
<1> DEFINE Bad == {n \in Nat : ~\E f : Rejections(x, calls, f, n)}
<1> SUFFICES ASSUME Bad # {} PROVE FALSE
  OBVIOUS
<1>1. PICK n \in Bad : \A m \in Bad : n <= m
  <2>1. Bad \in SUBSET Nat
    OBVIOUS
  <2> HIDE DEF Bad
  <2> QED
    BY <2>1, LeastNatural
<1>2. CASE n = 0
  <2> DEFINE f == [i \in {0} |-> x]
  <2>1. 0 .. 0 = {0}
    OBVIOUS
  <2>2. Rejections(x, calls, f, 0)
    BY <2>1 DEF Rejections
  <2> QED
    BY <1>2, <2>2
<1>3. CASE n # 0
  <2>1. n - 1 \in Nat /\ n - 1 \notin Bad /\ n \in Nat
    BY <1>1, <1>3
  <2>2. PICK g : Rejections(x, calls, g, n - 1)
    BY <2>1
  <2> DEFINE last == Reject(g[n - 1], calls[n].request, calls[n].request)
             f == [i \in 0 .. n |-> IF i = n THEN last ELSE g[i]]
  <2>3. Rejections(x, calls, f, n)
    <3> SUFFICES ASSUME NEW i \in 0 .. n
                 PROVE  f[i] = IF i = 0 THEN x
                               ELSE Reject(f[i - 1], calls[i].request, calls[i].request)
      BY DEF Rejections
    <3>1. CASE i = n
      <4>1. f[n - 1] = g[n - 1]
        BY <2>1
      <4> QED
        BY <1>3, <3>1, <4>1
    <3>2. CASE i # n
      <4>1. i \in 0 .. n - 1
        BY <2>1, <3>2
      <4>2. f[i] = g[i] /\ (i # 0 => f[i - 1] = g[i - 1])
        BY <2>1, <3>2
      <4>3. g[i] = IF i = 0 THEN x ELSE Reject(g[i - 1], calls[i].request, calls[i].request)
        BY <2>2, <4>1 DEF Rejections
      <4> QED
        BY <4>2, <4>3
    <3> QED
      BY <3>1, <3>2
  <2> QED
    BY <2>1, <2>3
<1> QED
  BY <1>2, <1>3

LEMMA RejectEachKeeps ==
    ASSUME NEW x, WellKept(x), NEW calls \in Seq(Items), NEW y, y = RejectEach(x, calls)
    PROVE  WellKept(y) /\ NoMoreSets(y, x)
<1>1. PICK m \in Nat : m = Len(calls)
  OBVIOUS
<1>2. PICK f : Rejections(x, calls, f, m) /\ y = f[m]
  <2> DEFINE f == CHOOSE f : Rejections(x, calls, f, Len(calls))
  <2>1. Rejections(x, calls, f, Len(calls))
    BY <1>1, RejectionsExist
  <2>2. RejectEach(x, calls) = f[Len(calls)]
    BY DEF RejectEach, Rejections
  <2> QED
    BY <1>1, <2>1, <2>2
<1> DEFINE Bad == {n \in 0 .. m : ~(WellKept(f[n]) /\ NoMoreSets(f[n], x))}
<1> SUFFICES ASSUME Bad # {} PROVE FALSE
  <2>1. m \in 0 .. m
    OBVIOUS
  <2> QED
    BY <1>2, <2>1
<1>3. PICK n \in Bad : \A i \in Bad : n <= i
  <2>1. Bad \in SUBSET Nat
    OBVIOUS
  <2> HIDE DEF Bad
  <2> QED
    BY <2>1, LeastNatural
<1>4. n \in 0 .. m /\ ~(WellKept(f[n]) /\ NoMoreSets(f[n], x))
  BY <1>3
<1>5. x.sets \in [Keys -> Nat]
  BY DEF WellKept
<1>6. CASE n = 0
  <2>1. f[n] = x
    BY <1>2, <1>4, <1>6 DEF Rejections
  <2>2. NoMoreSets(x, x)
    BY <1>5 DEF NoMoreSets
  <2> QED
    BY <1>4, <2>1, <2>2
<1>7. CASE n # 0
  <2>1. n - 1 \in 0 .. m /\ n \in 1 .. m /\ n - 1 \notin Bad
    BY <1>3, <1>4, <1>7
  <2>2. PICK w : w = f[n - 1]
    OBVIOUS
  <2>3. WellKept(w) /\ NoMoreSets(w, x)
    BY <2>1, <2>2
  <2>4. PICK r \in Requests : r = calls[n].request
    <3>1. calls[n] \in Items
      BY <1>1, <2>1
    <3>2. calls[n].request \in Requests
      BY <3>1 DEF Items
    <3> QED
      BY <3>2
  <2>5. f[n] = Reject(w, r, r)
    BY <1>2, <1>4, <1>7, <2>2, <2>4 DEF Rejections
  <2>6. PICK v : v = f[n]
    OBVIOUS
  <2>7. WellKept(v) /\ NoMoreSets(v, w)
    BY <2>3, <2>5, <2>6, RejectKeeps
  <2>8. w.sets \in [Keys -> Nat] /\ v.sets \in [Keys -> Nat]
    BY <2>3, <2>7 DEF WellKept
  <2>9. NoMoreSets(v, x)
    BY <1>5, <2>3, <2>7, <2>8 DEF NoMoreSets
  <2> QED
    BY <1>4, <2>6, <2>7, <2>9
<1> QED
  BY <1>6, <1>7

Takings(removed, f, k) ==
    f = [n \in 0 .. k |->
          IF n = 0 THEN <<>>
          ELSE f[n - 1] \o Without(lanes[TokenOrder[n]], ToSet(lanes[TokenOrder[n]]) \ removed)]

LEMMA TakingsExist ==
    ASSUME NEW removed, NEW k \in Nat
    PROVE  \E f : Takings(removed, f, k)
<1> DEFINE Taken(n) == Without(lanes[TokenOrder[n]], ToSet(lanes[TokenOrder[n]]) \ removed)
           Bad == {n \in Nat : ~\E f : Takings(removed, f, n)}
<1> SUFFICES ASSUME Bad # {} PROVE FALSE
  OBVIOUS
<1>1. PICK n \in Bad : \A m \in Bad : n <= m
  <2>1. Bad \in SUBSET Nat
    OBVIOUS
  <2> HIDE DEF Bad
  <2> QED
    BY <2>1, LeastNatural
<1>2. CASE n = 0
  <2> DEFINE f == [i \in {0} |-> <<>>]
  <2>1. 0 .. 0 = {0}
    OBVIOUS
  <2>2. Takings(removed, f, 0)
    BY <2>1 DEF Takings
  <2> QED
    BY <1>2, <2>2
<1>3. CASE n # 0
  <2>1. n - 1 \in Nat /\ n - 1 \notin Bad /\ n \in Nat
    BY <1>1, <1>3
  <2>2. PICK g : Takings(removed, g, n - 1)
    BY <2>1
  <2> DEFINE f == [i \in 0 .. n |-> IF i = n THEN g[n - 1] \o Taken(n) ELSE g[i]]
  <2>3. Takings(removed, f, n)
    <3> SUFFICES ASSUME NEW i \in 0 .. n
                 PROVE  f[i] = IF i = 0 THEN <<>> ELSE f[i - 1] \o Taken(i)
      BY DEF Takings
    <3>1. CASE i = n
      <4>1. f[n - 1] = g[n - 1]
        BY <2>1
      <4> QED
        BY <1>3, <3>1, <4>1
    <3>2. CASE i # n
      <4>1. i \in 0 .. n - 1
        BY <2>1, <3>2
      <4>2. f[i] = g[i] /\ (i # 0 => f[i - 1] = g[i - 1])
        BY <2>1, <3>2
      <4>3. g[i] = IF i = 0 THEN <<>> ELSE g[i - 1] \o Taken(i)
        BY <2>2, <4>1 DEF Takings
      <4> QED
        BY <4>2, <4>3
    <3> QED
      BY <3>1, <3>2
  <2> QED
    BY <2>1, <2>3
<1> QED
  BY <1>2, <1>3

LEMMA RemovedAreCalls ==
    ASSUME lanes \in [Tokens -> Seq(Items)], NEW removed
    PROVE  Removed(removed) \in Seq(Items)
<1>1. PICK m \in Nat : m = Len(TokenOrder)
  BY NativeConstants
<1>2. PICK f : Takings(removed, f, m) /\ Removed(removed) = f[m]
  <2> DEFINE f == CHOOSE f : Takings(removed, f, Len(TokenOrder))
  <2>1. Takings(removed, f, Len(TokenOrder))
    BY <1>1, TakingsExist
  <2>2. Removed(removed) = f[Len(TokenOrder)]
    BY DEF Removed, Takings
  <2> QED
    BY <1>1, <2>1, <2>2
<1> DEFINE Bad == {n \in 0 .. m : f[n] \notin Seq(Items)}
<1> SUFFICES ASSUME Bad # {} PROVE FALSE
  <2>1. m \in 0 .. m
    OBVIOUS
  <2> QED
    BY <1>2, <2>1
<1>3. PICK n \in Bad : \A i \in Bad : n <= i
  <2>1. Bad \in SUBSET Nat
    OBVIOUS
  <2> HIDE DEF Bad
  <2> QED
    BY <2>1, LeastNatural
<1>4. n \in 0 .. m /\ f[n] \notin Seq(Items)
  BY <1>3
<1>5. CASE n = 0
  <2>1. f[n] = <<>>
    BY <1>2, <1>4, <1>5 DEF Takings
  <2> QED
    BY <1>4, <2>1
<1>6. CASE n # 0
  <2>1. n - 1 \in 0 .. m /\ n \in 1 .. m /\ n - 1 \notin Bad
    BY <1>3, <1>4, <1>6
  <2>2. f[n - 1] \in Seq(Items)
    BY <2>1
  <2>3. PICK t \in Tokens : t = TokenOrder[n]
    BY <1>1, <2>1, NativeConstants
  <2>4. PICK lane \in Seq(Items) : lane = lanes[t]
    OBVIOUS
  <2>5. f[n] = f[n - 1] \o Without(lane, ToSet(lane) \ removed)
    BY <1>2, <1>4, <1>6, <2>3, <2>4 DEF Takings
  <2>6. Without(lane, ToSet(lane) \ removed) \in Seq(Items)
    BY WithoutProperties
  <2> QED
    BY <1>4, <2>2, <2>5, <2>6, ConcatProperties
<1> QED
  BY <1>5, <1>6

---------------------------------------------------------------------------
(***************************************************************************)
(* The route queue.  A step of it is described by the lanes and the        *)
(* rotation before and after.                                              *)
(***************************************************************************)
Places(L) == UNION {{t} \X DOMAIN L[t] : t \in Tokens}

\* FairQueue as a property of values.
Fair(L, R) ==
    /\ L \in [Tokens -> Seq(Items)]
    /\ \A t \in Tokens : \A i \in 1 .. Len(L[t]) : L[t][i].request.token = t
    /\ IsFiniteSet(Places(L)) /\ Cardinality(Places(L)) <= QueueCapacity
    /\ R \in Seq(Tokens)
    /\ Injective(R)
    /\ \A i \in 1 .. Len(R) : L[R[i]] # <<>>
    /\ \A t \in Tokens : L[t] # <<>> => \E i \in 1 .. Len(R) : R[i] = t

LEMMA FairQueueIsFair == FairQueue <=> Fair(lanes, rotation)
BY DEF FairQueue, Fair, Slots, Places

LEMMA PlacesOf ==
    ASSUME NEW L, L \in [Tokens -> Seq(Items)], NEW t, NEW i
    PROVE  <<t, i>> \in Places(L) <=> t \in Tokens /\ i \in 1 .. Len(L[t])
<1>1. \A u \in Tokens : DOMAIN L[u] = 1 .. Len(L[u])
  OBVIOUS
<1> QED
  BY <1>1 DEF Places

LEMMA PlacesArePairs ==
    ASSUME NEW L, NEW p \in Places(L)
    PROVE  \E t, i : p = <<t, i>>
BY DEF Places

\* Lanes that are no longer than those of L take no more places.
LEMMA ShorterLanesFit ==
    ASSUME NEW L, L \in [Tokens -> Seq(Items)], NEW M, M \in [Tokens -> Seq(Items)],
           IsFiniteSet(Places(L)), Cardinality(Places(L)) <= QueueCapacity,
           \A t \in Tokens : Len(M[t]) <= Len(L[t])
    PROVE  IsFiniteSet(Places(M)) /\ Cardinality(Places(M)) <= QueueCapacity
<1>1. Places(M) \subseteq Places(L)
  <2> SUFFICES ASSUME NEW p \in Places(M) PROVE p \in Places(L)
    OBVIOUS
  <2>1. PICK t, i : p = <<t, i>>
    BY PlacesArePairs
  <2>2. t \in Tokens /\ i \in 1 .. Len(M[t])
    BY <2>1, PlacesOf
  <2>3. Len(L[t]) \in Nat /\ Len(M[t]) \in Nat /\ Len(M[t]) <= Len(L[t])
    BY <2>2
  <2>4. i \in 1 .. Len(L[t])
    BY <2>2, <2>3
  <2> QED
    BY <2>1, <2>2, <2>4, PlacesOf
<1>2. IsFiniteSet(Places(M)) /\ Cardinality(Places(M)) <= Cardinality(Places(L))
  BY <1>1, FS_Subset
<1>3. Cardinality(Places(M)) \in Nat /\ Cardinality(Places(L)) \in Nat /\ QueueCapacity \in Nat
  BY <1>2, FS_CardinalityType, NativeConstants
<1> QED
  BY <1>2, <1>3

\* admit
Admits(M, Q, L, R, t, item) ==
    /\ M = [L EXCEPT ![t] = Append(L[t], item)]
    /\ Q = IF L[t] = <<>> THEN Append(R, t) ELSE R

LEMMA AdmitFair ==
    ASSUME NEW L, NEW R, Fair(L, R), Cardinality(Places(L)) < QueueCapacity,
           NEW t \in Tokens, NEW item \in Items, item.request.token = t,
           NEW M, NEW Q, Admits(M, Q, L, R, t, item)
    PROVE  Fair(M, Q)
<1>1. /\ L \in [Tokens -> Seq(Items)] /\ R \in Seq(Tokens) /\ IsFiniteSet(Places(L))
  BY DEF Fair
<1>2. PICK n \in Nat : n = Len(L[t])
  BY <1>1
<1>3. PICK lane : lane = Append(L[t], item)
  OBVIOUS
<1>4. /\ lane \in Seq(Items) /\ Len(lane) = n + 1 /\ lane[n + 1] = item
      /\ \A i \in 1 .. n : lane[i] = L[t][i]
      /\ lane # <<>>
  <2>1. L[t] \in Seq(Items)
    BY <1>1
  <2>2. /\ lane \in Seq(Items) /\ Len(lane) = n + 1 /\ lane[n + 1] = item
        /\ \A i \in 1 .. n : lane[i] = L[t][i]
    BY <1>2, <1>3, <2>1, AppendProperties
  <2> QED
    BY <2>2
<1>5. /\ M \in [Tokens -> Seq(Items)] /\ M[t] = lane
      /\ \A u \in Tokens : u # t => M[u] = L[u]
  BY <1>1, <1>3, <1>4 DEF Admits
<1>6. ASSUME NEW u \in Tokens, NEW i \in 1 .. Len(M[u]) PROVE M[u][i].request.token = u
  <2>1. CASE u # t
    BY <1>5, <1>6, <2>1 DEF Fair
  <2>2. CASE u = t /\ i = n + 1
    BY <1>4, <1>5, <2>2
  <2>3. CASE u = t /\ i # n + 1
    <3>1. i \in 1 .. n /\ M[u][i] = L[t][i]
      BY <1>4, <1>5, <1>6, <2>3
    <3> QED
      BY <1>2, <2>3, <3>1 DEF Fair
  <2> QED
    BY <2>1, <2>2, <2>3
<1>7. Places(M) = Places(L) \union {<<t, n + 1>>}
  <2>1. ASSUME NEW p \in Places(M) PROVE p \in Places(L) \union {<<t, n + 1>>}
    <3>1. PICK u, i : p = <<u, i>>
      BY <2>1, PlacesArePairs
    <3>2. u \in Tokens /\ i \in 1 .. Len(M[u])
      BY <1>5, <2>1, <3>1, PlacesOf
    <3>3. i \in 1 .. Len(L[u]) \/ (u = t /\ i = n + 1)
      BY <1>2, <1>4, <1>5, <3>2
    <3> QED
      BY <1>1, <3>1, <3>2, <3>3, PlacesOf
  <2>2. ASSUME NEW p \in Places(L) PROVE p \in Places(M)
    <3>1. PICK u, i : p = <<u, i>>
      BY <2>2, PlacesArePairs
    <3>2. u \in Tokens /\ i \in 1 .. Len(L[u])
      BY <1>1, <2>2, <3>1, PlacesOf
    <3>3. i \in 1 .. Len(M[u])
      BY <1>2, <1>4, <1>5, <3>2
    <3> QED
      BY <1>5, <3>1, <3>2, <3>3, PlacesOf
  <2>3. <<t, n + 1>> \in Places(M)
    <3>1. n + 1 \in 1 .. Len(M[t])
      BY <1>4, <1>5
    <3> QED
      BY <1>5, <3>1, PlacesOf
  <2> QED
    BY <2>1, <2>2, <2>3
<1>8. IsFiniteSet(Places(M)) /\ Cardinality(Places(M)) <= QueueCapacity
  <2>1. <<t, n + 1>> \notin Places(L)
    <3>1. n + 1 \notin 1 .. Len(L[t])
      BY <1>2
    <3> QED
      BY <1>1, <3>1, PlacesOf
  <2>2. IsFiniteSet(Places(M)) /\ Cardinality(Places(M)) = Cardinality(Places(L)) + 1
    <3>1. PICK p : p = <<t, n + 1>>
      OBVIOUS
    <3>2. PICK P : P = Places(L)
      OBVIOUS
    <3>3. IsFiniteSet(P) /\ p \notin P
      BY <1>1, <2>1, <3>1, <3>2
    <3>4. IsFiniteSet(P \union {p}) /\ Cardinality(P \union {p}) = Cardinality(P) + 1
      BY <3>3, FS_AddElement
    <3> QED
      BY <1>7, <3>1, <3>2, <3>4
  <2>3. Cardinality(Places(L)) \in Nat /\ QueueCapacity \in Nat
    BY <1>1, FS_CardinalityType, NativeConstants
  <2> QED
    BY <2>2, <2>3
<1>9. CASE L[t] # <<>>
  <2>1. Q = R
    BY <1>9 DEF Admits
  <2>2. \A u \in Tokens : M[u] # <<>> <=> L[u] # <<>>
    BY <1>4, <1>5, <1>9
  <2>3. Injective(R) /\ \A i \in 1 .. Len(R) : R[i] \in Tokens /\ M[R[i]] # <<>>
    BY <1>1, <2>2 DEF Fair
  <2>4. \A u \in Tokens : M[u] # <<>> => \E i \in 1 .. Len(R) : R[i] = u
    BY <2>2 DEF Fair
  <2> QED
    BY <1>1, <1>5, <1>6, <1>8, <2>1, <2>3, <2>4 DEF Fair
<1>10. CASE L[t] = <<>>
  <2>1. PICK m \in Nat : m = Len(R)
    BY <1>1
  <2>2. Q = Append(R, t)
    BY <1>10 DEF Admits
  <2>3. Q \in Seq(Tokens) /\ Len(Q) = m + 1 /\ Q[m + 1] = t /\ \A i \in 1 .. m : Q[i] = R[i]
    BY <1>1, <2>1, <2>2, AppendProperties
  <2>4. \A i \in 1 .. m : R[i] # t /\ R[i] \in Tokens /\ L[R[i]] # <<>>
    BY <1>1, <1>10, <2>1 DEF Fair
  <2>5. Injective(Q)
    <3> SUFFICES ASSUME NEW a \in 1 .. m + 1, NEW b \in 1 .. m + 1, Q[a] = Q[b] PROVE a = b
      BY <2>3 DEF Injective
    <3>1. CASE a = m + 1 \/ b = m + 1
      BY <2>3, <2>4, <3>1
    <3>2. CASE a # m + 1 /\ b # m + 1
      <4>1. a \in 1 .. m /\ b \in 1 .. m
        BY <3>2
      <4> QED
        BY <2>1, <2>3, <4>1 DEF Fair, Injective
    <3> QED
      BY <3>1, <3>2
  <2>6. ASSUME NEW i \in 1 .. m + 1 PROVE M[Q[i]] # <<>>
    <3>1. CASE i = m + 1
      BY <1>4, <1>5, <2>3, <3>1
    <3>2. CASE i # m + 1
      <4>1. i \in 1 .. m
        BY <3>2
      <4> QED
        BY <1>5, <2>3, <2>4, <4>1
    <3> QED
      BY <3>1, <3>2
  <2>7. ASSUME NEW u \in Tokens, M[u] # <<>> PROVE \E i \in 1 .. m + 1 : Q[i] = u
    <3>1. CASE u = t
      <4>1. m + 1 \in 1 .. m + 1
        OBVIOUS
      <4> QED
        BY <2>3, <3>1, <4>1
    <3>2. CASE u # t
      <4>1. PICK i \in 1 .. m : R[i] = u
        BY <1>5, <2>1, <2>7, <3>2 DEF Fair
      <4>2. i \in 1 .. m + 1 /\ Q[i] = u
        BY <2>3, <4>1
      <4> QED
        BY <4>2
    <3> QED
      BY <3>1, <3>2
  <2> QED
    BY <1>5, <1>6, <1>8, <2>3, <2>5, <2>6, <2>7 DEF Fair
<1> QED
  BY <1>9, <1>10

\* pop_next: the route at the head of the rotation owns queued work.
Pops(M, Q, L, R, t) ==
    /\ M = [L EXCEPT ![t] = Tail(L[t])]
    /\ Q = IF Len(L[t]) = 1 THEN Tail(R) ELSE Append(Tail(R), t)

LEMMA PopFair ==
    ASSUME NEW L, NEW R, Fair(L, R), R # <<>>, NEW t, t = Head(R),
           NEW M, NEW Q, Pops(M, Q, L, R, t)
    PROVE  /\ Fair(M, Q)
           /\ t \in Tokens /\ L[t] # <<>> /\ Head(L[t]) \in Items
           /\ Head(L[t]).request.token = t
<1>1. /\ L \in [Tokens -> Seq(Items)] /\ R \in Seq(Tokens)
      /\ IsFiniteSet(Places(L)) /\ Cardinality(Places(L)) <= QueueCapacity
  BY DEF Fair
<1>2. PICK m \in Nat : m = Len(R) /\ m # 0
  BY <1>1
<1>3. t = R[1] /\ 1 \in 1 .. m /\ t \in Tokens
  BY <1>1, <1>2
<1>4. L[t] # <<>> /\ L[t] \in Seq(Items)
  BY <1>1, <1>2, <1>3 DEF Fair
<1>5. PICK n \in Nat : n = Len(L[t]) /\ n # 0
  BY <1>4
<1>6. Head(L[t]) = L[t][1] /\ 1 \in 1 .. n
  BY <1>4, <1>5
<1>7. Head(L[t]) \in Items /\ Head(L[t]).request.token = t
  BY <1>3, <1>4, <1>5, <1>6 DEF Fair
<1>8. PICK lane : lane = Tail(L[t])
  OBVIOUS
<1>9. /\ lane \in Seq(Items) /\ Len(lane) = n - 1
      /\ \A i \in 1 .. n - 1 : lane[i] = L[t][i + 1] /\ i + 1 \in 1 .. n
      /\ lane # <<>> <=> n # 1
  <2>1. lane \in Seq(Items) /\ Len(lane) = n - 1
    BY <1>4, <1>5, <1>8
  <2>2. \A i \in 1 .. n - 1 : lane[i] = L[t][i + 1] /\ i + 1 \in 1 .. n
    BY <1>4, <1>5, <1>8
  <2>3. lane # <<>> <=> n # 1
    <3>1. lane = <<>> <=> Len(lane) = 0
      BY <2>1, EmptySeq
    <3>2. n - 1 = 0 <=> n = 1
      BY <1>5
    <3> QED
      BY <2>1, <3>1, <3>2
  <2> QED
    BY <2>1, <2>2, <2>3
<1>10. /\ M \in [Tokens -> Seq(Items)] /\ M[t] = lane
       /\ \A u \in Tokens : u # t => M[u] = L[u]
  BY <1>1, <1>3, <1>8, <1>9 DEF Pops
<1>11. ASSUME NEW u \in Tokens, NEW i \in 1 .. Len(M[u]) PROVE M[u][i].request.token = u
  <2>1. CASE u # t
    BY <1>10, <1>11, <2>1 DEF Fair
  <2>2. CASE u = t
    <3>1. i \in 1 .. n - 1
      BY <1>9, <1>10, <1>11, <2>2
    <3>2. M[u][i] = L[t][i + 1] /\ i + 1 \in 1 .. n
      BY <1>9, <1>10, <2>2, <3>1
    <3> QED
      BY <1>5, <2>2, <3>2 DEF Fair
  <2> QED
    BY <2>1, <2>2
<1>12. IsFiniteSet(Places(M)) /\ Cardinality(Places(M)) <= QueueCapacity
  <2>1. \A u \in Tokens : Len(M[u]) <= Len(L[u])
    <3> SUFFICES ASSUME NEW u \in Tokens PROVE Len(M[u]) <= Len(L[u])
      OBVIOUS
    <3>1. CASE u = t
      BY <1>5, <1>9, <1>10, <3>1
    <3>2. CASE u # t
      BY <1>1, <1>10, <3>2
    <3> QED
      BY <3>1, <3>2
  <2> QED
    BY <1>1, <1>10, <2>1, ShorterLanesFit
<1>13. PICK rest : rest = Tail(R)
  OBVIOUS
<1>14. /\ rest \in Seq(Tokens) /\ Len(rest) = m - 1
       /\ \A i \in 1 .. m - 1 : rest[i] = R[i + 1] /\ i + 1 \in 1 .. m
  BY <1>1, <1>2, <1>13
<1>15. ASSUME NEW i \in 1 .. m - 1 PROVE rest[i] \in Tokens /\ rest[i] # t /\ M[rest[i]] # <<>>
  <2>1. rest[i] = R[i + 1] /\ i + 1 \in 1 .. m /\ i + 1 # 1
    BY <1>14
  <2>2. R[i + 1] # R[1]
    BY <1>2, <1>3, <2>1 DEF Fair, Injective
  <2>3. L[R[i + 1]] # <<>> /\ R[i + 1] \in Tokens
    BY <1>1, <1>2, <2>1 DEF Fair
  <2> QED
    BY <1>3, <1>10, <2>1, <2>2, <2>3
<1>16. ASSUME NEW a \in 1 .. m - 1, NEW b \in 1 .. m - 1, rest[a] = rest[b] PROVE a = b
  <2>1. R[a + 1] = R[b + 1] /\ a + 1 \in 1 .. m /\ b + 1 \in 1 .. m
    BY <1>14, <1>16
  <2>2. a + 1 = b + 1
    BY <1>2, <2>1 DEF Fair, Injective
  <2> QED
    BY <2>2
<1>17. ASSUME NEW u \in Tokens, u # t, M[u] # <<>> PROVE \E i \in 1 .. m - 1 : rest[i] = u
  <2>1. PICK i \in 1 .. m : R[i] = u
    BY <1>2, <1>10, <1>17 DEF Fair
  <2>2. i # 1
    BY <1>3, <1>17, <2>1
  <2>3. i - 1 \in 1 .. m - 1 /\ (i - 1) + 1 = i
    BY <2>2
  <2>4. rest[i - 1] = R[(i - 1) + 1]
    BY <1>14, <2>3
  <2> QED
    BY <2>1, <2>3, <2>4
<1>18. CASE n = 1
  <2>1. Q = rest
    BY <1>5, <1>13, <1>18 DEF Pops
  <2>2. M[t] = <<>>
    BY <1>9, <1>10, <1>18
  <2>3. Injective(rest)
    BY <1>14, <1>16 DEF Injective
  <2>4. \A i \in 1 .. Len(rest) : M[rest[i]] # <<>>
    BY <1>14, <1>15
  <2>5. \A u \in Tokens : M[u] # <<>> => \E i \in 1 .. Len(rest) : rest[i] = u
    BY <1>14, <1>17, <2>2
  <2>6. Fair(M, Q)
    BY <1>10, <1>11, <1>12, <1>14, <2>1, <2>3, <2>4, <2>5 DEF Fair
  <2> QED
    BY <1>3, <1>4, <1>7, <2>6
<1>19. CASE n # 1
  <2>1. Q = Append(rest, t)
    BY <1>5, <1>13, <1>19 DEF Pops
  <2>2. /\ Q \in Seq(Tokens) /\ Len(Q) = m /\ Q[m] = t
        /\ \A i \in 1 .. m - 1 : Q[i] = rest[i]
    <3>1. PICK k \in Nat : k = m - 1
      BY <1>2
    <3>2. Len(rest) = k
      BY <1>14, <3>1
    <3>3. /\ Q \in Seq(Tokens) /\ Len(Q) = k + 1 /\ Q[k + 1] = t
          /\ \A i \in 1 .. k : Q[i] = rest[i]
      BY <1>3, <1>14, <2>1, <3>2, AppendProperties
    <3> QED
      BY <3>1, <3>3
  <2>3. \A i \in 1 .. m : i = m \/ i \in 1 .. m - 1
    BY <1>2
  <2>4. Injective(Q)
    <3> SUFFICES ASSUME NEW a \in 1 .. m, NEW b \in 1 .. m, Q[a] = Q[b] PROVE a = b
      BY <2>2 DEF Injective
    <3>1. CASE a \in 1 .. m - 1 /\ b \in 1 .. m - 1
      BY <1>16, <2>2, <3>1
    <3>2. CASE ~(a \in 1 .. m - 1 /\ b \in 1 .. m - 1)
      BY <1>15, <2>2, <2>3, <3>2
    <3> QED
      BY <3>1, <3>2
  <2>5. \A i \in 1 .. m : M[Q[i]] # <<>>
    BY <1>9, <1>10, <1>15, <1>19, <2>2, <2>3
  <2>6. ASSUME NEW u \in Tokens, M[u] # <<>> PROVE \E i \in 1 .. m : Q[i] = u
    <3>1. CASE u = t
      <4>1. m \in 1 .. m
        BY <1>2
      <4> QED
        BY <2>2, <3>1, <4>1
    <3>2. CASE u # t
      <4>1. PICK i \in 1 .. m - 1 : rest[i] = u
        BY <1>17, <2>6, <3>2
      <4>2. i \in 1 .. m /\ Q[i] = u
        BY <1>2, <2>2, <4>1
      <4> QED
        BY <4>2
    <3> QED
      BY <3>1, <3>2
  <2>7. Fair(M, Q)
    BY <1>10, <1>11, <1>12, <2>2, <2>4, <2>5, <2>6 DEF Fair
  <2> QED
    BY <1>3, <1>4, <1>7, <2>7
<1> QED
  BY <1>18, <1>19

\* remove_where
Removes(M, Q, L, R, removed) ==
    /\ M = [t \in Tokens |-> Without(L[t], removed)]
    /\ Q = Without(R, {t \in Tokens : M[t] = <<>>})

LEMMA RemoveFair ==
    ASSUME NEW L, NEW R, Fair(L, R), NEW removed,
           NEW M, NEW Q, Removes(M, Q, L, R, removed)
    PROVE  Fair(M, Q)
<1>1. /\ L \in [Tokens -> Seq(Items)] /\ R \in Seq(Tokens)
      /\ IsFiniteSet(Places(L)) /\ Cardinality(Places(L)) <= QueueCapacity
  BY DEF Fair
<1>2. ASSUME NEW t \in Tokens
      PROVE  M[t] \in Seq(Items) /\ Filters(M[t], L[t], Len(L[t]), removed)
  <2>1. PICK lane \in Seq(Items) : lane = L[t]
    BY <1>1
  <2>2. Without(lane, removed) \in Seq(Items) /\ Filters(Without(lane, removed), lane, Len(lane), removed)
    BY WithoutProperties
  <2>3. M[t] = Without(lane, removed)
    BY <2>1 DEF Removes
  <2> QED
    BY <2>1, <2>2, <2>3
<1>3. M \in [Tokens -> Seq(Items)]
  BY <1>2 DEF Removes
<1>4. ASSUME NEW t \in Tokens, NEW i \in 1 .. Len(M[t]) PROVE M[t][i].request.token = t
  <2>1. PICK p \in 1 .. Len(L[t]) : M[t][i] = L[t][p]
    BY <1>2, <1>4 DEF Filters
  <2> QED
    BY <2>1 DEF Fair
<1>5. \A t \in Tokens : Len(M[t]) <= Len(L[t]) /\ (M[t] # <<>> => L[t] # <<>>)
  <2> SUFFICES ASSUME NEW t \in Tokens PROVE Len(M[t]) <= Len(L[t]) /\ (M[t] # <<>> => L[t] # <<>>)
    OBVIOUS
  <2>1. Len(M[t]) <= Len(L[t])
    BY <1>2 DEF Filters
  <2>2. M[t] \in Seq(Items) /\ L[t] \in Seq(Items)
    BY <1>1, <1>3
  <2>3. L[t] = <<>> => M[t] = <<>>
    BY <2>1, <2>2
  <2> QED
    BY <2>1, <2>3
<1>6. IsFiniteSet(Places(M)) /\ Cardinality(Places(M)) <= QueueCapacity
  BY <1>1, <1>3, <1>5, ShorterLanesFit
<1>7. PICK emptied : Q \in Seq(Tokens) /\ Filters(Q, R, Len(R), emptied)
                     /\ \A t \in Tokens : t \in emptied <=> M[t] = <<>>
  <2>1. PICK emptied : emptied = {t \in Tokens : M[t] = <<>>}
    OBVIOUS
  <2>2. Q = Without(R, emptied)
    BY <2>1 DEF Removes
  <2>3. Q \in Seq(Tokens) /\ Filters(Q, R, Len(R), emptied)
    BY <1>1, <2>2, WithoutProperties
  <2> QED
    BY <2>1, <2>3
<1>8. Injective(Q)
  <2>1. PICK k \in Nat : k = Len(Q)
    BY <1>7
  <2>2. ASSUME NEW a \in 1 .. k, NEW b \in 1 .. k, a < b PROVE Q[a] # Q[b]
    <3>1. PICK p \in 1 .. Len(R), q \in 1 .. Len(R) : p < q /\ Q[a] = R[p] /\ Q[b] = R[q]
      BY <1>7, <2>1, <2>2 DEF Filters
    <3>2. p # q
      BY <1>1, <3>1
    <3> QED
      BY <3>1, <3>2 DEF Fair, Injective
  <2> SUFFICES ASSUME NEW a \in 1 .. k, NEW b \in 1 .. k, Q[a] = Q[b] PROVE a = b
    BY <2>1 DEF Injective
  <2>3. ~(a < b) /\ ~(b < a)
    BY <2>2
  <2> QED
    BY <2>3
<1>9. \A i \in 1 .. Len(Q) : M[Q[i]] # <<>>
  <2> SUFFICES ASSUME NEW i \in 1 .. Len(Q) PROVE M[Q[i]] # <<>>
    OBVIOUS
  <2>1. Q[i] \in Tokens /\ Q[i] \notin emptied
    BY <1>7 DEF Filters
  <2> QED
    BY <1>7, <2>1
<1>10. ASSUME NEW t \in Tokens, M[t] # <<>> PROVE \E i \in 1 .. Len(Q) : Q[i] = t
  <2>1. PICK p \in 1 .. Len(R) : R[p] = t
    BY <1>5, <1>10 DEF Fair
  <2>2. R[p] \notin emptied
    BY <1>7, <1>10, <2>1
  <2>3. PICK i \in 1 .. Len(Q) : Q[i] = R[p]
    BY <1>7, <2>2 DEF Filters
  <2> QED
    BY <2>1, <2>3
<1> QED
  BY <1>3, <1>4, <1>6, <1>7, <1>8, <1>9, <1>10 DEF Fair

---------------------------------------------------------------------------
(***************************************************************************)
(* The steps.                                                              *)
(***************************************************************************)
\* What SetsAreAuthorised says of one step.
SetStep ==
    \A k \in Keys : sets'[k] > sets[k] =>
        \E t \in Tokens :
            /\ lanes[t] # <<>>
            /\ Key(Head(lanes[t]).request) = k
            /\ routes[t] = "current"
            /\ owner[t] = k[1]
            /\ clock < Head(lanes[t]).deadline

NoneBegun == \A k \in Keys : sets'[k] <= sets[k]

LEMMA ExchangeFields ==
    /\ Exchanges.records = records /\ Exchanges.order = order /\ Exchanges.sets = sets
BY DEF Exchanges

LEMMA ExchangesKept ==
    ASSUME NEW y, WellKept(y), records' = y.records, order' = y.order, sets' = y.sets
    PROVE  WellKept(Exchanges)'
<1>1. /\ Exchanges'.records = y.records /\ Exchanges'.order = y.order /\ Exchanges'.sets = y.sets
      /\ DOMAIN Exchanges' = Fields
  BY DEF Exchanges, Fields
<1> QED
  BY <1>1 DEF WellKept

LEMMA UnchangedExchanges ==
    ASSUME WellKept(Exchanges), UNCHANGED <<records, order, sets>>
    PROVE  WellKept(Exchanges)' /\ NoneBegun
<1>1. PICK y : y = Exchanges
  OBVIOUS
<1>2. /\ WellKept(y) /\ y.records = records /\ y.order = order /\ y.sets = sets
  BY <1>1, ExchangeFields
<1>3. WellKept(Exchanges)'
  BY <1>2, ExchangesKept
<1>4. sets \in [Keys -> Nat]
  BY <1>2 DEF WellKept
<1> QED
  BY <1>3, <1>4 DEF NoneBegun

LEMMA FairStep ==
    ASSUME NEW L, NEW R, Fair(L, R), lanes' = L, rotation' = R
    PROVE  FairQueue'
<1>1. Slots' = Places(L)
  BY DEF Slots, Places
<1> QED
  BY <1>1 DEF Fair, FairQueue

LEMMA UnchangedQueue ==
    ASSUME FairQueue, UNCHANGED queue
    PROVE  FairQueue'
BY FairQueueIsFair, FairStep DEF queue

LEMMA UnchangedRoutes ==
    ASSUME RoutesKept, UNCHANGED inventory
    PROVE  RoutesKept'
BY DEF RoutesKept, inventory

LEMMA UnchangedEnvironment ==
    ASSUME Environment, UNCHANGED environment
    PROVE  Environment'
BY DEF Environment, environment

LEMMA InitHolds == Init => IInv
<1> SUFFICES ASSUME Init PROVE IInv
  OBVIOUS
<1>1. FairQueue
  <2>1. lanes \in [Tokens -> Seq(Items)] /\ rotation \in Seq(Tokens) /\ Len(rotation) = 0
    BY DEF Init
  <2>2. \A t \in Tokens : lanes[t] = <<>> /\ Len(lanes[t]) = 0
    BY DEF Init
  <2>3. Places(lanes) = {}
    <3> SUFFICES ASSUME NEW p \in Places(lanes) PROVE FALSE
      OBVIOUS
    <3>1. PICK t, i : p = <<t, i>>
      BY PlacesArePairs
    <3>2. t \in Tokens /\ i \in 1 .. Len(lanes[t])
      BY <2>1, <3>1, PlacesOf
    <3> QED
      BY <2>2, <3>2
  <2>4. IsFiniteSet(Places(lanes)) /\ Cardinality(Places(lanes)) = 0
    BY <2>3, FS_EmptySet
  <2>5. Fair(lanes, rotation)
    BY <2>1, <2>2, <2>4, NativeConstants DEF Fair, Injective
  <2> QED
    BY <2>5, FairQueueIsFair
<1>2. WellKept(Exchanges)
  <2>1. PICK y : y = Exchanges
    OBVIOUS
  <2>2. DOMAIN y = Fields /\ y.records = records /\ y.order = order /\ y.sets = sets
    BY <2>1 DEF Exchanges, Fields
  <2>3. /\ records \in [Keys -> Records \union {NoRecord}] /\ sets \in [Keys -> Nat]
        /\ \A k \in Keys : records[k] = NoRecord /\ sets[k] = 0
        /\ order \in Seq(Keys) /\ Len(order) = 0
    BY DEF Init
  <2>4. WellKept(y)
    BY <2>2, <2>3, NativeConstants DEF WellKept, Injective
  <2> QED
    BY <2>1, <2>4
<1>3. RoutesKept
  <2>1. tombstones \in Seq(Tokens) /\ Len(tombstones) = 0 /\ notices = {}
    BY DEF Init
  <2>2. routes \in [Tokens -> {"unissued", "current", "invalid"}]
    BY DEF Init
  <2> QED
    BY <2>1, <2>2, NativeConstants DEF RoutesKept
<1>4. Environment
  BY NativeConstants DEF Init, Environment
<1> QED
  BY <1>1, <1>2, <1>3, <1>4 DEF IInv

\* An exchange value that begins no SET becomes the journal.
LEMMA QuietExchange ==
    ASSUME NEW x, ExchangesBecome(x), WellKept(x), NoMoreSets(x, Exchanges)
    PROVE  WellKept(Exchanges)' /\ NoneBegun
<1>1. PICK y : y = x /\ records' = y.records /\ order' = y.order /\ sets' = y.sets
  BY DEF ExchangesBecome
<1>2. WellKept(Exchanges)'
  BY <1>1, ExchangesKept
<1>3. NoneBegun
  BY <1>1, ExchangeFields DEF NoneBegun, NoMoreSets
<1> QED
  BY <1>2, <1>3

LEMMA TransactStep ==
    ASSUME IInv, NEW r \in Requests, Transact(r)
    PROVE  IInv' /\ NoneBegun
<1>1. FairQueue /\ WellKept(Exchanges) /\ RoutesKept /\ Environment
  BY DEF IInv
<1>2. RoutesKept' /\ Environment'
  BY <1>1, UnchangedRoutes, UnchangedEnvironment DEF Transact
<1>3. CASE Length < QueueCapacity
  <2>1. PICK item : item = [request |-> r, deadline |-> clock + r.timeout]
    OBVIOUS
  <2>2. Admit(item) /\ UNCHANGED exchanges
    BY <1>3, <2>1 DEF Transact
  <2>3. item \in Items /\ item.request = r
    <3>1. r.timeout \in Nat /\ clock \in Nat
      BY <1>1, RequestFacts DEF Served, Environment
    <3> QED
      BY <2>1, <3>1 DEF Items
  <2>4. PICK t \in Tokens : t = r.token
    BY DEF Requests
  <2>5. PICK L, R : L = lanes' /\ R = rotation'
    OBVIOUS
  <2>6. Admits(L, R, lanes, rotation, t, item)
    BY <2>2, <2>3, <2>4, <2>5 DEF Admit, Admits
  <2>7. Fair(lanes, rotation)
    BY <1>1, FairQueueIsFair
  <2>8. Cardinality(Places(lanes)) < QueueCapacity
    BY <1>3 DEF Length, Slots, Places
  <2>9. item.request.token = t
    BY <2>3, <2>4
  <2>10. Fair(L, R)
    BY <2>3, <2>6, <2>7, <2>8, <2>9, AdmitFair
  <2>11. FairQueue'
    BY <2>5, <2>10, FairStep
  <2>12. WellKept(Exchanges)' /\ NoneBegun
    BY <1>1, <2>2, UnchangedExchanges DEF exchanges
  <2> QED
    BY <1>2, <2>11, <2>12 DEF IInv
<1>4. CASE ~(Length < QueueCapacity)
  <2>1. ExchangesBecome(Reject(Exchanges, r, r)) /\ UNCHANGED queue
    BY <1>4 DEF Transact
  <2>2. PICK x, y : x = Exchanges /\ y = Reject(x, r, r)
    OBVIOUS
  <2>3. WellKept(y) /\ NoMoreSets(y, x)
    BY <1>1, <2>2, RejectKeeps
  <2>4. ExchangesBecome(y)
    BY <2>1, <2>2
  <2>5. WellKept(Exchanges)' /\ NoneBegun
    BY <2>2, <2>3, <2>4, QuietExchange
  <2>6. FairQueue'
    BY <1>1, <2>1, UnchangedQueue
  <2> QED
    BY <1>2, <2>5, <2>6 DEF IInv
<1> QED
  BY <1>3, <1>4

\* native_transact: a SET begins only behind the gates, for the key of the request.
LEMMA ServeStep ==
    ASSUME WellKept(Exchanges), NEW r \in Served, NEW asked \in Requests,
           NEW key \in Keys, key = Key(r), Serve(r, asked)
    PROVE  /\ WellKept(Exchanges)'
           /\ \A k \in Keys : sets'[k] > sets[k] => k = key /\ Authorised(r)
<1>1. PICK x : x = Exchanges
  OBVIOUS
<1>2. WellKept(x) /\ x.records = records /\ x.sets = sets /\ sets \in [Keys -> Nat]
  BY <1>1, ExchangeFields DEF WellKept
<1>3. ASSUME NEW result \in Results, NEW begun \in {0, 1},
             result = "matched-response" => begun = 1, begun = 0 \/ Authorised(r),
             records[key] = NoRecord, NEW y, y = Remember(x, r, asked, result, begun),
             ExchangesBecome(y)
      PROVE  /\ WellKept(Exchanges)'
             /\ \A k \in Keys : sets'[k] > sets[k] => k = key /\ Authorised(r)
  <2>1. /\ WellKept(y) /\ \A k \in Keys : k # key => y.sets[k] <= x.sets[k]
        /\ y.sets[key] = begun
    BY <1>2, <1>3, RememberKeeps
  <2>2. records' = y.records /\ order' = y.order /\ sets' = y.sets
    BY <1>3 DEF ExchangesBecome
  <2>3. WellKept(Exchanges)'
    BY <2>1, <2>2, ExchangesKept
  <2>4. y.sets \in [Keys -> Nat]
    BY <2>1 DEF WellKept
  <2>5. ASSUME NEW k \in Keys, sets'[k] > sets[k] PROVE k = key /\ Authorised(r)
    <3>1. k = key
      BY <1>2, <2>1, <2>2, <2>4, <2>5
    <3>2. begun # 0
      BY <1>2, <2>1, <2>2, <2>5, <3>1
    <3> QED
      BY <1>3, <3>1, <3>2
  <2> QED
    BY <2>3, <2>5
<1>4. CASE records[key] # NoRecord
  <2>1. PICK y : y = Judge(x, r, asked)
    OBVIOUS
  <2>2. ExchangesBecome(y)
    BY <1>1, <1>4, <2>1 DEF Serve
  <2>3. WellKept(y) /\ y.sets = x.sets
    BY <1>2, <2>1, JudgeKeeps
  <2>4. NoMoreSets(y, Exchanges)
    BY <1>1, <1>2, <2>3 DEF NoMoreSets
  <2>5. WellKept(Exchanges)' /\ NoneBegun
    BY <2>2, <2>3, <2>4, QuietExchange
  <2>6. sets' \in [Keys -> Nat]
    BY <1>2, <2>2, <2>3 DEF ExchangesBecome
  <2>7. ASSUME NEW k \in Keys, sets'[k] > sets[k] PROVE FALSE
    BY <1>2, <2>5, <2>6, <2>7 DEF NoneBegun
  <2> QED
    BY <2>5, <2>7
<1>5. CASE records[key] = NoRecord /\ ExchangesBecome(Remember(x, r, asked, "not-sent", 0))
  <2>1. "not-sent" \in Results /\ "not-sent" # "matched-response"
    BY DEF Results
  <2> QED
    BY <1>3, <1>5, <2>1
<1>6. CASE /\ records[key] = NoRecord /\ Authorised(r)
           /\ ExchangesBecome(Remember(x, r, asked, "matched-response", 1))
  <2>1. "matched-response" \in Results
    BY DEF Results
  <2> QED
    BY <1>3, <1>6, <2>1
<1>7. CASE /\ records[key] = NoRecord /\ Authorised(r)
           /\ \E begun \in {0, 1} :
                ExchangesBecome(Remember(x, r, asked, "may-have-been-sent", begun))
  <2>1. "may-have-been-sent" \in Results /\ "may-have-been-sent" # "matched-response"
    BY DEF Results
  <2>2. PICK begun \in {0, 1} :
          ExchangesBecome(Remember(x, r, asked, "may-have-been-sent", begun))
    BY <1>7
  <2> QED
    BY <1>3, <1>7, <2>1, <2>2
<1> QED
  BY <1>1, <1>4, <1>5, <1>6, <1>7 DEF Serve

LEMMA DispatchStep ==
    ASSUME IInv, DispatchNextNative
    PROVE  IInv' /\ SetStep
<1>1. FairQueue /\ WellKept(Exchanges) /\ RoutesKept /\ Environment
  BY DEF IInv
<1>2. RoutesKept' /\ Environment'
  BY <1>1, UnchangedRoutes, UnchangedEnvironment DEF DispatchNextNative
<1>3. PICK t : t = Head(rotation)
  OBVIOUS
<1>4. Fair(lanes, rotation) /\ rotation # <<>>
  BY <1>1, FairQueueIsFair DEF DispatchNextNative
<1>5. PICK L, R : L = lanes' /\ R = rotation'
  OBVIOUS
<1>6. Pops(L, R, lanes, rotation, t)
  BY <1>3, <1>5 DEF DispatchNextNative, PopNext, Pops
<1>7. PICK item : item = Head(lanes[t])
  OBVIOUS
<1>8. Fair(L, R) /\ t \in Tokens /\ lanes[t] # <<>> /\ item \in Items /\ item.request.token = t
  BY <1>3, <1>4, <1>6, <1>7, PopFair
<1>9. FairQueue'
  BY <1>5, <1>8, FairStep
<1>10. PICK asked \in Requests : asked = item.request
  BY <1>8 DEF Items
<1>11. PICK left \in Remaining(item) :
         IF left = 0 THEN ExchangesBecome(Reject(Exchanges, item.request, item.request))
         ELSE Serve([item.request EXCEPT !.timeout = left], item.request)
  BY <1>3, <1>7 DEF DispatchNextNative
<1>12. CASE left = 0
  <2>1. PICK x, y : x = Exchanges /\ y = Reject(x, asked, asked)
    OBVIOUS
  <2>2. WellKept(y) /\ NoMoreSets(y, x)
    BY <1>1, <2>1, RejectKeeps
  <2>3. ExchangesBecome(y)
    BY <1>10, <1>11, <1>12, <2>1
  <2>4. WellKept(Exchanges)' /\ NoneBegun
    BY <2>1, <2>2, <2>3, QuietExchange
  <2>5. sets \in [Keys -> Nat] /\ sets' \in [Keys -> Nat]
    BY <1>1, <2>2, <2>3, ExchangeFields DEF ExchangesBecome, WellKept
  <2>6. SetStep
    BY <2>4, <2>5 DEF SetStep, NoneBegun
  <2> QED
    BY <1>2, <1>9, <2>4, <2>6 DEF IInv
<1>13. CASE left # 0
  <2>1. item.deadline \in Nat /\ clock \in Nat
    BY <1>1, <1>8 DEF Items, Environment
  <2>2. clock < item.deadline /\ left \in Nat
    BY <1>11, <1>13, <2>1 DEF Remaining
  <2>3. PICK r : r = [asked EXCEPT !.timeout = left]
    OBVIOUS
  <2>4. /\ r \in Served /\ r.client = asked.client /\ r.request = asked.request
        /\ r.token = asked.token
    BY <2>2, <2>3 DEF Requests, Served
  <2>5. PICK key \in Keys : key = Key(r)
    BY <2>4 DEF Served, Key, Keys
  <2>6. key = Key(asked) /\ key[1] = r.client
    BY <2>4, <2>5 DEF Key
  <2>7. Serve(r, asked)
    BY <1>10, <1>11, <1>13, <2>3
  <2>8. /\ WellKept(Exchanges)'
        /\ \A k \in Keys : sets'[k] > sets[k] => k = key /\ Authorised(r)
    BY <1>1, <2>4, <2>5, <2>7, ServeStep
  <2>9. SetStep
    <3> SUFFICES ASSUME NEW k \in Keys, sets'[k] > sets[k]
                 PROVE  /\ lanes[t] # <<>> /\ Key(Head(lanes[t]).request) = k
                        /\ routes[t] = "current" /\ owner[t] = k[1]
                        /\ clock < Head(lanes[t]).deadline
      BY <1>8 DEF SetStep
    <3>1. k = key /\ Authorised(r)
      BY <2>8
    <3>2. r.token = t
      BY <1>8, <1>10, <2>4
    <3>3. routes[t] = "current" /\ owner[t] = r.client
      BY <3>1, <3>2 DEF Authorised
    <3> QED
      BY <1>7, <1>8, <1>10, <2>2, <2>6, <3>1, <3>3
  <2> QED
    BY <1>2, <1>9, <2>8, <2>9 DEF IInv
<1> QED
  BY <1>12, <1>13

\* remove_where and the rejection of what it returns.
LEMMA CancelKeeps ==
    ASSUME FairQueue, WellKept(Exchanges), NEW removed, RemoveWhere(removed),
           ExchangesBecome(RejectEach(Exchanges, Removed(removed)))
    PROVE  FairQueue' /\ WellKept(Exchanges)' /\ NoneBegun
<1>1. PICK L, R : L = lanes' /\ R = rotation'
  OBVIOUS
<1>2. Removes(L, R, lanes, rotation, removed)
  BY <1>1 DEF RemoveWhere, Retained, Removes
<1>3. Fair(lanes, rotation)
  BY FairQueueIsFair
<1>4. Fair(L, R)
  BY <1>2, <1>3, RemoveFair
<1>5. FairQueue'
  BY <1>1, <1>4, FairStep
<1>6. PICK calls : calls = Removed(removed)
  OBVIOUS
<1>7. calls \in Seq(Items)
  BY <1>3, <1>6, RemovedAreCalls DEF Fair
<1>8. PICK x, y : x = Exchanges /\ y = RejectEach(x, calls)
  OBVIOUS
<1>9. WellKept(y) /\ NoMoreSets(y, x)
  BY <1>7, <1>8, RejectEachKeeps
<1>10. ExchangesBecome(y)
  BY <1>6, <1>8
<1> QED
  BY <1>5, <1>8, <1>9, <1>10, QuietExchange

LEMMA CloseStep ==
    ASSUME IInv, NEW c \in Clients, CloseConnection(c)
    PROVE  IInv' /\ NoneBegun
<1>1. FairQueue /\ WellKept(Exchanges) /\ RoutesKept /\ Environment
  BY DEF IInv
<1>2. PICK removed : removed = {item \in Pending : item.request.client = c}
  OBVIOUS
<1>3. RemoveWhere(removed) /\ ExchangesBecome(RejectEach(Exchanges, Removed(removed)))
  BY <1>2 DEF CloseConnection
<1>4. FairQueue' /\ WellKept(Exchanges)' /\ NoneBegun
  BY <1>1, <1>3, CancelKeeps
<1>5. RoutesKept'
  BY <1>1, UnchangedRoutes DEF CloseConnection
<1>6. Environment'
  BY <1>1 DEF CloseConnection, Environment
<1> QED
  BY <1>4, <1>5, <1>6 DEF IInv

LEMMA CancelStep ==
    ASSUME IInv, CancelInvalidatedNative
    PROVE  IInv' /\ NoneBegun
<1>1. FairQueue /\ WellKept(Exchanges) /\ RoutesKept /\ Environment
  BY DEF IInv
<1>2. PICK removed : removed = {item \in Pending : item.request.token \in notices}
  OBVIOUS
<1>3. RemoveWhere(removed) /\ ExchangesBecome(RejectEach(Exchanges, Removed(removed)))
  BY <1>2 DEF CancelInvalidatedNative
<1>4. FairQueue' /\ WellKept(Exchanges)' /\ NoneBegun
  BY <1>1, <1>3, CancelKeeps
<1>5. RoutesKept'
  BY <1>1 DEF CancelInvalidatedNative, RoutesKept
<1>6. Environment'
  BY <1>1, UnchangedEnvironment DEF CancelInvalidatedNative
<1> QED
  BY <1>4, <1>5, <1>6 DEF IInv

\* The journal forgets what the exchanges of the route returned, not that they were.
LEMMA InvalidatedStep ==
    ASSUME IInv, NEW t \in Tokens, RouteInvalidated(t)
    PROVE  IInv' /\ NoneBegun
<1>1. FairQueue /\ WellKept(Exchanges) /\ RoutesKept /\ Environment
  BY DEF IInv
<1>2. FairQueue' /\ Environment'
  BY <1>1, UnchangedQueue, UnchangedEnvironment DEF RouteInvalidated
<1>3. PICK x : x = Exchanges
  OBVIOUS
<1>4. /\ WellKept(x) /\ x.records = records /\ x.order = order /\ x.sets = sets
  BY <1>1, <1>3, ExchangeFields
<1>5. records \in [Keys -> Records \union {NoRecord}] /\ sets \in [Keys -> Nat]
  BY <1>4 DEF WellKept
<1>6. ASSUME NEW k \in Keys
      PROVE  /\ records'[k] \in Records \union {NoRecord}
             /\ records'[k] = NoRecord <=> records[k] = NoRecord
             /\ records'[k] # NoRecord /\ records'[k].result = "matched-response"
                  => records[k].result = "matched-response"
  <2>1. CASE records[k] # NoRecord /\ records[k].token = t
    <3>1. PICK old \in Records : old = records[k]
      BY <1>5, <2>1
    <3>2. PICK new : new = [old EXCEPT !.result = "not-sent"]
      OBVIOUS
    <3>3. new \in Records /\ new.result = "not-sent"
      BY <3>1, <3>2 DEF Records, Results
    <3>4. records'[k] = new
      BY <2>1, <3>1, <3>2 DEF RouteInvalidated
    <3>5. new # NoRecord
      BY <3>3, NoRecordIsNoEntry
    <3> QED
      BY <2>1, <3>3, <3>4, <3>5
  <2>2. CASE ~(records[k] # NoRecord /\ records[k].token = t)
    <3>1. records'[k] = records[k]
      BY <2>2 DEF RouteInvalidated
    <3> QED
      BY <1>5, <3>1
  <2> QED
    BY <2>1, <2>2
<1>7. records' \in [Keys -> Records \union {NoRecord}]
  <2>1. PICK f : f = records'
    OBVIOUS
  <2>2. DOMAIN f = Keys /\ f = [k \in DOMAIN f |-> f[k]]
    BY <2>1 DEF RouteInvalidated
  <2>3. \A k \in Keys : f[k] \in Records \union {NoRecord}
    BY <1>6, <2>1
  <2> QED
    BY <2>1, <2>2, <2>3
<1>8. order' = order /\ sets' = sets
  BY DEF RouteInvalidated
<1>9. PICK y : y = Exchanges'
  OBVIOUS
<1>10. DOMAIN y = Fields /\ y.records = records' /\ y.order = order /\ y.sets = sets
  BY <1>8, <1>9 DEF Exchanges, Fields
<1>11. /\ order \in Seq(Keys) /\ Len(order) <= JournalCapacity /\ Injective(order)
       /\ \A i \in 1 .. Len(order) : order[i] \in Keys /\ records[order[i]] # NoRecord
       /\ \A k \in Keys : records[k] # NoRecord => \E i \in 1 .. Len(order) : order[i] = k
       /\ \A k \in Keys : records[k] = NoRecord => sets[k] = 0
       /\ \A k \in Keys : sets[k] <= 1
       /\ \A k \in Keys :
            records[k] # NoRecord /\ records[k].result = "matched-response" => sets[k] = 1
  BY <1>4 DEF WellKept
<1>12. WellKept(y)
  BY <1>5, <1>6, <1>7, <1>10, <1>11 DEF WellKept
<1>13. NoneBegun
  BY <1>5, <1>8 DEF NoneBegun
<1>14. RoutesKept'
  <2>1. tombstones \in Seq(Tokens) /\ JournalCapacity \in Nat \ {0}
    BY <1>1, NativeConstants DEF RoutesKept
  <2>2. PICK s \in Seq(Tokens) : s = tombstones
    BY <2>1
  <2>3. PICK w : w = Slide(s, t, JournalCapacity)
    OBVIOUS
  <2>4. tombstones' = w
    BY <2>2, <2>3 DEF RouteInvalidated, Slide
  <2>5. Len(s) <= JournalCapacity
    BY <1>1, <2>2 DEF RoutesKept
  <2>6. w \in Seq(Tokens) /\ Len(w) <= JournalCapacity /\ Slides(w, s, t, JournalCapacity)
    BY <2>1, <2>3, <2>5, SlideProperties
  <2>7. ASSUME NEW u \in notices' PROVE \E i \in 1 .. Len(w) : w[i] = u
    <3>1. CASE u = t
      BY <2>6, <3>1 DEF Slides
    <3>2. CASE u # t
      <4>1. u \in notices /\ (Len(s) = JournalCapacity => u # Head(s))
        BY <2>2, <2>7, <3>2 DEF RouteInvalidated
      <4>2. PICK j \in 1 .. Len(s) : s[j] = u
        BY <1>1, <2>2, <4>1 DEF RoutesKept
      <4>3. Len(s) = JournalCapacity => j # 1
        BY <4>1, <4>2
      <4> QED
        BY <2>6, <4>2, <4>3 DEF Slides
    <3> QED
      BY <3>1, <3>2
  <2>8. routes' \in [Tokens -> {"unissued", "current", "invalid"}]
    BY <1>1 DEF RouteInvalidated, RoutesKept
  <2> QED
    BY <2>4, <2>6, <2>7, <2>8 DEF RoutesKept
<1> QED
  BY <1>2, <1>9, <1>12, <1>13, <1>14 DEF IInv

\* Steps that touch neither the queue nor the journal.
LEMMA OtherSteps ==
    ASSUME IInv, \/ \E t \in Tokens : RouteAvailable(t) \/ LeaseChanges(t)
                 \/ Advance \/ UNCHANGED vars
    PROVE  IInv' /\ NoneBegun
<1>1. FairQueue /\ WellKept(Exchanges) /\ RoutesKept /\ Environment
  BY DEF IInv
<1>2. UNCHANGED queue /\ UNCHANGED <<records, order, sets>>
  BY DEF RouteAvailable, LeaseChanges, Advance, vars, queue, exchanges
<1>3. FairQueue' /\ WellKept(Exchanges)' /\ NoneBegun
  BY <1>1, <1>2, UnchangedQueue, UnchangedExchanges
<1>4. RoutesKept' /\ Environment'
  <2>1. ASSUME NEW t \in Tokens, RouteAvailable(t) PROVE RoutesKept' /\ Environment'
    <3>1. RoutesKept'
      BY <1>1, <2>1 DEF RouteAvailable, RoutesKept
    <3>2. Environment'
      BY <1>1, <2>1, UnchangedEnvironment DEF RouteAvailable
    <3> QED
      BY <3>1, <3>2
  <2>2. ASSUME NEW t \in Tokens, LeaseChanges(t) PROVE RoutesKept' /\ Environment'
    <3>1. RoutesKept'
      BY <1>1, <2>2, UnchangedRoutes DEF LeaseChanges
    <3>2. PICK c \in Lessees \union {NoOwner} : owner' = [owner EXCEPT ![t] = c]
      BY <2>2 DEF LeaseChanges
    <3>3. Environment'
      BY <1>1, <2>2, <3>2 DEF LeaseChanges, Environment
    <3> QED
      BY <3>1, <3>3
  <2>3. CASE Advance
    <3>1. RoutesKept'
      BY <1>1, <2>3, UnchangedRoutes DEF Advance
    <3>2. Environment'
      BY <1>1, <2>3, NativeConstants DEF Advance, Environment
    <3> QED
      BY <3>1, <3>2
  <2>4. CASE UNCHANGED vars
    BY <1>1, <2>4, UnchangedRoutes, UnchangedEnvironment DEF vars, inventory, environment
  <2> QED
    BY <2>1, <2>2, <2>3, <2>4
<1> QED
  BY <1>3, <1>4 DEF IInv

LEMMA QuietIsAuthorised ==
    ASSUME IInv, IInv', NoneBegun
    PROVE  SetStep
<1>1. sets \in [Keys -> Nat] /\ sets' \in [Keys -> Nat]
  BY ExchangeFields DEF IInv, WellKept, Exchanges
<1> QED
  BY <1>1 DEF SetStep, NoneBegun

LEMMA NextStep ==
    ASSUME IInv, [Next]_vars
    PROVE  IInv' /\ SetStep
<1>1. ASSUME NEW r \in Requests, Transact(r) PROVE IInv' /\ SetStep
  BY <1>1, TransactStep, QuietIsAuthorised
<1>2. CASE DispatchNextNative
  BY <1>2, DispatchStep
<1>3. ASSUME NEW c \in Clients, CloseConnection(c) PROVE IInv' /\ SetStep
  BY <1>3, CloseStep, QuietIsAuthorised
<1>4. ASSUME NEW t \in Tokens, RouteInvalidated(t) PROVE IInv' /\ SetStep
  BY <1>4, InvalidatedStep, QuietIsAuthorised
<1>5. CASE CancelInvalidatedNative
  BY <1>5, CancelStep, QuietIsAuthorised
<1>6. CASE \/ \E t \in Tokens : RouteAvailable(t) \/ LeaseChanges(t)
           \/ Advance \/ UNCHANGED vars
  BY <1>6, OtherSteps, QuietIsAuthorised
<1> QED
  BY <1>1, <1>2, <1>3, <1>4, <1>5, <1>6 DEF Next

---------------------------------------------------------------------------
(***************************************************************************)
(* The theorems.                                                           *)
(***************************************************************************)
\* Every operation of the actor keeps the route queue fair and the exchange journal
\* well kept (FairRouteQueue, NativeExchangeJournal).
THEOREM NativeInvariant == Spec => []IInv
<1>1. Init => IInv
  BY InitHolds
<1>2. IInv /\ [Next]_vars => IInv'
  BY NextStep
<1> QED
  BY <1>1, <1>2, PTL DEF Spec

\* The state has its type; the queue stays within QueueCapacity, the journal and
\* the tombstones within JournalCapacity, and the journal's order lists its records.
THEOREM TypeCorrect == Spec => []TypeOK
<1>1. IInv => TypeOK
  <2> SUFFICES ASSUME IInv PROVE TypeOK
    OBVIOUS
  <2>1. FairQueue /\ WellKept(Exchanges) /\ RoutesKept /\ Environment
    BY DEF IInv
  <2>2. lanes \in [Tokens -> Seq(Items)] /\ Length <= QueueCapacity /\ rotation \in Seq(Tokens)
    BY <2>1 DEF FairQueue, Length
  <2>3. PICK x : x = Exchanges
    OBVIOUS
  <2>4. WellKept(x) /\ x.records = records /\ x.order = order
    BY <2>1, <2>3, ExchangeFields
  <2>5. /\ records \in [Keys -> Records \union {NoRecord}] /\ order \in Seq(Keys)
        /\ Len(order) <= JournalCapacity
        /\ \A i \in 1 .. Len(order) : order[i] \in Keys /\ records[order[i]] # NoRecord
        /\ \A k \in Keys : records[k] # NoRecord => \E i \in 1 .. Len(order) : order[i] = k
    BY <2>4 DEF WellKept
  <2>6. ToSet(order) = {k \in Keys : records[k] # NoRecord}
    <3>1. ToSet(order) = {order[i] : i \in 1 .. Len(order)}
      BY <2>5 DEF ToSet
    <3> QED
      BY <2>5, <3>1
  <2>7. notices \subseteq ToSet(tombstones)
    <3>1. tombstones \in Seq(Tokens) /\ \A t \in notices : \E i \in 1 .. Len(tombstones) : tombstones[i] = t
      BY <2>1 DEF RoutesKept
    <3>2. ToSet(tombstones) = {tombstones[i] : i \in 1 .. Len(tombstones)}
      BY <3>1 DEF ToSet
    <3> QED
      BY <3>1, <3>2
  <2> QED
    BY <2>1, <2>2, <2>5, <2>6, <2>7 DEF TypeOK, RoutesKept, Environment
<1> QED
  BY <1>1, NativeInvariant, PTL

\* The rotation lists the routes with queued calls exactly once: pop_next finds a
\* lane and a call behind every route it takes.
THEOREM RotationIsExactHolds == Spec => []RotationIsExact
<1>1. IInv => RotationIsExact
  <2> SUFFICES ASSUME IInv PROVE RotationIsExact
    OBVIOUS
  <2>1. /\ rotation \in Seq(Tokens) /\ Injective(rotation)
        /\ \A i \in 1 .. Len(rotation) : rotation[i] \in Tokens /\ lanes[rotation[i]] # <<>>
        /\ \A t \in Tokens : lanes[t] # <<>> => \E i \in 1 .. Len(rotation) : rotation[i] = t
    BY DEF IInv, FairQueue
  <2>2. ToSet(rotation) = {rotation[i] : i \in 1 .. Len(rotation)}
    BY <2>1 DEF ToSet
  <2>3. ToSet(rotation) = {t \in Tokens : lanes[t] # <<>>}
    BY <2>1, <2>2
  <2>4. IsInjective(rotation)
    BY <2>1 DEF IsInjective, Injective
  <2> QED
    BY <2>3, <2>4 DEF RotationIsExact
<1> QED
  BY <1>1, NativeInvariant, PTL

\* A call the journal remembers began at most one SET, and a matched response did
\* (NativeExchangeJournal::retained and remember).
THEOREM AtMostOneSetHolds == Spec => []AtMostOneSet
<1>1. IInv => AtMostOneSet
  BY ExchangeFields DEF IInv, WellKept, AtMostOneSet
<1> QED
  BY <1>1, NativeInvariant, PTL

\* A SET begins only for the call at the head of its lane, while its token is
\* current and leased to the caller and before its deadline (dispatch_next_native,
\* native_transact).
THEOREM SetsAreAuthorisedHolds == Spec => SetsAreAuthorised
<1>1. IInv /\ [Next]_vars => [SetStep]_vars
  BY NextStep
<1> QED
  BY <1>1, NativeInvariant, PTL DEF Spec, SetsAreAuthorised, SetStep
=============================================================================
