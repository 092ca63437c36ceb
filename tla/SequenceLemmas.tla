--------------------------- MODULE SequenceLemmas ---------------------------
(***************************************************************************)
(* What the proofs need to know of the sequence operators of the models:   *)
(* removing one element (RemoveAt) and filtering (Filtering!Without).      *)
(* Induction over the naturals is done through least elements: a property  *)
(* that fails somewhere fails at a least number.                           *)
(***************************************************************************)
EXTENDS Filtering, SequencesExt, TLAPS, SequenceTheorems, WellFoundedInduction

\* A nonempty set of naturals has a least element.
LEMMA LeastNatural ==
    ASSUME NEW S \in SUBSET Nat, S # {}
    PROVE  \E x \in S : \A y \in S : x <= y
<1> DEFINE Less == {p \in Nat \X Nat : p[1] < p[2]}
<1>1. OpToRel(<, Nat) = Less
  BY DEF OpToRel
<1>2. IsWellFoundedOn(Less, Nat)
  BY <1>1, NatLessThanWellFounded
<1>3. PICK x \in S : \A y \in S : <<y, x>> \notin Less
  BY <1>2, WFMin, Zenon
<1>4. \A y \in S : x <= y
  <2> SUFFICES ASSUME NEW y \in S
               PROVE  x <= y
    OBVIOUS
  <2>1. x \in Nat /\ y \in Nat
    OBVIOUS
  <2>2. y < x => <<y, x>> \in Less
    BY <2>1
  <2> QED
    BY <1>3, <2>1, <2>2
<1> QED
  BY <1>4

\* Min is a member of a nonempty set of naturals.
LEMMA MinIsMember ==
    ASSUME NEW S \in SUBSET Nat, S # {}
    PROVE  Min(S) \in S
BY LeastNatural DEF Min

\* Removing one element of a sequence keeps its type and shortens it by one.
LEMMA RemoveAtProperties ==
    ASSUME NEW S, NEW s \in Seq(S), NEW k \in 1 .. Len(s)
    PROVE  /\ RemoveAt(s, k) \in Seq(S)
           /\ Len(RemoveAt(s, k)) = Len(s) - 1
           /\ \A i \in 1 .. Len(s) - 1 :
                RemoveAt(s, k)[i] = IF i < k THEN s[i] ELSE s[i + 1]
<1> DEFINE a == SubSeq(s, 1, k - 1)
           b == SubSeq(s, k + 1, Len(s))
<1>1. /\ a \in Seq(S)
      /\ Len(a) = k - 1
      /\ \A i \in 1 .. k - 1 : a[i] = s[i]
  <2>1. \A i \in 1 .. k - 1 : s[i] \in S
    BY LenProperties
  <2> QED
    BY <2>1, SubSeqProperties, LenProperties
<1>2. /\ b \in Seq(S)
      /\ Len(b) = Len(s) - k
      /\ \A i \in 1 .. Len(s) - k : b[i] = s[k + i]
  <2>1. \A i \in k + 1 .. Len(s) : s[i] \in S
    BY LenProperties
  <2> QED
    BY <2>1, SubSeqProperties, LenProperties
<1>3. RemoveAt(s, k) = a \o b
  BY DEF RemoveAt
<1> HIDE DEF a, b
<1>4. /\ a \o b \in Seq(S)
      /\ Len(a \o b) = Len(a) + Len(b)
      /\ \A i \in 1 .. Len(a) + Len(b) :
            (a \o b)[i] = IF i <= Len(a) THEN a[i] ELSE b[i - Len(a)]
  BY <1>1, <1>2, ConcatProperties
<1> QED
  BY <1>1, <1>2, <1>3, <1>4, LenProperties

\* w has the elements of s but the n-th, in their order.
KeepsOthers(w, s, n) ==
    /\ \A i \in 1 .. Len(w) : \E a \in 1 .. Len(s) : w[i] = s[a] /\ a # n
    /\ \A i, k \in 1 .. Len(w) : i < k =>
         \E a, b \in 1 .. Len(s) : a < b /\ w[i] = s[a] /\ w[k] = s[b]
    /\ \A i \in 1 .. Len(s) : i = n \/ \E k \in 1 .. Len(w) : w[k] = s[i]

LEMMA RemoveAtKeeps ==
    ASSUME NEW S, NEW s \in Seq(S), NEW n \in 1 .. Len(s), NEW w, w = RemoveAt(s, n)
    PROVE  w \in Seq(S) /\ Len(w) = Len(s) - 1 /\ KeepsOthers(w, s, n)
<1>1. PICK m \in Nat : m = Len(s)
  OBVIOUS
<1>2. /\ w \in Seq(S) /\ Len(w) = m - 1 /\ n \in 1 .. m
      /\ \A i \in 1 .. m - 1 : w[i] = IF i < n THEN s[i] ELSE s[i + 1]
  BY <1>1, RemoveAtProperties
<1>3. \A i \in 1 .. m - 1 : IF i < n THEN w[i] = s[i] /\ i \in 1 .. m
                                     ELSE w[i] = s[i + 1] /\ i + 1 \in 1 .. m
  BY <1>2
<1>4. \A i \in 1 .. m - 1 : \E a \in 1 .. m : w[i] = s[a] /\ a # n
  <2> SUFFICES ASSUME NEW i \in 1 .. m - 1 PROVE \E a \in 1 .. m : w[i] = s[a] /\ a # n
    OBVIOUS
  <2>1. CASE i < n
    BY <1>3, <2>1
  <2>2. CASE ~(i < n)
    <3>1. w[i] = s[i + 1] /\ i + 1 \in 1 .. m /\ i + 1 # n
      BY <1>2, <1>3, <2>2
    <3> QED
      BY <3>1
  <2> QED
    BY <2>1, <2>2
<1>5. \A i, k \in 1 .. m - 1 : i < k => \E a, b \in 1 .. m : a < b /\ w[i] = s[a] /\ w[k] = s[b]
  <2> SUFFICES ASSUME NEW i \in 1 .. m - 1, NEW k \in 1 .. m - 1, i < k
               PROVE  \E a, b \in 1 .. m : a < b /\ w[i] = s[a] /\ w[k] = s[b]
    OBVIOUS
  <2>1. CASE k < n
    <3>1. w[i] = s[i] /\ w[k] = s[k] /\ i \in 1 .. m /\ k \in 1 .. m
      BY <1>2, <1>3, <2>1
    <3> QED
      BY <3>1
  <2>2. CASE i < n /\ ~(k < n)
    <3>1. w[i] = s[i] /\ w[k] = s[k + 1] /\ i \in 1 .. m /\ k + 1 \in 1 .. m /\ i < k + 1
      BY <1>2, <1>3, <2>2
    <3> QED
      BY <3>1
  <2>3. CASE ~(i < n)
    <3>1. /\ w[i] = s[i + 1] /\ w[k] = s[k + 1] /\ i + 1 \in 1 .. m /\ k + 1 \in 1 .. m
          /\ i + 1 < k + 1
      BY <1>2, <1>3, <2>3
    <3> QED
      BY <3>1
  <2> QED
    BY <1>2, <2>1, <2>2, <2>3
<1>6. \A i \in 1 .. m : i = n \/ \E k \in 1 .. m - 1 : w[k] = s[i]
  <2> SUFFICES ASSUME NEW i \in 1 .. m, i # n PROVE \E k \in 1 .. m - 1 : w[k] = s[i]
    OBVIOUS
  <2>1. CASE i < n
    <3>1. i \in 1 .. m - 1 /\ w[i] = s[i]
      BY <1>2, <1>3, <2>1
    <3> QED
      BY <3>1
  <2>2. CASE ~(i < n)
    <3>1. i - 1 \in 1 .. m - 1 /\ ~(i - 1 < n) /\ (i - 1) + 1 = i
      BY <1>2, <2>2
    <3>2. w[i - 1] = s[(i - 1) + 1]
      BY <1>3, <3>1
    <3> QED
      BY <3>1, <3>2
  <2> QED
    BY <2>1, <2>2
<1>7. 1 .. Len(w) = 1 .. m - 1 /\ 1 .. Len(s) = 1 .. m
  BY <1>1, <1>2
<1>8. \A i, k \in 1 .. Len(w) : i < k =>
         \E a, b \in 1 .. Len(s) : a < b /\ w[i] = s[a] /\ w[k] = s[b]
  <2> SUFFICES ASSUME NEW i \in 1 .. Len(w), NEW k \in 1 .. Len(w), i < k
               PROVE  \E a, b \in 1 .. Len(s) : a < b /\ w[i] = s[a] /\ w[k] = s[b]
    OBVIOUS
  <2>1. i \in 1 .. m - 1 /\ k \in 1 .. m - 1
    BY <1>7
  <2>2. PICK a \in 1 .. m, b \in 1 .. m : a < b /\ w[i] = s[a] /\ w[k] = s[b]
    BY <1>5, <2>1
  <2>3. a \in 1 .. Len(s) /\ b \in 1 .. Len(s)
    BY <1>7
  <2> QED
    BY <2>2, <2>3
<1>9. \A i \in 1 .. Len(w) : \E a \in 1 .. Len(s) : w[i] = s[a] /\ a # n
  BY <1>4, <1>7
<1>10. \A i \in 1 .. Len(s) : i = n \/ \E k \in 1 .. Len(w) : w[k] = s[i]
  BY <1>6, <1>7
<1> QED
  BY <1>1, <1>2, <1>8, <1>9, <1>10 DEF KeepsOthers

---------------------------------------------------------------------------
(***************************************************************************)
(* Without.  Its recursive definition names a function only if one exists: *)
(* that comes first, then the properties of its rows by induction on n.    *)
(***************************************************************************)
Rows(s, S, f, k) ==
    f = [n \in 0 .. k |->
           IF n = 0 THEN <<>>
           ELSE IF s[n] \in S THEN f[n - 1] ELSE Append(f[n - 1], s[n])]

\* The recursive definition has a solution.
LEMMA RowsExist ==
    ASSUME NEW s, NEW S, NEW k \in Nat
    PROVE  \E f : Rows(s, S, f, k)
<1> DEFINE Bad == {n \in Nat : ~\E f : Rows(s, S, f, n)}
<1> SUFFICES ASSUME Bad # {} PROVE FALSE
  OBVIOUS
<1>1. PICK n \in Bad : \A m \in Bad : n <= m
  <2>1. Bad \in SUBSET Nat
    OBVIOUS
  <2> HIDE DEF Bad
  <2> QED
    BY <2>1, LeastNatural
<1>2. CASE n = 0
  <2> DEFINE f == [i \in {0} |-> <<>>]
  <2>1. 0 .. 0 = {0}
    OBVIOUS
  <2>2. Rows(s, S, f, 0)
    BY <2>1 DEF Rows
  <2> QED
    BY <1>2, <2>2
<1>3. CASE n # 0
  <2>1. n - 1 \in Nat /\ n - 1 \notin Bad /\ n \in Nat
    BY <1>1, <1>3
  <2>2. PICK g : Rows(s, S, g, n - 1)
    BY <2>1
  <2> DEFINE last == IF s[n] \in S THEN g[n - 1] ELSE Append(g[n - 1], s[n])
             f == [i \in 0 .. n |-> IF i = n THEN last ELSE g[i]]
  <2>3. Rows(s, S, f, n)
    <3> SUFFICES ASSUME NEW i \in 0 .. n
                 PROVE  f[i] = IF i = 0 THEN <<>>
                               ELSE IF s[i] \in S THEN f[i - 1] ELSE Append(f[i - 1], s[i])
      BY DEF Rows
    <3>1. CASE i = n
      <4>1. f[n - 1] = g[n - 1]
        BY <2>1
      <4> QED
        BY <1>3, <3>1, <4>1
    <3>2. CASE i # n
      <4>1. i \in 0 .. n - 1
        BY <2>1, <3>2
      <4>2. f[i] = g[i] /\ (i # 0 => f[i - 1] = g[i - 1])
        BY <2>1, <3>2
      <4>3. g[i] = IF i = 0 THEN <<>>
                   ELSE IF s[i] \in S THEN g[i - 1] ELSE Append(g[i - 1], s[i])
        BY <2>2, <4>1 DEF Rows
      <4> QED
        BY <4>2, <4>3
    <3> QED
      BY <3>1, <3>2
  <2> QED
    BY <2>1, <2>3
<1> QED
  BY <1>2, <1>3

\* Without is the last row of such a function.
LEMMA WithoutIsLastRow ==
    ASSUME NEW s, NEW S, Len(s) \in Nat
    PROVE  \E f : Rows(s, S, f, Len(s)) /\ Without(s, S) = f[Len(s)]
<1> DEFINE f == CHOOSE f : Rows(s, S, f, Len(s))
<1>1. Rows(s, S, f, Len(s))
  BY RowsExist
<1>2. Without(s, S) = f[Len(s)]
  BY DEF Without, Rows
<1> QED
  BY <1>1, <1>2

\* w is the first n elements of s without those in S: each element of w comes
\* from s and is not in S, no such element is missing, and the order is kept.
Filters(w, s, n, S) ==
    /\ Len(w) <= n
    /\ \A i \in 1 .. Len(w) : w[i] \notin S
    /\ \A i \in 1 .. Len(w) : \E p \in 1 .. n : w[i] = s[p]
    /\ \A p \in 1 .. n : s[p] \notin S => \E i \in 1 .. Len(w) : w[i] = s[p]
    /\ \A i, j \in 1 .. Len(w) : i < j =>
         \E p, q \in 1 .. n : p < q /\ w[i] = s[p] /\ w[j] = s[q]

\* One more element of s.
LEMMA FiltersStep ==
    ASSUME NEW T, NEW s \in Seq(T), NEW S, NEW n \in 1 .. Len(s),
           NEW w \in Seq(T), Filters(w, s, n - 1, S)
    PROVE  IF s[n] \in S THEN Filters(w, s, n, S) ELSE Filters(Append(w, s[n]), s, n, S)
<1>1. n \in Nat /\ n - 1 \in Nat /\ s[n] \in T /\ Len(w) \in Nat
      /\ 1 .. n - 1 \subseteq 1 .. n
  OBVIOUS
<1>2. \A p \in 1 .. n : p \in 1 .. n - 1 \/ p = n
  BY <1>1
<1>3. CASE s[n] \in S
  <2>1. Len(w) <= n
    BY <1>1 DEF Filters
  <2>2. \A i \in 1 .. Len(w) : \E p \in 1 .. n : w[i] = s[p]
    BY <1>1 DEF Filters
  <2>3. \A p \in 1 .. n : s[p] \notin S => \E i \in 1 .. Len(w) : w[i] = s[p]
    BY <1>2, <1>3 DEF Filters
  <2>4. \A i, j \in 1 .. Len(w) : i < j =>
         \E p, q \in 1 .. n : p < q /\ w[i] = s[p] /\ w[j] = s[q]
    BY <1>1 DEF Filters
  <2> QED
    BY <1>3, <2>1, <2>2, <2>3, <2>4 DEF Filters
<1>4. CASE s[n] \notin S
  <2> DEFINE v == Append(w, s[n])
             k == Len(w) + 1
  <2>1. Len(v) = k /\ v[k] = s[n] /\ \A i \in 1 .. Len(w) : v[i] = w[i]
    BY <1>1
  <2>2. \A i \in 1 .. k : i \in 1 .. Len(w) \/ i = k
    BY <1>1
  <2>3. k \in 1 .. k /\ 1 .. Len(w) \subseteq 1 .. k /\ n \in 1 .. n
    BY <1>1
  <2> HIDE DEF v
  <2>4. Len(v) <= n
    BY <1>1, <2>1 DEF Filters
  <2>5. \A i \in 1 .. k : v[i] \notin S
    BY <1>4, <2>1, <2>2 DEF Filters
  <2>6. \A i \in 1 .. k : \E p \in 1 .. n : v[i] = s[p]
    <3> SUFFICES ASSUME NEW i \in 1 .. k PROVE \E p \in 1 .. n : v[i] = s[p]
      OBVIOUS
    <3>1. CASE i = k
      BY <2>1, <2>3, <3>1
    <3>2. CASE i \in 1 .. Len(w)
      <4>1. PICK p \in 1 .. n - 1 : w[i] = s[p]
        BY <3>2 DEF Filters
      <4> QED
        BY <1>1, <2>1, <3>2, <4>1
    <3> QED
      BY <2>2, <3>1, <3>2
  <2>7. \A p \in 1 .. n : s[p] \notin S => \E i \in 1 .. k : v[i] = s[p]
    <3> SUFFICES ASSUME NEW p \in 1 .. n, s[p] \notin S PROVE \E i \in 1 .. k : v[i] = s[p]
      OBVIOUS
    <3>1. CASE p = n
      BY <2>1, <2>3, <3>1
    <3>2. CASE p \in 1 .. n - 1
      <4>1. PICK i \in 1 .. Len(w) : w[i] = s[p]
        BY <3>2 DEF Filters
      <4> QED
        BY <2>1, <2>3, <4>1
    <3> QED
      BY <1>2, <3>1, <3>2
  <2>8. \A i, j \in 1 .. k : i < j =>
          \E p, q \in 1 .. n : p < q /\ v[i] = s[p] /\ v[j] = s[q]
    <3> SUFFICES ASSUME NEW i \in 1 .. k, NEW j \in 1 .. k, i < j
                 PROVE  \E p, q \in 1 .. n : p < q /\ v[i] = s[p] /\ v[j] = s[q]
      OBVIOUS
    <3>1. i \in 1 .. Len(w)
      BY <1>1
    <3>2. CASE j = k
      <4>1. PICK p \in 1 .. n - 1 : w[i] = s[p]
        BY <3>1 DEF Filters
      <4>2. p \in 1 .. n /\ p < n /\ n \in 1 .. n
        BY <1>1
      <4> QED
        BY <2>1, <3>1, <3>2, <4>1, <4>2
    <3>3. CASE j \in 1 .. Len(w)
      <4>1. PICK p \in 1 .. n - 1, q \in 1 .. n - 1 : p < q /\ w[i] = s[p] /\ w[j] = s[q]
        BY <3>1, <3>3 DEF Filters
      <4> QED
        BY <1>1, <2>1, <3>1, <3>3, <4>1
    <3> QED
      BY <2>2, <3>2, <3>3
  <2>9. Filters(v, s, n, S)
    <3> HIDE DEF k
    <3>1. 1 .. Len(v) = 1 .. k
      BY <2>1
    <3>2. \A i \in 1 .. Len(v) : v[i] \notin S
      BY <2>5, <3>1
    <3>3. \A i \in 1 .. Len(v) : \E p \in 1 .. n : v[i] = s[p]
      BY <2>6, <3>1
    <3>4. \A p \in 1 .. n : s[p] \notin S => \E i \in 1 .. Len(v) : v[i] = s[p]
      BY <2>7, <3>1
    <3>5. \A i, j \in 1 .. Len(v) : i < j =>
            \E p, q \in 1 .. n : p < q /\ v[i] = s[p] /\ v[j] = s[q]
      <4>1. \A i \in 1 .. Len(v) : i \in 1 .. k
        BY <3>1
      <4> QED
        BY <2>8, <4>1, Zenon
    <3> QED
      BY <2>4, <3>2, <3>3, <3>4, <3>5 DEF Filters
  <2> QED
    BY <1>4, <2>9 DEF v
<1> QED
  BY <1>3, <1>4

\* What Without computes.
LEMMA WithoutProperties ==
    ASSUME NEW T, NEW s \in Seq(T), NEW S
    PROVE  Without(s, S) \in Seq(T) /\ Filters(Without(s, S), s, Len(s), S)
<1>1. PICK f : Rows(s, S, f, Len(s)) /\ Without(s, S) = f[Len(s)]
  BY WithoutIsLastRow
<1> DEFINE Bad == {n \in 0 .. Len(s) : ~(f[n] \in Seq(T) /\ Filters(f[n], s, n, S))}
<1> SUFFICES ASSUME Bad # {} PROVE FALSE
  <2>1. Len(s) \in 0 .. Len(s)
    OBVIOUS
  <2> QED
    BY <1>1, <2>1
<1>2. PICK n \in Bad : \A m \in Bad : n <= m
  <2>1. Bad \in SUBSET Nat
    OBVIOUS
  <2> HIDE DEF Bad
  <2> QED
    BY <2>1, LeastNatural
<1>3. f[n] = IF n = 0 THEN <<>> ELSE IF s[n] \in S THEN f[n - 1] ELSE Append(f[n - 1], s[n])
  BY <1>1, <1>2 DEF Rows
<1>4. CASE n = 0
  <2>1. f[n] = <<>>
    BY <1>3, <1>4
  <2>2. Len(<<>>) = 0 /\ <<>> \in Seq(T) /\ \A i : i \notin 1 .. 0
    OBVIOUS
  <2>3. Filters(<<>>, s, 0, S)
    BY <2>2 DEF Filters
  <2> QED
    BY <1>2, <1>4, <2>1, <2>2, <2>3
<1>5. CASE n # 0
  <2>1. n \in 1 .. Len(s) /\ n - 1 \in 0 .. Len(s) /\ n - 1 \notin Bad
    BY <1>2, <1>5
  <2>2. f[n - 1] \in Seq(T) /\ Filters(f[n - 1], s, n - 1, S)
    BY <2>1
  <2>3. s[n] \in T
    BY <2>1
  <2>4. f[n] \in Seq(T)
    BY <1>3, <1>5, <2>2, <2>3
  <2>5. Filters(f[n], s, n, S)
    BY <1>3, <1>5, <2>1, <2>2, FiltersStep
  <2> QED
    BY <1>2, <2>4, <2>5
<1> QED
  BY <1>4, <1>5

---------------------------------------------------------------------------
Increasing(a, m) ==
    /\ \A i \in 1 .. m : a[i] \in Nat
    /\ \A i, k \in 1 .. m : i < k => a[i] < a[k]

\* Each of the first m elements of a is among the first n of b.
Within(a, m, b, n) == \A i \in 1 .. m : \E k \in 1 .. n : a[i] = b[k]

\* Two increasing enumerations of the same numbers are the same, as far as the
\* first goes.
LEMMA IncreasingAgree ==
    ASSUME NEW m \in Nat, NEW n \in Nat, NEW a, NEW b, Increasing(a, m), Increasing(b, n),
           Within(a, m, b, n), Within(b, n, a, m)
    PROVE  \A i \in 1 .. m : i \in 1 .. n /\ a[i] = b[i]
<1> DEFINE Bad == {i \in 1 .. m : ~(i \in 1 .. n /\ a[i] = b[i])}
<1> SUFFICES ASSUME Bad # {} PROVE FALSE
  OBVIOUS
<1>1. PICK i \in Bad : \A k \in Bad : i <= k
  <2>1. Bad \in SUBSET Nat
    OBVIOUS
  <2> HIDE DEF Bad
  <2> QED
    BY <2>1, LeastNatural
<1>2. i \in 1 .. m /\ ~(i \in 1 .. n /\ a[i] = b[i])
  BY <1>1
<1>3. \A k \in 1 .. m : k < i => k \in 1 .. n /\ a[k] = b[k]
  BY <1>1, <1>2
<1> HIDE DEF Bad
<1>4. PICK x \in 1 .. n : a[i] = b[x]
  BY <1>2 DEF Within
<1>5. x >= i
  <2> SUFFICES ASSUME x < i PROVE FALSE
    BY <1>2
  <2>1. x \in 1 .. m /\ a[x] = b[x]
    BY <1>2, <1>3
  <2>2. a[x] < a[i]
    BY <1>2, <2>1 DEF Increasing
  <2> QED
    BY <1>2, <1>4, <2>1, <2>2 DEF Increasing
<1>6. i \in 1 .. n
  BY <1>2, <1>5
<1>7. PICK y \in 1 .. m : b[i] = a[y]
  BY <1>6 DEF Within
<1>8. y >= i
  <2> SUFFICES ASSUME y < i PROVE FALSE
    BY <1>2
  <2>1. y \in 1 .. n /\ a[y] = b[y]
    BY <1>2, <1>3
  <2>2. b[y] < b[i]
    BY <1>6, <2>1 DEF Increasing
  <2> QED
    BY <1>6, <1>7, <2>1, <2>2 DEF Increasing
<1>9. a[i] <= a[y]
  <2>1. CASE i = y
    BY <1>2, <2>1 DEF Increasing
  <2>2. CASE i # y
    BY <1>2, <1>8, <2>2 DEF Increasing
  <2> QED
    BY <2>1, <2>2
<1>10. b[i] <= b[x]
  <2>1. CASE i = x
    BY <1>6, <2>1 DEF Increasing
  <2>2. CASE i # x
    BY <1>5, <1>6, <2>2 DEF Increasing
  <2> QED
    BY <2>1, <2>2
<1>11. a[i] = b[i]
  BY <1>2, <1>4, <1>6, <1>7, <1>9, <1>10 DEF Increasing
<1> QED
  BY <1>2, <1>6, <1>11

\* u lists elements of o, in the order of o.
Lists(u, o) ==
    /\ \A i \in 1 .. Len(u) : \E x \in 1 .. Len(o) : u[i] = o[x]
    /\ \A i, k \in 1 .. Len(u) : i < k =>
         \A x, y \in 1 .. Len(o) : o[x] = u[i] /\ o[y] = u[k] => x < y

Injective(o) == \A x, y \in 1 .. Len(o) : o[x] = o[y] => x = y

\* Where a listing finds its elements.
LEMMA ListingPositions ==
    ASSUME NEW T, NEW o \in Seq(T), NEW u \in Seq(T), Lists(u, o)
    PROVE  \E a : /\ \A i \in 1 .. Len(u) : a[i] \in 1 .. Len(o) /\ u[i] = o[a[i]]
                  /\ Increasing(a, Len(u))
<1>1. PICK m \in Nat : m = Len(u)
  OBVIOUS
<1> DEFINE a == [i \in 1 .. m |-> CHOOSE x \in 1 .. Len(o) : u[i] = o[x]]
<1>2. \A i \in 1 .. m : a[i] \in 1 .. Len(o) /\ u[i] = o[a[i]]
  <2> SUFFICES ASSUME NEW i \in 1 .. m PROVE a[i] \in 1 .. Len(o) /\ u[i] = o[a[i]]
    OBVIOUS
  <2>1. \E x \in 1 .. Len(o) : u[i] = o[x]
    BY <1>1 DEF Lists
  <2> QED
    BY <2>1
<1> HIDE DEF a
<1>3. \A i \in 1 .. m : a[i] \in Nat
  BY <1>2
<1>4. \A i, k \in 1 .. m : i < k => a[i] < a[k]
  <2> SUFFICES ASSUME NEW i \in 1 .. m, NEW k \in 1 .. m, i < k PROVE a[i] < a[k]
    OBVIOUS
  <2>1. o[a[i]] = u[i] /\ o[a[k]] = u[k] /\ a[i] \in 1 .. Len(o) /\ a[k] \in 1 .. Len(o)
    BY <1>2
  <2> QED
    BY <1>1, <2>1 DEF Lists
<1> QED
  BY <1>1, <1>2, <1>3, <1>4 DEF Increasing

\* Two sequences that list the same elements of an injective sequence in its
\* order are equal.
LEMMA SameListing ==
    ASSUME NEW T, NEW o \in Seq(T), NEW u \in Seq(T), NEW v \in Seq(T),
           Injective(o), Lists(u, o), Lists(v, o),
           Within(u, Len(u), v, Len(v)), Within(v, Len(v), u, Len(u))
    PROVE  u = v
<1>1. PICK m \in Nat : m = Len(u)
  OBVIOUS
<1>2. PICK n \in Nat : n = Len(v)
  OBVIOUS
<1>3. PICK a : /\ \A i \in 1 .. m : a[i] \in 1 .. Len(o) /\ u[i] = o[a[i]]
               /\ Increasing(a, m)
  BY <1>1, ListingPositions
<1>4. PICK b : /\ \A i \in 1 .. n : b[i] \in 1 .. Len(o) /\ v[i] = o[b[i]]
               /\ Increasing(b, n)
  BY <1>2, ListingPositions
<1>5. Within(a, m, b, n)
  <2> SUFFICES ASSUME NEW i \in 1 .. m PROVE \E k \in 1 .. n : a[i] = b[k]
    BY DEF Within
  <2>1. PICK k \in 1 .. n : u[i] = v[k]
    BY <1>1, <1>2 DEF Within
  <2>2. a[i] \in 1 .. Len(o) /\ b[k] \in 1 .. Len(o) /\ o[a[i]] = o[b[k]]
    BY <1>3, <1>4, <2>1
  <2> QED
    BY <2>2 DEF Injective
<1>6. Within(b, n, a, m)
  <2> SUFFICES ASSUME NEW k \in 1 .. n PROVE \E i \in 1 .. m : b[k] = a[i]
    BY DEF Within
  <2>1. PICK i \in 1 .. m : v[k] = u[i]
    BY <1>1, <1>2 DEF Within
  <2>2. a[i] \in 1 .. Len(o) /\ b[k] \in 1 .. Len(o) /\ o[a[i]] = o[b[k]]
    BY <1>3, <1>4, <2>1
  <2> QED
    BY <2>2 DEF Injective
<1>7. \A i \in 1 .. m : i \in 1 .. n /\ a[i] = b[i]
  BY <1>3, <1>4, <1>5, <1>6, IncreasingAgree
<1>8. \A i \in 1 .. n : i \in 1 .. m /\ b[i] = a[i]
  BY <1>3, <1>4, <1>5, <1>6, IncreasingAgree
<1>9. m = n
  <2>1. m # 0 => m \in 1 .. n
    BY <1>7
  <2>2. n # 0 => n \in 1 .. m
    BY <1>8
  <2> QED
    BY <2>1, <2>2
<1>10. \A i \in 1 .. m : u[i] = v[i]
  BY <1>3, <1>4, <1>7
<1> QED
  BY <1>1, <1>2, <1>9, <1>10, SeqEqual

---------------------------------------------------------------------------
(***************************************************************************)
(* A bounded sequence: when it is full its oldest element makes room.      *)
(***************************************************************************)
Lacks(s, e) == \A j \in 1 .. Len(s) : s[j] # e

Slide(s, e, C) == Append(IF Len(s) = C THEN Tail(s) ELSE s, e)

\* w is s with e at the end, without the first element of s if s had C elements.
Slides(w, s, e, C) ==
    /\ \E i \in 1 .. Len(w) : w[i] = e
    /\ \A i \in 1 .. Len(w) :
         w[i] = e \/ \E j \in 1 .. Len(s) : w[i] = s[j] /\ ~(Len(s) = C /\ j = 1)
    /\ \A j \in 1 .. Len(s) : (Len(s) = C /\ j = 1) \/ \E i \in 1 .. Len(w) : w[i] = s[j]

LEMMA SlideProperties ==
    ASSUME NEW T, NEW s \in Seq(T), NEW e \in T, NEW C \in Nat \ {0}, Len(s) <= C,
           NEW w, w = Slide(s, e, C)
    PROVE  /\ w \in Seq(T) /\ Len(w) <= C /\ Slides(w, s, e, C)
           /\ Injective(s) /\ Lacks(s, e) => Injective(w)
<1>1. PICK n \in Nat : n = Len(s)
  OBVIOUS
<1>2. PICK d \in 0 .. 1 : d = IF n = C THEN 1 ELSE 0
  OBVIOUS
<1>3. PICK kept : kept = IF n = C THEN Tail(s) ELSE s
  OBVIOUS
<1>4. /\ kept \in Seq(T) /\ Len(kept) = n - d /\ n - d \in Nat
      /\ \A i \in 1 .. n - d : kept[i] = s[i + d]
  <2>1. CASE n = C
    <3>1. s # <<>>
      BY <1>1, <2>1
    <3>2. kept = Tail(s) /\ d = 1
      BY <1>2, <1>3, <2>1
    <3> QED
      BY <1>1, <3>1, <3>2
  <2>2. CASE n # C
    <3>1. kept = s /\ d = 0
      BY <1>2, <1>3, <2>2
    <3> QED
      BY <1>1, <3>1
  <2> QED
    BY <2>1, <2>2
<1>5. PICK m \in Nat : m = n - d + 1
  BY <1>4
<1>6. w = Append(kept, e)
  BY <1>1, <1>3 DEF Slide
<1>7. /\ w \in Seq(T) /\ Len(w) = m
      /\ w[m] = e /\ m \in 1 .. m
      /\ \A i \in 1 .. m : i # m => i + d \in 1 .. n /\ w[i] = s[i + d]
  <2>1. w \in Seq(T) /\ Len(w) = m /\ w[m] = e /\ m \in 1 .. m
    BY <1>4, <1>5, <1>6, AppendProperties
  <2>2. ASSUME NEW i \in 1 .. m, i # m PROVE i + d \in 1 .. n /\ w[i] = s[i + d]
    <3>1. i \in 1 .. n - d
      BY <1>4, <1>5, <2>2
    <3>2. w[i] = kept[i]
      BY <1>4, <1>6, <3>1, AppendProperties
    <3> QED
      BY <1>4, <3>1, <3>2
  <2> QED
    BY <2>1, <2>2
<1>8. Len(w) <= C
  BY <1>1, <1>2, <1>5, <1>7
<1>9. ASSUME NEW i \in 1 .. m
      PROVE  w[i] = e \/ \E j \in 1 .. n : w[i] = s[j] /\ ~(n = C /\ j = 1)
  <2>1. CASE i = m
    BY <1>7, <2>1
  <2>2. CASE i # m
    <3>1. i + d \in 1 .. n /\ w[i] = s[i + d] /\ ~(n = C /\ i + d = 1)
      BY <1>2, <1>7, <2>2
    <3> QED
      BY <3>1
  <2> QED
    BY <2>1, <2>2
<1>10. ASSUME NEW j \in 1 .. n
       PROVE  (n = C /\ j = 1) \/ \E i \in 1 .. m : w[i] = s[j]
  <2>1. CASE j > d
    <3>1. j - d \in 1 .. m /\ j - d # m /\ (j - d) + d = j
      BY <1>5, <2>1
    <3>2. w[j - d] = s[(j - d) + d]
      BY <1>7, <3>1
    <3> QED
      BY <3>1, <3>2
  <2>2. CASE ~(j > d)
    BY <1>2, <2>2
  <2> QED
    BY <2>1, <2>2
<1>11. Slides(w, s, e, C)
  BY <1>1, <1>7, <1>9, <1>10 DEF Slides
<1>12. ASSUME Injective(s), Lacks(s, e) PROVE Injective(w)
  <2> SUFFICES ASSUME NEW a \in 1 .. m, NEW b \in 1 .. m, w[a] = w[b] PROVE a = b
    BY <1>7 DEF Injective
  <2>1. CASE a = m /\ b = m
    BY <2>1
  <2>2. CASE a # m /\ b # m
    <3>1. a + d \in 1 .. n /\ b + d \in 1 .. n /\ s[a + d] = s[b + d]
      BY <1>7, <2>2
    <3>2. a + d = b + d
      BY <1>1, <1>12, <3>1 DEF Injective
    <3> QED
      BY <3>2
  <2>3. CASE a = m /\ b # m
    BY <1>1, <1>7, <1>12, <2>3 DEF Lacks
  <2>4. CASE a # m /\ b = m
    BY <1>1, <1>7, <1>12, <2>4 DEF Lacks
  <2> QED
    BY <2>1, <2>2, <2>3, <2>4
<1> QED
  BY <1>7, <1>8, <1>11, <1>12
=============================================================================
