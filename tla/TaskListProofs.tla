--------------------------- MODULE TaskListProofs ---------------------------
(***************************************************************************)
(* Proofs about TaskList, for any number of handlers in the two processes  *)
(* and any number of requests: the list is always well-formed, and within  *)
(* a process no change is lost.  What Kept and SortTasks compute for every *)
(* list is proved by induction on its length.                              *)
(***************************************************************************)
EXTENDS TaskList, Integers, SequenceTheorems, WellFoundedInduction, TLAPS

-----------------------------------------------------------------------------
(* Induction over the natural numbers, for a set in the place of a predicate. *)

Smaller == {ss \in Nat \X Nat : ss[1] < ss[2]}

LEMMA LeastElement ==
    ASSUME NEW T \in SUBSET Nat, T # {}
    PROVE  \E x \in T : \A y \in T : x <= y
<1>1. IsWellFoundedOn(Smaller, Nat)
  BY NatLessThanWellFounded DEF OpToRel, Smaller
<1>2. PICK x \in T : \A y \in T : ~(<<y, x>> \in Smaller)
  BY <1>1, WFMin
<1>3. \A y, z \in Nat : y < z => <<y, z>> \in Smaller
  BY DEF Smaller
<1>4. \A y \in T : ~(y < x)
  BY <1>2, <1>3
<1> QED
  BY <1>4

LEMMA SetInduction ==
    ASSUME NEW S \in SUBSET Nat, 0 \in S, \A n \in S : n + 1 \in S
    PROVE  S = Nat
<1> DEFINE T == Nat \ S
<1> SUFFICES ASSUME T # {} PROVE FALSE
  OBVIOUS
<1>1. PICK x \in T : \A y \in T : x <= y
  BY LeastElement
<1>2. x # 0 /\ x - 1 \in Nat /\ x - 1 < x
  BY <1>1
<1>3. x - 1 \in S
  BY <1>1, <1>2
<1> QED
  BY <1>1, <1>2, <1>3

(* The largest number up to n, of those in a set that has 0. *)
LEMMA LargestElement ==
    ASSUME NEW S \in SUBSET Nat, 0 \in S, NEW n \in Nat, \A x \in S : x <= n
    PROVE  \E x \in S : \A y \in S : y <= x
<1> DEFINE bounds == {m \in Nat : \A x \in S : x <= m}
<1>1. PICK m \in bounds : \A k \in bounds : m <= k
  BY LeastElement
<1>2. CASE m \in S
  BY <1>1, <1>2
<1>3. CASE m \notin S
  <2>1. m # 0 /\ m - 1 \in Nat /\ \A x \in S : x <= m - 1
    BY <1>1, <1>3
  <2>2. m - 1 \in bounds
    BY <2>1
  <2> QED
    BY <1>1, <2>1, <2>2
<1> QED
  BY <1>2, <1>3

-----------------------------------------------------------------------------
(* Kept. *)

KeptStep(ts, keep, f, n) ==
    IF n \in keep THEN Append(f[n - 1], ts[n]) ELSE f[n - 1]

KeptUpTo(ts, keep) ==
    CHOOSE f : f = [n \in 0 .. Len(ts) |->
                       IF n = 0 THEN <<>>
                       ELSE IF n \in keep THEN Append(f[n - 1], ts[n]) ELSE f[n - 1]]

KeptSolves(ts, keep, S, f, m) ==
    /\ f \in [0 .. m -> Seq(S)]
    /\ f[0] = <<>>
    /\ \A n \in 1 .. m : f[n] = KeptStep(ts, keep, f, n)

(* The recursion of Kept has a solution. *)
LEMMA KeptDefined ==
    ASSUME NEW S, NEW ts \in Seq(S), NEW keep
    PROVE  \E f \in [0 .. Len(ts) -> Seq(S)] :
               /\ f[0] = <<>>
               /\ \A n \in 1 .. Len(ts) : f[n] = KeptStep(ts, keep, f, n)
               /\ Kept(ts, keep) = f[Len(ts)]
<1> DEFINE N == Len(ts)
           Solvable(m) == \E f : KeptSolves(ts, keep, S, f, m)
           Good == {m \in Nat : m <= N => Solvable(m)}
<1>1. N \in Nat /\ \A n \in 1 .. N : ts[n] \in S
  BY LenProperties, ElementOfSeq
<1>2. 0 \in Good
  <2>1. KeptSolves(ts, keep, S, [n \in 0 .. 0 |-> <<>>], 0)
    BY EmptySeq DEF KeptSolves
  <2> QED
    BY <2>1
<1>3. ASSUME NEW m \in Good PROVE m + 1 \in Good
  <2> SUFFICES ASSUME m + 1 <= N PROVE Solvable(m + 1)
    BY <1>1
  <2>1. m \in Nat /\ m <= N /\ Solvable(m)
    BY <1>1
  <2> HIDE DEF Good
  <2>2. PICK f : KeptSolves(ts, keep, S, f, m)
    BY <2>1
  <2>3. /\ f \in [0 .. m -> Seq(S)]
        /\ f[0] = <<>>
        /\ \A n \in 1 .. m : f[n] = KeptStep(ts, keep, f, n)
    BY <2>2 DEF KeptSolves
  <2> DEFINE last == IF m + 1 \in keep THEN Append(f[m], ts[m + 1]) ELSE f[m]
             g == [n \in 0 .. m + 1 |-> IF n = m + 1 THEN last ELSE f[n]]
  <2>4. f[m] \in Seq(S) /\ ts[m + 1] \in S
    BY <1>1, <2>3, <2>1
  <2>5. last \in Seq(S)
    BY <2>4, AppendProperties
  <2>6. g \in [0 .. m + 1 -> Seq(S)] /\ g[0] = <<>>
    BY <2>3, <2>5, <2>1
  <2>7. ASSUME NEW n \in 1 .. m + 1 PROVE g[n] = KeptStep(ts, keep, g, n)
    <3>1. CASE n = m + 1
      <4>1. g[n] = last /\ g[n - 1] = f[m] /\ n - 1 = m
        BY <2>1, <3>1
      <4> QED
        BY <3>1, <4>1 DEF KeptStep
    <3>2. CASE n # m + 1
      <4>1. n \in 1 .. m /\ g[n] = f[n] /\ g[n - 1] = f[n - 1]
        BY <2>1, <3>2
      <4>2. f[n] = KeptStep(ts, keep, f, n)
        BY <2>3, <4>1
      <4> QED
        BY <4>1, <4>2 DEF KeptStep
    <3> QED
      BY <3>1, <3>2
  <2> HIDE DEF g
  <2>8. KeptSolves(ts, keep, S, g, m + 1)
    BY <2>6, <2>7 DEF KeptSolves
  <2> QED
    BY <2>8
<1>4. Good = Nat
  <2> HIDE DEF Good
  <2> QED
    BY <1>2, <1>3, SetInduction DEF Good
<1>5. PICK f : /\ f \in [0 .. N -> Seq(S)]
               /\ f[0] = <<>>
               /\ \A n \in 1 .. N : f[n] = KeptStep(ts, keep, f, n)
  <2>1. N \in Good /\ N <= N
    BY <1>1, <1>4
  <2>2. Solvable(N)
    BY <2>1
  <2> QED
    BY <2>2 DEF KeptSolves
<1>6. f = [n \in 0 .. N |->
              IF n = 0 THEN <<>>
              ELSE IF n \in keep THEN Append(f[n - 1], ts[n]) ELSE f[n - 1]]
  <2>1. ASSUME NEW n \in 0 .. N
        PROVE  f[n] = IF n = 0 THEN <<>>
                      ELSE IF n \in keep THEN Append(f[n - 1], ts[n]) ELSE f[n - 1]
    <3>1. CASE n = 0
      BY <1>5, <3>1
    <3>2. CASE n # 0
      <4>1. n \in 1 .. N
        BY <1>1, <3>2
      <4> QED
        BY <1>5, <3>2, <4>1 DEF KeptStep
    <3> QED
      BY <3>1, <3>2
  <2> QED
    BY <1>5, <2>1
<1> DEFINE k == KeptUpTo(ts, keep)
<1>7. k = [n \in 0 .. N |->
              IF n = 0 THEN <<>>
              ELSE IF n \in keep THEN Append(k[n - 1], ts[n]) ELSE k[n - 1]]
  BY <1>6 DEF KeptUpTo
<1>8. Kept(ts, keep) = k[N]
  BY DEF Kept, KeptUpTo
<1> HIDE DEF k
<1>9. k = f
  <2> DEFINE Same == {m \in Nat : m <= N => k[m] = f[m]}
  <2>1. 0 \in Same
    BY <1>1, <1>5, <1>7
  <2>2. ASSUME NEW m \in Same PROVE m + 1 \in Same
    <3> SUFFICES ASSUME m + 1 <= N PROVE k[m + 1] = f[m + 1]
      OBVIOUS
    <3>1. k[m] = f[m] /\ m + 1 \in 0 .. N /\ m + 1 # 0 /\ (m + 1) - 1 = m
      BY <1>1
    <3> DEFINE n == m + 1
    <3>2. k[n] = IF n \in keep THEN Append(k[n - 1], ts[n]) ELSE k[n - 1]
      BY <1>7, <3>1
    <3>3. f[n] = IF n \in keep THEN Append(f[n - 1], ts[n]) ELSE f[n - 1]
      BY <1>6, <3>1
    <3> QED
      BY <3>1, <3>2, <3>3
  <2>3. Same = Nat
    <3> HIDE DEF Same
    <3> QED
      BY <2>1, <2>2, SetInduction DEF Same
  <2>4. \A m \in 0 .. N : k[m] = f[m]
    BY <1>1, <2>3
  <2> QED
    BY <1>6, <1>7, <2>4
<1> QED
  BY <1>5, <1>8, <1>9

(* g takes the places of r, which holds what is at some of the first n places of
   ts, to where they were. *)
ComesFrom(r, ts, n, keep, g) ==
    /\ g \in [1 .. Len(r) -> 1 .. n]
    /\ \A k \in 1 .. Len(r) : g[k] \in keep /\ r[k] = ts[g[k]]
    /\ \A k, l \in 1 .. Len(r) : k < l => g[k] < g[l]
    /\ \A i \in 1 .. n : i \in keep => \E k \in 1 .. Len(r) : g[k] = i

(* One place more. *)
LEMMA KeptGrows ==
    ASSUME NEW S, NEW ts \in Seq(S), NEW keep, NEW n \in Nat, n + 1 <= Len(ts),
           NEW r \in Seq(S), NEW g, ComesFrom(r, ts, n, keep, g)
    PROVE  \E h : ComesFrom(IF n + 1 \in keep THEN Append(r, ts[n + 1]) ELSE r,
                            ts, n + 1, keep, h)
<1>1. Len(r) \in Nat /\ ts[n + 1] \in S
  BY LenProperties, ElementOfSeq
<1>2. CASE n + 1 \notin keep
  <2>1. ComesFrom(r, ts, n + 1, keep, g)
    BY <1>1, <1>2 DEF ComesFrom
  <2> QED
    BY <1>2, <2>1
<1>3. CASE n + 1 \in keep
  <2> DEFINE q == Append(r, ts[n + 1])
             h == [k \in 1 .. Len(r) + 1 |-> IF k = Len(r) + 1 THEN n + 1 ELSE g[k]]
  <2>1. /\ Len(q) = Len(r) + 1
        /\ q[Len(r) + 1] = ts[n + 1]
        /\ \A k \in 1 .. Len(r) : q[k] = r[k]
    BY <1>1, AppendProperties
  <2> HIDE DEF q
  <2>2. h \in [1 .. Len(q) -> 1 .. n + 1]
    BY <1>1, <2>1 DEF ComesFrom
  <2>3. ASSUME NEW k \in 1 .. Len(q) PROVE h[k] \in keep /\ q[k] = ts[h[k]]
    <3>1. CASE k = Len(r) + 1
      BY <1>1, <1>3, <2>1, <3>1
    <3>2. CASE k # Len(r) + 1
      <4>1. k \in 1 .. Len(r) /\ h[k] = g[k]
        BY <1>1, <2>1, <3>2
      <4> QED
        BY <2>1, <4>1 DEF ComesFrom
    <3> QED
      BY <3>1, <3>2
  <2>4. ASSUME NEW k \in 1 .. Len(q), NEW l \in 1 .. Len(q), k < l PROVE h[k] < h[l]
    <3>1. k \in 1 .. Len(r) /\ h[k] = g[k] /\ g[k] \in 1 .. n
      BY <1>1, <2>1, <2>4 DEF ComesFrom
    <3>2. CASE l = Len(r) + 1
      BY <1>1, <2>1, <3>1, <3>2
    <3>3. CASE l # Len(r) + 1
      <4>1. l \in 1 .. Len(r) /\ h[l] = g[l]
        BY <1>1, <2>1, <3>3
      <4> QED
        BY <2>4, <3>1, <4>1 DEF ComesFrom
    <3> QED
      BY <3>2, <3>3
  <2>5. ASSUME NEW i \in 1 .. n + 1, i \in keep PROVE \E k \in 1 .. Len(q) : h[k] = i
    <3>1. CASE i = n + 1
      <4>1. Len(r) + 1 \in 1 .. Len(q) /\ h[Len(r) + 1] = i
        BY <1>1, <2>1, <3>1
      <4> QED
        BY <4>1
    <3>2. CASE i # n + 1
      <4>1. i \in 1 .. n
        BY <3>2
      <4>2. PICK k \in 1 .. Len(r) : g[k] = i
        BY <2>5, <4>1 DEF ComesFrom
      <4>3. k \in 1 .. Len(q) /\ h[k] = g[k]
        BY <1>1, <2>1
      <4> QED
        BY <4>2, <4>3
    <3> QED
      BY <3>1, <3>2
  <2>6. ComesFrom(q, ts, n + 1, keep, h)
    <3> HIDE DEF h
    <3> QED
      BY <2>2, <2>3, <2>4, <2>5 DEF ComesFrom
  <2> QED
    BY <1>3, <2>6 DEF q
<1> QED
  BY <1>2, <1>3

(* Kept returns the entries at the places in keep, in their order. *)
LEMMA KeptProperties ==
    ASSUME NEW S, NEW ts \in Seq(S), NEW keep
    PROVE  /\ Kept(ts, keep) \in Seq(S)
           /\ \E g : ComesFrom(Kept(ts, keep), ts, Len(ts), keep, g)
<1>1. PICK f \in [0 .. Len(ts) -> Seq(S)] :
               /\ f[0] = <<>>
               /\ \A n \in 1 .. Len(ts) : f[n] = KeptStep(ts, keep, f, n)
               /\ Kept(ts, keep) = f[Len(ts)]
  BY KeptDefined, SMTT(30)
<1> DEFINE Good == {n \in Nat : n <= Len(ts) => \E g : ComesFrom(f[n], ts, n, keep, g)}
<1>2. Len(ts) \in Nat
  BY LenProperties
<1>3. 0 \in Good
  <2>1. ComesFrom(<<>>, ts, 0, keep, [k \in 1 .. 0 |-> 0])
    BY EmptySeq DEF ComesFrom
  <2> QED
    BY <1>1, <2>1
<1>4. ASSUME NEW n \in Good PROVE n + 1 \in Good
  <2>1. n \in Nat
    OBVIOUS
  <2> SUFFICES ASSUME n + 1 <= Len(ts)
               PROVE  \E g : ComesFrom(f[n + 1], ts, n + 1, keep, g)
    BY <2>1
  <2>2. n <= Len(ts) /\ n \in 0 .. Len(ts) /\ n + 1 \in 1 .. Len(ts) /\ n + 1 - 1 = n
    BY <1>2, <2>1
  <2>3. PICK g : ComesFrom(f[n], ts, n, keep, g)
    BY <2>2
  <2>4. f[n] \in Seq(S)
    BY <1>1, <2>2
  <2>5. f[n + 1] = IF n + 1 \in keep THEN Append(f[n], ts[n + 1]) ELSE f[n]
    BY <1>1, <2>2 DEF KeptStep
  <2> QED
    BY ONLY <2>1, <2>3, <2>4, <2>5, n + 1 <= Len(ts), ts \in Seq(S), KeptGrows
<1>5. Good = Nat
  <2> HIDE DEF Good
  <2> QED
    BY <1>3, <1>4, SetInduction DEF Good
<1>6. Len(ts) \in Good /\ Len(ts) <= Len(ts)
  BY <1>2, <1>5
<1> QED
  BY <1>1, <1>2, <1>6

(* What keeps everything changes nothing. *)
LEMMA KeptAll ==
    ASSUME NEW S, NEW ts \in Seq(S), NEW keep, 1 .. Len(ts) \subseteq keep
    PROVE  Kept(ts, keep) = ts
<1>1. PICK f \in [0 .. Len(ts) -> Seq(S)] :
               /\ f[0] = <<>>
               /\ \A n \in 1 .. Len(ts) : f[n] = KeptStep(ts, keep, f, n)
               /\ Kept(ts, keep) = f[Len(ts)]
  BY KeptDefined
<1> DEFINE Alike(n) == Len(f[n]) = n /\ \A i \in 1 .. n : f[n][i] = ts[i]
           Good == {n \in Nat : n <= Len(ts) => Alike(n)}
<1>2. Len(ts) \in Nat
  BY LenProperties
<1>3. 0 \in Good
  BY <1>1, EmptySeq
<1>4. ASSUME NEW n \in Good PROVE n + 1 \in Good
  <2>1. n \in Nat
    OBVIOUS
  <2> SUFFICES ASSUME n + 1 <= Len(ts) PROVE Alike(n + 1)
    BY <2>1
  <2>2. n <= Len(ts) /\ n \in 0 .. Len(ts) /\ n + 1 \in 1 .. Len(ts) /\ n + 1 - 1 = n
    BY <1>2, <2>1
  <2>3. Alike(n)
    BY <2>2
  <2>4. f[n] \in Seq(S) /\ ts[n + 1] \in S
    BY <1>1, <2>2, ElementOfSeq
  <2>5. f[n + 1] = Append(f[n], ts[n + 1])
    <3>1. f[n + 1] = KeptStep(ts, keep, f, n + 1) /\ n + 1 \in keep
      BY <1>1, <2>2
    <3> QED
      BY <2>2, <3>1 DEF KeptStep
  <2>6. /\ Len(Append(f[n], ts[n + 1])) = Len(f[n]) + 1
        /\ \A i \in 1 .. Len(f[n]) : Append(f[n], ts[n + 1])[i] = f[n][i]
        /\ Append(f[n], ts[n + 1])[Len(f[n]) + 1] = ts[n + 1]
    BY <2>4, AppendProperties
  <2> QED
    BY <2>1, <2>3, <2>5, <2>6
<1>5. Good = Nat
  <2> HIDE DEF Good
  <2> QED
    BY <1>3, <1>4, SetInduction DEF Good
<1>6. Alike(Len(ts)) /\ f[Len(ts)] \in Seq(S)
  BY <1>1, <1>2, <1>5
<1> QED
  BY <1>1, <1>6, SeqEqual

-----------------------------------------------------------------------------
(* The order of ids. *)

(* Prefixes, number by number. *)
LEMMA PrefixMeans ==
    ASSUME NEW a \in Seq(Nat), NEW b \in Seq(Nat)
    PROVE  IsPrefix(a, b) <=> Len(a) <= Len(b) /\ \A i \in 1 .. Len(a) : a[i] = b[i]
<1>1. /\ Len(a) \in Nat /\ Len(b) \in Nat
      /\ \A i \in 1 .. Len(a) : a[i] \in Nat
      /\ \A i \in 1 .. Len(b) : b[i] \in Nat
  BY LenProperties, ElementOfSeq
<1>2. SubSeq(a, 1, Len(a)) = a
  BY SubSeqFull
<1>3. ASSUME Len(a) <= Len(b)
      PROVE  /\ SubSeq(b, 1, Len(a)) \in Seq(Nat)
             /\ Len(SubSeq(b, 1, Len(a))) = Len(a)
             /\ \A i \in 1 .. Len(a) : SubSeq(b, 1, Len(a))[i] = b[i]
  <2>1. \A i \in 1 .. Len(a) : b[i] \in Nat
    BY <1>1, <1>3
  <2>2. /\ SubSeq(b, 1, Len(a)) \in Seq(Nat)
        /\ Len(SubSeq(b, 1, Len(a))) = IF 1 <= Len(a) THEN Len(a) - 1 + 1 ELSE 0
        /\ \A i \in 1 .. Len(a) - 1 + 1 : SubSeq(b, 1, Len(a))[i] = b[1 + i - 1]
    BY <1>1, <2>1, SubSeqProperties
  <2> QED
    BY <1>1, <2>2
<1>4. CASE Len(a) <= Len(b) /\ \A i \in 1 .. Len(a) : a[i] = b[i]
  <2>1. a = SubSeq(b, 1, Len(a))
    BY <1>3, <1>4, SeqEqual
  <2> QED
    BY <1>2, <1>4, <2>1 DEF IsPrefix
<1>5. ASSUME IsPrefix(a, b) PROVE Len(a) <= Len(b) /\ \A i \in 1 .. Len(a) : a[i] = b[i]
  <2>1. Len(a) <= Len(b) /\ a = SubSeq(b, 1, Len(a))
    BY <1>2, <1>5 DEF IsPrefix
  <2> QED
    BY <1>3, <2>1
<1> QED
  BY <1>4, <1>5

(* m is the first place where a and b differ, and there a has the smaller number
   or none. *)
BeforeAt(a, b, m) ==
    /\ m \in 1 .. Len(b) /\ m - 1 <= Len(a)
    /\ \A j \in 1 .. m - 1 : a[j] = b[j]
    /\ m <= Len(a) => a[m] < b[m]

LEMMA BeforeMeans ==
    ASSUME NEW a \in Seq(Nat), NEW b \in Seq(Nat)
    PROVE  Before(a, b) <=> \E m \in Nat : BeforeAt(a, b, m)
<1>1. /\ Len(a) \in Nat /\ Len(b) \in Nat
      /\ DOMAIN a = 1 .. Len(a) /\ DOMAIN b = 1 .. Len(b)
  BY LenProperties
<1>2. ASSUME IsStrictPrefix(a, b) PROVE BeforeAt(a, b, Len(a) + 1)
  <2>1. Len(a) <= Len(b) /\ a # b /\ \A i \in 1 .. Len(a) : a[i] = b[i]
    BY <1>2, PrefixMeans DEF IsStrictPrefix
  <2>2. Len(a) # Len(b)
    BY <2>1, SeqEqual
  <2>3. Len(a) + 1 \in 1 .. Len(b) /\ (Len(a) + 1) - 1 = Len(a) /\ ~(Len(a) + 1 <= Len(a))
    <3>1. \A p, q \in Nat : p <= q /\ p # q =>
              p + 1 \in 1 .. q /\ (p + 1) - 1 = p /\ ~(p + 1 <= p)
      OBVIOUS
    <3> QED
      BY ONLY <1>1, <2>1, <2>2, <3>1
  <2> QED
    BY <1>1, <2>1, <2>3 DEF BeforeAt
<1>3. ASSUME NEW k \in DOMAIN a \cap DOMAIN b,
             a[k] < b[k] /\ \A j \in 1 .. k - 1 : a[j] = b[j]
      PROVE  BeforeAt(a, b, k)
  BY <1>1, <1>3 DEF BeforeAt
<1>4. ASSUME NEW m \in Nat, BeforeAt(a, b, m) PROVE Before(a, b)
  <2>1. CASE m <= Len(a)
    <3>1. m \in DOMAIN a \cap DOMAIN b /\ a[m] < b[m] /\ \A j \in 1 .. m - 1 : a[j] = b[j]
      BY <1>1, <1>4, <2>1 DEF BeforeAt
    <3> QED
      BY <3>1 DEF Before
  <2>2. CASE ~(m <= Len(a))
    <3>1. m - 1 = Len(a) /\ Len(a) < Len(b) /\ \A j \in 1 .. Len(a) : a[j] = b[j]
      BY <1>1, <1>4, <2>2 DEF BeforeAt
    <3>2. IsPrefix(a, b) /\ a # b
      BY <1>1, <3>1, PrefixMeans
    <3> QED
      BY <3>2 DEF Before, IsStrictPrefix
  <2> QED
    BY <2>1, <2>2
<1>5. ASSUME Before(a, b) PROVE \E m \in Nat : BeforeAt(a, b, m)
  <2>1. CASE IsStrictPrefix(a, b)
    BY <1>1, <1>2, <2>1
  <2>2. CASE \E k \in DOMAIN a \cap DOMAIN b :
                a[k] < b[k] /\ \A j \in 1 .. k - 1 : a[j] = b[j]
    <3>1. PICK k \in DOMAIN a \cap DOMAIN b :
                a[k] < b[k] /\ \A j \in 1 .. k - 1 : a[j] = b[j]
      BY <2>2
    <3>2. BeforeAt(a, b, k) /\ k \in Nat
      BY <1>1, <1>3, <3>1
    <3> QED
      BY <3>2
  <2> QED
    BY <1>5, <2>1, <2>2 DEF Before
<1> QED
  BY <1>4, <1>5

LEMMA BeforeIrreflexive ==
    ASSUME NEW a \in Seq(Nat)
    PROVE  ~Before(a, a)
<1> SUFFICES ASSUME NEW m \in Nat, BeforeAt(a, a, m) PROVE FALSE
  BY BeforeMeans
<1>1. m \in 1 .. Len(a) /\ a[m] < a[m] /\ a[m] \in Nat
  BY LenProperties, ElementOfSeq DEF BeforeAt
<1> QED
  BY <1>1

LEMMA BeforeTransitive ==
    ASSUME NEW a \in Seq(Nat), NEW b \in Seq(Nat), NEW c \in Seq(Nat),
           Before(a, b), Before(b, c)
    PROVE  Before(a, c)
<1>1. /\ Len(a) \in Nat /\ Len(b) \in Nat /\ Len(c) \in Nat
      /\ \A i \in 1 .. Len(a) : a[i] \in Nat
      /\ \A i \in 1 .. Len(b) : b[i] \in Nat
      /\ \A i \in 1 .. Len(c) : c[i] \in Nat
  BY LenProperties, ElementOfSeq
<1>2. PICK m \in Nat : BeforeAt(a, b, m)
  BY BeforeMeans
<1>3. PICK n \in Nat : BeforeAt(b, c, n)
  BY BeforeMeans
<1>4. CASE m <= n
  <2>1. /\ m \in 1 .. Len(b) /\ n \in 1 .. Len(c) /\ m - 1 <= Len(a)
        /\ \A j \in 1 .. m - 1 : a[j] = b[j]
        /\ \A j \in 1 .. n - 1 : b[j] = c[j]
        /\ m <= Len(a) => a[m] < b[m]
        /\ n <= Len(b) => b[n] < c[n]
    BY <1>2, <1>3 DEF BeforeAt
  <2>2. m \in 1 .. Len(c) /\ \A j \in 1 .. m - 1 : a[j] = c[j]
    BY <1>1, <1>4, <2>1
  <2>3. ASSUME m <= Len(a) PROVE a[m] < c[m]
    <3>1. a[m] \in Nat /\ b[m] \in Nat /\ c[m] \in Nat /\ a[m] < b[m]
      BY <1>1, <2>1, <2>2, <2>3
    <3>2. CASE m = n
      <4>1. b[m] < c[m]
        BY <1>1, <2>1, <3>2
      <4> QED
        BY <3>1, <4>1
    <3>3. CASE m # n
      <4>1. b[m] = c[m]
        BY <1>4, <2>1, <3>3
      <4> QED
        BY <3>1, <4>1
    <3> QED
      BY <3>2, <3>3
  <2>4. BeforeAt(a, c, m)
    BY <2>1, <2>2, <2>3 DEF BeforeAt
  <2> QED
    BY <2>4, BeforeMeans
<1>5. CASE n < m
  <2>1. BeforeAt(a, c, n)
    BY <1>1, <1>2, <1>3, <1>5 DEF BeforeAt
  <2> QED
    BY <2>1, BeforeMeans
<1> QED
  BY <1>4, <1>5

LEMMA BeforeTotal ==
    ASSUME NEW a \in Seq(Nat), NEW b \in Seq(Nat), a # b
    PROVE  Before(a, b) \/ Before(b, a)
<1>1. /\ Len(a) \in Nat /\ Len(b) \in Nat
      /\ \A i \in 1 .. Len(a) : a[i] \in Nat
      /\ \A i \in 1 .. Len(b) : b[i] \in Nat
  BY LenProperties, ElementOfSeq
<1> DEFINE Ends(i) == i = Len(a) + 1 \/ i = Len(b) + 1
           D == {i \in Nat : i >= 1 /\ (Ends(i) \/ a[i] # b[i])}
<1>2. Len(a) + 1 \in D
  BY <1>1
<1>3. PICK m \in D : \A i \in D : m <= i
  <2> HIDE DEF D
  <2>1. D \subseteq Nat
    BY DEF D
  <2> QED
    BY <1>2, <2>1, LeastElement
<1>4. /\ m \in Nat /\ m >= 1 /\ (Ends(m) \/ a[m] # b[m])
      /\ \A j \in 1 .. m - 1 : ~Ends(j) /\ a[j] = b[j]
  BY <1>3
<1> HIDE DEF D
<1>5. m <= Len(a) + 1 /\ m <= Len(b) + 1
  BY <1>1, <1>4
<1>6. CASE m <= Len(a) /\ m <= Len(b)
  <2>1. a[m] < b[m] \/ b[m] < a[m]
    BY <1>1, <1>4, <1>6
  <2>2. BeforeAt(a, b, m) \/ BeforeAt(b, a, m)
    BY <1>1, <1>4, <1>6, <2>1 DEF BeforeAt
  <2> QED
    BY <1>4, <2>2, BeforeMeans
<1>7. CASE m <= Len(a) /\ ~(m <= Len(b))
  <2>1. BeforeAt(b, a, m)
    BY <1>1, <1>4, <1>5, <1>7 DEF BeforeAt
  <2> QED
    BY <1>4, <2>1, BeforeMeans
<1>8. CASE ~(m <= Len(a)) /\ m <= Len(b)
  <2>1. BeforeAt(a, b, m)
    BY <1>1, <1>4, <1>5, <1>8 DEF BeforeAt
  <2> QED
    BY <1>4, <2>1, BeforeMeans
<1>9. CASE ~(m <= Len(a)) /\ ~(m <= Len(b))
  <2>1. Len(a) = m - 1 /\ Len(b) = m - 1
    BY <1>1, <1>4, <1>5, <1>9
  <2> QED
    BY <1>4, <2>1, SeqEqual
<1> QED
  BY <1>6, <1>7, <1>8, <1>9

-----------------------------------------------------------------------------
(* SortTasks, for a task that is put into a list that is in order. *)

TaskIds == Seq(Nat) \ {<<>>}
Tasks == [id : TaskIds, status : Statuses, empty : BOOLEAN]

Ordered(ts) ==
    \A i, j \in 1 .. Len(ts) : i < j => Before(ts[i].id, ts[j].id)

LEMMA ListTypes ==
    ASSUME NEW ts \in Seq(Tasks)
    PROVE  /\ Len(ts) \in Nat /\ DOMAIN ts = 1 .. Len(ts)
           /\ \A i \in 1 .. Len(ts) :
                 /\ ts[i] \in Tasks
                 /\ ts[i].id \in Seq(Nat) /\ ts[i].id # <<>>
                 /\ ts[i].status \in Statuses /\ ts[i].empty \in BOOLEAN
<1>1. Len(ts) \in Nat /\ DOMAIN ts = 1 .. Len(ts) /\ \A i \in 1 .. Len(ts) : ts[i] \in Tasks
  BY LenProperties, ElementOfSeq
<1>2. \A t \in Tasks : /\ t.id \in Seq(Nat) /\ t.id # <<>>
                       /\ t.status \in Statuses /\ t.empty \in BOOLEAN
  BY DEF Tasks, TaskIds
<1> QED
  BY <1>1, <1>2

(* Where a new task belongs. *)
LEMMA PlaceOfNew ==
    ASSUME NEW ts \in Seq(Tasks), Ordered(ts), NEW t \in Tasks,
           \A i \in 1 .. Len(ts) : ts[i].id # t.id
    PROVE  \E k \in 0 .. Len(ts) :
              /\ \A i \in 1 .. k : Before(ts[i].id, t.id)
              /\ \A i \in k + 1 .. Len(ts) : Before(t.id, ts[i].id)
<1>1. Len(ts) \in Nat /\ t.id \in Seq(Nat) /\ \A i \in 1 .. Len(ts) : ts[i].id \in Seq(Nat)
  <2>1. t.id \in Seq(Nat)
    BY DEF Tasks, TaskIds
  <2> QED
    BY <2>1, ListTypes
<1> DEFINE low == {0} \cup {i \in 1 .. Len(ts) : Before(ts[i].id, t.id)}
<1>2. low \in SUBSET Nat /\ 0 \in low /\ \A i \in low : i <= Len(ts)
  BY <1>1
<1>3. PICK k \in low : \A i \in low : i <= k
  <2> HIDE DEF low
  <2> QED
    BY <1>1, <1>2, LargestElement
<1>4. k \in 0 .. Len(ts)
  BY <1>1, <1>3
<1>5. ASSUME NEW i \in 1 .. k PROVE Before(ts[i].id, t.id)
  <2>1. k \in 1 .. Len(ts) /\ Before(ts[k].id, t.id) /\ i \in 1 .. Len(ts)
    BY <1>1, <1>3, <1>4
  <2>2. CASE i < k
    <3>1. Before(ts[i].id, ts[k].id)
      BY <2>1, <2>2 DEF Ordered
    <3>2. ts[i].id \in Seq(Nat) /\ ts[k].id \in Seq(Nat)
      BY <1>1, <2>1
    <3> QED
      BY <1>1, <2>1, <3>1, <3>2, BeforeTransitive
  <2>3. CASE i = k
    BY <2>1, <2>3
  <2> QED
    BY <1>4, <2>2, <2>3
<1>6. ASSUME NEW i \in k + 1 .. Len(ts) PROVE Before(t.id, ts[i].id)
  <2>1. i \in 1 .. Len(ts) /\ i \notin low
    BY <1>1, <1>3, <1>4
  <2>2. ts[i].id \in Seq(Nat) /\ ts[i].id # t.id /\ ~Before(ts[i].id, t.id)
    BY <1>1, <2>1
  <2> QED
    BY <1>1, <2>2, BeforeTotal
<1> QED
  BY <1>4, <1>5, <1>6

(* sort.Slice has something to find. *)
LEMMA SortExists ==
    ASSUME NEW ts \in Seq(Tasks), Ordered(ts), NEW t \in Tasks,
           \A i \in 1 .. Len(ts) : ts[i].id # t.id,
           NEW u, u = Append(ts, t)
    PROVE  \E p \in Bijection(DOMAIN u, DOMAIN u) :
              \A i, j \in DOMAIN u : i < j => ~Before(u[p[j]].id, u[p[i]].id)
<1> DEFINE n == Len(ts)
<1>1. /\ n \in Nat /\ DOMAIN u = 1 .. n + 1
      /\ \A i \in 1 .. n : u[i] = ts[i] /\ ts[i].id \in Seq(Nat)
      /\ u[n + 1] = t /\ t.id \in Seq(Nat)
  <2>1. Len(u) = n + 1 /\ u \in Seq(Tasks)
    BY AppendProperties
  <2> QED
    <3>1. t.id \in Seq(Nat)
      BY DEF Tasks, TaskIds
    <3>2. DOMAIN u = 1 .. n + 1
      BY <2>1, LenProperties
    <3>3. (\A i \in 1 .. n : u[i] = ts[i]) /\ u[n + 1] = t
      BY AppendProperties
    <3> QED
      BY <3>1, <3>2, <3>3, ListTypes
<1>2. PICK k \in 0 .. n :
              /\ \A i \in 1 .. k : Before(ts[i].id, t.id)
              /\ \A i \in k + 1 .. n : Before(t.id, ts[i].id)
  BY PlaceOfNew
<1> HIDE DEF n
<1> DEFINE p == [i \in 1 .. n + 1 |-> IF i <= k THEN i ELSE IF i = k + 1 THEN n + 1 ELSE i - 1]
<1>3. p \in Bijection(1 .. n + 1, 1 .. n + 1)
  <2>1. p \in [1 .. n + 1 -> 1 .. n + 1]
    BY <1>1
  <2>2. ASSUME NEW i \in 1 .. n + 1, NEW j \in 1 .. n + 1, p[i] = p[j] PROVE i = j
    BY <1>1, <2>2
  <2>3. ASSUME NEW j \in 1 .. n + 1 PROVE \E i \in 1 .. n + 1 : p[i] = j
    <3>1. CASE j <= k
      BY <1>1, <3>1
    <3>2. CASE j = n + 1
      <4>1. k + 1 \in 1 .. n + 1 /\ p[k + 1] = j
        BY <1>1, <3>2
      <4> QED
        BY <4>1
    <3>3. CASE ~(j <= k) /\ j # n + 1
      <4>1. j + 1 \in 1 .. n + 1 /\ p[j + 1] = j
        BY <1>1, <3>3
      <4> QED
        BY <4>1
    <3> QED
      BY <3>1, <3>2, <3>3
  <2> HIDE DEF p
  <2>4. DOMAIN p = 1 .. n + 1
    BY <2>1
  <2>5. p \in Injection(1 .. n + 1, 1 .. n + 1)
    BY <2>1, <2>2, <2>4 DEF Injection, IsInjective
  <2>6. p \in Surjection(1 .. n + 1, 1 .. n + 1)
    BY <2>1, <2>3 DEF Surjection
  <2> QED
    BY <2>5, <2>6 DEF Bijection
<1>4. ASSUME NEW i \in 1 .. n + 1, NEW j \in 1 .. n + 1, i < j
      PROVE  /\ u[p[i]].id \in Seq(Nat) /\ u[p[j]].id \in Seq(Nat)
             /\ Before(u[p[i]].id, u[p[j]].id)
  <2>1. CASE j <= k
    <3>1. p[i] = i /\ p[j] = j /\ i \in 1 .. n /\ j \in 1 .. n
      BY <1>1, <1>4, <2>1
    <3> QED
      BY <1>1, <1>4, <3>1 DEF Ordered, n
  <2>2. CASE i <= k /\ j = k + 1
    <3>1. p[i] = i /\ p[j] = n + 1 /\ i \in 1 .. k /\ i \in 1 .. n
      BY <1>1, <1>4, <2>2
    <3> QED
      BY <1>1, <1>2, <3>1
  <2>3. CASE i <= k /\ j > k + 1
    <3>1. p[i] = i /\ p[j] = j - 1 /\ i \in 1 .. n /\ j - 1 \in 1 .. n /\ i < j - 1
      BY <1>1, <1>4, <2>3
    <3> QED
      BY <1>1, <3>1 DEF Ordered, n
  <2>4. CASE i = k + 1
    <3>1. p[i] = n + 1 /\ p[j] = j - 1 /\ j - 1 \in k + 1 .. n /\ j - 1 \in 1 .. n
      BY <1>1, <1>4, <2>4
    <3> QED
      BY <1>1, <1>2, <3>1
  <2>5. CASE i > k + 1
    <3>1. /\ p[i] = i - 1 /\ p[j] = j - 1
          /\ i - 1 \in 1 .. n /\ j - 1 \in 1 .. n /\ i - 1 < j - 1
      BY <1>1, <1>4, <2>5
    <3> QED
      BY <1>1, <3>1 DEF Ordered, n
  <2>6. i <= k \/ i = k + 1 \/ i > k + 1
    BY <1>1
  <2>7. i <= k => j <= k \/ j = k + 1 \/ j > k + 1
    BY <1>1
  <2> QED
    BY <2>1, <2>2, <2>3, <2>4, <2>5, <2>6, <2>7
<1>5. ASSUME NEW i \in 1 .. n + 1, NEW j \in 1 .. n + 1, i < j
      PROVE  ~Before(u[p[j]].id, u[p[i]].id)
  BY <1>4, <1>5, BeforeTransitive, BeforeIrreflexive
<1> HIDE DEF p
<1> QED
  BY <1>1, <1>3, <1>5

(* The list that Insert returns is in order, and has the old tasks and the new. *)
LEMMA InsertProperties ==
    ASSUME NEW ts \in Seq(Tasks), Ordered(ts), NEW t \in Tasks,
           \A i \in 1 .. Len(ts) : ts[i].id # t.id
    PROVE  LET r == Insert(ts, t)
           IN  /\ r \in Seq(Tasks)
               /\ Ordered(r)
               /\ \A i \in 1 .. Len(r) : r[i] = t \/ \E j \in 1 .. Len(ts) : r[i] = ts[j]
               /\ \A j \in 1 .. Len(ts) : \E i \in 1 .. Len(r) : r[i] = ts[j]
               /\ \E i \in 1 .. Len(r) : r[i] = t
<1> DEFINE n == Len(ts)
           u == Append(ts, t)
           InOrder(p) == \A i, j \in DOMAIN u : i < j => ~Before(u[p[j]].id, u[p[i]].id)
           perm == CHOOSE p \in Bijection(DOMAIN u, DOMAIN u) : InOrder(p)
           r == [i \in DOMAIN u |-> u[perm[i]]]
<1>1. Insert(ts, t) = r
  BY DEF Insert, SortTasks
<1>2. /\ n \in Nat /\ u \in Seq(Tasks) /\ Len(u) = n + 1 /\ DOMAIN u = 1 .. n + 1
      /\ \A i \in 1 .. n : u[i] = ts[i]
      /\ u[n + 1] = t
  <2>1. Len(u) = n + 1 /\ u \in Seq(Tasks)
    BY AppendProperties
  <2> QED
    BY <2>1, LenProperties, AppendProperties
<1>3. \E p \in Bijection(DOMAIN u, DOMAIN u) : InOrder(p)
  BY SortExists
<1>4. perm \in Bijection(DOMAIN u, DOMAIN u) /\ InOrder(perm)
  BY <1>3
<1> HIDE DEF perm
<1>5. /\ perm \in [1 .. n + 1 -> 1 .. n + 1]
      /\ \A i, j \in 1 .. n + 1 : perm[i] = perm[j] => i = j
      /\ \A j \in 1 .. n + 1 : \E i \in 1 .. n + 1 : perm[i] = j
  BY <1>2, <1>4 DEF Bijection, Injection, Surjection, IsInjective
<1>6. \A i \in 1 .. n + 1 : u[i] \in Tasks /\ u[i].id \in Seq(Nat)
  BY <1>2, ListTypes
<1>7. ASSUME NEW i \in 1 .. n + 1, NEW j \in 1 .. n + 1, u[i].id = u[j].id PROVE i = j
  <2>1. \A k, l \in 1 .. n : k < l => ts[k].id # ts[l].id
    <3> SUFFICES ASSUME NEW k \in 1 .. n, NEW l \in 1 .. n, k < l, ts[k].id = ts[l].id
                 PROVE  FALSE
      OBVIOUS
    <3>1. ts[l].id \in Seq(Nat) /\ Before(ts[l].id, ts[l].id)
      BY <1>2, <1>6 DEF Ordered
    <3> QED
      BY <3>1, BeforeIrreflexive
  <2>2. CASE i \in 1 .. n /\ j \in 1 .. n
    BY <1>2, <1>7, <2>1, <2>2
  <2>3. CASE i = n + 1 \/ j = n + 1
    BY <1>2, <1>7, <2>3
  <2> QED
    BY <1>2, <2>2, <2>3
<1> HIDE DEF u
<1>8. /\ r \in Seq(Tasks) /\ Len(r) = n + 1
      /\ \A i \in 1 .. n + 1 : perm[i] \in 1 .. n + 1 /\ r[i] = u[perm[i]]
  <2>1. r \in [1 .. n + 1 -> Tasks]
    BY <1>2, <1>5, <1>6
  <2>2. \A i \in 1 .. n + 1 : perm[i] \in 1 .. n + 1 /\ r[i] = u[perm[i]]
    BY <1>2, <1>5
  <2> HIDE DEF r
  <2> QED
    BY <1>2, <2>1, <2>2
<1> HIDE DEF r
<1>9. Ordered(r)
  <2> SUFFICES ASSUME NEW i \in 1 .. n + 1, NEW j \in 1 .. n + 1, i < j
               PROVE  Before(r[i].id, r[j].id)
    BY <1>8 DEF Ordered
  <2>1. perm[i] # perm[j] /\ perm[i] \in 1 .. n + 1 /\ perm[j] \in 1 .. n + 1
    BY <1>5, <1>8
  <2>2. u[perm[i]].id # u[perm[j]].id
    BY <1>7, <2>1
  <2>3. ~Before(u[perm[j]].id, u[perm[i]].id)
    BY <1>2, <1>4
  <2>4. u[perm[i]].id \in Seq(Nat) /\ u[perm[j]].id \in Seq(Nat)
    BY <1>6, <2>1
  <2> QED
    BY <1>8, <2>2, <2>3, <2>4, BeforeTotal
<1>10. ASSUME NEW i \in 1 .. n + 1 PROVE r[i] = t \/ \E j \in 1 .. n : r[i] = ts[j]
  <2>1. perm[i] \in 1 .. n + 1 /\ r[i] = u[perm[i]]
    BY <1>8
  <2>2. \A k \in 1 .. n + 1 : k = n + 1 \/ k \in 1 .. n
    BY <1>2
  <2> QED
    BY <1>2, <2>1, <2>2
<1>11. ASSUME NEW j \in 1 .. n + 1 PROVE \E i \in 1 .. n + 1 : r[i] = u[j]
  <2>1. PICK i \in 1 .. n + 1 : perm[i] = j
    BY <1>5
  <2> QED
    BY <1>8, <2>1
<1>12. ASSUME NEW j \in 1 .. n PROVE \E i \in 1 .. n + 1 : r[i] = ts[j]
  <2>1. j \in 1 .. n + 1 /\ u[j] = ts[j]
    BY <1>2
  <2> QED
    BY <1>11, <2>1
<1>13. \E i \in 1 .. n + 1 : r[i] = t
  <2>1. n + 1 \in 1 .. n + 1 /\ u[n + 1] = t
    BY <1>2
  <2> QED
    BY <1>11, <2>1
<1> QED
  BY <1>1, <1>8, <1>9, <1>10, <1>12, <1>13

-----------------------------------------------------------------------------
(* The number of a new task. *)

LEMMA FrontMeans ==
    ASSUME NEW a \in Seq(Nat), a # <<>>
    PROVE  /\ Len(a) \in Nat \ {0}
           /\ Front(a) \in Seq(Nat) /\ Len(Front(a)) = Len(a) - 1
           /\ \A i \in 1 .. Len(a) - 1 : Front(a)[i] = a[i]
<1>1. Len(a) \in Nat \ {0} /\ \A i \in 1 .. Len(a) : a[i] \in Nat
  BY LenProperties, ElementOfSeq, EmptySeq
<1>2. \A i \in 1 .. Len(a) - 1 : a[i] \in Nat
  BY <1>1
<1>3. /\ Front(a) \in Seq(Nat)
      /\ Len(Front(a)) = IF 1 <= Len(a) - 1 THEN Len(a) - 1 - 1 + 1 ELSE 0
      /\ \A i \in 1 .. Len(a) - 1 - 1 + 1 : Front(a)[i] = a[1 + i - 1]
  BY <1>1, <1>2, SubSeqProperties DEF Front
<1>4. \A n \in Nat \ {0} : (IF 1 <= n - 1 THEN n - 1 - 1 + 1 ELSE 0) = n - 1
  OBVIOUS
<1>5. Len(Front(a)) = Len(a) - 1
  BY <1>1, <1>3, <1>4
<1>6. \A n \in Nat \ {0} : \A i \in 1 .. n - 1 : i \in 1 .. n - 1 - 1 + 1 /\ 1 + i - 1 = i
  OBVIOUS
<1>7. ASSUME NEW i \in 1 .. Len(a) - 1 PROVE Front(a)[i] = a[i]
  <2>1. i \in 1 .. Len(a) - 1 - 1 + 1 /\ 1 + i - 1 = i
    BY <1>1, <1>6
  <2> QED
    BY <1>3, <2>1
<1> QED
  BY <1>1, <1>3, <1>5, <1>7

(* A longer id with the same front. *)
LEMMA ChildMeans ==
    ASSUME NEW parent \in Seq(Nat), NEW n \in Nat
    PROVE  LET id == Append(parent, n)
           IN  /\ id \in TaskIds /\ Len(id) = Len(parent) + 1 /\ Last(id) = n
               /\ Front(id) = parent /\ IsPrefix(parent, id)
<1> DEFINE id == Append(parent, n)
<1>1. /\ id \in Seq(Nat) /\ Len(parent) \in Nat /\ Len(id) = Len(parent) + 1
      /\ id[Len(parent) + 1] = n
      /\ \A i \in 1 .. Len(parent) : id[i] = parent[i]
  BY AppendProperties, LenProperties
<1> HIDE DEF id
<1>2. id # <<>>
  BY <1>1, EmptySeq
<1>3. Front(id) = parent
  <2>1. /\ Front(id) \in Seq(Nat) /\ Len(Front(id)) = Len(parent)
        /\ \A i \in 1 .. Len(parent) : Front(id)[i] = id[i]
    <3>1. \A m \in Nat : (m + 1) - 1 = m
      OBVIOUS
    <3> QED
      BY <1>1, <1>2, <3>1, FrontMeans
  <2> QED
    BY <1>1, <2>1, SeqEqual
<1>4. Len(parent) <= Len(id)
  BY <1>1
<1>5. IsPrefix(parent, id)
  BY <1>1, <1>4, PrefixMeans
<1> QED
  BY <1>1, <1>2, <1>3, <1>5 DEF Last, TaskIds, id

(* The last numbers of a list of ids are bounded. *)
LEMMA NumbersBounded ==
    ASSUME NEW ts \in Seq(Tasks)
    PROVE  \E b \in Nat : \A i \in 1 .. Len(ts) : Last(ts[i].id) <= b
<1> DEFINE Bounded(n) == \E b \in Nat : \A i \in 1 .. n : Last(ts[i].id) <= b
           Good == {n \in Nat : n <= Len(ts) => Bounded(n)}
<1>1. Len(ts) \in Nat /\ \A i \in 1 .. Len(ts) : Last(ts[i].id) \in Nat
  <2>1. ASSUME NEW a \in Seq(Nat), a # <<>> PROVE Last(a) \in Nat
    BY <2>1, LenProperties, ElementOfSeq, EmptySeq DEF Last
  <2> QED
    BY <2>1, ListTypes
<1>2. 0 \in Good
  <2>1. \A i \in 1 .. 0 : Last(ts[i].id) <= 0
    OBVIOUS
  <2> QED
    BY <2>1
<1>3. ASSUME NEW n \in Good PROVE n + 1 \in Good
  <2>1. n \in Nat
    OBVIOUS
  <2> SUFFICES ASSUME n + 1 <= Len(ts) PROVE Bounded(n + 1)
    BY <2>1
  <2>2. PICK b \in Nat : \A i \in 1 .. n : Last(ts[i].id) <= b
    BY <1>1, <2>1
  <2>3. Last(ts[n + 1].id) \in Nat
    BY <1>1, <2>1
  <2>4. PICK c \in Nat : b <= c /\ Last(ts[n + 1].id) <= c
    BY <2>3
  <2>5. ASSUME NEW i \in 1 .. n + 1 PROVE Last(ts[i].id) <= c
    <3>1. CASE i = n + 1
      BY <2>4, <3>1
    <3>2. CASE i # n + 1
      <4>1. i \in 1 .. n /\ i \in 1 .. Len(ts)
        BY <1>1, <2>1, <3>2
      <4>2. Last(ts[i].id) \in Nat
        BY <1>1, <4>1
      <4> QED
        BY <2>2, <2>4, <4>1, <4>2
    <3> QED
      BY <3>1, <3>2
  <2> QED
    BY <2>5
<1>4. Good = Nat
  <2> HIDE DEF Good
  <2> QED
    BY <1>2, <1>3, SetInduction DEF Good
<1>5. Len(ts) \in Good
  <2> HIDE DEF Good
  <2> QED
    BY <1>1, <1>4
<1>6. Len(ts) <= Len(ts)
  BY <1>1
<1> QED
  BY <1>5, <1>6

(* NextTopLevelID, NextChildID: the id is that of a child, and new. *)
LEMMA NextIdProperties ==
    ASSUME NEW ts \in Seq(Tasks), NEW parent \in Seq(Nat)
    PROVE  /\ NextId(ts, parent) \in TaskIds
           /\ Len(NextId(ts, parent)) = Len(parent) + 1
           /\ Front(NextId(ts, parent)) = parent
           /\ \A i \in 1 .. Len(ts) : ts[i].id # NextId(ts, parent)
<1> DEFINE children == {id \in Ids(ts) : Len(id) = Len(parent) + 1 /\ IsPrefix(parent, id)}
           S == {0} \cup {Last(id) : id \in children}
<1>1. /\ Len(ts) \in Nat /\ DOMAIN ts = 1 .. Len(ts)
      /\ \A i \in 1 .. Len(ts) : ts[i].id \in Seq(Nat) /\ ts[i].id # <<>>
  BY ListTypes
<1>2. PICK b \in Nat : \A i \in 1 .. Len(ts) : Last(ts[i].id) <= b
  BY NumbersBounded
<1>3. \A id \in Ids(ts) : Last(id) \in Nat /\ Last(id) <= b
  <2>1. ASSUME NEW a \in Seq(Nat), a # <<>> PROVE Last(a) \in Nat
    BY <2>1, LenProperties, ElementOfSeq, EmptySeq DEF Last
  <2> QED
    BY <1>1, <1>2, <2>1 DEF Ids
<1>4. S \in SUBSET Nat /\ 0 \in S /\ \A x \in S : x <= b
  BY <1>3
<1>5. PICK x \in S : \A y \in S : y <= x
  <2> HIDE DEF S
  <2> QED
    BY <1>4, LargestElement
<1>6. Max(S) \in S /\ \A y \in S : Max(S) >= y
  <2>1. \A y \in S : x >= y
    BY <1>4, <1>5
  <2> HIDE DEF S
  <2> QED
    BY <2>1 DEF Max
<1> DEFINE m == Max(S)
<1>7. m \in Nat
  BY <1>4, <1>6
<1>8. NextId(ts, parent) = Append(parent, m + 1)
  BY DEF NextId
<1> HIDE DEF m
<1>9. ASSUME NEW i \in 1 .. Len(ts), ts[i].id = Append(parent, m + 1) PROVE FALSE
  <2>1. ts[i].id \in children /\ Last(ts[i].id) = m + 1
    <3>1. LET id == Append(parent, m + 1)
          IN  Len(id) = Len(parent) + 1 /\ Last(id) = m + 1 /\ IsPrefix(parent, id)
      BY <1>7, ChildMeans
    <3>2. ts[i].id \in Ids(ts)
      BY <1>1 DEF Ids
    <3> QED
      BY <1>9, <3>1, <3>2
  <2>2. m + 1 \in S
    BY <2>1
  <2>3. m >= m + 1
    BY <1>6, <2>2 DEF m
  <2> QED
    BY <1>7, <2>3
<1>10. m + 1 \in Nat
  BY <1>7
<1> QED
  BY <1>8, <1>9, <1>10, ChildMeans

-----------------------------------------------------------------------------
(* What a request makes of a well-formed list. *)

Parented(ts) ==
    \A i \in 1 .. Len(ts) : Len(ts[i].id) > 1 =>
        \E j \in 1 .. Len(ts) : ts[j].id = Front(ts[i].id)

IsList(ts) == ts \in Seq(Tasks) /\ Ordered(ts) /\ Parented(ts)

(* A task that will not be read back has no children. *)
Firm(ts) ==
    \A i, j \in 1 .. Len(ts) :
        Len(ts[i].id) > 1 /\ ts[j].id = Front(ts[i].id) => ~ts[j].empty

NoneEmpty(ts) == \A i \in 1 .. Len(ts) : ~ts[i].empty

LEMMA EmptyIsList == IsList(<<>>) /\ Firm(<<>>) /\ NoneEmpty(<<>>)
  BY EmptySeq DEF IsList, Ordered, Parented, Firm, NoneEmpty

LEMMA NoneEmptyIsFirm ==
    ASSUME NEW ts, NoneEmpty(ts) PROVE Firm(ts)
  BY DEF NoneEmpty, Firm

(* Kept takes a list to a list, if with a task it keeps its parent. *)
LEMMA KeptIsList ==
    ASSUME NEW ts, IsList(ts), NEW keep,
           \A i, j \in 1 .. Len(ts) :
               /\ i \in keep
               /\ Len(ts[i].id) > 1 /\ ts[j].id = Front(ts[i].id)
               => j \in keep
    PROVE  /\ IsList(Kept(ts, keep))
           /\ \A k \in 1 .. Len(Kept(ts, keep)) :
                 \E i \in 1 .. Len(ts) : i \in keep /\ Kept(ts, keep)[k] = ts[i]
           /\ Firm(ts) => Firm(Kept(ts, keep))
<1> DEFINE r == Kept(ts, keep)
<1>1. ts \in Seq(Tasks) /\ Ordered(ts) /\ Parented(ts)
  BY DEF IsList
<1>2. r \in Seq(Tasks) /\ \E g : ComesFrom(r, ts, Len(ts), keep, g)
  BY <1>1, KeptProperties
<1> HIDE DEF r
<1>3. PICK g : ComesFrom(r, ts, Len(ts), keep, g)
  BY <1>2
<1>4. /\ \A k \in 1 .. Len(r) : g[k] \in 1 .. Len(ts) /\ g[k] \in keep /\ r[k] = ts[g[k]]
      /\ \A k, l \in 1 .. Len(r) : k < l => g[k] < g[l]
      /\ \A i \in 1 .. Len(ts) : i \in keep => \E k \in 1 .. Len(r) : g[k] = i
  BY <1>3 DEF ComesFrom
<1>5. Ordered(r)
  BY <1>1, <1>4 DEF Ordered
<1>6. ASSUME NEW k \in 1 .. Len(r), Len(r[k].id) > 1
      PROVE  \E l \in 1 .. Len(r) : r[l].id = Front(r[k].id)
  <2>1. g[k] \in 1 .. Len(ts) /\ g[k] \in keep /\ r[k] = ts[g[k]]
    BY <1>4
  <2>2. PICK j \in 1 .. Len(ts) : ts[j].id = Front(ts[g[k]].id)
    BY <1>1, <1>6, <2>1 DEF Parented
  <2>3. j \in keep
    BY <1>6, <2>1, <2>2
  <2>4. PICK l \in 1 .. Len(r) : g[l] = j
    BY <1>4, <2>3
  <2> QED
    BY <1>4, <2>1, <2>2, <2>4
<1>7. ASSUME Firm(ts) PROVE Firm(r)
  <2> SUFFICES ASSUME NEW k \in 1 .. Len(r), NEW l \in 1 .. Len(r),
                      Len(r[k].id) > 1, r[l].id = Front(r[k].id)
               PROVE  ~r[l].empty
    BY DEF Firm
  <2>1. /\ g[k] \in 1 .. Len(ts) /\ r[k] = ts[g[k]]
        /\ g[l] \in 1 .. Len(ts) /\ r[l] = ts[g[l]]
    BY <1>4
  <2> QED
    BY <1>7, <2>1 DEF Firm
<1>8. IsList(r)
  BY <1>2, <1>5, <1>6 DEF IsList, Parented
<1>9. \A k \in 1 .. Len(r) : \E i \in 1 .. Len(ts) : i \in keep /\ r[k] = ts[i]
  BY <1>4
<1> QED
  BY <1>7, <1>8, <1>9 DEF r

LEMMA ParseProperties ==
    ASSUME NEW ts, IsList(ts), Firm(ts)
    PROVE  /\ IsList(Parse(ts)) /\ NoneEmpty(Parse(ts))
           /\ Parse(ts) = ts <=> NoneEmpty(ts)
<1> DEFINE keep == {i \in DOMAIN ts : ~ts[i].empty}
<1>1. DOMAIN ts = 1 .. Len(ts) /\ Parse(ts) = Kept(ts, keep) /\ ts \in Seq(Tasks)
  BY LenProperties DEF Parse, IsList
<1>2. \A i, j \in 1 .. Len(ts) :
               /\ i \in keep
               /\ Len(ts[i].id) > 1 /\ ts[j].id = Front(ts[i].id)
               => j \in keep
  BY <1>1 DEF Firm
<1>3. \A i \in keep : ~ts[i].empty
  OBVIOUS
<1>4. NoneEmpty(ts) => 1 .. Len(ts) \subseteq keep
  BY <1>1 DEF NoneEmpty
<1> HIDE DEF keep
<1>5. /\ IsList(Kept(ts, keep))
      /\ \A k \in 1 .. Len(Kept(ts, keep)) :
            \E i \in 1 .. Len(ts) : i \in keep /\ Kept(ts, keep)[k] = ts[i]
  BY <1>2, KeptIsList
<1>6. NoneEmpty(Parse(ts))
  BY <1>1, <1>3, <1>5 DEF NoneEmpty
<1>7. NoneEmpty(ts) => Parse(ts) = ts
  BY <1>1, <1>4, KeptAll
<1> QED
  BY <1>1, <1>5, <1>6, <1>7

LEMMA PrefixOfFront ==
    ASSUME NEW a \in Seq(Nat), NEW b \in Seq(Nat), b # <<>>
    PROVE  /\ IsPrefix(a, Front(b)) => IsPrefix(a, b)
           /\ IsPrefix(a, b) /\ a # b => IsPrefix(a, Front(b))
<1>1. /\ Len(a) \in Nat /\ Len(b) \in Nat \ {0}
      /\ Front(b) \in Seq(Nat) /\ Len(Front(b)) = Len(b) - 1
      /\ \A i \in 1 .. Len(b) - 1 : Front(b)[i] = b[i]
  BY FrontMeans, LenProperties
<1>2. ASSUME IsPrefix(a, Front(b)) PROVE IsPrefix(a, b)
  <2>1. Len(a) <= Len(b) - 1 /\ \A i \in 1 .. Len(a) : a[i] = Front(b)[i]
    BY <1>1, <1>2, PrefixMeans
  <2>2. Len(a) <= Len(b) /\ \A i \in 1 .. Len(a) : a[i] = b[i]
    BY <1>1, <2>1
  <2> QED
    BY <2>2, PrefixMeans
<1>3. ASSUME IsPrefix(a, b), a # b PROVE IsPrefix(a, Front(b))
  <2>1. Len(a) <= Len(b) /\ \A i \in 1 .. Len(a) : a[i] = b[i]
    BY <1>3, PrefixMeans
  <2>2. Len(a) # Len(b)
    BY <1>3, <2>1, SeqEqual
  <2>3. Len(a) <= Len(b) - 1
    BY <1>1, <2>1, <2>2
  <2>4. \A i \in 1 .. Len(a) : a[i] = Front(b)[i]
    BY <1>1, <2>1, <2>3
  <2> QED
    BY <1>1, <2>3, <2>4, PrefixMeans
<1> QED
  BY <1>2, <1>3

LEMMA DeleteProperties ==
    ASSUME NEW ts, IsList(ts), NEW id \in TaskIds
    PROVE  /\ IsList(Delete(ts, id))
           /\ Firm(ts) => Firm(Delete(ts, id))
<1> DEFINE keep == {i \in DOMAIN ts : ~IsPrefix(id, ts[i].id)}
<1>1. /\ DOMAIN ts = 1 .. Len(ts) /\ Delete(ts, id) = Kept(ts, keep)
      /\ \A i \in 1 .. Len(ts) : ts[i].id \in Seq(Nat) /\ ts[i].id # <<>>
      /\ id \in Seq(Nat)
  BY ListTypes DEF Delete, IsList, TaskIds
<1>2. ASSUME NEW i \in 1 .. Len(ts), NEW j \in 1 .. Len(ts), i \in keep,
             ts[j].id = Front(ts[i].id)
      PROVE  j \in keep
  BY <1>1, <1>2, PrefixOfFront
<1> HIDE DEF keep
<1> QED
  BY <1>1, <1>2, KeptIsList

(* handleTaskCreate: the new task has its parent in the list, and no children. *)
LEMMA CreateProperties ==
    ASSUME NEW ts, IsList(ts), NEW parent \in TaskIds \cup {<<>>},
           NEW status \in Statuses, NEW empty \in BOOLEAN
    PROVE  /\ IsList(Create(ts, parent, status, empty))
           /\ NoneEmpty(ts) => Firm(Create(ts, parent, status, empty))
<1> DEFINE id == NextId(ts, parent)
           t == [id |-> id, status |-> status, empty |-> empty]
           r == Insert(ts, t)
<1>1. /\ ts \in Seq(Tasks) /\ Ordered(ts) /\ Parented(ts) /\ parent \in Seq(Nat)
      /\ DOMAIN ts = 1 .. Len(ts)
      /\ \A i \in 1 .. Len(ts) : ts[i].id \in Seq(Nat) /\ ts[i].id # <<>>
  BY ListTypes, EmptySeq DEF IsList, TaskIds
<1>2. CASE parent = <<>> \/ parent \in Ids(ts)
  <2>1. Create(ts, parent, status, empty) = r
    BY <1>2 DEF Create
  <2>2. /\ id \in TaskIds /\ Len(id) = Len(parent) + 1 /\ Front(id) = parent
        /\ \A i \in 1 .. Len(ts) : ts[i].id # id
    BY <1>1, NextIdProperties
  <2> HIDE DEF id
  <2>3. t \in Tasks /\ t.id = id /\ t.empty = empty
    BY <2>2 DEF Tasks
  <2> HIDE DEF t
  <2>4. /\ r \in Seq(Tasks) /\ Ordered(r)
        /\ \A i \in 1 .. Len(r) : r[i] = t \/ \E j \in 1 .. Len(ts) : r[i] = ts[j]
        /\ \A j \in 1 .. Len(ts) : \E i \in 1 .. Len(r) : r[i] = ts[j]
    <3>1. \A i \in 1 .. Len(ts) : ts[i].id # t.id
      BY <2>2, <2>3
    <3>2. t \in Tasks /\ ts \in Seq(Tasks) /\ Ordered(ts)
      BY <1>1, <2>3
    <3> HIDE DEF r
    <3>3. /\ Insert(ts, t) \in Seq(Tasks) /\ Ordered(Insert(ts, t))
          /\ \A i \in 1 .. Len(Insert(ts, t)) :
                Insert(ts, t)[i] = t \/ \E j \in 1 .. Len(ts) : Insert(ts, t)[i] = ts[j]
          /\ \A j \in 1 .. Len(ts) :
                \E i \in 1 .. Len(Insert(ts, t)) : Insert(ts, t)[i] = ts[j]
      BY ONLY <3>1, <3>2, InsertProperties
    <3> QED
      BY <3>3 DEF r
  <2> HIDE DEF r
  <2>5. ASSUME NEW i \in 1 .. Len(r), Len(r[i].id) > 1
        PROVE  \E k \in 1 .. Len(r) : r[k].id = Front(r[i].id)
    <3>1. \E j \in 1 .. Len(ts) : ts[j].id = Front(r[i].id)
      <4>1. CASE r[i] = t
        <5>1. Len(parent) + 1 > 1
          BY <2>2, <2>3, <2>5, <4>1
        <5>2. parent # <<>>
          BY <5>1, EmptySeq
        <5> QED
          BY <1>1, <1>2, <2>2, <2>3, <4>1, <5>2 DEF Ids
      <4>2. CASE \E j \in 1 .. Len(ts) : r[i] = ts[j]
        BY <1>1, <2>5, <4>2 DEF Parented
      <4> QED
        BY <2>4, <4>1, <4>2
    <3> QED
      BY <2>4, <3>1
  <2>6. IsList(r)
    BY <2>4, <2>5 DEF IsList, Parented
  <2>7. ASSUME NoneEmpty(ts), NEW i \in 1 .. Len(r), NEW k \in 1 .. Len(r),
               Len(r[i].id) > 1, r[k].id = Front(r[i].id)
        PROVE  ~r[k].empty
    <3>1. r[k] # t
      <4>1. CASE r[i] = t
        <5>1. Len(Front(id)) = Len(id) - 1 /\ Len(id) \in Nat
          BY <2>2, FrontMeans DEF TaskIds
        <5>2. Front(id) # id
          <6>1. \A n \in Nat : n - 1 # n
            OBVIOUS
          <6> QED
            BY <5>1, <6>1
        <5> QED
          BY <2>3, <2>7, <4>1, <5>2
      <4>2. CASE \E j \in 1 .. Len(ts) : r[i] = ts[j]
        <5>1. \E j \in 1 .. Len(ts) : ts[j].id = Front(r[i].id)
          BY <1>1, <2>7, <4>2 DEF Parented
        <5> QED
          BY <2>2, <2>3, <2>7, <5>1
      <4> QED
        BY <2>4, <4>1, <4>2
    <3> QED
      BY <2>4, <2>7, <3>1 DEF NoneEmpty
  <2> QED
    BY <2>1, <2>6, <2>7 DEF Firm
<1>3. CASE ~(parent = <<>> \/ parent \in Ids(ts))
  BY <1>3, NoneEmptyIsFirm DEF Create
<1> QED
  BY <1>2, <1>3

LEMMA SetStatusProperties ==
    ASSUME NEW ts, IsList(ts), NEW id, NEW status \in Statuses
    PROVE  /\ IsList(SetStatus(ts, id, status))
           /\ Firm(ts) => Firm(SetStatus(ts, id, status))
           /\ id \notin Ids(ts) => SetStatus(ts, id, status) = ts
<1> DEFINE r == SetStatus(ts, id, status)
<1>1. /\ ts \in Seq(Tasks) /\ Ordered(ts) /\ Parented(ts)
      /\ Len(ts) \in Nat /\ DOMAIN ts = 1 .. Len(ts)
      /\ \A i \in 1 .. Len(ts) : ts[i] \in Tasks
  BY ListTypes DEF IsList
<1>2. ASSUME NEW i \in 1 .. Len(ts)
      PROVE  /\ r[i] \in Tasks /\ r[i].id = ts[i].id /\ r[i].empty = ts[i].empty
             /\ ts[i].id # id => r[i] = ts[i]
  <2>1. \/ ts[i].id = id /\ r[i] = [ts[i] EXCEPT !.status = status]
        \/ r[i] = ts[i]
    BY <1>1 DEF SetStatus
  <2>2. ts[i] \in Tasks
    BY <1>1
  <2> QED
    BY <2>1, <2>2 DEF Tasks
<1>3. r \in Seq(Tasks) /\ Len(r) = Len(ts)
  <2>1. DOMAIN r = 1 .. Len(ts)
    BY <1>1 DEF SetStatus
  <2>2. r = [i \in DOMAIN r |-> r[i]]
    BY DEF SetStatus
  <2> HIDE DEF r
  <2>3. r \in [1 .. Len(ts) -> Tasks]
    BY <1>2, <2>1, <2>2
  <2> QED
    BY <1>1, <2>3, LenProperties
<1>4. ASSUME id \notin Ids(ts) PROVE r = ts
  <2>1. \A i \in 1 .. Len(ts) : r[i] = ts[i]
    BY <1>1, <1>2, <1>4 DEF Ids
  <2> HIDE DEF r
  <2> QED
    BY <1>1, <1>3, <2>1, SeqEqual
<1> HIDE DEF r
<1>5. Ordered(r)
  BY <1>1, <1>2, <1>3 DEF Ordered
<1>6. Parented(r)
  BY <1>1, <1>2, <1>3 DEF Parented
<1>7. Firm(ts) => Firm(r)
  BY <1>2, <1>3 DEF Firm
<1> QED
  BY <1>3, <1>4, <1>5, <1>6, <1>7 DEF IsList, r

Requests ==
    [kind : {"clear"}] \cup [kind : {"delete"}, id : TaskIds]
    \cup [kind : {"status"}, id : TaskIds, status : Statuses]
    \cup [kind : {"create"}, id : TaskIds \cup {<<>>}, status : Statuses,
          empty : BOOLEAN, more : MoreLines]

LEMMA RequestKinds ==
    /\ \A r \in Requests :
          \/ r.kind = "clear"
          \/ r.kind = "delete" /\ r.id \in TaskIds
          \/ r.kind = "status" /\ r.id \in TaskIds /\ r.status \in Statuses
          \/ /\ r.kind = "create" /\ r.id \in TaskIds \cup {<<>>}
             /\ r.status \in Statuses /\ r.empty \in BOOLEAN
    /\ NoRequest \notin Requests
  BY DEF Requests, NoRequest

(* A request makes a list of a list; of one that was read from the file, one on
   which no task that will not be read back has children. *)
LEMMA OutcomeKeeps ==
    ASSUME NEW ts, IsList(ts), NEW r \in Requests
    PROVE  /\ IsList(Outcome(ts, r))
           /\ NoneEmpty(ts) => Firm(Outcome(ts, r))
<1>1. CASE r.kind = "clear"
  BY <1>1, EmptyIsList DEF Outcome
<1>2. CASE r.kind = "delete" /\ r.id \in TaskIds
  BY <1>2, DeleteProperties, NoneEmptyIsFirm DEF Outcome
<1>3. CASE r.kind = "status" /\ r.id \in TaskIds /\ r.status \in Statuses
  BY <1>3, SetStatusProperties, NoneEmptyIsFirm DEF Outcome
<1>4. CASE /\ r.kind = "create" /\ r.id \in TaskIds \cup {<<>>}
           /\ r.status \in Statuses /\ r.empty \in BOOLEAN
  BY <1>4, CreateProperties DEF Outcome
<1> QED
  BY <1>1, <1>2, <1>3, <1>4, RequestKinds

(* What is not found is left alone. *)
LEMMA OutcomeAbsent ==
    ASSUME NEW ts, IsList(ts), NEW r \in Requests,
           \/ r.kind \in {"create", "status"} /\ r.id # <<>> /\ r.id \notin Ids(ts)
           \/ r.kind = "delete" /\ \A id \in Ids(ts) : ~IsPrefix(r.id, id)
    PROVE  Outcome(ts, r) = ts
<1>1. CASE r.kind = "delete" /\ \A id \in Ids(ts) : ~IsPrefix(r.id, id)
  <2> DEFINE keep == {i \in DOMAIN ts : ~IsPrefix(r.id, ts[i].id)}
  <2>1. Outcome(ts, r) = Kept(ts, keep)
    BY <1>1 DEF Outcome, Delete
  <2>2. ts \in Seq(Tasks) /\ 1 .. Len(ts) \subseteq keep
    BY <1>1, ListTypes DEF IsList, Ids
  <2> HIDE DEF keep
  <2> QED
    BY <2>1, <2>2, KeptAll
<1>2. CASE r.kind = "status" /\ r.id \notin Ids(ts)
  BY <1>2, SetStatusProperties, RequestKinds DEF Outcome
<1>3. CASE r.kind = "create" /\ r.id # <<>> /\ r.id \notin Ids(ts)
  BY <1>3 DEF Outcome, Create
<1> QED
  BY <1>1, <1>2, <1>3

-----------------------------------------------------------------------------
(* The inductive invariant. *)

TaskTypes ==
    /\ tpc \in [Handlers -> {"idle", "begin", "read", "write"}]
    /\ tasksMu \in [Processes -> {Nobody} \cup Handlers]
    /\ request \in [Handlers -> Requests \cup {NoRequest}]
    /\ \A h \in Handlers : tpc[h] # "idle" => request[h] \in Requests
    /\ DOMAIN result = Handlers
    /\ changes \in 0 .. MaxChanges
    /\ crossed \in BOOLEAN /\ emptied \in BOOLEAN
    /\ forged \in BOOLEAN /\ overlaid \in BOOLEAN
    /\ detached \subseteq Handlers

(* Lock and deferred Unlock. *)
LockHeld ==
    \A h \in Handlers : tpc[h] \in {"read", "write"} <=> tasksMu[ProcessOf[h]] = h

(* No list was written over another one, and every line is a task's. *)
Sound == ~overlaid /\ ~forged

Lists ==
    /\ IsList(tasksFile) /\ Firm(tasksFile)
    /\ \A h \in Handlers : IsList(result[h]) /\ Firm(result[h])

Reading == \A h \in Handlers : tpc[h] = "read" => NoneEmpty(result[h])
Writing == \A h \in Handlers : tpc[h] = "write" =>
               request[h].kind # "clear" /\ (Breaks(request[h]) => forged)

(* A file that is not empty while a handler is about to write to it, or one that is
   removed under it, is the work of the other process. *)
Crossings ==
    /\ overlaid => crossed
    /\ \A h \in detached : tpc[h] = "write" /\ crossed
    /\ \A h \in Handlers : tpc[h] = "write" /\ tasksFile # <<>> => crossed

(* Between two requests the file is the board; a handler that has read has the
   board in its hands, and one that has truncated the file the next board. *)
InStep ==
    /\ NoneEmpty(board)
    /\ \A h \in Handlers : tpc[h] = "write" =>
          /\ result[h] = Outcome(board, request[h])
          /\ \A g \in Handlers : tpc[g] = "write" => g = h
    /\ (\A h \in Handlers : tpc[h] # "write") =>
          /\ tasksFile = board
          /\ \A h \in Handlers :
                tpc[h] = "read" /\ request[h].kind # "clear" => result[h] = board

TaskInv ==
    /\ TaskTypes /\ LockHeld /\ Writing /\ Crossings
    /\ IsList(board)
    /\ Sound => Lists /\ Reading
    /\ ~crossed /\ ~emptied /\ ~forged => InStep

USE TaskAssumption

LEMMA TaskInitial == TaskInit => TaskInv
<1> SUFFICES ASSUME TaskInit PROVE TaskInv
  OBVIOUS
<1>1. TaskTypes
  <2>1. changes \in 0 .. MaxChanges
    BY DEF TaskInit
  <2>2. tasksMu \in [Processes -> {Nobody} \cup Handlers]
    BY DEF TaskInit
  <2>3. request \in [Handlers -> Requests \cup {NoRequest}] /\ DOMAIN result = Handlers
    BY DEF TaskInit
  <2>4. \A h \in Handlers : tpc[h] = "idle"
    BY DEF TaskInit
  <2>5. tpc \in [Handlers -> {"idle", "begin", "read", "write"}]
    BY DEF TaskInit
  <2>6. /\ crossed \in BOOLEAN /\ emptied \in BOOLEAN
        /\ forged \in BOOLEAN /\ overlaid \in BOOLEAN /\ detached = {}
    BY DEF TaskInit
  <2> QED
    BY <2>1, <2>2, <2>3, <2>4, <2>5, <2>6 DEF TaskTypes
<1>2. LockHeld
  BY DEF TaskInit, LockHeld, Processes, Nobody
<1>3. Lists /\ Reading /\ Writing /\ InStep /\ Crossings /\ IsList(board)
  BY EmptyIsList DEF TaskInit, Lists, Reading, Writing, InStep, Crossings
<1> QED
  BY <1>1, <1>2, <1>3 DEF TaskInv

(* A step that changes nothing keeps the invariant. *)
LEMMA TaskStutters ==
    ASSUME TaskInv, UNCHANGED taskVars PROVE TaskInv'
<1> USE DEF TaskInv
<1>1. /\ UNCHANGED <<tasksFile, tasksMu, tpc, request, result, changes, board, detached>>
      /\ UNCHANGED <<crossed, emptied, forged, overlaid>>
  BY DEF taskVars, taskHist
<1>2. TaskTypes' /\ LockHeld' /\ Writing' /\ Crossings' /\ IsList(board)'
  BY <1>1 DEF TaskTypes, LockHeld, Writing, Crossings
<1>3. (Sound => Lists /\ Reading)'
  BY <1>1 DEF Sound, Lists, Reading
<1>4. (~crossed /\ ~emptied /\ ~forged => InStep)'
  BY <1>1 DEF InStep
<1> QED
  BY <1>2, <1>3, <1>4

(* A handler that has read or is writing has its process to itself. *)
LEMMA OneInside ==
    ASSUME TaskInv, NEW h \in Handlers, NEW g \in Handlers, g # h,
           tpc[h] \in {"read", "write"}, tpc[g] \in {"read", "write"}
    PROVE  ProcessOf[g] # ProcessOf[h]
  BY DEF TaskInv, LockHeld

LEMMA ArrivesKeepsInv ==
    ASSUME TaskInv, NEW h \in Handlers, RequestArrives(h) PROVE TaskInv'
<1>1. /\ tpc[h] = "idle" /\ tpc' = [tpc EXCEPT ![h] = "begin"]
      /\ UNCHANGED <<tasksFile, tasksMu, result, board, detached>>
      /\ UNCHANGED <<crossed, emptied, forged, overlaid>>
      /\ changes < MaxChanges /\ changes' = changes + 1
  BY DEF RequestArrives, TaskGoto, taskHist
<1>2. PICK r \in Asked(h) : request' = [request EXCEPT ![h] = r]
  BY DEF RequestArrives
<1>3. r \in Requests
  <2>1. Ids(board) \cup {<<1>>} \subseteq TaskIds
    <3>1. \A i \in DOMAIN board : board[i].id \in TaskIds
      BY ListTypes DEF TaskInv, IsList, TaskIds
    <3>2. <<1>> \in TaskIds
      BY DEF TaskIds
    <3> QED
      BY <3>1, <3>2 DEF Ids
  <2> QED
    BY <2>1 DEF Asked, Requests
<1>4. TaskTypes'
  BY <1>1, <1>2, <1>3 DEF TaskInv, TaskTypes
<1>5. LockHeld'
  BY <1>1 DEF TaskInv, TaskTypes, LockHeld
<1>6. Sound' => Lists' /\ Reading'
  BY <1>1 DEF TaskInv, TaskTypes, Lists, Reading, Sound
<1>7. Writing' /\ Crossings' /\ IsList(board')
  BY <1>1, <1>2 DEF TaskInv, TaskTypes, Writing, Crossings
<1>8. InStep => InStep'
  BY <1>1, <1>2 DEF TaskInv, TaskTypes, InStep
<1> QED
  BY <1>1, <1>4, <1>5, <1>6, <1>7, <1>8 DEF TaskInv

LEMMA ReadKeepsInv ==
    ASSUME TaskInv, NEW h \in Handlers, ReadTasks(h) PROVE TaskInv'
<1> DEFINE read == Parse(tasksFile)
<1>1. /\ tpc[h] = "begin" /\ tpc' = [tpc EXCEPT ![h] = "read"]
      /\ tasksMu[ProcessOf[h]] = Nobody
      /\ tasksMu' = [tasksMu EXCEPT ![ProcessOf[h]] = h]
      /\ result' = [result EXCEPT ![h] = read]
      /\ UNCHANGED <<tasksFile, request, changes, board, detached>>
      /\ UNCHANGED <<crossed, emptied, forged, overlaid>>
  BY DEF ReadTasks, TaskGoto, taskHist
<1>2. Lists => IsList(read) /\ NoneEmpty(read) /\ Firm(read)
  BY ParseProperties, NoneEmptyIsFirm DEF TaskInv, Lists
<1>3. Lists /\ NoneEmpty(tasksFile) => read = tasksFile
  BY ParseProperties DEF TaskInv, Lists
<1> HIDE DEF read
<1>4. TaskTypes'
  BY <1>1, <1>2 DEF TaskInv, TaskTypes, Processes
<1>5. LockHeld'
  <2> SUFFICES ASSUME NEW g \in Handlers
               PROVE  tpc'[g] \in {"read", "write"} <=> tasksMu'[ProcessOf[g]] = g
    BY DEF LockHeld
  <2>1. h # Nobody /\ g # Nobody /\ ProcessOf[h] \in Processes /\ ProcessOf[g] \in Processes
    BY DEF Nobody, Processes
  <2>2. tpc[g] \in {"read", "write"} <=> tasksMu[ProcessOf[g]] = g
    BY DEF TaskInv, LockHeld
  <2>3. CASE g = h
    BY <1>1, <2>1, <2>3 DEF TaskInv, TaskTypes
  <2>4. CASE g # h
    BY <1>1, <2>1, <2>2, <2>4 DEF TaskInv, TaskTypes
  <2> QED
    BY <2>3, <2>4
<1>6. ASSUME Sound' PROVE Lists' /\ Reading'
  <2>1. Lists /\ Reading
    BY <1>1, <1>6 DEF TaskInv, Sound
  <2> QED
    BY <1>1, <1>2, <2>1 DEF TaskInv, TaskTypes, Lists, Reading
<1>7. Writing' /\ Crossings'
  BY <1>1, <1>2 DEF TaskInv, TaskTypes, Writing, Crossings
<1>8. ASSUME ~crossed', ~emptied', ~forged' PROVE InStep'
  <2>1. InStep /\ Lists
    BY <1>1, <1>8 DEF TaskInv, Sound, Crossings
  <2> QED
    BY <1>1, <1>3, <2>1 DEF TaskInv, TaskTypes, InStep
<1> QED
  BY <1>1, <1>4, <1>5, <1>6, <1>7, <1>8 DEF TaskInv

(* A handler that lets go of its mutex and is idle again. *)
LEMMA UnlockKeeps ==
    ASSUME TaskInv, NEW h \in Handlers, tpc[h] \in {"read", "write"},
           tpc' = [tpc EXCEPT ![h] = "idle"], Unlock(h), Done(h),
           changes' = changes, crossed' \in BOOLEAN, emptied' \in BOOLEAN,
           forged' = forged, overlaid' \in BOOLEAN, detached' \subseteq Handlers
    PROVE  TaskTypes' /\ LockHeld' /\ Writing' /\ (Reading => Reading')
<1>1. TaskTypes'
  BY DEF TaskInv, TaskTypes, Unlock, Done
<1>2. LockHeld'
  BY DEF TaskInv, TaskTypes, LockHeld, Unlock, Nobody, Processes
<1>3. Reading => Reading'
  BY DEF TaskInv, TaskTypes, Reading, Done
<1>4. Writing'
  BY DEF TaskInv, TaskTypes, Writing, Done
<1> QED
  BY <1>1, <1>2, <1>3, <1>4

(* Without a crossing, nobody else is in the middle of a change. *)
LEMMA Uncrossed ==
    ASSUME TaskInv, NEW h \in Handlers, tpc[h] \in {"read", "write"}, ~OtherInside(h)
    PROVE  \A g \in Handlers : g # h =>
               /\ tpc[g] # "write"
               /\ tpc[g] = "read" => request[g].kind = "clear"
  BY OneInside DEF TaskInv, Writing, OtherInside

(* Whoever is about to write while another answers is of the other process. *)
LEMMA WriterCrosses ==
    ASSUME TaskInv, NEW h \in Handlers, tpc[h] \in {"read", "write"},
           crossed' = (crossed \/ OtherInside(h)),
           NEW g \in Handlers, g # h, tpc[g] = "write"
    PROVE  crossed'
  BY OneInside DEF TaskInv, Writing, OtherInside

LEMMA NotFoundKeepsInv ==
    ASSUME TaskInv, NEW h \in Handlers, AnswerNotFound(h) PROVE TaskInv'
<1>1. /\ tpc[h] = "read" /\ tpc' = [tpc EXCEPT ![h] = "idle"]
      /\ NotFound(h) /\ board' = Outcome(board, request[h])
      /\ crossed' = (crossed \/ OtherInside(h))
      /\ Unlock(h) /\ Done(h)
      /\ UNCHANGED <<tasksFile, changes, detached, emptied, forged, overlaid>>
  BY DEF AnswerNotFound, TaskGoto
<1>2. TaskTypes' /\ LockHeld' /\ Writing' /\ (Reading => Reading')
  <2>1. crossed' \in BOOLEAN /\ emptied' \in BOOLEAN
    BY <1>1 DEF TaskInv, TaskTypes, OtherInside
  <2>2. overlaid' \in BOOLEAN /\ detached' \subseteq Handlers
    BY <1>1 DEF TaskInv, TaskTypes
  <2> QED
    BY <1>1, <2>1, <2>2, UnlockKeeps
<1>3. request[h] \in Requests
  BY <1>1 DEF TaskInv, TaskTypes
<1>4. IsList(board')
  BY <1>1, <1>3, OutcomeKeeps DEF TaskInv
<1>5. ASSUME Sound' PROVE Lists' /\ Reading'
  <2>1. Lists /\ Reading
    BY <1>1, <1>5 DEF TaskInv, Sound
  <2> QED
    BY <1>1, <1>2, <2>1, EmptyIsList DEF TaskInv, TaskTypes, Lists, Done
<1>6. Crossings'
  BY <1>1 DEF TaskInv, TaskTypes, Crossings
<1>7. ASSUME ~crossed', ~emptied', ~forged' PROVE InStep'
  <2>1. InStep /\ ~OtherInside(h)
    BY <1>1, <1>7 DEF TaskInv
  <2>2. \A g \in Handlers : g # h => /\ tpc[g] # "write"
                                     /\ tpc[g] = "read" => request[g].kind = "clear"
    BY <1>1, <2>1, Uncrossed
  <2>3. tasksFile = board /\ result[h] = board
    BY <1>1, <2>1, <2>2 DEF InStep, NotFound
  <2>4. board' = board
    BY <1>1, <1>3, <2>3, OutcomeAbsent DEF NotFound, TaskInv
  <2>5. \A g \in Handlers : tpc'[g] # "write"
    BY <1>1, <2>2 DEF TaskInv, TaskTypes
  <2>6. \A g \in Handlers : tpc'[g] = "read" => request'[g].kind = "clear"
    BY <1>1, <2>2 DEF TaskInv, TaskTypes, Done
  <2> QED
    BY <1>1, <2>1, <2>3, <2>4, <2>5, <2>6 DEF InStep
<1> QED
  BY <1>2, <1>4, <1>5, <1>6, <1>7 DEF TaskInv

LEMMA ClearKeepsInv ==
    ASSUME TaskInv, NEW h \in Handlers, TasksClear(h) PROVE TaskInv'
<1>1. /\ tpc[h] = "read" /\ tpc' = [tpc EXCEPT ![h] = "idle"]
      /\ request[h].kind = "clear" /\ tasksFile' = <<>>
      /\ detached' = detached \cup {g \in Handlers : tpc[g] = "write"}
      /\ board' = Outcome(board, request[h])
      /\ crossed' = (crossed \/ OtherInside(h))
      /\ Unlock(h) /\ Done(h)
      /\ UNCHANGED <<changes, emptied, forged, overlaid>>
  BY DEF TasksClear, TaskGoto
<1>2. TaskTypes' /\ LockHeld' /\ Writing' /\ (Reading => Reading')
  <2>1. crossed' \in BOOLEAN /\ emptied' \in BOOLEAN
    BY <1>1 DEF TaskInv, TaskTypes, OtherInside
  <2>2. overlaid' \in BOOLEAN /\ detached' \subseteq Handlers
    BY <1>1 DEF TaskInv, TaskTypes
  <2> QED
    BY <1>1, <2>1, <2>2, UnlockKeeps
<1>3. board' = <<>> /\ IsList(board')
  BY <1>1, EmptyIsList DEF Outcome
<1>4. ASSUME Sound' PROVE Lists' /\ Reading'
  <2>1. Lists /\ Reading
    BY <1>1, <1>4 DEF TaskInv, Sound
  <2> QED
    BY <1>1, <1>2, <2>1, EmptyIsList DEF TaskInv, TaskTypes, Lists, Done
<1>5. Crossings'
  <2>1. ASSUME NEW g \in detached' PROVE tpc'[g] = "write" /\ crossed'
    <3>1. g \in Handlers /\ tpc[g] = "write" /\ g # h
      BY <1>1, <2>1 DEF TaskInv, TaskTypes, Crossings
    <3>2. crossed'
      BY <1>1, <3>1, WriterCrosses
    <3> QED
      BY <1>1, <3>1, <3>2 DEF TaskInv, TaskTypes
  <2> QED
    BY <1>1, <2>1 DEF TaskInv, Crossings
<1>6. ASSUME ~crossed', ~emptied', ~forged' PROVE InStep'
  <2>1. InStep /\ ~OtherInside(h)
    BY <1>1, <1>6 DEF TaskInv
  <2>2. \A g \in Handlers : g # h => /\ tpc[g] # "write"
                                     /\ tpc[g] = "read" => request[g].kind = "clear"
    BY <1>1, <2>1, Uncrossed
  <2>3. \A g \in Handlers : tpc'[g] # "write"
    BY <1>1, <2>2 DEF TaskInv, TaskTypes
  <2>4. \A g \in Handlers : tpc'[g] = "read" => request'[g].kind = "clear"
    BY <1>1, <2>2 DEF TaskInv, TaskTypes, Done
  <2> QED
    BY <1>1, <1>3, <2>3, <2>4, EmptyIsList DEF InStep
<1> QED
  BY <1>2, <1>3, <1>4, <1>5, <1>6 DEF TaskInv

LEMMA TruncateKeepsInv ==
    ASSUME TaskInv, NEW h \in Handlers, Truncate(h) PROVE TaskInv'
<1>1. /\ tpc[h] = "read" /\ tpc' = [tpc EXCEPT ![h] = "write"]
      /\ request[h].kind # "clear" /\ tasksFile' = <<>>
      /\ result' = [result EXCEPT ![h] = Written(result[h], request[h])]
      /\ crossed' = (crossed \/ OtherInside(h))
      /\ forged' = (forged \/ Breaks(request[h]))
      /\ UNCHANGED <<tasksMu, request, changes, board, detached, emptied, overlaid>>
  BY DEF Truncate, TaskGoto
<1>2. request[h] \in Requests
  BY <1>1 DEF TaskInv, TaskTypes
<1> DEFINE next == Outcome(result[h], request[h])
<1>3. ~forged' => Written(result[h], request[h]) = next
  BY <1>1 DEF Written
<1>4. TaskTypes'
  <2> HIDE DEF next
  <2>1. crossed' \in BOOLEAN /\ forged' \in BOOLEAN
    BY <1>1 DEF TaskInv, TaskTypes, OtherInside, Breaks
  <2>2. DOMAIN result' = Handlers
    BY <1>1 DEF TaskInv, TaskTypes
  <2> QED
    BY <1>1, <2>1, <2>2 DEF TaskInv, TaskTypes
<1>5. LockHeld' /\ Writing' /\ IsList(board')
  BY <1>1 DEF TaskInv, TaskTypes, LockHeld, Writing
<1>6. ASSUME Sound' PROVE Lists' /\ Reading'
  <2>1. Lists /\ Reading /\ ~forged'
    BY <1>1, <1>6 DEF TaskInv, Sound
  <2>2. IsList(next) /\ Firm(next)
    BY <1>1, <1>2, <2>1, OutcomeKeeps DEF Lists, Reading
  <2>3. result' = [result EXCEPT ![h] = next]
    BY <1>1, <1>3, <2>1
  <2> HIDE DEF next
  <2>4. Lists'
    BY <1>1, <2>1, <2>2, <2>3, EmptyIsList DEF TaskInv, TaskTypes, Lists
  <2>5. Reading'
    BY <1>1, <2>1 DEF TaskInv, TaskTypes, Reading
  <2> QED
    BY <2>4, <2>5
<1>7. Crossings'
  BY <1>1 DEF TaskInv, TaskTypes, Crossings
<1>8. ASSUME ~crossed', ~emptied', ~forged' PROVE InStep'
  <2>1. InStep /\ ~OtherInside(h)
    BY <1>1, <1>8 DEF TaskInv
  <2>2. \A g \in Handlers : g # h => tpc[g] # "write"
    BY <1>1, <2>1, Uncrossed
  <2>3. result[h] = board
    BY <1>1, <2>1, <2>2 DEF InStep
  <2>4. result'[h] = Outcome(board, request[h])
    BY <1>1, <1>3, <1>8, <2>3 DEF TaskInv, TaskTypes
  <2>5. \A g \in Handlers : tpc'[g] = "write" <=> g = h
    BY <1>1, <2>2 DEF TaskInv, TaskTypes
  <2> QED
    BY <1>1, <2>1, <2>4, <2>5 DEF InStep
<1> QED
  BY <1>4, <1>5, <1>6, <1>7, <1>8 DEF TaskInv

(* On an empty file, what is written is the whole file. *)
LEMMA NothingLeft ==
    ASSUME NEW ts, IsList(ts), NEW left \in LeftOf(<<>>, ts) PROVE ts \o left = ts
<1>1. left = <<>>
  BY DEF LeftOf
<1> QED
  BY <1>1, ConcatEmptySeq DEF IsList

LEMMA WriteKeepsInv ==
    ASSUME TaskInv, NEW h \in Handlers, WriteTasks(h) PROVE TaskInv'
<1>1. /\ tpc[h] = "write" /\ tpc' = [tpc EXCEPT ![h] = "idle"]
      /\ \/ /\ h \notin detached /\ overlaid' = (overlaid \/ tasksFile # <<>>)
            /\ \E left \in LeftOf(tasksFile, result[h]) : tasksFile' = result[h] \o left
         \/ h \in detached /\ UNCHANGED <<tasksFile, overlaid>>
      /\ detached' = detached \ {h}
      /\ board' = Outcome(board, request[h])
      /\ crossed' = (crossed \/ OtherInside(h))
      /\ emptied' = (emptied \/ Parse(result[h]) # result[h])
      /\ Unlock(h) /\ Done(h) /\ changes' = changes /\ forged' = forged
  BY DEF WriteTasks, TaskGoto
<1>2. TaskTypes' /\ LockHeld' /\ Writing' /\ (Reading => Reading')
  <2>1. crossed' \in BOOLEAN
    BY <1>1 DEF TaskInv, TaskTypes, OtherInside
  <2>2. emptied' \in BOOLEAN
    BY <1>1 DEF TaskInv, TaskTypes
  <2>3. overlaid' \in BOOLEAN /\ detached' \subseteq Handlers
    BY <1>1 DEF TaskInv, TaskTypes
  <2> QED
    BY <1>1, <2>1, <2>2, <2>3, UnlockKeeps
<1>3. request[h] \in Requests
  BY <1>1 DEF TaskInv, TaskTypes
<1>4. IsList(board')
  BY <1>1, <1>3, OutcomeKeeps DEF TaskInv
<1>5. ASSUME Sound' PROVE Lists /\ Reading /\ tasksFile' \in {tasksFile, result[h]}
  <2>1. Lists /\ Reading
    <3>1. overlaid => overlaid'
      BY <1>1
    <3> QED
      BY <1>1, <1>5, <3>1 DEF TaskInv, Sound
  <2>2. CASE h \in detached
    BY <1>1, <2>1, <2>2
  <2>3. CASE h \notin detached
    <3>1. tasksFile = <<>>
      BY <1>1, <1>5, <2>3 DEF Sound
    <3>2. PICK left \in LeftOf(<<>>, result[h]) : tasksFile' = result[h] \o left
      BY <1>1, <2>3, <3>1
    <3> QED
      BY <2>1, <3>2, NothingLeft DEF Lists
  <2> QED
    BY <2>2, <2>3
<1>6. ASSUME Sound' PROVE Lists' /\ Reading'
  BY <1>1, <1>2, <1>5, <1>6, EmptyIsList DEF TaskInv, TaskTypes, Lists, Done
<1>7. Crossings'
  <2>1. overlaid' => crossed'
    BY <1>1 DEF TaskInv, Crossings
  <2>2. \A g \in detached' : tpc'[g] = "write" /\ crossed'
    BY <1>1 DEF TaskInv, TaskTypes, Crossings
  <2>3. ASSUME NEW g \in Handlers, tpc'[g] = "write" PROVE crossed'
    <3>1. g # h /\ tpc[g] = "write"
      BY <1>1, <2>3 DEF TaskInv, TaskTypes
    <3> QED
      BY <1>1, <3>1, WriterCrosses
  <2> QED
    BY <2>1, <2>2, <2>3 DEF Crossings
<1>8. ASSUME ~crossed', ~emptied', ~forged' PROVE InStep'
  <2>1. InStep /\ ~OtherInside(h) /\ Lists
    BY <1>1, <1>8 DEF TaskInv, Sound, Crossings
  <2>2. \A g \in Handlers : g # h => /\ tpc[g] # "write"
                                     /\ tpc[g] = "read" => request[g].kind = "clear"
    BY <1>1, <2>1, Uncrossed
  <2>3. board' = result[h] /\ NoneEmpty(result[h])
    BY <1>1, <1>8, <2>1, ParseProperties DEF InStep, Lists
  <2>4. tasksFile' = result[h]
    <3>1. h \notin detached /\ tasksFile = <<>>
      BY <1>1, <1>8 DEF TaskInv, Crossings
    <3>2. PICK left \in LeftOf(<<>>, result[h]) : tasksFile' = result[h] \o left
      BY <1>1, <3>1
    <3> QED
      BY <2>1, <3>2, NothingLeft DEF Lists
  <2>5. \A g \in Handlers : tpc'[g] # "write"
    BY <1>1, <2>2 DEF TaskInv, TaskTypes
  <2>6. \A g \in Handlers : tpc'[g] = "read" => request'[g].kind = "clear"
    BY <1>1, <2>2 DEF TaskInv, TaskTypes, Done
  <2> QED
    BY <2>3, <2>4, <2>5, <2>6 DEF InStep
<1> QED
  BY <1>2, <1>4, <1>6, <1>7, <1>8 DEF TaskInv

THEOREM TaskInvariant == TaskSpec => []TaskInv
<1>1. TaskInv /\ [TaskNext]_taskVars => TaskInv'
  <2> SUFFICES ASSUME TaskInv, TaskNext PROVE TaskInv'
    BY TaskStutters
  <2> QED
    BY ArrivesKeepsInv, ReadKeepsInv, NotFoundKeepsInv, ClearKeepsInv, TruncateKeepsInv,
       WriteKeepsInv DEF TaskNext
<1> QED
  BY <1>1, TaskInitial, PTL DEF TaskSpec

-----------------------------------------------------------------------------
(* Handlers hold the TasksMu of their process while, and only while, they work on
   the list (Lock and deferred Unlock in tasks.go and server_sse.go); and a list is
   written over another one, or to a removed file, only by two processes at once. *)
THEOREM TaskTypeCorrect == TaskSpec => []TaskTypeOK
<1>1. ASSUME TaskInv PROVE TaskTypeOK
  <2>1. ~overlaid /\ ~forged => \A i \in DOMAIN tasksFile : tasksFile[i].status \in Statuses
    BY <1>1, ListTypes DEF TaskInv, Lists, IsList, Sound
  <2>2. \A p \in Processes : tasksMu[p] \in {Nobody} \cup Handlers
    BY <1>1 DEF TaskInv, TaskTypes
  <2>3. \A h \in Handlers : tpc[h] \in {"idle", "begin", "read", "write"}
    BY <1>1 DEF TaskInv, TaskTypes
  <2>4. overlaid \/ detached # {} => crossed
    BY <1>1 DEF TaskInv, Crossings
  <2>5. {crossed, emptied, forged, overlaid} \subseteq BOOLEAN
    BY <1>1 DEF TaskInv, TaskTypes
  <2> QED
    BY <1>1, <2>1, <2>2, <2>3, <2>4, <2>5 DEF TaskTypeOK, TaskInv, TaskTypes, LockHeld
<1> QED
  BY <1>1, TaskInvariant, PTL

(* The file holds unique ids in order, each with its parent, at every moment and
   however many handlers of the two processes undo each other's changes, unless a
   list was written over another one or a description had line breaks: what any
   handler writes it has made of a well-formed list (SortTasks, NextChildID, and
   the deletion of children in handleTasksDelete). *)
THEOREM ListStaysWellFormed == TaskSpec => []ListWellFormed
<1>1. ASSUME TaskInv PROVE ListWellFormed
  <2> SUFFICES ASSUME Sound
               PROVE  /\ \A i, j \in DOMAIN tasksFile :
                            i < j => Before(tasksFile[i].id, tasksFile[j].id)
                      /\ \A id \in Ids(tasksFile) :
                            Len(id) > 1 => Front(id) \in Ids(tasksFile)
    BY DEF ListWellFormed, Sound
  <2>1. /\ DOMAIN tasksFile = 1 .. Len(tasksFile)
        /\ Ordered(tasksFile) /\ Parented(tasksFile)
    BY <1>1, ListTypes DEF TaskInv, Lists, IsList
  <2> QED
    BY <2>1 DEF Ordered, Parented, Ids
<1> QED
  BY <1>1, TaskInvariant, PTL

(* Within a process no change is lost: unless a request of the other process falls
   between the reading and the writing, or a task without a description or one
   with line breaks was written, the file is what the requests come to (TasksMu,
   tasks.go:17). *)
THEOREM NoChangeIsLost == TaskSpec => []ChangesKept
<1>1. ASSUME TaskInv PROVE ChangesKept
  BY <1>1 DEF TaskInv, InStep, ChangesKept
<1> QED
  BY <1>1, TaskInvariant, PTL
=============================================================================
