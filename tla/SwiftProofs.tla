---------------------------- MODULE SwiftProofs ----------------------------
(***************************************************************************)
(* Proofs about the asynchronous engine, for every number of requests, of  *)
(* blocks and of request ids, and every limit of a batch.                  *)
(***************************************************************************)
EXTENDS Swift, TLAPS, FiniteSetTheorems, SequenceTheorems, NaturalsInduction, WellFoundedInduction

-----------------------------------------------------------------------------
(* The sums and the list comprehensions of the engine are recursive         *)
(* functions, which exist because a least place where they did not would    *)
(* have a predecessor.                                                      *)
LEMMA LeastOf ==
  ASSUME NEW S \in SUBSET Nat, S # {}
  PROVE  \E k \in S : \A j \in S : k <= j
<1>1. PICK k \in S : \A j \in S : ~(<<j, k>> \in OpToRel(<, Nat))
  BY WFMin, NatLessThanWellFounded
<1>2. ASSUME NEW j \in S, j < k PROVE FALSE
  <2>1. <<j, k>> \in {ss \in Nat \X Nat : ss[1] < ss[2]}
    BY <1>2
  <2> QED BY <1>1, <2>1 DEF OpToRel
<1> QED BY <1>2

LEMMA SumsLoop ==
  ASSUME NEW S, NEW q \in Seq(S), NEW f
  PROVE  /\ Sums(f, q)[0] = 0
         /\ \A k \in 1 .. Len(q) : Sums(f, q)[k] = Sums(f, q)[k - 1] + f[q[k]]
<1> PICK m \in Nat : m = Len(q)
  OBVIOUS
<1> DEFINE base == 0
           Step(p, k) == p + f[q[k]]
           Good(n, ff) == ff = [k \in 0 .. n |-> IF k = 0 THEN base ELSE Step(ff[k - 1], k)]
           T == {n \in Nat : \A ff : ~Good(n, ff)}
<1>0. Sums(f, q) = CHOOSE p : Good(m, p)
  BY DEF Sums
<1> HIDE DEF base, Step
<1>1. ASSUME T # {} PROVE FALSE
  <2> PICK n \in T : \A j \in T : n <= j
    <3>1. T \subseteq Nat
      OBVIOUS
    <3> HIDE DEF T
    <3> QED BY <1>1, <3>1, LeastOf
  <2>0. n \in Nat /\ \A ff : ~Good(n, ff)
    OBVIOUS
  <2>1. CASE n = 0
    <3> DEFINE ff == [k \in 0 .. 0 |-> base]
    <3>1. Good(0, ff)
      OBVIOUS
    <3> HIDE DEF ff
    <3> QED BY <2>1, <3>1
  <2>2. CASE n # 0
    <3>1. n - 1 \in Nat /\ ~(n <= n - 1)
      BY <2>0, <2>2
    <3>a. n - 1 \notin T
      <4> HIDE DEF T
      <4> QED BY <3>1
    <3>2. PICK g : Good(n - 1, g)
      <4> HIDE DEF Good
      <4> QED BY <3>1, <3>a
    <3> DEFINE ff == [k \in 0 .. n |-> IF k = n THEN Step(g[n - 1], n) ELSE g[k]]
    <3>3. \A k \in 0 .. n - 1 : g[k] = IF k = 0 THEN base ELSE Step(g[k - 1], k)
      BY <3>2
    <3>4. ASSUME NEW k \in 0 .. n PROVE ff[k] = IF k = 0 THEN base ELSE Step(ff[k - 1], k)
      <4>1. CASE k = n
        <5>1. ff[k - 1] = g[n - 1] /\ k # 0
          BY <2>2, <4>1
        <5> QED BY <4>1, <5>1
      <4>2. CASE k # n /\ k # 0
        <5>1. k \in 0 .. n - 1 /\ ff[k] = g[k] /\ ff[k - 1] = g[k - 1]
          BY <4>2
        <5> QED BY <3>3, <4>2, <5>1
      <4>3. CASE k = 0
        BY <2>2, <3>3, <4>3
      <4> QED BY <4>1, <4>2, <4>3
    <3>5. Good(n, ff)
      BY <3>4
    <3> HIDE DEF ff
    <3> QED BY <3>5
  <2> QED BY <2>1, <2>2
<1>2. Good(m, Sums(f, q))
  <2> HIDE DEF Good
  <2>1. \E ff : Good(m, ff)
    BY <1>1
  <2> QED BY <1>0, <2>1
<1>3. \A k \in 0 .. m : Sums(f, q)[k] = IF k = 0 THEN base ELSE Step(Sums(f, q)[k - 1], k)
  BY <1>2
<1> QED BY <1>3 DEF base, Step

LEMMA KeptLoop ==
  ASSUME NEW S, NEW q \in Seq(S), NEW A
  PROVE  \E t : /\ t[0] = << >> /\ t[Len(q)] = Kept(q, A)
               /\ \A k \in 1 .. Len(q) : t[k] = IF q[k] \in A THEN Append(t[k - 1], q[k]) ELSE t[k - 1]
<1> PICK m \in Nat : m = Len(q)
  OBVIOUS
<1> DEFINE base == << >>
           Step(p, k) == IF q[k] \in A THEN Append(p, q[k]) ELSE p
           Good(n, f) == f = [k \in 0 .. n |-> IF k = 0 THEN base ELSE Step(f[k - 1], k)]
           T == {n \in Nat : \A f : ~Good(n, f)}
<1> DEFINE t == CHOOSE p : Good(m, p)
<1>0. Kept(q, A) = t[m]
  BY DEF Kept
<1> HIDE DEF base, Step
<1>1. ASSUME T # {} PROVE FALSE
  <2> PICK n \in T : \A j \in T : n <= j
    <3>1. T \subseteq Nat
      OBVIOUS
    <3> HIDE DEF T
    <3> QED BY <1>1, <3>1, LeastOf
  <2>0. n \in Nat /\ \A f : ~Good(n, f)
    OBVIOUS
  <2>1. CASE n = 0
    <3> DEFINE f == [k \in 0 .. 0 |-> base]
    <3>1. Good(0, f)
      OBVIOUS
    <3> HIDE DEF f
    <3> QED BY <2>1, <3>1
  <2>2. CASE n # 0
    <3>1. n - 1 \in Nat /\ ~(n <= n - 1)
      BY <2>0, <2>2
    <3>a. n - 1 \notin T
      <4> HIDE DEF T
      <4> QED BY <3>1
    <3>2. PICK g : Good(n - 1, g)
      <4> HIDE DEF Good
      <4> QED BY <3>1, <3>a
    <3> DEFINE f == [k \in 0 .. n |-> IF k = n THEN Step(g[n - 1], n) ELSE g[k]]
    <3>3. \A k \in 0 .. n - 1 : g[k] = IF k = 0 THEN base ELSE Step(g[k - 1], k)
      BY <3>2
    <3>4. ASSUME NEW k \in 0 .. n PROVE f[k] = IF k = 0 THEN base ELSE Step(f[k - 1], k)
      <4>1. CASE k = n
        <5>1. f[k - 1] = g[n - 1] /\ k # 0
          BY <2>2, <4>1
        <5> QED BY <4>1, <5>1
      <4>2. CASE k # n /\ k # 0
        <5>1. k \in 0 .. n - 1 /\ f[k] = g[k] /\ f[k - 1] = g[k - 1]
          BY <4>2
        <5> QED BY <3>3, <4>2, <5>1
      <4>3. CASE k = 0
        BY <2>2, <3>3, <4>3
      <4> QED BY <4>1, <4>2, <4>3
    <3>5. Good(n, f)
      BY <3>4
    <3> HIDE DEF f
    <3> QED BY <3>5
  <2> QED BY <2>1, <2>2
<1>2. Good(m, t)
  <2> HIDE DEF Good
  <2>1. \E f : Good(m, f)
    BY <1>1
  <2> QED BY <2>1
<1> HIDE DEF t
<1>3. \A k \in 0 .. m : t[k] = IF k = 0 THEN base ELSE Step(t[k - 1], k)
  BY <1>2
<1> QED BY <1>0, <1>3 DEF base, Step

(* Induction up to m, on a set of indices. *)
LEMMA Upward ==
  ASSUME NEW m \in Nat, NEW G, 0 \in G, \A k \in 1 .. m : k - 1 \in G => k \in G
  PROVE  \A k \in 0 .. m : k \in G
<1> DEFINE T == {k \in 0 .. m : k \notin G}
<1>1. ASSUME T # {} PROVE FALSE
  <2>0. T \subseteq Nat
    OBVIOUS
  <2> PICK k \in T : \A j \in T : k <= j
    <3> HIDE DEF T
    <3> QED BY <1>1, <2>0, LeastOf
  <2>1. k \in 0 .. m /\ k \notin G
    OBVIOUS
  <2>2. k \in 1 .. m /\ k - 1 \in 0 .. m /\ ~(k <= k - 1)
    BY <2>1
  <2>3. k - 1 \notin T
    <3> HIDE DEF T
    <3> QED BY <2>2
  <2> QED BY <2>1, <2>2, <2>3
<1> QED BY <1>1

-----------------------------------------------------------------------------
(* Sums. *)
LEMMA SumsType ==
  ASSUME NEW S, NEW q \in Seq(S), NEW f, \A k \in 1 .. Len(q) : f[q[k]] \in Int
  PROVE  \A k \in 0 .. Len(q) : Sums(f, q)[k] \in Int
<1> PICK s : s = Sums(f, q)
  OBVIOUS
<1> PICK m \in Nat : m = Len(q)
  OBVIOUS
<1>1. s[0] = 0 /\ \A k \in 1 .. m : s[k] = s[k - 1] + f[q[k]]
  BY SumsLoop
<1> DEFINE G == {k \in 0 .. m : s[k] \in Int}
<1>2. 0 \in G
  BY <1>1
<1>3. \A k \in 1 .. m : k - 1 \in G => k \in G
  BY <1>1
<1> HIDE DEF G
<1>4. \A k \in 0 .. m : k \in G
  BY <1>2, <1>3, Upward
<1> QED BY <1>4 DEF G

LEMMA SumsMonotone ==
  ASSUME NEW S, NEW q \in Seq(S), NEW f, \A k \in 1 .. Len(q) : f[q[k]] \in Nat
  PROVE  /\ \A k \in 0 .. Len(q) : Sums(f, q)[k] \in Nat
         /\ \A j, k \in 0 .. Len(q) : j <= k => Sums(f, q)[j] <= Sums(f, q)[k]
<1> PICK s : s = Sums(f, q)
  OBVIOUS
<1> PICK m \in Nat : m = Len(q)
  OBVIOUS
<1>1. s[0] = 0 /\ \A k \in 1 .. m : s[k] = s[k - 1] + f[q[k]]
  BY SumsLoop
<1>a. \A k \in 0 .. m : s[k] \in Int
  <2>1. \A k \in 1 .. Len(q) : f[q[k]] \in Int
    OBVIOUS
  <2> QED BY ONLY q \in Seq(S), m = Len(q), s = Sums(f, q), <2>1, SumsType
<1> DEFINE G == {k \in 0 .. m : s[k] \in Nat /\ \A j \in 0 .. k : s[j] <= s[k]}
<1>2. 0 \in G
  BY <1>1
<1>3. ASSUME NEW k \in 1 .. m, k - 1 \in G PROVE k \in G
  <2>1. s[k - 1] \in Nat /\ (\A j \in 0 .. k - 1 : s[j] <= s[k - 1]) /\ s[k] = s[k - 1] + f[q[k]]
    BY <1>1, <1>3
  <2>2. f[q[k]] \in Nat
    OBVIOUS
  <2>3. ASSUME NEW j \in 0 .. k PROVE s[j] <= s[k]
    <3>1. CASE j = k
      BY <2>1, <2>2, <3>1
    <3>2. CASE j # k
      <4>1. j \in 0 .. k - 1 /\ j \in 0 .. m
        BY <3>2
      <4>2. s[j] <= s[k - 1] /\ s[j] \in Int
        BY <1>a, <2>1, <4>1
      <4> PICK x \in Int, y \in Nat, z \in Nat : x = s[j] /\ y = s[k - 1] /\ z = f[q[k]]
        BY <2>1, <2>2, <4>2
      <4>3. x <= y /\ s[k] = y + z
        BY <2>1, <4>2
      <4>4. x <= y + z
        BY ONLY <4>3, x \in Int, y \in Nat, z \in Nat
      <4> QED BY <4>3, <4>4
    <3> QED BY <3>1, <3>2
  <2> QED BY <2>1, <2>2, <2>3
<1> HIDE DEF G
<1>4. \A k \in 0 .. m : k \in G
  BY <1>2, <1>3, Upward
<1> QED BY <1>4 DEF G

LEMMA SumsSum ==
  ASSUME NEW S, NEW q \in Seq(S), NEW f, NEW g, NEW h,
         \A k \in 1 .. Len(q) : f[q[k]] \in Int /\ g[q[k]] \in Int /\ h[q[k]] = f[q[k]] + g[q[k]]
  PROVE  \A k \in 0 .. Len(q) : Sums(h, q)[k] = Sums(f, q)[k] + Sums(g, q)[k]
<1> PICK s, t, u : s = Sums(f, q) /\ t = Sums(g, q) /\ u = Sums(h, q)
  OBVIOUS
<1> PICK m \in Nat : m = Len(q)
  OBVIOUS
<1>1. /\ s[0] = 0 /\ \A k \in 1 .. m : s[k] = s[k - 1] + f[q[k]]
      /\ t[0] = 0 /\ \A k \in 1 .. m : t[k] = t[k - 1] + g[q[k]]
      /\ u[0] = 0 /\ \A k \in 1 .. m : u[k] = u[k - 1] + h[q[k]]
  BY SumsLoop
<1>2. \A k \in 0 .. m : s[k] \in Int /\ t[k] \in Int
  BY SumsType
<1> DEFINE G == {k \in 0 .. m : u[k] = s[k] + t[k]}
<1>3. 0 \in G
  BY <1>1
<1>4. ASSUME NEW k \in 1 .. m, k - 1 \in G PROVE k \in G
  <2>1. u[k - 1] = s[k - 1] + t[k - 1] /\ s[k - 1] \in Int /\ t[k - 1] \in Int
    BY <1>2, <1>4
  <2>2. f[q[k]] \in Int /\ g[q[k]] \in Int /\ h[q[k]] = f[q[k]] + g[q[k]]
    OBVIOUS
  <2>3. u[k] = s[k] + t[k]
    BY <1>1, <2>1, <2>2
  <2> QED BY <2>3
<1> HIDE DEF G
<1>5. \A k \in 0 .. m : k \in G
  BY <1>3, <1>4, Upward
<1> QED BY <1>5 DEF G

LEMMA SumsSame ==
  ASSUME NEW S, NEW q \in Seq(S), NEW f, NEW g, \A k \in 1 .. Len(q) : f[q[k]] = g[q[k]]
  PROVE  \A k \in 0 .. Len(q) : Sums(f, q)[k] = Sums(g, q)[k]
<1> PICK s, t : s = Sums(f, q) /\ t = Sums(g, q)
  OBVIOUS
<1> PICK m \in Nat : m = Len(q)
  OBVIOUS
<1>1. /\ s[0] = 0 /\ \A k \in 1 .. m : s[k] = s[k - 1] + f[q[k]]
      /\ t[0] = 0 /\ \A k \in 1 .. m : t[k] = t[k - 1] + g[q[k]]
  BY SumsLoop
<1> DEFINE G == {k \in 0 .. m : s[k] = t[k]}
<1>2. 0 \in G
  BY <1>1
<1>3. \A k \in 1 .. m : k - 1 \in G => k \in G
  BY <1>1
<1> HIDE DEF G
<1>4. \A k \in 0 .. m : k \in G
  BY <1>2, <1>3, Upward
<1> QED BY <1>4 DEF G

-----------------------------------------------------------------------------
(* Queues of requests. *)
Increasing(q) == \A j, k \in DOMAIN q : j < k => q[j] < q[k]
Members(q, x) == \E k \in DOMAIN q : q[k] = x
Distinct(q) == \A j, k \in DOMAIN q : q[j] = q[k] => j = k
Before(q, e) == \A x : Members(q, x) => x < e

LEMMA MembersSet ==
  ASSUME NEW q, NEW x
  PROVE  x \in ToSet(q) <=> Members(q, x)
BY DEF ToSet, Members

LEMMA AppendFacts ==
  ASSUME NEW S \in SUBSET Nat, NEW q \in Seq(S), NEW e \in S, NEW r, r = Append(q, e)
  PROVE  /\ r \in Seq(S) /\ \A x : Members(r, x) <=> Members(q, x) \/ x = e
         /\ Increasing(q) /\ Before(q, e) => Increasing(r)
<1> PICK n \in Nat : n = Len(q)
  OBVIOUS
<1>1. /\ DOMAIN q = 1 .. n /\ \A k \in 1 .. n : q[k] \in S
      /\ r \in Seq(S) /\ DOMAIN r = 1 .. n + 1 /\ r[n + 1] = e /\ \A k \in 1 .. n : r[k] = q[k]
  OBVIOUS
<1>2. ASSUME NEW x PROVE Members(r, x) <=> Members(q, x) \/ x = e
  <2>1. ASSUME NEW k \in 1 .. n + 1, r[k] = x, x # e PROVE Members(q, x)
    <3>1. k \in 1 .. n
      BY <1>1, <2>1
    <3> QED BY <1>1, <2>1, <3>1 DEF Members
  <2>2. ASSUME NEW k \in 1 .. n, q[k] = x PROVE Members(r, x)
    <3>1. k \in 1 .. n + 1
      OBVIOUS
    <3> QED BY <1>1, <2>2, <3>1 DEF Members
  <2>3. Members(r, e)
    <3>1. n + 1 \in 1 .. n + 1
      OBVIOUS
    <3> QED BY <1>1, <3>1 DEF Members
  <2> QED BY <1>1, <2>1, <2>2, <2>3 DEF Members
<1>3. ASSUME Increasing(q), Before(q, e),
             NEW j \in 1 .. n + 1, NEW k \in 1 .. n + 1, j < k
      PROVE  r[j] < r[k]
  <2>1. j \in 1 .. n
    BY <1>3
  <2>2. CASE k = n + 1
    <3>1. Members(q, q[j]) /\ q[j] \in S
      BY <1>1, <2>1 DEF Members
    <3> QED BY <1>1, <1>3, <2>1, <2>2, <3>1 DEF Before
  <2>3. CASE k # n + 1
    <3>1. k \in 1 .. n
      BY <2>3
    <3> QED BY <1>1, <1>3, <2>1, <3>1 DEF Increasing
  <2> QED BY <2>2, <2>3
<1>4. Increasing(q) /\ Before(q, e) => Increasing(r)
  BY <1>1, <1>3 DEF Increasing
<1> QED BY <1>1, <1>2, <1>4

LEMMA KeptFacts ==
  ASSUME NEW S \in SUBSET Nat, NEW q \in Seq(S), Increasing(q), NEW A
  PROVE  /\ Kept(q, A) \in Seq(S) /\ Increasing(Kept(q, A))
         /\ \A x : Members(Kept(q, A), x) <=> Members(q, x) /\ x \in A
<1> PICK m \in Nat : m = Len(q)
  OBVIOUS
<1> PICK t : /\ t[0] = << >> /\ t[m] = Kept(q, A)
             /\ \A k \in 1 .. m : t[k] = IF q[k] \in A THEN Append(t[k - 1], q[k]) ELSE t[k - 1]
  BY KeptLoop
<1> DEFINE OK(k, p) == /\ p \in Seq(S) /\ Increasing(p)
                       /\ \A x : Members(p, x) <=> x \in A /\ \E j \in 1 .. k : q[j] = x
           G == {k \in 0 .. m : OK(k, t[k])}
<1>1. OK(0, << >>)
  BY DEF Increasing, Members
<1>2. ASSUME NEW k \in 1 .. m, k - 1 \in G PROVE OK(k, t[k])
  <2> PICK p, r, e : p = t[k - 1] /\ r = t[k] /\ e = q[k]
    OBVIOUS
  <2>1. OK(k - 1, p) /\ e \in S /\ r = IF e \in A THEN Append(p, e) ELSE p
    BY <1>2
  <2>2. \A x : (\E j \in 1 .. k : q[j] = x) <=> x = e \/ \E j \in 1 .. k - 1 : q[j] = x
    <3>1. ASSUME NEW x, NEW j \in 1 .. k, q[j] = x PROVE x = e \/ \E i \in 1 .. k - 1 : q[i] = x
      <4>1. j = k \/ j \in 1 .. k - 1
        OBVIOUS
      <4> QED BY <3>1, <4>1
    <3>2. ASSUME NEW x, NEW j \in 1 .. k - 1, q[j] = x PROVE \E i \in 1 .. k : q[i] = x
      <4>1. j \in 1 .. k
        OBVIOUS
      <4> QED BY <3>2, <4>1
    <3>3. k \in 1 .. k
      OBVIOUS
    <3> QED BY <3>1, <3>2, <3>3
  <2>3. CASE e \notin A
    <3>1. r = p
      BY <2>1, <2>3
    <3>2. ASSUME NEW x PROVE Members(p, x) <=> x \in A /\ \E j \in 1 .. k : q[j] = x
      <4>1. Members(p, x) <=> x \in A /\ \E j \in 1 .. k - 1 : q[j] = x
        BY <2>1
      <4>2. (\E j \in 1 .. k : q[j] = x) <=> x = e \/ \E j \in 1 .. k - 1 : q[j] = x
        BY <2>2
      <4> QED BY ONLY <2>3, <4>1, <4>2
    <3> QED BY <2>1, <3>1, <3>2
  <2>4. CASE e \in A
    <3>1. Before(p, e)
      <4> SUFFICES ASSUME NEW x, Members(p, x) PROVE x < e
        BY DEF Before
      <4>1. PICK j \in 1 .. k - 1 : q[j] = x
        BY <2>1
      <4>2. j \in DOMAIN q /\ k \in DOMAIN q /\ j < k
        OBVIOUS
      <4> QED BY <4>1, <4>2 DEF Increasing
    <3>2. r = Append(p, e)
      BY <2>1, <2>4
    <3>3. r \in Seq(S) /\ Increasing(r) /\ \A x : Members(r, x) <=> Members(p, x) \/ x = e
      <4>1. S \in SUBSET Nat /\ p \in Seq(S) /\ e \in S /\ Increasing(p)
        BY <2>1
      <4> QED BY ONLY <3>1, <3>2, <4>1, AppendFacts
    <3>4. ASSUME NEW x PROVE Members(r, x) <=> x \in A /\ \E j \in 1 .. k : q[j] = x
      <4>1. Members(p, x) <=> x \in A /\ \E j \in 1 .. k - 1 : q[j] = x
        BY <2>1
      <4>2. Members(r, x) <=> Members(p, x) \/ x = e
        BY <3>3
      <4>3. (\E j \in 1 .. k : q[j] = x) <=> x = e \/ \E j \in 1 .. k - 1 : q[j] = x
        BY <2>2
      <4> QED BY ONLY <2>4, <4>1, <4>2, <4>3
    <3> QED BY <3>3, <3>4 DEF OK
  <2> QED BY <2>3, <2>4
<1> HIDE DEF OK
<1>3. 0 \in G /\ \A k \in 1 .. m : k - 1 \in G => k \in G
  BY <1>1, <1>2
<1>4. m \in G
  <2> HIDE DEF G
  <2>1. \A k \in 0 .. m : k \in G
    BY <1>3, Upward
  <2> QED BY <2>1
<1>5. OK(m, Kept(q, A))
  BY <1>4
<1>6. \A x : Members(q, x) <=> \E j \in 1 .. m : q[j] = x
  BY DEF Members
<1> QED BY <1>5, <1>6 DEF OK

Across(a, b) == \A x, y : Members(a, x) /\ Members(b, y) => x < y

LEMMA ConcatFacts ==
  ASSUME NEW S, NEW a \in Seq(S), NEW b \in Seq(S), NEW c, c = a \o b
  PROVE  /\ c \in Seq(S) /\ \A x : Members(c, x) <=> Members(a, x) \/ Members(b, x)
         /\ Increasing(c) <=> Increasing(a) /\ Increasing(b) /\ Across(a, b)
<1> PICK m \in Nat, n \in Nat : m = Len(a) /\ n = Len(b)
  OBVIOUS
<1>1. /\ DOMAIN a = 1 .. m /\ DOMAIN b = 1 .. n /\ c \in Seq(S) /\ DOMAIN c = 1 .. m + n
      /\ \A k \in 1 .. m : c[k] = a[k]
      /\ \A k \in 1 .. n : c[m + k] = b[k]
  OBVIOUS
<1>2. \A k \in 1 .. m + n : k \in 1 .. m \/ \E i \in 1 .. n : k = m + i
  <2> SUFFICES ASSUME NEW k \in 1 .. m + n, k \notin 1 .. m PROVE \E i \in 1 .. n : k = m + i
    OBVIOUS
  <2>1. k - m \in 1 .. n /\ k = m + (k - m)
    OBVIOUS
  <2> QED BY <2>1
<1>3. (\A k \in 1 .. m : k \in 1 .. m + n) /\ \A k \in 1 .. n : m + k \in 1 .. m + n
  OBVIOUS
<1>4. ASSUME NEW x PROVE Members(c, x) <=> Members(a, x) \/ Members(b, x)
  <2>1. ASSUME NEW k \in 1 .. m + n, c[k] = x PROVE Members(a, x) \/ Members(b, x)
    <3>1. CASE k \in 1 .. m
      BY <1>1, <2>1, <3>1 DEF Members
    <3>2. CASE \E i \in 1 .. n : k = m + i
      <4> PICK i \in 1 .. n : k = m + i
        BY <3>2
      <4> QED BY <1>1, <2>1 DEF Members
    <3> QED BY <1>2, <3>1, <3>2
  <2>2. ASSUME NEW k \in 1 .. m, a[k] = x PROVE Members(c, x)
    BY <1>1, <1>3, <2>2 DEF Members
  <2>3. ASSUME NEW k \in 1 .. n, b[k] = x PROVE Members(c, x)
    BY <1>1, <1>3, <2>3 DEF Members
  <2> QED BY <1>1, <2>1, <2>2, <2>3 DEF Members
<1>5. ASSUME Increasing(c) PROVE Increasing(a) /\ Increasing(b) /\ Across(a, b)
  <2>1. ASSUME NEW j \in 1 .. m, NEW k \in 1 .. m, j < k PROVE a[j] < a[k]
    <3>1. j \in 1 .. m + n /\ k \in 1 .. m + n
      OBVIOUS
    <3> QED BY <1>1, <1>5, <2>1, <3>1 DEF Increasing
  <2>2. ASSUME NEW j \in 1 .. n, NEW k \in 1 .. n, j < k PROVE b[j] < b[k]
    <3>1. m + j \in 1 .. m + n /\ m + k \in 1 .. m + n /\ m + j < m + k
      BY <2>2
    <3>2. c[m + j] < c[m + k]
      BY <1>1, <1>5, <3>1 DEF Increasing
    <3> QED BY <1>1, <3>2
  <2>3. ASSUME NEW j \in 1 .. m, NEW k \in 1 .. n PROVE a[j] < b[k]
    <3>1. j \in 1 .. m + n /\ m + k \in 1 .. m + n /\ j < m + k
      OBVIOUS
    <3> QED BY <1>1, <1>5, <3>1 DEF Increasing
  <2> QED BY <1>1, <2>1, <2>2, <2>3 DEF Increasing, Across, Members
<1>6. ASSUME Increasing(a), Increasing(b), Across(a, b),
             NEW j \in 1 .. m + n, NEW k \in 1 .. m + n, j < k
      PROVE  c[j] < c[k]
  <2>1. CASE k \in 1 .. m
    <3>1. j \in 1 .. m
      BY <1>6, <2>1
    <3> QED BY <1>1, <1>6, <2>1, <3>1 DEF Increasing
  <2>2. CASE k \notin 1 .. m
    <3> PICK i \in 1 .. n : k = m + i
      BY <1>2, <2>2
    <3>1. c[k] = b[i]
      BY <1>1
    <3>2. CASE j \in 1 .. m
      <4>1. c[j] = a[j] /\ Members(a, a[j]) /\ Members(b, b[i])
        BY <1>1, <3>2 DEF Members
      <4> QED BY <1>6, <3>1, <4>1 DEF Across
    <3>3. CASE j \notin 1 .. m
      <4> PICK h \in 1 .. n : j = m + h
        BY <1>2, <3>3
      <4>1. h < i
        BY <1>6
      <4> QED BY <1>1, <1>6, <3>1, <4>1 DEF Increasing
    <3> QED BY <3>2, <3>3
  <2> QED BY <2>1, <2>2
<1>7. Increasing(a) /\ Increasing(b) /\ Across(a, b) => Increasing(c)
  BY <1>1, <1>6 DEF Increasing
<1> QED BY <1>1, <1>4, <1>5, <1>7

CutAt(q, a, b, n, S) == a \in Seq(S) /\ b \in Seq(S) /\ Len(a) = n /\ q = a \o b

LEMMA PrefixFacts ==
  ASSUME NEW S, NEW q \in Seq(S), NEW n \in 0 .. Len(q), NEW a, NEW b,
         a = SubSeq(q, 1, n), b = SubSeq(q, n + 1, Len(q))
  PROVE  CutAt(q, a, b, n, S) /\ \A k \in 1 .. n : a[k] = q[k]
<1> PICK m \in Nat : m = Len(q)
  OBVIOUS
<1>1. a \in Seq(S) /\ Len(a) = n /\ \A k \in 1 .. n : a[k] = q[k]
  BY SubSeqProperties
<1>2. b \in Seq(S)
  BY SubSeqProperties
<1>3. SubSeq(q, 1, n) \o SubSeq(q, n + 1, m) = SubSeq(q, 1, m)
  <2>1. 1 \in 1 .. Len(q) + 1 /\ n \in 1 - 1 .. Len(q) /\ m \in n .. Len(q)
    OBVIOUS
  <2> QED BY <2>1, ConcatAdjacentSubSeq
<1>4. SubSeq(q, 1, m) = q
  BY SubSeqFull
<1> QED BY <1>1, <1>2, <1>3, <1>4 DEF CutAt

-----------------------------------------------------------------------------
(* How many blocks a number of tokens takes. *)
LEMMA Sizes ==
  /\ BlockSize \in Nat /\ BlockSize >= 1 /\ NumBlocks \in Nat /\ NumBlocks >= 1
  /\ NumRequests \in Nat /\ MaxBatchSize \in Nat /\ MaxBatchSize >= 1 /\ MaxTokensInBatch \in Nat
  /\ MaxSeqsInBlockTable \in Nat /\ MaxSeqsInBlockTable >= 1
  /\ PromptLens \subseteq Nat \ {0} /\ OutputLens \subseteq Nat \ {0}
BY SwiftAssumption

LEMMA CeilDivFacts ==
  ASSUME NEW n \in Nat
  PROVE  /\ CeilDiv(n) \in Nat /\ n <= CeilDiv(n) * BlockSize
         /\ CeilDiv(n) * BlockSize < n + BlockSize
<1> PICK q : q = CeilDiv(n)
  OBVIOUS
<1>1. q = (n + BlockSize - 1) \div BlockSize
  BY DEF CeilDiv
<1>2. n + BlockSize - 1 \in Nat
  BY Sizes
<1>3. q \in Nat
  BY <1>1, <1>2, Sizes
<1>4. q * BlockSize <= n + BlockSize - 1 /\ n + BlockSize - 1 < q * BlockSize + BlockSize
  BY <1>1, <1>2, <1>3, Sizes
<1>5. q * BlockSize \in Int
  BY <1>3, Sizes
<1> QED BY <1>3, <1>4, <1>5, Sizes

LEMMA CeilDivMonotone ==
  ASSUME NEW m \in Nat, NEW n \in Nat, m <= n
  PROVE  CeilDiv(m) <= CeilDiv(n) /\ CeilDiv(m) \in Nat /\ CeilDiv(n) \in Nat
<1> PICK p \in Nat, q \in Nat : p = CeilDiv(m) /\ q = CeilDiv(n)
  BY CeilDivFacts
<1>1. m <= q * BlockSize /\ q * BlockSize \in Int /\ p * BlockSize \in Int /\ p * BlockSize < m + BlockSize
  <2>1. n <= q * BlockSize /\ p * BlockSize < m + BlockSize
    BY CeilDivFacts
  <2>2. q * BlockSize \in Int /\ p * BlockSize \in Int
    BY Sizes
  <2> QED BY <2>1, <2>2
<1>2. ASSUME q + 1 <= p PROVE FALSE
  <2>1. (q + 1) * BlockSize <= p * BlockSize
    BY <1>2, Sizes
  <2>2. (q + 1) * BlockSize = q * BlockSize + BlockSize
    BY Sizes
  <2> QED BY <1>1, <2>1, <2>2, Sizes
<1> QED BY <1>2

-----------------------------------------------------------------------------
(* The inductive invariant. *)
Live == mpc # "raised"
Line == running \o waiting \o tokenizing \o raw

(* The queues hold the unfinished requests in the order of the calls. *)
QueueInv ==
  /\ \A r \in Requests : r > submitted => outputs[r] = 0
  /\ Live => /\ Increasing(Line)
             /\ \A r : Members(Line, r) <=> r \in 1 .. submitted /\ ~is_finished(r)

(* A batch between its forward pass and its end is part of running_q. *)
BatchInv ==
  mpc \in {"forward", "post"} =>
    Increasing(batch) /\ \A r : Members(batch, r) => Members(running, r)

(* An id is available, or that of one running request. *)
IdInv ==
  Live =>
    /\ \A j, k \in DOMAIN ids : ids[j] = ids[k] => j = k
    /\ \A r : Members(running, r) => id[r] \in Ids /\ ~Members(ids, id[r])
    /\ \A r, s : Members(running, r) /\ Members(running, s) /\ id[r] = id[s] => r = s
    /\ \A i \in Ids : Members(ids, i) \/ \E r : Members(running, r) /\ id[r] = i

(* A block is free, or in one place of one row; the rows are those of the   *)
(* running requests, which need what they have.                             *)
RowsApart(tab) ==
  /\ \A i \in Ids : Distinct(tab[i])
  /\ \A i, j \in Ids : \A b : Members(tab[i], b) /\ Members(tab[j], b) => i = j
PlaceInv ==
  Live =>
    /\ RowsApart(table)
    /\ \A b \in Blocks : b \in free <=> ~\E i \in Ids : Members(table[i], b)
    /\ \A i \in Ids : table[i] # << >> => \E r : Members(running, r) /\ id[r] = i
    /\ num_free = Cardinality(free)

RowInv == Live => \A r : Members(running, r) => Len(table[id[r]]) <= block_needed[r]

(* The claim covers the blocks in use and those the batch is about to take. *)
Owed == IF mpc = "forward" THEN SumOver(Missing, batch) ELSE 0
ClaimInv == Live => claimed <= NumBlocks /\ NumBlocks - num_free + Owed <= claimed

SInv == SwiftTypeOK /\ QueueInv /\ BatchInv /\ IdInv /\ PlaceInv /\ RowInv /\ ClaimInv

-----------------------------------------------------------------------------
(* Finite sets of blocks. *)
LEMMA BlockSets ==
  /\ IsFiniteSet(Blocks) /\ Cardinality(Blocks) = NumBlocks
  /\ \A A \in SUBSET Blocks : IsFiniteSet(A) /\ Cardinality(A) \in Nat /\ Cardinality(A) <= NumBlocks
<1>1. IsFiniteSet(Blocks) /\ Cardinality(Blocks) = NumBlocks
  <2>1. 0 \in Int /\ NumBlocks - 1 \in Int /\ ~(0 > NumBlocks - 1) /\ NumBlocks - 1 - 0 + 1 = NumBlocks
    BY Sizes
  <2> QED BY <2>1, FS_Interval DEF Blocks
<1>2. ASSUME NEW A \in SUBSET Blocks
      PROVE  IsFiniteSet(A) /\ Cardinality(A) \in Nat /\ Cardinality(A) <= NumBlocks
  BY <1>1, FS_Subset, FS_CardinalityType
<1> QED BY <1>1, <1>2

(* A sequence without repetitions has as many members as places. *)
LEMMA DistinctCount ==
  ASSUME NEW n \in Nat, NEW f, NEW A, \A k \in 1 .. n : f[k] \in A, \A a \in A : \E k \in 1 .. n : f[k] = a,
         \A j, k \in 1 .. n : f[j] = f[k] => j = k
  PROVE  IsFiniteSet(A) /\ Cardinality(A) = n
<1> DEFINE g == [k \in 1 .. n |-> f[k]]
<1>1. g \in Bijection(1 .. n, A)
  <2>1. g \in [1 .. n -> A] /\ \A k \in 1 .. n : g[k] = f[k]
    OBVIOUS
  <2> HIDE DEF g
  <2>2. g \in Injection(1 .. n, A)
    BY <2>1 DEF Injection, IsInjective
  <2>3. g \in Surjection(1 .. n, A)
    BY <2>1 DEF Surjection
  <2> QED BY <2>2, <2>3 DEF Bijection
<1>2. IsFiniteSet(1 .. n) /\ Cardinality(1 .. n) = n
  BY FS_Interval
<1>3. ExistsBijection(1 .. n, A)
  BY <1>1 DEF ExistsBijection
<1> QED BY <1>2, <1>3, FS_Bijection

(* The flagged blocks in ascending order: the k-th has k - 1 below it. *)
LEMMA LowestFacts ==
  ASSUME free \subseteq Blocks, NEW k \in 1 .. Cardinality(free)
  PROVE  LowestFree(k) \in free /\ Cardinality({c \in free : c < LowestFree(k)}) = k - 1
<1> DEFINE Below(n) == {c \in free : c < n}
           T == {n \in Nat : Cardinality(Below(n)) >= k}
<1>0. Cardinality(free) \in Nat
  BY BlockSets
<1>1. \A n : Below(n) \in SUBSET Blocks
  OBVIOUS
<1>a. \A c \in free : c \in Nat /\ c < NumBlocks
  <2> SUFFICES ASSUME NEW c \in free PROVE c \in Nat /\ c < NumBlocks
    OBVIOUS
  <2>1. c \in 0 .. NumBlocks - 1
    BY DEF Blocks
  <2> QED BY <2>1, Sizes
<1>2. \A n : IsFiniteSet(Below(n)) /\ Cardinality(Below(n)) \in Nat
  <2> HIDE DEF Below
  <2> QED BY <1>1, BlockSets
<1>3. NumBlocks \in T
  <2>1. Below(NumBlocks) = free
    BY <1>a
  <2>2. Cardinality(free) >= k
    BY <1>0
  <2> QED BY <2>1, <2>2, Sizes
<1> PICK n \in T : \A j \in T : n <= j
  <2>1. T \subseteq Nat /\ T # {}
    BY <1>3
  <2> HIDE DEF T
  <2> QED BY <2>1, LeastOf
<1>4. n \in Nat /\ Cardinality(Below(n)) >= k
  OBVIOUS
<1>5. n # 0
  <2>1. Below(0) = {}
    <3>1. \A c \in free : ~(c < 0)
      BY <1>a
    <3> QED BY <3>1
  <2>2. Cardinality(Below(0)) = 0
    BY <2>1, FS_EmptySet
  <2> QED BY <1>4, <2>2
<1> PICK b \in Nat : b = n - 1
  BY <1>4, <1>5
<1>6. ~(Cardinality(Below(b)) >= k)
  <2>1. b \notin T
    <3>1. b \in T => n <= b
      <4> HIDE DEF T
      <4> QED OBVIOUS
    <3> QED BY <1>4, <3>1
  <2> QED BY <2>1
<1>7. Below(n) = IF b \in free THEN Below(b) \cup {b} ELSE Below(b)
  <2>1. \A c \in free : c \in Nat
    BY Sizes DEF Blocks
  <2>2. \A c \in free : c < n <=> c < b \/ c = b
    BY <1>4, <2>1
  <2> QED BY <2>2
<1>8. b \notin Below(b)
  OBVIOUS
<1>9. b \in free /\ Cardinality(Below(b)) = k - 1
  <2> PICK B, C, x : B = Below(b) /\ C = Below(n) /\ x = Cardinality(B)
    OBVIOUS
  <2>a. x \in Nat
    <3> HIDE DEF Below
    <3> QED BY <1>2
  <2>0. b \notin B /\ IsFiniteSet(B) /\ Cardinality(C) >= k /\ ~(x >= k)
    BY <1>2, <1>4, <1>6, <1>8
  <2>1. CASE b \notin free
    BY <1>7, <2>0, <2>a, <2>1
  <2>2. CASE b \in free
    <3>1. C = B \cup {b}
      BY <1>7, <2>2
    <3>2. Cardinality(C) = x + 1
      BY <2>0, <3>1, FS_AddElement
    <3> QED BY <2>0, <2>a, <2>2, <3>2
  <2> QED BY <2>1, <2>2
<1>10. \E c \in free : Cardinality({d \in free : d < c}) = k - 1
  BY <1>9
<1> QED BY <1>10 DEF LowestFree

(* Every place up to the sum of the first k lengths is dealt to one of the  *)
(* first k rows.                                                            *)
LEMMA Dealt ==
  ASSUME NEW m \in Nat, NEW s, s[0] = 0, \A k \in 0 .. m : s[k] \in Nat
  PROVE  \A p \in 1 .. s[m] : \E k \in 1 .. m : p \in s[k - 1] + 1 .. s[k]
<1> SUFFICES ASSUME NEW p \in 1 .. s[m] PROVE \E k \in 1 .. m : p \in s[k - 1] + 1 .. s[k]
  OBVIOUS
<1>0. m \in 0 .. m /\ s[m] \in Nat /\ p \in Nat /\ p <= s[m] /\ p >= 1
  OBVIOUS
<1> DEFINE T == {k \in 0 .. m : p <= s[k]}
<1>1. T \subseteq Nat /\ m \in T
  BY <1>0
<1> PICK k \in T : \A j \in T : k <= j
  <2> HIDE DEF T
  <2> QED BY <1>1, LeastOf
<1>2. k \in 0 .. m /\ p <= s[k] /\ s[k] \in Nat
  OBVIOUS
<1>3. k # 0
  BY <1>0, <1>2
<1>4. k \in 1 .. m /\ k - 1 \in 0 .. m /\ ~(k <= k - 1)
  BY <1>2, <1>3
<1>5. k - 1 \notin T
  <2> HIDE DEF T
  <2> QED BY <1>4
<1>6. ~(p <= s[k - 1]) /\ s[k - 1] \in Nat
  BY <1>4, <1>5
<1>7. p \in s[k - 1] + 1 .. s[k]
  BY <1>0, <1>2, <1>6
<1> QED BY <1>4, <1>7

(* The members of rows apart from each other. *)
RowsUpTo(R, k) == {b \in Blocks : \E j \in 1 .. k : Members(R[j], b)}

LEMMA RowSum ==
  ASSUME NEW m \in Nat, NEW R \in [1 .. m -> Seq(Blocks)], NEW s, s[0] = 0,
         \A k \in 1 .. m : s[k] = s[k - 1] + Len(R[k]),
         \A k \in 1 .. m : \A i, j \in DOMAIN R[k] : R[k][i] = R[k][j] => i = j,
         \A j, k \in 1 .. m : \A b : Members(R[j], b) /\ Members(R[k], b) => j = k
  PROVE  Cardinality(RowsUpTo(R, m)) = s[m]
<1> DEFINE G == {k \in 0 .. m : Cardinality(RowsUpTo(R, k)) = s[k]}
<1>0. \A k : RowsUpTo(R, k) \in SUBSET Blocks
  BY DEF RowsUpTo
<1>1. 0 \in G
  <2>1. RowsUpTo(R, 0) = {}
    BY DEF RowsUpTo
  <2>2. Cardinality(RowsUpTo(R, 0)) = 0
    BY <2>1, FS_EmptySet
  <2> QED BY <2>2
<1>2. ASSUME NEW k \in 1 .. m, k - 1 \in G PROVE k \in G
  <2> PICK r \in Seq(Blocks), n \in Nat : r = R[k] /\ n = Len(r)
    OBVIOUS
  <2> PICK A, B, C : A = RowsUpTo(R, k - 1) /\ B = RowsUpTo(R, k) /\ C = ToSet(r)
    OBVIOUS
  <2>1. DOMAIN r = 1 .. n /\ \A i \in 1 .. n : r[i] \in Blocks
    OBVIOUS
  <2>2. IsFiniteSet(C) /\ Cardinality(C) = n
    <3>1. \A i \in 1 .. n : r[i] \in C
      BY <2>1 DEF ToSet
    <3>2. \A b \in C : \E i \in 1 .. n : r[i] = b
      BY <2>1 DEF ToSet
    <3>3. \A i, j \in 1 .. n : r[i] = r[j] => i = j
      <4>1. \A i, j \in DOMAIN R[k] : R[k][i] = R[k][j] => i = j
        OBVIOUS
      <4>2. r = R[k] /\ DOMAIN r = 1 .. n
        BY <2>1
      <4> QED BY ONLY <4>1, <4>2
    <3>4. \A f, A0 : (\A i \in 1 .. n : f[i] \in A0) /\ (\A b \in A0 : \E i \in 1 .. n : f[i] = b)
                     /\ (\A i, j \in 1 .. n : f[i] = f[j] => i = j)
                     => IsFiniteSet(A0) /\ Cardinality(A0) = n
      BY ONLY n \in Nat, DistinctCount
    <3> QED BY ONLY <3>1, <3>2, <3>3, <3>4
  <2>3. B = A \cup C
    <3>1. \A b : b \in C <=> Members(r, b)
      BY MembersSet
    <3>2. \A b : Members(r, b) => b \in Blocks
      BY <2>1 DEF Members
    <3>3. \A j : j \in 1 .. k <=> j = k \/ j \in 1 .. k - 1
      OBVIOUS
    <3> QED BY <3>1, <3>2, <3>3 DEF RowsUpTo
  <2>4. A \cap C = {}
    <3> SUFFICES ASSUME NEW b, b \in A, b \in C PROVE FALSE
      OBVIOUS
    <3>1. Members(R[k], b)
      BY MembersSet
    <3> PICK j \in 1 .. k - 1 : Members(R[j], b)
      BY DEF RowsUpTo
    <3>2. j \in 1 .. m /\ j # k
      OBVIOUS
    <3> QED BY <3>1, <3>2
  <2>5. IsFiniteSet(A) /\ Cardinality(A) \in Nat
    BY <1>0, BlockSets
  <2>6. Cardinality(B) = Cardinality(A) + Cardinality(C) - Cardinality(A \cap C)
    BY ONLY <2>2, <2>3, <2>5, FS_Union
  <2>7. Cardinality(B) = Cardinality(A) + n
    <3>1. Cardinality(A \cap C) = 0
      BY <2>4, FS_EmptySet
    <3> QED BY <2>2, <2>5, <2>6, <3>1
  <2>8. Cardinality(A) = s[k - 1] /\ s[k] = s[k - 1] + n
    BY <1>2
  <2> QED BY <2>7, <2>8
<1>3. \A k \in 0 .. m : k \in G
  <2> HIDE DEF G
  <2> QED BY <1>1, <1>2, Upward
<1> QED BY <1>3

-----------------------------------------------------------------------------
(* The types of the engine, one fact each. *)
Record == [prompt_len : PromptLens, output_len : OutputLens, method : {"wait", "stream"}]

LEMMA TypeFacts ==
  ASSUME SwiftTypeOK
  PROVE  /\ submitted \in Nat /\ submitted <= NumRequests /\ 1 .. submitted \subseteq Requests
         /\ raw \in Seq(1 .. submitted) /\ tokenizing \in Seq(1 .. submitted)
         /\ waiting \in Seq(1 .. submitted) /\ running \in Seq(1 .. submitted)
         /\ batch \in Seq(1 .. submitted)
         /\ request \in Seq(Record) /\ Len(request) = submitted /\ Len(client) = submitted
         /\ outputs \in [Requests -> Nat] /\ queued \in [Requests -> Nat] /\ got \in [Requests -> Nat]
         /\ \A r \in 1 .. submitted :
              /\ request[r].prompt_len \in Nat /\ request[r].prompt_len >= 1
              /\ request[r].output_len \in Nat /\ request[r].output_len >= 1
              /\ outputs[r] \in Nat /\ block_needed[r] \in Nat /\ prompt_lens[r] \in Nat
              /\ block_needed[r] = CeilDiv(request[r].prompt_len + outputs[r])
<1>1. submitted \in Nat /\ submitted <= NumRequests /\ 1 .. submitted \subseteq Requests
  BY Sizes DEF SwiftTypeOK, Requests
<1>2. /\ raw \in Seq(1 .. submitted) /\ tokenizing \in Seq(1 .. submitted)
      /\ waiting \in Seq(1 .. submitted) /\ running \in Seq(1 .. submitted)
      /\ batch \in Seq(1 .. submitted)
  BY DEF SwiftTypeOK
<1>3. /\ request \in Seq(Record) /\ Len(request) = submitted /\ Len(client) = submitted
      /\ outputs \in [Requests -> Nat] /\ queued \in [Requests -> Nat] /\ got \in [Requests -> Nat]
  BY DEF SwiftTypeOK, Record
<1>4. ASSUME NEW r \in 1 .. submitted
      PROVE  /\ request[r].prompt_len \in Nat /\ request[r].prompt_len >= 1
             /\ request[r].output_len \in Nat /\ request[r].output_len >= 1
             /\ outputs[r] \in Nat /\ block_needed[r] \in Nat /\ prompt_lens[r] \in Nat
             /\ block_needed[r] = CeilDiv(request[r].prompt_len + outputs[r])
  <2>1. request[r] \in Record /\ r \in Requests
    BY <1>1, <1>3
  <2>2. request[r].prompt_len \in PromptLens /\ request[r].output_len \in OutputLens
    BY <2>1 DEF Record
  <2>3. outputs[r] \in Nat
    BY <1>3, <2>1
  <2>4. /\ request[r].prompt_len \in Nat /\ request[r].prompt_len >= 1
        /\ request[r].output_len \in Nat /\ request[r].output_len >= 1
    <3>1. \A x \in PromptLens \cup OutputLens : x \in Nat /\ x # 0
      BY Sizes
    <3>2. \A x \in Nat : x # 0 => x >= 1
      OBVIOUS
    <3> QED BY <2>2, <3>1, <3>2
  <2>5. CeilDiv(request[r].prompt_len + outputs[r]) \in Nat
    BY <2>3, <2>4, CeilDivFacts
  <2> QED BY <2>3, <2>4, <2>5 DEF block_needed, prompt_lens
<1> QED BY <1>1, <1>2, <1>3, <1>4

LEMMA Wider ==
  ASSUME NEW m \in Nat, NEW n \in Nat, m <= n, NEW q \in Seq(1 .. m)
  PROVE  q \in Seq(1 .. n)
<1>1. 1 .. m \subseteq 1 .. n
  OBVIOUS
<1> QED BY <1>1, SeqMonotonic

(* What the parts about the pool depend on. *)
LEMMA PoolPartsSame ==
  ASSUME SwiftTypeOK, UNCHANGED <<running, ids, id, table, free, num_free, outputs, batch, claimed, mpc>>,
         submitted' \in Nat, submitted <= submitted', \A r \in 1 .. submitted : request'[r] = request[r],
         mpc # "forward", mpc # "post", IdInv, PlaceInv, RowInv, ClaimInv
  PROVE  BatchInv' /\ IdInv' /\ PlaceInv' /\ RowInv' /\ ClaimInv'
<1>1. BatchInv'
  BY DEF BatchInv
<1>2. IdInv' /\ PlaceInv'
  BY DEF IdInv, PlaceInv, Live
<1>3. ClaimInv'
  BY DEF ClaimInv, Owed, Live
<1>4. ASSUME Live', NEW r, Members(running, r) PROVE Len(table[id[r]]) <= block_needed'[r]
  <2>1. r \in 1 .. submitted
    BY <1>4, TypeFacts DEF Members
  <2>2. r \in 1 .. submitted' /\ request'[r] = request[r]
    BY <2>1, TypeFacts
  <2>3. block_needed'[r] = block_needed[r]
    BY <2>1, <2>2 DEF block_needed
  <2>4. Live /\ Len(table[id[r]]) <= block_needed[r]
    BY <1>4 DEF RowInv, Live
  <2> QED BY <2>3, <2>4
<1>5. RowInv'
  BY <1>4 DEF RowInv
<1> QED BY <1>1, <1>2, <1>3, <1>5

(* Opaque, because concatenations make the provers concatenate more. *)
Assoc(a, b, c) == (a \o b) \o c = a \o (b \o c)
Splits(a, b, c, d) == a \o b \o c \o d = a \o (b \o c \o d)

LEMMA AssocHolds ==
  ASSUME NEW S, NEW a \in Seq(S), NEW b \in Seq(S), NEW c \in Seq(S)
  PROVE  Assoc(a, b, c)
BY ConcatAssociative DEF Assoc

LEMMA ConcatAppend ==
  ASSUME NEW S, NEW a \in Seq(S), NEW b \in Seq(S), NEW e \in S
  PROVE  a \o Append(b, e) = Append(a \o b, e)
<1>1. <<e>> \in Seq(S) /\ a \o b \in Seq(S)
  OBVIOUS
<1>2. Append(b, e) = b \o <<e>> /\ Append(a \o b, e) = (a \o b) \o <<e>>
  BY <1>1, AppendIsConcat
<1>3. (a \o b) \o <<e>> = a \o (b \o <<e>>)
  BY <1>1, ConcatAssociative
<1> QED BY <1>2, <1>3

LEMMA AddInv ==
  ASSUME SInv, add_request
  PROVE  SInv'
<1> USE DEF SInv
<1> PICK p \in PromptLens, o \in OutputLens, w \in {"wait", "stream"} :
      /\ request' = Append(request, [prompt_len |-> p, output_len |-> o, method |-> w])
      /\ client' = Append(client, w)
  BY DEF add_request
<1> PICK e : e = [prompt_len |-> p, output_len |-> o, method |-> w]
  OBVIOUS
<1> PICK n \in Nat : n = submitted
  BY TypeFacts
<1>1. /\ submitted' = n + 1 /\ n < NumRequests /\ raw' = Append(raw, n + 1) /\ mpc \in {"sleep", "raised"}
      /\ UNCHANGED <<tokenizing, waiting, running, batch, claimed, ids, id, table, free, num_free, mpc,
                     outputs, queued, got>>
  BY DEF add_request, Yielded, schedVars, poolVars
<1>2. e \in Record /\ request \in Seq(Record) /\ request' = Append(request, e) /\ Len(request) = n
  BY TypeFacts DEF Record
<1>3. /\ request' \in Seq(Record) /\ Len(request') = n + 1 /\ request'[n + 1] = e
      /\ \A r \in 1 .. n : request'[r] = request[r]
  BY <1>2
<1>4. client' \in Seq({"wait", "stream", "yield", "done"}) /\ Len(client') = n + 1
  BY DEF SwiftTypeOK
<1>5. \A q \in Seq(1 .. n) : q \in Seq(1 .. n + 1)
  BY Wider
<1>6. /\ raw \in Seq(1 .. n + 1) /\ tokenizing \in Seq(1 .. n + 1) /\ waiting \in Seq(1 .. n + 1)
      /\ running \in Seq(1 .. n + 1) /\ batch \in Seq(1 .. n + 1)
  BY <1>5, TypeFacts
<1>7. raw' \in Seq(1 .. n + 1)
  BY <1>1, <1>6
<1>8. SwiftTypeOK'
  BY <1>1, <1>3, <1>4, <1>6, <1>7, Sizes DEF SwiftTypeOK, Record
<1>9. \A r \in 1 .. n : is_finished(r)' <=> is_finished(r)
  BY <1>1, <1>3 DEF is_finished
<1>10. n + 1 \in Requests /\ outputs[n + 1] = 0 /\ ~is_finished(n + 1)'
  <2>1. n + 1 \in Requests /\ outputs[n + 1] = 0
    BY <1>1, Sizes DEF Requests, QueueInv
  <2>2. o >= 1 /\ o \in Nat /\ request'[n + 1].output_len = o
    <3>1. o \in Nat /\ o # 0
      BY Sizes
    <3> QED BY <1>3, <3>1
  <2>3. ~(outputs'[n + 1] >= request'[n + 1].output_len)
    <3>1. outputs'[n + 1] = 0
      BY <1>1, <2>1
    <3>2. ~(0 >= o)
      BY <2>2
    <3> QED BY <2>2, <3>1, <3>2
  <2> QED BY <2>1, <2>3 DEF is_finished
<1>11. QueueInv'
  <2>1. \A r \in Requests : r > n + 1 => outputs[r] = 0
    BY <1>1 DEF QueueInv, Requests
  <2>2. ASSUME Live' PROVE Increasing(Line') /\ \A r : Members(Line', r) <=> r \in 1 .. n + 1 /\ ~is_finished(r)'
    <3> PICK a, b : a = running \o waiting \o tokenizing /\ b = Line
      OBVIOUS
    <3>1. a \in Seq(1 .. n + 1) /\ b = a \o raw /\ b \in Seq(1 .. n + 1)
      BY <1>6 DEF Line
    <3>2. Line' = Append(b, n + 1)
      <4>1. Line' = a \o Append(raw, n + 1)
        BY <1>1 DEF Line
      <4>2. a \o Append(raw, n + 1) = Append(a \o raw, n + 1)
        <5> PICK S, x : S = 1 .. n + 1 /\ x = n + 1
          OBVIOUS
        <5>1. a \in Seq(S) /\ raw \in Seq(S) /\ x \in S
          BY <1>6, <3>1
        <5>2. a \o Append(raw, x) = Append(a \o raw, x)
          BY ONLY <5>1, ConcatAppend
        <5> QED BY <5>2
      <4> QED BY <3>1, <4>1, <4>2
    <3>3. Increasing(b) /\ \A r : Members(b, r) <=> r \in 1 .. n /\ ~is_finished(r)
      BY <1>1, <2>2 DEF QueueInv, Live
    <3>4. Before(b, n + 1)
      BY <3>3 DEF Before
    <3>5. Increasing(Line') /\ \A x : Members(Line', x) <=> Members(b, x) \/ x = n + 1
      <4>1. 1 .. n + 1 \in SUBSET Nat /\ n + 1 \in 1 .. n + 1
        OBVIOUS
      <4> PICK c : c = Line'
        OBVIOUS
      <4>2. c = Append(b, n + 1) /\ Increasing(b)
        BY <3>2, <3>3
      <4>3. Increasing(c) /\ \A x : Members(c, x) <=> Members(b, x) \/ x = n + 1
        <5>1. 1 .. n + 1 \in SUBSET Nat /\ b \in Seq(1 .. n + 1) /\ n + 1 \in 1 .. n + 1
          BY <3>1, <4>1
        <5> PICK S, x : S = 1 .. n + 1 /\ x = n + 1
          OBVIOUS
        <5>2. S \in SUBSET Nat /\ b \in Seq(S) /\ x \in S /\ c = Append(b, x) /\ Before(b, x) /\ Increasing(b)
          BY <3>4, <4>2, <5>1
        <5>3. Increasing(c) /\ \A y : Members(c, y) <=> Members(b, y) \/ y = x
          BY ONLY <5>2, AppendFacts
        <5> QED BY <5>3
      <4> QED BY <4>3
    <3>6. \A r : r \in 1 .. n + 1 <=> r \in 1 .. n \/ r = n + 1
      OBVIOUS
    <3> QED BY <1>9, <1>10, <3>3, <3>5, <3>6
  <2> QED BY <1>1, <2>1, <2>2 DEF QueueInv
<1>12. BatchInv' /\ IdInv' /\ PlaceInv' /\ RowInv' /\ ClaimInv'
  <2>1. submitted' \in Nat /\ submitted <= submitted' /\ mpc # "forward" /\ mpc # "post"
    BY <1>1
  <2> QED BY <1>1, <1>3, <2>1, PoolPartsSame
<1> QED BY <1>8, <1>11, <1>12

LEMMA QueueSame ==
  ASSUME QueueInv, UNCHANGED <<submitted, request, outputs, mpc>>, Line' = Line
  PROVE  QueueInv'
<1>1. \A r : is_finished(r)' <=> is_finished(r)
  BY DEF is_finished
<1> PICK a, b : a = Line /\ b = Line'
  OBVIOUS
<1>2. a = b /\ submitted' = submitted /\ outputs' = outputs /\ Live' = Live
  BY DEF Live
<1>3. \A r \in Requests : r > submitted => outputs[r] = 0
  BY DEF QueueInv
<1>4. Live => Increasing(a) /\ \A r : Members(a, r) <=> r \in 1 .. submitted /\ ~is_finished(r)
  BY DEF QueueInv
<1>5. Live' => Increasing(b) /\ \A r : Members(b, r) <=> r \in 1 .. submitted' /\ ~is_finished(r)'
  BY <1>1, <1>2, <1>4
<1> QED BY <1>2, <1>3, <1>5 DEF QueueInv

LEMMA ClientInv ==
  ASSUME SInv, NEW r \in 1 .. submitted, Client(r)
  PROVE  SInv'
<1> USE DEF SInv
<1>1. /\ UNCHANGED <<submitted, request, raw, tokenizing, waiting, running, batch, claimed, ids, id,
                     table, free, num_free, mpc, outputs>>
      /\ mpc # "forward" /\ mpc # "post"
  BY DEF Client, Answer, StreamGet, StreamResume, schedVars, poolVars, Yielded
<1>2. r \in Requests /\ r \in DOMAIN client /\ client \in Seq({"wait", "stream", "yield", "done"})
  BY TypeFacts DEF SwiftTypeOK
<1>3. client' \in Seq({"wait", "stream", "yield", "done"}) /\ Len(client') = submitted
  <2>1. \E c \in {"wait", "stream", "yield", "done"} : client' = [client EXCEPT ![r] = c]
    BY DEF Client, Answer, StreamGet, StreamResume
  <2> PICK c \in {"wait", "stream", "yield", "done"} : client' = [client EXCEPT ![r] = c]
    BY <2>1
  <2> QED BY <1>2, TypeFacts
<1>4. queued' \in [Requests -> Nat] /\ got' \in [Requests -> Nat]
  <2>1. queued \in [Requests -> Nat] /\ got \in [Requests -> Nat]
    BY TypeFacts
  <2>2. \/ queued' = queued /\ got' = got
        \/ queued[r] > 0 /\ queued' = [queued EXCEPT ![r] = @ - 1] /\ got' = [got EXCEPT ![r] = @ + 1]
    BY DEF Client, Answer, StreamGet, StreamResume
  <2> PICK m \in Nat, n \in Nat : m = queued[r] /\ n = got[r]
    BY <1>2, <2>1
  <2>3. m > 0 => m - 1 \in Nat
    OBVIOUS
  <2> QED BY <1>2, <2>1, <2>2, <2>3
<1>5. SwiftTypeOK'
  BY <1>1, <1>3, <1>4 DEF SwiftTypeOK
<1>6. QueueInv'
  BY <1>1, QueueSame DEF Line
<1>7. BatchInv' /\ IdInv' /\ PlaceInv' /\ RowInv' /\ ClaimInv'
  <2>1. submitted' \in Nat /\ submitted <= submitted' /\ \A s \in 1 .. submitted : request'[s] = request[s]
    BY <1>1, TypeFacts
  <2> QED BY <1>1, <2>1, PoolPartsSame
<1> QED BY <1>5, <1>6, <1>7

LEMMA TokenizerInv ==
  ASSUME SInv, Tokenizer
  PROVE  SInv'
<1> USE DEF SInv
<1>1. /\ UNCHANGED <<submitted, request, client, queued, got, running, batch, claimed, ids, id,
                     table, free, num_free, mpc, outputs>>
      /\ mpc # "forward" /\ mpc # "post"
  BY DEF Tokenizer, TokenizeBegin, TokenizeEnd, requestVars, schedVars, poolVars, Yielded
<1> PICK S : S = 1 .. submitted
  OBVIOUS
<1>2. raw \in Seq(S) /\ tokenizing \in Seq(S) /\ waiting \in Seq(S) /\ running \in Seq(S) /\ running \o waiting \in Seq(S)
  BY TypeFacts
<1>3. raw' \in Seq(S) /\ tokenizing' \in Seq(S) /\ waiting' \in Seq(S)
  <2>1. \/ tokenizing' = raw /\ raw' = << >> /\ waiting' = waiting
        \/ waiting' = waiting \o tokenizing /\ tokenizing' = << >> /\ raw' = raw
    BY DEF Tokenizer, TokenizeBegin, TokenizeEnd, schedVars
  <2>2. << >> \in Seq(S) /\ waiting \o tokenizing \in Seq(S)
    BY <1>2
  <2> QED BY <1>2, <2>1, <2>2
<1>4. Line' = Line
  <2>1. CASE TokenizeBegin
    <3>1. tokenizing = << >> /\ tokenizing' = raw /\ raw' = << >> /\ waiting' = waiting
      BY <2>1 DEF TokenizeBegin, schedVars
    <3>2. running \o waiting \o << >> = running \o waiting /\ (running \o waiting \o raw) \o << >> = running \o waiting \o raw
      BY <1>2, ConcatEmptySeq
    <3> QED BY <1>1, <3>1, <3>2 DEF Line
  <2>2. CASE TokenizeEnd
    <3>1. tokenizing' = << >> /\ raw' = raw /\ waiting' = waiting \o tokenizing
      BY <2>2 DEF TokenizeEnd
    <3>2. running \o (waiting \o tokenizing) = (running \o waiting) \o tokenizing
      <4> PICK a, b, c : a = running /\ b = waiting /\ c = tokenizing
        OBVIOUS
      <4>1. a \in Seq(S) /\ b \in Seq(S) /\ c \in Seq(S)
        BY <1>2
      <4>2. Assoc(a, b, c)
        BY ONLY <4>1, AssocHolds
      <4> QED BY <4>2 DEF Assoc
    <3>3. (running \o (waiting \o tokenizing)) \o << >> = running \o (waiting \o tokenizing)
      <4>1. running \o (waiting \o tokenizing) \in Seq(S)
        BY <1>2
      <4> QED BY <4>1, ConcatEmptySeq
    <3> QED BY <1>1, <3>1, <3>2, <3>3 DEF Line
  <2> QED BY <2>1, <2>2 DEF Tokenizer
<1>5. SwiftTypeOK'
  BY <1>1, <1>3 DEF SwiftTypeOK
<1>6. QueueInv'
  BY <1>1, <1>4, QueueSame
<1>7. BatchInv' /\ IdInv' /\ PlaceInv' /\ RowInv' /\ ClaimInv'
  BY <1>1, TypeFacts, PoolPartsSame
<1> QED BY <1>5, <1>6, <1>7

-----------------------------------------------------------------------------
(* Admission. *)
LEMMA AdmittedFacts ==
  ASSUME SwiftTypeOK
  PROVE  \E n \in 0 .. Len(waiting) :
           Admitted = SubSeq(waiting, 1, n) /\ (n # 0 => CanAdmit(SubSeq(waiting, 1, n)))
<1> PICK m \in Nat : m = Len(waiting)
  BY TypeFacts
<1> DEFINE First(n) == SubSeq(waiting, 1, n)
           OK(n) == CanAdmit(First(n))
           Ends(n) == (\A j \in 1 .. n : OK(j)) /\ (n = m \/ ~OK(n + 1))
           T == {n \in 0 .. m : n = m \/ ~OK(n + 1)}
<1>1. Admitted = First(CHOOSE n \in 0 .. m : Ends(n))
  BY DEF Admitted
<1> HIDE DEF OK
<1>2. T \subseteq Nat /\ m \in T
  OBVIOUS
<1> PICK k \in T : \A j \in T : k <= j
  <2> HIDE DEF T
  <2> QED BY <1>2, LeastOf
<1>3. k \in 0 .. m /\ (k = m \/ ~OK(k + 1))
  OBVIOUS
<1>4. ASSUME NEW j \in 1 .. k PROVE OK(j)
  <2>1. j - 1 \in 0 .. m /\ ~(k <= j - 1) /\ j - 1 # m /\ j - 1 + 1 = j
    BY <1>3
  <2>2. j - 1 \notin T
    <3> HIDE DEF T
    <3> QED BY <2>1
  <2>3. OK(j - 1 + 1)
    BY <2>1, <2>2
  <2> QED BY <2>1, <2>3
<1>5. \E n \in 0 .. m : Ends(n)
  BY <1>3, <1>4
<1> PICK n : n = CHOOSE i \in 0 .. m : Ends(i)
  OBVIOUS
<1>6. n \in 0 .. m /\ Ends(n)
  <2> HIDE DEF Ends
  <2> QED BY <1>5
<1>7. n # 0 => OK(n)
  <2>1. n # 0 => n \in 1 .. n
    BY <1>6
  <2> QED BY <1>6, <2>1
<1>8. Admitted = First(n)
  BY <1>1
<1> QED BY <1>6, <1>7, <1>8 DEF OK

LEMMA IncreasingDistinct ==
  ASSUME NEW S \in SUBSET Nat, NEW q \in Seq(S), Increasing(q)
  PROVE  \A j, k \in 1 .. Len(q) : q[j] = q[k] => j = k
<1> SUFFICES ASSUME NEW j \in 1 .. Len(q), NEW k \in 1 .. Len(q), q[j] = q[k], j # k PROVE FALSE
  OBVIOUS
<1>1. q[j] \in Nat /\ q[k] \in Nat /\ j \in DOMAIN q /\ k \in DOMAIN q
  <2>1. q[j] \in S /\ q[k] \in S /\ j \in DOMAIN q /\ k \in DOMAIN q
    OBVIOUS
  <2>2. \A x \in S : x \in Nat
    OBVIOUS
  <2> QED BY <2>1, <2>2
<1>2. j < k \/ k < j
  OBVIOUS
<1>3. q[j] < q[k] \/ q[k] < q[j]
  BY <1>1, <1>2 DEF Increasing
<1> QED BY <1>1, <1>3

IdsGiven(q, n, m) ==
  /\ id' \in [Requests -> Ids \cup {-1}] /\ ids' \in Seq(Ids) /\ Len(ids') = m - n
  /\ \A k \in 1 .. m - n : ids'[k] = ids[k]
  /\ \A r \in Requests : (\A j \in 1 .. n : q[j] # r) => id'[r] = id[r]
  /\ \A j \in 1 .. n : \E i \in 1 .. n : q[i] = q[j] /\ id'[q[j]] = ids[m + 1 - i]

LEMMA GiveIdsFacts ==
  ASSUME SwiftTypeOK, NEW q \in Seq(1 .. submitted), NEW n \in Nat, n <= Len(q), n <= Len(ids), GiveIds(q, n),
         NEW m \in Nat, m = Len(ids)
  PROVE  IdsGiven(q, n, m)
<1>1. ids \in Seq(Ids) /\ id \in [Requests -> Ids \cup {-1}]
  BY DEF SwiftTypeOK
<1>2. ids' = SubSeq(ids, 1, m - n)
  BY DEF GiveIds
<1>3. m - n \in 0 .. m
  OBVIOUS
<1>4. ids' \in Seq(Ids) /\ Len(ids') = m - n /\ \A k \in 1 .. m - n : ids'[k] = ids[k]
  <2> PICK q0, r0, m0 : q0 = ids /\ r0 = ids' /\ m0 = m - n
    OBVIOUS
  <2>1. q0 \in Seq(Ids) /\ m0 \in 0 .. Len(q0) /\ r0 = SubSeq(q0, 1, m0)
    BY <1>1, <1>2, <1>3
  <2>2. m0 \in Int /\ 1 \in Int /\ \A i \in 1 .. m0 : q0[i] \in Ids
    BY ONLY <2>1
  <2>3. /\ SubSeq(q0, 1, m0) \in Seq(Ids) /\ Len(SubSeq(q0, 1, m0)) = IF 1 <= m0 THEN m0 - 1 + 1 ELSE 0
        /\ \A i \in 1 .. m0 - 1 + 1 : SubSeq(q0, 1, m0)[i] = q0[1 + i - 1]
    BY ONLY <2>2, SubSeqProperties
  <2>4. m0 \in Nat /\ m0 - 1 + 1 = m0 /\ \A i \in 1 .. m0 : 1 + i - 1 = i
    BY ONLY <2>1
  <2>5. Len(r0) = m0
    BY ONLY <2>1, <2>3, <2>4
  <2>6. r0 \in Seq(Ids) /\ \A k \in 1 .. m0 : r0[k] = q0[k]
    BY ONLY <2>1, <2>3, <2>4
  <2> QED BY <2>5, <2>6
<1>5. \A r \in Requests : id'[r] = IF \E j \in 1 .. n : q[j] = r
                                   THEN ids[m + 1 - CHOOSE j \in 1 .. n : q[j] = r] ELSE id[r]
  BY DEF GiveIds
<1>6. ASSUME NEW r \in Requests, \E j \in 1 .. n : q[j] = r
      PROVE  \E i \in 1 .. n : q[i] = r /\ id'[r] = ids[m + 1 - i] /\ ids[m + 1 - i] \in Ids
  <2> PICK i : i = CHOOSE j \in 1 .. n : q[j] = r
    OBVIOUS
  <2>1. i \in 1 .. n /\ q[i] = r
    BY <1>6
  <2>2. id'[r] = ids[m + 1 - i]
    BY <1>5, <1>6
  <2>3. m + 1 - i \in 1 .. m
    BY <2>1
  <2>4. ids[m + 1 - i] \in Ids
    BY <1>1, <2>3
  <2> QED BY <2>1, <2>2, <2>4
<1>7. id' \in [Requests -> Ids \cup {-1}]
  <2>1. \A r \in Requests : id'[r] \in Ids \cup {-1}
    BY <1>1, <1>5, <1>6
  <2>2. id' = [r \in Requests |-> id'[r]]
    BY DEF GiveIds
  <2> QED BY <2>1, <2>2
<1>8. \A j \in 1 .. n : q[j] \in Requests
  <2>1. \A j \in 1 .. n : j \in 1 .. Len(q)
    OBVIOUS
  <2>2. 1 .. submitted \subseteq Requests
    BY TypeFacts
  <2>3. \A j \in 1 .. Len(q) : q[j] \in 1 .. submitted
    BY ONLY q \in Seq(1 .. submitted), ElementOfSeq
  <2> QED BY <2>1, <2>2, <2>3
<1>9. \A r \in Requests : (\A j \in 1 .. n : q[j] # r) => id'[r] = id[r]
  BY <1>5
<1>10. ASSUME NEW j \in 1 .. n PROVE \E i \in 1 .. n : q[i] = q[j] /\ id'[q[j]] = ids[m + 1 - i]
  BY <1>6, <1>8
<1> QED BY <1>4, <1>7, <1>9, <1>10 DEF IdsGiven

LEMMA ConcatType ==
  ASSUME NEW S, NEW a \in Seq(S), NEW b \in Seq(S)
  PROVE  a \o b \in Seq(S)
OBVIOUS

LEMMA LineSplit ==
  ASSUME NEW S, NEW a \in Seq(S), NEW b \in Seq(S), NEW c \in Seq(S), NEW d \in Seq(S)
  PROVE  Splits(a, b, c, d)
<1> PICK e \in Seq(S) : e = b \o c
  BY ConcatType
<1>1. Assoc(a, b, c) /\ Assoc(a, e, d)
  BY AssocHolds
<1>2. a \o b \o c = a \o e /\ (a \o e) \o d = a \o (e \o d)
  BY <1>1 DEF Assoc
<1> QED BY <1>2 DEF Splits

LEMMA LineType ==
  ASSUME NEW S, NEW a \in Seq(S), NEW b \in Seq(S), NEW c \in Seq(S)
  PROVE  a \o b \o c \in Seq(S)
<1>1. a \o b \in Seq(S)
  OBVIOUS
<1> QED BY <1>1, ConcatType

(* The line is running_q and what comes behind it. *)
Behind == waiting \o tokenizing \o raw

LEMMA LineFacts ==
  ASSUME SwiftTypeOK, QueueInv
  PROVE  /\ Line \in Seq(1 .. submitted) /\ Behind \in Seq(1 .. submitted) /\ Line = running \o Behind
         /\ Live => /\ Increasing(running) /\ Increasing(Behind) /\ Across(running, Behind)
                    /\ \A r : Members(running, r) \/ Members(Behind, r) <=> r \in 1 .. submitted /\ ~is_finished(r)
         /\ \A r : Members(running, r) => r \in 1 .. submitted /\ r \in Requests
         /\ \A r : Members(batch, r) => r \in 1 .. submitted /\ r \in Requests
<1> PICK S : S = 1 .. submitted
  OBVIOUS
<1>1. raw \in Seq(S) /\ tokenizing \in Seq(S) /\ waiting \in Seq(S) /\ running \in Seq(S) /\ batch \in Seq(S)
      /\ 1 .. submitted \subseteq Requests
  BY TypeFacts
<1> PICK a, b, c : a = Line /\ b = Behind /\ c = running
  OBVIOUS
<1>2. a \in Seq(S) /\ b \in Seq(S) /\ a = c \o b /\ c \in Seq(S)
  <2> PICK w, t, u : w = waiting /\ t = tokenizing /\ u = raw
    OBVIOUS
  <2>1. w \in Seq(S) /\ t \in Seq(S) /\ u \in Seq(S) /\ c \in Seq(S)
    BY <1>1
  <2>2. Splits(c, w, t, u)
    BY <2>1, LineSplit
  <2>3. b = w \o t \o u /\ a = c \o w \o t \o u
    BY DEF Line, Behind
  <2>4. b \in Seq(S)
    BY <2>1, <2>3, LineType
  <2>5. a = c \o b
    BY <2>2, <2>3 DEF Splits
  <2> QED BY <2>1, <2>4, <2>5, ConcatType
<1>3. /\ \A x : Members(a, x) <=> Members(c, x) \/ Members(b, x)
      /\ Increasing(a) <=> Increasing(c) /\ Increasing(b) /\ Across(c, b)
  BY ONLY <1>2, ConcatFacts
<1>4. Live => Increasing(a) /\ \A r : Members(a, r) <=> r \in 1 .. submitted /\ ~is_finished(r)
  BY DEF QueueInv
<1>5. \A q \in Seq(S) : \A r : Members(q, r) => r \in 1 .. submitted /\ r \in Requests
  <2> SUFFICES ASSUME NEW q \in Seq(S), NEW r, Members(q, r) PROVE r \in S
    BY <1>1
  <2>1. \A k \in DOMAIN q : q[k] \in S
    BY ONLY q \in Seq(S), ElementOfSeq, LenProperties
  <2> QED BY <2>1 DEF Members
<1> QED BY <1>1, <1>2, <1>3, <1>4, <1>5

LEMMA AdmitSplit ==
  ASSUME SwiftTypeOK, QueueInv, NEW q, q = Admitted, NEW rest, rest = SubSeq(waiting, Len(q) + 1, Len(waiting))
  PROVE  /\ q \in Seq(1 .. submitted) /\ rest \in Seq(1 .. submitted) /\ waiting = q \o rest
         /\ q # << >> => CanAdmit(q)
         /\ running \o q \in Seq(1 .. submitted)
         /\ Line = (running \o q) \o rest \o tokenizing \o raw
         /\ Live => /\ Increasing(q) /\ \A r : Members(running, r) => ~Members(q, r)
<1> PICK S : S = 1 .. submitted
  OBVIOUS
<1>1. raw \in Seq(S) /\ tokenizing \in Seq(S) /\ waiting \in Seq(S) /\ running \in Seq(S) /\ S \subseteq Nat
  BY TypeFacts
<1> PICK n \in 0 .. Len(waiting) : q = SubSeq(waiting, 1, n) /\ (n # 0 => CanAdmit(q))
  BY AdmittedFacts
<1>2. q \in Seq(S) /\ Len(q) = n
  <2> PICK w : w = waiting
    OBVIOUS
  <2>1. w \in Seq(S) /\ n \in 0 .. Len(w) /\ q = SubSeq(w, 1, n)
    BY <1>1
  <2>2. q \in Seq(S) /\ Len(q) = n
    <3> PICK m : m = n
      OBVIOUS
    <3>1. w \in Seq(S) /\ m \in 0 .. Len(w) /\ q = SubSeq(w, 1, m)
      BY <2>1
    <3>2. \E c : CutAt(w, q, c, m, S)
      BY ONLY <3>1, PrefixFacts
    <3> QED BY <3>2 DEF CutAt
  <2> QED BY <2>2
<1>3. rest \in Seq(S) /\ waiting = q \o rest
  <2>1. rest = SubSeq(waiting, n + 1, Len(waiting))
    BY <1>2
  <2> PICK w : w = waiting
    OBVIOUS
  <2>2. w \in Seq(S) /\ n \in 0 .. Len(w) /\ q = SubSeq(w, 1, n) /\ rest = SubSeq(w, n + 1, Len(w))
    BY <1>1, <2>1
  <2>3. rest \in Seq(S) /\ w = q \o rest
    <3> PICK m, a, b : m = n /\ a = q /\ b = rest
      OBVIOUS
    <3>1. w \in Seq(S) /\ m \in 0 .. Len(w) /\ a = SubSeq(w, 1, m) /\ b = SubSeq(w, m + 1, Len(w))
      BY <2>2
    <3>2. CutAt(w, a, b, m, S)
      BY ONLY <3>1, PrefixFacts
    <3> QED BY <3>2 DEF CutAt
  <2> QED BY <2>3
<1>4. n = 0 => q = << >>
  BY <1>2
<1>5. running \o q \in Seq(S) /\ running \o (q \o rest) = (running \o q) \o rest
  <2> PICK c : c = running
    OBVIOUS
  <2>1. c \in Seq(S) /\ q \in Seq(S) /\ rest \in Seq(S)
    BY <1>1, <1>2, <1>3
  <2>2. c \o q \in Seq(S)
    BY <2>1, ConcatType
  <2>3. Assoc(c, q, rest)
    BY ONLY <2>1, AssocHolds
  <2>4. c \o (q \o rest) = (c \o q) \o rest
    BY <2>3 DEF Assoc
  <2> QED BY <2>2, <2>4
<1>6. Line = (running \o q) \o rest \o tokenizing \o raw
  BY <1>3, <1>5 DEF Line
<1>7. ASSUME Live
      PROVE  /\ Increasing(q) /\ \A r : Members(running, r) => ~Members(q, r)
  <2> PICK a, b, c, l : a = running \o q /\ b = rest \o tokenizing \o raw /\ c = running /\ l = Line
    OBVIOUS
  <2>1. a \in Seq(S) /\ b \in Seq(S) /\ l = a \o b
    <3> PICK t, u : t = tokenizing /\ u = raw
      OBVIOUS
    <3>1. a \in Seq(S) /\ rest \in Seq(S) /\ t \in Seq(S) /\ u \in Seq(S)
      BY <1>1, <1>3, <1>5
    <3>2. Splits(a, rest, t, u)
      BY ONLY <3>1, LineSplit
    <3>3. b = rest \o t \o u /\ l = a \o rest \o t \o u
      BY <1>6
    <3>4. b \in Seq(S)
      BY <3>1, <3>3, LineType
    <3>5. l = a \o b
      BY <3>2, <3>3 DEF Splits
    <3> QED BY <3>1, <3>4, <3>5
  <2>2. Increasing(l)
    BY <1>7 DEF QueueInv
  <2>3. Increasing(a)
    BY ONLY <2>1, <2>2, ConcatFacts
  <2>4. c \in Seq(S) /\ q \in Seq(S) /\ a = c \o q
    BY <1>1, <1>2
  <2>5. Increasing(q) /\ Across(c, q)
    BY ONLY <2>3, <2>4, ConcatFacts
  <2>6. ASSUME NEW r, Members(c, r), Members(q, r) PROVE FALSE
    <3>1. r < r
      BY <2>5, <2>6 DEF Across
    <3>2. r \in Nat
      BY <1>1, <2>4, <2>6 DEF Members
    <3> QED BY <3>1, <3>2
  <2> QED BY <2>5, <2>6
<1> QED BY <1>2, <1>3, <1>4, <1>5, <1>6, <1>7

LEMMA GiveIdsKeeps ==
  ASSUME SwiftTypeOK, IdInv, Live, Live', NEW q \in Seq(1 .. submitted), Increasing(q),
         NEW n \in Nat, n = Len(q), NEW m \in Nat, m = Len(ids), n <= m, GiveIds(q, n),
         NEW rs, rs = running', \A r : Members(rs, r) <=> Members(running, r) \/ Members(q, r),
         \A r : Members(running, r) => r \in Requests /\ ~Members(q, r)
  PROVE  /\ id' \in [Requests -> Ids \cup {-1}] /\ ids' \in Seq(Ids)
         /\ \A r : Members(running, r) => id'[r] = id[r]
         /\ \A r : Members(q, r) => Members(ids, id'[r])
         /\ IdInv'
<1> PICK i0, i1, d0, d1 : i0 = ids /\ i1 = ids' /\ d0 = id /\ d1 = id'
  OBVIOUS
<1>0. IdsGiven(q, n, m)
  BY GiveIdsFacts
<1>1. /\ i0 \in Seq(Ids) /\ DOMAIN i0 = 1 .. m /\ i1 \in Seq(Ids) /\ DOMAIN i1 = 1 .. m - n
      /\ d1 \in [Requests -> Ids \cup {-1}] /\ DOMAIN q = 1 .. n
  <2>1. i1 \in Seq(Ids) /\ Len(i1) = m - n /\ d1 \in [Requests -> Ids \cup {-1}]
    BY <1>0 DEF IdsGiven
  <2>2. i0 \in Seq(Ids) /\ Len(i0) = m
    BY DEF SwiftTypeOK
  <2>3. DOMAIN i0 = 1 .. Len(i0) /\ DOMAIN i1 = 1 .. Len(i1) /\ DOMAIN q = 1 .. Len(q)
    BY ONLY <2>1, <2>2, q \in Seq(1 .. submitted), LenProperties
  <2> QED BY <2>1, <2>2, <2>3
<1>2. \A k \in 1 .. m - n : i1[k] = i0[k]
  BY <1>0 DEF IdsGiven
<1>3. \A r \in Requests : (\A j \in 1 .. n : q[j] # r) => d1[r] = d0[r]
  BY <1>0 DEF IdsGiven
<1>4. \A j, k \in 1 .. n : q[j] = q[k] => j = k
  <2>1. 1 .. submitted \in SUBSET Nat
    BY TypeFacts
  <2> QED BY <2>1, IncreasingDistinct
<1>5. \A j \in 1 .. n : d1[q[j]] = i0[m + 1 - j]
  <2>1. \A j \in 1 .. n : \E i \in 1 .. n : q[i] = q[j] /\ d1[q[j]] = i0[m + 1 - i]
    BY <1>0 DEF IdsGiven
  <2> SUFFICES ASSUME NEW j \in 1 .. n PROVE d1[q[j]] = i0[m + 1 - j]
    OBVIOUS
  <2> PICK i \in 1 .. n : q[i] = q[j] /\ d1[q[j]] = i0[m + 1 - i]
    BY <2>1
  <2>2. i = j
    BY <1>4
  <2> QED BY <2>2
<1>6. \A r : Members(running, r) => d1[r] = d0[r]
  <2> SUFFICES ASSUME NEW r, Members(running, r) PROVE d1[r] = d0[r]
    OBVIOUS
  <2>1. r \in Requests /\ \A j \in 1 .. n : q[j] # r
    BY <1>1 DEF Members
  <2> QED BY <1>3, <2>1
<1>7. \A j \in 1 .. n : m + 1 - j \in 1 .. m /\ ~(m + 1 - j \in 1 .. m - n)
  OBVIOUS
<1>8. \A r : Members(q, r) => \E j \in 1 .. n : r = q[j] /\ d1[r] = i0[m + 1 - j]
  <2> SUFFICES ASSUME NEW r, Members(q, r) PROVE \E j \in 1 .. n : r = q[j] /\ d1[r] = i0[m + 1 - j]
    OBVIOUS
  <2> PICK j \in 1 .. n : q[j] = r
    BY <1>1 DEF Members
  <2>1. d1[q[j]] = i0[m + 1 - j]
    BY <1>5
  <2> QED BY <2>1
<1>9. \A r : Members(q, r) => Members(i0, d1[r])
  <2> SUFFICES ASSUME NEW r, Members(q, r) PROVE Members(i0, d1[r])
    OBVIOUS
  <2> PICK j \in 1 .. n : r = q[j] /\ d1[r] = i0[m + 1 - j]
    BY <1>8
  <2>1. m + 1 - j \in DOMAIN i0
    BY <1>1, <1>7
  <2> QED BY <2>1 DEF Members
<1>10. \A x : Members(i1, x) => Members(i0, x)
  <2>1. \A k \in 1 .. m - n : k \in 1 .. m
    OBVIOUS
  <2> QED BY <1>1, <1>2, <2>1 DEF Members
<1>11. /\ \A j, k \in 1 .. m : i0[j] = i0[k] => j = k
       /\ \A r : Members(running, r) => d0[r] \in Ids /\ ~Members(i0, d0[r])
       /\ \A r, s : Members(running, r) /\ Members(running, s) /\ d0[r] = d0[s] => r = s
       /\ \A i \in Ids : Members(i0, i) \/ \E r : Members(running, r) /\ d0[r] = i
  BY <1>1 DEF IdInv
<1>12. \A j, k \in DOMAIN i1 : i1[j] = i1[k] => j = k
  <2>1. \A k \in 1 .. m - n : k \in 1 .. m
    OBVIOUS
  <2> QED BY <1>1, <1>2, <1>11, <2>1
<1>13. \A r : Members(rs, r) => d1[r] \in Ids /\ ~Members(i1, d1[r])
  <2>1. ASSUME NEW r, Members(running, r) PROVE d1[r] \in Ids /\ ~Members(i1, d1[r])
    BY <1>6, <1>10, <1>11, <2>1
  <2>2. ASSUME NEW r, Members(q, r) PROVE d1[r] \in Ids /\ ~Members(i1, d1[r])
    <3> PICK j \in 1 .. n : r = q[j] /\ d1[r] = i0[m + 1 - j]
      BY <1>8, <2>2
    <3>1. m + 1 - j \in 1 .. m /\ ~(m + 1 - j \in 1 .. m - n)
      BY <1>7
    <3>2. i0[m + 1 - j] \in Ids
      BY <1>1, <3>1
    <3>3. ASSUME NEW k \in 1 .. m - n, i1[k] = i0[m + 1 - j] PROVE FALSE
      <4>1. k \in 1 .. m /\ i0[k] = i0[m + 1 - j]
        BY <1>2, <3>3
      <4>2. k = m + 1 - j
        BY <1>11, <3>1, <4>1
      <4> QED BY <3>1, <4>2
    <3> QED BY <1>1, <3>2, <3>3 DEF Members
  <2> QED BY <2>1, <2>2
<1>14. ASSUME NEW r, NEW s, Members(rs, r), Members(rs, s), d1[r] = d1[s] PROVE r = s
  <2>1. CASE Members(running, r) /\ Members(running, s)
    BY <1>6, <1>11, <1>14, <2>1
  <2>2. CASE Members(q, r) /\ Members(q, s)
    <3> PICK j \in 1 .. n : r = q[j] /\ d1[r] = i0[m + 1 - j]
      BY <1>8, <2>2
    <3> PICK k \in 1 .. n : s = q[k] /\ d1[s] = i0[m + 1 - k]
      BY <1>8, <2>2
    <3>1. m + 1 - j \in 1 .. m /\ m + 1 - k \in 1 .. m /\ i0[m + 1 - j] = i0[m + 1 - k]
      BY <1>7, <1>11, <1>14
    <3>2. m + 1 - j = m + 1 - k
      BY <1>7, <1>11, <3>1
    <3>3. j = k
      BY ONLY <3>2, j \in 1 .. n, k \in 1 .. n, m \in Nat, n \in Nat
    <3> QED BY <3>3
  <2>3. CASE Members(running, r) /\ Members(q, s)
    BY <1>6, <1>9, <1>11, <1>14, <2>3
  <2>4. CASE Members(q, r) /\ Members(running, s)
    BY <1>6, <1>9, <1>11, <1>14, <2>4
  <2> QED BY <1>14, <2>1, <2>2, <2>3, <2>4
<1>15. ASSUME NEW i \in Ids PROVE Members(i1, i) \/ \E r : Members(rs, r) /\ d1[r] = i
  <2>1. CASE Members(i0, i)
    <3> PICK k \in 1 .. m : i0[k] = i
      BY <1>1, <2>1 DEF Members
    <3>1. CASE k \in 1 .. m - n
      BY <1>1, <1>2, <3>1 DEF Members
    <3>2. CASE k \notin 1 .. m - n
      <4> PICK j : j = m + 1 - k
        OBVIOUS
      <4>1. j \in 1 .. n /\ m + 1 - j = k
        BY <3>2
      <4>2. d1[q[j]] = i /\ Members(q, q[j])
        BY <1>1, <1>5, <4>1 DEF Members
      <4> QED BY <4>2
    <3> QED BY <3>1, <3>2
  <2>2. CASE \E r : Members(running, r) /\ d0[r] = i
    BY <1>6, <2>2
  <2> QED BY <1>11, <2>1, <2>2
<1>16. IdInv'
  BY <1>12, <1>13, <1>14, <1>15 DEF IdInv
<1> QED BY <1>1, <1>6, <1>9, <1>16

LEMMA AdmitInv ==
  ASSUME SInv, Admit
  PROVE  SInv'
<1> USE DEF SInv
<1> PICK q : q = Admitted
  OBVIOUS
<1> PICK rest : rest = SubSeq(waiting, Len(q) + 1, Len(waiting))
  OBVIOUS
<1> PICK S, c, rs : S = 1 .. submitted /\ c = running /\ rs = running'
  OBVIOUS
<1>1. /\ q # << >> /\ Len(q) <= Len(ids) /\ GiveIds(q, Len(q)) /\ waiting' = rest /\ rs = c \o q
      /\ claimed' = claimed + SumOver(block_needed, q) /\ batch' = q /\ mpc' = "forward"
      /\ mpc \in {"sleep", "next"}
      /\ UNCHANGED <<submitted, request, client, queued, got, raw, tokenizing, table, free, num_free, outputs>>
  BY DEF Admit, AtGetNextBatch, requestVars, poolVars
<1>2. Live /\ Live'
  BY <1>1 DEF Live
<1>3. /\ q \in Seq(S) /\ rest \in Seq(S) /\ rs \in Seq(S) /\ CanAdmit(q)
      /\ Line = (running \o q) \o rest \o tokenizing \o raw
      /\ Increasing(q) /\ \A r : Members(c, r) => ~Members(q, r)
  BY <1>1, <1>2, AdmitSplit
<1>4. S \in SUBSET Nat /\ S \subseteq Requests /\ c \in Seq(S) /\ \A r : Members(c, r) => r \in S
  BY TypeFacts, LineFacts
<1>5. \A r : Members(rs, r) <=> Members(c, r) \/ Members(q, r)
  BY ONLY <1>1, <1>3, <1>4, ConcatFacts
<1> PICK n \in Nat : n = Len(q)
  BY <1>3
<1>a. q \in Seq(S)
  BY <1>3
<1>6. DOMAIN q = 1 .. n /\ \A k \in 1 .. n : q[k] \in S
  BY ONLY <1>a, n = Len(q), ElementOfSeq, LenProperties
<1>7. \A r : Members(q, r) => r \in S
  BY <1>6 DEF Members
<1> PICK m \in Nat : m = Len(ids)
  BY DEF SwiftTypeOK
<1>8. /\ id' \in [Requests -> Ids \cup {-1}] /\ ids' \in Seq(Ids)
      /\ \A r : Members(c, r) => id'[r] = id[r]
      /\ \A r : Members(q, r) => Members(ids, id'[r])
      /\ IdInv'
  <2>1. q \in Seq(1 .. submitted) /\ n <= m /\ GiveIds(q, n) /\ rs = running'
        /\ (\A r : Members(rs, r) <=> Members(running, r) \/ Members(q, r))
        /\ (\A r : Members(running, r) => r \in Requests /\ ~Members(q, r))
    BY <1>1, <1>3, <1>4, <1>5
  <2> QED BY <1>2, <1>3, <2>1, GiveIdsKeeps
<1> PICK s, b : s = Sums(block_needed, q) /\ b = SumOver(block_needed, q)
  OBVIOUS
<1>9. \A k \in 1 .. n : block_needed[q[k]] \in Nat
  BY <1>6, TypeFacts
<1>10. b = s[n] /\ b \in Nat
  <2>1. \A k \in 0 .. Len(q) : s[k] \in Nat
    BY ONLY <1>a, s = Sums(block_needed, q), n = Len(q), <1>9, SumsMonotone
  <2> QED BY <2>1 DEF SumOver
<1>11. claimed' \in Nat /\ claimed' <= NumBlocks
  <2>1. b + claimed <= NumBlocks
    BY <1>3 DEF CanAdmit
  <2>2. claimed \in Nat
    BY DEF SwiftTypeOK
  <2> QED BY <1>1, <1>10, <2>1, <2>2, Sizes
<1>12. SwiftTypeOK'
  <2>1. /\ {raw, tokenizing, waiting, running, batch}' \subseteq Seq(1 .. submitted)
    BY <1>1, <1>3, TypeFacts
  <2> QED BY <1>1, <1>8, <1>11, <2>1 DEF SwiftTypeOK
<1>13. QueueInv'
  <2>1. Line' = Line
    BY <1>1, <1>3 DEF Line
  <2> PICK l, l1 : l = Line /\ l1 = Line'
    OBVIOUS
  <2>2. \A r : is_finished(r)' <=> is_finished(r)
    BY <1>1 DEF is_finished
  <2>3. (\A r \in Requests : r > submitted => outputs[r] = 0) /\ Increasing(l)
        /\ \A r : Members(l, r) <=> r \in 1 .. submitted /\ ~is_finished(r)
    BY <1>2 DEF QueueInv
  <2>4. Increasing(l1) /\ \A r : Members(l1, r) <=> r \in 1 .. submitted' /\ ~is_finished(r)'
    BY <1>1, <2>1, <2>2, <2>3
  <2> QED BY <1>1, <2>3, <2>4 DEF QueueInv
<1>14. BatchInv'
  BY <1>1, <1>3, <1>5 DEF BatchInv
<1>15. \A r : Members(q, r) => table[id'[r]] = << >> /\ id'[r] \in Ids
  <2> SUFFICES ASSUME NEW r, Members(q, r) PROVE table[id'[r]] = << >> /\ id'[r] \in Ids
    OBVIOUS
  <2>1. Members(ids, id'[r])
    BY <1>8
  <2>2. id'[r] \in Ids
    <3>1. ids \in Seq(Ids)
      BY DEF SwiftTypeOK
    <3>2. \A k \in DOMAIN ids : ids[k] \in Ids
      BY ONLY <3>1, LenProperties, ElementOfSeq
    <3> QED BY <2>1, <3>2 DEF Members
  <2>3. ASSUME table[id'[r]] # << >> PROVE FALSE
    <3>1. \E t : Members(c, t) /\ id[t] = id'[r]
      BY <1>2, <2>2, <2>3 DEF PlaceInv
    <3>2. \A t : Members(c, t) => ~Members(ids, id[t])
      BY <1>2 DEF IdInv
    <3> QED BY <2>1, <3>1, <3>2
  <2> QED BY <2>2, <2>3
<1>16. PlaceInv'
  <2>1. RowsApart(table) /\ num_free = Cardinality(free)
        /\ (\A x \in Blocks : x \in free <=> ~\E i \in Ids : Members(table[i], x))
        /\ (\A i \in Ids : table[i] # << >> => \E r : Members(c, r) /\ id[r] = i)
    BY <1>2 DEF PlaceInv
  <2>2. \A i \in Ids : table[i] # << >> => \E r : Members(rs, r) /\ id'[r] = i
    BY <1>5, <1>8, <2>1
  <2> QED BY <1>1, <2>1, <2>2 DEF PlaceInv
<1>17. block_needed' = block_needed
  BY <1>1 DEF block_needed
<1>18. RowInv'
  <2>1. ASSUME NEW r, Members(c, r) PROVE Len(table[id'[r]]) <= block_needed[r]
    BY <1>2, <1>8, <2>1 DEF RowInv
  <2>2. ASSUME NEW r, Members(q, r) PROVE Len(table[id'[r]]) <= block_needed[r]
    <3>1. block_needed[r] \in Nat /\ Len(<< >>) = 0
      BY <1>7, <2>2, TypeFacts
    <3> QED BY <1>15, <2>2, <3>1
  <2> QED BY <1>1, <1>5, <1>17, <2>1, <2>2 DEF RowInv
<1>19. ClaimInv'
  <2> PICK f : f = Missing'
    OBVIOUS
  <2>1. \A k \in 1 .. Len(q) : f[q[k]] = block_needed[q[k]]
    <3> SUFFICES ASSUME NEW k \in 1 .. n PROVE f[q[k]] = block_needed[q[k]]
      OBVIOUS
    <3>1. Members(q, q[k]) /\ q[k] \in 1 .. submitted
      BY <1>6 DEF Members
    <3>2. f[q[k]] = target_num_blocks[q[k]] - Len(table[id'[q[k]]])
      BY <1>1, <3>1 DEF Missing, target_num_blocks
    <3>3. target_num_blocks[q[k]] = block_needed[q[k]] /\ table[id'[q[k]]] = << >> /\ block_needed[q[k]] \in Nat
      BY <1>9, <1>15, <3>1 DEF target_num_blocks, block_needed
    <3> QED BY <3>2, <3>3
  <2>2. Sums(f, q)[n] = s[n]
    <3> PICK g : g = block_needed
      OBVIOUS
    <3>1. \A k \in 0 .. Len(q) : Sums(f, q)[k] = Sums(g, q)[k]
      BY ONLY <1>a, <2>1, g = block_needed, SumsSame
    <3> QED BY <3>1
  <2>3. Owed' = b
    BY <1>1, <1>10, <2>2 DEF Owed, SumOver
  <2>4. NumBlocks - num_free + 0 <= claimed /\ num_free \in Nat /\ claimed \in Nat
    <3>1. Owed = 0
      BY <1>1 DEF Owed
    <3> QED BY <1>2, <3>1 DEF ClaimInv, SwiftTypeOK
  <2>5. NumBlocks - num_free + b <= claimed + b
    BY <1>10, <2>4, Sizes
  <2> QED BY <1>1, <1>11, <2>3, <2>5 DEF ClaimInv
<1> QED BY <1>12, <1>13, <1>14, <1>8, <1>16, <1>18, <1>19

(* The main loop ends with an exception. *)
LEMMA RaisedInv ==
  ASSUME SInv, AdmitRaises \/ VictimRaises
  PROVE  SInv'
<1> USE DEF SInv
<1>1. mpc' = "raised" /\ UNCHANGED <<submitted, request, outputs>>
  BY DEF AdmitRaises, VictimRaises, requestVars
<1>2. QueueInv'
  BY <1>1 DEF QueueInv, Live
<1>3. BatchInv' /\ IdInv' /\ PlaceInv' /\ RowInv' /\ ClaimInv'
  BY <1>1 DEF BatchInv, IdInv, PlaceInv, RowInv, ClaimInv, Live
<1>4. SwiftTypeOK'
  <2>1. CASE AdmitRaises
    <3> PICK q : q = Admitted
      OBVIOUS
    <3> PICK rest : rest = SubSeq(waiting, Len(q) + 1, Len(waiting))
      OBVIOUS
    <3>1. /\ Len(q) > Len(ids) /\ GiveIds(q, Len(ids)) /\ waiting' = rest
          /\ UNCHANGED <<client, queued, got, raw, tokenizing, running, batch, claimed, table, free, num_free>>
      BY <2>1 DEF AdmitRaises, requestVars, poolVars
    <3>2. q \in Seq(1 .. submitted) /\ rest \in Seq(1 .. submitted)
      BY AdmitSplit
    <3> PICK m \in Nat : m = Len(ids)
      BY DEF SwiftTypeOK
    <3>3. m <= Len(q)
      BY <3>1, <3>2
    <3>4. IdsGiven(q, m, m)
      BY <3>1, <3>2, <3>3, GiveIdsFacts
    <3>5. id' \in [Requests -> Ids \cup {-1}] /\ ids' \in Seq(Ids)
      BY <3>4 DEF IdsGiven
    <3> QED BY <1>1, <3>1, <3>2, <3>5 DEF SwiftTypeOK
  <2>2. CASE VictimRaises
    <3>1. /\ claimed' = ClaimedNow /\ running' = Front(running)
          /\ UNCHANGED <<client, queued, got, raw, tokenizing, waiting, batch, ids, id, table, free, num_free>>
      BY <2>2 DEF VictimRaises, requestVars, poolVars
    <3> PICK q, S : q = running /\ S = 1 .. submitted
      OBVIOUS
    <3>2. q \in Seq(S) /\ \A k \in 1 .. Len(q) : q[k] \in 1 .. submitted
      BY ONLY SwiftTypeOK, q = running, S = 1 .. submitted, TypeFacts, ElementOfSeq
    <3>3. \A k \in 1 .. Len(q) : block_needed[q[k]] \in Nat
      BY <3>2, TypeFacts
    <3>4. claimed' \in Nat
      <4> PICK f : f = block_needed
        OBVIOUS
      <4>1. \A k \in 0 .. Len(q) : Sums(f, q)[k] \in Nat
        BY ONLY <3>2, <3>3, f = block_needed, SumsMonotone
      <4>2. Len(q) \in 0 .. Len(q)
        BY <3>2
      <4> QED BY <3>1, <4>1, <4>2 DEF ClaimedNow, SumOver
    <3>5. Front(q) \in Seq(S)
      <4>1. Len(q) \in Nat /\ \A k \in 1 .. Len(q) - 1 : q[k] \in S
        BY <3>2
      <4> QED BY <4>1, SubSeqProperties DEF Front
    <3> QED BY <1>1, <3>1, <3>4, <3>5 DEF SwiftTypeOK
  <2> QED BY <2>1, <2>2
<1> QED BY <1>2, <1>3, <1>4

(* How many blocks the rows of some running requests have. *)
LEMMA RowsCount ==
  ASSUME SwiftTypeOK, IdInv, PlaceInv, Live, NEW q \in Seq(1 .. submitted), Increasing(q),
         \A r : Members(q, r) => Members(running, r)
  PROVE  Cardinality({b \in Blocks : \E r : Members(q, r) /\ Members(table[id[r]], b)}) = SumOver(num_allocated, q)
<1> PICK s : s = Sums(num_allocated, q)
  OBVIOUS
<1> PICK n \in Nat : n = Len(q)
  OBVIOUS
<1>1. DOMAIN q = 1 .. n /\ \A k \in 1 .. n : q[k] \in 1 .. submitted /\ Members(q, q[k])
  <2>1. DOMAIN q = 1 .. n /\ \A k \in 1 .. n : q[k] \in 1 .. submitted
    BY ONLY n = Len(q), q \in Seq(1 .. submitted), ElementOfSeq, LenProperties
  <2> QED BY <2>1 DEF Members
<1>2. \A k \in 1 .. n : id[q[k]] \in Ids
  BY <1>1 DEF IdInv
<1> DEFINE R == [k \in 1 .. n |-> table[id[q[k]]]]
<1>3. R \in [1 .. n -> Seq(Blocks)]
  <2>1. \A i \in Ids : table[i] \in Seq(Blocks)
    BY DEF SwiftTypeOK
  <2> QED BY <1>2, <2>1
<1>4. \A k \in 1 .. n : R[k] = table[id[q[k]]]
  OBVIOUS
<1> HIDE DEF R
<1>5. s[0] = 0 /\ \A k \in 1 .. n : s[k] = s[k - 1] + Len(R[k])
  <2>1. s[0] = 0 /\ \A k \in 1 .. n : s[k] = s[k - 1] + num_allocated[q[k]]
    BY ONLY q \in Seq(1 .. submitted), n = Len(q), s = Sums(num_allocated, q), SumsLoop
  <2>2. \A k \in 1 .. n : num_allocated[q[k]] = Len(R[k])
    BY <1>1, <1>4 DEF num_allocated
  <2> QED BY <2>1, <2>2
<1>6. \A k \in 1 .. n : \A i, j \in DOMAIN R[k] : R[k][i] = R[k][j] => i = j
  BY <1>2, <1>4 DEF PlaceInv, RowsApart, Distinct
<1>7. \A j, k \in 1 .. n : \A b : Members(R[j], b) /\ Members(R[k], b) => j = k
  <2> SUFFICES ASSUME NEW j \in 1 .. n, NEW k \in 1 .. n, NEW b, Members(R[j], b), Members(R[k], b) PROVE j = k
    OBVIOUS
  <2>1. id[q[j]] = id[q[k]]
    <3> PICK x \in Ids, y \in Ids : x = id[q[j]] /\ y = id[q[k]]
      BY <1>2
    <3>1. Members(table[x], b) /\ Members(table[y], b)
      BY <1>4
    <3>2. x = y
      BY ONLY <3>1, x \in Ids, y \in Ids, Live, PlaceInv DEF PlaceInv, RowsApart
    <3> QED BY <3>2
  <2>2. q[j] = q[k]
    <3> PICK x, y : x = q[j] /\ y = q[k]
      OBVIOUS
    <3>1. Members(running, x) /\ Members(running, y) /\ id[x] = id[y]
      BY <1>1, <2>1
    <3>2. x = y
      BY ONLY <3>1, Live, IdInv DEF IdInv
    <3> QED BY <3>2
  <2>3. 1 .. submitted \in SUBSET Nat
    BY TypeFacts
  <2>4. \A x, y \in 1 .. n : q[x] = q[y] => x = y
    BY <2>3, IncreasingDistinct
  <2> QED BY <2>2, <2>4
<1>8. Cardinality(RowsUpTo(R, n)) = s[n]
  <2> PICK R0 : R0 = R
    OBVIOUS
  <2>1. R0 \in [1 .. n -> Seq(Blocks)] /\ (\A k \in 1 .. n : s[k] = s[k - 1] + Len(R0[k]))
        /\ (\A k \in 1 .. n : \A i, j \in DOMAIN R0[k] : R0[k][i] = R0[k][j] => i = j)
        /\ (\A j, k \in 1 .. n : \A b : Members(R0[j], b) /\ Members(R0[k], b) => j = k)
    BY <1>3, <1>5, <1>6, <1>7
  <2>2. n \in Nat /\ s[0] = 0
    BY <1>5
  <2>3. Cardinality(RowsUpTo(R0, n)) = s[n]
    BY ONLY <2>1, <2>2, RowSum
  <2> QED BY <2>3
<1>9. RowsUpTo(R, n) = {b \in Blocks : \E r : Members(q, r) /\ Members(table[id[r]], b)}
  <2>1. ASSUME NEW b, NEW r, Members(q, r), Members(table[id[r]], b) PROVE \E k \in 1 .. n : Members(R[k], b)
    <3> PICK k \in 1 .. n : q[k] = r
      BY <1>1, <2>1 DEF Members
    <3> QED BY <1>4, <2>1
  <2>2. ASSUME NEW b, NEW k \in 1 .. n, Members(R[k], b) PROVE \E r : Members(q, r) /\ Members(table[id[r]], b)
    BY <1>1, <1>4, <2>2
  <2> QED BY <2>1, <2>2 DEF RowsUpTo
<1> QED BY <1>8, <1>9 DEF SumOver

LEMMA InUse ==
  ASSUME SwiftTypeOK, IdInv, PlaceInv, Live, Increasing(running)
  PROVE  NumBlocks - num_free = SumOver(num_allocated, running)
<1> PICK U, F : U = {b \in Blocks : \E r : Members(running, r) /\ Members(table[id[r]], b)} /\ F = free
  OBVIOUS
<1>1. Cardinality(U) = SumOver(num_allocated, running)
  BY TypeFacts, RowsCount
<1>2. \A b \in Blocks : b \in U <=> b \notin F
  <2>1. \A b \in Blocks : b \in F <=> ~\E i \in Ids : Members(table[i], b)
    BY DEF PlaceInv
  <2>2. ASSUME NEW b \in Blocks, NEW i \in Ids, Members(table[i], b) PROVE b \in U
    <3>1. table[i] # << >>
      BY <2>2 DEF Members
    <3>2. \E r : Members(running, r) /\ id[r] = i
      BY <3>1 DEF PlaceInv
    <3> QED BY <2>2, <3>2
  <2>3. ASSUME NEW b \in Blocks, b \in U PROVE \E i \in Ids : Members(table[i], b)
    BY <2>3 DEF IdInv
  <2> QED BY <2>1, <2>2, <2>3
<1>3. F \subseteq Blocks /\ U \subseteq Blocks
  BY DEF SwiftTypeOK
<1>4. U = Blocks \ F /\ Blocks \cap F = F
  BY <1>2, <1>3
<1>5. Cardinality(U) = NumBlocks - Cardinality(F)
  BY <1>4, BlockSets, FS_Difference
<1>6. Cardinality(F) = num_free
  BY DEF PlaceInv
<1> QED BY <1>1, <1>5, <1>6

LEMMA DecodeInv ==
  ASSUME SInv, Decode
  PROVE  SInv'
<1> USE DEF SInv
<1>1. /\ ~TooMany /\ claimed' = SumOver(block_needed, running) /\ batch' = running
      /\ mpc' = IF running = << >> THEN "sleep" ELSE "forward"
      /\ mpc \in {"sleep", "next"}
      /\ UNCHANGED <<submitted, request, client, queued, got, raw, tokenizing, waiting, running, ids, id,
                     table, free, num_free, outputs>>
  BY DEF Decode, AtGetNextBatch, requestVars, poolVars, ClaimedNow
<1>2. Live /\ Live'
  BY <1>1 DEF Live
<1> PICK S, q : S = 1 .. submitted /\ q = running
  OBVIOUS
<1>3. q \in Seq(S) /\ Increasing(q)
  BY <1>2, TypeFacts, LineFacts
<1> PICK n \in Nat : n = Len(q)
  BY <1>3
<1>4. \A k \in 1 .. n : q[k] \in 1 .. submitted /\ Members(q, q[k])
  <2>1. DOMAIN q = 1 .. n /\ \A k \in 1 .. n : q[k] \in S
    BY ONLY <1>3, n = Len(q), ElementOfSeq, LenProperties
  <2> QED BY <2>1 DEF Members
<1> PICK f, g, h : f = Missing /\ g = num_allocated /\ h = block_needed
  OBVIOUS
<1>5. \A k \in 1 .. n : f[q[k]] \in Int /\ g[q[k]] \in Nat /\ h[q[k]] \in Nat /\ h[q[k]] = f[q[k]] + g[q[k]]
                        /\ f[q[k]] >= 0
  <2> SUFFICES ASSUME NEW r \in 1 .. submitted, Members(q, r)
               PROVE  f[r] \in Int /\ g[r] \in Nat /\ h[r] \in Nat /\ h[r] = f[r] + g[r] /\ f[r] >= 0
    BY <1>4
  <2>1. id[r] \in Ids
    BY <1>2 DEF IdInv
  <2>2. table[id[r]] \in Seq(Blocks)
    BY <2>1 DEF SwiftTypeOK
  <2> PICK l \in Nat : l = Len(table[id[r]])
    BY <2>2
  <2>3. g[r] = l /\ h[r] \in Nat /\ f[r] = h[r] - l
    BY TypeFacts DEF num_allocated, Missing, target_num_blocks
  <2>4. l <= h[r]
    BY <1>2 DEF RowInv
  <2> QED BY <2>3, <2>4
<1>6. /\ \A k \in 0 .. Len(q) : Sums(f, q)[k] \in Nat
      /\ \A k \in 0 .. Len(q) : Sums(g, q)[k] \in Nat
      /\ \A k \in 0 .. Len(q) : Sums(h, q)[k] \in Nat
      /\ \A k \in 0 .. Len(q) : Sums(h, q)[k] = Sums(f, q)[k] + Sums(g, q)[k]
  <2>1. \A k \in 1 .. Len(q) : f[q[k]] \in Nat /\ g[q[k]] \in Nat /\ h[q[k]] \in Nat
    BY <1>5
  <2>2. \A k \in 0 .. Len(q) : Sums(f, q)[k] \in Nat
    BY ONLY <1>3, <2>1, SumsMonotone
  <2>3. \A k \in 0 .. Len(q) : Sums(g, q)[k] \in Nat
    BY ONLY <1>3, <2>1, SumsMonotone
  <2>4. \A k \in 0 .. Len(q) : Sums(h, q)[k] \in Nat
    BY ONLY <1>3, <2>1, SumsMonotone
  <2>5. \A k \in 1 .. Len(q) : f[q[k]] \in Int /\ g[q[k]] \in Int /\ h[q[k]] = f[q[k]] + g[q[k]]
    BY <1>5
  <2>6. \A k \in 0 .. Len(q) : Sums(h, q)[k] = Sums(f, q)[k] + Sums(g, q)[k]
    BY ONLY <1>3, <2>5, SumsSum
  <2> QED BY <2>2, <2>3, <2>4, <2>6
<1> PICK a \in Nat, b \in Nat, c \in Nat : a = Sums(f, q)[n] /\ b = Sums(g, q)[n] /\ c = Sums(h, q)[n]
  BY <1>6
<1>7. c = a + b
  BY <1>6
<1>8. claimed' = c
  BY <1>1 DEF SumOver
<1>9. c <= NumBlocks
  <2>1. ~(c > NumBlocks)
    BY <1>1 DEF TooMany, ClaimedNow, SumOver
  <2> QED BY <2>1, Sizes
<1>10. NumBlocks - num_free = b
  <2>1. NumBlocks - num_free = SumOver(num_allocated, running)
    BY <1>2, <1>3, InUse
  <2> QED BY <2>1 DEF SumOver
<1>11. SwiftTypeOK'
  <2>1. {raw, tokenizing, waiting, running, batch}' \subseteq Seq(1 .. submitted)
    BY <1>1, <1>3, TypeFacts
  <2>2. mpc' \in {"sleep", "forward"}
    BY <1>1
  <2> QED BY <1>1, <1>8, <2>1, <2>2 DEF SwiftTypeOK
<1>12. QueueInv'
  <2> PICK l, l1 : l = Line /\ l1 = Line'
    OBVIOUS
  <2>1. l1 = l
    BY <1>1 DEF Line
  <2>2. \A r : is_finished(r)' <=> is_finished(r)
    BY <1>1 DEF is_finished
  <2>3. (\A r \in Requests : r > submitted => outputs[r] = 0) /\ Increasing(l)
        /\ \A r : Members(l, r) <=> r \in 1 .. submitted /\ ~is_finished(r)
    BY <1>2 DEF QueueInv
  <2>4. Increasing(l1) /\ \A r : Members(l1, r) <=> r \in 1 .. submitted' /\ ~is_finished(r)'
    BY <1>1, <2>1, <2>2, <2>3
  <2> QED BY <1>1, <2>3, <2>4 DEF QueueInv
<1>13. BatchInv'
  BY <1>1, <1>3 DEF BatchInv
<1>14. IdInv' /\ PlaceInv'
  BY <1>1, <1>2 DEF IdInv, PlaceInv
<1>15. RowInv'
  <2>1. block_needed' = block_needed
    BY <1>1 DEF block_needed
  <2> QED BY <1>1, <1>2, <2>1 DEF RowInv
<1>16. ClaimInv'
  <2>1. Owed' = 0 \/ Owed' = a
    <3>1. Missing' = Missing
      BY <1>1 DEF Missing, target_num_blocks
    <3>2. SumOver(Missing, batch)' = a
      BY <1>1, <3>1 DEF SumOver
    <3> QED BY <3>2 DEF Owed
  <2>2. NumBlocks - num_free + 0 <= c /\ NumBlocks - num_free + a <= c
    BY <1>7, <1>10
  <2> QED BY <1>1, <1>8, <1>9, <2>1, <2>2 DEF ClaimInv
<1> QED BY <1>11, <1>12, <1>13, <1>14, <1>15, <1>16

-----------------------------------------------------------------------------
(* The forward pass. *)
SliceOf(row, f, a, b, B) ==
  /\ row \in Seq(B) /\ Len(row) = b - a /\ Distinct(row)
  /\ \A x : Members(row, x) <=> \E p \in a + 1 .. b : f[p] = x

LEMMA SliceFacts ==
  ASSUME NEW B, NEW n \in Nat, NEW f \in [1 .. n -> B], NEW a \in Nat, NEW b \in Nat, a <= b, b <= n,
         NEW row, row = SubSeq(f, a + 1, b), \A j, k \in 1 .. n : f[j] = f[k] => j = k
  PROVE  SliceOf(row, f, a, b, B)
<1>1. \A i \in a + 1 .. b : f[i] \in B
  OBVIOUS
<1>2. a + 1 \in Int /\ b \in Int
  OBVIOUS
<1>3. /\ row \in Seq(B) /\ Len(row) = IF a + 1 <= b THEN b - (a + 1) + 1 ELSE 0
      /\ \A i \in 1 .. b - (a + 1) + 1 : row[i] = f[a + 1 + i - 1]
  BY ONLY <1>1, <1>2, row = SubSeq(f, a + 1, b), SubSeqProperties
<1>4. Len(row) = b - a /\ b - a \in Nat
  BY <1>3
<1>5. ASSUME NEW i \in 1 .. b - a PROVE row[i] = f[a + i]
  <2>1. i \in 1 .. b - (a + 1) + 1 /\ a + 1 + i - 1 = a + i
    OBVIOUS
  <2> QED BY <1>3, <2>1
<1>6. DOMAIN row = 1 .. b - a
  BY <1>3, <1>4
<1>7. ASSUME NEW x, NEW i \in 1 .. b - a, row[i] = x PROVE \E p \in a + 1 .. b : f[p] = x
  <2>1. a + i \in a + 1 .. b
    OBVIOUS
  <2> QED BY <1>5, <1>7, <2>1
<1>8. ASSUME NEW x, NEW p \in a + 1 .. b, f[p] = x PROVE \E i \in 1 .. b - a : row[i] = x
  <2>1. p - a \in 1 .. b - a /\ a + (p - a) = p
    OBVIOUS
  <2>2. row[p - a] = f[a + (p - a)]
    BY <1>5, <2>1
  <2> QED BY <1>8, <2>1, <2>2
<1>9. Distinct(row)
  <2> SUFFICES ASSUME NEW i \in 1 .. b - a, NEW j \in 1 .. b - a, row[i] = row[j] PROVE i = j
    BY <1>6 DEF Distinct
  <2>1. a + i \in 1 .. n /\ a + j \in 1 .. n
    OBVIOUS
  <2>2. f[a + i] = f[a + j]
    BY <1>5
  <2>3. a + i = a + j
    BY <2>1, <2>2
  <2> QED BY <2>3
<1>10. \A x : Members(row, x) <=> \E p \in a + 1 .. b : f[p] = x
  BY <1>6, <1>7, <1>8 DEF Members
<1> QED BY <1>3, <1>4, <1>9, <1>10 DEF SliceOf

LEMMA ConcatDistinct ==
  ASSUME NEW S, NEW a \in Seq(S), NEW b \in Seq(S), NEW c, c = a \o b, Distinct(a), Distinct(b),
         \A x : ~(Members(a, x) /\ Members(b, x))
  PROVE  Distinct(c)
<1> PICK m \in Nat, n \in Nat : m = Len(a) /\ n = Len(b)
  OBVIOUS
<1>1. /\ DOMAIN a = 1 .. m /\ DOMAIN b = 1 .. n /\ DOMAIN c = 1 .. m + n
      /\ \A k \in 1 .. m : c[k] = a[k]
      /\ \A k \in 1 .. m + n : k \notin 1 .. m => c[k] = b[k - m]
  OBVIOUS
<1> SUFFICES ASSUME NEW j \in 1 .. m + n, NEW k \in 1 .. m + n, c[j] = c[k] PROVE j = k
  BY <1>1 DEF Distinct
<1>2. \A i \in 1 .. m + n : i \notin 1 .. m => i - m \in 1 .. n
  OBVIOUS
<1>3. CASE j \in 1 .. m /\ k \in 1 .. m
  <2>1. a[j] = a[k] /\ j \in DOMAIN a /\ k \in DOMAIN a
    BY <1>1, <1>3
  <2> QED BY ONLY <2>1, Distinct(a) DEF Distinct
<1>4. CASE j \notin 1 .. m /\ k \notin 1 .. m
  <2>1. j - m = k - m
    <3>1. c[j] = b[j - m] /\ c[k] = b[k - m]
      BY <1>1, <1>4
    <3>2. j - m \in DOMAIN b /\ k - m \in DOMAIN b
      BY <1>1, <1>2, <1>4
    <3> QED BY <3>1, <3>2 DEF Distinct
  <2> QED BY <2>1
<1>5. ASSUME NEW x \in 1 .. m, NEW y \in 1 .. m + n, y \notin 1 .. m, c[x] = c[y] PROVE FALSE
  <2>1. Members(a, c[x])
    BY <1>1 DEF Members
  <2>2. Members(b, c[x])
    <3>1. c[y] = b[y - m] /\ y - m \in DOMAIN b
      BY <1>1, <1>2, <1>5
    <3> QED BY <1>5, <3>1 DEF Members
  <2> QED BY <2>1, <2>2
<1> QED BY <1>3, <1>4, <1>5

(* Rows to which disjoint slices of the new blocks are added. *)
Dealing(B, n, f, m, s, I, at, old, tab) ==
  /\ n \in Nat /\ f \in [1 .. n -> B] /\ (\A j, k \in 1 .. n : f[j] = f[k] => j = k)
  /\ m \in Nat /\ s[0] = 0 /\ s[m] = n /\ (\A k \in 0 .. m : s[k] \in Nat)
  /\ (\A j, k \in 0 .. m : j <= k => s[j] <= s[k])
  /\ at \in [1 .. m -> I] /\ (\A j, k \in 1 .. m : at[j] = at[k] => j = k)
  /\ old \in [I -> Seq(B)] /\ DOMAIN tab = I
  /\ (\A i \in I : (\A k \in 1 .. m : at[k] # i) => tab[i] = old[i])
  /\ (\A k \in 1 .. m : tab[at[k]] = old[at[k]] \o SubSeq(f, s[k - 1] + 1, s[k]))
  /\ RowsApart(old) /\ I = Ids
  /\ \A i \in I : \A k \in 1 .. n : ~Members(old[i], f[k])
Dealed(B, n, f, m, s, I, at, old, tab) ==
  /\ \A i \in I : tab[i] \in Seq(B)
  /\ \A k \in 1 .. m : Len(tab[at[k]]) = Len(old[at[k]]) + (s[k] - s[k - 1])
  /\ \A x : (\E i \in I : Members(tab[i], x)) <=>
              (\E i \in I : Members(old[i], x)) \/ \E p \in 1 .. n : f[p] = x
  /\ RowsApart(tab)

LEMMA DealtRows ==
  ASSUME NEW B, NEW n, NEW f, NEW m, NEW s, NEW I, NEW at, NEW old, NEW tab,
         Dealing(B, n, f, m, s, I, at, old, tab)
  PROVE  Dealed(B, n, f, m, s, I, at, old, tab)
<1>0. /\ n \in Nat /\ f \in [1 .. n -> B] /\ (\A j, k \in 1 .. n : f[j] = f[k] => j = k)
      /\ m \in Nat /\ s[0] = 0 /\ s[m] = n /\ (\A k \in 0 .. m : s[k] \in Nat)
      /\ (\A j, k \in 0 .. m : j <= k => s[j] <= s[k])
      /\ at \in [1 .. m -> I] /\ (\A j, k \in 1 .. m : at[j] = at[k] => j = k)
      /\ old \in [I -> Seq(B)] /\ DOMAIN tab = I
      /\ (\A i \in I : (\A k \in 1 .. m : at[k] # i) => tab[i] = old[i])
      /\ (\A k \in 1 .. m : tab[at[k]] = old[at[k]] \o SubSeq(f, s[k - 1] + 1, s[k]))
      /\ RowsApart(old) /\ I = Ids
      /\ \A i \in I : \A k \in 1 .. n : ~Members(old[i], f[k])
  BY DEF Dealing
<1> USE <1>0
<1> DEFINE Slice(k, x) == \E p \in s[k - 1] + 1 .. s[k] : f[p] = x
<1>1. ASSUME NEW k \in 1 .. m
      PROVE  /\ s[k - 1] \in Nat /\ s[k] \in Nat /\ s[k - 1] <= s[k] /\ s[k] <= n
  <2>1. k - 1 \in 0 .. m /\ k \in 0 .. m /\ m \in 0 .. m /\ k - 1 <= k /\ k <= m
    OBVIOUS
  <2> QED BY <2>1
<1>2. ASSUME NEW k \in 1 .. m
      PROVE  \E r \in Seq(B) :
               /\ tab[at[k]] = old[at[k]] \o r /\ Len(r) = s[k] - s[k - 1]
               /\ \A x : Members(r, x) <=> Slice(k, x)
               /\ Distinct(r)
  <2> PICK a, b, r : a = s[k - 1] /\ b = s[k] /\ r = SubSeq(f, a + 1, b)
    OBVIOUS
  <2>1. a \in Nat /\ b \in Nat /\ a <= b /\ b <= n /\ r = SubSeq(f, a + 1, b)
    BY <1>1
  <2>2. n \in Nat /\ f \in [1 .. n -> B] /\ \A j, h \in 1 .. n : f[j] = f[h] => j = h
    OBVIOUS
  <2>3. SliceOf(r, f, a, b, B)
    BY ONLY <2>1, <2>2, SliceFacts
  <2>4. tab[at[k]] = old[at[k]] \o r
    OBVIOUS
  <2>5. r \in Seq(B) /\ Len(r) = s[k] - s[k - 1] /\ Distinct(r) /\ \A x : Members(r, x) <=> Slice(k, x)
    BY <2>3 DEF SliceOf
  <2> QED BY ONLY <2>4, <2>5
<1> HIDE DEF Slice
<1>3. ASSUME NEW k \in 1 .. m, NEW x, Slice(k, x) PROVE \E p \in 1 .. n : f[p] = x
  <2> PICK p \in s[k - 1] + 1 .. s[k] : f[p] = x
    BY <1>3 DEF Slice
  <2>1. p \in 1 .. n
    BY <1>1
  <2> QED BY <2>1
<1>4. ASSUME NEW p \in 1 .. n PROVE \E k \in 1 .. m : Slice(k, f[p])
  <2>1. \E k \in 1 .. m : p \in s[k - 1] + 1 .. s[k]
    BY Dealt
  <2> QED BY <2>1 DEF Slice
<1>5. ASSUME NEW j \in 1 .. m, NEW k \in 1 .. m, NEW x, Slice(j, x), Slice(k, x) PROVE ~(j < k)
  <2> SUFFICES ASSUME j < k PROVE FALSE
    OBVIOUS
  <2> PICK p \in s[j - 1] + 1 .. s[j] : f[p] = x
    BY <1>5 DEF Slice
  <2> PICK q \in s[k - 1] + 1 .. s[k] : f[q] = x
    BY <1>5 DEF Slice
  <2>1. p \in 1 .. n /\ q \in 1 .. n
    <3> PICK a \in Nat, b \in Nat : a = s[j - 1] /\ b = s[j] /\ b <= n
      BY <1>1
    <3> PICK c \in Nat, d \in Nat : c = s[k - 1] /\ d = s[k] /\ d <= n
      BY <1>1
    <3>1. p \in a + 1 .. b /\ q \in c + 1 .. d
      OBVIOUS
    <3> QED BY ONLY <3>1, a \in Nat, b \in Nat, b <= n, c \in Nat, d \in Nat, d <= n, n \in Nat
  <2>2. p = q
    BY <2>1
  <2>3. j \in 0 .. m /\ k - 1 \in 0 .. m /\ j <= k - 1
    OBVIOUS
  <2>4. s[j] <= s[k - 1] /\ s[j] \in Nat /\ s[k - 1] \in Nat /\ s[k] \in Nat /\ s[j - 1] \in Nat
    BY <1>1, <2>3
  <2> PICK u \in Nat, v \in Nat, w \in Nat, z \in Nat : u = s[j] /\ v = s[k - 1] /\ w = s[k] /\ z = s[j - 1]
    BY <2>4
  <2>5. u <= v /\ p \in z + 1 .. u /\ p \in v + 1 .. w
    BY <2>2, <2>4
  <2> QED BY ONLY <2>5, u \in Nat, v \in Nat, w \in Nat, z \in Nat
<1>6. ASSUME NEW i \in I
      PROVE  /\ tab[i] \in Seq(B)
             /\ Distinct(tab[i])
             /\ \A x : Members(tab[i], x) <=> Members(old[i], x) \/ \E k \in 1 .. m : at[k] = i /\ Slice(k, x)
  <2>0. old[i] \in Seq(B) /\ Distinct(old[i])
    BY DEF RowsApart
  <2>1. CASE \A k \in 1 .. m : at[k] # i
    BY <2>0, <2>1
  <2>2. CASE \E k \in 1 .. m : at[k] = i
    <3> PICK k \in 1 .. m : at[k] = i
      BY <2>2
    <3> PICK r \in Seq(B) :
               /\ tab[at[k]] = old[at[k]] \o r /\ Len(r) = s[k] - s[k - 1]
               /\ \A x : Members(r, x) <=> Slice(k, x)
               /\ Distinct(r)
      BY <1>2
    <3> PICK a, c : a = old[i] /\ c = tab[i]
      OBVIOUS
    <3>1. a \in Seq(B) /\ r \in Seq(B) /\ c = a \o r
      BY <2>0
    <3>2. c \in Seq(B) /\ \A x : Members(c, x) <=> Members(a, x) \/ Members(r, x)
      BY ONLY <3>1, ConcatFacts
    <3>3. \A x : ~(Members(a, x) /\ Members(r, x))
      BY <1>3
    <3>4. Distinct(a) /\ Distinct(r)
      BY <2>0
    <3>5. Distinct(c)
      BY ONLY <3>1, <3>3, <3>4, ConcatDistinct
    <3>6. \A x : Members(r, x) <=> \E j \in 1 .. m : at[j] = i /\ Slice(j, x)
      OBVIOUS
    <3> QED BY <3>2, <3>5, <3>6
  <2> QED BY <2>1, <2>2
<1>7. ASSUME NEW i \in I, NEW j \in I, NEW x, Members(tab[i], x), Members(tab[j], x) PROVE i = j
  <2>1. CASE Members(old[i], x) /\ Members(old[j], x)
    BY <2>1 DEF RowsApart
  <2>2. ASSUME NEW g \in I, NEW h \in I, NEW k \in 1 .. m, Members(old[g], x), Slice(k, x) PROVE FALSE
    <3>1. \E p \in 1 .. n : f[p] = x
      BY <1>3, <2>2
    <3> QED BY <2>2, <3>1
  <2>3. ASSUME NEW k \in 1 .. m, at[k] = i, Slice(k, x), NEW h \in 1 .. m, at[h] = j, Slice(h, x) PROVE i = j
    <3>1. ~(k < h) /\ ~(h < k)
      BY <1>5, <2>3
    <3>2. k = h
      BY <3>1
    <3> QED BY <2>3, <3>2
  <2>4. /\ Members(old[i], x) \/ \E k \in 1 .. m : at[k] = i /\ Slice(k, x)
        /\ Members(old[j], x) \/ \E k \in 1 .. m : at[k] = j /\ Slice(k, x)
    BY <1>6, <1>7
  <2> QED BY <2>1, <2>2, <2>3, <2>4
<1>8. RowsApart(tab)
  BY <1>6, <1>7 DEF RowsApart
<1>9. ASSUME NEW k \in 1 .. m PROVE Len(tab[at[k]]) = Len(old[at[k]]) + (s[k] - s[k - 1])
  <2> PICK r \in Seq(B) : tab[at[k]] = old[at[k]] \o r /\ Len(r) = s[k] - s[k - 1]
    BY <1>2
  <2> PICK a, c : a = old[at[k]] /\ c = tab[at[k]]
    OBVIOUS
  <2>1. a \in Seq(B) /\ r \in Seq(B) /\ c = a \o r
    OBVIOUS
  <2>2. Len(c) = Len(a) + Len(r)
    BY ONLY <2>1, ConcatProperties
  <2> QED BY <2>2
<1>10. \A x : (\E i \in I : Members(tab[i], x)) <=>
                (\E i \in I : Members(old[i], x)) \/ \E p \in 1 .. n : f[p] = x
  <2>1. ASSUME NEW x, NEW p \in 1 .. n, f[p] = x PROVE \E i \in I : Members(tab[i], x)
    <3> PICK k \in 1 .. m : Slice(k, f[p])
      BY <1>4
    <3>1. at[k] \in I /\ Members(tab[at[k]], x)
      BY <1>6, <2>1
    <3> QED BY <3>1
  <2> QED BY <1>3, <1>6, <2>1
<1> QED BY <1>6, <1>8, <1>9, <1>10 DEF Dealed

LEMMA ForwardInv ==
  ASSUME SInv, Forward
  PROVE  SInv'
<1> USE DEF SInv
<1> PICK q, f, S : q = batch /\ f = Missing /\ S = 1 .. submitted
  OBVIOUS
<1> PICK s : s = Sums(f, q)
  OBVIOUS
<1>1. q \in Seq(S)
  BY TypeFacts
<1> PICK m \in Nat : m = Len(q)
  BY <1>1
<1> PICK n : n = s[m]
  OBVIOUS
<1> PICK new : new = [k \in 1 .. n |-> LowestFree(k)]
  OBVIOUS
<1> PICK t0, t1 : t0 = table /\ t1 = table'
  OBVIOUS
<1>2. /\ mpc = "forward" /\ mpc' = "post"
      /\ UNCHANGED <<submitted, request, client, queued, got, waiting, running, batch, claimed, ids, id,
                     raw, tokenizing, outputs>>
  BY DEF Forward, requestVars, schedVars
<1>3. Live /\ Live' /\ Increasing(q) /\ \A r : Members(q, r) => Members(running, r)
  BY <1>2 DEF Live, BatchInv
<1>4. CanAllocate
  BY DEF Forward
<1>5. free' = free \ ToSet(new) /\ num_free' = num_free - n
  BY DEF Forward, SumOver
<1>6. t1 = [i \in Ids |->
              IF \E k \in 1 .. m : id[q[k]] = i
              THEN t0[i] \o SubSeq(new, s[(CHOOSE k \in 1 .. m : id[q[k]] = i) - 1] + 1,
                                        s[CHOOSE k \in 1 .. m : id[q[k]] = i])
              ELSE t0[i]]
  <2>1. DOMAIN q = 1 .. m
    BY <1>1
  <2> QED BY <2>1 DEF Forward, SumOver
<1>7. \A k \in 1 .. m : q[k] \in 1 .. submitted /\ Members(q, q[k])
  <2>1. DOMAIN q = 1 .. m /\ \A k \in 1 .. m : q[k] \in S
    BY ONLY <1>1, m = Len(q), ElementOfSeq, LenProperties
  <2> QED BY <2>1 DEF Members
<1>8. \A k \in 1 .. m : id[q[k]] \in Ids
  BY <1>3, <1>7 DEF IdInv
<1>9. \A j, k \in 1 .. m : id[q[j]] = id[q[k]] => j = k
  <2> SUFFICES ASSUME NEW j \in 1 .. m, NEW k \in 1 .. m, id[q[j]] = id[q[k]] PROVE j = k
    OBVIOUS
  <2> PICK x, y : x = q[j] /\ y = q[k]
    OBVIOUS
  <2>1. Members(running, x) /\ Members(running, y) /\ id[x] = id[y]
    BY <1>3, <1>7
  <2>2. x = y
    BY ONLY <1>3, <2>1, IdInv DEF IdInv
  <2>3. S \in SUBSET Nat
    BY TypeFacts
  <2>4. \A i, h \in 1 .. Len(q) : q[i] = q[h] => i = h
    BY ONLY <1>1, <1>3, <2>3, IncreasingDistinct
  <2> QED BY <2>2, <2>4
<1> PICK at : at = [k \in 1 .. m |-> id[q[k]]]
  OBVIOUS
<1>10. at \in [1 .. m -> Ids] /\ (\A k \in 1 .. m : at[k] = id[q[k]]) /\ \A j, k \in 1 .. m : at[j] = at[k] => j = k
  BY <1>8, <1>9
<1>11. t0 \in [Ids -> Seq(Blocks)]
  BY DEF SwiftTypeOK
<1>12. \A k \in 1 .. m : f[q[k]] \in Nat /\ f[q[k]] = block_needed[q[k]] - Len(t0[at[k]]) /\ Len(t0[at[k]]) \in Nat
  <2> SUFFICES ASSUME NEW k \in 1 .. m
               PROVE  f[q[k]] \in Nat /\ f[q[k]] = block_needed[q[k]] - Len(t0[at[k]]) /\ Len(t0[at[k]]) \in Nat
    OBVIOUS
  <2>1. t0[at[k]] \in Seq(Blocks)
    BY <1>10, <1>11
  <2>2. Len(t0[at[k]]) \in Nat
    BY <2>1
  <2>3. block_needed[q[k]] \in Nat /\ f[q[k]] = block_needed[q[k]] - Len(t0[at[k]])
    BY <1>7, <1>10, TypeFacts DEF Missing, target_num_blocks
  <2>4. f[q[k]] >= 0
    <3>1. q[k] \in ToSet(batch)
      BY <1>7, MembersSet
    <3> QED BY <1>4, <3>1 DEF CanAllocate
  <2> QED BY <2>2, <2>3, <2>4
<1>13. /\ s[0] = 0 /\ (\A k \in 1 .. m : s[k] = s[k - 1] + f[q[k]])
       /\ (\A k \in 0 .. m : s[k] \in Nat) /\ \A j, k \in 0 .. m : j <= k => s[j] <= s[k]
  <2>1. s[0] = 0 /\ \A k \in 1 .. m : s[k] = s[k - 1] + f[q[k]]
    BY ONLY <1>1, m = Len(q), s = Sums(f, q), SumsLoop
  <2>2. \A k \in 1 .. Len(q) : f[q[k]] \in Nat
    BY <1>12
  <2>3. /\ \A k \in 0 .. Len(q) : Sums(f, q)[k] \in Nat
        /\ \A j, k \in 0 .. Len(q) : j <= k => Sums(f, q)[j] <= Sums(f, q)[k]
    BY ONLY <1>1, <2>2, SumsMonotone
  <2> QED BY <2>1, <2>3
<1>14. n \in Nat /\ n <= num_free /\ num_free = Cardinality(free) /\ num_free \in Nat /\ num_free <= NumBlocks
  <2>1. n \in Nat
    BY <1>13
  <2>2. n <= num_free
    BY <1>4 DEF CanAllocate, SumOver
  <2>3. num_free = Cardinality(free) /\ num_free \in 0 .. NumBlocks
    BY <1>3 DEF PlaceInv, SwiftTypeOK
  <2> QED BY <2>1, <2>2, <2>3, Sizes
<1>15. free \subseteq Blocks
  BY DEF SwiftTypeOK
<1>16. \A k \in 1 .. n : new[k] \in free /\ Cardinality({c \in free : c < new[k]}) = k - 1
  <2> SUFFICES ASSUME NEW k \in 1 .. n PROVE new[k] \in free /\ Cardinality({c \in free : c < new[k]}) = k - 1
    OBVIOUS
  <2>1. k \in 1 .. Cardinality(free)
    BY <1>14
  <2>2. LowestFree(k) \in free /\ Cardinality({c \in free : c < LowestFree(k)}) = k - 1
    BY <1>15, <2>1, LowestFacts
  <2> QED BY <2>2
<1>17. new \in [1 .. n -> Blocks] /\ \A j, k \in 1 .. n : new[j] = new[k] => j = k
  <2>1. new \in [1 .. n -> Blocks]
    BY <1>15, <1>16
  <2>2. ASSUME NEW j \in 1 .. n, NEW k \in 1 .. n, new[j] = new[k] PROVE j = k
    <3>1. j - 1 = k - 1
      BY <1>16, <2>2
    <3> QED BY <3>1
  <2> QED BY <2>1, <2>2
<1>18. DOMAIN t1 = Ids /\ \A i \in Ids : (\A k \in 1 .. m : at[k] # i) => t1[i] = t0[i]
  <2>1. DOMAIN t1 = Ids
    BY ONLY <1>6
  <2> SUFFICES ASSUME NEW i \in Ids, \A k \in 1 .. m : at[k] # i PROVE t1[i] = t0[i]
    BY <2>1
  <2>2. ~\E k \in 1 .. m : id[q[k]] = i
    BY <1>10
  <2> QED BY ONLY <1>6, <2>2, i \in Ids
<1>19. \A k \in 1 .. m : t1[at[k]] = t0[at[k]] \o SubSeq(new, s[k - 1] + 1, s[k])
  <2> SUFFICES ASSUME NEW k \in 1 .. m PROVE t1[at[k]] = t0[at[k]] \o SubSeq(new, s[k - 1] + 1, s[k])
    OBVIOUS
  <2> PICK i \in Ids : i = at[k]
    BY <1>10
  <2> PICK h : h = CHOOSE j \in 1 .. m : id[q[j]] = i
    OBVIOUS
  <2>1. \E j \in 1 .. m : id[q[j]] = i
    BY <1>10
  <2>2. h \in 1 .. m /\ id[q[h]] = i
    BY <2>1
  <2>3. h = k
    BY <1>10, <2>2
  <2>4. t1[i] = t0[i] \o SubSeq(new, s[h - 1] + 1, s[h])
    BY ONLY <1>6, <2>1, i \in Ids, h = CHOOSE j \in 1 .. m : id[q[j]] = i
  <2> QED BY <2>3, <2>4
<1>20. RowsApart(t0) /\ \A b \in Blocks : b \in free <=> ~\E i \in Ids : Members(t0[i], b)
  BY <1>3 DEF PlaceInv
<1>21. \A i \in Ids : \A k \in 1 .. n : ~Members(t0[i], new[k])
  BY <1>15, <1>16, <1>20
<1>22. /\ \A i \in Ids : t1[i] \in Seq(Blocks)
       /\ \A k \in 1 .. m : Len(t1[at[k]]) = Len(t0[at[k]]) + (s[k] - s[k - 1])
       /\ \A x : (\E i \in Ids : Members(t1[i], x)) <=>
                     (\E i \in Ids : Members(t0[i], x)) \/ \E p \in 1 .. n : new[p] = x
       /\ RowsApart(t1)
  <2> PICK I, B : I = Ids /\ B = Blocks
    OBVIOUS
  <2>1. Dealing(B, n, new, m, s, I, at, t0, t1)
    BY <1>10, <1>11, <1>13, <1>14, <1>17, <1>18, <1>19, <1>20, <1>21 DEF Dealing
  <2>2. Dealed(B, n, new, m, s, I, at, t0, t1)
    BY ONLY <2>1, DealtRows
  <2> QED BY <2>2 DEF Dealed
<1>23. t1 \in [Ids -> Seq(Blocks)]
  <2>1. t1 = [i \in Ids |-> t1[i]]
    BY <1>6
  <2> QED BY <1>22, <2>1
<1> PICK D : D = ToSet(new)
  OBVIOUS
<1>24. D \subseteq free /\ IsFiniteSet(D) /\ Cardinality(D) = n /\ \A b : b \in D <=> \E p \in 1 .. n : new[p] = b
  <2>1. \A b : b \in D <=> \E p \in 1 .. n : new[p] = b
    <3>1. DOMAIN new = 1 .. n
      BY <1>17
    <3> QED BY <3>1 DEF ToSet
  <2>2. D \subseteq free
    <3> SUFFICES ASSUME NEW b \in D PROVE b \in free
      OBVIOUS
    <3> PICK p \in 1 .. n : new[p] = b
      BY <2>1
    <3> QED BY <1>16
  <2>3. IsFiniteSet(D) /\ Cardinality(D) = n
    <3>1. (\A k \in 1 .. n : new[k] \in D) /\ \A b \in D : \E k \in 1 .. n : new[k] = b
      BY <2>1
    <3>2. n \in Nat /\ \A j, k \in 1 .. n : new[j] = new[k] => j = k
      BY <1>14, <1>17
    <3> QED BY ONLY <3>1, <3>2, DistinctCount
  <2> QED BY <2>1, <2>2, <2>3
<1>25. free' = free \ D /\ free' \subseteq Blocks /\ num_free' = Cardinality(free') /\ num_free' \in 0 .. NumBlocks
  <2>1. free' = free \ D
    BY <1>5
  <2> PICK F, G : F = free /\ G = free'
    OBVIOUS
  <2>2. IsFiniteSet(F) /\ Cardinality(F) = num_free
    BY <1>14, <1>15, BlockSets
  <2>3. G = F \ D /\ F \cap D = D
    BY <1>24, <2>1
  <2>4. Cardinality(G) = Cardinality(F) - Cardinality(F \cap D)
    BY ONLY <2>2, <2>3, FS_Difference
  <2>5. Cardinality(G) = num_free - n
    BY <1>24, <2>2, <2>3, <2>4
  <2>6. num_free - n \in 0 .. NumBlocks
    BY <1>14, Sizes
  <2> QED BY <1>5, <1>15, <2>1, <2>5, <2>6
<1>26. SwiftTypeOK'
  BY <1>2, <1>23, <1>25 DEF SwiftTypeOK
<1>27. QueueInv'
  <2>1. Line' = Line /\ (Live' <=> Live)
    BY <1>2, <1>3 DEF Line
  <2>2. \A r : is_finished(r)' <=> is_finished(r)
    BY <1>2 DEF is_finished
  <2> PICK l, l1 : l = Line /\ l1 = Line'
    OBVIOUS
  <2>3. (\A r \in Requests : r > submitted => outputs[r] = 0) /\ Increasing(l)
        /\ \A r : Members(l, r) <=> r \in 1 .. submitted /\ ~is_finished(r)
    BY <1>3 DEF QueueInv
  <2>4. Increasing(l1) /\ \A r : Members(l1, r) <=> r \in 1 .. submitted' /\ ~is_finished(r)'
    BY <1>2, <2>1, <2>2, <2>3
  <2> QED BY <1>2, <2>3, <2>4 DEF QueueInv
<1>28. BatchInv' /\ IdInv'
  BY <1>2, <1>3 DEF BatchInv, IdInv
<1>29. PlaceInv'
  <2>1. \A b \in Blocks : b \in free' <=> ~\E i \in Ids : Members(t1[i], b)
    BY <1>20, <1>22, <1>24, <1>25
  <2>2. \A i \in Ids : t1[i] # << >> => \E r : Members(running, r) /\ id[r] = i
    <3> SUFFICES ASSUME NEW i \in Ids, t1[i] # << >> PROVE \E r : Members(running, r) /\ id[r] = i
      OBVIOUS
    <3>1. CASE \A k \in 1 .. m : at[k] # i
      BY <1>3, <1>18, <3>1 DEF PlaceInv
    <3>2. CASE \E k \in 1 .. m : at[k] = i
      BY <1>3, <1>7, <1>10, <3>2
    <3> QED BY <3>1, <3>2
  <2> QED BY <1>2, <1>22, <1>25, <2>1, <2>2 DEF PlaceInv
<1>30. RowInv'
  <2>1. block_needed' = block_needed
    BY <1>2 DEF block_needed
  <2> SUFFICES ASSUME NEW r, Members(running, r) PROVE Len(t1[id[r]]) <= block_needed[r]
    BY <1>2, <2>1 DEF RowInv
  <2>2. id[r] \in Ids
    BY <1>3 DEF IdInv
  <2>3. CASE \A k \in 1 .. m : at[k] # id[r]
    BY <1>3, <1>18, <2>2, <2>3 DEF RowInv
  <2>4. CASE \E k \in 1 .. m : at[k] = id[r]
    <3> PICK k \in 1 .. m : at[k] = id[r]
      BY <2>4
    <3> PICK x : x = q[k]
      OBVIOUS
    <3>1. Members(running, x) /\ id[x] = id[r]
      BY <1>3, <1>7, <1>10
    <3>2. x = r
      BY ONLY <1>3, <3>1, Members(running, r), IdInv DEF IdInv
    <3>3. s[k] = s[k - 1] + f[r] /\ s[k - 1] \in Nat /\ f[r] = block_needed[r] - Len(t0[at[k]])
          /\ Len(t0[at[k]]) \in Nat /\ f[r] \in Nat
      <4>1. k - 1 \in 0 .. m
        OBVIOUS
      <4>2. s[k] = s[k - 1] + f[x] /\ s[k - 1] \in Nat
        BY <1>13, <4>1
      <4>3. f[x] \in Nat /\ f[x] = block_needed[x] - Len(t0[at[k]]) /\ Len(t0[at[k]]) \in Nat
        BY <1>12
      <4> QED BY <3>2, <4>2, <4>3
    <3>4. Len(t1[id[r]]) = Len(t0[at[k]]) + (s[k] - s[k - 1])
      BY <1>22
    <3>5. block_needed[r] \in Nat
      BY <1>7, <3>2, TypeFacts
    <3> PICK u, v, w, x0, y0, z0 :
          u = s[k - 1] /\ v = s[k] /\ w = f[r] /\ x0 = block_needed[r] /\ y0 = Len(t0[at[k]]) /\ z0 = Len(t1[id[r]])
      OBVIOUS
    <3>6. v = u + w /\ u \in Nat /\ w = x0 - y0 /\ y0 \in Nat /\ w \in Nat /\ z0 = y0 + (v - u) /\ x0 \in Nat
      BY <3>3, <3>4, <3>5
    <3>7. z0 <= x0
      BY ONLY <3>6
    <3> QED BY <3>7
  <2> QED BY <2>3, <2>4
<1>31. ClaimInv'
  <2>1. Owed = n /\ Owed' = 0
    BY <1>2 DEF Owed, SumOver
  <2>2. claimed \in Nat /\ claimed <= NumBlocks /\ NumBlocks - num_free + n <= claimed
    BY <1>3, <2>1 DEF ClaimInv, SwiftTypeOK
  <2>3. NumBlocks - (num_free - n) + 0 <= claimed
    BY <1>14, <2>2, Sizes
  <2> QED BY <1>2, <1>5, <2>1, <2>2, <2>3 DEF ClaimInv
<1> QED BY <1>26, <1>27, <1>28, <1>29, <1>30, <1>31

-----------------------------------------------------------------------------
(* The end of an iteration. *)
LEMMA PostQueues ==
  ASSUME SInv, Post, NEW done, done = FinishedNow
  PROVE  /\ done \in Seq(1 .. submitted) /\ Increasing(done)
         /\ \A r : Members(done, r) => Members(running, r)
         /\ running' \in Seq(1 .. submitted)
         /\ \A r : Members(running', r) <=> Members(running, r) /\ ~Members(done, r)
         /\ outputs' \in [Requests -> Nat] /\ \A r \in 1 .. submitted : outputs'[r] >= outputs[r]
         /\ QueueInv'
<1> USE DEF SInv
<1>1. /\ mpc = "post" /\ mpc' = "next" /\ outputs' = Produced
      /\ running' = Kept(running, (1 .. submitted) \ Ended)
      /\ UNCHANGED <<submitted, request, raw, tokenizing, waiting, batch>>
  BY DEF Post
<1>2. Live /\ Live' /\ Increasing(batch) /\ \A r : Members(batch, r) => Members(running, r)
  BY <1>1 DEF Live, BatchInv
<1> PICK S, E, q, b, p, q1 : S = 1 .. submitted /\ E = Ended /\ q = running /\ b = batch /\ p = Behind /\ q1 = running'
  OBVIOUS
<1>3. /\ S \in SUBSET Nat /\ S \subseteq Requests /\ q \in Seq(S) /\ b \in Seq(S) /\ p \in Seq(S)
      /\ Increasing(q) /\ Increasing(p) /\ Increasing(b) /\ Across(q, p)
      /\ \A r : Members(q, r) \/ Members(p, r) <=> r \in S /\ ~is_finished(r)
  BY <1>2, TypeFacts, LineFacts
<1>4. \A r \in S : outputs[r] \in Nat /\ request[r].output_len \in Nat
  BY TypeFacts
<1>5. outputs' \in [Requests -> Nat] /\ \A r \in S : outputs'[r] = IF Members(b, r) THEN outputs[r] + 1 ELSE outputs[r]
  <2>1. outputs' = [r \in Requests |-> IF Members(b, r) THEN outputs[r] + 1 ELSE outputs[r]]
    <3>1. \A r : r \in ToSet(batch) <=> Members(b, r)
      BY MembersSet
    <3> QED BY <1>1, <3>1 DEF Produced
  <2>2. outputs \in [Requests -> Nat]
    BY TypeFacts
  <2>3. \A r \in Requests : (IF Members(b, r) THEN outputs[r] + 1 ELSE outputs[r]) \in Nat
    BY <2>2
  <2> QED BY <1>3, <2>1, <2>3
<1>6. \A r : r \in E <=> r \in S /\ is_finished(r)'
  BY <1>1 DEF Ended, is_finished
<1>7. \A r \in S : is_finished(r) => is_finished(r)'
  <2> SUFFICES ASSUME NEW r \in S, is_finished(r) PROVE is_finished(r)'
    OBVIOUS
  <2>1. outputs[r] >= request[r].output_len /\ outputs'[r] >= outputs[r] /\ request'[r] = request[r]
    BY <1>1, <1>4, <1>5 DEF is_finished
  <2>2. outputs'[r] >= request'[r].output_len
    BY <1>4, <1>5, <2>1
  <2> QED BY <2>2 DEF is_finished
<1>8. \A r \in S : ~Members(b, r) => (is_finished(r)' <=> is_finished(r))
  BY <1>1, <1>5 DEF is_finished
<1>9. /\ done \in Seq(S) /\ Increasing(done) /\ \A r : Members(done, r) <=> Members(b, r) /\ r \in E
  <2>1. done = Kept(b, E)
    BY DEF FinishedNow
  <2> QED BY ONLY <1>3, <2>1, KeptFacts
<1>10. /\ q1 \in Seq(S) /\ Increasing(q1) /\ \A r : Members(q1, r) <=> Members(q, r) /\ r \in S \ E
  <2>1. q1 = Kept(q, S \ E)
    BY <1>1
  <2> QED BY ONLY <1>3, <2>1, KeptFacts
<1>11. \A r : Members(q, r) => r \in S /\ ~is_finished(r)
  BY <1>3
<1>12. \A r : Members(q1, r) <=> Members(q, r) /\ ~Members(done, r)
  BY <1>6, <1>8, <1>9, <1>10, <1>11
<1>13. \A r : Members(p, r) => r \in S /\ ~is_finished(r) /\ ~Members(b, r)
  <2> SUFFICES ASSUME NEW r, Members(p, r) PROVE r \in S /\ ~is_finished(r) /\ ~Members(b, r)
    OBVIOUS
  <2>1. r \in S /\ ~is_finished(r)
    BY <1>3
  <2>2. ~Members(q, r)
    <3>1. Members(q, r) => r < r
      BY <1>3 DEF Across
    <3> QED BY <1>3, <2>1, <3>1
  <2> QED BY <1>2, <2>1, <2>2
<1>14. \A r : Members(q1, r) \/ Members(p, r) <=> r \in S /\ ~is_finished(r)'
  <2>1. \A r : Members(q1, r) => r \in S /\ ~is_finished(r)'
    BY <1>6, <1>10
  <2>2. \A r : Members(p, r) => r \in S /\ ~is_finished(r)'
    BY <1>8, <1>13
  <2>3. \A r \in S : ~is_finished(r)' => Members(q1, r) \/ Members(p, r)
    BY <1>3, <1>6, <1>7, <1>10
  <2> QED BY <2>1, <2>2, <2>3
<1>15. Across(q1, p)
  <2>1. \A x, y : Members(q, x) /\ Members(p, y) => x < y
    BY <1>3 DEF Across
  <2>2. \A x : Members(q1, x) => Members(q, x)
    BY <1>10
  <2> QED BY <2>1, <2>2 DEF Across
<1> PICK l : l = Line'
  OBVIOUS
<1>16. l = q1 \o p
  <2> PICK w, t, u : w = waiting /\ t = tokenizing /\ u = raw
    OBVIOUS
  <2>1. w \in Seq(S) /\ t \in Seq(S) /\ u \in Seq(S)
    BY TypeFacts
  <2>2. l = q1 \o w \o t \o u
    BY <1>1 DEF Line
  <2>3. p = w \o t \o u
    BY DEF Behind
  <2>4. Splits(q1, w, t, u)
    BY ONLY <1>10, <2>1, LineSplit
  <2> QED BY <2>2, <2>3, <2>4 DEF Splits
<1>17. Increasing(l) /\ \A r : Members(l, r) <=> r \in S /\ ~is_finished(r)'
  <2>1. /\ \A x : Members(l, x) <=> Members(q1, x) \/ Members(p, x)
        /\ Increasing(l) <=> Increasing(q1) /\ Increasing(p) /\ Across(q1, p)
    BY ONLY <1>3, <1>10, <1>16, ConcatFacts
  <2> QED BY <1>3, <1>10, <1>14, <1>15, <2>1
<1>18. \A r \in Requests : r > submitted => outputs'[r] = 0
  <2> SUFFICES ASSUME NEW r \in Requests, r > submitted PROVE outputs'[r] = 0
    OBVIOUS
  <2>1. r \notin S
    BY TypeFacts
  <2>2. r \notin ToSet(batch)
    <3>1. ~Members(b, r)
      BY <1>2, <1>11, <2>1
    <3> QED BY <3>1, MembersSet
  <2>3. outputs[r] = 0
    BY DEF QueueInv
  <2> QED BY <1>1, <2>2, <2>3 DEF Produced
<1>19. QueueInv'
  <2>1. \A r \in Requests : r > submitted' => outputs'[r] = 0
    BY <1>1, <1>18
  <2>2. Increasing(Line') /\ \A r : Members(Line', r) <=> r \in 1 .. submitted' /\ ~is_finished(r)'
    BY <1>1, <1>17
  <2> QED BY <2>1, <2>2 DEF QueueInv
<1>20. \A r \in S : outputs'[r] >= outputs[r]
  BY <1>4, <1>5
<1>21. \A r : Members(done, r) => Members(q, r)
  BY <1>2, <1>9
<1> QED BY <1>5, <1>9, <1>10, <1>12, <1>19, <1>20, <1>21

(* The blocks of the ended requests become free, and are those counted. *)
LEMMA PostPool ==
  ASSUME SInv, Post, NEW done, done = FinishedNow
  PROVE  /\ free' \subseteq Blocks /\ num_free' = Cardinality(free')
         /\ num_free' \in 0 .. NumBlocks /\ num_free <= num_free'
         /\ table' \in [Ids -> Seq(Blocks)]
         /\ \A i \in Ids : table'[i] = IF \E r : Members(done, r) /\ id[r] = i THEN << >> ELSE table[i]
         /\ \A b \in Blocks : b \in free' <=> ~\E i \in Ids : Members(table'[i], b)
<1> USE DEF SInv
<1>1. Live
  BY DEF Post, Live
<1>2. /\ done \in Seq(1 .. submitted) /\ Increasing(done) /\ \A r : Members(done, r) => Members(running, r)
  BY PostQueues
<1>3. /\ num_free' = num_free + SumOver(num_allocated, done)
      /\ free' = free \cup UNION {ToSet(table[id[r]]) : r \in ToSet(done)}
      /\ table' = [i \in Ids |-> IF \E r \in ToSet(done) : id[r] = i THEN << >> ELSE table[i]]
  BY DEF Post, free_blocks_for_seqs
<1> PICK U, F, F1, D : /\ U = {b \in Blocks : \E r : Members(done, r) /\ Members(table[id[r]], b)}
                       /\ F = free /\ F1 = free' /\ D = ToSet(done)
  OBVIOUS
<1>4. Cardinality(U) = SumOver(num_allocated, done)
  BY <1>1, <1>2, RowsCount
<1>5. \A r : r \in D <=> Members(done, r)
  BY MembersSet
<1>6. \A r : Members(done, r) => id[r] \in Ids
  BY <1>1, <1>2 DEF IdInv
<1>7. \A i \in Ids : table[i] \in Seq(Blocks) /\ \A b : Members(table[i], b) => b \in Blocks
  <2> SUFFICES ASSUME NEW i \in Ids PROVE table[i] \in Seq(Blocks) /\ \A b : Members(table[i], b) => b \in Blocks
    OBVIOUS
  <2> PICK t, B : t = table[i] /\ B = Blocks
    OBVIOUS
  <2>1. t \in Seq(B)
    BY DEF SwiftTypeOK
  <2>2. \A k \in DOMAIN t : t[k] \in B
    BY ONLY <2>1, ElementOfSeq, LenProperties
  <2> QED BY <2>1, <2>2 DEF Members
<1>8. F1 = F \cup U
  <2>1. F1 = F \cup UNION {ToSet(table[id[r]]) : r \in D}
    BY <1>3
  <2>2. \A b : b \in UNION {ToSet(table[id[r]]) : r \in D} <=> \E r \in D : b \in ToSet(table[id[r]])
    OBVIOUS
  <2>3. \A r, b : b \in ToSet(table[id[r]]) <=> Members(table[id[r]], b)
    BY MembersSet
  <2>4. \A b : b \in UNION {ToSet(table[id[r]]) : r \in D} <=> b \in U
    <3> SUFFICES ASSUME NEW b PROVE (\E r \in D : b \in ToSet(table[id[r]])) <=> b \in U
      BY <2>2
    <3>1. (\E r \in D : b \in ToSet(table[id[r]])) <=> \E r : Members(done, r) /\ Members(table[id[r]], b)
      BY <1>5, <2>3
    <3>2. \A r : Members(done, r) /\ Members(table[id[r]], b) => b \in Blocks
      BY <1>6, <1>7
    <3> QED BY <3>1, <3>2
  <2> QED BY <2>1, <2>4
<1>9. F \subseteq Blocks /\ U \subseteq Blocks /\ num_free = Cardinality(F) /\ num_free \in Nat
  BY <1>1, Sizes DEF PlaceInv, SwiftTypeOK
<1>10. \A b \in Blocks : b \in F <=> ~\E i \in Ids : Members(table[i], b)
  BY <1>1 DEF PlaceInv
<1>11. F \cap U = {}
  BY <1>6, <1>10
<1>12. F1 \subseteq Blocks /\ Cardinality(F1) = num_free + SumOver(num_allocated, done)
       /\ Cardinality(U) \in Nat
  <2>1. IsFiniteSet(F) /\ IsFiniteSet(U) /\ Cardinality(U) \in Nat /\ Cardinality(F) \in Nat
    BY <1>9, BlockSets
  <2>2. Cardinality(F1) = Cardinality(F) + Cardinality(U) - Cardinality(F \cap U)
    BY ONLY <1>8, <2>1, FS_Union
  <2>3. Cardinality(F \cap U) = 0
    BY <1>11, FS_EmptySet
  <2> QED BY <1>4, <1>8, <1>9, <2>1, <2>2, <2>3
<1>13. num_free' = Cardinality(F1) /\ num_free <= num_free' /\ num_free' \in 0 .. NumBlocks
  <2> PICK x, y : x = Cardinality(U) /\ y = Cardinality(F1)
    OBVIOUS
  <2>1. num_free' = num_free + x /\ y = num_free + x /\ x \in Nat
    BY <1>3, <1>4, <1>12
  <2>2. y <= NumBlocks
    BY <1>12, BlockSets
  <2> QED BY <1>9, <2>1, <2>2, Sizes
<1>14. \A i \in Ids : table'[i] = IF \E r : Members(done, r) /\ id[r] = i THEN << >> ELSE table[i]
  BY <1>3, <1>5
<1>15. table' \in [Ids -> Seq(Blocks)]
  <2>1. << >> \in Seq(Blocks)
    OBVIOUS
  <2> QED BY <1>3, <1>7, <2>1
<1>16. \A b \in Blocks : b \in F1 <=> ~\E i \in Ids : Members(table'[i], b)
  <2>1. \A b : ~Members(<< >>, b)
    BY DEF Members
  <2> SUFFICES ASSUME NEW b \in Blocks PROVE b \in F1 <=> ~\E i \in Ids : Members(table'[i], b)
    OBVIOUS
  <2>2. CASE b \in F
    <3>1. \A i \in Ids : ~Members(table'[i], b)
      BY <1>10, <1>14, <2>1, <2>2
    <3> QED BY <1>8, <2>2, <3>1
  <2>3. CASE b \notin F
    <3> PICK i \in Ids : Members(table[i], b)
      BY <1>10, <2>3
    <3>1. \A j \in Ids : Members(table[j], b) => j = i
      <4>1. RowsApart(table)
        BY <1>1 DEF PlaceInv
      <4> QED BY ONLY <4>1, Members(table[i], b), i \in Ids DEF RowsApart
    <3>2. b \in F1 <=> \E r : Members(done, r) /\ id[r] = i
      <4>1. b \in U <=> \E r : Members(done, r) /\ Members(table[id[r]], b)
        OBVIOUS
      <4>2. \A r : Members(done, r) => (Members(table[id[r]], b) <=> id[r] = i)
        BY <1>6, <3>1
      <4> QED BY <1>8, <2>3, <4>1, <4>2
    <3>3. (\E j \in Ids : Members(table'[j], b)) <=> Members(table'[i], b)
      BY <1>14, <2>1, <3>1
    <3>4. Members(table'[i], b) <=> ~\E r : Members(done, r) /\ id[r] = i
      BY <1>14, <2>1
    <3> QED BY <3>2, <3>3, <3>4
  <2> QED BY <2>2, <2>3
<1> QED BY <1>12, <1>13, <1>14, <1>15, <1>16

(* The ids of the ended requests become available. *)
LEMMA PostIds ==
  ASSUME SInv, Post, NEW done, done = FinishedNow
  PROVE  ids' \in Seq(Ids) /\ IdInv'
<1> USE DEF SInv
<1>1. Live /\ ids' = ids \o [j \in DOMAIN done |-> id[done[j]]] /\ id' = id
  BY DEF Post, Live, FreedIds
<1>2. /\ done \in Seq(1 .. submitted) /\ Increasing(done) /\ \A r : Members(done, r) => Members(running, r)
      /\ \A r : Members(running', r) <=> Members(running, r) /\ ~Members(done, r)
  BY PostQueues
<1> PICK n \in Nat : n = Len(done)
  BY <1>2
<1>3. DOMAIN done = 1 .. n /\ \A k \in 1 .. n : Members(done, done[k])
  <2>1. DOMAIN done = 1 .. n
    BY <1>2
  <2> QED BY <2>1 DEF Members
<1>4. /\ \A r : Members(running, r) => id[r] \in Ids /\ ~Members(ids, id[r])
      /\ \A r, s : Members(running, r) /\ Members(running, s) /\ id[r] = id[s] => r = s
      /\ \A i \in Ids : Members(ids, i) \/ \E r : Members(running, r) /\ id[r] = i
      /\ Distinct(ids)
  BY <1>1 DEF IdInv, Distinct
<1> PICK d : d = [j \in 1 .. n |-> id[done[j]]]
  OBVIOUS
<1>5. d \in Seq(Ids) /\ DOMAIN d = 1 .. n /\ \A j \in 1 .. n : d[j] = id[done[j]]
  <2>1. \A j \in 1 .. n : id[done[j]] \in Ids
    BY <1>2, <1>3, <1>4
  <2> QED BY <2>1
<1>6. \A i : Members(d, i) <=> \E r : Members(done, r) /\ id[r] = i
  BY <1>3, <1>5 DEF Members
<1>7. Distinct(d)
  <2> SUFFICES ASSUME NEW j \in 1 .. n, NEW k \in 1 .. n, d[j] = d[k] PROVE j = k
    BY <1>5 DEF Distinct
  <2> PICK x, y : x = done[j] /\ y = done[k]
    OBVIOUS
  <2>1. Members(running, x) /\ Members(running, y) /\ id[x] = id[y]
    BY <1>2, <1>3, <1>5
  <2>2. x = y
    BY ONLY <1>4, <2>1
  <2>3. \A i, h \in 1 .. n : done[i] = done[h] => i = h
    <3> PICK S \in SUBSET Nat : S = 1 .. submitted
      BY TypeFacts
    <3>a. done \in Seq(S)
      BY <1>2
    <3>b. Increasing(done)
      BY <1>2
    <3>1. \A i, h \in 1 .. Len(done) : done[i] = done[h] => i = h
      BY ONLY <3>a, <3>b, S \in SUBSET Nat, IncreasingDistinct
    <3>2. Len(done) = n
      OBVIOUS
    <3> QED BY ONLY <3>1, <3>2
  <2>4. done[j] = done[k]
    BY <2>2
  <2> QED BY ONLY <2>3, <2>4, j \in 1 .. n, k \in 1 .. n
<1> PICK a, c, I : a = ids /\ c = ids' /\ I = Ids
  OBVIOUS
<1>8. a \in Seq(I) /\ d \in Seq(I) /\ c = a \o d /\ Distinct(a)
  BY <1>1, <1>3, <1>4, <1>5 DEF SwiftTypeOK
<1>9. \A x : ~(Members(a, x) /\ Members(d, x))
  BY <1>2, <1>4, <1>6
<1>10. c \in Seq(I) /\ \A x : Members(c, x) <=> Members(a, x) \/ Members(d, x)
  BY ONLY <1>8, ConcatFacts
<1>11. Distinct(c)
  BY ONLY <1>7, <1>8, <1>9, ConcatDistinct
<1>12. \A r : Members(running', r) => id[r] \in Ids /\ ~Members(c, id[r])
  <2> SUFFICES ASSUME NEW r, Members(running', r) PROVE id[r] \in Ids /\ ~Members(c, id[r])
    OBVIOUS
  <2>1. Members(running, r) /\ ~Members(done, r)
    BY <1>2
  <2>2. ~Members(d, id[r])
    <3> SUFFICES ASSUME NEW x, Members(done, x), id[x] = id[r] PROVE FALSE
      BY <1>6
    <3>1. Members(running, x)
      BY <1>2
    <3>2. x = r
      BY ONLY <1>4, <2>1, <3>1, id[x] = id[r]
    <3> QED BY <2>1, <3>2
  <2> QED BY <1>4, <1>10, <2>1, <2>2
<1>13. \A i \in Ids : Members(c, i) \/ \E r : Members(running', r) /\ id[r] = i
  BY <1>2, <1>4, <1>6, <1>10
<1>14. \A r, s : Members(running', r) /\ Members(running', s) /\ id[r] = id[s] => r = s
  BY <1>2, <1>4
<1>15. \A j, k \in DOMAIN ids' : ids'[j] = ids'[k] => j = k
  BY <1>11 DEF Distinct
<1>16. IdInv'
  BY <1>1, <1>12, <1>13, <1>14, <1>15 DEF IdInv
<1> QED BY <1>10, <1>16

LEMMA PostInv ==
  ASSUME SInv, Post
  PROVE  SInv'
<1> USE DEF SInv
<1> PICK done : done = FinishedNow
  OBVIOUS
<1>1. /\ mpc = "post" /\ mpc' = "next"
      /\ queued' = [r \in Requests |-> IF r \in ToSet(batch) THEN queued[r] + 1 ELSE queued[r]]
      /\ UNCHANGED <<submitted, request, client, got, raw, tokenizing, waiting, batch, claimed, id>>
  BY DEF Post
<1>2. Live /\ Live'
  BY <1>1 DEF Live
<1>3. /\ \A r : Members(done, r) => Members(running, r)
      /\ running' \in Seq(1 .. submitted)
      /\ \A r : Members(running', r) <=> Members(running, r) /\ ~Members(done, r)
      /\ outputs' \in [Requests -> Nat] /\ \A r \in 1 .. submitted : outputs'[r] >= outputs[r]
      /\ QueueInv'
  BY PostQueues
<1>4. /\ free' \subseteq Blocks /\ num_free' = Cardinality(free')
      /\ num_free' \in 0 .. NumBlocks /\ num_free <= num_free'
      /\ table' \in [Ids -> Seq(Blocks)]
      /\ \A i \in Ids : table'[i] = IF \E r : Members(done, r) /\ id[r] = i THEN << >> ELSE table[i]
      /\ \A b \in Blocks : b \in free' <=> ~\E i \in Ids : Members(table'[i], b)
  BY PostPool
<1>5. ids' \in Seq(Ids) /\ IdInv'
  BY PostIds
<1>6. SwiftTypeOK'
  <2>1. queued' \in [Requests -> Nat]
    <3>1. queued \in [Requests -> Nat]
      BY TypeFacts
    <3>2. \A r \in Requests : (IF r \in ToSet(batch) THEN queued[r] + 1 ELSE queued[r]) \in Nat
      BY <3>1
    <3> QED BY <1>1, <3>2
  <2>2. mpc' \in {"sleep", "next", "forward", "post", "raised"}
    BY <1>1
  <2>3. {raw, tokenizing, waiting, running, batch}' \subseteq Seq(1 .. submitted)
    BY <1>1, <1>3, TypeFacts
  <2>4. {outputs, queued, got}' \subseteq [Requests -> Nat]
    BY <1>1, <1>3, <2>1, TypeFacts
  <2> QED BY <1>1, <1>4, <1>5, <2>2, <2>3, <2>4 DEF SwiftTypeOK
<1>7. BatchInv'
  BY <1>1 DEF BatchInv
<1>8. PlaceInv'
  <2>1. \A b : ~Members(<< >>, b)
    BY DEF Members
  <2>2. RowsApart(table')
    <3>1. RowsApart(table)
      BY <1>2 DEF PlaceInv
    <3>2. Distinct(<< >>)
      BY DEF Distinct
    <3>3. \A i \in Ids : Distinct(table'[i])
      BY <1>4, <3>1, <3>2 DEF RowsApart
    <3>4. \A i \in Ids : \A b : Members(table'[i], b) => Members(table[i], b)
      BY <1>4, <2>1
    <3>5. \A i, j \in Ids : \A b : Members(table'[i], b) /\ Members(table'[j], b) => i = j
      BY <3>1, <3>4 DEF RowsApart
    <3> QED BY <3>3, <3>5 DEF RowsApart
  <2>3. \A i \in Ids : table'[i] # << >> => \E r : Members(running', r) /\ id[r] = i
    <3> SUFFICES ASSUME NEW i \in Ids, table'[i] # << >> PROVE \E r : Members(running', r) /\ id[r] = i
      OBVIOUS
    <3>1. table[i] # << >> /\ ~\E r : Members(done, r) /\ id[r] = i
      BY <1>4
    <3> PICK r : Members(running, r) /\ id[r] = i
      BY <1>2, <3>1 DEF PlaceInv
    <3> QED BY <1>3, <3>1
  <2> QED BY <1>1, <1>4, <2>2, <2>3 DEF PlaceInv
<1>9. RowInv'
  <2> SUFFICES ASSUME NEW r, Members(running', r) PROVE Len(table'[id'[r]]) <= block_needed'[r]
    BY DEF RowInv
  <2>1. Members(running, r) /\ ~Members(done, r) /\ r \in 1 .. submitted
    BY <1>3, LineFacts
  <2>2. id[r] \in Ids
    BY <1>2, <2>1 DEF IdInv
  <2>3. table'[id[r]] = table[id[r]]
    <3> SUFFICES ASSUME NEW x, Members(done, x), id[x] = id[r] PROVE FALSE
      BY <1>4, <2>2
    <3>1. x = r
      <4>1. Members(running, x)
        BY <1>3
      <4> QED BY ONLY <1>2, <2>1, <4>1, id[x] = id[r], IdInv DEF IdInv
    <3> QED BY <2>1, <3>1
  <2>4. Len(table[id[r]]) <= block_needed[r]
    BY <1>2, <2>1 DEF RowInv
  <2> PICK m \in Nat, n \in Nat : m = request[r].prompt_len + outputs[r] /\ n = request[r].prompt_len + outputs'[r]
    <3>1. r \in Requests /\ request[r].prompt_len \in Nat /\ outputs[r] \in Nat
      BY <2>1, TypeFacts
    <3>2. outputs'[r] \in Nat
      BY <1>3, <3>1
    <3>3. request[r].prompt_len + outputs[r] \in Nat /\ request[r].prompt_len + outputs'[r] \in Nat
      BY ONLY <3>1, <3>2
    <3> QED BY <3>3
  <2>5. m <= n
    <3>1. request[r].prompt_len \in Nat /\ outputs[r] \in Nat /\ outputs'[r] \in Nat /\ outputs'[r] >= outputs[r]
      <4>1. r \in Requests
        BY <2>1, TypeFacts
      <4> QED BY <1>3, <2>1, <4>1, TypeFacts
    <3> QED BY <3>1
  <2>6. block_needed[r] = CeilDiv(m) /\ block_needed'[r] = CeilDiv(n)
    BY <1>1, <2>1 DEF block_needed
  <2>7. CeilDiv(m) <= CeilDiv(n) /\ CeilDiv(m) \in Nat /\ CeilDiv(n) \in Nat
    BY <2>5, CeilDivMonotone
  <2>8. Len(table[id[r]]) \in Nat
    <3>1. table[id[r]] \in Seq(Blocks)
      BY <2>2 DEF SwiftTypeOK
    <3> QED BY <3>1
  <2>9. Len(table[id[r]]) <= block_needed'[r]
    BY <2>4, <2>6, <2>7, <2>8
  <2> QED BY <1>1, <2>3, <2>9
<1>10. ClaimInv'
  <2>1. Owed = 0 /\ Owed' = 0
    BY <1>1 DEF Owed
  <2>2. claimed \in Nat /\ claimed <= NumBlocks /\ NumBlocks - num_free + 0 <= claimed
    BY <1>2, <2>1 DEF ClaimInv, SwiftTypeOK
  <2>3. num_free \in Nat /\ num_free' \in Nat
    BY <1>4, Sizes DEF SwiftTypeOK
  <2>4. NumBlocks - num_free' + 0 <= claimed
    BY <1>4, <2>2, <2>3, Sizes
  <2> QED BY <1>1, <2>1, <2>2, <2>4 DEF ClaimInv
<1> QED BY <1>3, <1>5, <1>6, <1>7, <1>8, <1>9, <1>10

-----------------------------------------------------------------------------
(* The invariant of every behaviour. *)
LEMMA InitInv ==
  ASSUME SwiftInit
  PROVE  SInv
<1>1. /\ submitted = 0 /\ request = << >> /\ client = << >>
      /\ raw = << >> /\ tokenizing = << >> /\ waiting = << >> /\ running = << >> /\ batch = << >>
      /\ mpc = "sleep" /\ claimed = 0
      /\ id = [r \in Requests |-> -1]
      /\ table = [i \in Ids |-> << >>] /\ free = Blocks /\ num_free = NumBlocks
      /\ outputs = [r \in Requests |-> 0] /\ queued = [r \in Requests |-> 0]
      /\ got = [r \in Requests |-> 0]
  BY DEF SwiftInit
<1> PICK M \in Nat : M = MaxSeqsInBlockTable
  BY Sizes
<1>2. /\ ids = [k \in 1 .. M |-> M - k] /\ Ids = 0 .. M - 1
  BY DEF SwiftInit, Ids
<1>3. ids \in Seq(Ids) /\ DOMAIN ids = 1 .. M /\ \A k \in 1 .. M : ids[k] = M - k
  <2>1. \A k \in 1 .. M : M - k \in 0 .. M - 1
    OBVIOUS
  <2> QED BY <1>2, <2>1
<1>4. \A x : ~Members(<< >>, x)
  BY DEF Members
<1>5. SwiftTypeOK
  <2>1. num_free \in 0 .. NumBlocks /\ submitted \in 0 .. NumRequests
    BY <1>1, Sizes
  <2>2. {raw, tokenizing, waiting, running, batch} \subseteq Seq(1 .. submitted)
    BY <1>1
  <2>3. {outputs, queued, got} \subseteq [Requests -> Nat]
    BY <1>1
  <2>4. request \in Seq(Record) /\ client \in Seq({"wait", "stream", "yield", "done"})
        /\ Len(request) = submitted /\ Len(client) = submitted
    BY <1>1
  <2>5. id \in [Requests -> Ids \cup {-1}] /\ table \in [Ids -> Seq(Blocks)] /\ free \subseteq Blocks
    BY <1>1
  <2>6. mpc \in {"sleep", "next", "forward", "post", "raised"} /\ claimed \in Nat
    BY <1>1
  <2> QED BY <1>3, <2>1, <2>2, <2>3, <2>4, <2>5, <2>6 DEF SwiftTypeOK, Record
<1>6. QueueInv
  <2>1. Line = << >>
    BY <1>1 DEF Line
  <2>2. Increasing(<< >>)
    BY DEF Increasing
  <2>3. \A r : r \notin 1 .. submitted
    BY <1>1
  <2>4. \A r \in Requests : outputs[r] = 0
    BY <1>1
  <2> QED BY <1>4, <2>1, <2>2, <2>3, <2>4 DEF QueueInv
<1>7. BatchInv
  BY <1>1 DEF BatchInv
<1>8. IdInv
  <2>1. \A j, k \in 1 .. M : ids[j] = ids[k] => j = k
    BY <1>3
  <2>2. \A i \in Ids : Members(ids, i)
    <3> SUFFICES ASSUME NEW i \in 0 .. M - 1 PROVE \E k \in 1 .. M : ids[k] = i
      BY <1>2, <1>3 DEF Members
    <3>1. M - i \in 1 .. M /\ M - (M - i) = i
      OBVIOUS
    <3> QED BY <1>3, <3>1
  <2> QED BY <1>1, <1>3, <1>4, <2>1, <2>2 DEF IdInv
<1>9. PlaceInv
  <2>1. \A i \in Ids : table[i] = << >>
    BY <1>1
  <2>2. Distinct(<< >>)
    BY DEF Distinct
  <2>3. RowsApart(table)
    BY <1>4, <2>1, <2>2 DEF RowsApart
  <2>4. num_free = Cardinality(free)
    BY <1>1, BlockSets
  <2>5. \A b \in Blocks : b \in free <=> ~\E i \in Ids : Members(table[i], b)
    BY <1>1, <1>4, <2>1
  <2> QED BY <2>1, <2>3, <2>4, <2>5 DEF PlaceInv
<1>10. RowInv
  BY <1>1, <1>4 DEF RowInv
<1>11. ClaimInv
  BY <1>1, Sizes DEF ClaimInv, Owed
<1> QED BY <1>5, <1>6, <1>7, <1>8, <1>9, <1>10, <1>11 DEF SInv

LEMMA StutterInv ==
  ASSUME SInv, UNCHANGED vars
  PROVE  SInv'
<1>1. /\ UNCHANGED <<submitted, request, client, raw, tokenizing, waiting, running, batch>>
      /\ UNCHANGED <<mpc, claimed, ids, id, table, free, num_free, outputs, queued, got>>
  BY DEF vars
<1>2. SwiftTypeOK'
  BY <1>1 DEF SInv, SwiftTypeOK
<1>3. QueueInv'
  <2>1. \A r : is_finished(r)' <=> is_finished(r)
    BY <1>1 DEF is_finished
  <2>2. Line' = Line /\ (Live' <=> Live)
    BY <1>1 DEF Line, Live
  <2> PICK l, l1 : l = Line /\ l1 = Line'
    OBVIOUS
  <2>3. (\A r \in Requests : r > submitted => outputs[r] = 0)
        /\ (Live => Increasing(l) /\ \A r : Members(l, r) <=> r \in 1 .. submitted /\ ~is_finished(r))
    BY DEF SInv, QueueInv
  <2>4. Live' => Increasing(l1) /\ \A r : Members(l1, r) <=> r \in 1 .. submitted' /\ ~is_finished(r)'
    BY <1>1, <2>1, <2>2, <2>3
  <2> QED BY <1>1, <2>3, <2>4 DEF QueueInv
<1>4. BatchInv' /\ IdInv' /\ PlaceInv'
  BY <1>1 DEF SInv, BatchInv, IdInv, PlaceInv, Live
<1>5. RowInv'
  BY <1>1 DEF SInv, RowInv, Live, block_needed
<1>6. ClaimInv'
  <2>1. Missing' = Missing
    BY <1>1 DEF Missing, target_num_blocks
  <2>2. Owed' = Owed
    BY <1>1, <2>1 DEF Owed, SumOver
  <2> QED BY <1>1, <2>2 DEF SInv, ClaimInv, Live
<1> QED BY <1>2, <1>3, <1>4, <1>5, <1>6 DEF SInv

LEMMA Inductive ==
  SwiftSpec => []SInv
<1>1. SwiftInit => SInv
  BY InitInv
<1>2. ASSUME SInv, [SwiftNext]_vars
      PROVE  SInv'
  <2>1. CASE add_request
    BY <1>2, <2>1, AddInv
  <2>2. ASSUME NEW r \in 1 .. submitted, Client(r) PROVE SInv'
    BY <1>2, <2>2, ClientInv
  <2>3. CASE Tokenizer
    BY <1>2, <2>3, TokenizerInv
  <2>4. CASE Main
    BY <1>2, <2>4, AdmitInv, RaisedInv, DecodeInv, ForwardInv, PostInv DEF Main
  <2>5. CASE UNCHANGED vars
    BY <1>2, <2>5, StutterInv
  <2> QED BY <1>2, <2>1, <2>2, <2>3, <2>4, <2>5 DEF SwiftNext
<1> QED BY <1>1, <1>2, PTL DEF SwiftSpec

-----------------------------------------------------------------------------
(* What the invariant says of the pool, of the batch and of the queues. *)
LEMMA OnePlace ==
  ASSUME SwiftTypeOK, PlaceInv, Live, NEW b \in Blocks
  PROVE  Cardinality({p \in Ids \X (1 .. NumBlocks) :
                        p[2] \in DOMAIN table[p[1]] /\ table[p[1]][p[2]] = b})
           = IF b \in free THEN 0 ELSE 1
<1> DEFINE P == {p \in Ids \X (1 .. NumBlocks) :
                   p[2] \in DOMAIN table[p[1]] /\ table[p[1]][p[2]] = b}
<1>1. b \in free <=> ~\E i \in Ids : Members(table[i], b)
  BY DEF PlaceInv
<1>2. RowsApart(table)
  BY DEF PlaceInv
<1>3. CASE b \in free
  <2>1. P = {}
    <3> SUFFICES ASSUME NEW i \in Ids, NEW k \in DOMAIN table[i], table[i][k] = b PROVE FALSE
      OBVIOUS
    <3> QED BY <1>1, <1>3 DEF Members
  <2>2. Cardinality(P) = 0
    BY <2>1, FS_EmptySet
  <2> QED BY <1>3, <2>2
<1>4. CASE b \notin free
  <2> PICK i \in Ids : Members(table[i], b)
    BY <1>1, <1>4
  <2> PICK t \in Seq(Blocks) : t = table[i]
    BY DEF SwiftTypeOK
  <2> PICK k \in DOMAIN t : t[k] = b
    BY DEF Members
  <2>1. Distinct(t)
    BY <1>2 DEF RowsApart
  <2>2. k \in 1 .. NumBlocks
    <3> PICK n \in Nat : n = Len(t)
      OBVIOUS
    <3>1. DOMAIN t = 1 .. n /\ \A j \in 1 .. n : t[j] \in Blocks
      OBVIOUS
    <3>2. IsFiniteSet(ToSet(t)) /\ Cardinality(ToSet(t)) = n
      <4> PICK A : A = ToSet(t)
        OBVIOUS
      <4>1. (\A j \in 1 .. n : t[j] \in A) /\ \A a \in A : \E j \in 1 .. n : t[j] = a
        BY <3>1 DEF ToSet
      <4>2. \A h, j \in 1 .. n : t[h] = t[j] => h = j
        BY <2>1, <3>1 DEF Distinct
      <4>3. IsFiniteSet(A) /\ Cardinality(A) = n
        BY ONLY n \in Nat, <4>1, <4>2, DistinctCount
      <4> QED BY <4>3
    <3>3. ToSet(t) \in SUBSET Blocks
      BY <3>1 DEF ToSet
    <3>4. n <= NumBlocks
      BY <3>2, <3>3, BlockSets
    <3> QED BY <3>1, <3>4, Sizes
  <2>3. P = {<<i, k>>}
    <3>1. <<i, k>> \in P
      BY <2>2
    <3>2. ASSUME NEW j \in Ids, NEW h \in DOMAIN table[j], table[j][h] = b PROVE j = i /\ h = k
      <4>1. Members(table[j], b)
        BY <3>2 DEF Members
      <4>2. j = i
        BY ONLY <1>2, <4>1, Members(table[i], b), i \in Ids, j \in Ids DEF RowsApart
      <4>3. h = k
        BY <2>1, <3>2, <4>2 DEF Distinct
      <4> QED BY <4>2, <4>3
    <3>3. \A p \in P : p = <<i, k>>
      <4> SUFFICES ASSUME NEW p \in P PROVE p = <<i, k>>
        OBVIOUS
      <4> PICK j \in Ids, h \in 1 .. NumBlocks : p = <<j, h>>
        OBVIOUS
      <4>1. h \in DOMAIN table[j] /\ table[j][h] = b
        OBVIOUS
      <4> HIDE DEF P
      <4> QED BY <3>2, <4>1
    <3> HIDE DEF P
    <3> QED BY <3>1, <3>3
  <2>4. Cardinality(P) = 1
    BY <2>3, FS_Singleton
  <2> QED BY <1>4, <2>4
<1> QED BY <1>3, <1>4

LEMMA IdsHeld ==
  ASSUME SwiftTypeOK, QueueInv, IdInv, Live, NEW held, held = ids \o [j \in DOMAIN running |-> id[running[j]]]
  PROVE  Len(held) = MaxSeqsInBlockTable /\ ToSet(held) = Ids
<1>1. /\ \A r : Members(running, r) => id[r] \in Ids /\ ~Members(ids, id[r])
      /\ \A r, s : Members(running, r) /\ Members(running, s) /\ id[r] = id[s] => r = s
      /\ \A i \in Ids : Members(ids, i) \/ \E r : Members(running, r) /\ id[r] = i
      /\ Distinct(ids)
  BY DEF IdInv, Distinct
<1> PICK q, a, I, S : q = running /\ a = ids /\ I = Ids /\ S = 1 .. submitted
  OBVIOUS
<1>2. q \in Seq(S) /\ Increasing(q) /\ S \in SUBSET Nat
  BY LineFacts, TypeFacts
<1> PICK n \in Nat : n = Len(q)
  BY <1>2
<1>3. DOMAIN q = 1 .. n /\ \A k \in 1 .. n : Members(q, q[k])
  <2>1. DOMAIN q = 1 .. n
    BY <1>2
  <2> QED BY <2>1 DEF Members
<1> PICK d : d = [j \in 1 .. n |-> id[q[j]]]
  OBVIOUS
<1>4. d \in Seq(I) /\ DOMAIN d = 1 .. n /\ \A j \in 1 .. n : d[j] = id[q[j]]
  <2>1. \A j \in 1 .. n : id[q[j]] \in I
    BY <1>1, <1>3
  <2> QED BY <2>1
<1>5. \A i : Members(d, i) <=> \E r : Members(q, r) /\ id[r] = i
  BY <1>3, <1>4 DEF Members
<1>6. Distinct(d)
  <2> SUFFICES ASSUME NEW j \in 1 .. n, NEW k \in 1 .. n, d[j] = d[k] PROVE j = k
    BY <1>4 DEF Distinct
  <2> PICK x, y : x = q[j] /\ y = q[k]
    OBVIOUS
  <2>1. Members(running, x) /\ Members(running, y) /\ id[x] = id[y]
    BY <1>3, <1>4
  <2>2. x = y
    BY ONLY <1>1, <2>1
  <2>3. S \in SUBSET Nat
    BY <1>2
  <2>4. q \in Seq(S)
    BY <1>2
  <2>5. Increasing(q)
    BY <1>2
  <2>6. \A i, h \in 1 .. Len(q) : q[i] = q[h] => i = h
    BY ONLY <2>3, <2>4, <2>5, IncreasingDistinct
  <2>7. q[j] = q[k]
    BY <2>2
  <2> QED BY ONLY n = Len(q), j \in 1 .. n, k \in 1 .. n, <2>6, <2>7
<1>7. a \in Seq(I) /\ held = a \o d
  BY <1>3 DEF SwiftTypeOK
<1>8. held \in Seq(I) /\ \A x : Members(held, x) <=> Members(a, x) \/ Members(d, x)
  BY ONLY <1>4, <1>7, ConcatFacts
<1>9. Distinct(held)
  <2>1. \A x : ~(Members(a, x) /\ Members(d, x))
    BY <1>1, <1>5
  <2>2. Distinct(a)
    BY <1>1
  <2> QED BY ONLY <1>4, <1>6, <1>7, <2>1, <2>2, ConcatDistinct
<1>10. \A i \in I : Members(held, i)
  BY <1>1, <1>5, <1>8
<1> PICK m \in Nat : m = Len(held)
  BY <1>8
<1>11. DOMAIN held = 1 .. m /\ \A k \in 1 .. m : held[k] \in I
  BY <1>8
<1>12. Cardinality(I) = m
  <2>1. \A i \in I : \E k \in 1 .. m : held[k] = i
    BY <1>10, <1>11 DEF Members
  <2>2. \A j, k \in 1 .. m : held[j] = held[k] => j = k
    BY <1>9, <1>11 DEF Distinct
  <2> QED BY ONLY m \in Nat, <1>11, <2>1, <2>2, DistinctCount
<1>13. Cardinality(I) = MaxSeqsInBlockTable
  <2>1. /\ 0 \in Int /\ MaxSeqsInBlockTable - 1 \in Int /\ ~(0 > MaxSeqsInBlockTable - 1)
        /\ MaxSeqsInBlockTable - 1 - 0 + 1 = MaxSeqsInBlockTable
    BY Sizes
  <2> QED BY <2>1, FS_Interval DEF Ids
<1>14. ToSet(held) = I
  <2>1. \A x : x \in ToSet(held) <=> Members(held, x)
    BY MembersSet
  <2>2. \A x : Members(held, x) => x \in I
    BY <1>11 DEF Members
  <2> QED BY <1>10, <2>1, <2>2
<1> QED BY <1>12, <1>13, <1>14

LEMMA Conserved ==
  SInv => SwiftInv
<1> SUFFICES ASSUME SInv PROVE SwiftInv
  OBVIOUS
<1> USE DEF SInv
<1> SUFFICES ASSUME Live PROVE ResourcesConserved
  BY DEF SwiftInv, ResourcesConserved, Live
<1>1. num_free = Cardinality(free)
  BY DEF PlaceInv
<1>2. \A b \in Blocks :
        Cardinality({p \in Ids \X (1 .. NumBlocks) :
                       p[2] \in DOMAIN table[p[1]] /\ table[p[1]][p[2]] = b})
          = IF b \in free THEN 0 ELSE 1
  BY OnePlace
<1> PICK held : held = ids \o [j \in DOMAIN running |-> id[running[j]]]
  OBVIOUS
<1>3. Len(held) = MaxSeqsInBlockTable /\ ToSet(held) = Ids
  BY IdsHeld
<1>4. \A i \in Ids : table[i] # << >> => \E r \in ToSet(running) : id[r] = i
  <2>1. \A r : r \in ToSet(running) <=> Members(running, r)
    BY MembersSet
  <2> QED BY <2>1 DEF PlaceInv
<1> QED BY <1>1, <1>2, <1>3, <1>4 DEF ResourcesConserved

LEMMA Enough ==
  SInv => EnoughBlocks
<1> SUFFICES ASSUME SInv, mpc = "forward" PROVE CanAllocate
  BY DEF EnoughBlocks
<1> USE DEF SInv
<1>1. Live /\ \A r : Members(batch, r) => Members(running, r)
  BY DEF Live, BatchInv
<1>2. ASSUME NEW r, Members(batch, r) PROVE r \in 1 .. submitted /\ Missing[r] \in Nat
  <2>1. Members(running, r) /\ r \in 1 .. submitted
    BY <1>1, <1>2, LineFacts
  <2>2. id[r] \in Ids /\ Len(table[id[r]]) <= block_needed[r]
    BY <1>1, <2>1 DEF IdInv, RowInv
  <2>3. table[id[r]] \in Seq(Blocks)
    BY <2>2 DEF SwiftTypeOK
  <2> PICK l \in Nat : l = Len(table[id[r]])
    BY <2>3
  <2>4. block_needed[r] \in Nat /\ Missing[r] = block_needed[r] - l
    BY <2>1, TypeFacts DEF Missing, target_num_blocks
  <2> QED BY <2>1, <2>2, <2>4
<1> PICK q, f, S : q = batch /\ f = Missing /\ S = 1 .. submitted
  OBVIOUS
<1>3. q \in Seq(S)
  BY TypeFacts
<1> PICK n \in Nat : n = Len(q)
  BY <1>3
<1>4. \A k \in 1 .. Len(q) : f[q[k]] \in Nat
  <2>1. \A k \in DOMAIN q : Members(q, q[k])
    BY DEF Members
  <2>2. DOMAIN q = 1 .. Len(q)
    BY <1>3
  <2> QED BY <1>2, <2>1, <2>2
<1>5. Sums(f, q)[n] \in Nat
  <2>1. \A k \in 0 .. Len(q) : Sums(f, q)[k] \in Nat
    BY ONLY <1>3, <1>4, SumsMonotone
  <2> QED BY <2>1
<1>6. SumOver(Missing, batch) <= num_free
  <2> PICK x \in Nat : x = SumOver(Missing, batch)
    BY <1>5 DEF SumOver
  <2>1. claimed <= NumBlocks /\ NumBlocks - num_free + x <= claimed /\ claimed \in Nat
    BY <1>1 DEF ClaimInv, Owed, SwiftTypeOK
  <2>2. num_free \in Nat
    BY Sizes DEF SwiftTypeOK
  <2>3. x <= num_free
    BY <2>1, <2>2, Sizes
  <2> QED BY <2>3
<1>7. \A r \in ToSet(batch) : Missing[r] >= 0
  <2>1. \A r : r \in ToSet(batch) => Members(batch, r)
    BY MembersSet
  <2>2. \A x \in Nat : x >= 0
    OBVIOUS
  <2> QED BY <1>2, <2>1, <2>2
<1> QED BY <1>6, <1>7 DEF CanAllocate

LEMMA Queued ==
  SInv => NoneLost
<1> SUFFICES ASSUME SInv, Live
             PROVE  /\ \A j, k \in DOMAIN Line : j < k => Line[j] < Line[k]
                    /\ ToSet(Line) = {r \in 1 .. submitted : ~is_finished(r)}
  BY DEF NoneLost, Line, Live
<1> PICK l : l = Line
  OBVIOUS
<1>1. Increasing(l) /\ \A r : Members(l, r) <=> r \in 1 .. submitted /\ ~is_finished(r)
  BY DEF SInv, QueueInv
<1>2. \A r : r \in ToSet(l) <=> Members(l, r)
  BY MembersSet
<1>3. ToSet(l) = {r \in 1 .. submitted : ~is_finished(r)}
  BY <1>1, <1>2
<1> QED BY <1>1, <1>3 DEF Increasing

-----------------------------------------------------------------------------
(* Blocks and request ids are neither lost nor given out twice, and the    *)
(* host's count of free blocks is that of the device, through every        *)
(* mixture of admissions, forward passes and endings (get_id,              *)
(* allocate_blocks_for_seqs, free_blocks_for_seqs).                        *)
THEOREM ResourcesAreConserved ==
  SwiftSpec => []SwiftInv
<1>1. SwiftSpec => []SInv
  BY Inductive
<1>2. SInv => SwiftInv
  BY Conserved
<1> QED BY <1>1, <1>2, PTL

(* The claim that requests are admitted by, though it is out of date while *)
(* requests end, always covers the blocks of the batch: forward never runs *)
(* out of them, and no request has more than it needs.                     *)
THEOREM ForwardNeverRunsOut ==
  SwiftSpec => []EnoughBlocks
<1>1. SwiftSpec => []SInv
  BY Inductive
<1>2. SInv => EnoughBlocks
  BY Enough
<1> QED BY <1>1, <1>2, PTL

(* The queues together hold every unfinished request once, in the order of *)
(* the calls, until an exception ends the main loop (on_request_arrival,   *)
(* get_next_batch, on_batch_finish).                                       *)
THEOREM NoRequestIsLost ==
  SwiftSpec => []NoneLost
<1>1. SwiftSpec => []SInv
  BY Inductive
<1>2. SInv => NoneLost
  BY Queued
<1> QED BY <1>1, <1>2, PTL

=============================================================================
