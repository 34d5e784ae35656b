-------------------------- MODULE KVCompressProofs --------------------------
(***************************************************************************)
(* Proofs about the engines that compress the KV cache, for every number of *)
(* requests, blocks, heads and steps between compressions, and all budgets. *)
(***************************************************************************)
EXTENDS KVCompress, TLAPS, FiniteSetTheorems, SequenceTheorems, NaturalsInduction, WellFoundedInduction

-----------------------------------------------------------------------------
(* Induction on sets of indices, and the loops of the engine: each is a     *)
(* recursive function, which exists by that induction.                      *)
LEMMA LeastOf ==
  ASSUME NEW S \in SUBSET Nat, S # {}
  PROVE  \E k \in S : \A j \in S : k <= j
<1>1. PICK k \in S : \A j \in S : ~(<<j, k>> \in OpToRel(<, Nat))
  BY WFMin, NatLessThanWellFounded
<1>2. ASSUME NEW j \in S, j < k PROVE FALSE
  <2>1. <<j, k>> \in {ss \in Nat \X Nat : ss[1] < ss[2]}
    BY <1>2
  <2> QED BY <1>1, <2>1 DEF OpToRel
<1> QED BY <1>2

LEMMA Upward ==
  ASSUME NEW m \in Nat, NEW G, 0 \in G, \A k \in 1 .. m : k - 1 \in G => k \in G
  PROVE  \A k \in 0 .. m : k \in G
<1> DEFINE T == {k \in 0 .. m : k \notin G}
<1>1. ASSUME T # {} PROVE FALSE
  <2>0. T \subseteq Nat
    OBVIOUS
  <2> PICK k \in T : \A j \in T : k <= j
    <3> HIDE DEF T
    <3> QED BY <1>1, <2>0, LeastOf
  <2>1. k \in 0 .. m /\ k \notin G
    OBVIOUS
  <2>2. k \in 1 .. m /\ k - 1 \in 0 .. m /\ ~(k <= k - 1)
    BY <2>1
  <2>3. k - 1 \notin T
    <3> HIDE DEF T
    <3> QED BY <2>2
  <2> QED BY <2>1, <2>2, <2>3
<1> QED BY <1>1

LEMMA GreatestOf ==
  ASSUME NEW n \in Nat, NEW S \in SUBSET (0 .. n), S # {}
  PROVE  Max(S) \in S /\ \A y \in S : Max(S) >= y
<1> DEFINE T == {k \in Nat : \A y \in S : k >= y}
<1>1. T \subseteq Nat /\ n \in T
  OBVIOUS
<1> PICK k \in T : \A j \in T : k <= j
  <2> HIDE DEF T
  <2> QED BY <1>1, LeastOf
<1>2. k \in Nat /\ \A y \in S : k >= y
  OBVIOUS
<1>3. k \in S
  <2> SUFFICES ASSUME k \notin S PROVE FALSE
    OBVIOUS
  <2>1. PICK z \in S : TRUE
    OBVIOUS
  <2>2. \A y \in S : y \in Nat /\ k > y
    BY <1>2
  <2>3. k - 1 \in Nat /\ \A y \in S : k - 1 >= y
    BY <1>2, <2>1, <2>2
  <2>4. k - 1 \in T
    BY <2>3
  <2>5. ~(k <= k - 1)
    BY <1>2
  <2> HIDE DEF T
  <2> QED BY <2>4, <2>5
<1>4. \E x \in S : \A y \in S : x >= y
  BY <1>2, <1>3
<1> QED BY <1>4 DEF Max

LEMMA LowestOf ==
  ASSUME NEW S \in SUBSET Nat, S # {}
  PROVE  Min(S) \in S /\ \A y \in S : Min(S) <= y
<1>1. \E x \in S : \A y \in S : x <= y
  BY LeastOf
<1> QED BY <1>1 DEF Min

Iterates(f, m, P, base, F) ==
  f \in [0 .. m -> P] /\ f[0] = base /\ \A k \in 1 .. m : f[k] = F[<<f[k - 1], k>>]

LEMMA LoopExists ==
  ASSUME NEW m \in Nat, NEW P, NEW base \in P, NEW F \in [P \X (1 .. m) -> P]
  PROVE  \E f : Iterates(f, m, P, base, F)
<1> DEFINE Good(n, f) == f[0] = base /\ \A k \in 1 .. n : f[k] = F[<<f[k - 1], k>>]
           G == {n \in 0 .. m : \E f \in [0 .. n -> P] : Good(n, f)}
<1>1. 0 \in G
  <2> DEFINE f == [k \in 0 .. 0 |-> base]
  <2>1. f \in [0 .. 0 -> P] /\ Good(0, f)
    OBVIOUS
  <2> HIDE DEF f, Good
  <2> QED BY <2>1
<1>2. ASSUME NEW n \in 1 .. m, n - 1 \in G PROVE n \in G
  <2> PICK f \in [0 .. n - 1 -> P] : Good(n - 1, f)
    BY <1>2
  <2> DEFINE g == [k \in 0 .. n |-> IF k = n THEN F[<<f[n - 1], n>>] ELSE f[k]]
  <2>0. n - 1 \in 0 .. n - 1 /\ 0 \in 0 .. n - 1
    OBVIOUS
  <2>1. F[<<f[n - 1], n>>] \in P
    <3>1. f[n - 1] \in P
      BY <2>0
    <3> QED BY <3>1
  <2>2. g \in [0 .. n -> P]
    <3> SUFFICES ASSUME NEW k \in 0 .. n PROVE g[k] \in P
      OBVIOUS
    <3>1. k = n \/ k \in 0 .. n - 1
      OBVIOUS
    <3> QED BY <2>1, <3>1
  <2>3. g[0] = base
    BY <2>0
  <2>4. ASSUME NEW k \in 1 .. n PROVE g[k] = F[<<g[k - 1], k>>]
    <3>1. k - 1 \in 0 .. n /\ k - 1 # n /\ k \in 0 .. n
      OBVIOUS
    <3>2. g[k - 1] = f[k - 1]
      BY <3>1
    <3>3. CASE k = n
      BY <3>2, <3>3
    <3>4. CASE k # n
      <4>1. k \in 1 .. n - 1
        BY <3>4
      <4> QED BY <3>1, <3>2, <3>4, <4>1
    <3> QED BY <3>3, <3>4
  <2>5. Good(n, g)
    BY <2>3, <2>4
  <2> HIDE DEF g, Good
  <2> QED BY <2>2, <2>5
<1>3. m \in G
  <2>1. \A k \in 0 .. m : k \in G
    <3> HIDE DEF G
    <3> QED BY <1>1, <1>2, Upward
  <2> QED BY <2>1
<1> QED BY <1>3 DEF Iterates

LEMMA NeededLoop ==
  ASSUME waiting \in Seq(Requests), num_tokens \in [Requests -> Nat]
  PROVE  /\ Needed(0) = 0 /\ \A k \in 0 .. Len(waiting) : Needed(k) \in Nat
         /\ \A k \in 1 .. Len(waiting) : Needed(k) = Needed(k - 1) + num_tokens[waiting[k]]
<1> PICK m \in Nat : m = Len(waiting)
  OBVIOUS
<1> DEFINE Good(n) == n = [k \in 0 .. m |-> IF k = 0 THEN 0 ELSE n[k - 1] + num_tokens[waiting[k]]]
<1> PICK F : F = [x \in Nat \X (1 .. m) |-> x[1] + num_tokens[waiting[x[2]]]]
  OBVIOUS
<1> PICK n : n = CHOOSE x : Good(x)
  OBVIOUS
<1>0. \A i : Needed(i) = n[i]
  BY DEF Needed
<1>1. F \in [Nat \X (1 .. m) -> Nat]
  <2>1. \A k \in 1 .. m : num_tokens[waiting[k]] \in Nat
    OBVIOUS
  <2> QED BY <2>1
<1> PICK f : Iterates(f, m, Nat, 0, F)
  <2>1. 0 \in Nat
    OBVIOUS
  <2> QED BY ONLY m \in Nat, <1>1, <2>1, LoopExists
<1>i. f \in [0 .. m -> Nat] /\ f[0] = 0 /\ \A k \in 1 .. m : f[k] = F[<<f[k - 1], k>>]
  BY DEF Iterates
<1>2. \A k \in 1 .. m : f[k] = f[k - 1] + num_tokens[waiting[k]]
  <2> SUFFICES ASSUME NEW k \in 1 .. m PROVE f[k] = f[k - 1] + num_tokens[waiting[k]]
    OBVIOUS
  <2>1. f[k - 1] \in Nat
    <3>1. k - 1 \in 0 .. m
      OBVIOUS
    <3> QED BY <1>i, <3>1
  <2> QED BY <1>i, <2>1
<1>3. Good(f)
  <2>1. \A k \in 0 .. m : f[k] = IF k = 0 THEN 0 ELSE f[k - 1] + num_tokens[waiting[k]]
    <3> SUFFICES ASSUME NEW k \in 0 .. m, k # 0 PROVE f[k] = f[k - 1] + num_tokens[waiting[k]]
      BY <1>i
    <3>1. k \in 1 .. m
      OBVIOUS
    <3> QED BY <1>2, <1>i, <3>1
  <2> QED BY <1>i, <2>1
<1>4. Good(n)
  <2> HIDE DEF Good
  <2>1. \E x : Good(x)
    BY <1>3
  <2> QED BY <2>1
<1>5. n[0] = 0 /\ \A k \in 1 .. m : n[k] = n[k - 1] + num_tokens[waiting[k]]
  <2>1. 0 \in 0 .. m /\ \A k \in 1 .. m : k \in 0 .. m /\ k # 0
    OBVIOUS
  <2> QED BY <1>4, <2>1
<1> DEFINE H == {k \in 0 .. m : n[k] \in Nat}
<1>6. 0 \in H
  BY <1>5
<1>7. ASSUME NEW k \in 1 .. m, k - 1 \in H PROVE k \in H
  <2>1. num_tokens[waiting[k]] \in Nat
    OBVIOUS
  <2>2. n[k - 1] \in Nat
    BY <1>7
  <2>3. n[k] = n[k - 1] + num_tokens[waiting[k]] /\ k \in 0 .. m
    BY <1>5
  <2>4. n[k] \in Nat
    BY ONLY <2>1, <2>2, <2>3
  <2> QED BY <2>3, <2>4
<1> HIDE DEF H
<1>8. \A k \in 0 .. m : k \in H
  BY <1>6, <1>7, Upward
<1> QED BY <1>0, <1>5, <1>8 DEF H

Filtering(t, s, S, X) ==
  /\ t \in [0 .. Len(s) -> Seq(X)] /\ t[0] = << >> /\ t[Len(s)] = Filter(s, S)
  /\ \A k \in 1 .. Len(s) : t[k] = IF s[k] \in S THEN Append(t[k - 1], s[k]) ELSE t[k - 1]

LEMMA FilterLoop ==
  ASSUME NEW X, NEW s \in Seq(X), NEW S
  PROVE  \E t : Filtering(t, s, S, X)
<1> PICK m \in Nat : m = Len(s)
  OBVIOUS
<1> DEFINE Step(p, k) == IF s[k] \in S THEN Append(p, s[k]) ELSE p
           Good(t) == t = [k \in 0 .. m |-> IF k = 0 THEN << >> ELSE Step(t[k - 1], k)]
<1> PICK F : F = [x \in Seq(X) \X (1 .. m) |-> Step(x[1], x[2])]
  OBVIOUS
<1> PICK t : t = CHOOSE x : Good(x)
  OBVIOUS
<1>0. Filter(s, S) = t[m]
  BY DEF Filter
<1>1. F \in [Seq(X) \X (1 .. m) -> Seq(X)]
  <2>1. ASSUME NEW p \in Seq(X), NEW k \in 1 .. m PROVE Step(p, k) \in Seq(X)
    OBVIOUS
  <2> HIDE DEF Step
  <2> QED BY <2>1
<1> PICK f : Iterates(f, m, Seq(X), << >>, F)
  <2>1. << >> \in Seq(X)
    OBVIOUS
  <2> QED BY ONLY m \in Nat, <1>1, <2>1, LoopExists
<1>i. f \in [0 .. m -> Seq(X)] /\ f[0] = << >> /\ \A k \in 1 .. m : f[k] = F[<<f[k - 1], k>>]
  BY DEF Iterates
<1> HIDE DEF Step
<1>2. ASSUME NEW k \in 1 .. m PROVE f[k] = Step(f[k - 1], k)
  <2>1. f[k - 1] \in Seq(X)
    <3>1. k - 1 \in 0 .. m
      OBVIOUS
    <3> QED BY <1>i, <3>1
  <2> QED BY <1>i, <2>1
<1>3. Good(f)
  <2>1. \A k \in 0 .. m : f[k] = IF k = 0 THEN << >> ELSE Step(f[k - 1], k)
    <3> SUFFICES ASSUME NEW k \in 0 .. m, k # 0 PROVE f[k] = Step(f[k - 1], k)
      BY <1>i
    <3>1. k \in 1 .. m
      OBVIOUS
    <3> QED BY <1>2, <1>i, <3>1
  <2> QED BY <1>i, <2>1
<1>4. Good(t)
  <2> HIDE DEF Good
  <2>1. \E x : Good(x)
    BY <1>3
  <2> QED BY <2>1
<1>5. t[0] = << >> /\ \A k \in 1 .. m : t[k] = Step(t[k - 1], k)
  <2>1. 0 \in 0 .. m /\ \A k \in 1 .. m : k \in 0 .. m /\ k # 0
    OBVIOUS
  <2> QED BY <1>4, <2>1
<1>6. t \in [0 .. m -> Seq(X)]
  <2>1. \A k \in 0 .. m : t[k] \in Seq(X)
    <3> DEFINE H == {k \in 0 .. m : t[k] \in Seq(X)}
    <3>1. 0 \in H
      <4>1. t[0] \in Seq(X) /\ 0 \in 0 .. m
        BY ONLY <1>5, m \in Nat
      <4> QED BY <4>1
    <3>2. ASSUME NEW k \in 1 .. m, k - 1 \in H PROVE k \in H
      <4>1. s[k] \in X
        OBVIOUS
      <4>2. t[k - 1] \in Seq(X)
        BY <3>2
      <4>3. t[k] = Step(t[k - 1], k) /\ k \in 0 .. m
        BY <1>5
      <4>4. t[k] \in Seq(X)
        BY ONLY <4>1, <4>2, <4>3 DEF Step
      <4> QED BY <4>3, <4>4
    <3> HIDE DEF H
    <3>3. \A k \in 0 .. m : k \in H
      BY <3>1, <3>2, Upward
    <3> QED BY <3>3 DEF H
  <2>2. t = [k \in 0 .. m |-> t[k]]
    BY <1>4
  <2> QED BY ONLY <2>1, <2>2
<1>7. \A k \in 1 .. m : t[k] = IF s[k] \in S THEN Append(t[k - 1], s[k]) ELSE t[k - 1]
  BY <1>5 DEF Step
<1>8. Filtering(t, s, S, X)
  BY ONLY m = Len(s), <1>0, <1>5, <1>6, <1>7 DEF Filtering
<1> QED BY <1>8

Releasing(t, q) ==
  /\ t[0] = << >> /\ t[Len(q)] = Released(q) /\ \A k \in 0 .. Len(q) : t[k] \in Seq(Blocks)
  /\ \A k \in 1 .. Len(q) : t[k] = t[k - 1] \o Reverse(table[q[k]])

LEMMA ReleasedLoop ==
  ASSUME NEW q \in Seq(Requests), table \in [Requests -> Seq(Blocks)]
  PROVE  \E t : Releasing(t, q)
<1> PICK m \in Nat : m = Len(q)
  OBVIOUS
<1> DEFINE Step(p, k) == p \o Reverse(table[q[k]])
           Good(t) == t = [k \in 0 .. m |-> IF k = 0 THEN << >> ELSE Step(t[k - 1], k)]
<1> PICK F : F = [x \in Seq(Blocks) \X (1 .. m) |-> Step(x[1], x[2])]
  OBVIOUS
<1> PICK t : t = CHOOSE x : Good(x)
  OBVIOUS
<1>0. Released(q) = t[m]
  BY DEF Released
<1>a. ASSUME NEW p \in Seq(Blocks), NEW k \in 1 .. m PROVE Step(p, k) \in Seq(Blocks)
  <2>1. table[q[k]] \in Seq(Blocks)
    OBVIOUS
  <2>2. Reverse(table[q[k]]) \in Seq(Blocks)
    BY <2>1 DEF Reverse
  <2> QED BY <2>2
<1> HIDE DEF Step
<1>1. F \in [Seq(Blocks) \X (1 .. m) -> Seq(Blocks)]
  BY <1>a
<1> PICK f : Iterates(f, m, Seq(Blocks), << >>, F)
  <2>1. << >> \in Seq(Blocks)
    OBVIOUS
  <2> QED BY ONLY m \in Nat, <1>1, <2>1, LoopExists
<1>i. f \in [0 .. m -> Seq(Blocks)] /\ f[0] = << >> /\ \A k \in 1 .. m : f[k] = F[<<f[k - 1], k>>]
  BY DEF Iterates
<1>2. ASSUME NEW k \in 1 .. m PROVE f[k] = Step(f[k - 1], k)
  <2>1. f[k - 1] \in Seq(Blocks)
    <3>1. k - 1 \in 0 .. m
      OBVIOUS
    <3> QED BY <1>i, <3>1
  <2> QED BY <1>i, <2>1
<1>3. Good(f)
  <2>1. \A k \in 0 .. m : f[k] = IF k = 0 THEN << >> ELSE Step(f[k - 1], k)
    <3> SUFFICES ASSUME NEW k \in 0 .. m, k # 0 PROVE f[k] = Step(f[k - 1], k)
      BY <1>i
    <3>1. k \in 1 .. m
      OBVIOUS
    <3> QED BY <1>2, <1>i, <3>1
  <2> QED BY <1>i, <2>1
<1>4. Good(t)
  <2> HIDE DEF Good
  <2>1. \E x : Good(x)
    BY <1>3
  <2> QED BY <2>1
<1>5. t[0] = << >> /\ \A k \in 1 .. m : t[k] = Step(t[k - 1], k)
  <2>1. 0 \in 0 .. m /\ \A k \in 1 .. m : k \in 0 .. m /\ k # 0
    OBVIOUS
  <2> QED BY <1>4, <2>1
<1>6. t \in [0 .. m -> Seq(Blocks)]
  <2>1. \A k \in 0 .. m : t[k] \in Seq(Blocks)
    <3> DEFINE H == {k \in 0 .. m : t[k] \in Seq(Blocks)}
    <3>1. 0 \in H
      <4>1. t[0] \in Seq(Blocks) /\ 0 \in 0 .. m
        BY ONLY <1>5, m \in Nat
      <4> QED BY <4>1
    <3>2. ASSUME NEW k \in 1 .. m, k - 1 \in H PROVE k \in H
      <4>2. t[k - 1] \in Seq(Blocks)
        BY <3>2
      <4>3. t[k] = Step(t[k - 1], k) /\ k \in 0 .. m
        BY <1>5
      <4> QED BY <1>a, <4>2, <4>3
    <3> HIDE DEF H
    <3>3. \A k \in 0 .. m : k \in H
      BY <3>1, <3>2, Upward
    <3> QED BY <3>3 DEF H
  <2>2. t = [k \in 0 .. m |-> t[k]]
    BY <1>4
  <2> QED BY ONLY <2>1, <2>2
<1>7. \A k \in 1 .. m : t[k] = t[k - 1] \o Reverse(table[q[k]])
  BY <1>5 DEF Step
<1>8. \A k \in 0 .. m : t[k] \in Seq(Blocks)
  BY <1>6
<1>9. Releasing(t, q)
  BY ONLY m = Len(q), <1>0, <1>5, <1>7, <1>8 DEF Releasing
<1> QED BY <1>9

-----------------------------------------------------------------------------
(* Sequences and what is in them. *)
Members(q, x) == \E k \in DOMAIN q : q[k] = x
Distinct(q) == \A j, k \in DOMAIN q : q[j] = q[k] => j = k
Disjoint(a, b) == \A x : ~(Members(a, x) /\ Members(b, x))

LEMMA RangeMembers ==
  ASSUME NEW q, NEW x
  PROVE  x \in Range(q) <=> Members(q, x)
BY DEF Range, Members

LEMMA MembersType ==
  ASSUME NEW S, NEW q \in Seq(S), NEW x, Members(q, x)
  PROVE  x \in S
BY DEF Members

LEMMA NoMembers ==
  /\ \A x : ~Members(<< >>, x)
  /\ Distinct(<< >>)
BY DEF Members, Distinct

LEMMA SamePlace ==
  ASSUME NEW q, Distinct(q), NEW j \in DOMAIN q, NEW k \in DOMAIN q, q[j] = q[k]
  PROVE  j = k
BY DEF Distinct

Joined(c, a, b, S) ==
  /\ c \in Seq(S) /\ \A x : Members(c, x) <=> Members(a, x) \/ Members(b, x)
  /\ Distinct(c) <=> Distinct(a) /\ Distinct(b) /\ Disjoint(a, b)

LEMMA ConcatFacts ==
  ASSUME NEW S, NEW a \in Seq(S), NEW b \in Seq(S), NEW c, c = a \o b
  PROVE  Joined(c, a, b, S)
<1> PICK m \in Nat, n \in Nat : m = Len(a) /\ n = Len(b)
  OBVIOUS
<1>1. /\ DOMAIN a = 1 .. m /\ DOMAIN b = 1 .. n /\ c \in Seq(S) /\ DOMAIN c = 1 .. m + n
      /\ \A k \in 1 .. m : c[k] = a[k]
      /\ \A k \in 1 .. n : c[m + k] = b[k]
  OBVIOUS
<1>2. \A k \in 1 .. m + n : k \in 1 .. m \/ \E i \in 1 .. n : k = m + i
  <2> SUFFICES ASSUME NEW k \in 1 .. m + n, k \notin 1 .. m PROVE \E i \in 1 .. n : k = m + i
    OBVIOUS
  <2>1. k - m \in 1 .. n /\ k = m + (k - m)
    OBVIOUS
  <2> QED BY <2>1
<1>3. (\A k \in 1 .. m : k \in 1 .. m + n) /\ \A k \in 1 .. n : m + k \in 1 .. m + n
  OBVIOUS
<1>4. ASSUME NEW x PROVE Members(c, x) <=> Members(a, x) \/ Members(b, x)
  <2>1. ASSUME NEW k \in 1 .. m + n, c[k] = x PROVE Members(a, x) \/ Members(b, x)
    <3>1. CASE k \in 1 .. m
      BY <1>1, <2>1, <3>1 DEF Members
    <3>2. CASE \E i \in 1 .. n : k = m + i
      <4> PICK i \in 1 .. n : k = m + i
        BY <3>2
      <4> QED BY <1>1, <2>1 DEF Members
    <3> QED BY <1>2, <3>1, <3>2
  <2>2. ASSUME NEW k \in 1 .. m, a[k] = x PROVE Members(c, x)
    BY <1>1, <1>3, <2>2 DEF Members
  <2>3. ASSUME NEW k \in 1 .. n, b[k] = x PROVE Members(c, x)
    BY <1>1, <1>3, <2>3 DEF Members
  <2> QED BY <1>1, <2>1, <2>2, <2>3 DEF Members
<1>5. ASSUME Distinct(c) PROVE Distinct(a) /\ Distinct(b) /\ Disjoint(a, b)
  <2>1. ASSUME NEW j \in 1 .. m, NEW k \in 1 .. m, a[j] = a[k] PROVE j = k
    <3>1. j \in DOMAIN c /\ k \in DOMAIN c /\ c[j] = c[k]
      BY <1>1, <2>1
    <3> QED BY ONLY <1>5, <3>1, SamePlace
  <2>2. ASSUME NEW j \in 1 .. n, NEW k \in 1 .. n, b[j] = b[k] PROVE j = k
    <3>1. m + j \in DOMAIN c /\ m + k \in DOMAIN c /\ c[m + j] = c[m + k]
      BY <1>1, <2>2
    <3>2. m + j = m + k
      BY ONLY <1>5, <3>1, SamePlace
    <3> QED BY <3>2
  <2>3. ASSUME NEW j \in 1 .. m, NEW k \in 1 .. n, a[j] = b[k] PROVE FALSE
    <3>1. j \in DOMAIN c /\ m + k \in DOMAIN c /\ c[j] = c[m + k] /\ j # m + k
      BY <1>1, <2>3
    <3> QED BY ONLY <1>5, <3>1, SamePlace
  <2>4. Disjoint(a, b)
    BY <1>1, <2>3 DEF Disjoint, Members
  <2> QED BY <1>1, <2>1, <2>2, <2>4 DEF Distinct
<1>6. ASSUME Distinct(a), Distinct(b), Disjoint(a, b),
             NEW j \in 1 .. m + n, NEW k \in 1 .. m + n, c[j] = c[k], j < k
      PROVE  FALSE
  <2>1. CASE k \in 1 .. m
    <3>1. j \in DOMAIN a /\ k \in DOMAIN a /\ a[j] = a[k] /\ j # k
      BY <1>1, <1>6, <2>1
    <3> QED BY ONLY Distinct(a), <1>6, <3>1, SamePlace
  <2>2. CASE k \notin 1 .. m
    <3> PICK i \in 1 .. n : k = m + i
      BY <1>2, <2>2
    <3>1. c[k] = b[i]
      BY <1>1
    <3>2. CASE j \in 1 .. m
      <4>1. c[j] = a[j] /\ Members(a, a[j]) /\ Members(b, b[i])
        BY <1>1, <3>2 DEF Members
      <4> QED BY <1>6, <3>1, <4>1 DEF Disjoint
    <3>3. CASE j \notin 1 .. m
      <4> PICK h \in 1 .. n : j = m + h
        BY <1>2, <3>3
      <4>1. h < i /\ c[j] = b[h]
        BY <1>1, <1>6
      <4>2. h \in DOMAIN b /\ i \in DOMAIN b /\ b[h] = b[i] /\ h # i
        BY <1>1, <1>6, <3>1, <4>1
      <4> QED BY ONLY <1>6, <4>2, SamePlace
    <3> QED BY <3>2, <3>3
  <2> QED BY <2>1, <2>2
<1>7. ASSUME Distinct(a), Distinct(b), Disjoint(a, b) PROVE Distinct(c)
  <2>1. ASSUME NEW j \in 1 .. m + n, NEW k \in 1 .. m + n, c[j] = c[k] PROVE j = k
    <3>1. ~(j < k) /\ ~(k < j)
      BY <1>6, <1>7, <2>1
    <3>2. j \in Int /\ k \in Int
      OBVIOUS
    <3> QED BY ONLY <3>1, <3>2
  <2>2. DOMAIN c = 1 .. m + n
    BY <1>1
  <2> QED BY ONLY <2>1, <2>2 DEF Distinct
<1> QED BY <1>1, <1>4, <1>5, <1>7 DEF Joined

CutAt(q, a, b, n, S) == a \in Seq(S) /\ b \in Seq(S) /\ Len(a) = n /\ Len(b) = Len(q) - n /\ q = a \o b

LEMMA CutFacts ==
  ASSUME NEW S, NEW q \in Seq(S), NEW n \in 0 .. Len(q), NEW a, NEW b,
         a = SubSeq(q, 1, n), b = SubSeq(q, n + 1, Len(q))
  PROVE  CutAt(q, a, b, n, S) /\ \A k \in 1 .. n : a[k] = q[k]
<1> PICK m \in Nat : m = Len(q)
  OBVIOUS
<1>1. a \in Seq(S) /\ Len(a) = n /\ \A k \in 1 .. n : a[k] = q[k]
  BY SubSeqProperties
<1>2. b \in Seq(S) /\ Len(b) = m - n
  BY SubSeqProperties
<1>3. SubSeq(q, 1, n) \o SubSeq(q, n + 1, m) = SubSeq(q, 1, m)
  <2>1. 1 \in 1 .. Len(q) + 1 /\ n \in 1 - 1 .. Len(q) /\ m \in n .. Len(q)
    OBVIOUS
  <2> QED BY <2>1, ConcatAdjacentSubSeq
<1>4. SubSeq(q, 1, m) = q
  BY SubSeqFull
<1> QED BY <1>1, <1>2, <1>3, <1>4 DEF CutAt

Rearranged(p, q, S) ==
  /\ p \in Seq(S) /\ Len(p) = Len(q) /\ \A x : Members(p, x) <=> Members(q, x)
  /\ Distinct(q) => Distinct(p)

LEMMA ReverseFacts ==
  ASSUME NEW S, NEW q \in Seq(S), NEW p, p = Reverse(q)
  PROVE  Rearranged(p, q, S)
<1> PICK n \in Nat : n = Len(q)
  OBVIOUS
<1>1. /\ DOMAIN q = 1 .. n /\ p = [i \in 1 .. n |-> q[n - i + 1]]
      /\ \A i \in 1 .. n : n - i + 1 \in 1 .. n /\ n - (n - i + 1) + 1 = i
  BY DEF Reverse
<1>2. /\ p \in Seq(S) /\ Len(p) = n /\ DOMAIN p = 1 .. n
      /\ \A i \in 1 .. n : p[i] = q[n - i + 1] /\ p[n - i + 1] = q[i]
  BY <1>1
<1>3. ASSUME NEW x PROVE Members(p, x) <=> Members(q, x)
  <2>1. ASSUME NEW i \in 1 .. n, p[i] = x PROVE \E j \in 1 .. n : q[j] = x
    BY ONLY <1>1, <1>2, <2>1
  <2>2. ASSUME NEW i \in 1 .. n, q[i] = x PROVE \E j \in 1 .. n : p[j] = x
    BY ONLY <1>1, <1>2, <2>2
  <2> QED BY ONLY <1>1, <1>2, <2>1, <2>2 DEF Members
<1>4. ASSUME Distinct(q), NEW j \in 1 .. n, NEW k \in 1 .. n, p[j] = p[k] PROVE j = k
  <2>1. /\ n - j + 1 \in DOMAIN q /\ n - k + 1 \in DOMAIN q
        /\ q[n - j + 1] = q[n - k + 1]
    BY <1>1, <1>2, <1>4
  <2>2. n - j + 1 = n - k + 1
    BY ONLY <1>4, <2>1, SamePlace
  <2> QED BY <2>2
<1> QED BY <1>2, <1>3, <1>4 DEF Distinct, Rearranged

-----------------------------------------------------------------------------
(* Every element of B is once in the deque f or in one of the tables t. *)
Apart(B, f, t) ==
  /\ Distinct(f) /\ \A r \in Requests : Distinct(t[r]) /\ Disjoint(f, t[r])
  /\ \A r, s \in Requests : r # s => Disjoint(t[r], t[s])
  /\ \A x \in B : Members(f, x) \/ \E r \in Requests : Members(t[r], x)

Pool(B, f, t) == f \in Seq(B) /\ t \in [Requests -> Seq(B)] /\ Apart(B, f, t)

LEMMA OnceHeldApart ==
  ASSUME NEW B, NEW f \in Seq(B), NEW t \in [Requests -> Seq(B)]
  PROVE  OnceHeld(B, f, t) <=> Apart(B, f, t)
<1> PICK held : held = [r \in 0 .. NumRequests |-> IF r = 0 THEN f ELSE t[r]]
  OBVIOUS
<1>1. NumRequests \in Nat /\ 0 \in 0 .. NumRequests
  BY KVAssumption
<1>2. DOMAIN held = 0 .. NumRequests /\ held[0] = f
  BY <1>1
<1>3. \A r \in Requests : r \in 0 .. NumRequests /\ r # 0 /\ held[r] = t[r]
  BY <1>1 DEF Requests
<1>4. \A r \in 0 .. NumRequests : r = 0 \/ r \in Requests
  BY <1>1 DEF Requests
<1>5. \A r \in 0 .. NumRequests : held[r] \in Seq(B)
  BY <1>2, <1>3, <1>4
<1>6. OnceHeld(B, f, t) <=>
       /\ \A b \in B : \E r \in 0 .. NumRequests : b \in Range(held[r])
       /\ \A r, s \in 0 .. NumRequests : \A i \in DOMAIN held[r], j \in DOMAIN held[s] :
            held[r][i] \in B /\ (held[r][i] = held[s][j] => r = s /\ i = j)
  BY ONLY held = [r \in 0 .. NumRequests |-> IF r = 0 THEN f ELSE t[r]], <1>2 DEF OnceHeld
<1>7. (\A b \in B : \E r \in 0 .. NumRequests : b \in Range(held[r])) <=>
        \A x \in B : Members(f, x) \/ \E r \in Requests : Members(t[r], x)
  <2>1. \A b : \A r \in 0 .. NumRequests : b \in Range(held[r]) <=> Members(held[r], b)
    BY RangeMembers
  <2> QED BY <1>1, <1>2, <1>3, <1>4, <2>1
<1> DEFINE Once == \A r, s \in 0 .. NumRequests : \A i \in DOMAIN held[r], j \in DOMAIN held[s] :
                     held[r][i] = held[s][j] => r = s /\ i = j
<1>8. (\A r, s \in 0 .. NumRequests : \A i \in DOMAIN held[r], j \in DOMAIN held[s] :
            held[r][i] \in B /\ (held[r][i] = held[s][j] => r = s /\ i = j)) <=> Once
  <2>1. \A r \in 0 .. NumRequests : \A i \in DOMAIN held[r] : held[r][i] \in B
    BY <1>5
  <2> QED BY ONLY <2>1
<1>9. Once <=> /\ \A r \in 0 .. NumRequests : Distinct(held[r])
               /\ \A r, s \in 0 .. NumRequests : r # s => Disjoint(held[r], held[s])
  BY ONLY DEF Once, Distinct, Disjoint, Members
<1>10. ASSUME Apart(B, f, t), NEW r \in 0 .. NumRequests, NEW s \in 0 .. NumRequests
       PROVE Distinct(held[r]) /\ (r # s => Disjoint(held[r], held[s]))
  BY <1>2, <1>3, <1>4, <1>10 DEF Apart, Disjoint
<1>11. ASSUME Once PROVE /\ Distinct(f) /\ \A r \in Requests : Distinct(t[r]) /\ Disjoint(f, t[r])
                         /\ \A r, s \in Requests : r # s => Disjoint(t[r], t[s])
  BY <1>1, <1>2, <1>3, <1>9, <1>11
<1> HIDE DEF Once
<1>12. ASSUME Apart(B, f, t) PROVE Once
  BY <1>9, <1>10, <1>12
<1> QED BY <1>6, <1>7, <1>8, <1>11, <1>12 DEF Apart

LEMMA TakeApart ==
  ASSUME NEW B, NEW f, NEW t, Pool(B, f, t),
         NEW r \in Requests, NEW n \in 0 .. Len(f), NEW g, NEW u,
         g = SubSeq(f, n + 1, Len(f)), u = [t EXCEPT ![r] = t[r] \o SubSeq(f, 1, n)]
  PROVE  Pool(B, g, u)
<1>0. f \in Seq(B) /\ t \in [Requests -> Seq(B)] /\ Apart(B, f, t)
  BY DEF Pool
<1> USE <1>0
<1> PICK a, c : a = SubSeq(f, 1, n) /\ c = t[r] \o a
  OBVIOUS
<1>1. CutAt(f, a, g, n, B)
  BY CutFacts
<1>2. a \in Seq(B) /\ g \in Seq(B) /\ f = a \o g /\ t[r] \in Seq(B)
  BY <1>1 DEF CutAt
<1>3. /\ \A x : Members(f, x) <=> Members(a, x) \/ Members(g, x)
      /\ Distinct(a) /\ Distinct(g) /\ Disjoint(a, g)
  <2>1. Distinct(f)
    BY DEF Apart
  <2>2. Joined(f, a, g, B)
    BY ONLY <1>2, ConcatFacts
  <2> QED BY ONLY <2>1, <2>2 DEF Joined
<1>4. Disjoint(t[r], a) /\ Distinct(t[r])
  BY <1>3 DEF Apart, Disjoint
<1>5. c \in Seq(B) /\ (\A x : Members(c, x) <=> Members(t[r], x) \/ Members(a, x)) /\ Distinct(c)
  <2>1. Joined(c, t[r], a, B)
    BY ONLY <1>2, c = t[r] \o a, ConcatFacts
  <2> QED BY ONLY <1>3, <1>4, <2>1 DEF Joined
<1>6. u \in [Requests -> Seq(B)] /\ u[r] = c /\ \A s \in Requests : s # r => u[s] = t[s]
  BY <1>5
<1>7. ASSUME NEW s \in Requests PROVE Distinct(u[s]) /\ Disjoint(g, u[s])
  <2>1. CASE s = r
    <3>1. Disjoint(f, t[r])
      BY DEF Apart
    <3> QED BY <1>3, <1>5, <1>6, <2>1, <3>1 DEF Disjoint
  <2>2. CASE s # r
    <3>1. Disjoint(f, t[s]) /\ Distinct(t[s])
      BY DEF Apart
    <3> QED BY <1>3, <1>6, <2>2, <3>1 DEF Disjoint
  <2> QED BY <2>1, <2>2
<1>8. ASSUME NEW s \in Requests, s # r PROVE Disjoint(c, t[s])
  <2>1. Disjoint(f, t[s]) /\ Disjoint(t[r], t[s])
    BY <1>8 DEF Apart
  <2> QED BY <1>3, <1>5, <2>1 DEF Disjoint
<1>9. ASSUME NEW s \in Requests, NEW v \in Requests, s # v PROVE Disjoint(u[s], u[v])
  <2>1. Disjoint(t[s], t[v])
    BY <1>9 DEF Apart
  <2> QED BY <1>6, <1>8, <1>9, <2>1 DEF Disjoint
<1>10. ASSUME NEW x \in B PROVE Members(g, x) \/ \E s \in Requests : Members(u[s], x)
  <2>1. Members(f, x) \/ \E s \in Requests : Members(t[s], x)
    BY DEF Apart
  <2>2. ASSUME NEW s \in Requests, Members(t[s], x) PROVE Members(u[s], x)
    BY <1>5, <1>6, <2>2
  <2> QED BY <1>3, <1>5, <1>6, <2>1, <2>2
<1> QED BY <1>2, <1>3, <1>6, <1>7, <1>9, <1>10 DEF Apart, Pool

LEMMA GiveApart ==
  ASSUME NEW B, NEW f, NEW t, Pool(B, f, t),
         NEW r \in Requests, NEW n \in 0 .. Len(t[r]), NEW g, NEW u,
         g = f \o Reverse(SubSeq(t[r], n + 1, Len(t[r]))), u = [t EXCEPT ![r] = SubSeq(t[r], 1, n)]
  PROVE  Pool(B, g, u)
<1>i. f \in Seq(B) /\ t \in [Requests -> Seq(B)] /\ Apart(B, f, t)
  BY DEF Pool
<1> USE <1>i
<1> PICK q, a, b, c : q = t[r] /\ a = SubSeq(q, 1, n) /\ b = SubSeq(q, n + 1, Len(q)) /\ c = Reverse(b)
  OBVIOUS
<1>0. q \in Seq(B) /\ n \in 0 .. Len(q) /\ Distinct(q) /\ Disjoint(f, q) /\ Distinct(f)
  BY DEF Apart
<1>1. CutAt(q, a, b, n, B)
  BY <1>0, CutFacts
<1>2. a \in Seq(B) /\ b \in Seq(B) /\ q = a \o b
  BY <1>1 DEF CutAt
<1>3. /\ \A x : Members(q, x) <=> Members(a, x) \/ Members(b, x)
      /\ Distinct(a) /\ Distinct(b) /\ Disjoint(a, b)
  <2>1. Joined(q, a, b, B)
    BY ONLY <1>2, ConcatFacts
  <2> QED BY ONLY <1>0, <2>1 DEF Joined
<1>4. c \in Seq(B) /\ (\A x : Members(c, x) <=> Members(b, x)) /\ Distinct(c)
  <2>1. Rearranged(c, b, B)
    BY ONLY <1>2, c = Reverse(b), ReverseFacts
  <2> QED BY ONLY <1>3, <2>1 DEF Rearranged
<1>5. Disjoint(f, c) /\ g = f \o c
  BY <1>0, <1>3, <1>4 DEF Disjoint
<1>6. g \in Seq(B) /\ (\A x : Members(g, x) <=> Members(f, x) \/ Members(c, x)) /\ Distinct(g)
  <2>1. Joined(g, f, c, B)
    BY ONLY f \in Seq(B), <1>4, <1>5, ConcatFacts
  <2> QED BY ONLY <1>0, <1>4, <1>5, <2>1 DEF Joined
<1>7. u \in [Requests -> Seq(B)] /\ u[r] = a /\ \A s \in Requests : s # r => u[s] = t[s]
  BY <1>2
<1>8. ASSUME NEW s \in Requests, s # r PROVE Disjoint(q, t[s]) /\ Disjoint(f, t[s]) /\ Distinct(t[s])
  BY <1>8 DEF Apart
<1>9. ASSUME NEW s \in Requests PROVE Distinct(u[s]) /\ Disjoint(g, u[s])
  <2>1. CASE s = r
    BY <1>0, <1>3, <1>4, <1>6, <1>7, <2>1 DEF Disjoint
  <2>2. CASE s # r
    BY <1>3, <1>4, <1>6, <1>7, <1>8, <2>2 DEF Disjoint
  <2> QED BY <2>1, <2>2
<1>10. ASSUME NEW s \in Requests, NEW v \in Requests, s # v PROVE Disjoint(u[s], u[v])
  <2>1. Disjoint(t[s], t[v])
    BY <1>10 DEF Apart
  <2> QED BY <1>3, <1>7, <1>8, <1>10, <2>1 DEF Disjoint
<1>11. ASSUME NEW x \in B PROVE Members(g, x) \/ \E s \in Requests : Members(u[s], x)
  <2>1. Members(f, x) \/ \E s \in Requests : Members(t[s], x)
    BY DEF Apart
  <2>2. ASSUME NEW s \in Requests, Members(t[s], x) PROVE Members(g, x) \/ Members(u[s], x)
    BY <1>3, <1>4, <1>6, <1>7, <2>2
  <2> QED BY <1>6, <2>1, <2>2
<1> QED BY <1>6, <1>7, <1>9, <1>10, <1>11 DEF Apart, Pool

-----------------------------------------------------------------------------
(* The deque f dealt out to the sequences of q, each of which takes the     *)
(* blocks between two of the marks n.                                       *)
IsDeal(f, q, n) ==
  /\ n[0] = 0 /\ \A k \in 0 .. Len(q) : n[k] \in Nat
  /\ \A k \in 1 .. Len(q) : n[k - 1] <= n[k]
  /\ n[Len(q)] <= Len(f)
Share(f, q, n, r) ==
  SubSeq(f, n[IndexOf(r, q) - 1] + 1, n[IndexOf(r, q)])

LEMMA IndexOfFacts ==
  ASSUME NEW q, NEW k \in DOMAIN q, Distinct(q)
  PROVE  IndexOf(q[k], q) = k
<1>1. IndexOf(q[k], q) \in DOMAIN q /\ q[IndexOf(q[k], q)] = q[k]
  BY DEF IndexOf
<1> QED BY <1>1, SamePlace

LEMMA MarksRise ==
  ASSUME NEW f, NEW q, NEW n, IsDeal(f, q, n), Len(q) \in Nat
  PROVE  \A k \in 0 .. Len(q) : n[k] <= n[Len(q)]
<1> PICK m \in Nat : m = Len(q)
  OBVIOUS
<1>1. (\A k \in 0 .. m : n[k] \in Nat) /\ \A k \in 1 .. m : n[k - 1] <= n[k]
  BY DEF IsDeal
<1> DEFINE G == {k \in 0 .. m : n[m - k] <= n[m]}
<1>2. 0 \in G
  BY <1>1
<1>3. ASSUME NEW k \in 1 .. m, k - 1 \in G PROVE k \in G
  <2>1. n[m - (k - 1)] <= n[m]
    BY <1>3
  <2>2. m - k + 1 \in 1 .. m /\ m - (k - 1) = m - k + 1 /\ (m - k + 1) - 1 = m - k /\ m - k \in 0 .. m /\ m \in 0 .. m
    OBVIOUS
  <2>3. n[m - k] <= n[m - k + 1]
    BY <1>1, <2>2
  <2>a. n[m - k] \in Nat /\ n[m - k + 1] \in Nat /\ n[m] \in Nat
    <3>1. m - k + 1 \in 0 .. m
      OBVIOUS
    <3> QED BY <1>1, <2>2, <3>1
  <2> PICK x \in Nat, y \in Nat, z \in Nat : x = n[m - k] /\ y = n[m - k + 1] /\ z = n[m]
    BY <2>a
  <2>4. x <= y /\ y <= z
    BY <2>1, <2>2, <2>3
  <2>5. x <= z
    BY ONLY <2>4, x \in Nat, y \in Nat, z \in Nat
  <2> QED BY <2>5
<1>4. \A k \in 0 .. m : k \in G
  <2> HIDE DEF G
  <2> QED BY <1>2, <1>3, Upward
<1> SUFFICES ASSUME NEW k \in 0 .. m PROVE n[k] <= n[m]
  OBVIOUS
<1>5. m - k \in G /\ m - (m - k) = k
  <2>1. m - k \in 0 .. m /\ m - (m - k) = k
    OBVIOUS
  <2> HIDE DEF G
  <2> QED BY <1>4, <2>1
<1> QED BY <1>5

(* The elements a + 1 to c of f. *)
IsPiece(s, f, a, c, B) == s \in Seq(B) /\ Len(s) = c - a /\ \A i \in 1 .. c - a : s[i] = f[a + i]

LEMMA PieceFacts ==
  ASSUME NEW B, NEW f \in Seq(B), NEW a \in Nat, NEW c \in Nat, a <= c, c <= Len(f)
  PROVE  IsPiece(SubSeq(f, a + 1, c), f, a, c, B)
<1>1. \A i \in a + 1 .. c : f[i] \in B
  OBVIOUS
<1>2. a + 1 \in Int /\ c \in Int
  OBVIOUS
<1> PICK s, x : s = SubSeq(f, x, c) /\ x = a + 1
  OBVIOUS
<1>3. s \in Seq(B) /\ Len(s) = (IF x <= c THEN c - x + 1 ELSE 0) /\ \A i \in 1 .. c - x + 1 : s[i] = f[x + i - 1]
  <2>1. \A i \in x .. c : f[i] \in B
    BY <1>1
  <2>2. x \in Int /\ c \in Int
    OBVIOUS
  <2> QED BY ONLY <2>1, <2>2, s = SubSeq(f, x, c), SubSeqProperties
<1>4. (IF x <= c THEN c - x + 1 ELSE 0) = c - a /\ c - x + 1 = c - a /\ \A i \in 1 .. c - a : x + i - 1 = a + i
  OBVIOUS
<1>5. IsPiece(s, f, a, c, B)
  BY ONLY <1>3, <1>4 DEF IsPiece
<1> QED BY <1>5

LEMMA PieceUnique ==
  ASSUME NEW B, NEW f, NEW a \in Nat, NEW c \in Nat, NEW s, NEW t,
         IsPiece(s, f, a, c, B), IsPiece(t, f, a, c, B)
  PROVE  s = t
<1>1. /\ s \in Seq(B) /\ t \in Seq(B) /\ Len(s) = Len(t)
      /\ Len(s) = c - a /\ \A i \in 1 .. c - a : s[i] = t[i]
  BY DEF IsPiece
<1>2. \A i \in 1 .. Len(s) : s[i] = t[i]
  BY <1>1
<1> QED BY ONLY <1>1, <1>2, SeqEqual

LEMMA PieceOfPiece ==
  ASSUME NEW B, NEW f, NEW a \in Nat, NEW c \in Nat, NEW x \in Nat, NEW y \in Nat, NEW s, NEW t,
         IsPiece(s, f, a, c, B), IsPiece(t, s, x, y, B), y <= c - a
  PROVE  IsPiece(t, f, a + x, a + y, B)
<1>1. /\ t \in Seq(B) /\ Len(t) = y - x /\ (\A i \in 1 .. y - x : t[i] = s[x + i])
      /\ \A i \in 1 .. c - a : s[i] = f[a + i]
  BY DEF IsPiece
<1>2. (a + y) - (a + x) = y - x
  OBVIOUS
<1>3. ASSUME NEW i \in 1 .. y - x PROVE t[i] = f[(a + x) + i]
  <2>1. x + i \in 1 .. c - a /\ a + (x + i) = (a + x) + i
    OBVIOUS
  <2> QED BY <1>1, <2>1
<1> QED BY <1>1, <1>2, <1>3 DEF IsPiece

LEMMA DealOne ==
  ASSUME NEW B, NEW f \in Seq(B), NEW a \in Nat, NEW c \in Nat, a <= c, c <= Len(f),
         NEW e, e = SubSeq(f, a + 1, Len(f))
  PROVE  /\ e \in Seq(B) /\ Len(e) = Len(f) - a
         /\ SubSeq(e, 1, c - a) = SubSeq(f, a + 1, c)
         /\ SubSeq(e, (c - a) + 1, Len(e)) = SubSeq(f, c + 1, Len(f))
<1> PICK L \in Nat, d \in Nat : L = Len(f) /\ d = c - a
  OBVIOUS
<1>1. IsPiece(e, f, a, L, B)
  <2>1. a <= L /\ L <= Len(f)
    OBVIOUS
  <2> QED BY <2>1, PieceFacts
<1>2. e \in Seq(B) /\ Len(e) = L - a /\ L - a \in Nat /\ d <= L - a
  BY <1>1 DEF IsPiece
<1> PICK N \in Nat : N = Len(e)
  OBVIOUS
<1>3. SubSeq(e, 1, d) = SubSeq(f, a + 1, c)
  <2> PICK s, t : s = SubSeq(e, 0 + 1, d) /\ t = SubSeq(f, a + 1, c)
    OBVIOUS
  <2>1. IsPiece(s, e, 0, d, B)
    <3>1. 0 \in Nat /\ 0 <= d /\ d <= Len(e)
      BY <1>2
    <3> QED BY ONLY <3>1, <1>2, d \in Nat, s = SubSeq(e, 0 + 1, d), PieceFacts
  <2>2. IsPiece(s, f, a + 0, a + d, B)
    <3>1. 0 \in Nat /\ d <= L - a
      BY <1>2
    <3> QED BY ONLY <1>1, <2>1, <3>1, a \in Nat, L \in Nat, d \in Nat, PieceOfPiece
  <2>3. a + 0 = a /\ a + d = c /\ 0 + 1 = 1
    OBVIOUS
  <2>4. IsPiece(t, f, a, c, B)
    BY ONLY f \in Seq(B), a \in Nat, c \in Nat, a <= c, c <= Len(f), t = SubSeq(f, a + 1, c), PieceFacts
  <2>5. s = t
    BY ONLY <2>2, <2>3, <2>4, a \in Nat, c \in Nat, PieceUnique
  <2> QED BY <2>3, <2>5
<1>4. SubSeq(e, d + 1, N) = SubSeq(f, c + 1, L)
  <2> PICK s, t : s = SubSeq(e, d + 1, N) /\ t = SubSeq(f, c + 1, L)
    OBVIOUS
  <2>1. IsPiece(s, e, d, N, B)
    <3>1. d <= N /\ N <= Len(e)
      BY <1>2
    <3> QED BY ONLY <3>1, <1>2, d \in Nat, N \in Nat, s = SubSeq(e, d + 1, N), PieceFacts
  <2>2. IsPiece(s, f, a + d, a + N, B)
    <3>1. N <= L - a
      BY <1>2
    <3> QED BY ONLY <1>1, <2>1, <3>1, a \in Nat, L \in Nat, d \in Nat, N \in Nat, PieceOfPiece
  <2>3. a + d = c /\ a + N = L
    BY <1>2
  <2>4. IsPiece(t, f, c, L, B)
    <3>1. c <= L /\ L <= Len(f)
      OBVIOUS
    <3> QED BY ONLY f \in Seq(B), c \in Nat, L \in Nat, <3>1, t = SubSeq(f, c + 1, L), PieceFacts
  <2>5. s = t
    BY ONLY <2>2, <2>3, <2>4, c \in Nat, L \in Nat, PieceUnique
  <2> QED BY <2>5
<1> QED BY <1>2, <1>3, <1>4

LEMMA DealApart ==
  ASSUME NEW B, NEW f, NEW t, Pool(B, f, t),
         NEW q \in Seq(Requests), Distinct(q), NEW n, IsDeal(f, q, n), NEW g, NEW u,
         g = SubSeq(f, n[Len(q)] + 1, Len(f)),
         u = [r \in Requests |-> IF Members(q, r) THEN t[r] \o Share(f, q, n, r) ELSE t[r]]
  PROVE  Pool(B, g, u)
<1>i. f \in Seq(B) /\ t \in [Requests -> Seq(B)]
  BY DEF Pool
<1> USE <1>i
<1> PICK m \in Nat, L \in Nat : m = Len(q) /\ L = Len(f)
  OBVIOUS
<1>1. /\ n[0] = 0 /\ (\A k \in 0 .. m : n[k] \in Nat /\ n[k] <= L)
      /\ \A k \in 1 .. m : n[k - 1] <= n[k]
  <2>1. \A k \in 0 .. m : n[k] <= n[m]
    BY MarksRise
  <2>2. \A k \in 0 .. m : n[k] \in Nat
    BY DEF IsDeal
  <2>3. n[m] <= L /\ m \in 0 .. m
    BY DEF IsDeal
  <2>4. ASSUME NEW k \in 0 .. m PROVE n[k] <= L
    <3> PICK x \in Nat, y \in Nat : x = n[k] /\ y = n[m]
      BY <2>2, <2>3
    <3>1. x <= y /\ y <= L
      BY <2>1, <2>3
    <3>2. x <= L
      BY ONLY <3>1, x \in Nat, y \in Nat, L \in Nat
    <3> QED BY <3>2
  <2>5. n[0] = 0 /\ \A k \in 1 .. m : n[k - 1] <= n[k]
    BY DEF IsDeal
  <2> QED BY <2>2, <2>4, <2>5
<1> DEFINE F(k) == SubSeq(f, n[k] + 1, L)
           U(k) == [r \in Requests |-> IF \E j \in 1 .. k : q[j] = r THEN t[r] \o Share(f, q, n, r) ELSE t[r]]
           OK(k) == Pool(B, F(k), U(k))
           G == {k \in 0 .. m : OK(k)}
<1>2. 0 \in G
  <2>1. F(0) = f
    <3>1. F(0) = SubSeq(f, 1, L)
      BY <1>1
    <3> QED BY <3>1, SubSeqFull
  <2>2. U(0) = t
    <3>1. \A r \in Requests : ~\E j \in 1 .. 0 : q[j] = r
      OBVIOUS
    <3> QED BY <3>1
  <2>3. OK(0)
    BY <2>1, <2>2
  <2> HIDE DEF OK
  <2> QED BY <2>3
<1>3. ASSUME NEW k \in 1 .. m, k - 1 \in G PROVE k \in G
  <2> PICK fk, uk, r, a, c : fk = F(k - 1) /\ uk = U(k - 1) /\ r = q[k] /\ a = n[k - 1] /\ c = n[k]
    OBVIOUS
  <2>0. k - 1 \in 0 .. m /\ k \in 0 .. m
    OBVIOUS
  <2>1. a \in Nat /\ c \in Nat /\ a <= c /\ c <= L /\ r \in Requests
    BY <1>1, <2>0
  <2>p. Pool(B, fk, uk)
    BY <1>3
  <2>2. fk \in Seq(B) /\ uk \in [Requests -> Seq(B)]
    BY <2>p DEF Pool
  <2> PICK d \in Nat : d = c - a
    BY <2>1
  <2>3. /\ Len(fk) = L - a
        /\ SubSeq(fk, 1, d) = SubSeq(f, a + 1, c)
        /\ SubSeq(fk, d + 1, Len(fk)) = SubSeq(f, c + 1, L)
    <3>1. a \in Nat /\ c \in Nat /\ a <= c /\ c <= Len(f) /\ fk = SubSeq(f, a + 1, Len(f))
      BY <2>1
    <3>2. /\ Len(fk) = Len(f) - a
          /\ SubSeq(fk, 1, c - a) = SubSeq(f, a + 1, c)
          /\ SubSeq(fk, (c - a) + 1, Len(fk)) = SubSeq(f, c + 1, Len(f))
      BY ONLY f \in Seq(B), <3>1, DealOne
    <3> QED BY <3>2
  <2>4. d \in 0 .. Len(fk)
    <3>1. Len(fk) \in Nat
      BY ONLY <2>2
    <3>a. d <= L - a
      BY ONLY <2>1, a \in Nat, L \in Nat, d = c - a
    <3>2. Len(fk) = L - a
      BY <2>3
    <3> QED BY ONLY <3>1, <3>a, <3>2, d \in Nat
  <2>6. Share(f, q, n, r) = SubSeq(fk, 1, d)
    <3>1. IndexOf(r, q) = k
      <4>1. k \in DOMAIN q
        OBVIOUS
      <4> QED BY ONLY Distinct(q), r = q[k], <4>1, IndexOfFacts
    <3> QED BY <2>3, <3>1 DEF Share
  <2>7. uk[r] = t[r]
    <3>1. ASSUME NEW j \in 1 .. k - 1, q[j] = r PROVE FALSE
      <4>1. j \in DOMAIN q /\ k \in DOMAIN q /\ q[j] = q[k] /\ j # k
        BY <3>1
      <4> QED BY ONLY Distinct(q), <4>1, SamePlace
    <3> QED BY <2>1, <3>1
  <2>8. U(k) = [uk EXCEPT ![r] = uk[r] \o SubSeq(fk, 1, d)]
    <3>1. U(k)[r] = uk[r] \o SubSeq(fk, 1, d)
      <4>1. k \in 1 .. k /\ q[k] = r
        OBVIOUS
      <4> QED BY <2>1, <2>6, <2>7, <4>1
    <3>2. ASSUME NEW s \in Requests, s # r PROVE U(k)[s] = uk[s]
      <4>1. (\E j \in 1 .. k : q[j] = s) <=> \E j \in 1 .. k - 1 : q[j] = s
        <5>1. \A j \in 1 .. k : j = k \/ j \in 1 .. k - 1
          OBVIOUS
        <5>2. \A j \in 1 .. k - 1 : j \in 1 .. k
          OBVIOUS
        <5>3. q[k] # s
          BY <3>2
        <5> QED BY ONLY <5>1, <5>2, <5>3
      <4> QED BY <4>1
    <3> PICK U1, v : U1 = U(k) /\ v = uk[r] \o SubSeq(fk, 1, d)
      OBVIOUS
    <3>3. U1[r] = v /\ (\A s \in Requests : s # r => U1[s] = uk[s]) /\ U1 = [s \in Requests |-> U1[s]]
      BY <3>1, <3>2
    <3>4. U1 = [uk EXCEPT ![r] = v]
      BY ONLY <3>3, <2>2, <2>1
    <3> QED BY <3>4
  <2>9. F(k) = SubSeq(fk, d + 1, Len(fk))
    BY <2>3
  <2> PICK g1, u1 : g1 = F(k) /\ u1 = U(k)
    OBVIOUS
  <2>10. Pool(B, g1, u1)
    <3>1. g1 = SubSeq(fk, d + 1, Len(fk))
      BY <2>9
    <3>2. u1 = [uk EXCEPT ![r] = uk[r] \o SubSeq(fk, 1, d)]
      BY <2>8
    <3>3. r \in Requests
      BY <2>1
    <3> QED BY ONLY <2>p, <2>4, <3>1, <3>2, <3>3, TakeApart
  <2>11. OK(k)
    BY <2>10
  <2> HIDE DEF OK
  <2> QED BY <2>0, <2>11
<1>4. m \in G
  <2>1. \A k \in 0 .. m : k \in G
    <3> HIDE DEF G
    <3> QED BY <1>2, <1>3, Upward
  <2>2. m \in 0 .. m
    OBVIOUS
  <2> HIDE DEF G
  <2> QED BY <2>1, <2>2
<1>5. F(m) = g /\ U(m) = u
  <2>0. DOMAIN q = 1 .. m
    OBVIOUS
  <2>1. \A r : Members(q, r) <=> \E j \in 1 .. m : q[j] = r
    BY ONLY <2>0 DEF Members
  <2>2. U(m) = u
    BY <2>1
  <2> QED BY <2>2
<1> QED BY <1>4, <1>5

(* The blocks of the sequences of q, all of them, given back to the deque f *)
(* in that order, the last block of each first.                             *)
LEMMA ReturnApart ==
  ASSUME NEW B, NEW f, NEW t, Pool(B, f, t),
         NEW q \in Seq(Requests), Distinct(q), NEW s, s[0] = << >>,
         \A k \in 0 .. Len(q) : s[k] \in Seq(B),
         \A k \in 1 .. Len(q) : s[k] = s[k - 1] \o Reverse(t[q[k]]), NEW g, NEW u,
         g = f \o s[Len(q)], u = [r \in Requests |-> IF Members(q, r) THEN << >> ELSE t[r]]
  PROVE  Pool(B, g, u)
<1>i. f \in Seq(B) /\ t \in [Requests -> Seq(B)]
  BY DEF Pool
<1> PICK m \in Nat : m = Len(q)
  BY ONLY q \in Seq(Requests)
<1> DEFINE F(k) == f \o s[k]
           U(k) == [r \in Requests |-> IF \E j \in 1 .. k : q[j] = r THEN << >> ELSE t[r]]
           OK(k) == Pool(B, F(k), U(k))
           G == {k \in 0 .. m : OK(k)}
<1>2. 0 \in G
  <2>1. F(0) = f
    BY <1>i
  <2>2. U(0) = t
    <3>1. \A r \in Requests : ~\E j \in 1 .. 0 : q[j] = r
      OBVIOUS
    <3> QED BY <1>i, <3>1
  <2>3. OK(0)
    BY <2>1, <2>2
  <2> HIDE DEF OK
  <2> QED BY <2>3
<1>3. ASSUME NEW k \in 1 .. m, k - 1 \in G PROVE k \in G
  <2> PICK fk, uk, r, w : fk = F(k - 1) /\ uk = U(k - 1) /\ r = q[k] /\ w = t[r]
    OBVIOUS
  <2>0. k - 1 \in 0 .. m /\ k \in 0 .. m
    OBVIOUS
  <2>1. r \in Requests /\ w \in Seq(B)
    BY <1>i
  <2>p. Pool(B, fk, uk)
    BY <1>3
  <2>2. fk \in Seq(B) /\ uk \in [Requests -> Seq(B)]
    BY <2>p DEF Pool
  <2>7. uk[r] = w
    <3>1. ASSUME NEW j \in 1 .. k - 1, q[j] = r PROVE FALSE
      <4>1. j \in DOMAIN q /\ k \in DOMAIN q /\ q[j] = q[k] /\ j # k
        BY <3>1
      <4> QED BY ONLY Distinct(q), <4>1, SamePlace
    <3> QED BY <2>1, <3>1
  <2>8. U(k) = [uk EXCEPT ![r] = SubSeq(uk[r], 1, 0)]
    <3>1. U(k)[r] = << >>
      <4>1. k \in 1 .. k /\ q[k] = r
        OBVIOUS
      <4> QED BY <2>1, <4>1
    <3>2. ASSUME NEW v \in Requests, v # r PROVE U(k)[v] = uk[v]
      <4>1. (\E j \in 1 .. k : q[j] = v) <=> \E j \in 1 .. k - 1 : q[j] = v
        <5>1. \A j \in 1 .. k : j = k \/ j \in 1 .. k - 1
          OBVIOUS
        <5>2. \A j \in 1 .. k - 1 : j \in 1 .. k
          OBVIOUS
        <5>3. q[k] # v
          BY <3>2
        <5> QED BY ONLY <5>1, <5>2, <5>3
      <4> QED BY <4>1
    <3>a. SubSeq(uk[r], 1, 0) = << >>
      BY SubSeqEmpty
    <3> PICK U1, v : U1 = U(k) /\ v = SubSeq(uk[r], 1, 0)
      OBVIOUS
    <3>3. U1[r] = v /\ (\A x \in Requests : x # r => U1[x] = uk[x]) /\ U1 = [x \in Requests |-> U1[x]]
      BY <3>1, <3>2, <3>a
    <3>4. U1 = [uk EXCEPT ![r] = v]
      BY ONLY <3>3, <2>2, <2>1
    <3> QED BY <3>4
  <2>9. F(k) = fk \o Reverse(SubSeq(uk[r], 0 + 1, Len(uk[r])))
    <3>1. SubSeq(uk[r], 0 + 1, Len(uk[r])) = w
      <4>1. 0 + 1 = 1
        OBVIOUS
      <4> QED BY <2>1, <2>7, <4>1, SubSeqFull
    <3> PICK a, c : a = s[k - 1] /\ c = Reverse(w)
      OBVIOUS
    <3>a. \A j \in 0 .. m : s[j] \in Seq(B)
      OBVIOUS
    <3>b. \A j \in 1 .. m : s[j] = s[j - 1] \o Reverse(t[q[j]])
      OBVIOUS
    <3>c. s[k] = a \o c
      BY <3>b
    <3>2. a \in Seq(B) /\ s[k] = a \o c
      BY ONLY <2>0, <3>a, <3>c, a = s[k - 1]
    <3>3. c \in Seq(B)
      <4>1. Rearranged(c, w, B)
        BY ONLY <2>1, c = Reverse(w), ReverseFacts
      <4> QED BY <4>1 DEF Rearranged
    <3>4. (f \o a) \o c = f \o (a \o c)
      <4>1. f \in Seq(B)
        BY <1>i
      <4>2. a \in Seq(B)
        BY <3>2
      <4> QED BY ONLY <4>1, <4>2, <3>3, ConcatAssociative
    <3> QED BY <3>1, <3>2, <3>4
  <2> PICK g1, u1 : g1 = F(k) /\ u1 = U(k)
    OBVIOUS
  <2>10. Pool(B, g1, u1)
    <3> PICK zero : zero = 0
      OBVIOUS
    <3>1. g1 = fk \o Reverse(SubSeq(uk[r], zero + 1, Len(uk[r])))
      BY <2>9
    <3>2. u1 = [uk EXCEPT ![r] = SubSeq(uk[r], 1, zero)]
      BY <2>8
    <3>3. r \in Requests
      BY <2>1
    <3>4. zero \in 0 .. Len(uk[r])
      BY ONLY <2>7, <2>1, zero = 0
    <3> QED BY ONLY <2>p, <3>1, <3>2, <3>3, <3>4, GiveApart
  <2>11. OK(k)
    BY <2>10
  <2> HIDE DEF OK
  <2> QED BY <2>0, <2>11
<1>4. m \in G
  <2>1. \A k \in 0 .. m : k \in G
    <3> HIDE DEF G
    <3> QED BY <1>2, <1>3, Upward
  <2>2. m \in 0 .. m
    OBVIOUS
  <2> HIDE DEF G
  <2> QED BY <2>1, <2>2
<1>5. F(m) = g /\ U(m) = u
  <2>0. DOMAIN q = 1 .. m
    OBVIOUS
  <2>1. \A r : Members(q, r) <=> \E j \in 1 .. m : q[j] = r
    BY ONLY <2>0 DEF Members
  <2>2. U(m) = u
    BY <2>1
  <2> QED BY <2>2
<1> QED BY <1>4, <1>5

-----------------------------------------------------------------------------
(* List comprehensions. *)
Filtered(p, q, A, X) ==
  /\ p \in Seq(X) /\ (Distinct(q) => Distinct(p))
  /\ \A x : Members(p, x) <=> Members(q, x) /\ x \in A

Extended(r, p, e, X) ==
  /\ r \in Seq(X) /\ \A x : Members(r, x) <=> Members(p, x) \/ x = e
  /\ Distinct(p) /\ ~Members(p, e) => Distinct(r)

LEMMA AppendFacts ==
  ASSUME NEW X, NEW p \in Seq(X), NEW e \in X, NEW r, r = Append(p, e)
  PROVE  Extended(r, p, e, X)
<1> PICK b : b = <<e>>
  OBVIOUS
<1>1. b \in Seq(X) /\ r = p \o b
  OBVIOUS
<1>2. Joined(r, p, b, X)
  BY ONLY p \in Seq(X), <1>1, ConcatFacts
<1>3. \A x : Members(b, x) <=> x = e
  BY DEF Members
<1>4. Distinct(b)
  BY DEF Distinct
<1>5. ~Members(p, e) => Disjoint(p, b)
  BY <1>3 DEF Disjoint
<1> QED BY <1>2, <1>3, <1>4, <1>5 DEF Joined, Extended

LEMMA FilterFacts ==
  ASSUME NEW X, NEW q \in Seq(X), NEW A
  PROVE  Filtered(Filter(q, A), q, A, X)
<1> PICK m \in Nat : m = Len(q)
  OBVIOUS
<1> PICK t : Filtering(t, q, A, X)
  BY ONLY q \in Seq(X), FilterLoop
<1>t. /\ t \in [0 .. m -> Seq(X)] /\ t[0] = << >> /\ t[m] = Filter(q, A)
      /\ \A k \in 1 .. m : t[k] = IF q[k] \in A THEN Append(t[k - 1], q[k]) ELSE t[k - 1]
  BY DEF Filtering
<1> DEFINE OK(k, p) == /\ p \in Seq(X) /\ (Distinct(q) => Distinct(p))
                       /\ \A x : Members(p, x) <=> x \in A /\ \E j \in 1 .. k : q[j] = x
           G == {k \in 0 .. m : OK(k, t[k])}
<1>1. OK(0, << >>)
  BY DEF Distinct, Members
<1>2. ASSUME NEW k \in 1 .. m, k - 1 \in G PROVE OK(k, t[k])
  <2> PICK p, r, e : p = t[k - 1] /\ r = t[k] /\ e = q[k]
    OBVIOUS
  <2>1. OK(k - 1, p) /\ e \in X /\ r = IF e \in A THEN Append(p, e) ELSE p
    BY <1>t, <1>2
  <2>2. ASSUME NEW x PROVE (\E j \in 1 .. k : q[j] = x) <=> x = e \/ \E j \in 1 .. k - 1 : q[j] = x
    <3>1. (\A j \in 1 .. k : j = k \/ j \in 1 .. k - 1) /\ (\A j \in 1 .. k - 1 : j \in 1 .. k) /\ k \in 1 .. k
      OBVIOUS
    <3> QED BY ONLY <3>1, e = q[k]
  <2>3. CASE e \notin A
    <3>1. r = p
      BY <2>1, <2>3
    <3>2. ASSUME NEW x PROVE Members(p, x) <=> x \in A /\ \E j \in 1 .. k : q[j] = x
      <4>1. Members(p, x) <=> x \in A /\ \E j \in 1 .. k - 1 : q[j] = x
        BY <2>1
      <4> QED BY ONLY <2>3, <4>1, <2>2
    <3> QED BY <2>1, <3>1, <3>2
  <2>4. CASE e \in A
    <3>1. Distinct(q) => ~Members(p, e)
      <4> SUFFICES ASSUME Distinct(q), Members(p, e) PROVE FALSE
        OBVIOUS
      <4>1. PICK j \in 1 .. k - 1 : q[j] = e
        BY <2>1
      <4>2. j \in DOMAIN q /\ k \in DOMAIN q /\ j # k /\ q[j] = q[k]
        BY <4>1
      <4> QED BY ONLY Distinct(q), <4>2, SamePlace
    <3>2. r = Append(p, e)
      BY <2>1, <2>4
    <3>3. /\ r \in Seq(X) /\ \A x : Members(r, x) <=> Members(p, x) \/ x = e
          /\ Distinct(p) /\ ~Members(p, e) => Distinct(r)
      <4>1. p \in Seq(X) /\ e \in X
        BY <2>1
      <4>2. Extended(r, p, e, X)
        BY ONLY <3>2, <4>1, AppendFacts
      <4> QED BY ONLY <4>2 DEF Extended
    <3>4. ASSUME NEW x PROVE Members(r, x) <=> x \in A /\ \E j \in 1 .. k : q[j] = x
      <4>1. Members(p, x) <=> x \in A /\ \E j \in 1 .. k - 1 : q[j] = x
        BY <2>1
      <4>2. Members(r, x) <=> Members(p, x) \/ x = e
        BY <3>3
      <4> QED BY ONLY <2>4, <4>1, <4>2, <2>2
    <3>5. Distinct(q) => Distinct(p)
      BY <2>1
    <3> QED BY <3>1, <3>3, <3>4, <3>5 DEF OK
  <2> QED BY <2>3, <2>4
<1> HIDE DEF OK
<1>3. 0 \in G /\ \A k \in 1 .. m : k - 1 \in G => k \in G
  BY <1>t, <1>1, <1>2
<1>4. m \in G
  <2> HIDE DEF G
  <2>1. \A k \in 0 .. m : k \in G
    BY <1>3, Upward
  <2>2. m \in 0 .. m
    OBVIOUS
  <2> QED BY <2>1, <2>2
<1>5. OK(m, Filter(q, A))
  BY <1>t, <1>4
<1>6. \A x : Members(q, x) <=> \E j \in 1 .. m : q[j] = x
  <2>1. DOMAIN q = 1 .. m
    OBVIOUS
  <2> QED BY ONLY <2>1 DEF Members
<1> QED BY <1>5, <1>6 DEF OK, Filtered

-----------------------------------------------------------------------------
(* The inductive invariant of the pool: who waits and who runs, what the   *)
(* batch holds, and the blocks and query blocks each in one place.         *)
Types ==
  /\ recipe \in Recipes /\ plen \in Prompts
  /\ pc \in {"idle", "schedule", "run", "post", "compress", "store", "raised"}
  /\ added \in 0 .. NumRequests /\ num_tokens \in [Requests -> Nat]
  /\ waiting \in Seq(Requests) /\ running \in Seq(Requests) /\ batch \in Seq(Requests)
  /\ todo \in Seq(Requests) /\ prefill \in BOOLEAN
  /\ qblock \in [Requests -> {0} \cup Rows]

(* Only the running requests hold blocks; who waits has its prompt only.   *)
Queues ==
  /\ Distinct(waiting) /\ Distinct(running)
  /\ \A r : Members(waiting, r) => ~Members(running, r) /\ r <= added
  /\ \A r : Members(running, r) => r <= added /\ qblock[r] # 0
  /\ \A r \in Requests : ~Members(running, r) => table[r] = << >> /\ qblock[r] = 0
  /\ \A r \in Requests : Members(waiting, r) \/ r > added => num_tokens[r] = plen[r]
  /\ pc = "idle" => waiting = << >> /\ running = << >>

(* The batch of the step, and the requests that are still rewritten.       *)
Batches ==
  /\ pc \in {"run", "post"} => \A r : Members(batch, r) => Members(running, r)
  /\ pc \in {"run", "post", "compress"} => Distinct(batch)
  /\ pc = "run" => Len(batch) <= MaxNumSeqs /\ \A r : Members(batch, r) => table[r] # << >>
  /\ pc \in {"run", "post"} /\ prefill => \A r : Members(batch, r) => num_tokens[r] = plen[r]
  /\ pc = "run" /\ prefill => \A r : Members(batch, r) => Len(table[r]) = plen[r]
  /\ pc = "store" => /\ Distinct(todo)
                     /\ \A r : Members(todo, r) => Members(running, r) /\ Len(table[r]) >= Budget

(* The query blocks, as tables of one block. *)
QTable == [r \in Requests |-> IF qblock[r] = 0 THEN << >> ELSE <<qblock[r]>>]

Base == Types /\ Queues /\ Batches /\ Pool(Blocks, free, table) /\ Pool(Rows, qfree, QTable)

LEMMA EmptyTables ==
  ASSUME NEW B, NEW f \in Seq(B), Distinct(f), \A x \in B : Members(f, x),
         NEW t \in [Requests -> Seq(B)], \A r \in Requests : t[r] = << >>
  PROVE  Pool(B, f, t)
<1>1. ASSUME NEW r \in Requests, NEW x PROVE ~Members(t[r], x)
  BY NoMembers
<1>2. \A r \in Requests : Distinct(t[r])
  BY NoMembers
<1> QED BY <1>1, <1>2 DEF Pool, Apart, Disjoint

LEMMA WholeDeque ==
  ASSUME NEW n \in Nat, NEW f, f = [i \in 1 .. n |-> i]
  PROVE  f \in Seq(1 .. n) /\ Distinct(f) /\ \A x \in 1 .. n : Members(f, x)
<1>1. DOMAIN f = 1 .. n /\ f \in Seq(1 .. n) /\ \A i \in 1 .. n : f[i] = i
  OBVIOUS
<1> QED BY <1>1 DEF Distinct, Members

LEMMA BaseInit == Init => Base
<1> SUFFICES ASSUME Init PROVE Base
  OBVIOUS
<1> USE DEF Init
<1>1. Types
  <2>1. \A p \in Prompts : p \in [Requests -> Nat \ {0}]
    BY KVAssumption DEF Requests
  <2>2. num_tokens \in [Requests -> Nat]
    BY <2>1
  <2>3. NumRequests \in Nat
    BY KVAssumption
  <2>4. qblock \in [Requests -> {0} \cup Rows]
    OBVIOUS
  <2>5. waiting \in Seq(Requests) /\ running \in Seq(Requests) /\ batch \in Seq(Requests) /\ todo \in Seq(Requests)
    OBVIOUS
  <2>6. recipe \in Recipes /\ plen \in Prompts /\ pc = "idle" /\ added = 0 /\ prefill \in BOOLEAN
    OBVIOUS
  <2>7. added \in 0 .. NumRequests
    BY <2>3, <2>6
  <2> QED BY ONLY <2>2, <2>4, <2>5, <2>6, <2>7 DEF Types
<1>2. Queues
  BY NoMembers DEF Queues
<1>3. Batches
  BY DEF Batches
<1>4. Pool(Blocks, free, table)
  <2>1. NumBlocks \in Nat
    BY KVAssumption
  <2>2. free = [i \in 1 .. NumBlocks |-> i]
    BY DEF BlockSeq, Blocks
  <2>3. free \in Seq(Blocks) /\ Distinct(free) /\ \A x \in Blocks : Members(free, x)
    BY ONLY <2>1, <2>2, WholeDeque DEF Blocks
  <2>4. table \in [Requests -> Seq(Blocks)] /\ \A r \in Requests : table[r] = << >>
    OBVIOUS
  <2> QED BY ONLY <2>3, <2>4, EmptyTables
<1>5. Pool(Rows, qfree, QTable)
  <2>1. MaxNumSeqs \in Nat
    BY KVAssumption
  <2>2. qfree = [i \in 1 .. MaxNumSeqs |-> i]
    BY DEF Rows
  <2>3. qfree \in Seq(Rows) /\ Distinct(qfree) /\ \A x \in Rows : Members(qfree, x)
    BY ONLY <2>1, <2>2, WholeDeque DEF Rows
  <2>4. QTable \in [Requests -> Seq(Rows)] /\ \A r \in Requests : QTable[r] = << >>
    BY DEF QTable
  <2> QED BY ONLY <2>3, <2>4, EmptyTables
<1> QED BY <1>1, <1>2, <1>3, <1>4, <1>5 DEF Base

(* The steps that move no block and no request.                            *)
LEMMA BaseStill ==
  ASSUME Base, UNCHANGED <<fixed, queues, blocks>>, pc' \in {"schedule", "post", "raised"},
         pc' = "post" => pc = "run", pc # "idle", todo' \in Seq(Requests)
  PROVE  Base'
<1> USE DEF Base, fixed, queues, blocks
<1>1. Types'
  BY DEF Types
<1>2. Queues'
  BY DEF Queues
<1>3. Batches'
  BY DEF Batches
<1>4. Pool(Rows, qfree, QTable)'
  BY DEF QTable
<1> QED BY <1>1, <1>2, <1>3, <1>4

LEMMA BaseGenerate ==
  ASSUME Base, Generate
  PROVE  Base'
<1> USE DEF Base, fixed, blocks, caches
<1> PICK n \in added + 1 .. NumRequests : waiting' = [i \in 1 .. n - added |-> added + i] /\ added' = n
  BY DEF Generate
<1>0. pc = "idle" /\ pc' = "schedule" /\ UNCHANGED <<fixed, running, num_tokens, batch, prefill, blocks, todo>>
  BY DEF Generate
<1>1. added \in Nat /\ NumRequests \in Nat /\ added <= NumRequests
  BY KVAssumption DEF Types
<1>2. waiting' \in Seq(Requests) /\ DOMAIN waiting' = 1 .. n - added /\ \A i \in 1 .. n - added : waiting'[i] = added + i
  <2>1. \A i \in 1 .. n - added : added + i \in Requests
    BY <1>1 DEF Requests
  <2> QED BY <1>1, <2>1
<1>3. \A r : Members(waiting', r) => r \in Nat /\ r > added /\ r <= n
  BY <1>1, <1>2 DEF Members
<1>4. Distinct(waiting')
  BY <1>1, <1>2 DEF Distinct
<1>5. \A r : ~Members(running, r)
  BY <1>0, NoMembers DEF Queues
<1>6. Types'
  BY <1>0, <1>1, <1>2 DEF Types
<1>7. Queues'
  <2>1. \A r \in Requests : r > n => r > added
    BY <1>1 DEF Requests
  <2>2. Distinct(running)' /\ \A r : ~Members(running, r)'
    BY <1>0, <1>5 DEF Queues
  <2>3. \A r \in Requests : table'[r] = << >> /\ qblock'[r] = 0
    BY <1>0, <1>5 DEF Queues
  <2>4. \A r \in Requests : Members(waiting', r) \/ r > n => num_tokens'[r] = plen'[r]
    BY <1>0, <1>3, <2>1 DEF Queues
  <2> QED BY <1>0, <1>3, <1>4, <2>2, <2>3, <2>4 DEF Queues
<1>8. Batches'
  BY <1>0 DEF Batches
<1>9. Pool(Blocks, free, table)' /\ Pool(Rows, qfree, QTable)'
  BY <1>0 DEF QTable
<1> QED BY <1>6, <1>7, <1>8, <1>9

LEMMA BaseReturn ==
  ASSUME Base, Return
  PROVE  Base'
<1> USE DEF Base, fixed, caches
<1>0. /\ pc = "schedule" /\ waiting = << >> /\ running = << >> /\ free' = BlockSeq /\ pc' = "idle" /\ batch' = << >>
      /\ UNCHANGED <<fixed, added, waiting, running, num_tokens, prefill, table, qblock, qfree, todo>>
  BY DEF Return
<1>1. Types'
  BY <1>0 DEF Types
<1>2. Queues'
  BY <1>0 DEF Queues
<1>3. Batches'
  BY <1>0 DEF Batches
<1>4. Pool(Blocks, free', table')
  <2>1. NumBlocks \in Nat
    BY KVAssumption
  <2>2. free' = [i \in 1 .. NumBlocks |-> i]
    BY <1>0 DEF BlockSeq, Blocks
  <2>3. free' \in Seq(Blocks) /\ Distinct(free') /\ \A x \in Blocks : Members(free', x)
    BY ONLY <2>1, <2>2, WholeDeque DEF Blocks
  <2>4. table' \in [Requests -> Seq(Blocks)]
    BY <1>0 DEF Pool
  <2>5. \A r : ~Members(running, r)
    BY <1>0, NoMembers
  <2>6. \A r \in Requests : table'[r] = << >>
    BY <1>0, <2>5 DEF Queues
  <2> QED BY ONLY <2>3, <2>4, <2>6, EmptyTables
<1>5. Pool(Rows, qfree, QTable)'
  BY <1>0 DEF QTable
<1> QED BY <1>1, <1>2, <1>3, <1>4, <1>5

(* One block for each sequence of q.                                       *)
LEMMA DealOneEach ==
  ASSUME NEW B, NEW f, NEW t, Pool(B, f, t),
         NEW q \in Seq(Requests), Distinct(q), Len(q) <= Len(f), NEW g, NEW u,
         g = SubSeq(f, Len(q) + 1, Len(f)),
         u = [r \in Requests |-> IF Members(q, r) THEN Append(t[r], f[IndexOf(r, q)]) ELSE t[r]]
  PROVE  Pool(B, g, u)
<1> PICK m \in Nat : m = Len(q)
  OBVIOUS
<1> PICK n : n = [k \in 0 .. m |-> k]
  OBVIOUS
<1>0. f \in Seq(B) /\ t \in [Requests -> Seq(B)]
  BY DEF Pool
<1>1. IsDeal(f, q, n)
  <2>1. \A k \in 0 .. m : n[k] = k
    OBVIOUS
  <2>2. m \in 0 .. m /\ 0 \in 0 .. m /\ \A k \in 1 .. m : k \in 0 .. m /\ k - 1 \in 0 .. m
    OBVIOUS
  <2>3. m <= Len(f) /\ m = Len(q)
    OBVIOUS
  <2> QED BY ONLY <2>1, <2>2, <2>3 DEF IsDeal
<1>2. ASSUME NEW r \in Requests, Members(q, r)
      PROVE  t[r] \o Share(f, q, n, r) = Append(t[r], f[IndexOf(r, q)])
  <2> PICK k \in DOMAIN q : q[k] = r
    BY <1>2 DEF Members
  <2>1. IndexOf(r, q) = k /\ k \in 1 .. m
    <3>1. IndexOf(q[k], q) = k
      BY ONLY Distinct(q), IndexOfFacts
    <3> QED BY <3>1
  <2>2. k - 1 \in 0 .. m /\ k \in 0 .. m /\ (k - 1) + 1 = k /\ k - 1 \in Nat /\ k \in Nat /\ k - 1 <= k /\ k <= Len(f)
    BY <2>1
  <2> PICK s, a : s = SubSeq(f, a + 1, k) /\ a = k - 1
    OBVIOUS
  <2>3. Share(f, q, n, r) = s
    BY <2>1, <2>2 DEF Share
  <2>4. IsPiece(s, f, a, k, B)
    <3>1. a \in Nat /\ k \in Nat /\ a <= k /\ k <= Len(f)
      BY <2>2
    <3> QED BY ONLY <1>0, <3>1, s = SubSeq(f, a + 1, k), PieceFacts
  <2>5. s \in Seq(B) /\ Len(s) = 1 /\ s[1] = f[k]
    <3>1. k - a = 1 /\ a + 1 = k
      BY <2>2
    <3>2. 1 \in 1 .. 1
      OBVIOUS
    <3> QED BY ONLY <2>4, <3>1, <3>2 DEF IsPiece
  <2>6. t[r] \in Seq(B) /\ f[k] \in B
    <3>1. k \in 1 .. Len(f)
      BY ONLY <2>2
    <3> QED BY ONLY <1>0, <3>1, r \in Requests
  <2> PICK p, e : p = t[r] /\ e = f[k]
    OBVIOUS
  <2>7. p \o s = Append(p, e)
    <3>1. p \in Seq(B) /\ e \in B /\ s \in Seq(B) /\ Len(s) = 1 /\ s[1] = e
      BY <2>5, <2>6
    <3> PICK v : v = <<e>>
      OBVIOUS
    <3>2. v \in Seq(B) /\ Len(v) = 1 /\ v[1] = e
      BY ONLY <3>1, v = <<e>>
    <3>3. s = v
      <4>1. Len(s) = Len(v) /\ \A i \in 1 .. Len(s) : s[i] = v[i]
        BY ONLY <3>1, <3>2
      <4> QED BY ONLY <3>1, <3>2, <4>1, SeqEqual
    <3>4. p \o v = Append(p, e)
      BY ONLY <3>1, v = <<e>>
    <3> QED BY <3>3, <3>4
  <2> QED BY <2>1, <2>3, <2>7
<1>3. g = SubSeq(f, n[Len(q)] + 1, Len(f))
  <2>1. n[m] = m
    BY ONLY m \in Nat, n = [k \in 0 .. m |-> k]
  <2> QED BY ONLY <2>1, m = Len(q), g = SubSeq(f, Len(q) + 1, Len(f))
<1>4. u = [r \in Requests |-> IF Members(q, r) THEN t[r] \o Share(f, q, n, r) ELSE t[r]]
  BY <1>2
<1> QED BY ONLY Pool(B, f, t), q \in Seq(Requests), Distinct(q), <1>1, <1>3, <1>4, DealApart

LEMMA AdmittedFacts ==
  ASSUME Base
  PROVE  /\ Admitted \in 0 .. Len(waiting)
         /\ Admitted > 0 => Admitted <= MaxNumSeqs /\ Needed(Admitted) <= Len(free)
<1> DEFINE S == {0} \cup {i \in 1 .. Len(waiting) :
                  i <= MaxNumSeqs /\ Needed(i) <= MaxBatchedTokens /\ Needed(i) <= Len(free)}
<1> PICK m \in Nat : m = Len(waiting)
  BY DEF Base, Types
<1>1. S \in SUBSET (0 .. m) /\ S # {}
  OBVIOUS
<1>2. Max(S) \in S
  <2> HIDE DEF S
  <2> QED BY ONLY m \in Nat, <1>1, GreatestOf
<1>3. Admitted = Max(S)
  BY DEF Admitted
<1>4. Admitted \in S
  BY <1>2, <1>3
<1> HIDE <1>1
<1> QED BY <1>1, <1>4

LEMMA BasePrefill ==
  ASSUME Base, SchedulePrefill
  PROVE  Base'
<1> PICK A, new, rest, plenty : A = Admitted /\ new = SubSeq(waiting, 1, A)
      /\ rest = SubSeq(waiting, A + 1, Len(waiting)) /\ plenty = Len(free)
  OBVIOUS
<1>a. /\ pc = "schedule" /\ A > 0 /\ A <= Len(qfree) /\ pc' = "run" /\ prefill' = TRUE
      /\ running' = running \o new /\ batch' = new /\ waiting' = rest
      /\ UNCHANGED <<recipe, plen, added, num_tokens, todo>>
      /\ free' = SubSeq(free, Needed(A) + 1, Len(free))
      /\ qfree' = SubSeq(qfree, A + 1, Len(qfree))
  BY DEF SchedulePrefill, fixed
<1>b. table' = [r \in Requests |->
                       IF r \in Range(new)
                       THEN SubSeq(free, Needed(IndexOf(r, new) - 1) + 1, Needed(IndexOf(r, new))) ELSE table[r]]
  BY DEF SchedulePrefill
<1>c. qblock' = [r \in Requests |-> IF r \in Range(new) THEN qfree[IndexOf(r, new)] ELSE qblock[r]]
  BY DEF SchedulePrefill
<1>d. Types /\ Queues /\ Pool(Blocks, free, table) /\ Pool(Rows, qfree, QTable)
  BY DEF Base
<1>e. /\ waiting \in Seq(Requests) /\ running \in Seq(Requests) /\ num_tokens \in [Requests -> Nat]
      /\ qblock \in [Requests -> {0} \cup Rows] /\ plen \in Prompts
      /\ plen \in [Requests -> Nat \ {0}]
  <2>1. \A p \in Prompts : p \in [Requests -> Nat \ {0}]
    BY KVAssumption DEF Requests
  <2> QED BY <1>d, <2>1 DEF Types
<1>f. free \in Seq(Blocks) /\ table \in [Requests -> Seq(Blocks)] /\ qfree \in Seq(Rows)
  BY <1>d DEF Pool
<1>g. A \in 1 .. Len(waiting) /\ A <= MaxNumSeqs /\ Needed(A) <= Len(free)
  <2>1. /\ Admitted \in 0 .. Len(waiting)
        /\ Admitted > 0 => Admitted <= MaxNumSeqs /\ Needed(Admitted) <= Len(free)
    BY AdmittedFacts
  <2>2. Len(waiting) \in Nat
    BY ONLY <1>e
  <2> QED BY <1>a, <2>1, <2>2
<1>h. /\ new \in Seq(Requests) /\ rest \in Seq(Requests) /\ Len(new) = A /\ waiting = new \o rest
      /\ \A k \in 1 .. A : new[k] = waiting[k]
  <2>1. CutAt(waiting, new, rest, A, Requests) /\ \A k \in 1 .. A : new[k] = waiting[k]
    <3>1. A \in 0 .. Len(waiting)
      <4>1. Len(waiting) \in Nat
        BY ONLY <1>e
      <4> QED BY ONLY <1>g, <4>1
    <3>2. waiting \in Seq(Requests)
      BY <1>e
    <3>3. new = SubSeq(waiting, 1, A) /\ rest = SubSeq(waiting, A + 1, Len(waiting))
      OBVIOUS
    <3> QED BY ONLY <3>1, <3>2, <3>3, CutFacts
  <2> QED BY <2>1 DEF CutAt
<1>i. /\ \A x : Members(waiting, x) <=> Members(new, x) \/ Members(rest, x)
      /\ Distinct(new) /\ Distinct(rest) /\ Disjoint(new, rest)
  <2>1. Joined(waiting, new, rest, Requests)
    BY ONLY <1>h, ConcatFacts
  <2>2. Distinct(waiting)
    BY <1>d DEF Queues
  <2> QED BY ONLY <2>1, <2>2 DEF Joined
<1>j. \A x : Members(new, x) => x \in Requests /\ ~Members(running, x) /\ x <= added
  <2>1. \A x : Members(new, x) => x \in Requests
    BY <1>h, MembersType
  <2> QED BY <1>d, <1>i, <2>1 DEF Queues
<1>k. running' \in Seq(Requests) /\ (\A x : Members(running', x) <=> Members(running, x) \/ Members(new, x)) /\ Distinct(running')
  <2>1. Joined(running', running, new, Requests)
    BY ONLY <1>a, <1>e, <1>h, ConcatFacts
  <2>2. Distinct(running) /\ Disjoint(running, new)
    BY <1>d, <1>j DEF Queues, Disjoint
  <2> QED BY ONLY <1>i, <2>1, <2>2 DEF Joined
<1>l. \A x : x \in Range(new) <=> Members(new, x)
  BY RangeMembers
<1>m. \A x : Members(new, x) => table[x] = << >> /\ qblock[x] = 0 /\ num_tokens[x] = plen[x]
  BY <1>d, <1>i, <1>j DEF Queues
<1>n. \A x : Members(new, x) => IndexOf(x, new) \in 1 .. A /\ new[IndexOf(x, new)] = x
  <2> SUFFICES ASSUME NEW x, Members(new, x) PROVE IndexOf(x, new) \in 1 .. A /\ new[IndexOf(x, new)] = x
    OBVIOUS
  <2> PICK k \in DOMAIN new : new[k] = x
    BY DEF Members
  <2>1. IndexOf(new[k], new) = k
    BY ONLY <1>i, IndexOfFacts
  <2>2. k \in 1 .. A
    BY <1>h
  <2> QED BY <2>1, <2>2
<1>o. /\ Needed(0) = 0 /\ \A k \in 0 .. A : Needed(k) \in Nat
      /\ \A k \in 1 .. A : Needed(k) = Needed(k - 1) + num_tokens[new[k]]
  <2>1. /\ Needed(0) = 0 /\ \A k \in 0 .. Len(waiting) : Needed(k) \in Nat
        /\ \A k \in 1 .. Len(waiting) : Needed(k) = Needed(k - 1) + num_tokens[waiting[k]]
    BY <1>e, NeededLoop
  <2>2. \A k \in 0 .. A : k \in 0 .. Len(waiting)
    BY <1>e, <1>g
  <2>3. \A k \in 1 .. A : k \in 1 .. Len(waiting)
    BY <1>e, <1>g
  <2> QED BY <1>h, <2>1, <2>2, <2>3
<1> PICK n : n = [k \in 0 .. A |-> Needed(k)]
  OBVIOUS
<1>p. \A k \in 1 .. A : k \in 0 .. A /\ k - 1 \in 0 .. A /\ n[k] = Needed(k) /\ n[k - 1] = Needed(k - 1)
                        /\ new[k] \in Requests /\ num_tokens[new[k]] \in Nat
  <2>1. \A k \in 1 .. A : k \in 0 .. A /\ k - 1 \in 0 .. A /\ k \in DOMAIN new
    BY <1>g, <1>h
  <2>2. \A k \in 1 .. A : new[k] \in Requests
    BY <1>h, <2>1
  <2> QED BY <1>e, <2>1, <2>2
<1>q. 0 \in 0 .. A /\ A \in 0 .. A /\ n[0] = 0 /\ n[A] = Needed(A) /\ \A k \in 0 .. A : n[k] \in Nat
  <2>1. 0 \in 0 .. A /\ A \in 0 .. A
    BY <1>g
  <2> QED BY <1>o, <2>1
<1>r. IsDeal(free, new, n)
  <2>1. \A k \in 1 .. A : n[k - 1] <= n[k]
    <3> SUFFICES ASSUME NEW k \in 1 .. A PROVE n[k - 1] <= n[k]
      OBVIOUS
    <3> PICK x \in Nat, y \in Nat, z \in Nat : x = Needed(k - 1) /\ y = Needed(k) /\ z = num_tokens[new[k]]
      BY <1>o, <1>p
    <3>1. y = x + z
      BY <1>o
    <3>2. x <= y
      BY ONLY <3>1, x \in Nat, y \in Nat, z \in Nat
    <3> QED BY <1>p, <3>2
  <2>2. n[A] <= Len(free)
    BY <1>g, <1>q
  <2>3. Len(new) = A
    BY <1>h
  <2> QED BY ONLY <1>q, <2>1, <2>2, <2>3 DEF IsDeal
<1>s. ASSUME NEW r \in Requests, Members(new, r)
      PROVE  table'[r] = Share(free, new, n, r) /\ Len(table'[r]) = plen[r]
  <2> PICK k, x, y : k = IndexOf(r, new) /\ x = n[k - 1] /\ y = n[k]
    OBVIOUS
  <2>1. k \in 1 .. A /\ new[k] = r
    BY <1>n, <1>s
  <2>2. x = Needed(k - 1) /\ y = Needed(k)
    BY <1>p, <2>1
  <2>3. table'[r] = SubSeq(free, x + 1, y)
    BY <1>b, <1>l, <1>s, <2>2
  <2>4. Share(free, new, n, r) = SubSeq(free, x + 1, y)
    BY ONLY k = IndexOf(r, new), x = n[k - 1], y = n[k] DEF Share
  <2>5. x \in Nat /\ y \in Nat /\ x <= y /\ y <= Len(free) /\ y - x = plen[r]
    <3>1. x \in Nat /\ y \in Nat
      <4>1. k \in 0 .. A /\ k - 1 \in 0 .. A
        BY <1>p, <2>1
      <4> QED BY ONLY <1>q, <4>1, x = n[k - 1], y = n[k]
    <3>2. y = x + plen[r] /\ plen[r] \in Nat
      <4>1. num_tokens[r] = plen[r]
        BY ONLY <1>m, <1>s
      <4>2. plen[r] \in Nat
        BY ONLY <1>e, r \in Requests
      <4>3. Needed(k) = Needed(k - 1) + num_tokens[new[k]]
        BY ONLY <1>o, <2>1
      <4> QED BY ONLY <2>1, <2>2, <4>1, <4>2, <4>3
    <3>3. y <= Len(free)
      <4>1. \A j \in 0 .. Len(new) : n[j] <= n[Len(new)]
        <5>1. Len(new) \in Nat
          BY ONLY <1>h
        <5> QED BY ONLY <1>r, <5>1, MarksRise
      <4>2. y <= n[A]
        BY <1>h, <1>p, <2>1, <4>1
      <4> PICK z \in Nat, L \in Nat : z = n[A] /\ L = Len(free)
        BY <1>f, <1>q
      <4>3. z <= L
        BY <1>g, <1>q
      <4>4. y <= L
        BY ONLY <3>1, <4>2, <4>3, z = n[A], z \in Nat, L \in Nat
      <4> QED BY <4>4
    <3>4. x <= y /\ y - x = plen[r]
      BY ONLY <3>1, <3>2
    <3> QED BY <3>1, <3>3, <3>4
  <2> PICK s : s = SubSeq(free, x + 1, y)
    OBVIOUS
  <2>6. IsPiece(s, free, x, y, Blocks)
    BY ONLY <1>f, <2>5, s = SubSeq(free, x + 1, y), PieceFacts
  <2>7. Len(s) = plen[r]
    BY ONLY <2>5, <2>6 DEF IsPiece
  <2> QED BY <2>3, <2>4, <2>7
<1>t. Pool(Blocks, free', table')
  <2>1. free' = SubSeq(free, n[Len(new)] + 1, Len(free))
    BY <1>a, <1>h, <1>q
  <2>2. table' = [r \in Requests |-> IF Members(new, r) THEN table[r] \o Share(free, new, n, r) ELSE table[r]]
    <3>1. ASSUME NEW r \in Requests, Members(new, r) PROVE table'[r] = table[r] \o Share(free, new, n, r)
      <4>1. table'[r] \in Seq(Blocks)
        <5> PICK x, y : /\ table'[r] = SubSeq(free, x + 1, y)
                        /\ x = n[IndexOf(r, new) - 1]
                        /\ y = n[IndexOf(r, new)]
          BY <1>s, <3>1 DEF Share
        <5>1. x \in Nat /\ y \in Nat
          BY <1>n, <1>p, <1>q, <3>1
        <5> PICK z : z = x + 1
          OBVIOUS
        <5>2. IndexOf(r, new) \in 0 .. Len(new)
          BY <1>h, <1>n, <1>p, <3>1
        <5>3. y <= Len(free)
          <6>1. \A j \in 0 .. Len(new) : n[j] <= n[Len(new)]
            <7>1. Len(new) \in Nat
              BY ONLY <1>h
            <7> QED BY ONLY <1>r, <7>1, MarksRise
          <6>2. n[Len(new)] <= Len(free)
            BY <1>r DEF IsDeal
          <6> PICK w \in Nat, L \in Nat : w = n[Len(new)] /\ L = Len(free)
            BY <1>f, <1>h, <1>q
          <6>3. y <= w /\ w <= L
            BY ONLY <5>2, <6>1, <6>2, y = n[IndexOf(r, new)], w = n[Len(new)], L = Len(free)
          <6>4. y <= L
            BY ONLY <5>1, <6>3, w \in Nat, L \in Nat
          <6> QED BY <6>4
        <5>4. \A i \in z .. y : free[i] \in Blocks
          <6>1. \A i \in z .. y : i \in 1 .. Len(free)
            <7>1. Len(free) \in Nat
              BY ONLY <1>f
            <7> QED BY ONLY <5>1, <5>3, <7>1, z = x + 1
          <6> QED BY ONLY <1>f, <6>1
        <5>5. z \in Int /\ y \in Int
          BY ONLY <5>1, z = x + 1
        <5>6. SubSeq(free, z, y) \in Seq(Blocks)
          BY ONLY <5>4, <5>5, SubSeqProperties
        <5> QED BY <5>6
      <4>2. table[r] = << >>
        BY <1>m, <3>1
      <4>3. << >> \o table'[r] = table'[r]
        BY ONLY <4>1
      <4> QED BY <1>s, <3>1, <4>2, <4>3
    <3>2. ASSUME NEW r \in Requests, ~Members(new, r) PROVE table'[r] = table[r]
      BY <1>b, <1>l, <3>2
    <3> PICK T, W : T = table' /\ W = [r \in Requests |-> IF Members(new, r) THEN table[r] \o Share(free, new, n, r) ELSE table[r]]
      OBVIOUS
    <3>3. T = [r \in Requests |-> T[r]]
      BY ONLY <1>b, T = table'
    <3>4. W = [r \in Requests |-> W[r]] /\ \A r \in Requests : T[r] = W[r]
      BY <3>1, <3>2
    <3>5. T = W
      BY ONLY <3>3, <3>4
    <3> QED BY <3>5
  <2> PICK g, u : g = free' /\ u = table'
    OBVIOUS
  <2>3. g = SubSeq(free, n[Len(new)] + 1, Len(free))
    BY ONLY <2>1, g = free'
  <2>4. u = [r \in Requests |-> IF Members(new, r) THEN table[r] \o Share(free, new, n, r) ELSE table[r]]
    BY ONLY <2>2, u = table'
  <2>5. Pool(Blocks, free, table)
    BY <1>d
  <2>6. new \in Seq(Requests)
    BY <1>h
  <2>7. Distinct(new)
    BY <1>i
  <2>8. Pool(Blocks, g, u)
    BY ONLY <1>r, <2>3, <2>4, <2>5, <2>6, <2>7, DealApart
  <2> QED BY <2>8
<1>u. \A r \in Requests : Members(new, r) => qblock'[r] \in Rows /\ qblock'[r] = qfree[IndexOf(r, new)]
  <2> SUFFICES ASSUME NEW r \in Requests, Members(new, r)
               PROVE qblock'[r] \in Rows /\ qblock'[r] = qfree[IndexOf(r, new)]
    OBVIOUS
  <2> PICK k : k = IndexOf(r, new)
    OBVIOUS
  <2>1. k \in 1 .. A /\ qblock'[r] = qfree[k]
    BY <1>c, <1>l, <1>n
  <2>2. k \in 1 .. Len(qfree)
    <3>1. Len(qfree) \in Nat /\ Len(waiting) \in Nat
      BY ONLY <1>e, <1>f
    <3> QED BY ONLY <1>a, <1>g, <2>1, <3>1
  <2>3. qfree[k] \in Rows
    BY ONLY <1>f, <2>2
  <2> QED BY <2>1, <2>3
<1>v. \A r \in Requests : ~Members(new, r) => qblock'[r] = qblock[r]
  BY <1>c, <1>l
<1>w. \A x \in Rows : x # 0
  BY KVAssumption DEF Rows
<1>x. Pool(Rows, qfree', QTable')
  <2>1. qfree' = SubSeq(qfree, Len(new) + 1, Len(qfree)) /\ Len(new) <= Len(qfree)
    BY <1>a, <1>h
  <2>2. ASSUME NEW r \in Requests PROVE QTable'[r] = IF Members(new, r) THEN Append(QTable[r], qfree[IndexOf(r, new)]) ELSE QTable[r]
    <3>1. CASE Members(new, r)
      <4>1. QTable[r] = << >>
        BY <1>m, <3>1 DEF QTable
      <4>2. QTable'[r] = <<qblock'[r]>>
        BY <1>u, <1>w, <3>1 DEF QTable
      <4>3. qblock'[r] = qfree[IndexOf(r, new)]
        BY <1>u, <3>1
      <4>4. \A e : Append(<< >>, e) = <<e>>
        OBVIOUS
      <4> QED BY ONLY <3>1, <4>1, <4>2, <4>3, <4>4
    <3>2. CASE ~Members(new, r)
      BY <1>v, <3>2 DEF QTable
    <3> QED BY <3>1, <3>2
  <2> PICK T, W : T = QTable' /\ W = [r \in Requests |-> IF Members(new, r) THEN Append(QTable[r], qfree[IndexOf(r, new)]) ELSE QTable[r]]
    OBVIOUS
  <2>3. T = [r \in Requests |-> T[r]]
    BY ONLY T = QTable' DEF QTable
  <2>5. W = [r \in Requests |-> W[r]] /\ \A r \in Requests : T[r] = W[r]
    BY <2>2
  <2>6. T = W
    BY ONLY <2>3, <2>5
  <2>4. QTable' = [r \in Requests |-> IF Members(new, r) THEN Append(QTable[r], qfree[IndexOf(r, new)]) ELSE QTable[r]]
    BY <2>6
  <2> PICK g, u : g = qfree' /\ u = QTable'
    OBVIOUS
  <2>7. g = SubSeq(qfree, Len(new) + 1, Len(qfree))
    BY ONLY <2>1, g = qfree'
  <2>8. u = [r \in Requests |-> IF Members(new, r) THEN Append(QTable[r], qfree[IndexOf(r, new)]) ELSE QTable[r]]
    BY ONLY <2>4, u = QTable'
  <2>9. Pool(Rows, qfree, QTable)
    BY <1>d
  <2>10. new \in Seq(Requests)
    BY <1>h
  <2>11. Distinct(new)
    BY <1>i
  <2>12. Len(new) <= Len(qfree)
    BY <2>1
  <2>13. Pool(Rows, g, u)
    BY ONLY <2>7, <2>8, <2>9, <2>10, <2>11, <2>12, DealOneEach
  <2> QED BY <2>13
<1>y. Types'
  <2>1. qblock' \in [Requests -> {0} \cup Rows]
    <3>1. \A r \in Requests : qblock'[r] \in {0} \cup Rows
      BY <1>e, <1>u, <1>v
    <3>2. qblock' = [r \in Requests |-> qblock'[r]]
      BY ONLY <1>c
    <3> QED BY ONLY <3>1, <3>2
  <2> QED BY <1>a, <1>d, <1>h, <1>k, <2>1 DEF Types
<1>z. Queues'
  <2>1. \A r : Members(rest, r) => ~Members(running', r) /\ r <= added
    BY <1>d, <1>i, <1>k DEF Queues, Disjoint
  <2>2. \A r : Members(running', r) => r <= added /\ qblock'[r] # 0
    <3> SUFFICES ASSUME NEW r, Members(running', r) PROVE r <= added /\ qblock'[r] # 0
      OBVIOUS
    <3>1. CASE Members(new, r)
      BY <1>j, <1>u, <1>w, <3>1
    <3>2. CASE ~Members(new, r)
      <4>1. Members(running, r)
        BY <1>k, <3>2
      <4>2. r \in Requests
        BY <1>e, <4>1, MembersType
      <4> QED BY <1>d, <1>v, <3>2, <4>1, <4>2 DEF Queues
    <3> QED BY <3>1, <3>2
  <2>3. ASSUME NEW r \in Requests, ~Members(running', r) PROVE table'[r] = << >> /\ qblock'[r] = 0
    <3>1. ~Members(running, r) /\ ~Members(new, r)
      BY <1>k, <2>3
    <3>2. table'[r] = table[r] /\ qblock'[r] = qblock[r]
      BY <1>b, <1>l, <1>v, <3>1
    <3> QED BY <1>d, <3>1, <3>2 DEF Queues
  <2>4. \A r \in Requests : Members(rest, r) \/ r > added => num_tokens[r] = plen[r]
    BY <1>d, <1>i DEF Queues
  <2>5. pc' # "idle" /\ waiting' = rest /\ added' = added /\ num_tokens' = num_tokens /\ plen' = plen
    BY <1>a
  <2> QED BY ONLY <1>i, <1>k, <2>1, <2>2, <2>3, <2>4, <2>5 DEF Queues
<1>A. Batches'
  <2>1. \A r : Members(new, r) => Len(table'[r]) = plen[r] /\ num_tokens[r] = plen[r] /\ Members(running', r)
    BY <1>j, <1>k, <1>m, <1>s
  <2>2. \A r : Members(new, r) => table'[r] # << >>
    <3> SUFFICES ASSUME NEW r, Members(new, r), table'[r] = << >> PROVE FALSE
      OBVIOUS
    <3>1. plen[r] \in Nat \ {0} /\ Len(<< >>) = 0
      BY <1>e, <1>j
    <3> QED BY <2>1, <3>1
  <2>3. pc' = "run" /\ batch' = new /\ plen' = plen /\ num_tokens' = num_tokens /\ Len(new) <= MaxNumSeqs
    BY <1>a, <1>g, <1>h
  <2> QED BY ONLY <1>i, <2>1, <2>2, <2>3 DEF Batches
<1> QED BY <1>t, <1>x, <1>y, <1>z, <1>A DEF Base

(* The first n of a sequence.                                              *)
Prefix(a, q, S) ==
  /\ a \in Seq(S) /\ Len(a) <= Len(q) /\ \A x : Members(a, x) => Members(q, x)
  /\ Distinct(q) => Distinct(a)

LEMMA PrefixFacts ==
  ASSUME NEW S, NEW q \in Seq(S), NEW n \in 0 .. Len(q), NEW a, a = SubSeq(q, 1, n)
  PROVE  Prefix(a, q, S) /\ Len(a) = n /\ \A k \in 1 .. n : a[k] = q[k]
<1> PICK b : b = SubSeq(q, n + 1, Len(q))
  OBVIOUS
<1>1. CutAt(q, a, b, n, S) /\ \A k \in 1 .. n : a[k] = q[k]
  BY ONLY q \in Seq(S), n \in 0 .. Len(q), a = SubSeq(q, 1, n), b = SubSeq(q, n + 1, Len(q)), CutFacts
<1>2. a \in Seq(S) /\ b \in Seq(S) /\ q = a \o b /\ Len(a) = n
  BY <1>1 DEF CutAt
<1>3. Joined(q, a, b, S)
  BY ONLY <1>2, ConcatFacts
<1>4. n <= Len(q)
  BY ONLY n \in 0 .. Len(q), q \in Seq(S)
<1> QED BY <1>1, <1>2, <1>3, <1>4 DEF Joined, Prefix

LEMMA DecodedFacts ==
  ASSUME running \in Seq(Requests)
  PROVE  Prefix(Decoded, running, Requests) /\ Len(Decoded) <= MaxNumSeqs /\ Len(Decoded) \in Nat
<1> PICK m \in Nat : m = Len(running)
  OBVIOUS
<1> PICK n, S : S = {m, MaxNumSeqs} /\ n = Min(S)
  OBVIOUS
<1>1. n \in S /\ \A y \in S : n <= y
  <2>1. MaxNumSeqs \in Nat
    BY KVAssumption
  <2>2. S \in SUBSET Nat /\ S # {}
    BY ONLY <2>1, m \in Nat, S = {m, MaxNumSeqs}
  <2> QED BY ONLY <2>2, n = Min(S), LowestOf
<1>2. n \in 0 .. Len(running) /\ n <= MaxNumSeqs
  <2>1. MaxNumSeqs \in Nat
    BY KVAssumption
  <2> QED BY <1>1, <2>1
<1> PICK a : a = SubSeq(running, 1, n)
  OBVIOUS
<1>3. Prefix(a, running, Requests) /\ Len(a) = n
  BY ONLY running \in Seq(Requests), <1>2, a = SubSeq(running, 1, n), PrefixFacts
<1>4. Decoded = a
  BY DEF Decoded
<1>5. n \in Nat
  BY ONLY <1>2, running \in Seq(Requests)
<1> QED BY <1>2, <1>3, <1>4, <1>5

LEMMA BaseDecode ==
  ASSUME Base, ScheduleDecode
  PROVE  Base'
<1> PICK new : new = Decoded
  OBVIOUS
<1>a. /\ pc = "schedule" /\ pc' = "run" /\ prefill' = FALSE /\ batch' = new
      /\ UNCHANGED <<recipe, plen, added, waiting, running, num_tokens, qblock, qfree, todo>>
      /\ free' = SubSeq(free, Len(new) + 1, Len(free)) /\ Len(new) <= Len(free)
  BY DEF ScheduleDecode, Decodable, fixed
<1>b. table' = [r \in Requests |-> IF r \in Range(new) THEN Append(table[r], free[IndexOf(r, new)]) ELSE table[r]]
  BY DEF ScheduleDecode
<1>c. Types /\ Queues /\ Pool(Blocks, free, table) /\ Pool(Rows, qfree, QTable)
  BY DEF Base
<1>d. running \in Seq(Requests) /\ Distinct(running)
  BY <1>c DEF Types, Queues
<1>e. new \in Seq(Requests) /\ Distinct(new) /\ (\A x : Members(new, x) => Members(running, x)) /\ Len(new) <= MaxNumSeqs
  <2>1. Prefix(Decoded, running, Requests) /\ Len(Decoded) <= MaxNumSeqs
    BY <1>d, DecodedFacts
  <2> QED BY <1>d, <2>1 DEF Prefix
<1>f. \A x : x \in Range(new) <=> Members(new, x)
  BY RangeMembers
<1>g. free \in Seq(Blocks) /\ table \in [Requests -> Seq(Blocks)]
  BY <1>c DEF Pool
<1>h. Pool(Blocks, free', table')
  <2> PICK g, u : g = free' /\ u = table'
    OBVIOUS
  <2>1. g = SubSeq(free, Len(new) + 1, Len(free))
    BY ONLY <1>a, g = free'
  <2>2. Len(new) <= Len(free)
    BY <1>a
  <2>3. u = [r \in Requests |-> IF Members(new, r) THEN Append(table[r], free[IndexOf(r, new)]) ELSE table[r]]
    BY ONLY <1>b, <1>f, u = table'
  <2>4. Pool(Blocks, free, table)
    BY <1>c
  <2>5. new \in Seq(Requests)
    BY <1>e
  <2>6. Distinct(new)
    BY <1>e
  <2>7. Pool(Blocks, g, u)
    BY ONLY <2>1, <2>2, <2>3, <2>4, <2>5, <2>6, DealOneEach
  <2> QED BY <2>7
<1>i. Types'
  BY <1>a, <1>c, <1>e DEF Types
<1>j. Queues'
  <2>1. ASSUME NEW r \in Requests, ~Members(running, r) PROVE table'[r] = table[r]
    BY <1>b, <1>e, <1>f, <2>1
  <2> QED BY <1>a, <1>c, <2>1 DEF Queues
<1>k. Batches'
  <2>1. ASSUME NEW r, Members(new, r) PROVE table'[r] # << >>
    <3>1. r \in Requests
      BY <1>e, <2>1, MembersType
    <3> PICK e, p : e = free[IndexOf(r, new)] /\ p = table[r]
      OBVIOUS
    <3>2. table'[r] = Append(p, e)
      BY <1>b, <1>f, <2>1, <3>1
    <3>3. p \in Seq(Blocks)
      BY <1>g, <3>1
    <3>4. Append(p, e) # << >>
      <4>1. Len(Append(p, e)) = Len(p) + 1 /\ Len(p) \in Nat /\ Len(<< >>) = 0
        BY ONLY <3>3
      <4> QED BY <4>1
    <3> QED BY <3>2, <3>4
  <2>2. \A r : Members(new, r) => Members(running', r)
    BY <1>a, <1>e
  <2> QED BY ONLY <1>a, <1>e, <2>1, <2>2 DEF Batches
<1>l. Pool(Rows, qfree, QTable)'
  BY <1>a, <1>c DEF QTable
<1> QED BY <1>h, <1>i, <1>j, <1>k, <1>l DEF Base

LEMMA BasePostprocess ==
  ASSUME Base, Postprocess
  PROVE  Base'
<1> PICK eos \in SUBSET Range(batch) :
       LET done == eos \cup {r \in Range(batch) : num_tokens[r] + 1 - plen[r] = MaxTokens}
           over == Filter(batch, done)
           left == Filter(running, Requests \ done)
       IN /\ free' = free \o Released(over)
          /\ table' = [r \in Requests |-> IF r \in done THEN << >> ELSE table[r]]
          /\ qfree' = qfree \o [k \in DOMAIN over |-> qblock[over[k]]]
          /\ qblock' = [r \in Requests |-> IF r \in done THEN 0 ELSE qblock[r]]
          /\ running' = left
          /\ IF (left # << >> \/ waiting # << >>) /\ curStep = 0
             THEN pc' = "compress" /\ UNCHANGED curStep
             ELSE pc' = "schedule" /\ NextStep
  BY DEF Postprocess
<1> PICK done : done = eos \cup {r \in Range(batch) : num_tokens[r] + 1 - plen[r] = MaxTokens}
  OBVIOUS
<1> PICK over, left : over = Filter(batch, done) /\ left = Filter(running, Requests \ done)
  OBVIOUS
<1>a. /\ free' = free \o Released(over) /\ qfree' = qfree \o [k \in DOMAIN over |-> qblock[over[k]]]
      /\ table' = [r \in Requests |-> IF r \in done THEN << >> ELSE table[r]]
      /\ qblock' = [r \in Requests |-> IF r \in done THEN 0 ELSE qblock[r]]
      /\ running' = left /\ pc' \in {"compress", "schedule"}
  OBVIOUS
<1>b. /\ pc = "post" /\ UNCHANGED <<recipe, plen, added, waiting, batch, prefill, todo>>
      /\ num_tokens' = [r \in Requests |-> num_tokens[r] + IF r \in Range(batch) THEN 1 ELSE 0]
  BY DEF Postprocess, fixed
<1>c. Types /\ Queues /\ Batches /\ Pool(Blocks, free, table) /\ Pool(Rows, qfree, QTable)
  BY DEF Base
<1>d. /\ running \in Seq(Requests) /\ Distinct(running) /\ batch \in Seq(Requests) /\ Distinct(batch)
      /\ num_tokens \in [Requests -> Nat] /\ qblock \in [Requests -> {0} \cup Rows]
      /\ \A r : Members(batch, r) => Members(running, r)
  BY <1>b, <1>c DEF Types, Queues, Batches
<1>e. free \in Seq(Blocks) /\ table \in [Requests -> Seq(Blocks)] /\ qfree \in Seq(Rows)
  BY <1>c DEF Pool
<1>f. \A x : x \in done => Members(batch, x)
  BY RangeMembers
<1>g. over \in Seq(Requests) /\ Distinct(over) /\ \A x : Members(over, x) <=> x \in done
  <2>1. Filtered(over, batch, done, Requests)
    BY ONLY <1>d, over = Filter(batch, done), FilterFacts
  <2> QED BY <1>d, <1>f, <2>1 DEF Filtered
<1>h. left \in Seq(Requests) /\ Distinct(left) /\ \A x : Members(left, x) <=> Members(running, x) /\ x \notin done
  <2>1. Filtered(left, running, Requests \ done, Requests)
    BY ONLY <1>d, left = Filter(running, Requests \ done), FilterFacts
  <2>2. \A x : Members(running, x) => x \in Requests
    BY <1>d, MembersType
  <2> QED BY <1>d, <2>1, <2>2 DEF Filtered
<1>i. Pool(Blocks, free', table')
  <2> PICK s : Releasing(s, over)
    BY ONLY <1>e, <1>g, ReleasedLoop
  <2>1. s[0] = << >> /\ s[Len(over)] = Released(over)
    BY DEF Releasing
  <2>2. \A k \in 0 .. Len(over) : s[k] \in Seq(Blocks)
    BY DEF Releasing
  <2>3. \A k \in 1 .. Len(over) : s[k] = s[k - 1] \o Reverse(table[over[k]])
    BY DEF Releasing
  <2> PICK g, u : g = free' /\ u = table'
    OBVIOUS
  <2>4. g = free \o s[Len(over)]
    BY ONLY <1>a, <2>1, g = free'
  <2>5. u = [r \in Requests |-> IF Members(over, r) THEN << >> ELSE table[r]]
    BY ONLY <1>a, <1>g, u = table'
  <2>6. Pool(Blocks, free, table)
    BY <1>c
  <2>7. over \in Seq(Requests)
    BY <1>g
  <2>8. Distinct(over)
    BY <1>g
  <2>9. s[0] = << >>
    BY <2>1
  <2>10. Pool(Blocks, g, u)
    BY ONLY <2>2, <2>3, <2>4, <2>5, <2>6, <2>7, <2>8, <2>9, ReturnApart
  <2> QED BY <2>10
<1>w. \A x \in Rows : x # 0
  BY KVAssumption DEF Rows
<1>j. ASSUME NEW k \in DOMAIN over PROVE over[k] \in Requests /\ qblock[over[k]] \in Rows /\ QTable[over[k]] = <<qblock[over[k]]>>
  <2>1. over[k] \in Requests
    BY <1>g
  <2>2. Members(over, over[k])
    BY DEF Members
  <2>3. qblock[over[k]] # 0
    BY <1>c, <1>d, <1>f, <1>g, <2>2 DEF Queues
  <2> QED BY <1>d, <2>1, <2>3 DEF QTable
<1>k. Pool(Rows, qfree', QTable')
  <2> PICK m \in Nat : m = Len(over)
    BY ONLY <1>g
  <2> PICK s : s = [k \in 0 .. m |-> [i \in 1 .. k |-> qblock[over[i]]]]
    OBVIOUS
  <2>0. DOMAIN over = 1 .. m
    BY ONLY <1>g, m = Len(over)
  <2>1. s[0] = << >>
    <3>1. 0 \in 0 .. m /\ 1 .. 0 = {}
      OBVIOUS
    <3> QED BY <3>1
  <2>2. \A k \in 0 .. m : s[k] \in Seq(Rows)
    <3> SUFFICES ASSUME NEW k \in 0 .. m PROVE s[k] \in Seq(Rows)
      OBVIOUS
    <3>1. \A i \in 1 .. k : qblock[over[i]] \in Rows
      BY <1>j, <2>0
    <3>2. k \in Nat /\ s[k] = [i \in 1 .. k |-> qblock[over[i]]]
      OBVIOUS
    <3> QED BY ONLY <3>1, <3>2
  <2>3. \A k \in 1 .. m : s[k] = s[k - 1] \o Reverse(QTable[over[k]])
    <3> SUFFICES ASSUME NEW k \in 1 .. m PROVE s[k] = s[k - 1] \o Reverse(QTable[over[k]])
      OBVIOUS
    <3> PICK e, a, b : e = qblock[over[k]] /\ a = s[k - 1] /\ b = s[k]
      OBVIOUS
    <3>1. QTable[over[k]] = <<e>> /\ e \in Rows
      BY <1>j, <2>0
    <3>2. Reverse(<<e>>) = <<e>>
      BY DEF Reverse
    <3>3. k - 1 \in 0 .. m /\ k \in 0 .. m /\ k - 1 \in Nat
      OBVIOUS
    <3>4. a \in Seq(Rows) /\ b \in Seq(Rows)
      BY <2>2, <3>3
    <3>5. a = [i \in 1 .. k - 1 |-> qblock[over[i]]] /\ b = [i \in 1 .. k |-> qblock[over[i]]]
      BY <3>3
    <3> PICK c : c = Append(a, e)
      OBVIOUS
    <3>6. /\ Len(a) = k - 1 /\ Len(b) = k /\ \A i \in 1 .. k - 1 : b[i] = a[i]
          /\ b[k] = e
      <4>1. k \in Nat /\ k \in 1 .. k /\ \A i \in 1 .. k - 1 : i \in 1 .. k
        BY ONLY k \in 1 .. m, m \in Nat
      <4>2. Len(a) = k - 1 /\ Len(b) = k
        BY ONLY <3>3, <3>5, <4>1
      <4> QED BY ONLY <3>5, <4>1, <4>2, e = qblock[over[k]]
    <3>7. c \in Seq(Rows) /\ Len(c) = k /\ (\A i \in 1 .. k - 1 : c[i] = a[i]) /\ c[k] = e
      BY ONLY <3>1, <3>3, <3>4, <3>6, c = Append(a, e), k \in 1 .. m, m \in Nat
    <3>8. b = c
      <4>1. Len(b) = Len(c) /\ \A i \in 1 .. Len(b) : b[i] = c[i]
        BY ONLY <3>3, <3>6, <3>7
      <4> QED BY ONLY <3>4, <3>7, <4>1, SeqEqual
    <3>9. a \o <<e>> = Append(a, e)
      BY ONLY <3>1, <3>4
    <3> QED BY <3>1, <3>2, <3>8, <3>9
  <2> PICK g, u : g = qfree' /\ u = QTable'
    OBVIOUS
  <2>4. g = qfree \o s[Len(over)]
    <3>1. s[m] = [k \in 1 .. m |-> qblock[over[k]]]
      BY ONLY m \in Nat, s = [k \in 0 .. m |-> [i \in 1 .. k |-> qblock[over[i]]]]
    <3>2. qfree' = qfree \o [k \in DOMAIN over |-> qblock[over[k]]]
      BY <1>a
    <3> QED BY ONLY <2>0, <3>1, <3>2, g = qfree', m = Len(over)
  <2>5. u = [r \in Requests |-> IF Members(over, r) THEN << >> ELSE QTable[r]]
    <3> PICK W : W = [r \in Requests |-> IF Members(over, r) THEN << >> ELSE QTable[r]]
      OBVIOUS
    <3>1. \A r \in Requests : QTable'[r] = W[r]
      BY <1>a, <1>g DEF QTable
    <3>2. u = [r \in Requests |-> u[r]]
      BY ONLY u = QTable' DEF QTable
    <3>3. W = [r \in Requests |-> W[r]] /\ \A r \in Requests : u[r] = W[r]
      BY <3>1
    <3>4. u = W
      BY ONLY <3>2, <3>3
    <3> QED BY <3>4
  <2>6. Pool(Rows, qfree, QTable)
    BY <1>c
  <2>7. over \in Seq(Requests)
    BY <1>g
  <2>8. Distinct(over)
    BY <1>g
  <2>9. \A k \in 0 .. Len(over) : s[k] \in Seq(Rows)
    BY ONLY <2>2, m = Len(over)
  <2>10. \A k \in 1 .. Len(over) : s[k] = s[k - 1] \o Reverse(QTable[over[k]])
    BY ONLY <2>3, m = Len(over)
  <2>11. Pool(Rows, g, u)
    BY ONLY <2>1, <2>4, <2>5, <2>6, <2>7, <2>8, <2>9, <2>10, ReturnApart
  <2> QED BY <2>11
<1>l. Types'
  <2>1. qblock' \in [Requests -> {0} \cup Rows]
    BY <1>a, <1>d
  <2>2. num_tokens' \in [Requests -> Nat]
    BY <1>b, <1>d
  <2>3. pc' \in {"idle", "schedule", "run", "post", "compress", "store", "raised"}
    BY <1>a
  <2> QED BY <1>a, <1>b, <1>c, <1>h, <2>1, <2>2, <2>3 DEF Types
<1>m. Queues'
  <2>1. \A r : Members(waiting, r) => ~Members(left, r) /\ r <= added
    BY <1>c, <1>h DEF Queues
  <2>2. ASSUME NEW r, Members(left, r) PROVE r <= added /\ qblock'[r] # 0
    <3>1. Members(running, r) /\ r \notin done
      BY <1>h, <2>2
    <3>2. r \in Requests
      BY <1>d, <3>1, MembersType
    <3> QED BY <1>a, <1>c, <3>1, <3>2 DEF Queues
  <2>3. ASSUME NEW r \in Requests, ~Members(left, r) PROVE table'[r] = << >> /\ qblock'[r] = 0
    <3>1. r \in done \/ ~Members(running, r)
      BY <1>h, <2>3
    <3> QED BY <1>a, <1>c, <3>1 DEF Queues
  <2>4. ASSUME NEW r \in Requests, Members(waiting, r) \/ r > added PROVE num_tokens'[r] = plen[r]
    <3>1. ~Members(batch, r)
      <4>1. CASE Members(waiting, r)
        BY <1>c, <1>d, <4>1 DEF Queues
      <4>2. CASE r > added
        <5>1. Members(batch, r) => r <= added
          BY <1>c, <1>d DEF Queues
        <5>2. ~(r > added /\ r <= added)
          <6>1. NumRequests \in Nat
            BY ONLY KVAssumption
          <6>2. r \in Nat
            BY ONLY r \in Requests, <6>1 DEF Requests
          <6>3. added \in Nat
            BY <1>c, <6>1 DEF Types
          <6> QED BY ONLY <6>2, <6>3
        <5> QED BY ONLY <4>2, <5>1, <5>2
      <4> QED BY <2>4, <4>1, <4>2
    <3>2. r \notin Range(batch)
      BY <3>1, RangeMembers
    <3>3. num_tokens'[r] = num_tokens[r] + 0
      BY <1>b, <3>2
    <3>4. num_tokens[r] = plen[r] /\ num_tokens[r] \in Nat
      BY <1>c, <1>d, <2>4 DEF Queues
    <3> QED BY <3>3, <3>4
  <2>5. Distinct(waiting) /\ pc' # "idle" /\ waiting' = waiting /\ added' = added /\ plen' = plen /\ running' = left
    BY <1>a, <1>b, <1>c DEF Queues
  <2> QED BY ONLY <1>h, <2>1, <2>2, <2>3, <2>4, <2>5 DEF Queues
<1>n. Batches'
  BY <1>a, <1>b, <1>d DEF Batches
<1> QED BY <1>i, <1>k, <1>l, <1>m, <1>n DEF Base

LEMMA RewrittenFacts ==
  ASSUME batch \in Seq(Requests), table \in [Requests -> Seq(Blocks)], NEW q, q = Rewritten
  PROVE  /\ q \in Seq(Requests) /\ (Distinct(batch) => Distinct(q))
         /\ \A r : Members(q, r) => Members(batch, r) /\ Len(table[r]) >= Budget
<1>1. CASE recipe = "layerwise"
  <2> PICK A : A = {r \in Requests : Len(table[r]) >= Budget}
    OBVIOUS
  <2>1. q = Filter(batch, A)
    BY <1>1 DEF Rewritten
  <2>2. Filtered(q, batch, A, Requests)
    BY ONLY batch \in Seq(Requests), <2>1, FilterFacts
  <2> QED BY <2>2 DEF Filtered
<1>2. CASE recipe # "layerwise"
  <2> PICK m \in Nat : m = Len(batch)
    BY ONLY batch \in Seq(Requests)
  <2> PICK low : low = {j \in 1 .. m : Len(table[batch[j]]) < Budget}
    OBVIOUS
  <2> PICK S, n : S = {m} \cup {i - 1 : i \in low} /\ n = Min(S)
    OBVIOUS
  <2>0. DOMAIN batch = 1 .. m
    BY ONLY batch \in Seq(Requests), m = Len(batch)
  <2>1. q = SubSeq(batch, 1, n)
    <3>1. low = {j \in DOMAIN batch : Len(table[batch[j]]) < Budget}
      BY ONLY <2>0, low = {j \in 1 .. m : Len(table[batch[j]]) < Budget}
    <3>2. S = {Len(batch)} \cup {i - 1 : i \in {j \in DOMAIN batch : Len(table[batch[j]]) < Budget}}
      BY ONLY <3>1, S = {m} \cup {i - 1 : i \in low}, m = Len(batch)
    <3> QED BY ONLY <1>2, <3>2, n = Min(S), q = Rewritten DEF Rewritten
  <2>2. S \in SUBSET Nat /\ S # {} /\ m \in S
    <3>1. \A i \in low : i \in 1 .. m
      BY ONLY low = {j \in 1 .. m : Len(table[batch[j]]) < Budget}
    <3> QED BY ONLY <3>1, m \in Nat, S = {m} \cup {i - 1 : i \in low}
  <2>3. n \in S /\ \A y \in S : n <= y
    BY ONLY <2>2, n = Min(S), LowestOf
  <2>4. n \in 0 .. Len(batch) /\ n \in Nat
    BY ONLY <2>2, <2>3, m \in Nat, m = Len(batch)
  <2>5. Prefix(q, batch, Requests) /\ Len(q) = n /\ \A k \in 1 .. n : q[k] = batch[k]
    BY ONLY batch \in Seq(Requests), <2>1, <2>4, PrefixFacts
  <2>6. q \in Seq(Requests) /\ (Distinct(batch) => Distinct(q)) /\ \A r : Members(q, r) => Members(batch, r)
    BY <2>5 DEF Prefix
  <2>7. ASSUME NEW r, Members(q, r) PROVE Len(table[r]) >= Budget
    <3> PICK k \in DOMAIN q : q[k] = r
      BY <2>7 DEF Members
    <3>1. k \in 1 .. n
      BY ONLY <2>5, <2>6
    <3>2. k \in 1 .. m /\ k \in Nat /\ ~(n <= k - 1)
      BY ONLY <2>4, <3>1, m = Len(batch), m \in Nat
    <3>3. batch[k] = r
      BY ONLY <2>5, <3>1, q[k] = r
    <3>4. k \notin low
      <4> SUFFICES ASSUME k \in low PROVE FALSE
        OBVIOUS
      <4>1. k - 1 \in S
        BY ONLY k \in low, S = {m} \cup {i - 1 : i \in low}
      <4> QED BY ONLY <2>3, <3>2, <4>1
    <3>5. ~(Len(table[r]) < Budget)
      BY ONLY <3>2, <3>3, <3>4, low = {j \in 1 .. m : Len(table[batch[j]]) < Budget}
    <3>6. r \in Requests
      BY ONLY <2>6, <2>7, MembersType
    <3>7. Len(table[r]) \in Nat /\ Budget \in Nat
      <4>1. table[r] \in Seq(Blocks)
        BY ONLY <3>6, table \in [Requests -> Seq(Blocks)]
      <4>2. Budget \in Nat
        BY KVAssumption
      <4> QED BY ONLY <4>1, <4>2
    <3> QED BY ONLY <3>5, <3>7
  <2> QED BY <2>6, <2>7
<1> QED BY <1>1, <1>2

LEMMA BaseStartCompress ==
  ASSUME Base, StartCompress
  PROVE  Base'
<1>a. pc = "compress" /\ pc' = "store" /\ todo' = Rewritten /\ UNCHANGED <<fixed, queues, blocks>>
  BY DEF StartCompress
<1>b. Types /\ Queues /\ Batches /\ Pool(Blocks, free, table) /\ Pool(Rows, qfree, QTable)
  BY DEF Base
<1>c. batch \in Seq(Requests) /\ table \in [Requests -> Seq(Blocks)] /\ Distinct(batch)
  BY <1>a, <1>b DEF Types, Pool, Batches
<1>d. /\ todo' \in Seq(Requests) /\ Distinct(todo')
      /\ \A r : Members(todo', r) => Members(batch, r) /\ Len(table[r]) >= Budget
  <2> PICK q : q = todo'
    OBVIOUS
  <2>1. q = Rewritten
    BY <1>a
  <2>2. /\ q \in Seq(Requests) /\ (Distinct(batch) => Distinct(q))
        /\ \A r : Members(q, r) => Members(batch, r) /\ Len(table[r]) >= Budget
    BY ONLY <1>c, <2>1, RewrittenFacts
  <2> QED BY <1>c, <2>2
<1>e. ASSUME NEW r, Members(todo', r) PROVE Members(running, r)
  <2> SUFFICES ASSUME ~Members(running, r) PROVE FALSE
    OBVIOUS
  <2>1. r \in Requests
    BY ONLY <1>d, <1>e, MembersType
  <2>2. table[r] = << >>
    BY <1>b, <2>1 DEF Queues
  <2>3. Budget \in Nat \ {0} /\ Len(<< >>) = 0
    BY KVAssumption
  <2>4. Len(table[r]) >= Budget
    BY <1>d, <1>e
  <2> QED BY ONLY <2>2, <2>3, <2>4
<1>1. Types'
  BY <1>a, <1>b, <1>d DEF Types, fixed, queues, blocks
<1>2. Queues'
  BY <1>a, <1>b DEF Queues, fixed, queues, blocks
<1>3. Batches'
  BY <1>a, <1>d, <1>e DEF Batches, fixed, queues, blocks
<1>4. Pool(Blocks, free, table)' /\ Pool(Rows, qfree, QTable)'
  BY <1>a, <1>b DEF QTable, blocks
<1> QED BY <1>1, <1>2, <1>3, <1>4 DEF Base

(* A request that is still rewritten holds as many entries per head as it    *)
(* has blocks (headwise).                                                   *)
Fits ==
  recipe = "headwise" /\ pc = "store" =>
    \A r : Members(todo, r) => \A h \in Heads : heads[r][h] = Len(table[r])

(* All heads keep the same number of entries, and no more than there are.   *)
LEMMA CountsFacts ==
  ASSUME recipe \in Recipes, NEW r, NEW m \in Nat, m >= Budget,
         recipe = "headwise" => \A h \in Heads : heads[r][h] = m,
         NEW n, n = Max(Range(Counts(r)))
  PROVE  /\ n \in 1 .. m /\ Recent < n /\ Counts(r) = [h \in Heads |-> n]
         /\ recipe = "layerwise" => n = Budget
<1> PICK S, c, k : /\ S = {m, UpperBudget} /\ c = Counts(r)
                   /\ k = IF recipe = "layerwise" THEN Budget ELSE Min(S)
  OBVIOUS
<1>0. /\ Budget \in Nat \ {0} /\ Recent \in 1 .. Budget - 2 /\ UpperBudget \in Nat /\ UpperBudget > Recent
      /\ NumHeads \in Nat \ {0}
  BY KVAssumption
<1>1. recipe \in {"layerwise", "headwise"}
  BY KVAssumption
<1>2. k \in 1 .. m /\ Recent < k
  <2>1. CASE recipe = "layerwise"
    <3>1. k = Budget
      BY ONLY <2>1, k = IF recipe = "layerwise" THEN Budget ELSE Min(S)
    <3> QED BY ONLY <1>0, <3>1, m \in Nat, m >= Budget
  <2>2. CASE recipe # "layerwise"
    <3>1. k = Min(S)
      BY ONLY <2>2, k = IF recipe = "layerwise" THEN Budget ELSE Min(S)
    <3>2. S \in SUBSET Nat /\ S # {}
      BY ONLY <1>0, m \in Nat, S = {m, UpperBudget}
    <3>3. k \in S /\ \A y \in S : k <= y
      BY ONLY <3>1, <3>2, LowestOf
    <3>4. (k = m \/ k = UpperBudget) /\ k <= m
      BY ONLY <3>3, S = {m, UpperBudget}
    <3> QED BY ONLY <1>0, <3>4, m \in Nat, m >= Budget
  <2> QED BY <2>1, <2>2
<1>3. c = [h \in Heads |-> k]
  <2>1. CASE recipe = "layerwise"
    <3>1. c = [h \in Heads |-> Budget]
      BY ONLY <2>1, c = Counts(r) DEF Counts
    <3> QED BY ONLY <2>1, <3>1, k = IF recipe = "layerwise" THEN Budget ELSE Min(S)
  <2>2. CASE recipe = "headwise"
    <3>1. \A h \in Heads : heads[r][h] = m
      BY <2>2
    <3>2. c = [h \in Heads |-> Min({heads[r][h], UpperBudget})]
      BY ONLY <2>2, c = Counts(r) DEF Counts
    <3>3. c = [h \in Heads |-> Min({m, UpperBudget})]
      BY ONLY <3>1, <3>2
    <3> QED BY ONLY <2>2, <3>3, S = {m, UpperBudget}, k = IF recipe = "layerwise" THEN Budget ELSE Min(S)
  <2> QED BY ONLY <1>1, <2>1, <2>2
<1>4. Range(c) = {k}
  <2>1. 1 \in Heads
    BY ONLY <1>0 DEF Heads
  <2> QED BY ONLY <1>3, <2>1 DEF Range
<1>5. n = k
  <2>1. k \in Nat /\ {k} \in SUBSET (0 .. k) /\ {k} # {}
    BY ONLY <1>2, m \in Nat
  <2>2. Max({k}) \in {k}
    BY ONLY <2>1, GreatestOf
  <2>3. n = Max({k})
    BY ONLY <1>4, n = Max(Range(Counts(r))), c = Counts(r)
  <2> QED BY ONLY <2>2, <2>3
<1>6. recipe = "layerwise" => n = Budget
  BY ONLY <1>5, k = IF recipe = "layerwise" THEN Budget ELSE Min(S)
<1> QED BY ONLY <1>2, <1>3, <1>5, <1>6, c = Counts(r)

Popped(q, h, p, S) ==
  /\ h \in S /\ p \in Seq(S) /\ Members(q, h)
  /\ (\A x : Members(p, x) => Members(q, x))
  /\ Distinct(q) => Distinct(p) /\ ~Members(p, h)

LEMMA HeadTail ==
  ASSUME NEW S, NEW q \in Seq(S), q # << >>, NEW h, h = Head(q), NEW p, p = Tail(q)
  PROVE  Popped(q, h, p, S)
<1> PICK m \in Nat : m = Len(q)
  OBVIOUS
<1>1. /\ DOMAIN q = 1 .. m /\ m > 0 /\ h = q[1] /\ h \in S /\ p \in Seq(S) /\ DOMAIN p = 1 .. m - 1
      /\ \A i \in 1 .. m - 1 : p[i] = q[i + 1]
  OBVIOUS
<1>2. 1 \in 1 .. m /\ \A i \in 1 .. m - 1 : i + 1 \in 1 .. m /\ i + 1 # 1
  BY <1>1
<1>3. Members(q, h) /\ \A x : Members(p, x) => Members(q, x)
  BY ONLY <1>1, <1>2 DEF Members
<1>4. ASSUME Distinct(q), NEW i \in 1 .. m - 1, p[i] = h PROVE FALSE
  <2>1. i + 1 \in DOMAIN q /\ 1 \in DOMAIN q /\ q[i + 1] = q[1] /\ i + 1 # 1
    BY <1>1, <1>2, <1>4
  <2> QED BY ONLY Distinct(q), <1>4, <2>1, SamePlace
<1>5. ASSUME Distinct(q), NEW i \in 1 .. m - 1, NEW j \in 1 .. m - 1, p[i] = p[j] PROVE i = j
  <2>1. i + 1 \in DOMAIN q /\ j + 1 \in DOMAIN q /\ q[i + 1] = q[j + 1]
    BY <1>1, <1>2, <1>5
  <2>2. i + 1 = j + 1
    BY ONLY <1>5, <2>1, SamePlace
  <2> QED BY <2>2
<1> QED BY ONLY <1>1, <1>3, <1>4, <1>5 DEF Members, Distinct, Popped

LEMMA BaseStore ==
  ASSUME Base, Fits, Store
  PROVE  Base'
<1> PICK r : r = Head(todo)
  OBVIOUS
<1>a. /\ pc = "store" /\ todo # << >> /\ todo' = Tail(todo)
      /\ UNCHANGED <<recipe, plen, pc, added, waiting, running, num_tokens, batch, prefill, qblock, qfree>>
  BY DEF Store, fixed, queues
<1> PICK n : n = Max(Range(Counts(r))) /\ Cut(r, n)
  BY DEF Store
<1>b. Types /\ Queues /\ Batches /\ Pool(Blocks, free, table) /\ Pool(Rows, qfree, QTable)
  BY DEF Base
<1>c. todo \in Seq(Requests) /\ Distinct(todo) /\ table \in [Requests -> Seq(Blocks)] /\ recipe \in Recipes
  BY <1>a, <1>b DEF Types, Batches, Pool
<1>d. r \in Requests /\ todo' \in Seq(Requests) /\ Members(todo, r) /\ (\A x : Members(todo', x) => Members(todo, x))
      /\ Distinct(todo') /\ ~Members(todo', r)
  <2> PICK p : p = todo'
    OBVIOUS
  <2>0. p = Tail(todo) /\ todo # << >>
    BY <1>a
  <2>1. Popped(todo, r, p, Requests)
    BY ONLY <1>c, <2>0, r = Head(todo), HeadTail
  <2> QED BY <1>c, <2>1 DEF Popped
<1>e. Members(running, r) /\ Len(table[r]) >= Budget
  BY <1>a, <1>b, <1>d DEF Batches
<1> PICK m : m = Len(table[r])
  OBVIOUS
<1>f. m \in Nat /\ m >= Budget
  <2>1. table[r] \in Seq(Blocks)
    BY ONLY <1>c, <1>d
  <2> QED BY ONLY <1>e, <2>1, m = Len(table[r])
<1>g. n \in 0 .. Len(table[r])
  <2>1. recipe = "headwise" => \A h \in Heads : heads[r][h] = m
    BY <1>a, <1>d DEF Fits
  <2>2. n \in 1 .. m
    BY ONLY <1>c, <1>f, <2>1, n = Max(Range(Counts(r))), CountsFacts
  <2> QED BY ONLY <1>f, <2>2, m = Len(table[r])
<1>h. /\ free' = free \o Reverse(SubSeq(table[r], n + 1, Len(table[r])))
      /\ table' = [table EXCEPT ![r] = SubSeq(table[r], 1, n)]
  BY DEF Cut
<1>i. Pool(Blocks, free', table')
  <2> PICK g, u : g = free' /\ u = table'
    OBVIOUS
  <2>1. g = free \o Reverse(SubSeq(table[r], n + 1, Len(table[r])))
    BY <1>h
  <2>2. u = [table EXCEPT ![r] = SubSeq(table[r], 1, n)]
    BY <1>h
  <2>3. Pool(Blocks, free, table)
    BY <1>b
  <2>4. r \in Requests
    BY <1>d
  <2>5. Pool(Blocks, g, u)
    BY ONLY <1>g, <2>1, <2>2, <2>3, <2>4, GiveApart
  <2> QED BY <2>5
<1>j. \A s \in Requests : s # r => table'[s] = table[s]
  BY <1>c, <1>h
<1>k. Types'
  BY <1>a, <1>b, <1>d DEF Types
<1>l. Queues'
  <2>1. \A s \in Requests : ~Members(running, s) => table'[s] = << >>
    BY <1>b, <1>e, <1>j DEF Queues
  <2> QED BY <1>a, <1>b, <2>1 DEF Queues
<1>m. Batches'
  <2>1. ASSUME NEW s, Members(todo', s) PROVE Members(running, s) /\ Len(table'[s]) >= Budget
    <3>1. s # r /\ Members(todo, s)
      BY <1>d, <2>1
    <3>2. s \in Requests
      BY <1>c, <3>1, MembersType
    <3>3. Members(running, s) /\ Len(table[s]) >= Budget
      BY <1>a, <1>b, <3>1 DEF Batches
    <3> QED BY <1>j, <3>1, <3>2, <3>3
  <2> QED BY <1>a, <1>d, <2>1 DEF Batches
<1>n. Pool(Rows, qfree, QTable)'
  BY <1>a, <1>b DEF QTable
<1> QED BY <1>i, <1>k, <1>l, <1>m, <1>n DEF Base

LEMMA BaseNext == Base /\ Fits /\ [Next]_vars => Base'
<1> SUFFICES ASSUME Base, Fits, [Next]_vars PROVE Base'
  OBVIOUS
<1>0. todo \in Seq(Requests)
  BY DEF Base, Types
<1>1. CASE ScheduleRaises
  <2>1. UNCHANGED <<fixed, queues, blocks>> /\ pc' = "raised" /\ pc # "idle" /\ todo' = todo
    BY <1>1 DEF ScheduleRaises
  <2> QED BY <1>0, <2>1, BaseStill
<1>2. CASE RunPrefill
  <2>1. UNCHANGED <<fixed, queues, blocks>> /\ pc' = "post" /\ pc = "run" /\ todo' = todo
    BY <1>2 DEF RunPrefill
  <2> QED BY <1>0, <2>1, BaseStill
<1>3. CASE RunDecode
  <2>1. UNCHANGED <<fixed, queues, blocks>> /\ pc' = "post" /\ pc = "run" /\ todo' = todo
    BY <1>3 DEF RunDecode
  <2> QED BY <1>0, <2>1, BaseStill
<1>4. CASE EndCompress
  <2>1. UNCHANGED <<fixed, queues, blocks>> /\ pc' = "schedule" /\ pc = "store" /\ todo' = todo
    BY <1>4 DEF EndCompress
  <2> QED BY <1>0, <2>1, BaseStill
<1>5. CASE UNCHANGED vars
  <2>1. UNCHANGED <<fixed, pc, queues, blocks, todo>>
    BY <1>5 DEF vars
  <2> QED BY <2>1 DEF Base, Types, Queues, Batches, QTable, fixed, queues, blocks
<1> QED BY <1>1, <1>2, <1>3, <1>4, <1>5, BaseGenerate, BaseReturn, BasePrefill, BaseDecode,
           BasePostprocess, BaseStartCompress, BaseStore DEF Next

-----------------------------------------------------------------------------
LEMMA Remainder ==
  ASSUME NEW w \in Nat \ {0}, NEW x \in 0 .. w - 1
  PROVE  x % w = x /\ (x + w) % w = x
<1>1. x % w = x
  OBVIOUS
<1>2. (x + w) % w = x
  OBVIOUS
<1> QED BY <1>1, <1>2

(* What is stored of a running request: not the block the decode step under *)
(* way has appended for the token it computes, and nothing of a prompt that *)
(* is still to be run.                                                     *)
Fresh(r) == pc = "run" /\ Members(batch, r)
Settled(r) == Members(running, r) /\ ~(Fresh(r) /\ prefill)
Body(r) == IF Fresh(r) THEN Front(table[r]) ELSE table[r]
Stored(r) == IF pc = "post" /\ Members(batch, r) THEN num_tokens[r] ELSE num_tokens[r] - 1

LEMMA FrontFacts ==
  ASSUME NEW S, NEW s \in Seq(S), s # << >>, NEW f, f = Front(s)
  PROVE  f \in Seq(S) /\ Len(f) = Len(s) - 1 /\ Len(s) \in Nat \ {0} /\ \A i \in 1 .. Len(s) - 1 : f[i] = s[i]
<1> PICK n : n = Len(s) - 1
  OBVIOUS
<1>1. Len(s) \in Nat \ {0}
  BY ONLY s \in Seq(S), s # << >>
<1>0. n \in 0 .. Len(s)
  BY ONLY <1>1, n = Len(s) - 1
<1>2. f = SubSeq(s, 1, n)
  BY ONLY f = Front(s), n = Len(s) - 1 DEF Front
<1>3. Prefix(f, s, S) /\ Len(f) = n /\ \A k \in 1 .. n : f[k] = s[k]
  BY ONLY s \in Seq(S), <1>0, <1>2, PrefixFacts
<1>4. f \in Seq(S)
  BY ONLY <1>3 DEF Prefix
<1>5. Len(f) = Len(s) - 1
  BY ONLY <1>3, n = Len(s) - 1
<1>6. \A i \in 1 .. Len(s) - 1 : f[i] = s[i]
  BY ONLY <1>3, n = Len(s) - 1
<1> QED BY ONLY <1>1, <1>4, <1>5, <1>6

LEMMA FrontAppend ==
  ASSUME NEW S, NEW p \in Seq(S), NEW e \in S, NEW s, s = Append(p, e)
  PROVE  Front(s) = p
<1> PICK f : f = Front(s)
  OBVIOUS
<1>1. s \in Seq(S) /\ s # << >> /\ Len(s) = Len(p) + 1 /\ Len(p) \in Nat /\ \A i \in 1 .. Len(p) : s[i] = p[i]
  BY ONLY p \in Seq(S), e \in S, s = Append(p, e)
<1>2. f \in Seq(S) /\ Len(f) = Len(s) - 1 /\ \A i \in 1 .. Len(s) - 1 : f[i] = s[i]
  BY ONLY <1>1, f = Front(s), FrontFacts
<1>3. Len(f) = Len(p) /\ \A i \in 1 .. Len(f) : f[i] = p[i]
  BY ONLY <1>1, <1>2
<1>4. f = p
  BY ONLY p \in Seq(S), <1>2, <1>3, SeqEqual
<1> QED BY <1>4

(* The steps that store nothing: what they leave running has the body it    *)
(* had.                                                                    *)
Quiet ==
  \/ Generate \/ Return \/ SchedulePrefill \/ ScheduleDecode \/ ScheduleRaises
  \/ Postprocess \/ StartCompress \/ EndCompress \/ UNCHANGED vars

SameBody(r) == Settled(r) /\ Body(r)' = Body(r) /\ Stored(r)' = Stored(r)

LEMMA QuietCaches ==
  ASSUME Quiet
  PROVE  UNCHANGED <<recipe, kv, row, nextRow, pages, heads, collided>>
BY DEF Quiet, Generate, Return, SchedulePrefill, ScheduleDecode, ScheduleRaises, Postprocess,
       StartCompress, EndCompress, fixed, caches, vars

LEMMA QuietBodies ==
  ASSUME Base, Quiet, NEW r, Settled(r)'
  PROVE  SameBody(r)
<1>b. Types /\ Queues /\ Batches /\ Pool(Blocks, free, table)
  BY DEF Base
<1>q. /\ running \in Seq(Requests) /\ batch \in Seq(Requests) /\ num_tokens \in [Requests -> Nat]
      /\ free \in Seq(Blocks) /\ table \in [Requests -> Seq(Blocks)]
  BY <1>b DEF Types, Pool
<1>0. Members(running', r)
  BY DEF Settled
<1>1. ASSUME pc \notin {"run", "post"}, pc' \notin {"run", "post"},
             running' = running, table' = table, num_tokens' = num_tokens
      PROVE  SameBody(r)
  BY <1>0, <1>1 DEF SameBody, Settled, Body, Stored, Fresh
<1>2. CASE Generate \/ Return
  <2>1. running' = << >>
    BY <1>b, <1>2 DEF Generate, Return, Queues
  <2> QED BY <1>0, <2>1, NoMembers
<1>3. CASE ScheduleRaises \/ StartCompress \/ EndCompress
  <2>1. /\ pc \notin {"run", "post"} /\ pc' \notin {"run", "post"}
        /\ running' = running /\ table' = table /\ num_tokens' = num_tokens
    BY <1>3 DEF ScheduleRaises, StartCompress, EndCompress, queues, blocks
  <2> QED BY <1>1, <2>1
<1>4. CASE UNCHANGED vars
  <2>1. UNCHANGED <<pc, running, batch, prefill, table, num_tokens>>
    BY <1>4 DEF vars, queues, blocks
  <2> QED BY <2>1 DEF SameBody, Settled, Body, Stored, Fresh
<1>5. CASE SchedulePrefill
  <2> PICK new : new = SubSeq(waiting, 1, Admitted)
    OBVIOUS
  <2>1. /\ pc = "schedule" /\ pc' = "run" /\ prefill' = TRUE /\ num_tokens' = num_tokens
        /\ batch' = new /\ running' = running \o new
    BY <1>5 DEF SchedulePrefill
  <2>2. table' = [s \in Requests |->
                       IF s \in Range(new)
                       THEN SubSeq(free, Needed(IndexOf(s, new) - 1) + 1, Needed(IndexOf(s, new))) ELSE table[s]]
    BY <1>5 DEF SchedulePrefill
  <2>3. ~Members(new, r)
    BY <2>1 DEF Settled, Fresh
  <2>4. new \in Seq(Requests)
    BY <2>1, BasePrefill, <1>5 DEF Base, Types
  <2>5. Members(running, r)
    <3>1. Joined(running', running, new, Requests)
      BY ONLY <1>q, <2>1, <2>4, ConcatFacts
    <3> QED BY <1>0, <2>3, <3>1 DEF Joined
  <2>6. r \in Requests /\ r \notin Range(new)
    BY <1>q, <2>3, <2>5, MembersType, RangeMembers
  <2>7. table'[r] = table[r]
    BY ONLY <2>2, <2>6
  <2> QED BY ONLY <2>1, <2>3, <2>5, <2>7 DEF SameBody, Settled, Body, Stored, Fresh
<1>6. CASE ScheduleDecode
  <2> PICK new : new = Decoded
    OBVIOUS
  <2>1. /\ pc = "schedule" /\ pc' = "run" /\ num_tokens' = num_tokens
        /\ batch' = new /\ running' = running
        /\ table' = [s \in Requests |-> IF s \in Range(new) THEN Append(table[s], free[IndexOf(s, new)]) ELSE table[s]]
    BY <1>6 DEF ScheduleDecode
  <2>2. r \in Requests /\ Members(running, r) /\ (r \in Range(new) <=> Members(new, r))
    BY <1>0, <1>q, <2>1, MembersType, RangeMembers
  <2>3. CASE ~Members(new, r)
    <3>1. table'[r] = table[r]
      BY ONLY <2>1, <2>2, <2>3
    <3> QED BY ONLY <2>1, <2>2, <2>3, <3>1 DEF SameBody, Settled, Body, Stored, Fresh
  <2>4. CASE Members(new, r)
    <3> PICK p, e, s : p = table[r] /\ e = free[IndexOf(r, new)] /\ s = Append(p, e)
      OBVIOUS
    <3>1. table'[r] = s
      BY ONLY <2>1, <2>2, <2>4, p = table[r], e = free[IndexOf(r, new)], s = Append(p, e)
    <3>2. p \in Seq(Blocks) /\ e \in Blocks
      <4>1. Prefix(Decoded, running, Requests) /\ Len(Decoded) \in Nat
        BY <1>q, DecodedFacts
      <4>2. new \in Seq(Requests) /\ Distinct(new)
        BY <1>b, <4>1 DEF Prefix, Queues
      <4> PICK k \in DOMAIN new : new[k] = r
        BY <2>4 DEF Members
      <4>3. IndexOf(new[k], new) = k
        BY ONLY <4>2, IndexOfFacts
      <4>4. Len(new) <= Len(free)
        BY <1>6 DEF ScheduleDecode, Decodable
      <4>5. k \in 1 .. Len(free)
        BY ONLY <1>q, <4>2, <4>4, k \in DOMAIN new
      <4>6. e = free[k]
        BY ONLY <4>3, new[k] = r, e = free[IndexOf(r, new)]
      <4> QED BY ONLY <1>q, <2>2, <4>5, <4>6, p = table[r]
    <3>3. Front(s) = p
      BY ONLY <3>2, s = Append(p, e), FrontAppend
    <3> QED BY ONLY <2>1, <2>2, <2>4, <3>1, <3>3, p = table[r] DEF SameBody, Settled, Body, Stored, Fresh
  <2> QED BY <2>3, <2>4
<1>7. CASE Postprocess
  <2>1. /\ pc = "post" /\ pc' \in {"compress", "schedule"}
        /\ num_tokens' = [s \in Requests |-> num_tokens[s] + IF s \in Range(batch) THEN 1 ELSE 0]
    BY <1>7 DEF Postprocess
  <2> PICK done : /\ table' = [s \in Requests |-> IF s \in done THEN << >> ELSE table[s]]
                  /\ running' = Filter(running, Requests \ done)
    BY <1>7 DEF Postprocess
  <2>2. Members(running, r) /\ r \notin done
    <3> PICK q : q = Filter(running, Requests \ done)
      OBVIOUS
    <3>1. Filtered(q, running, Requests \ done, Requests)
      BY ONLY <1>q, q = Filter(running, Requests \ done), FilterFacts
    <3>2. Members(q, r)
      BY <1>0
    <3> QED BY ONLY <3>1, <3>2 DEF Filtered
  <2>3. r \in Requests /\ (r \in Range(batch) <=> Members(batch, r))
    BY <1>q, <2>2, MembersType, RangeMembers
  <2>4. table'[r] = table[r] /\ num_tokens'[r] = num_tokens[r] + (IF r \in Range(batch) THEN 1 ELSE 0) /\ num_tokens[r] \in Nat
    BY <1>q, <2>1, <2>2, <2>3
  <2>5. Stored(r)' = Stored(r)
    BY ONLY <2>1, <2>3, <2>4 DEF Stored
  <2> QED BY ONLY <2>1, <2>2, <2>4, <2>5 DEF SameBody, Settled, Body, Fresh
<1> QED BY <1>2, <1>3, <1>4, <1>5, <1>6, <1>7 DEF Quiet

-----------------------------------------------------------------------------
(* The rows of the pool: the heads of a request count its blocks, and as    *)
(* long as no row is given away its first pages are the request's blocks.   *)
IsList(s) == Len(s) \in Nat /\ DOMAIN s = 1 .. Len(s)

PageTypes ==
  /\ row \in [Requests -> {0} \cup Rows] /\ nextRow \in Rows /\ heads \in [Requests -> [Heads -> Nat]]
  /\ \A p \in Rows, h \in Heads : IsList(pages[p][h])

Counted(r) == row[r] \in Rows /\ \A h \in Heads : heads[r][h] = Len(Body(r))
Alone(r) == \A s : Settled(s) /\ row[s] = row[r] => s = r
Paged(r) ==
  \A h \in Heads : /\ Len(pages[row[r]][h]) >= Len(Body(r))
                   /\ \A i \in 1 .. Len(Body(r)) : pages[row[r]][h][i] = Body(r)[i]

PagesInv ==
  /\ PageTypes
  /\ recipe = "headwise" =>
       \A r : Settled(r) => Counted(r) /\ (~collided => Alone(r) /\ Paged(r))

LEMMA PagesQuiet ==
  ASSUME Base, PagesInv, Quiet
  PROVE  PagesInv'
<1>1. UNCHANGED <<recipe, row, nextRow, pages, heads, collided>>
  BY QuietCaches
<1>2. \A r : Settled(r)' => SameBody(r)
  BY QuietBodies
<1>3. PageTypes'
  BY <1>1 DEF PagesInv, PageTypes
<1>4. ASSUME recipe = "headwise", NEW r, Settled(r)'
      PROVE  Counted(r)' /\ (~collided' => Alone(r)' /\ Paged(r)')
  <2>1. Settled(r) /\ Body(r)' = Body(r) /\ \A s : Settled(s)' => Settled(s)
    BY <1>2, <1>4 DEF SameBody
  <2>2. Counted(r) /\ (~collided => Alone(r) /\ Paged(r))
    BY <1>4, <2>1 DEF PagesInv
  <2> QED BY <1>1, <2>1, <2>2 DEF Counted, Alone, Paged
<1> QED BY <1>1, <1>3, <1>4 DEF PagesInv

(* Round robin: a batch no longer than the pool gets a row each.           *)
LEMMA Rotation ==
  ASSUME NEW m \in Nat \ {0}, NEW x \in 1 .. m, NEW k \in 1 .. m
  PROVE  (x + k - 2) % m = IF x + k - 2 < m THEN x + k - 2 ELSE x + k - 2 - m
<1>1. CASE x + k - 2 < m
  <2>1. x + k - 2 \in 0 .. m - 1
    BY <1>1
  <2>2. (x + k - 2) % m = x + k - 2
    BY ONLY <2>1, m \in Nat \ {0}, Remainder
  <2> QED BY <1>1, <2>2
<1>2. CASE ~(x + k - 2 < m)
  <2> PICK y : y = x + k - 2 - m
    OBVIOUS
  <2>1. y \in 0 .. m - 1 /\ x + k - 2 = y + m
    BY <1>2
  <2>2. (y + m) % m = y
    BY ONLY <2>1, m \in Nat \ {0}, Remainder
  <2> QED BY <1>2, <2>1, <2>2
<1> QED BY <1>1, <1>2

LEMMA RowsDealt ==
  ASSUME nextRow \in Rows, batch \in Seq(Requests), Distinct(batch), Len(batch) <= MaxNumSeqs,
         NEW r, Members(batch, r)
  PROVE  RowOf(r) \in Rows /\ \A s : Members(batch, s) /\ RowOf(s) = RowOf(r) => s = r
<1> PICK m \in Nat \ {0} : m = MaxNumSeqs
  BY KVAssumption
<1> PICK x \in 1 .. m : x = nextRow
  BY DEF Rows
<1> DEFINE At(k) == 1 + (IF x + k - 2 < m THEN x + k - 2 ELSE x + k - 2 - m)
<1>1. ASSUME NEW s, Members(batch, s) PROVE \E k \in 1 .. m : batch[k] = s /\ RowOf(s) = At(k)
  <2> PICK k \in DOMAIN batch : batch[k] = s
    BY <1>1 DEF Members
  <2>1. IndexOf(batch[k], batch) = k
    BY ONLY Distinct(batch), IndexOfFacts
  <2>2. k \in 1 .. m
    BY ONLY batch \in Seq(Requests), Len(batch) <= MaxNumSeqs, m = MaxNumSeqs, m \in Nat \ {0}, k \in DOMAIN batch
  <2>3. s \in Range(batch)
    BY <1>1, RangeMembers
  <2>4. RowOf(s) = 1 + ((x + k - 2) % m)
    BY ONLY <2>1, <2>3, batch[k] = s, m = MaxNumSeqs, x = nextRow DEF RowOf
  <2>5. (x + k - 2) % m = IF x + k - 2 < m THEN x + k - 2 ELSE x + k - 2 - m
    BY ONLY <2>2, m \in Nat \ {0}, x \in 1 .. m, Rotation
  <2> QED BY ONLY <2>2, <2>4, <2>5, batch[k] = s
<1>2. \A j, k \in 1 .. m : At(j) \in 1 .. m /\ (At(j) = At(k) => j = k)
  BY ONLY m \in Nat \ {0}, x \in 1 .. m
<1> HIDE DEF At
<1>3. RowOf(r) \in Rows
  <2> PICK k \in 1 .. m : RowOf(r) = At(k)
    BY <1>1
  <2> QED BY <1>2 DEF Rows
<1>4. ASSUME NEW s, Members(batch, s), RowOf(s) = RowOf(r) PROVE s = r
  <2> PICK j \in 1 .. m : batch[j] = s /\ RowOf(s) = At(j)
    BY <1>1, <1>4
  <2> PICK k \in 1 .. m : batch[k] = r /\ RowOf(r) = At(k)
    BY <1>1
  <2>1. j = k
    BY <1>2, <1>4
  <2> QED BY <2>1
<1> QED BY <1>3, <1>4

(* A block table written over the front of a row.                          *)
LEMMA OverwriteFacts ==
  ASSUME NEW S, NEW new \in Seq(S), NEW old, IsList(old), NEW s, s = Overwrite(old, new)
  PROVE  IsList(s) /\ Len(s) >= Len(new) /\ \A i \in 1 .. Len(new) : s[i] = new[i]
<1>0. Len(new) \in Nat /\ Len(old) \in Nat
  <2>1. Len(new) \in Nat
    BY ONLY new \in Seq(S)
  <2> QED BY <2>1 DEF IsList
<1> PICK m \in Nat, n \in Nat : m = Len(new) /\ n = Len(old)
  BY ONLY <1>0
<1> PICK T, b : T = S \cup {old[i] : i \in 1 .. n} /\ b = SubSeq(old, m + 1, n)
  OBVIOUS
<1>1. new \in Seq(T)
  <2>1. \A i \in 1 .. m : new[i] \in T
    OBVIOUS
  <2> QED BY <2>1
<1>2. b \in Seq(T)
  <2>1. \A i \in m + 1 .. n : old[i] \in T
    <3>1. \A i \in m + 1 .. n : i \in 1 .. n
      OBVIOUS
    <3> QED BY ONLY <3>1, T = S \cup {old[i] : i \in 1 .. n}
  <2>2. m + 1 \in Int /\ n \in Int
    OBVIOUS
  <2> QED BY ONLY <2>1, <2>2, b = SubSeq(old, m + 1, n), SubSeqProperties
<1>3. s = new \o b
  BY ONLY s = Overwrite(old, new), m = Len(new), n = Len(old), b = SubSeq(old, m + 1, n) DEF Overwrite
<1>4. Len(b) \in Nat
  BY ONLY <1>2
<1>5. s \in Seq(T) /\ Len(s) = m + Len(b) /\ \A i \in 1 .. m : s[i] = new[i]
  BY ONLY <1>1, <1>2, <1>3, m = Len(new)
<1>6. Len(s) \in Nat /\ DOMAIN s = 1 .. Len(s) /\ Len(s) >= m
  BY ONLY <1>4, <1>5, m \in Nat
<1> QED BY <1>5, <1>6 DEF IsList

LEMMA PagesPrefill ==
  ASSUME Base, PagesInv, RunPrefill
  PROVE  PagesInv'
<1>b. Types /\ Queues /\ Batches /\ Pool(Blocks, free, table) /\ PageTypes
  BY DEF Base, PagesInv
<1>0. /\ pc = "run" /\ pc' = "post" /\ prefill = TRUE
      /\ UNCHANGED <<recipe, plen, running, num_tokens, batch, prefill, table>>
  BY DEF RunPrefill, fixed, queues, blocks
<1>q. /\ running \in Seq(Requests) /\ batch \in Seq(Requests) /\ table \in [Requests -> Seq(Blocks)]
      /\ Distinct(batch) /\ Len(batch) <= MaxNumSeqs /\ nextRow \in Rows
      /\ \A x : Members(batch, x) => Members(running, x) /\ x \in Requests /\ Len(table[x]) = plen[x]
  <2>1. \A x : Members(batch, x) => x \in Requests
    BY <1>b, MembersType DEF Types
  <2> QED BY <1>0, <1>b, <2>1 DEF Types, Pool, Batches, PageTypes
<1>r. \A x : x \in Range(batch) <=> Members(batch, x)
  BY RangeMembers
<1>1. CASE recipe # "headwise"
  <2>1. UNCHANGED <<row, nextRow, heads, pages, collided>>
    BY <1>1 DEF RunPrefill
  <2> QED BY <1>0, <1>1, <1>b, <2>1 DEF PagesInv, PageTypes
<1>2. CASE recipe = "headwise"
  <2>1. /\ row' = [r \in Requests |-> RowOf(r)]
        /\ nextRow' = 1 + ((nextRow + Len(batch) - 1) % MaxNumSeqs)
        /\ heads' = [r \in Requests |-> IF r \in Range(batch) THEN [h \in Heads |-> plen[r]] ELSE heads[r]]
        /\ pages' = [p \in Rows |-> [h \in Heads |->
                         IF RequestOf(p) = {} THEN pages[p][h]
                         ELSE Overwrite(pages[p][h], table[CHOOSE r \in RequestOf(p) : TRUE])]]
    BY <1>2 DEF RunPrefill
  <2>2. ~collided' => ~collided /\ \A r, q : Members(running, r) /\ ~Members(batch, r) /\ Members(batch, q) => row[r] # RowOf(q)
    <3>1. collided' = (collided \/ \E r \in Range(running) \ Range(batch), q \in Range(batch) : row[r] = RowOf(q))
      BY <1>2 DEF RunPrefill
    <3>2. \A x : x \in Range(running) <=> Members(running, x)
      BY RangeMembers
    <3> QED BY ONLY <1>r, <3>1, <3>2
  <2>3. \A r : Members(batch, r) => RowOf(r) \in Rows /\ \A s : Members(batch, s) /\ RowOf(s) = RowOf(r) => s = r
    BY ONLY <1>q, RowsDealt
  <2>4. \A p : RequestOf(p) = {r \in Range(batch) : RowOf(r) = p}
    BY DEF RequestOf
  <2>5. \A p : RequestOf(p) # {} => table[CHOOSE r \in RequestOf(p) : TRUE] \in Seq(Blocks)
    <3> SUFFICES ASSUME NEW p, RequestOf(p) # {} PROVE table[CHOOSE r \in RequestOf(p) : TRUE] \in Seq(Blocks)
      OBVIOUS
    <3> PICK r : r = CHOOSE s \in RequestOf(p) : TRUE
      OBVIOUS
    <3>1. r \in RequestOf(p)
      OBVIOUS
    <3>2. r \in Requests
      BY ONLY <1>q, <1>r, <2>4, <3>1
    <3> QED BY <1>q, <3>2
  <2>6. PageTypes'
    <3>1. row' \in [Requests -> {0} \cup Rows]
      <4>1. \A r \in Requests : RowOf(r) \in {0} \cup Rows
        <5> SUFFICES ASSUME NEW r \in Requests PROVE RowOf(r) \in {0} \cup Rows
          OBVIOUS
        <5>1. CASE Members(batch, r)
          BY <2>3, <5>1
        <5>2. CASE ~Members(batch, r)
          BY <1>b, <1>r, <5>2 DEF RowOf, PageTypes
        <5> QED BY <5>1, <5>2
      <4> QED BY ONLY <2>1, <4>1
    <3>2. nextRow' \in Rows
      <4> PICK m \in Nat \ {0} : m = MaxNumSeqs
        BY KVAssumption
      <4> PICK x \in 1 .. m, k \in 1 .. m + 1 : x = nextRow /\ k = Len(batch) + 1
        <5>1. MaxNumSeqs \in Nat \ {0} /\ nextRow \in 1 .. MaxNumSeqs
          BY <1>q, KVAssumption DEF Rows
        <5>2. Len(batch) + 1 \in 1 .. MaxNumSeqs + 1
          BY ONLY <1>q, <5>1
        <5> QED BY ONLY <5>1, <5>2, m = MaxNumSeqs
      <4>1. (x + k - 2) % m \in 0 .. m - 1
        BY ONLY m \in Nat \ {0}, x \in 1 .. m, k \in 1 .. m + 1
      <4>2. nextRow' = 1 + ((x + k - 2) % m)
        <5>1. nextRow + Len(batch) - 1 = x + k - 2
          BY ONLY <1>q, m = MaxNumSeqs, x = nextRow, k = Len(batch) + 1, x \in 1 .. m, k \in 1 .. m + 1
        <5> QED BY ONLY <2>1, <5>1, m = MaxNumSeqs
      <4> QED BY ONLY <4>1, <4>2, m = MaxNumSeqs, m \in Nat \ {0} DEF Rows
    <3>3. heads' \in [Requests -> [Heads -> Nat]]
      <4>1. plen \in [Requests -> Nat]
        <5>1. \A p \in Prompts : p \in [Requests -> Nat]
          BY KVAssumption DEF Requests
        <5> QED BY <1>b, <5>1 DEF Types
      <4>2. heads \in [Requests -> [Heads -> Nat]]
        BY <1>b DEF PageTypes
      <4> QED BY ONLY <2>1, <4>1, <4>2
    <3>4. ASSUME NEW p \in Rows, NEW h \in Heads PROVE IsList(pages'[p][h])
      <4>1. IsList(pages[p][h])
        BY <1>b DEF PageTypes
      <4>2. CASE RequestOf(p) = {}
        BY ONLY <2>1, <4>1, <4>2, p \in Rows, h \in Heads
      <4>3. CASE RequestOf(p) # {}
        <5> PICK s, old, new : s = pages'[p][h] /\ old = pages[p][h] /\ new = table[CHOOSE r \in RequestOf(p) : TRUE]
          OBVIOUS
        <5>1. s = Overwrite(old, new) /\ new \in Seq(Blocks)
          BY ONLY <2>1, <2>5, <4>3, p \in Rows, h \in Heads, s = pages'[p][h], old = pages[p][h],
                  new = table[CHOOSE r \in RequestOf(p) : TRUE]
        <5>2. IsList(old)
          BY <4>1
        <5>3. IsList(s)
          BY ONLY <5>1, <5>2, OverwriteFacts
        <5> QED BY <5>3
      <4> QED BY <4>2, <4>3
    <3> QED BY ONLY <3>1, <3>2, <3>3, <3>4 DEF PageTypes
  <2>7. ASSUME NEW r PROVE Settled(r)' <=> Members(running, r)
    BY <1>0 DEF Settled, Fresh
  <2>8. \A r : Body(r)' = table[r]
    BY <1>0 DEF Body, Fresh
  <2>9. ASSUME NEW r, Settled(r)', Members(batch, r)
        PROVE  Counted(r)' /\ (~collided' => Alone(r)' /\ Paged(r)')
    <3>1. r \in Requests /\ r \in Range(batch) /\ row'[r] = RowOf(r) /\ RowOf(r) \in Rows
      BY ONLY <1>q, <1>r, <2>1, <2>3, <2>9
    <3>2. Counted(r)'
      <4>1. \A h \in Heads : heads'[r][h] = plen[r]
        BY ONLY <2>1, <3>1
      <4>2. Len(table[r]) = plen[r]
        BY <1>q, <2>9
      <4> QED BY ONLY <2>8, <3>1, <4>1, <4>2 DEF Counted
    <3>3. ASSUME ~collided', NEW s, Settled(s)', row'[s] = row'[r] PROVE s = r
      <4>1. Members(running, s)
        BY <2>7, <3>3
      <4>2. s \in Requests
        BY <1>q, <4>1, MembersType
      <4>3. CASE Members(batch, s)
        <5>1. RowOf(s) = RowOf(r)
          BY ONLY <2>1, <3>1, <3>3, <4>2
        <5> QED BY <2>3, <2>9, <4>3, <5>1
      <4>4. CASE ~Members(batch, s)
        <5>1. row'[s] = row[s]
          BY ONLY <1>r, <2>1, <4>2, <4>4 DEF RowOf
        <5> QED BY <2>2, <2>9, <3>1, <3>3, <4>1, <4>4, <5>1
      <4> QED BY <4>3, <4>4
    <3>4. Paged(r)'
      <4> PICK p : p = RowOf(r)
        OBVIOUS
      <4>1. RequestOf(p) = {r}
        BY ONLY <1>r, <2>3, <2>4, <2>9, <3>1, p = RowOf(r)
      <4>2. (CHOOSE s \in RequestOf(p) : TRUE) = r
        BY ONLY <4>1
      <4>3. ASSUME NEW h \in Heads
            PROVE Len(pages'[p][h]) >= Len(table[r]) /\ \A i \in 1 .. Len(table[r]) : pages'[p][h][i] = table[r][i]
        <5> PICK s, old, new : s = pages'[p][h] /\ old = pages[p][h] /\ new = table[r]
          OBVIOUS
        <5>1. s = Overwrite(old, new)
          BY ONLY <2>1, <3>1, <4>1, <4>2, p = RowOf(r), h \in Heads, s = pages'[p][h], old = pages[p][h], new = table[r]
        <5>2. new \in Seq(Blocks)
          BY ONLY <1>q, <3>1, new = table[r]
        <5>3. IsList(old)
          BY <1>b, <3>1 DEF PageTypes
        <5>4. Len(s) >= Len(new) /\ \A i \in 1 .. Len(new) : s[i] = new[i]
          BY ONLY <5>1, <5>2, <5>3, OverwriteFacts
        <5> QED BY ONLY <5>4, s = pages'[p][h], new = table[r]
      <4> QED BY ONLY <2>8, <3>1, <4>3, p = RowOf(r) DEF Paged
    <3> QED BY ONLY <3>2, <3>3, <3>4 DEF Alone
  <2>10. ASSUME NEW r, Settled(r)', ~Members(batch, r)
         PROVE  Counted(r)' /\ (~collided' => Alone(r)' /\ Paged(r)')
    <3>1. r \in Requests /\ r \notin Range(batch) /\ Members(running, r) /\ Settled(r) /\ Body(r) = table[r]
      BY <1>q, <1>r, <2>7, <2>10, MembersType DEF Settled, Fresh, Body
    <3>2. Counted(r) /\ (~collided => Alone(r) /\ Paged(r))
      BY <1>2, <2>10, <3>1 DEF PagesInv
    <3>3. row'[r] = row[r] /\ heads'[r] = heads[r]
      BY ONLY <2>1, <3>1 DEF RowOf
    <3>4. Counted(r)'
      BY ONLY <2>8, <3>1, <3>2, <3>3 DEF Counted
    <3>5. ASSUME ~collided' PROVE RequestOf(row[r]) = {} /\ Alone(r) /\ Paged(r)
      BY <1>r, <2>2, <2>4, <2>10, <3>1, <3>2, <3>5
    <3>6. ASSUME ~collided', NEW s, Settled(s)', row'[s] = row'[r] PROVE s = r
      <4>1. Members(running, s)
        BY <2>7, <3>6
      <4>2. s \in Requests
        BY <1>q, <4>1, MembersType
      <4>3. ~Members(batch, s)
        <5> SUFFICES ASSUME Members(batch, s) PROVE FALSE
          OBVIOUS
        <5>1. RowOf(s) = row[r]
          BY ONLY <2>1, <3>3, <3>6, <4>2
        <5> QED BY <2>2, <2>10, <3>1, <3>6, <5>1
      <4>4. row'[s] = row[s]
        BY ONLY <1>r, <2>1, <4>2, <4>3 DEF RowOf
      <4>5. Settled(s)
        BY <4>1, <4>3 DEF Settled, Fresh
      <4> QED BY <3>3, <3>5, <3>6, <4>4, <4>5 DEF Alone
    <3>7. ASSUME ~collided' PROVE Paged(r)'
      <4>1. \A h \in Heads : pages'[row[r]][h] = pages[row[r]][h]
        <5>1. row[r] \in Rows /\ RequestOf(row[r]) = {}
          BY <3>2, <3>5, <3>7 DEF Counted
        <5> QED BY ONLY <2>1, <5>1
      <4>2. Paged(r)
        BY <3>5, <3>7
      <4> QED BY ONLY <2>8, <3>1, <3>3, <4>1, <4>2 DEF Paged
    <3> QED BY ONLY <3>4, <3>6, <3>7 DEF Alone
  <2> QED BY <1>0, <2>6, <2>9, <2>10 DEF PagesInv
<1> QED BY <1>1, <1>2

LEMMA BoundOf ==
  ASSUME NEW m \in Nat, NEW f, \A j \in 1 .. m : f[j] \in Nat
  PROVE  \E N \in Nat : \A j \in 1 .. m : f[j] <= N
<1> DEFINE G == {k \in 0 .. m : \E N \in Nat : \A j \in 1 .. k : f[j] <= N}
<1>1. 0 \in G
  OBVIOUS
<1>2. ASSUME NEW k \in 1 .. m, k - 1 \in G PROVE k \in G
  <2> PICK N \in Nat : \A j \in 1 .. k - 1 : f[j] <= N
    BY <1>2
  <2> PICK x \in Nat : x = f[k]
    OBVIOUS
  <2>1. \A j \in 1 .. k : j = k \/ j \in 1 .. k - 1
    OBVIOUS
  <2>2. \A j \in 1 .. k : f[j] \in Nat /\ f[j] <= N + x
    <3> SUFFICES ASSUME NEW j \in 1 .. k PROVE f[j] \in Nat /\ f[j] <= N + x
      OBVIOUS
    <3>1. f[j] \in Nat /\ (f[j] <= N \/ f[j] = x)
      BY <2>1
    <3> QED BY ONLY <3>1, N \in Nat, x \in Nat
  <2>3. N + x \in Nat /\ k \in 0 .. m
    OBVIOUS
  <2> QED BY <2>2, <2>3
<1>3. m \in G
  <2> HIDE DEF G
  <2>1. \A k \in 0 .. m : k \in G
    BY <1>1, <1>2, Upward
  <2> QED BY <2>1
<1> QED BY <1>3

(* The row p of a head after a decode step, g counting the entries of every *)
(* request.                                                                *)
PutAt(g, p, h, i) == {j \in DOMAIN batch : row[batch[j]] = p /\ g[batch[j]][h] = i}
PutRow(g, p, h, s) ==
  [i \in 1 .. Max({Len(s)} \cup {g[r][h] : r \in {r \in Range(batch) : row[r] = p}}) |->
     IF PutAt(g, p, h, i) = {} THEN s[i] ELSE Last(table[batch[Max(PutAt(g, p, h, i))]])]

IsPut(w, g, p, h, s) ==
  /\ IsList(w) /\ Len(w) >= Len(s) /\ \A r \in Range(batch) : row[r] = p => Len(w) >= g[r][h]
  /\ \A i \in 1 .. Len(w) :
       w[i] = IF PutAt(g, p, h, i) = {} THEN s[i] ELSE Last(table[batch[Max(PutAt(g, p, h, i))]])

LEMMA PutFacts ==
  ASSUME batch \in Seq(Requests), NEW g \in [Requests -> [Heads -> Nat]], NEW p, NEW h \in Heads,
         NEW s, IsList(s), NEW w, w = PutRow(g, p, h, s)
  PROVE  IsPut(w, g, p, h, s)
<1> PICK S, n : S = {Len(s)} \cup {g[r][h] : r \in {r \in Range(batch) : row[r] = p}} /\ n = Max(S)
  OBVIOUS
<1> PICK m \in Nat, l \in Nat : m = Len(batch) /\ l = Len(s)
  <2>1. Len(batch) \in Nat
    BY ONLY batch \in Seq(Requests)
  <2> QED BY <2>1 DEF IsList
<1>0. DOMAIN batch = 1 .. m /\ (\A j \in 1 .. m : batch[j] \in Requests) /\ Range(batch) = {batch[j] : j \in 1 .. m}
  <2>1. DOMAIN batch = 1 .. m /\ \A j \in 1 .. m : batch[j] \in Requests
    BY ONLY batch \in Seq(Requests), m = Len(batch)
  <2> QED BY ONLY <2>1 DEF Range
<1> PICK f : f = [j \in 1 .. m |-> g[batch[j]][h]]
  OBVIOUS
<1>1. \A j \in 1 .. m : f[j] = g[batch[j]][h] /\ f[j] \in Nat
  <2>1. \A j \in 1 .. m : g[batch[j]][h] \in Nat
    BY ONLY <1>0, g \in [Requests -> [Heads -> Nat]], h \in Heads
  <2> QED BY ONLY <2>1, f = [j \in 1 .. m |-> g[batch[j]][h]]
<1> PICK N \in Nat : \A j \in 1 .. m : f[j] <= N
  <2>1. \A j \in 1 .. m : f[j] \in Nat
    BY <1>1
  <2> QED BY ONLY <2>1, m \in Nat, BoundOf
<1>2. S \in SUBSET (0 .. N + l) /\ S # {} /\ l \in S /\ \A r \in Range(batch) : row[r] = p => g[r][h] \in S
  <2>1. l \in S /\ \A r \in Range(batch) : row[r] = p => g[r][h] \in S
    BY ONLY S = {Len(s)} \cup {g[r][h] : r \in {r \in Range(batch) : row[r] = p}}, l = Len(s)
  <2>2. ASSUME NEW x \in S PROVE x \in 0 .. N + l
    <3>1. x = l \/ \E j \in 1 .. m : x = f[j]
      BY ONLY <1>0, <1>1, x \in S, S = {Len(s)} \cup {g[r][h] : r \in {r \in Range(batch) : row[r] = p}}, l = Len(s)
    <3>2. CASE x = l
      BY ONLY <3>2, l \in Nat, N \in Nat
    <3>3. CASE \E j \in 1 .. m : x = f[j]
      <4>1. x \in Nat /\ x <= N
        BY ONLY <1>1, <3>3, \A j \in 1 .. m : f[j] <= N
      <4> QED BY ONLY <4>1, l \in Nat, N \in Nat
    <3> QED BY <3>1, <3>2, <3>3
  <2> QED BY ONLY <2>1, <2>2
<1>3. n \in S /\ \A y \in S : n >= y
  <2>1. N + l \in Nat
    BY ONLY N \in Nat, l \in Nat
  <2> QED BY ONLY <1>2, <2>1, n = Max(S), GreatestOf
<1>4. n \in Nat
  BY ONLY <1>2, <1>3, N \in Nat, l \in Nat
<1>5. w = [i \in 1 .. n |-> IF PutAt(g, p, h, i) = {} THEN s[i] ELSE Last(table[batch[Max(PutAt(g, p, h, i))]])]
  BY ONLY w = PutRow(g, p, h, s), n = Max(S), S = {Len(s)} \cup {g[r][h] : r \in {r \in Range(batch) : row[r] = p}} DEF PutRow
<1>6. DOMAIN w = 1 .. n /\ Len(w) = n
  BY ONLY <1>4, <1>5
<1>7. \A i \in 1 .. n : w[i] = IF PutAt(g, p, h, i) = {} THEN s[i] ELSE Last(table[batch[Max(PutAt(g, p, h, i))]])
  BY ONLY <1>5
<1> QED BY ONLY <1>2, <1>3, <1>4, <1>6, <1>7, l = Len(s) DEF IsList, IsPut

LEMMA PagesDecode ==
  ASSUME Base, PagesInv, RunDecode
  PROVE  PagesInv'
<1>b. Types /\ Queues /\ Batches /\ Pool(Blocks, free, table) /\ PageTypes
  BY DEF Base, PagesInv
<1>0. /\ pc = "run" /\ pc' = "post" /\ prefill = FALSE
      /\ UNCHANGED <<recipe, plen, running, num_tokens, batch, prefill, table, row, nextRow, collided>>
  BY <1>b DEF RunDecode, fixed, queues, blocks, Types
<1> PICK g : g = [r \in Requests |-> [h \in Heads |->
                     IF recipe = "headwise" /\ r \in Range(batch) THEN heads[r][h] + 1
                     ELSE heads[r][h]]]
  OBVIOUS
<1>1. /\ heads' = g
      /\ pages' = IF recipe = "layerwise" THEN pages
                  ELSE [p \in Rows |-> [h \in Heads |-> PutRow(g, p, h, pages[p][h])]]
  BY DEF RunDecode, PutRow, PutAt
<1>q. /\ running \in Seq(Requests) /\ batch \in Seq(Requests) /\ table \in [Requests -> Seq(Blocks)]
      /\ heads \in [Requests -> [Heads -> Nat]] /\ \A p \in Rows, h \in Heads : IsList(pages[p][h])
      /\ \A x : Members(batch, x) => Members(running, x) /\ x \in Requests /\ table[x] # << >>
  <2>1. \A x : Members(batch, x) => x \in Requests
    BY <1>b, MembersType DEF Types
  <2> QED BY <1>0, <1>b, <2>1 DEF Types, Pool, Batches, PageTypes
<1>r. \A x : x \in Range(batch) <=> Members(batch, x)
  BY RangeMembers
<1>g. /\ g \in [Requests -> [Heads -> Nat]]
      /\ \A r \in Requests, h \in Heads : g[r][h] = IF recipe = "headwise" /\ r \in Range(batch) THEN heads[r][h] + 1
                                                    ELSE heads[r][h]
  BY ONLY <1>q, g = [r \in Requests |-> [h \in Heads |->
                     IF recipe = "headwise" /\ r \in Range(batch) THEN heads[r][h] + 1
                     ELSE heads[r][h]]]
<1>2. PageTypes'
  <2>1. ASSUME NEW p \in Rows, NEW h \in Heads PROVE IsList(pages'[p][h])
    <3>1. IsList(pages[p][h])
      BY <1>q
    <3>2. CASE recipe = "layerwise"
      BY ONLY <1>1, <3>1, <3>2
    <3>3. CASE recipe # "layerwise"
      <4> PICK s, w : s = pages[p][h] /\ w = pages'[p][h]
        OBVIOUS
      <4>1. w = PutRow(g, p, h, s)
        BY ONLY <1>1, <3>3, p \in Rows, h \in Heads, s = pages[p][h], w = pages'[p][h]
      <4>2. IsList(s)
        BY <3>1
      <4>3. batch \in Seq(Requests) /\ g \in [Requests -> [Heads -> Nat]]
        BY <1>q, <1>g
      <4>4. IsPut(w, g, p, h, s)
        BY ONLY <4>1, <4>2, <4>3, h \in Heads, PutFacts
      <4> QED BY <4>4 DEF IsPut
    <3> QED BY <3>2, <3>3
  <2> QED BY <1>0, <1>1, <1>b, <1>g, <2>1 DEF PageTypes
<1>3. ASSUME NEW r PROVE /\ Settled(r)' <=> Members(running, r)
                         /\ Settled(r) <=> Members(running, r)
                         /\ Body(r)' = table[r] /\ Body(r) = IF Members(batch, r) THEN Front(table[r]) ELSE table[r]
  BY <1>0 DEF Settled, Fresh, Body
<1>4. ASSUME recipe = "headwise", NEW r, Settled(r)'
      PROVE  Counted(r)' /\ (~collided' => Alone(r)' /\ Paged(r)')
  <2>1. r \in Requests /\ Members(running, r) /\ Settled(r) /\ table[r] \in Seq(Blocks)
    BY <1>3, <1>4, <1>q, MembersType
  <2>2. Counted(r) /\ (~collided => Alone(r) /\ Paged(r))
    BY <1>4, <2>1 DEF PagesInv
  <2>3. row[r] \in Rows /\ row'[r] = row[r] /\ (\A h \in Heads : heads[r][h] = Len(Body(r))) /\ collided' = collided
    BY <1>0, <2>2 DEF Counted
  <2>4. \A h \in Heads : heads'[r][h] = IF Members(batch, r) THEN heads[r][h] + 1 ELSE heads[r][h]
    BY ONLY <1>1, <1>4, <1>g, <1>r, <2>1
  <2> PICK q, b : q = table[r] /\ b = Body(r)
    OBVIOUS
  <2>5. /\ q \in Seq(Blocks) /\ Len(q) \in Nat
        /\ Members(batch, r) => Len(b) = Len(q) - 1 /\ Len(q) \in Nat \ {0} /\ \A i \in 1 .. Len(q) - 1 : b[i] = q[i]
        /\ ~Members(batch, r) => b = q
    <3>1. q \in Seq(Blocks) /\ Len(q) \in Nat
      BY ONLY <2>1, q = table[r]
    <3>2. ASSUME Members(batch, r) PROVE Len(b) = Len(q) - 1 /\ Len(q) \in Nat \ {0} /\ \A i \in 1 .. Len(q) - 1 : b[i] = q[i]
      <4>1. q # << >> /\ b = Front(q)
        BY <1>3, <1>q, <3>2
      <4>2. q # << >>
        BY <4>1
      <4>3. b = Front(q)
        BY <4>1
      <4>4. b \in Seq(Blocks) /\ Len(b) = Len(q) - 1 /\ Len(q) \in Nat \ {0} /\ \A i \in 1 .. Len(q) - 1 : b[i] = q[i]
        BY ONLY <3>1, <4>2, <4>3, FrontFacts
      <4> QED BY ONLY <4>4
    <3>3. ASSUME ~Members(batch, r) PROVE b = q
      BY <1>3, <3>3
    <3> QED BY <3>1, <3>2, <3>3
  <2>6. \A h \in Heads : heads'[r][h] = Len(q)
    <3> SUFFICES ASSUME NEW h \in Heads PROVE heads'[r][h] = Len(q)
      OBVIOUS
    <3>1. heads[r][h] = Len(b)
      BY ONLY <2>3, b = Body(r), h \in Heads
    <3> QED BY ONLY <2>4, <2>5, <3>1, h \in Heads
  <2>7. Counted(r)'
    BY ONLY <1>3, <2>3, <2>6, q = table[r] DEF Counted
  <2>8. ASSUME ~collided' PROVE Alone(r)'
    <3>1. Alone(r)
      BY <2>2, <2>3, <2>8
    <3> QED BY ONLY <1>0, <1>3, <3>1 DEF Alone
  <2>9. ASSUME ~collided', NEW h \in Heads
        PROVE /\ Len(pages'[row[r]][h]) >= Len(q)
              /\ \A i \in 1 .. Len(q) : pages'[row[r]][h][i] = q[i]
    <3> PICK p, s, w : p = row[r] /\ s = pages[p][h] /\ w = pages'[p][h]
      OBVIOUS
    <3>1. Alone(r) /\ Paged(r)
      BY <2>2, <2>3, <2>9
    <3>2. \A x \in Range(batch) : row[x] = p => x = r
      BY ONLY <1>3, <1>q, <1>r, <3>1, p = row[r] DEF Alone
    <3>3. Len(s) >= Len(b) /\ \A i \in 1 .. Len(b) : s[i] = b[i]
      BY ONLY <3>1, p = row[r], s = pages[p][h], b = Body(r), h \in Heads DEF Paged
    <3>4. /\ IsList(w) /\ Len(w) >= Len(s) /\ \A x \in Range(batch) : row[x] = p => Len(w) >= g[x][h]
          /\ \A i \in 1 .. Len(w) :
               w[i] = IF PutAt(g, p, h, i) = {} THEN s[i] ELSE Last(table[batch[Max(PutAt(g, p, h, i))]])
      <4>1. w = PutRow(g, p, h, s)
        BY ONLY <1>1, <1>4, <2>3, h \in Heads, p = row[r], s = pages[p][h], w = pages'[p][h]
      <4>2. IsList(s)
        BY <1>q, <2>3
      <4>3. batch \in Seq(Requests) /\ g \in [Requests -> [Heads -> Nat]]
        BY <1>q, <1>g
      <4>4. IsPut(w, g, p, h, s)
        BY ONLY <4>1, <4>2, <4>3, h \in Heads, PutFacts
      <4> QED BY ONLY <4>4 DEF IsPut
    <3>s. Len(s) \in Nat /\ Len(w) \in Nat
      BY <1>q, <2>3, <3>4 DEF IsList
    <3>5. CASE ~Members(batch, r)
      <4>1. \A i : PutAt(g, p, h, i) = {}
        <5>1. \A j \in DOMAIN batch : batch[j] \in Range(batch)
          BY ONLY DEF Range
        <5> QED BY ONLY <1>r, <3>2, <3>5, <5>1 DEF PutAt
      <4>2. b = q /\ \A i \in 1 .. Len(q) : i \in 1 .. Len(w) /\ w[i] = s[i]
        <5>1. b = q
          BY <2>5, <3>5
        <5> QED BY ONLY <2>5, <3>3, <3>4, <3>s, <4>1, <5>1
      <4> QED BY ONLY <2>5, <3>3, <3>4, <3>s, <4>2, p = row[r], w = pages'[p][h]
    <3>6. CASE Members(batch, r)
      <4>1. g[r][h] = Len(q) /\ r \in Range(batch)
        BY ONLY <1>1, <1>r, <2>6, <3>6, h \in Heads
      <4>2. Len(w) >= Len(q)
        BY ONLY <3>4, <4>1, p = row[r]
      <4>3. Len(b) = Len(q) - 1 /\ Len(q) \in Nat \ {0} /\ \A i \in 1 .. Len(q) - 1 : b[i] = q[i]
        BY <2>5, <3>6
      <4>4. ASSUME NEW i \in 1 .. Len(q) - 1 PROVE w[i] = q[i]
        <5>1. PutAt(g, p, h, i) = {}
          <6>1. \A j \in DOMAIN batch : batch[j] \in Range(batch)
            BY ONLY DEF Range
          <6>2. i # Len(q)
            BY ONLY <4>3, i \in 1 .. Len(q) - 1
          <6> QED BY ONLY <3>2, <4>1, <6>1, <6>2 DEF PutAt
        <5>2. i \in 1 .. Len(w) /\ i \in 1 .. Len(b)
          BY ONLY <3>s, <4>2, <4>3, i \in 1 .. Len(q) - 1
        <5>3. w[i] = s[i] /\ s[i] = b[i] /\ b[i] = q[i]
          BY ONLY <3>3, <3>4, <4>3, <5>1, <5>2, i \in 1 .. Len(q) - 1
        <5> QED BY <5>3
      <4>5. w[Len(q)] = q[Len(q)]
        <5> PICK A, n : A = PutAt(g, p, h, n) /\ n = Len(q)
          OBVIOUS
        <5> PICK m \in Nat : m = Len(batch)
          BY ONLY <1>q
        <5>1. \A j \in A : j \in 1 .. m /\ batch[j] = r
          <6>1. \A j \in DOMAIN batch : j \in 1 .. m /\ batch[j] \in Range(batch)
            BY ONLY <1>q, m = Len(batch) DEF Range
          <6> QED BY ONLY <3>2, <6>1, A = PutAt(g, p, h, n) DEF PutAt
        <5>2. A # {}
          <6> PICK k \in DOMAIN batch : batch[k] = r
            BY <3>6 DEF Members
          <6>1. k \in A
            BY ONLY <4>1, p = row[r], batch[k] = r, k \in DOMAIN batch, A = PutAt(g, p, h, n), n = Len(q) DEF PutAt
          <6> QED BY <6>1
        <5>3. Max(A) \in A
          <6>1. A \in SUBSET (0 .. m)
            BY ONLY <5>1, m \in Nat
          <6> QED BY ONLY <5>2, <6>1, m \in Nat, GreatestOf
        <5>4. n \in 1 .. Len(w)
          BY ONLY <3>s, <4>2, <4>3, n = Len(q)
        <5>5. w[n] = Last(table[r])
          <6>1. batch[Max(A)] = r
            BY ONLY <5>1, <5>3
          <6> QED BY ONLY <3>4, <5>2, <5>4, <6>1, A = PutAt(g, p, h, n)
        <5>6. Last(q) = q[n]
          BY ONLY n = Len(q) DEF Last
        <5> QED BY ONLY <5>5, <5>6, n = Len(q), q = table[r]
      <4>6. \A i \in 1 .. Len(q) : i = Len(q) \/ i \in 1 .. Len(q) - 1
        BY ONLY <4>3
      <4> QED BY ONLY <4>2, <4>4, <4>5, <4>6, p = row[r], w = pages'[p][h]
    <3> QED BY <3>5, <3>6
  <2>10. ~collided' => Paged(r)'
    BY ONLY <1>3, <2>3, <2>9, q = table[r] DEF Paged
  <2> QED BY <2>7, <2>8, <2>10
<1> QED BY <1>0, <1>2, <1>4 DEF PagesInv

LEMMA PagesFit ==
  ASSUME Base, PagesInv
  PROVE  Fits
<1> SUFFICES ASSUME recipe = "headwise", pc = "store", NEW r, Members(todo, r), NEW h \in Heads
             PROVE  heads[r][h] = Len(table[r])
  BY DEF Fits
<1>1. Members(running, r)
  BY DEF Base, Batches
<1>2. Settled(r) /\ Body(r) = table[r]
  BY <1>1 DEF Settled, Body, Fresh
<1>3. Counted(r)
  BY <1>2 DEF PagesInv
<1> QED BY <1>2, <1>3 DEF Counted

(* What a compression does to the request it rewrites.                     *)
Compressed(r, kept, n) ==
  /\ kept \in Kept(r, n) /\ n \in 1 .. Len(table[r]) /\ Recent < n
  /\ recipe = "layerwise" => n = Budget
  /\ table' = [table EXCEPT ![r] = SubSeq(table[r], 1, n)]
  /\ heads' = IF recipe = "headwise" THEN [heads EXCEPT ![r] = [h \in Heads |-> n]] ELSE heads
  /\ kv' = [b \in Blocks |->
             IF b \notin Range(SubSeq(table[r], 1, n)) THEN kv[b]
             ELSE IF IndexOf(b, table[r]) <= Len(kept) THEN kept[IndexOf(b, table[r])]
             ELSE Nothing]

LEMMA StoreFacts ==
  ASSUME Base, PagesInv, Store, NEW r, r = Head(todo)
  PROVE  /\ r \in Requests /\ Members(running, r) /\ Len(table[r]) >= Budget
         /\ \E kept, n : Compressed(r, kept, n)
<1>a. pc = "store" /\ todo # << >>
  BY DEF Store
<1>b. Types /\ Batches /\ Pool(Blocks, free, table)
  BY DEF Base
<1>c. todo \in Seq(Requests) /\ table \in [Requests -> Seq(Blocks)] /\ recipe \in Recipes
  BY <1>b DEF Types, Pool
<1>d. r \in Requests /\ Members(todo, r)
  <2> PICK p : p = Tail(todo)
    OBVIOUS
  <2>1. Popped(todo, r, p, Requests)
    BY ONLY <1>a, <1>c, r = Head(todo), p = Tail(todo), HeadTail
  <2> QED BY <2>1 DEF Popped
<1>e. Members(running, r) /\ Len(table[r]) >= Budget
  BY <1>a, <1>b, <1>d DEF Batches
<1> DEFINE Rewrites(q, count, kept, m) ==
             /\ kv' = [b \in Blocks |->
                        IF b \notin Range(SubSeq(table[q], 1, m)) THEN kv[b]
                        ELSE IF IndexOf(b, table[q]) <= Len(kept) THEN kept[IndexOf(b, table[q])]
                        ELSE Nothing]
             /\ Cut(q, m)
             /\ heads' = IF recipe = "headwise" THEN [heads EXCEPT ![q] = count] ELSE heads
<1>s. \E kept \in Kept(Head(todo), Counts(Head(todo))[1]) :
        Rewrites(Head(todo), Counts(Head(todo)), kept, Max(Range(Counts(Head(todo)))))
  BY ONLY Store DEF Store
<1> HIDE DEF Rewrites
<1>u. \E kept \in Kept(r, Counts(r)[1]) : Rewrites(r, Counts(r), kept, Max(Range(Counts(r))))
  BY ONLY <1>s, r = Head(todo)
<1> PICK count, n, m : count = Counts(r) /\ n = Max(Range(Counts(r))) /\ m = Len(table[r])
  OBVIOUS
<1> PICK kept \in Kept(r, count[1]) : Rewrites(r, count, kept, n)
  BY ONLY <1>u, count = Counts(r), n = Max(Range(Counts(r)))
<1>f. m \in Nat /\ m >= Budget
  <2>1. table[r] \in Seq(Blocks)
    BY ONLY <1>c, <1>d
  <2> QED BY ONLY <1>e, <2>1, m = Len(table[r])
<1>g. /\ n \in 1 .. m /\ Recent < n /\ count = [h \in Heads |-> n]
      /\ recipe = "layerwise" => n = Budget
  <2>1. Fits
    BY PagesFit
  <2>2. recipe = "headwise" => \A h \in Heads : heads[r][h] = m
    BY <1>a, <1>d, <2>1 DEF Fits
  <2>3. /\ n \in 1 .. m /\ Recent < n /\ Counts(r) = [h \in Heads |-> n]
        /\ recipe = "layerwise" => n = Budget
    <3>1. recipe \in Recipes
      BY <1>c
    <3>2. m \in Nat
      BY <1>f
    <3>3. m >= Budget
      BY <1>f
    <3> QED BY ONLY <2>2, <3>1, <3>2, <3>3, n = Max(Range(Counts(r))), CountsFacts
  <2> QED BY ONLY <2>3, count = Counts(r)
<1>h. count[1] = n
  <2>1. 1 \in Heads
    BY KVAssumption DEF Heads
  <2> QED BY ONLY <1>g, <2>1
<1>i. Rewrites(r, [h \in Heads |-> n], kept, n) /\ kept \in Kept(r, n) /\ n \in 1 .. Len(table[r])
  BY ONLY <1>g, <1>h, Rewrites(r, count, kept, n), kept \in Kept(r, count[1]), m = Len(table[r])
<1>j. Compressed(r, kept, n)
  BY ONLY <1>g, <1>i DEF Compressed, Rewrites, Cut
<1> QED BY <1>d, <1>e, <1>j

LEMMA PagesStore ==
  ASSUME Base, PagesInv, Store
  PROVE  PagesInv'
<1>0. /\ pc = "store" /\ pc' = "store"
      /\ UNCHANGED <<recipe, running, row, nextRow, pages, collided>>
  BY DEF Store, fixed, queues
<1> PICK r : r = Head(todo)
  OBVIOUS
<1>1. /\ r \in Requests /\ Members(running, r) /\ Len(table[r]) >= Budget
      /\ \E kept, n : Compressed(r, kept, n)
  BY StoreFacts
<1> PICK kept, n : Compressed(r, kept, n)
  BY <1>1
<1> PICK count : count = [h \in Heads |-> n]
  OBVIOUS
<1>2. /\ n \in 0 .. Len(table[r]) /\ (\A h \in Heads : count[h] = n)
      /\ table' = [table EXCEPT ![r] = SubSeq(table[r], 1, n)]
      /\ heads' = IF recipe = "headwise" THEN [heads EXCEPT ![r] = count] ELSE heads
  <2>1. n \in 1 .. Len(table[r])
    BY DEF Compressed
  <2> QED BY <2>1 DEF Compressed
<1>b. table \in [Requests -> Seq(Blocks)] /\ running \in Seq(Requests) /\ PageTypes
  BY DEF Base, Types, Pool, PagesInv
<1>3. PageTypes'
  <2>1. count \in [Heads -> Nat]
    <3>1. n \in Nat
      BY ONLY <1>2
    <3> QED BY ONLY <3>1, count = [h \in Heads |-> n]
  <2>2. heads' \in [Requests -> [Heads -> Nat]]
    BY ONLY <1>1, <1>2, <1>b, <2>1 DEF PageTypes
  <2> QED BY <1>0, <1>b, <2>2 DEF PageTypes
<1>4. ASSUME NEW x PROVE /\ Settled(x)' <=> Members(running, x)
                         /\ Settled(x) <=> Members(running, x)
                         /\ Body(x)' = table'[x] /\ Body(x) = table[x]
  BY <1>0 DEF Settled, Fresh, Body
<1>5. ASSUME recipe = "headwise", NEW x, Settled(x)'
      PROVE  Counted(x)' /\ (~collided' => Alone(x)' /\ Paged(x)')
  <2>1. x \in Requests /\ Settled(x)
    BY <1>4, <1>5, <1>b, MembersType
  <2>2. Counted(x) /\ (~collided => Alone(x) /\ Paged(x))
    BY <1>5, <2>1 DEF PagesInv
  <2>3. row[x] \in Rows /\ row'[x] = row[x] /\ collided' = collided /\ pages' = pages
    BY <1>0, <2>2 DEF Counted
  <2>4. ASSUME ~collided' PROVE Alone(x)'
    <3>1. Alone(x)
      BY <2>2, <2>3, <2>4
    <3> QED BY ONLY <1>0, <1>4, <3>1 DEF Alone
  <2>5. CASE x # r
    <3>1. table'[x] = table[x] /\ heads'[x] = heads[x]
      BY ONLY <1>1, <1>2, <1>b, <2>1, <2>5 DEF PageTypes
    <3>2. Counted(x)'
      BY ONLY <1>4, <2>2, <2>3, <3>1 DEF Counted
    <3>3. ~collided' => Paged(x)'
      <4>1. Body(x)' = Body(x)
        BY ONLY <1>4, <3>1
      <4>2. Paged(x) => Paged(x)'
        BY ONLY <2>3, <4>1 DEF Paged
      <4> QED BY <2>2, <2>3, <4>2
    <3> QED BY <2>4, <3>2, <3>3
  <2>6. CASE x = r
    <3> PICK q, a : q = table[r] /\ a = SubSeq(q, 1, n)
      OBVIOUS
    <3>1. q \in Seq(Blocks) /\ n \in 0 .. Len(q)
      BY ONLY <1>1, <1>2, <1>b, q = table[r]
    <3>2. Prefix(a, q, Blocks) /\ Len(a) = n /\ \A k \in 1 .. n : a[k] = q[k]
      BY ONLY <3>1, a = SubSeq(q, 1, n), PrefixFacts
    <3>3. table'[x] = a /\ heads'[x] = count
      BY ONLY <1>1, <1>2, <1>5, <1>b, <2>6, q = table[r], a = SubSeq(q, 1, n) DEF PageTypes
    <3>4. \A h \in Heads : count[h] = n
      BY <1>2
    <3>5. Counted(x)'
      BY ONLY <1>4, <2>3, <3>2, <3>3, <3>4 DEF Counted
    <3>6. ASSUME ~collided' PROVE Paged(x)'
      <4>1. Paged(x)
        BY <2>2, <2>3, <3>6
      <4>2. \A h \in Heads : Len(pages[row[x]][h]) >= Len(q) /\ \A i \in 1 .. Len(q) : pages[row[x]][h][i] = q[i]
        BY ONLY <1>4, <2>6, <4>1, q = table[r] DEF Paged
      <4>3. \A i \in 1 .. n : i \in 1 .. Len(q)
        BY ONLY <3>1
      <4>4. n <= Len(q) /\ Len(q) \in Nat
        BY ONLY <3>1
      <4>5. ASSUME NEW h \in Heads PROVE Len(pages[row[x]][h]) >= n
        <5>1. IsList(pages[row[x]][h])
          BY <1>b, <2>3 DEF PageTypes
        <5>2. Len(pages[row[x]][h]) \in Nat
          BY <5>1 DEF IsList
        <5>3. Len(pages[row[x]][h]) >= Len(q)
          BY <4>2
        <5> QED BY ONLY <3>1, <4>4, <5>2, <5>3
      <4> QED BY ONLY <1>4, <2>3, <3>2, <3>3, <4>2, <4>3, <4>5 DEF Paged
    <3> QED BY <2>4, <3>5, <3>6
  <2> QED BY <2>5, <2>6
<1> QED BY <1>0, <1>3, <1>5 DEF PagesInv

LEMMA PagesInit == Init => PagesInv
<1> SUFFICES ASSUME Init PROVE PagesInv
  OBVIOUS
<1>1. 1 \in Rows
  BY KVAssumption DEF Rows
<1>2. \A r : ~Settled(r)
  BY NoMembers DEF Init, Settled
<1>3. ASSUME NEW p \in Rows, NEW h \in Heads PROVE IsList(pages[p][h])
  <2>1. pages[p][h] = << >>
    BY DEF Init
  <2> QED BY <2>1 DEF IsList
<1>4. row \in [Requests -> {0} \cup Rows] /\ heads \in [Requests -> [Heads -> Nat]] /\ nextRow = 1
  BY DEF Init
<1> QED BY <1>1, <1>2, <1>3, <1>4 DEF PagesInv, PageTypes

(* The cut of a table stays inside it because the heads count its blocks,   *)
(* and the counts are right because the tables are: one induction.          *)
LEMMA PoolAlways == Spec => [](Base /\ PagesInv)
<1>1. Base /\ PagesInv /\ [Next]_vars => Base'
  BY PagesFit, BaseNext
<1>2. Base /\ PagesInv /\ [Next]_vars => PagesInv'
  BY PagesQuiet, PagesPrefill, PagesDecode, PagesStore DEF Next, Quiet
<1> QED BY <1>1, <1>2, BaseInit, PagesInit, PTL DEF Spec

LEMMA BaseAlways == Spec => []Base
<1> QED BY PoolAlways, PTL

LEMMA PagesAlways == Spec => []PagesInv
<1> QED BY PoolAlways, PTL

(* Every block and every query block is free or in the table of one         *)
(* request, once, over admissions, decode steps, the release of finished     *)
(* requests and every compression (Scheduler.postprocess, allocate,         *)
(* update_blocks_post_compression, reset_blocks).                           *)
THEOREM PoolIsPartitioned == Spec => []PoolPartition
<1>1. Base => PoolPartition
  <2> SUFFICES ASSUME Base PROVE PoolPartition
    OBVIOUS
  <2>1. num_tokens \in [Requests -> Nat] /\ waiting \in Seq(Requests) /\ running \in Seq(Requests)
    BY DEF Base, Types
  <2>2. \A r : Members(waiting, r) \/ Members(running, r) => r \in 1 .. added
    <3>1. \A r : Members(waiting, r) \/ Members(running, r) => r \in Requests
      BY <2>1, MembersType
    <3>2. added \in Nat
      BY KVAssumption DEF Base, Types
    <3>3. \A r : Members(waiting, r) \/ Members(running, r) => r <= added
      BY DEF Base, Queues
    <3> QED BY KVAssumption, <3>1, <3>2, <3>3 DEF Requests
  <2>3. Range(waiting) \cup Live \subseteq 1 .. added
    BY <2>2, RangeMembers DEF Live
  <2>4. Pool(Blocks, free, table) /\ Pool(Rows, qfree, QTable)
    BY DEF Base
  <2>5. OnceHeld(Blocks, free, table)
    BY <2>4, OnceHeldApart DEF Pool
  <2>6. OnceHeld(Rows, qfree, QTable)
    BY <2>4, OnceHeldApart DEF Pool
  <2>7. OnceHeld(Rows, qfree, [r \in Requests |-> IF qblock[r] = 0 THEN << >> ELSE <<qblock[r]>>])
    BY ONLY <2>6 DEF QTable
  <2> QED BY ONLY <2>1, <2>3, <2>5, <2>7 DEF PoolPartition
<1> QED BY <1>1, BaseAlways, PTL

-----------------------------------------------------------------------------
(* The query window: what every slot of a running request's query block    *)
(* holds, seen from the slot of its last query backwards.  While a request *)
(* is in the batch of a decode step its slot has moved and is not written  *)
(* yet; after a prefill nothing is known, and nothing is claimed until a   *)
(* query has been stored for each slot.                                    *)
InStep(r) == pc \in {"run", "post"} /\ Members(batch, r)

Slot(x, i) == (x + Window - i) % Window

WindowOf(r, from, less, age) ==
  \A i \in from .. Window - 1 : i <= num_tokens[r] - 1 - plen[r] - less =>
    qcache[qblock[r]][Slot(qindex[r], i)] = <<r, num_tokens[r] - 1 - age - i>>

WindowGood(r) ==
  IF InStep(r) THEN prefill \/ WindowOf(r, IF pc = "run" THEN 1 ELSE 0, 0, 0) ELSE WindowOf(r, 0, 1, 1)

WindowInv ==
  /\ qindex \in [Requests -> 0 .. Window - 1]
  /\ \A q \in Rows : DOMAIN qcache[q] = 0 .. Window - 1
  /\ \A r : Members(running, r) => WindowGood(r)

LEMMA SlotFacts ==
  ASSUME NEW x \in 0 .. Window - 1, NEW i \in 0 .. Window - 1
  PROVE  /\ Slot(x, i) \in 0 .. Window - 1
         /\ Slot(x, i) = IF i <= x THEN x - i ELSE x + Window - i
<1> PICK w \in Nat \ {0} : w = Window
  BY KVAssumption
<1>1. CASE i <= x
  <2>1. x - i \in 0 .. w - 1 /\ x + w - i = (x - i) + w
    BY ONLY <1>1, w = Window, w \in Nat \ {0}, x \in 0 .. Window - 1, i \in 0 .. Window - 1
  <2>2. ((x - i) + w) % w = x - i
    BY ONLY <2>1, w \in Nat \ {0}, Remainder
  <2> QED BY <1>1, <2>1, <2>2 DEF Slot
<1>2. CASE ~(i <= x)
  <2>1. x + w - i \in 0 .. w - 1
    BY ONLY <1>2, w = Window, w \in Nat \ {0}, x \in 0 .. Window - 1, i \in 0 .. Window - 1
  <2>2. (x + w - i) % w = x + w - i
    BY ONLY <2>1, w \in Nat \ {0}, Remainder
  <2> QED BY <1>2, <2>1, <2>2 DEF Slot
<1> QED BY <1>1, <1>2

(* The slot after x: one older, from there, is what x is from here.        *)
LEMMA SlotMoves ==
  ASSUME NEW x \in 0 .. Window - 1, NEW y, y = (x + 1) % Window
  PROVE  y \in 0 .. Window - 1 /\ \A i \in 1 .. Window - 1 : Slot(y, i) = Slot(x, i - 1)
<1> PICK w \in Nat \ {0} : w = Window
  BY KVAssumption
<1>1. y = IF x + 1 = w THEN 0 ELSE x + 1
  <2>1. CASE x + 1 = w
    <3>1. 0 \in 0 .. w - 1 /\ x + 1 = 0 + w
      BY ONLY <2>1, w \in Nat \ {0}
    <3>2. (0 + w) % w = 0
      BY ONLY <3>1, w \in Nat \ {0}, Remainder
    <3> QED BY <2>1, <3>1, <3>2
  <2>2. CASE x + 1 # w
    <3>1. x + 1 \in 0 .. w - 1
      BY ONLY <2>2, w \in Nat \ {0}, w = Window, x \in 0 .. Window - 1
    <3>2. (x + 1) % w = x + 1
      BY ONLY <3>1, w \in Nat \ {0}, Remainder
    <3> QED BY <2>2, <3>2
  <2> QED BY <2>1, <2>2
<1>2. y \in 0 .. Window - 1
  BY ONLY <1>1, w \in Nat \ {0}, w = Window, x \in 0 .. Window - 1
<1>3. ASSUME NEW i \in 1 .. Window - 1 PROVE Slot(y, i) = Slot(x, i - 1)
  <2>1. i \in 0 .. Window - 1 /\ i - 1 \in 0 .. Window - 1
    BY ONLY w \in Nat \ {0}, w = Window, i \in 1 .. Window - 1
  <2>2. Slot(y, i) = IF i <= y THEN y - i ELSE y + Window - i
    BY ONLY <1>2, <2>1, SlotFacts
  <2>3. Slot(x, i - 1) = IF i - 1 <= x THEN x - (i - 1) ELSE x + Window - (i - 1)
    BY ONLY x \in 0 .. Window - 1, <2>1, SlotFacts
  <2> QED BY ONLY <1>1, <2>2, <2>3, w \in Nat \ {0}, w = Window, x \in 0 .. Window - 1, i \in 1 .. Window - 1
<1> QED BY <1>2, <1>3

LEMMA QueryBlocksApart ==
  ASSUME Base, NEW r, Members(running, r)
  PROVE  /\ r \in Requests /\ qblock[r] \in Rows /\ num_tokens[r] \in Nat /\ plen[r] \in Nat
         /\ \A s : Members(running, s) /\ qblock[s] = qblock[r] => s = r
<1>1. running \in Seq(Requests) /\ qblock \in [Requests -> {0} \cup Rows] /\ num_tokens \in [Requests -> Nat]
      /\ plen \in [Requests -> Nat \ {0}]
  <2>1. \A p \in Prompts : p \in [Requests -> Nat \ {0}]
    BY KVAssumption DEF Requests
  <2> QED BY <2>1 DEF Base, Types
<1>2. ASSUME NEW s, Members(running, s) PROVE s \in Requests /\ qblock[s] \in Rows /\ Members(QTable[s], qblock[s])
  <2>1. s \in Requests
    BY <1>1, <1>2, MembersType
  <2>2. qblock[s] # 0
    BY <1>2 DEF Base, Queues
  <2>3. QTable[s] = <<qblock[s]>>
    BY <2>1, <2>2 DEF QTable
  <2> QED BY <1>1, <2>1, <2>2, <2>3 DEF Members
<1>3. ASSUME NEW s, Members(running, s), qblock[s] = qblock[r], s # r PROVE FALSE
  <2>1. s \in Requests /\ r \in Requests /\ Members(QTable[s], qblock[s]) /\ Members(QTable[r], qblock[s])
    BY <1>2, <1>3
  <2>2. Disjoint(QTable[s], QTable[r])
    BY <1>3, <2>1 DEF Base, Pool, Apart
  <2> QED BY <2>1, <2>2 DEF Disjoint
<1> QED BY <1>1, <1>2, <1>3

LEMMA WindowInit == Init => WindowInv
<1> SUFFICES ASSUME Init PROVE WindowInv
  OBVIOUS
<1>1. qindex \in [Requests -> 0 .. Window - 1]
  <2>1. 0 \in 0 .. Window - 1
    BY KVAssumption
  <2> QED BY <2>1 DEF Init
<1>2. \A q \in Rows : DOMAIN qcache[q] = 0 .. Window - 1
  BY DEF Init
<1>3. \A r : ~Members(running, r)
  BY NoMembers DEF Init
<1> QED BY <1>1, <1>2, <1>3 DEF WindowInv

(* The steps that leave a running request and its query block alone.       *)
SameWindow(r) ==
  /\ Members(running, r) /\ ~InStep(r) /\ ~InStep(r)'
  /\ num_tokens'[r] = num_tokens[r] /\ plen'[r] = plen[r] /\ qblock'[r] = qblock[r]
  /\ qindex'[r] = qindex[r] /\ qcache'[qblock[r]] = qcache[qblock[r]]

LEMMA WindowStays ==
  ASSUME WindowInv, NEW r, SameWindow(r)
  PROVE  ~InStep(r)' /\ WindowOf(r, 0, 1, 1)'
<1>1. WindowOf(r, 0, 1, 1)
  BY DEF WindowInv, WindowGood, SameWindow
<1> QED BY <1>1 DEF WindowOf, SameWindow

LEMMA WindowNext == Base /\ Base' /\ WindowInv /\ [Next]_vars => WindowInv'
<1> SUFFICES ASSUME Base, Base', WindowInv, [Next]_vars PROVE WindowInv'
  OBVIOUS
<1>b. Types /\ Queues /\ Batches /\ Base'
  BY DEF Base
<1>w. qindex \in [Requests -> 0 .. Window - 1] /\ \A q \in Rows : DOMAIN qcache[q] = 0 .. Window - 1
  BY DEF WindowInv, WindowGood
<1>q. running \in Seq(Requests) /\ batch \in Seq(Requests) /\ \A x : x \in Range(batch) <=> Members(batch, x)
  BY <1>b, RangeMembers DEF Types
<1>1. ASSUME UNCHANGED <<fixed, running, num_tokens, qblock, qindex, qcache>>,
             pc \notin {"run", "post"}, pc' \notin {"run", "post"}
      PROVE  WindowInv'
  <2>1. ASSUME NEW r, Members(running, r) PROVE SameWindow(r)
    BY <1>1, <2>1 DEF SameWindow, InStep, fixed
  <2>2. \A r : Members(running, r) => ~InStep(r)' /\ WindowOf(r, 0, 1, 1)'
    BY <2>1, WindowStays
  <2>3. running' = running /\ qindex' = qindex /\ qcache' = qcache
    BY <1>1
  <2> QED BY <1>w, <2>2, <2>3 DEF WindowInv, WindowGood
<1>2. CASE Generate
  <2>1. UNCHANGED <<fixed, running, num_tokens, qblock, qindex, qcache>> /\ pc = "idle" /\ pc' = "schedule"
    BY <1>2 DEF Generate, blocks, caches
  <2> QED BY <1>1, <2>1
<1>3. CASE Return
  <2>1. UNCHANGED <<fixed, running, num_tokens, qblock, qindex, qcache>> /\ pc = "schedule" /\ pc' = "idle"
    BY <1>3 DEF Return, caches
  <2> QED BY <1>1, <2>1
<1>4. CASE ScheduleRaises
  <2>1. UNCHANGED <<fixed, running, num_tokens, qblock, qindex, qcache>> /\ pc = "schedule" /\ pc' = "raised"
    BY <1>4 DEF ScheduleRaises, queues, blocks, caches
  <2> QED BY <1>1, <2>1
<1>5. CASE StartCompress
  <2>1. UNCHANGED <<fixed, running, num_tokens, qblock, qindex, qcache>> /\ pc = "compress" /\ pc' = "store"
    BY <1>5 DEF StartCompress, queues, blocks, caches
  <2> QED BY <1>1, <2>1
<1>6. CASE Store
  <2>1. UNCHANGED <<fixed, running, num_tokens, qblock, qindex, qcache>> /\ pc = "store" /\ pc' = "store"
    BY <1>6 DEF Store, queues
  <2> QED BY <1>1, <2>1
<1>7. CASE EndCompress
  <2>1. UNCHANGED <<fixed, running, num_tokens, qblock, qindex, qcache>> /\ pc = "store" /\ pc' = "schedule"
    BY <1>7 DEF EndCompress, queues, blocks, caches
  <2> QED BY <1>1, <2>1
<1>8. CASE SchedulePrefill
  <2>1. pc = "schedule" /\ pc' = "run" /\ prefill' = TRUE /\ qcache' = qcache /\ plen' = plen /\ num_tokens' = num_tokens
    BY <1>8 DEF SchedulePrefill, caches, fixed
  <2> PICK new : new = SubSeq(waiting, 1, Admitted)
    OBVIOUS
  <2>2. batch' = new /\ running' = running \o new
        /\ qblock' = [r \in Requests |-> IF r \in Range(new) THEN qfree[IndexOf(r, new)] ELSE qblock[r]]
        /\ qindex' = [r \in Requests |-> IF r \in Range(new) THEN 1 % Window ELSE qindex[r]]
    BY <1>8 DEF SchedulePrefill
  <2>3. new \in Seq(Requests)
    BY <1>b, <2>2 DEF Base, Types
  <2>4. \A r : Members(running', r) <=> Members(running, r) \/ Members(new, r)
    <3>1. Joined(running', running, new, Requests)
      BY ONLY <1>q, <2>2, <2>3, ConcatFacts
    <3> QED BY <3>1 DEF Joined
  <2>5. qindex' \in [Requests -> 0 .. Window - 1]
    <3>1. 1 % Window \in 0 .. Window - 1
      <4>1. 0 \in 0 .. Window - 1 /\ 0 + 1 = 1
        BY KVAssumption
      <4> PICK x, y : x = 0 /\ y = (x + 1) % Window
        OBVIOUS
      <4>2. y \in 0 .. Window - 1
        BY <4>1, SlotMoves
      <4> QED BY <4>1, <4>2
    <3> QED BY ONLY <1>w, <2>2, <3>1
  <2>6. \A r : r \in Range(new) <=> Members(new, r)
    BY RangeMembers
  <2>7. ASSUME NEW r, Members(running', r), ~InStep(r)' PROVE WindowOf(r, 0, 1, 1)'
    <3>1. ~Members(new, r) /\ Members(running, r) /\ r \in Requests
      BY <1>q, <2>1, <2>2, <2>4, <2>7, MembersType DEF InStep
    <3>2. SameWindow(r)
      BY <2>1, <2>2, <2>6, <2>7, <3>1 DEF SameWindow, InStep
    <3> QED BY <3>2, WindowStays
  <2> QED BY <1>w, <2>1, <2>5, <2>7 DEF WindowInv, WindowGood
<1>9. CASE ScheduleDecode
  <2> PICK new : new = Decoded
    OBVIOUS
  <2>1. /\ pc = "schedule" /\ pc' = "run" /\ batch' = new /\ qcache' = qcache /\ plen' = plen /\ running' = running
        /\ num_tokens' = num_tokens /\ qblock' = qblock
        /\ qindex' = [r \in Requests |-> IF r \in Range(new) THEN NextIndex(r) ELSE qindex[r]]
    BY <1>9 DEF ScheduleDecode, caches, fixed
  <2>2. \A r \in Requests : NextIndex(r) \in 0 .. Window - 1
                            /\ \A i \in 1 .. Window - 1 : Slot(NextIndex(r), i) = Slot(qindex[r], i - 1)
    <3> SUFFICES ASSUME NEW r \in Requests
                 PROVE  NextIndex(r) \in 0 .. Window - 1
                        /\ \A i \in 1 .. Window - 1 : Slot(NextIndex(r), i) = Slot(qindex[r], i - 1)
      OBVIOUS
    <3> PICK x, y : x = qindex[r] /\ y = (x + 1) % Window
      OBVIOUS
    <3>1. x \in 0 .. Window - 1
      BY <1>w
    <3>2. y \in 0 .. Window - 1 /\ \A i \in 1 .. Window - 1 : Slot(y, i) = Slot(x, i - 1)
      BY ONLY <3>1, y = (x + 1) % Window, SlotMoves
    <3> QED BY ONLY <3>2, x = qindex[r], y = (x + 1) % Window DEF NextIndex
  <2>3. qindex' \in [Requests -> 0 .. Window - 1]
    BY ONLY <1>w, <2>1, <2>2
  <2>4. \A r : r \in Range(new) <=> Members(new, r)
    BY RangeMembers
  <2>5. ASSUME NEW r, Members(running, r), ~Members(new, r) PROVE ~InStep(r)' /\ WindowOf(r, 0, 1, 1)'
    <3>1. r \in Requests
      BY <1>q, <2>5, MembersType
    <3>2. SameWindow(r)
      BY <2>1, <2>4, <2>5, <3>1 DEF SameWindow, InStep
    <3> QED BY <3>2, WindowStays
  <2>6. ASSUME NEW r, Members(running, r), Members(new, r) PROVE WindowOf(r, 1, 0, 0)'
    <3>1. r \in Requests /\ num_tokens[r] \in Nat /\ plen[r] \in Nat
      BY <2>6, QueryBlocksApart
    <3>2. WindowOf(r, 0, 1, 1)
      BY <2>1, <2>6 DEF WindowInv, WindowGood, InStep
    <3>3. qindex'[r] = NextIndex(r)
      BY <2>1, <2>4, <2>6, <3>1
    <3> SUFFICES ASSUME NEW i \in 1 .. Window - 1, i <= num_tokens[r] - 1 - plen[r] - 0
                 PROVE  qcache[qblock[r]][Slot(NextIndex(r), i)] = <<r, num_tokens[r] - 1 - 0 - i>>
      BY <2>1, <3>3 DEF WindowOf
    <3>4. i - 1 \in 0 .. Window - 1 /\ i - 1 <= num_tokens[r] - 1 - plen[r] - 1
          /\ num_tokens[r] - 1 - 1 - (i - 1) = num_tokens[r] - 1 - 0 - i
      <4>1. Window \in Nat
        BY KVAssumption
      <4> QED BY ONLY <3>1, <4>1, i \in 1 .. Window - 1, i <= num_tokens[r] - 1 - plen[r] - 0
    <3>5. qcache[qblock[r]][Slot(qindex[r], i - 1)] = <<r, num_tokens[r] - 1 - 1 - (i - 1)>>
      BY ONLY <3>2, <3>4 DEF WindowOf
    <3>6. Slot(NextIndex(r), i) = Slot(qindex[r], i - 1)
      BY ONLY <2>2, <3>1, i \in 1 .. Window - 1
    <3> QED BY ONLY <3>4, <3>5, <3>6
  <2>7. ASSUME NEW r, Members(running', r)
        PROVE  WindowGood(r)'
    <3>1. CASE Members(new, r)
      <4>1. WindowOf(r, 1, 0, 0)'
        BY <2>1, <2>6, <2>7, <3>1
      <4>2. InStep(r)' /\ pc' = "run"
        BY <2>1, <3>1 DEF InStep
      <4> QED BY ONLY <4>1, <4>2 DEF WindowGood
    <3>2. CASE ~Members(new, r)
      <4>1. ~InStep(r)' /\ WindowOf(r, 0, 1, 1)'
        BY <2>1, <2>5, <2>7, <3>2
      <4> QED BY ONLY <4>1 DEF WindowGood
    <3> QED BY <3>1, <3>2
  <2> QED BY <1>w, <2>1, <2>3, <2>7 DEF WindowInv
<1>10. CASE RunPrefill
  <2>1. /\ pc = "run" /\ pc' = "post" /\ prefill = TRUE
        /\ UNCHANGED <<plen, running, num_tokens, batch, prefill, qblock, qindex>>
    BY <1>10 DEF RunPrefill, fixed, queues, blocks
  <2>2. qcache' = [q \in Rows |->
                    LET own == {r \in Range(batch) : qblock[r] = q}
                    IN IF own = {} THEN qcache[q] ELSE PrefillQueries(CHOOSE r \in own : TRUE)]
    BY <1>10 DEF RunPrefill
  <2>3. \A q \in Rows : DOMAIN qcache'[q] = 0 .. Window - 1
    <3>1. \A r : DOMAIN PrefillQueries(r) = 0 .. Window - 1
      BY DEF PrefillQueries
    <3> QED BY ONLY <1>w, <2>2, <3>1
  <2>4. ASSUME NEW r, Members(running, r) PROVE WindowGood(r)'
    <3>1. CASE Members(batch, r)
      BY <2>1, <3>1 DEF WindowGood, InStep
    <3>2. CASE ~Members(batch, r)
      <4>1. qblock[r] \in Rows /\ \A s : Members(running, s) /\ qblock[s] = qblock[r] => s = r
        BY <2>4, QueryBlocksApart
      <4>2. \A s : Members(batch, s) => Members(running, s)
        BY <1>b, <2>1 DEF Batches
      <4>3. {s \in Range(batch) : qblock[s] = qblock[r]} = {}
        BY <1>q, <3>2, <4>1, <4>2
      <4>4. qcache'[qblock[r]] = qcache[qblock[r]]
        BY <2>2, <4>1, <4>3
      <4>5. SameWindow(r)
        BY <2>1, <2>4, <3>2, <4>4 DEF SameWindow, InStep
      <4>6. ~InStep(r)' /\ WindowOf(r, 0, 1, 1)'
        BY <4>5, WindowStays
      <4> QED BY ONLY <4>6 DEF WindowGood
    <3> QED BY <3>1, <3>2
  <2> QED BY <1>w, <2>1, <2>3, <2>4 DEF WindowInv
<1>11. CASE RunDecode
  <2>1. /\ pc = "run" /\ pc' = "post" /\ prefill = FALSE
        /\ UNCHANGED <<plen, running, num_tokens, batch, prefill, qblock, qindex>>
    BY <1>b, <1>11 DEF RunDecode, fixed, queues, blocks, Types
  <2>2. qcache' = [q \in Rows |-> [i \in 0 .. Window - 1 |->
                        IF \E r \in Range(batch) : qblock[r] = q /\ qindex[r] = i
                        THEN LET r == CHOOSE r \in Range(batch) : qblock[r] = q IN <<r, num_tokens[r] - 1>>
                        ELSE qcache[q][i]]]
    BY <1>11 DEF RunDecode
  <2>3. \A q \in Rows : DOMAIN qcache'[q] = 0 .. Window - 1
    BY ONLY <2>2
  <2>4. \A s : Members(batch, s) => Members(running, s)
    BY <1>b, <2>1 DEF Batches
  <2>5. ASSUME NEW r, Members(running, r) PROVE WindowGood(r)'
    <3>1. qblock[r] \in Rows /\ (\A s : Members(running, s) /\ qblock[s] = qblock[r] => s = r)
          /\ r \in Requests /\ num_tokens[r] \in Nat /\ plen[r] \in Nat
      BY <2>5, QueryBlocksApart
    <3>2. \A s \in Range(batch) : qblock[s] = qblock[r] => s = r
      BY <1>q, <2>4, <3>1
    <3>3. CASE Members(batch, r)
      <4>1. WindowOf(r, 1, 0, 0)
        BY <2>1, <2>5, <3>3 DEF WindowInv, WindowGood, InStep
      <4>2. qindex[r] \in 0 .. Window - 1 /\ r \in Range(batch)
        BY <1>q, <1>w, <3>1, <3>3
      <4>3. (CHOOSE s \in Range(batch) : qblock[s] = qblock[r]) = r
        BY <3>2, <4>2
      <4>4. \A i \in 0 .. Window - 1 : qcache'[qblock[r]][i] =
               IF qindex[r] = i THEN <<r, num_tokens[r] - 1>> ELSE qcache[qblock[r]][i]
        BY ONLY <2>2, <3>1, <3>2, <4>2, <4>3
      <4>5. ASSUME NEW i \in 0 .. Window - 1, i <= num_tokens[r] - 1 - plen[r] - 0
            PROVE  qcache'[qblock[r]][Slot(qindex[r], i)] = <<r, num_tokens[r] - 1 - 0 - i>>
        <5> PICK x, j : x = qindex[r] /\ j = Slot(x, i)
          OBVIOUS
        <5>1. j \in 0 .. Window - 1 /\ j = IF i <= x THEN x - i ELSE x + Window - i
          BY ONLY <4>2, x = qindex[r], j = Slot(x, i), i \in 0 .. Window - 1, SlotFacts
        <5>w. Window \in Nat
          BY KVAssumption
        <5>2. CASE i = 0
          <6>1. j = x
            BY ONLY <4>2, <5>1, <5>2, x = qindex[r], <5>w
          <6> QED BY ONLY <3>1, <4>4, <5>1, <5>2, <6>1, x = qindex[r], j = Slot(x, i)
        <5>3. CASE i # 0
          <6>1. j # x /\ i \in 1 .. Window - 1
            BY ONLY <4>2, <5>1, <5>3, x = qindex[r], <5>w, i \in 0 .. Window - 1
          <6>2. qcache'[qblock[r]][j] = qcache[qblock[r]][j]
            BY ONLY <4>4, <5>1, <6>1, x = qindex[r]
          <6>3. qcache[qblock[r]][Slot(qindex[r], i)] = <<r, num_tokens[r] - 1 - 0 - i>>
            BY ONLY <4>1, <4>5, <6>1 DEF WindowOf
          <6> QED BY ONLY <6>2, <6>3, x = qindex[r], j = Slot(x, i)
        <5> QED BY <5>2, <5>3
      <4>6. WindowOf(r, 0, 0, 0)'
        <5>1. num_tokens' = num_tokens /\ plen' = plen /\ qblock' = qblock /\ qindex' = qindex
          BY <2>1
        <5> QED BY ONLY <4>5, <5>1 DEF WindowOf
      <4>7. InStep(r)' /\ pc' # "run"
        BY <2>1, <3>3 DEF InStep
      <4> QED BY ONLY <4>6, <4>7 DEF WindowGood
    <3>4. CASE ~Members(batch, r)
      <4>1. \A s \in Range(batch) : qblock[s] # qblock[r]
        BY <1>q, <3>2, <3>4
      <4>2. DOMAIN qcache[qblock[r]] = 0 .. Window - 1
        BY <1>w, <3>1
      <4>3. qcache'[qblock[r]] = [i \in 0 .. Window - 1 |-> qcache[qblock[r]][i]]
        BY ONLY <2>2, <3>1, <4>1
      <4>4. \A i \in 0 .. Window - 1 : qcache'[qblock[r]][i] = qcache[qblock[r]][i]
        BY ONLY <4>3
      <4>5. WindowOf(r, 0, 1, 1)
        BY <2>1, <2>5, <3>4 DEF WindowInv, WindowGood, InStep
      <4>6. WindowOf(r, 0, 1, 1)'
        <5>1. num_tokens' = num_tokens /\ plen' = plen /\ qblock' = qblock /\ qindex' = qindex
          BY <2>1
        <5>2. \A i \in 0 .. Window - 1 : Slot(qindex[r], i) \in 0 .. Window - 1
          <6>1. qindex[r] \in 0 .. Window - 1
            BY ONLY <1>w, <3>1
          <6> QED BY ONLY <6>1, SlotFacts
        <5>3. \A i \in 0 .. Window - 1 : qcache'[qblock[r]][Slot(qindex[r], i)] = qcache[qblock[r]][Slot(qindex[r], i)]
          BY ONLY <4>4, <5>2
        <5> QED BY ONLY <4>5, <5>1, <5>3 DEF WindowOf
      <4>7. ~InStep(r)'
        BY <2>1, <3>4 DEF InStep
      <4> QED BY ONLY <4>6, <4>7 DEF WindowGood
    <3> QED BY <3>3, <3>4
  <2> QED BY <1>w, <2>1, <2>3, <2>5 DEF WindowInv
<1>12. CASE Postprocess
  <2>1. /\ pc = "post" /\ pc' \in {"compress", "schedule"} /\ plen' = plen /\ qindex' = qindex /\ qcache' = qcache
        /\ num_tokens' = [r \in Requests |-> num_tokens[r] + IF r \in Range(batch) THEN 1 ELSE 0]
    BY <1>12 DEF Postprocess, fixed, caches
  <2> PICK done : /\ qblock' = [r \in Requests |-> IF r \in done THEN 0 ELSE qblock[r]]
                  /\ running' = Filter(running, Requests \ done)
    BY <1>12 DEF Postprocess
  <2>2. \A r : Members(running', r) => Members(running, r) /\ r \notin done
    <3> PICK q : q = Filter(running, Requests \ done)
      OBVIOUS
    <3>1. Filtered(q, running, Requests \ done, Requests)
      BY ONLY <1>q, q = Filter(running, Requests \ done), FilterFacts
    <3> QED BY <3>1 DEF Filtered
  <2>3. ASSUME NEW r, Members(running', r) PROVE WindowGood(r)'
    <3>1. Members(running, r) /\ r \notin done /\ r \in Requests /\ num_tokens[r] \in Nat /\ plen[r] \in Nat
      BY <2>2, <2>3, QueryBlocksApart
    <3>2. qblock'[r] = qblock[r] /\ ~InStep(r)'
      BY <2>1, <3>1 DEF InStep
    <3>3. CASE ~Members(batch, r)
      <4>1. num_tokens'[r] = num_tokens[r]
        BY <1>q, <2>1, <3>1, <3>3
      <4>2. WindowOf(r, 0, 1, 1)
        BY <3>1, <3>3 DEF WindowInv, WindowGood, InStep
      <4>3. WindowOf(r, 0, 1, 1)'
        BY ONLY <2>1, <3>2, <4>1, <4>2 DEF WindowOf
      <4> QED BY ONLY <3>2, <4>3 DEF WindowGood
    <3>4. CASE Members(batch, r)
      <4>1. num_tokens'[r] = num_tokens[r] + 1
        BY <1>q, <2>1, <3>1, <3>4
      <4>2. prefill \/ WindowOf(r, 0, 0, 0)
        BY <2>1, <3>1, <3>4 DEF WindowInv, WindowGood, InStep
      <4>3. CASE prefill
        <5>1. num_tokens[r] = plen[r]
          BY <1>b, <2>1, <3>4, <4>3 DEF Batches
        <5>2. \A i \in 0 .. Window - 1 : ~(i <= num_tokens'[r] - 1 - plen[r] - 1)
          <6>1. Window \in Nat
            BY KVAssumption
          <6> QED BY ONLY <3>1, <4>1, <5>1, <6>1
        <5>3. WindowOf(r, 0, 1, 1)'
          BY ONLY <2>1, <5>2 DEF WindowOf
        <5> QED BY ONLY <3>2, <5>3 DEF WindowGood
      <4>4. CASE WindowOf(r, 0, 0, 0)
        <5>1. \A i \in 0 .. Window - 1 : /\ num_tokens'[r] - 1 - plen[r] - 1 = num_tokens[r] - 1 - plen[r] - 0
                                        /\ num_tokens'[r] - 1 - 1 - i = num_tokens[r] - 1 - 0 - i
          BY ONLY <3>1, <4>1
        <5>2. WindowOf(r, 0, 1, 1)'
          BY ONLY <2>1, <3>2, <4>4, <5>1 DEF WindowOf
        <5> QED BY ONLY <3>2, <5>2 DEF WindowGood
      <4> QED BY <4>2, <4>3, <4>4
    <3> QED BY <3>3, <3>4
  <2> QED BY <1>w, <2>1, <2>3 DEF WindowInv
<1>13. CASE UNCHANGED vars
  <2>1. UNCHANGED <<plen, pc, running, num_tokens, batch, prefill, qblock, qindex, qcache>>
    BY <1>13 DEF vars, fixed, queues, blocks, caches
  <2>2. \A r : WindowGood(r)' <=> WindowGood(r)
    BY <2>1 DEF WindowGood, WindowOf, InStep
  <2> QED BY <2>1, <2>2 DEF WindowInv
<1> QED BY <1>2, <1>3, <1>4, <1>5, <1>6, <1>7, <1>8, <1>9, <1>10, <1>11, <1>12, <1>13 DEF Next

LEMMA WindowAlways == Spec => []WindowInv
<1>1. Init => WindowInv
  BY WindowInit
<1>2. Base /\ Base' /\ WindowInv /\ [Next]_vars => WindowInv'
  BY WindowNext
<1> QED BY <1>1, <1>2, BaseAlways, PTL DEF Spec

(* The query block of a request that has decoded a whole window holds the   *)
(* queries of exactly that window, for every window size and every order in *)
(* which query blocks pass from one request to the next (may_append_query,  *)
(* store_q_cache).                                                          *)
THEOREM WindowsAreExact == Spec => []QueryWindow
<1>1. ASSUME Base, WindowInv PROVE QueryWindow
  <2> SUFFICES ASSUME pc = "schedule", NEW r \in Live, num_tokens[r] - 1 - plen[r] >= Window
               PROVE  Range(qcache[qblock[r]]) = {<<r, num_tokens[r] - 1 - i>> : i \in 1 .. Window}
    BY DEF QueryWindow
  <2> PICK f, x, m : f = qcache[qblock[r]] /\ x = qindex[r] /\ m = num_tokens[r]
    OBVIOUS
  <2>1. Members(running, r)
    BY RangeMembers DEF Live
  <2>2. r \in Requests /\ qblock[r] \in Rows /\ m \in Nat /\ plen[r] \in Nat
    BY <1>1, <2>1, QueryBlocksApart
  <2>3. WindowOf(r, 0, 1, 1)
    BY <1>1, <2>1 DEF WindowInv, WindowGood, InStep
  <2>4. x \in 0 .. Window - 1 /\ DOMAIN f = 0 .. Window - 1
    BY <1>1, <2>2 DEF WindowInv
  <2>5. Window \in Nat
    BY KVAssumption
  <2>6. \A i \in 0 .. Window - 1 : f[Slot(x, i)] = <<r, m - 1 - 1 - i>>
    <3>1. \A i \in 0 .. Window - 1 : i <= num_tokens[r] - 1 - plen[r] - 1
      BY ONLY <2>2, <2>5, m = num_tokens[r], num_tokens[r] - 1 - plen[r] >= Window
    <3> QED BY ONLY <2>3, <3>1, f = qcache[qblock[r]], x = qindex[r], m = num_tokens[r] DEF WindowOf
  <2>7. \A j \in 0 .. Window - 1 : Slot(x, j) \in 0 .. Window - 1 /\ Slot(x, Slot(x, j)) = j
    <3> SUFFICES ASSUME NEW j \in 0 .. Window - 1 PROVE Slot(x, j) \in 0 .. Window - 1 /\ Slot(x, Slot(x, j)) = j
      OBVIOUS
    <3> PICK k : k = Slot(x, j)
      OBVIOUS
    <3>1. k \in 0 .. Window - 1 /\ k = IF j <= x THEN x - j ELSE x + Window - j
      BY ONLY <2>4, k = Slot(x, j), j \in 0 .. Window - 1, SlotFacts
    <3>2. Slot(x, k) = IF k <= x THEN x - k ELSE x + Window - k
      BY ONLY <2>4, <3>1, SlotFacts
    <3>3. Slot(x, k) = j
      BY ONLY <2>4, <2>5, <3>1, <3>2, j \in 0 .. Window - 1
    <3> QED BY <3>1, <3>3
  <2>8. \A j \in 0 .. Window - 1 : f[j] = <<r, m - 1 - (Slot(x, j) + 1)>> /\ Slot(x, j) + 1 \in 1 .. Window
    <3> SUFFICES ASSUME NEW j \in 0 .. Window - 1
                 PROVE f[j] = <<r, m - 1 - (Slot(x, j) + 1)>> /\ Slot(x, j) + 1 \in 1 .. Window
      OBVIOUS
    <3> PICK k : k = Slot(x, j)
      OBVIOUS
    <3>1. k \in 0 .. Window - 1 /\ f[j] = <<r, m - 1 - 1 - k>>
      BY ONLY <2>6, <2>7, k = Slot(x, j), j \in 0 .. Window - 1
    <3>2. m - 1 - 1 - k = m - 1 - (k + 1) /\ k + 1 \in 1 .. Window
      BY ONLY <2>2, <2>5, <3>1
    <3> QED BY ONLY <3>1, <3>2, k = Slot(x, j)
  <2>9. ASSUME NEW i \in 1 .. Window PROVE \E j \in 0 .. Window - 1 : f[j] = <<r, m - 1 - i>>
    <3> PICK k, j : k = i - 1 /\ j = Slot(x, k)
      OBVIOUS
    <3>1. k \in 0 .. Window - 1 /\ m - 1 - 1 - k = m - 1 - i
      BY ONLY <2>2, <2>5, k = i - 1, i \in 1 .. Window
    <3>2. j \in 0 .. Window - 1 /\ f[j] = <<r, m - 1 - 1 - k>>
      BY ONLY <2>6, <2>7, <3>1, j = Slot(x, k)
    <3> QED BY ONLY <3>1, <3>2
  <2>10. Range(f) = {f[j] : j \in 0 .. Window - 1}
    BY ONLY <2>4 DEF Range
  <2>11. Range(f) = {<<r, m - 1 - i>> : i \in 1 .. Window}
    BY ONLY <2>8, <2>9, <2>10
  <2> QED BY ONLY <2>11, f = qcache[qblock[r]], m = num_tokens[r]
<1> QED BY <1>1, BaseAlways, WindowAlways, PTL

-----------------------------------------------------------------------------
(* As long as no row was given to a second request, the pages the attention *)
(* of a head reads are the blocks of the request, in the order of its       *)
(* table: the rows that compress leaves as they are begin with the blocks   *)
(* it keeps, and a decode step writes the next block behind them            *)
(* (allocate_page_indices, update_indices, update_blocks_post_compression). *)
THEOREM PagesAreTheTable == Spec => []PagesFollowTable
<1>1. ASSUME Base, PagesInv PROVE PagesFollowTable
  <2> SUFFICES ASSUME recipe = "headwise", pc = "schedule", ~collided, NEW r \in Live, NEW h \in Heads
               PROVE  SubSeq(pages[row[r]][h], 1, heads[r][h]) = table[r]
    BY DEF PagesFollowTable
  <2> PICK q, s, a, n : q = table[r] /\ s = pages[row[r]][h] /\ n = Len(q) /\ a = SubSeq(s, 1, n)
    OBVIOUS
  <2>1. Members(running, r) /\ r \in Requests
    <3>1. Members(running, r)
      BY RangeMembers DEF Live
    <3> QED BY <1>1, <3>1, MembersType DEF Base, Types
  <2>2. Settled(r) /\ Body(r) = q
    BY <2>1 DEF Settled, Body, Fresh
  <2>3. Counted(r) /\ Paged(r)
    BY <1>1, <2>2 DEF PagesInv
  <2>4. q \in Seq(Blocks) /\ n \in Nat
    <3>1. q \in Seq(Blocks)
      BY <1>1, <2>1 DEF Base, Pool
    <3> QED BY <3>1
  <2>5. heads[r][h] = n /\ \A i \in 1 .. n : s[i] = q[i]
    BY ONLY <2>2, <2>3, h \in Heads, s = pages[row[r]][h], n = Len(q) DEF Counted, Paged
  <2>6. a \in Seq(Blocks) /\ Len(a) = n /\ \A i \in 1 .. n : a[i] = s[i]
    <3>1. \A i \in 1 .. n : s[i] \in Blocks
      BY ONLY <2>4, <2>5, n = Len(q)
    <3>2. 1 \in Int /\ n \in Int
      BY <2>4
    <3>3. a \in Seq(Blocks) /\ Len(a) = (IF 1 <= n THEN n - 1 + 1 ELSE 0) /\ \A i \in 1 .. n - 1 + 1 : a[i] = s[1 + i - 1]
      BY ONLY <3>1, <3>2, a = SubSeq(s, 1, n), SubSeqProperties
    <3>4. (IF 1 <= n THEN n - 1 + 1 ELSE 0) = n /\ n - 1 + 1 = n /\ \A i \in 1 .. n : 1 + i - 1 = i
      BY ONLY <2>4
    <3> QED BY ONLY <3>3, <3>4
  <2>7. a = q
    <3>1. Len(a) = Len(q) /\ \A i \in 1 .. Len(a) : a[i] = q[i]
      BY ONLY <2>5, <2>6, n = Len(q)
    <3> QED BY ONLY <2>4, <2>6, <3>1, SeqEqual
  <2> QED BY ONLY <2>5, <2>7, q = table[r], s = pages[row[r]][h], n = Len(q), a = SubSeq(s, 1, n)
<1> QED BY <1>1, BaseAlways, PagesAlways, PTL

-----------------------------------------------------------------------------
(* What a list comprehension keeps when an element is appended, and of a    *)
(* list whose elements that are wanted come first.                         *)
LEMMA FilterAppend ==
  ASSUME NEW X, NEW s \in Seq(X), NEW e \in X, NEW S, e \in S, NEW q, q = Append(s, e)
  PROVE  Filter(q, S) = Append(Filter(s, S), e)
<1> PICK m \in Nat : m = Len(s)
  OBVIOUS
<1>0. q \in Seq(X) /\ Len(q) = m + 1 /\ (\A k \in 1 .. m : q[k] = s[k]) /\ q[m + 1] = e
  BY ONLY s \in Seq(X), e \in X, m \in Nat, m = Len(s), q = Append(s, e)
<1> PICK t : Filtering(t, s, S, X)
  BY ONLY s \in Seq(X), FilterLoop
<1>t. /\ t[0] = << >> /\ t[m] = Filter(s, S)
      /\ \A k \in 1 .. m : t[k] = IF s[k] \in S THEN Append(t[k - 1], s[k]) ELSE t[k - 1]
  BY ONLY Filtering(t, s, S, X), m = Len(s) DEF Filtering
<1> PICK u : Filtering(u, q, S, X)
  BY ONLY <1>0, FilterLoop
<1>u. /\ u[0] = << >> /\ u[m + 1] = Filter(q, S)
      /\ \A k \in 1 .. m + 1 : u[k] = IF q[k] \in S THEN Append(u[k - 1], q[k]) ELSE u[k - 1]
  <2>1. Len(q) = m + 1
    BY <1>0
  <2> QED BY ONLY Filtering(u, q, S, X), <2>1 DEF Filtering
<1> PICK G : G = {k \in 0 .. m : u[k] = t[k]}
  OBVIOUS
<1>1. 0 \in G
  BY ONLY <1>t, <1>u, m \in Nat, G = {k \in 0 .. m : u[k] = t[k]}
<1>2. ASSUME NEW k \in 1 .. m, k - 1 \in G PROVE k \in G
  <2>1. k \in 1 .. m + 1 /\ k \in 0 .. m
    BY ONLY k \in 1 .. m, m \in Nat
  <2>2. u[k - 1] = t[k - 1]
    BY ONLY <1>2, G = {j \in 0 .. m : u[j] = t[j]}
  <2>3. q[k] = s[k]
    BY <1>0
  <2>4. u[k] = t[k]
    BY ONLY <1>t, <1>u, <2>1, <2>2, <2>3, k \in 1 .. m
  <2> QED BY ONLY <2>1, <2>4, G = {j \in 0 .. m : u[j] = t[j]}
<1>3. u[m] = t[m]
  <2>1. \A k \in 0 .. m : k \in G
    BY ONLY <1>1, <1>2, m \in Nat, Upward
  <2>2. m \in 0 .. m
    BY ONLY m \in Nat
  <2> QED BY ONLY <2>1, <2>2, G = {j \in 0 .. m : u[j] = t[j]}
<1>4. u[m + 1] = Append(u[m], e)
  <2>1. m + 1 \in 1 .. m + 1 /\ (m + 1) - 1 = m
    BY ONLY m \in Nat
  <2> QED BY ONLY <1>0, <1>u, <2>1, e \in S
<1> QED BY ONLY <1>3, <1>4, <1>t, <1>u

LEMMA FilterPad ==
  ASSUME NEW X, NEW s \in Seq(X), NEW S, NEW p \in Seq(X), Len(p) <= Len(s),
         \A k \in 1 .. Len(p) : s[k] = p[k] /\ s[k] \in S,
         \A k \in Len(p) + 1 .. Len(s) : s[k] \notin S
  PROVE  Filter(s, S) = p
<1> PICK m \in Nat, n \in Nat : m = Len(p) /\ n = Len(s)
  OBVIOUS
<1>0. /\ m <= n /\ (\A k \in 1 .. m : s[k] = p[k] /\ s[k] \in S) /\ \A k \in m + 1 .. n : s[k] \notin S
  OBVIOUS
<1> PICK t : Filtering(t, s, S, X)
  BY ONLY s \in Seq(X), FilterLoop
<1>t. /\ t \in [0 .. n -> Seq(X)] /\ t[0] = << >> /\ t[n] = Filter(s, S)
      /\ \A k \in 1 .. n : t[k] = IF s[k] \in S THEN Append(t[k - 1], s[k]) ELSE t[k - 1]
  BY ONLY Filtering(t, s, S, X), n = Len(s) DEF Filtering
<1> DEFINE Upto(a, k) == Len(a) = k /\ \A i \in 1 .. k : a[i] = p[i]
<1>1. \A k \in 0 .. m : Upto(t[k], k)
  <2> PICK G : G = {k \in 0 .. m : Upto(t[k], k)}
    OBVIOUS
  <2>1. 0 \in G
    <3>1. Upto(<< >>, 0)
      OBVIOUS
    <3> HIDE DEF Upto
    <3> QED BY ONLY <1>t, <3>1, m \in Nat, G = {k \in 0 .. m : Upto(t[k], k)}
  <2>2. ASSUME NEW k \in 1 .. m, k - 1 \in G PROVE k \in G
    <3> PICK a, b : a = t[k - 1] /\ b = t[k]
      OBVIOUS
    <3>1. k \in 0 .. m /\ k \in 1 .. n /\ k - 1 \in 0 .. n /\ k \in Nat
      BY ONLY <1>0, m \in Nat, n \in Nat, k \in 1 .. m
    <3>2. Upto(a, k - 1)
      BY ONLY <2>2, G = {j \in 0 .. m : Upto(t[j], j)}, a = t[k - 1]
    <3>3. b = Append(a, p[k])
      BY ONLY <1>0, <1>t, <3>1, k \in 1 .. m, a = t[k - 1], b = t[k]
    <3>4. a \in Seq(X) /\ p[k] \in X
      <4>1. p[k] \in X
        BY ONLY p \in Seq(X), m = Len(p), k \in 1 .. m
      <4> QED BY ONLY <1>t, <3>1, <4>1, a = t[k - 1]
    <3>5. Len(b) = k /\ (\A i \in 1 .. k - 1 : b[i] = a[i]) /\ b[k] = p[k]
      <4> PICK y : y = p[k]
        OBVIOUS
      <4>1. Len(b) = k /\ (\A i \in 1 .. k - 1 : b[i] = a[i]) /\ b[k] = y
        BY ONLY <3>1, <3>2, <3>3, <3>4, y = p[k]
      <4> QED BY ONLY <4>1, y = p[k]
    <3>6. Upto(b, k)
      <4>1. \A i \in 1 .. k : i = k \/ i \in 1 .. k - 1
        BY ONLY <3>1
      <4> QED BY ONLY <3>2, <3>5, <4>1
    <3> HIDE DEF Upto
    <3> QED BY ONLY <3>1, <3>6, b = t[k], G = {j \in 0 .. m : Upto(t[j], j)}
  <2>3. \A k \in 0 .. m : k \in G
    BY ONLY <2>1, <2>2, m \in Nat, Upward
  <2> HIDE DEF Upto
  <2> QED BY ONLY <2>3, G = {k \in 0 .. m : Upto(t[k], k)}
<1>2. \A k \in 0 .. n - m : t[m + k] = t[m]
  <2> PICK G : G = {k \in 0 .. n - m : t[m + k] = t[m]}
    OBVIOUS
  <2>1. 0 \in G
    BY ONLY <1>0, m \in Nat, n \in Nat, G = {k \in 0 .. n - m : t[m + k] = t[m]}
  <2>2. ASSUME NEW k \in 1 .. n - m, k - 1 \in G PROVE k \in G
    <3>1. k \in 0 .. n - m /\ m + k \in 1 .. n /\ m + k \in m + 1 .. n /\ (m + k) - 1 = m + (k - 1)
      BY ONLY <1>0, m \in Nat, n \in Nat, k \in 1 .. n - m
    <3>2. t[m + (k - 1)] = t[m]
      BY ONLY <2>2, G = {j \in 0 .. n - m : t[m + j] = t[m]}
    <3>3. t[m + k] = t[(m + k) - 1]
      BY ONLY <1>0, <1>t, <3>1
    <3> QED BY ONLY <3>1, <3>2, <3>3, G = {j \in 0 .. n - m : t[m + j] = t[m]}
  <2>3. n - m \in Nat
    BY ONLY <1>0, m \in Nat, n \in Nat
  <2>4. \A k \in 0 .. n - m : k \in G
    BY ONLY <2>1, <2>2, <2>3, Upward
  <2> QED BY ONLY <2>4, G = {k \in 0 .. n - m : t[m + k] = t[m]}
<1>3. t[n] = t[m]
  <2> PICK d : d = n - m
    OBVIOUS
  <2>1. d \in 0 .. d /\ m + d = n
    BY ONLY <1>0, m \in Nat, n \in Nat, d = n - m
  <2>2. \A k \in 0 .. d : t[m + k] = t[m]
    BY ONLY <1>2, d = n - m
  <2>3. t[m + d] = t[m]
    BY ONLY <2>1, <2>2
  <2> QED BY ONLY <2>1, <2>3
<1>4. Filter(s, S) \in Seq(X) /\ Upto(Filter(s, S), m)
  <2>1. m \in 0 .. m /\ m \in 0 .. n
    BY ONLY <1>0, m \in Nat, n \in Nat
  <2> PICK f : f = Filter(s, S)
    OBVIOUS
  <2>2. f = t[m]
    BY ONLY <1>3, <1>t, f = Filter(s, S)
  <2>3. f \in Seq(X)
    BY ONLY <1>t, <2>1, <2>2
  <2>4. Upto(f, m)
    BY ONLY <1>1, <2>1, <2>2
  <2> QED BY ONLY <2>3, <2>4, f = Filter(s, S)
<1>5. \A i \in 1 .. Len(p) : Filter(s, S)[i] = p[i]
  BY ONLY <1>4, m = Len(p)
<1> QED BY ONLY <1>4, <1>5, p \in Seq(X), m = Len(p), SeqEqual

(* What a compression keeps are entries that were there, each from a place  *)
(* of its own.                                                             *)
Chosen(p, e, X) ==
  /\ p \in Seq(X) /\ (Distinct(e) => Distinct(p))
  /\ \A i \in DOMAIN p : \E j \in DOMAIN e : p[i] = e[j]

LEMMA ChosenBy ==
  ASSUME NEW X, NEW e, NEW p \in Seq(X), NEW n \in Nat, Len(p) = n,
         NEW g \in [1 .. n -> DOMAIN e], \A i \in 1 .. n : p[i] = e[g[i]],
         \A i, j \in 1 .. n : g[i] = g[j] => i = j
  PROVE  Chosen(p, e, X)
<1>1. DOMAIN p = 1 .. n
  BY ONLY p \in Seq(X), Len(p) = n
<1>2. ASSUME Distinct(e), NEW i \in 1 .. n, NEW j \in 1 .. n, p[i] = p[j] PROVE i = j
  <2>1. g[i] \in DOMAIN e /\ g[j] \in DOMAIN e /\ e[g[i]] = e[g[j]]
    BY <1>2
  <2>2. g[i] = g[j]
    BY ONLY <1>2, <2>1, SamePlace
  <2> QED BY <2>2
<1>3. \A i \in 1 .. n : \E j \in DOMAIN e : p[i] = e[j]
  OBVIOUS
<1>4. Distinct(e) => Distinct(p)
  BY ONLY <1>1, <1>2 DEF Distinct
<1> QED BY ONLY <1>1, <1>3, <1>4, p \in Seq(X) DEF Chosen

IsPick(p, e, n, a, b, f) ==
  /\ f \in [1 .. n -> a .. b] /\ (\A i, j \in 1 .. n : f[i] = f[j] => i = j)
  /\ p = [i \in 1 .. n |-> e[f[i]]]

LEMMA PicksFacts ==
  ASSUME NEW e, NEW n \in Nat, NEW a \in Int, NEW b \in Int, NEW p \in Picks(e, n, a, b)
  PROVE  \E f : IsPick(p, e, n, a, b, f)
<1> PICK f \in [1 .. n -> a .. b] : /\ \A i, j \in 1 .. n : i < j => f[i] < f[j]
                                    /\ p = [i \in 1 .. n |-> e[f[i]]]
  BY ONLY p \in Picks(e, n, a, b) DEF Picks
<1>1. ASSUME NEW i \in 1 .. n, NEW j \in 1 .. n, f[i] = f[j] PROVE i = j
  <2>1. f[i] \in Int /\ f[j] \in Int /\ i \in Int /\ j \in Int
    OBVIOUS
  <2>2. ~(f[i] < f[j]) /\ ~(f[j] < f[i])
    BY ONLY <1>1, <2>1
  <2>3. ~(i < j) /\ ~(j < i)
    BY <2>2
  <2> QED BY ONLY <2>1, <2>3
<1> QED BY ONLY <1>1, p = [i \in 1 .. n |-> e[f[i]]], f \in [1 .. n -> a .. b] DEF IsPick

LEMMA PickType ==
  ASSUME NEW X, NEW e \in Seq(X), NEW n \in Nat, NEW a \in Nat \ {0}, NEW b \in Int, b <= Len(e),
         NEW p, NEW f, IsPick(p, e, n, a, b, f)
  PROVE  p \in Seq(X) /\ Len(p) = n
<1>1. ASSUME NEW i \in 1 .. n PROVE e[f[i]] \in X
  <2>1. f[i] \in a .. b
    BY DEF IsPick
  <2>2. f[i] \in 1 .. Len(e)
    BY ONLY <2>1, a \in Nat \ {0}, b \in Int, b <= Len(e), e \in Seq(X)
  <2> QED BY ONLY <2>2, e \in Seq(X)
<1>2. p = [i \in 1 .. n |-> e[f[i]]]
  BY DEF IsPick
<1> QED BY ONLY <1>1, <1>2, n \in Nat

Concatenated(c, a, b, m, l, S) ==
  /\ c \in Seq(S) /\ Len(c) = l
  /\ \A i \in 1 .. l : c[i] = IF i <= m THEN a[i] ELSE b[i - m]

LEMMA ConcatAt ==
  ASSUME NEW S, NEW a \in Seq(S), NEW b \in Seq(S), NEW c, c = a \o b,
         NEW m \in Nat, Len(a) = m, NEW n \in Nat, Len(b) = n, NEW l, l = m + n
  PROVE  Concatenated(c, a, b, m, l, S)
<1>1. /\ c \in Seq(S) /\ Len(c) = m + n
      /\ \A i \in 1 .. m + n : c[i] = IF i <= m THEN a[i] ELSE b[i - m]
  BY ONLY a \in Seq(S), b \in Seq(S), c = a \o b, Len(a) = m, Len(b) = n, ConcatProperties
<1> QED BY ONLY <1>1, l = m + n DEF Concatenated

LEMMA LayerwiseFacts ==
  ASSUME NEW X, NEW e \in Seq(X), Len(e) >= Budget, NEW kept \in KeptLayerwise(e)
  PROVE  /\ Chosen(kept, e, X) /\ Len(kept) = Budget
         /\ \A i \in 1 .. Window : kept[Budget + 1 - i] = e[Len(e) + 1 - i]
<1>0. Budget \in Nat /\ Window \in 1 .. Budget - 1
  BY KVAssumption
<1> PICK L, m, past : L = Len(e) /\ m = Budget - Window /\ past = L - Window
  OBVIOUS
<1>1. /\ L \in Nat /\ L >= Budget /\ m \in Nat \ {0} /\ past \in Nat /\ m <= past /\ L = past + Window
      /\ Window \in Nat \ {0} /\ Budget = m + Window
  BY ONLY <1>0, e \in Seq(X), Len(e) >= Budget, L = Len(e), m = Budget - Window, past = L - Window
<1> PICK p \in Picks(e, m, 1, past) : kept = p \o SubSeq(e, past + 1, L)
  BY ONLY kept \in KeptLayerwise(e), L = Len(e), m = Budget - Window, past = L - Window DEF KeptLayerwise
<1> PICK f : IsPick(p, e, m, 1, past, f)
  BY ONLY <1>1, p \in Picks(e, m, 1, past), PicksFacts
<1>f. f \in [1 .. m -> 1 .. past] /\ (\A i, j \in 1 .. m : f[i] = f[j] => i = j) /\ \A i \in 1 .. m : p[i] = e[f[i]]
  BY ONLY IsPick(p, e, m, 1, past, f) DEF IsPick
<1>2. p \in Seq(X) /\ Len(p) = m
  <2>1. past <= Len(e) /\ 1 \in Nat \ {0} /\ past \in Int
    BY ONLY <1>1, L = Len(e)
  <2> QED BY ONLY <1>1, <2>1, e \in Seq(X), IsPick(p, e, m, 1, past, f), PickType
<1> PICK w : w = SubSeq(e, past + 1, L)
  OBVIOUS
<1>3. IsPiece(w, e, past, L, X)
  <2>1. past \in Nat /\ L \in Nat /\ past <= L /\ L <= Len(e)
    BY ONLY <1>1, L = Len(e)
  <2>2. IsPiece(SubSeq(e, past + 1, L), e, past, L, X)
    BY ONLY <2>1, e \in Seq(X), PieceFacts
  <2> QED BY ONLY <2>2, w = SubSeq(e, past + 1, L)
<1>4. w \in Seq(X) /\ Len(w) = Window /\ \A i \in 1 .. Window : w[i] = e[past + i]
  <2>1. L - past = Window
    BY ONLY <1>1
  <2> QED BY ONLY <1>3, <2>1 DEF IsPiece
<1>5. /\ kept \in Seq(X) /\ Len(kept) = Budget
      /\ \A i \in 1 .. Budget : kept[i] = IF i <= m THEN p[i] ELSE w[i - m]
  <2>1. kept = p \o w
    OBVIOUS
  <2>2. m \in Nat /\ Window \in Nat /\ Budget = m + Window
    BY ONLY <1>1
  <2>3. Concatenated(kept, p, w, m, Budget, X)
    BY ONLY <1>2, <1>4, <2>1, <2>2, ConcatAt
  <2> QED BY ONLY <2>3 DEF Concatenated
<1> PICK g : g = [i \in 1 .. Budget |-> IF i <= m THEN f[i] ELSE past + (i - m)]
  OBVIOUS
<1>6. ASSUME NEW i \in 1 .. Budget
      PROVE  /\ g[i] \in 1 .. L /\ kept[i] = e[g[i]]
             /\ g[i] = IF i <= m THEN f[i] ELSE past + (i - m)
  <2>0. g[i] = IF i <= m THEN f[i] ELSE past + (i - m)
    BY ONLY i \in 1 .. Budget, g = [j \in 1 .. Budget |-> IF j <= m THEN f[j] ELSE past + (j - m)]
  <2>1. CASE i <= m
    <3>1. i \in 1 .. m
      BY ONLY <1>1, <2>1, i \in 1 .. Budget
    <3>2. f[i] \in 1 .. past /\ p[i] = e[f[i]] /\ g[i] = f[i] /\ kept[i] = p[i]
      BY ONLY <1>5, <1>f, <2>0, <2>1, <3>1, i \in 1 .. Budget
    <3>3. \A x \in 1 .. past : x \in 1 .. L
      BY ONLY <1>1
    <3> QED BY <2>0, <3>2, <3>3
  <2>2. CASE ~(i <= m)
    <3>1. i - m \in 1 .. Window /\ past + (i - m) \in 1 .. L
      BY ONLY <1>1, <2>2, i \in 1 .. Budget
    <3>2. kept[i] = w[i - m] /\ g[i] = past + (i - m)
      BY ONLY <1>5, <2>0, <2>2, i \in 1 .. Budget
    <3> QED BY <1>4, <2>0, <3>1, <3>2
  <2> QED BY <2>1, <2>2
<1>7. ASSUME NEW i \in 1 .. Budget, NEW j \in 1 .. Budget, g[i] = g[j] PROVE i = j
  <2>1. \A k \in 1 .. m : f[k] \in 1 .. past
    BY ONLY <1>f
  <2>2. (i <= m => i \in 1 .. m) /\ (j <= m => j \in 1 .. m)
    BY ONLY <1>1, i \in 1 .. Budget, j \in 1 .. Budget
  <2>3. (i <= m) <=> (j <= m)
    BY ONLY <1>1, <1>6, <1>7, <2>1, <2>2
  <2>4. CASE i <= m
    BY ONLY <1>6, <1>7, <1>f, <2>2, <2>3, <2>4
  <2>5. CASE ~(i <= m)
    <3>1. past + (i - m) = past + (j - m)
      BY ONLY <1>6, <1>7, <2>3, <2>5
    <3> QED BY ONLY <1>1, <3>1, i \in 1 .. Budget, j \in 1 .. Budget
  <2> QED BY <2>4, <2>5
<1>8. Chosen(kept, e, X)
  <2>1. DOMAIN e = 1 .. L
    BY ONLY e \in Seq(X), L = Len(e)
  <2>2. g \in [1 .. Budget -> DOMAIN e]
    <3>1. g = [i \in 1 .. Budget |-> g[i]]
      BY ONLY g = [i \in 1 .. Budget |-> IF i <= m THEN f[i] ELSE past + (i - m)]
    <3>2. \A i \in 1 .. Budget : g[i] \in DOMAIN e
      BY <1>6, <2>1
    <3> QED BY ONLY <3>1, <3>2
  <2>3. \A i \in 1 .. Budget : kept[i] = e[g[i]]
    BY <1>6
  <2>4. \A i, j \in 1 .. Budget : g[i] = g[j] => i = j
    BY <1>7
  <2>5. kept \in Seq(X) /\ Len(kept) = Budget
    BY <1>5
  <2> QED BY ONLY <1>0, <2>2, <2>3, <2>4, <2>5, ChosenBy
<1>9. ASSUME NEW i \in 1 .. Window PROVE kept[Budget + 1 - i] = e[Len(e) + 1 - i]
  <2> PICK k, j : k = Budget + 1 - i /\ j = Window + 1 - i
    OBVIOUS
  <2>1. /\ k \in 1 .. Budget /\ ~(k <= m) /\ k - m = j /\ j \in 1 .. Window
        /\ past + j = L + 1 - i
    BY ONLY <1>1, i \in 1 .. Window, k = Budget + 1 - i, j = Window + 1 - i
  <2>2. kept[k] = w[j] /\ w[j] = e[past + j]
    BY ONLY <1>4, <1>5, <2>1
  <2> QED BY ONLY <2>1, <2>2, k = Budget + 1 - i, L = Len(e)
<1> QED BY ONLY <1>5, <1>8, <1>9

LEMMA HeadwiseFacts ==
  ASSUME NEW X, NEW e \in Seq(X), NEW n \in Nat, Recent < n, n <= Len(e), NEW kept \in KeptHeadwise(e, n)
  PROVE  /\ Chosen(kept, e, X) /\ Len(kept) = n
         /\ kept[1] = e[1] /\ kept[2] = e[Len(e)]
<1>0. Recent \in Nat \ {0}
  <2>1. Budget \in Nat /\ Recent \in 1 .. Budget - 2
    BY KVAssumption
  <2> QED BY ONLY <2>1
<1> PICK L, m, past : L = Len(e) /\ m = n - 1 - Recent /\ past = L - Recent
  OBVIOUS
<1>1. /\ L \in Nat \ {0} /\ m \in Nat /\ past \in Nat \ {0} /\ L = past + Recent /\ n = 1 + Recent + m
  BY ONLY <1>0, e \in Seq(X), n \in Nat, Recent < n, n <= Len(e), L = Len(e), m = n - 1 - Recent, past = L - Recent
<1> PICK p \in Picks(e, m, 2, past) : kept = <<e[1]>> \o Reverse(SubSeq(e, past + 1, L)) \o p
  BY ONLY kept \in KeptHeadwise(e, n), L = Len(e), m = n - 1 - Recent, past = L - Recent DEF KeptHeadwise
<1> PICK f : IsPick(p, e, m, 2, past, f)
  BY ONLY <1>1, p \in Picks(e, m, 2, past), PicksFacts
<1>f. f \in [1 .. m -> 2 .. past] /\ (\A i, j \in 1 .. m : f[i] = f[j] => i = j) /\ \A i \in 1 .. m : p[i] = e[f[i]]
  BY ONLY IsPick(p, e, m, 2, past, f) DEF IsPick
<1>2. p \in Seq(X) /\ Len(p) = m
  <2>1. past <= Len(e) /\ 2 \in Nat \ {0} /\ past \in Int
    BY ONLY <1>0, <1>1, L = Len(e)
  <2> QED BY ONLY <1>1, <2>1, e \in Seq(X), IsPick(p, e, m, 2, past, f), PickType
<1> PICK w, v : w = SubSeq(e, past + 1, L) /\ v = Reverse(w)
  OBVIOUS
<1>3. IsPiece(w, e, past, L, X)
  <2>1. past \in Nat /\ L \in Nat /\ past <= L /\ L <= Len(e)
    BY ONLY <1>0, <1>1, L = Len(e)
  <2>2. IsPiece(SubSeq(e, past + 1, L), e, past, L, X)
    BY ONLY <2>1, e \in Seq(X), PieceFacts
  <2> QED BY ONLY <2>2, w = SubSeq(e, past + 1, L)
<1>4. w \in Seq(X) /\ Len(w) = Recent /\ \A i \in 1 .. Recent : w[i] = e[past + i]
  <2>1. L - past = Recent
    BY ONLY <1>0, <1>1
  <2> QED BY ONLY <1>3, <2>1 DEF IsPiece
<1>5. v \in Seq(X) /\ Len(v) = Recent /\ \A i \in 1 .. Recent : v[i] = e[L + 1 - i]
  <2>1. v = [i \in 1 .. Recent |-> w[(Recent - i) + 1]]
    BY ONLY <1>4, v = Reverse(w) DEF Reverse
  <2>2. ASSUME NEW i \in 1 .. Recent PROVE w[(Recent - i) + 1] \in X /\ w[(Recent - i) + 1] = e[L + 1 - i]
    <3> PICK k : k = (Recent - i) + 1
      OBVIOUS
    <3>1. k \in 1 .. Recent /\ past + k = L + 1 - i
      BY ONLY <1>0, <1>1, i \in 1 .. Recent, k = (Recent - i) + 1
    <3>2. w[k] \in X /\ w[k] = e[past + k]
      BY ONLY <1>4, <3>1
    <3> QED BY ONLY <3>1, <3>2, k = (Recent - i) + 1
  <2> QED BY ONLY <1>0, <2>1, <2>2
<1> PICK s, a : s = <<e[1]>> /\ a = s \o v
  OBVIOUS
<1>6. s \in Seq(X) /\ Len(s) = 1 /\ s[1] = e[1]
  <2>1. e[1] \in X
    BY ONLY <1>1, e \in Seq(X), L = Len(e)
  <2> QED BY ONLY <2>1, s = <<e[1]>>
<1>7. /\ a \in Seq(X) /\ Len(a) = 1 + Recent
      /\ \A i \in 1 .. 1 + Recent : a[i] = IF i <= 1 THEN s[i] ELSE v[i - 1]
  <2>1. 1 \in Nat /\ Recent \in Nat /\ 1 + Recent = 1 + Recent
    BY ONLY <1>0
  <2>2. Concatenated(a, s, v, 1, 1 + Recent, X)
    BY ONLY <1>5, <1>6, <2>1, a = s \o v, ConcatAt
  <2> QED BY ONLY <2>2 DEF Concatenated
<1>8. /\ kept \in Seq(X) /\ Len(kept) = n
      /\ \A i \in 1 .. n : kept[i] = IF i <= 1 + Recent THEN a[i] ELSE p[i - (1 + Recent)]
  <2>1. kept = a \o p
    OBVIOUS
  <2>2. 1 + Recent \in Nat /\ n = (1 + Recent) + m
    BY ONLY <1>0, <1>1
  <2>3. Concatenated(kept, a, p, 1 + Recent, n, X)
    BY ONLY <1>1, <1>2, <1>7, <2>1, <2>2, ConcatAt
  <2> QED BY ONLY <2>3 DEF Concatenated
<1> DEFINE From(i) == IF i = 1 THEN 1 ELSE IF i <= 1 + Recent THEN L + 1 - (i - 1) ELSE f[i - (1 + Recent)]
<1> PICK g : g = [i \in 1 .. n |-> From(i)]
  OBVIOUS
<1>9. ASSUME NEW i \in 1 .. n
      PROVE  /\ g[i] = From(i) /\ kept[i] = e[g[i]]
             /\ i = 1 => g[i] = 1
             /\ i # 1 /\ i <= 1 + Recent => g[i] \in past + 1 .. L
             /\ ~(i <= 1 + Recent) => i - (1 + Recent) \in 1 .. m /\ g[i] \in 2 .. past
  <2>0. g[i] = From(i)
    OBVIOUS
  <2>1. CASE i = 1
    <3>1. g[i] = 1 /\ kept[i] = a[1] /\ a[1] = e[1] /\ i <= 1 + Recent
      <4>1. 1 \in 1 .. 1 + Recent /\ 1 <= 1 + Recent
        BY ONLY <1>0
      <4> QED BY ONLY <1>6, <1>7, <1>8, <2>0, <2>1, <4>1, i \in 1 .. n
    <3> QED BY ONLY <2>0, <2>1, <3>1
  <2>2. CASE i # 1 /\ i <= 1 + Recent
    <3> PICK k : k = i - 1
      OBVIOUS
    <3>1. k \in 1 .. Recent /\ i \in 1 .. 1 + Recent /\ ~(i <= 1) /\ L + 1 - k \in past + 1 .. L
      BY ONLY <1>0, <1>1, <2>2, i \in 1 .. n, k = i - 1
    <3>2. kept[i] = v[k] /\ v[k] = e[L + 1 - k] /\ g[i] = L + 1 - k
      BY ONLY <1>5, <1>7, <1>8, <2>0, <2>2, <3>1, k = i - 1, i \in 1 .. n
    <3> QED BY ONLY <2>0, <2>2, <3>1, <3>2
  <2>3. CASE ~(i <= 1 + Recent)
    <3> PICK k : k = i - (1 + Recent)
      OBVIOUS
    <3>1. k \in 1 .. m /\ i # 1
      BY ONLY <1>0, <1>1, <2>3, i \in 1 .. n, k = i - (1 + Recent)
    <3>2. kept[i] = p[k] /\ g[i] = f[k] /\ p[k] = e[f[k]] /\ f[k] \in 2 .. past
      BY ONLY <1>8, <1>f, <2>0, <2>3, <3>1, k = i - (1 + Recent), i \in 1 .. n
    <3> QED BY ONLY <2>0, <2>3, <3>1, <3>2, k = i - (1 + Recent)
  <2> QED BY ONLY <2>1, <2>2, <2>3
<1>10. ASSUME NEW i \in 1 .. n, NEW j \in 1 .. n, g[i] = g[j] PROVE i = j
  <2>0. (\A x \in past + 1 .. L : x # 1) /\ (\A x \in 2 .. past : x # 1)
    BY ONLY <1>0, <1>1
  <2>1. i = 1 <=> j = 1
    BY ONLY <1>9, <1>10, <2>0
  <2>2. i <= 1 + Recent <=> j <= 1 + Recent
    <3>1. 1 <= 1 + Recent
      BY ONLY <1>0
    <3>2. \A x \in past + 1 .. L : x \notin 2 .. past
      BY ONLY <1>1
    <3> QED BY ONLY <1>9, <1>10, <2>1, <3>1, <3>2
  <2>3. CASE i # 1 /\ i <= 1 + Recent
    <3>1. L + 1 - (i - 1) = L + 1 - (j - 1)
      BY ONLY <1>9, <1>10, <2>1, <2>2, <2>3
    <3> QED BY ONLY <1>1, <3>1, i \in 1 .. n, j \in 1 .. n, n \in Nat
  <2>4. CASE ~(i <= 1 + Recent)
    <3> PICK x, y : x = i - (1 + Recent) /\ y = j - (1 + Recent)
      OBVIOUS
    <3>1. x \in 1 .. m /\ y \in 1 .. m /\ f[x] = g[i] /\ f[y] = g[j]
      <4>1. i # 1 /\ j # 1
        BY ONLY <1>0, <2>2, <2>4
      <4> QED BY ONLY <1>9, <2>2, <2>4, <4>1, x = i - (1 + Recent), y = j - (1 + Recent)
    <3>2. x = y
      BY ONLY <1>10, <1>f, <3>1
    <3>3. i \in Int /\ j \in Int
      BY ONLY i \in 1 .. n, j \in 1 .. n, n \in Nat
    <3>4. i - (1 + Recent) = j - (1 + Recent)
      BY ONLY <3>2, x = i - (1 + Recent), y = j - (1 + Recent)
    <3> QED BY ONLY <1>0, <3>3, <3>4
  <2> QED BY <2>1, <2>3, <2>4
<1>11. Chosen(kept, e, X)
  <2>1. DOMAIN e = 1 .. L
    BY ONLY e \in Seq(X), L = Len(e)
  <2>2. g \in [1 .. n -> DOMAIN e]
    <3>1. g = [i \in 1 .. n |-> g[i]]
      BY ONLY g = [i \in 1 .. n |-> From(i)]
    <3>2. \A i \in 1 .. n : g[i] \in 1 .. L
      <4> SUFFICES ASSUME NEW i \in 1 .. n PROVE g[i] \in 1 .. L
        OBVIOUS
      <4>1. 1 \in 1 .. L /\ (\A x \in past + 1 .. L : x \in 1 .. L) /\ \A x \in 2 .. past : x \in 1 .. L
        BY ONLY <1>0, <1>1
      <4> QED BY ONLY <1>9, <4>1, i \in 1 .. n
    <3> QED BY ONLY <2>1, <3>1, <3>2
  <2>3. \A i \in 1 .. n : kept[i] = e[g[i]]
    BY <1>9
  <2>4. \A i, j \in 1 .. n : g[i] = g[j] => i = j
    BY <1>10
  <2>5. kept \in Seq(X) /\ Len(kept) = n
    BY <1>8
  <2> QED BY ONLY n \in Nat, <2>2, <2>3, <2>4, <2>5, ChosenBy
<1>12. kept[1] = e[1] /\ kept[2] = e[Len(e)]
  <2>1. /\ 1 \in 1 .. n /\ 2 \in 1 .. n /\ 2 # 1 /\ 2 <= 1 + Recent /\ L + 1 - (2 - 1) = L
    BY ONLY <1>0, <1>1
  <2>2. kept[1] = e[g[1]] /\ g[1] = 1
    BY ONLY <1>9, <2>1
  <2>3. kept[2] = e[g[2]] /\ g[2] = From(2)
    BY ONLY <1>9, <2>1
  <2> QED BY ONLY <2>1, <2>2, <2>3, L = Len(e)
<1> QED BY ONLY <1>8, <1>11, <1>12

-----------------------------------------------------------------------------
(* What is stored for a request, in the order of its blocks: tokens of its  *)
(* own, none twice; layerwise no block is empty and the newest of the       *)
(* window are in order at the end, headwise the first and the newest token  *)
(* are there and a head counts them.                                       *)
Pair == Requests \X Nat
Contents(r) == [i \in DOMAIN Body(r) |-> kv[Body(r)[i]]]
Cells(r) == Filter(Contents(r), Pair)

Newest(e, r, n) == \A i \in 1 .. Window : i <= n => i <= Len(e) /\ e[Len(e) + 1 - i] = <<r, n - i>>
Ended(e, r, n) == e # << >> /\ e[1] = <<r, 0>> /\ \E i \in DOMAIN e : e[i] = <<r, n - 1>>
Owned(e, r, n) ==
  /\ e \in Seq(Pair) /\ Distinct(e) /\ n \in Nat \ {0}
  /\ \A i \in DOMAIN e : e[i][1] = r /\ e[i][2] \in 0 .. n - 1
Good(e, r, n, k) ==
  /\ Owned(e, r, n)
  /\ recipe = "layerwise" => Newest(e, r, n)
  /\ recipe = "headwise" => Len(e) = k /\ Ended(e, r, n)

(* A request that this step has run and no compression has rewritten since: *)
(* its newest token is its last entry.                                     *)
Due(r) ==
  \/ pc \in {"post", "compress"} /\ Members(batch, r)
  \/ pc = "store" /\ Members(todo, r)

CacheOf(r) ==
  /\ Good(Cells(r), r, Stored(r), heads[r][1])
  /\ recipe = "layerwise" => \A i \in DOMAIN Body(r) : kv[Body(r)[i]] \in Pair
  /\ recipe = "headwise" /\ Due(r) => Cells(r)[Len(Cells(r))] = <<r, Stored(r) - 1>>
CacheInv ==
  /\ kv \in [Blocks -> Pair \cup {Nothing}]
  /\ \A r : Settled(r) => CacheOf(r)

OneMore(d, e, r, n) ==
  /\ Owned(d, r, n + 1) /\ Len(d) = Len(e) + 1 /\ Len(e) \in Nat
  /\ (\A i \in 1 .. Len(e) : d[i] = e[i]) /\ d[Len(e) + 1] = <<r, n>>

LEMMA OwnedAppend ==
  ASSUME NEW e, NEW r \in Requests, NEW n, Owned(e, r, n), NEW d, d = Append(e, <<r, n>>)
  PROVE  OneMore(d, e, r, n)
<1> PICK x : x = <<r, n>>
  OBVIOUS
<1>0. /\ e \in Seq(Pair) /\ Distinct(e) /\ n \in Nat \ {0}
      /\ \A i \in DOMAIN e : e[i][1] = r /\ e[i][2] \in 0 .. n - 1
  BY DEF Owned
<1>1. x \in Pair /\ x[1] = r /\ x[2] = n
  BY ONLY <1>0, r \in Requests, x = <<r, n>> DEF Pair
<1>2. d = Append(e, x)
  BY ONLY d = Append(e, <<r, n>>), x = <<r, n>>
<1> PICK m : m = Len(e)
  OBVIOUS
<1>3. /\ d \in Seq(Pair) /\ Len(d) = m + 1 /\ m \in Nat /\ (\A i \in 1 .. m : d[i] = e[i]) /\ d[m + 1] = x
      /\ DOMAIN e = 1 .. m /\ DOMAIN d = 1 .. m + 1
  BY ONLY <1>0, <1>1, <1>2, m = Len(e)
<1>4. ~Members(e, x)
  <2> SUFFICES ASSUME NEW i \in DOMAIN e, e[i] = x PROVE FALSE
    BY DEF Members
  <2>1. n \in 0 .. n - 1
    BY ONLY <1>0, <1>1, e[i] = x, i \in DOMAIN e
  <2> QED BY ONLY <1>0, <2>1
<1>5. Distinct(d)
  <2>1. Extended(d, e, x, Pair)
    BY ONLY <1>0, <1>1, <1>2, AppendFacts
  <2> QED BY ONLY <1>0, <1>4, <2>1 DEF Extended
<1>6. ASSUME NEW i \in DOMAIN d PROVE d[i][1] = r /\ d[i][2] \in 0 .. (n + 1) - 1
  <2>1. \A y \in 0 .. n - 1 : y \in 0 .. (n + 1) - 1
    BY ONLY <1>0
  <2>2. n \in 0 .. (n + 1) - 1
    BY ONLY <1>0
  <2>3. i \in 1 .. m \/ i = m + 1
    BY ONLY <1>3, i \in DOMAIN d
  <2>4. CASE i \in 1 .. m
    BY ONLY <1>0, <1>3, <2>1, <2>4
  <2>5. CASE i = m + 1
    BY ONLY <1>1, <1>3, <2>2, <2>5
  <2> QED BY <2>3, <2>4, <2>5
<1>7. n + 1 \in Nat \ {0}
  BY ONLY <1>0
<1>8. Owned(d, r, n + 1)
  BY ONLY <1>3, <1>5, <1>6, <1>7 DEF Owned
<1> QED BY ONLY <1>3, <1>8, m = Len(e), x = <<r, n>> DEF OneMore

Grown(d, r, n, k) == Good(d, r, n + 1, k + 1) /\ d[Len(d)] = <<r, (n + 1) - 1>>

LEMMA GoodAppend ==
  ASSUME NEW e, NEW r \in Requests, NEW n, NEW k, Good(e, r, n, k), NEW d, d = Append(e, <<r, n>>)
  PROVE  Grown(d, r, n, k)
<1>0. Owned(e, r, n)
  BY DEF Good
<1>1. /\ Owned(d, r, n + 1) /\ Len(d) = Len(e) + 1 /\ Len(e) \in Nat
      /\ (\A i \in 1 .. Len(e) : d[i] = e[i]) /\ d[Len(e) + 1] = <<r, n>>
  <2>1. OneMore(d, e, r, n)
    BY ONLY <1>0, r \in Requests, d = Append(e, <<r, n>>), OwnedAppend
  <2> QED BY ONLY <2>1 DEF OneMore
<1>n. n \in Nat \ {0} /\ e \in Seq(Pair) /\ d \in Seq(Pair)
  BY ONLY <1>0, <1>1 DEF Owned
<1> PICK m : m = Len(e)
  OBVIOUS
<1>2. ASSUME Newest(e, r, n) PROVE Newest(d, r, n + 1)
  <2> SUFFICES ASSUME NEW i \in 1 .. Window, i <= n + 1
               PROVE  i <= Len(d) /\ d[Len(d) + 1 - i] = <<r, (n + 1) - i>>
    BY DEF Newest
  <2>0. Window \in Nat /\ i \in Nat \ {0} /\ m \in Nat
    <3>1. Budget \in Nat /\ Window \in 1 .. Budget - 1
      BY KVAssumption
    <3> QED BY ONLY <1>1, <3>1, i \in 1 .. Window, m = Len(e)
  <2>1. CASE i = 1
    <3>1. Len(d) + 1 - i = m + 1 /\ (n + 1) - i = n /\ i <= Len(d)
      BY ONLY <1>1, <1>n, <2>0, <2>1, m = Len(e)
    <3> QED BY ONLY <1>1, <3>1, m = Len(e)
  <2>2. CASE i # 1
    <3> PICK j : j = i - 1
      OBVIOUS
    <3>1. j \in 1 .. Window /\ j <= n
      BY ONLY <1>n, <2>0, <2>2, j = i - 1, i \in 1 .. Window, i <= n + 1
    <3>2. j <= m /\ e[m + 1 - j] = <<r, n - j>>
      BY ONLY <3>1, Newest(e, r, n), m = Len(e) DEF Newest
    <3>3. i <= Len(d) /\ Len(d) + 1 - i = m + 1 - j /\ m + 1 - j \in 1 .. m /\ (n + 1) - i = n - j
      BY ONLY <1>1, <1>n, <2>0, <2>2, <3>1, <3>2, j = i - 1, m = Len(e)
    <3> QED BY ONLY <1>1, <3>2, <3>3, m = Len(e)
  <2> QED BY <2>1, <2>2
<1>3. ASSUME Ended(e, r, n) PROVE Ended(d, r, n + 1)
  <2>1. e # << >> /\ e[1] = <<r, 0>>
    BY ONLY <1>3 DEF Ended
  <2>2. 1 \in 1 .. m /\ m + 1 \in DOMAIN d /\ d # << >>
    BY ONLY <1>1, <1>n, <2>1, m = Len(e)
  <2>3. d[1] = <<r, 0>> /\ d[m + 1] = <<r, n>> /\ (n + 1) - 1 = n
    BY ONLY <1>1, <1>n, <2>1, <2>2, m = Len(e)
  <2> QED BY ONLY <2>2, <2>3 DEF Ended
<1>4. d[Len(d)] = <<r, (n + 1) - 1>>
  <2>1. (n + 1) - 1 = n
    BY ONLY <1>n
  <2> QED BY ONLY <1>1, <2>1
<1> QED BY ONLY <1>1, <1>2, <1>3, <1>4, Good(e, r, n, k) DEF Good, Grown

Prompted(e, r, n) == Good(e, r, n, n) /\ e \in Seq(Pair) /\ Len(e) = n /\ e[Len(e)] = <<r, n - 1>>

LEMMA GoodPrompt ==
  ASSUME NEW r \in Requests, NEW n \in Nat \ {0}, NEW e, e = [i \in 1 .. n |-> <<r, i - 1>>]
  PROVE  Prompted(e, r, n)
<1>1. /\ e \in Seq(Pair) /\ Len(e) = n /\ DOMAIN e = 1 .. n
      /\ \A i \in 1 .. n : e[i] = <<r, i - 1>>
  <2>1. \A i \in 1 .. n : <<r, i - 1>> \in Pair
    BY ONLY n \in Nat \ {0}, r \in Requests DEF Pair
  <2> QED BY ONLY <2>1, n \in Nat \ {0}, e = [i \in 1 .. n |-> <<r, i - 1>>]
<1>2. Owned(e, r, n)
  <2>1. ASSUME NEW i \in 1 .. n, NEW j \in 1 .. n, e[i] = e[j] PROVE i = j
    <3>1. i - 1 = j - 1
      BY ONLY <1>1, <2>1
    <3> QED BY ONLY <3>1, n \in Nat \ {0}, i \in 1 .. n, j \in 1 .. n
  <2>2. \A i \in 1 .. n : e[i][1] = r /\ e[i][2] = i - 1 /\ i - 1 \in 0 .. n - 1
    BY ONLY <1>1, n \in Nat \ {0}
  <2> QED BY ONLY <1>1, <2>1, <2>2, n \in Nat \ {0} DEF Owned, Distinct
<1>3. Newest(e, r, n)
  <2> SUFFICES ASSUME NEW i \in 1 .. Window, i <= n PROVE i <= Len(e) /\ e[Len(e) + 1 - i] = <<r, n - i>>
    BY DEF Newest
  <2> PICK k : k = n + 1 - i
    OBVIOUS
  <2>0. Window \in Nat
    <3>1. Budget \in Nat /\ Window \in 1 .. Budget - 1
      BY KVAssumption
    <3> QED BY ONLY <3>1
  <2>1. k \in 1 .. n /\ k - 1 = n - i
    BY ONLY <2>0, i \in 1 .. Window, i <= n, n \in Nat \ {0}, k = n + 1 - i
  <2>2. e[k] = <<r, k - 1>>
    BY ONLY <1>1, <2>1
  <2> QED BY ONLY <1>1, <2>1, <2>2, i <= n, k = n + 1 - i
<1>4. Ended(e, r, n)
  <2>1. 1 \in 1 .. n /\ n \in 1 .. n /\ 1 - 1 = 0
    BY ONLY n \in Nat \ {0}
  <2>2. e[1] = <<r, 0>> /\ e[n] = <<r, n - 1>> /\ e # << >>
    BY ONLY <1>1, <2>1, n \in Nat \ {0}
  <2> QED BY ONLY <1>1, <2>1, <2>2 DEF Ended
<1>5. e[Len(e)] = <<r, n - 1>>
  <2>1. n \in 1 .. n
    BY ONLY n \in Nat \ {0}
  <2> QED BY ONLY <1>1, <2>1
<1> QED BY ONLY <1>1, <1>2, <1>3, <1>4, <1>5 DEF Good, Prompted

LEMMA OwnedChosen ==
  ASSUME NEW e, NEW r, NEW n, Owned(e, r, n), NEW p, Chosen(p, e, Pair)
  PROVE  Owned(p, r, n)
<1>1. /\ n \in Nat \ {0} /\ Distinct(e)
      /\ \A i \in DOMAIN e : e[i][1] = r /\ e[i][2] \in 0 .. n - 1
  BY DEF Owned
<1>2. p \in Seq(Pair) /\ Distinct(p) /\ \A i \in DOMAIN p : \E j \in DOMAIN e : p[i] = e[j]
  BY <1>1 DEF Chosen
<1>3. \A i \in DOMAIN p : p[i][1] = r /\ p[i][2] \in 0 .. n - 1
  BY ONLY <1>1, <1>2
<1> QED BY ONLY <1>1, <1>2, <1>3 DEF Owned

LEMMA GoodLayerwise ==
  ASSUME NEW e, NEW r, NEW n, NEW k, Good(e, r, n, k), recipe = "layerwise",
         Len(e) >= Budget, NEW kept \in KeptLayerwise(e)
  PROVE  Good(kept, r, n, Budget) /\ kept \in Seq(Pair) /\ Len(kept) = Budget
<1>1. Owned(e, r, n) /\ Newest(e, r, n)
  BY DEF Good
<1>2. e \in Seq(Pair)
  BY ONLY <1>1 DEF Owned
<1>3. /\ Chosen(kept, e, Pair) /\ Len(kept) = Budget
      /\ \A i \in 1 .. Window : kept[Budget + 1 - i] = e[Len(e) + 1 - i]
  BY ONLY <1>2, Len(e) >= Budget, kept \in KeptLayerwise(e), LayerwiseFacts
<1>4. Owned(kept, r, n)
  BY ONLY <1>1, <1>3, OwnedChosen
<1>5. Newest(kept, r, n)
  <2> SUFFICES ASSUME NEW i \in 1 .. Window, i <= n PROVE i <= Len(kept) /\ kept[Len(kept) + 1 - i] = <<r, n - i>>
    BY DEF Newest
  <2>1. e[Len(e) + 1 - i] = <<r, n - i>>
    BY ONLY <1>1, i \in 1 .. Window, i <= n DEF Newest
  <2>2. i <= Budget
    <3>1. Budget \in Nat /\ Window \in 1 .. Budget - 1
      BY KVAssumption
    <3> QED BY ONLY <3>1, i \in 1 .. Window
  <2> QED BY ONLY <1>3, <2>1, <2>2, i \in 1 .. Window
<1>6. recipe # "headwise"
  BY ONLY recipe = "layerwise"
<1>7. kept \in Seq(Pair)
  BY ONLY <1>4 DEF Owned
<1> QED BY ONLY <1>3, <1>4, <1>5, <1>6, <1>7 DEF Good

LEMMA GoodHeadwise ==
  ASSUME NEW e, NEW r, NEW n, NEW k, Good(e, r, n, k), recipe = "headwise", e[Len(e)] = <<r, n - 1>>,
         NEW m \in Nat, Recent < m, m <= Len(e), NEW kept \in KeptHeadwise(e, m)
  PROVE  Good(kept, r, n, m) /\ kept \in Seq(Pair) /\ Len(kept) = m
<1>1. Owned(e, r, n) /\ Ended(e, r, n)
  BY DEF Good
<1>2. e \in Seq(Pair)
  BY ONLY <1>1 DEF Owned
<1>3. /\ Chosen(kept, e, Pair) /\ Len(kept) = m
      /\ kept[1] = e[1] /\ kept[2] = e[Len(e)]
  BY ONLY <1>2, m \in Nat, Recent < m, m <= Len(e), kept \in KeptHeadwise(e, m), HeadwiseFacts
<1>4. Owned(kept, r, n)
  BY ONLY <1>1, <1>3, OwnedChosen
<1>5. kept \in Seq(Pair)
  BY ONLY <1>4 DEF Owned
<1>6. Ended(kept, r, n)
  <2>1. e[1] = <<r, 0>>
    BY ONLY <1>1 DEF Ended
  <2>2. Recent \in Nat \ {0}
    <3>1. Budget \in Nat /\ Recent \in 1 .. Budget - 2
      BY KVAssumption
    <3> QED BY ONLY <3>1
  <2>3. 2 \in DOMAIN kept /\ kept # << >>
    BY ONLY <1>3, <1>5, <2>2, m \in Nat, Recent < m
  <2> QED BY ONLY <1>3, <2>1, <2>3, e[Len(e)] = <<r, n - 1>> DEF Ended
<1>7. recipe # "layerwise"
  BY ONLY recipe = "headwise"
<1> QED BY ONLY <1>3, <1>4, <1>5, <1>6, <1>7 DEF Good

-----------------------------------------------------------------------------
LEMMA TablePlaces ==
  ASSUME Base, NEW r \in Requests, NEW s \in Requests, NEW i \in DOMAIN table[r], NEW j \in DOMAIN table[s],
         table[r][i] = table[s][j]
  PROVE  r = s /\ i = j
<1>1. Distinct(table[r]) /\ (r # s => Disjoint(table[r], table[s]))
  BY DEF Base, Pool, Apart
<1>2. Members(table[r], table[r][i]) /\ Members(table[s], table[r][i])
  BY DEF Members
<1>3. r = s
  BY ONLY <1>1, <1>2 DEF Disjoint
<1>4. i = j
  <2>1. j \in DOMAIN table[r] /\ table[r][i] = table[r][j]
    BY <1>3
  <2> QED BY ONLY <1>1, <2>1, i \in DOMAIN table[r], SamePlace
<1> QED BY <1>3, <1>4

LEMMA BodyFacts ==
  ASSUME Base, NEW r, Settled(r)
  PROVE  /\ r \in Requests /\ Body(r) \in Seq(Blocks) /\ num_tokens[r] \in Nat
         /\ \A i \in DOMAIN Body(r) : i \in DOMAIN table[r] /\ table[r][i] = Body(r)[i]
         /\ Fresh(r) => DOMAIN Body(r) = 1 .. Len(table[r]) - 1 /\ Len(table[r]) \in Nat \ {0}
<1>1. /\ running \in Seq(Requests) /\ table \in [Requests -> Seq(Blocks)] /\ num_tokens \in [Requests -> Nat]
      /\ Members(running, r)
  BY DEF Base, Types, Pool, Settled
<1>2. r \in Requests
  BY ONLY <1>1, MembersType
<1>3. table[r] \in Seq(Blocks) /\ num_tokens[r] \in Nat
  BY ONLY <1>1, <1>2
<1>4. CASE Fresh(r)
  <2> PICK s, f : s = table[r] /\ f = Front(s)
    OBVIOUS
  <2>1. s # << >> /\ Body(r) = f
    BY <1>4 DEF Base, Batches, Fresh, Body
  <2>2. f \in Seq(Blocks) /\ Len(f) = Len(s) - 1 /\ Len(s) \in Nat \ {0} /\ \A i \in 1 .. Len(s) - 1 : f[i] = s[i]
    <3>1. s \in Seq(Blocks) /\ s # << >>
      BY <1>3, <2>1
    <3> QED BY ONLY <3>1, f = Front(s), FrontFacts
  <2>3. DOMAIN f = 1 .. Len(s) - 1 /\ DOMAIN s = 1 .. Len(s) /\ \A i \in 1 .. Len(s) - 1 : i \in 1 .. Len(s)
    BY ONLY <1>3, <2>2, s = table[r]
  <2> QED BY ONLY <1>2, <1>3, <2>1, <2>2, <2>3, s = table[r]
<1>5. CASE ~Fresh(r)
  BY ONLY <1>2, <1>3, <1>5 DEF Body
<1> QED BY <1>4, <1>5

(* Where a step changes neither the body of a request nor what is in it.    *)
LEMMA CacheStays ==
  ASSUME CacheInv, NEW r, Settled(r), Body(r)' = Body(r), Stored(r)' = Stored(r),
         recipe' = recipe, heads'[r] = heads[r], Due(r)' => Due(r),
         \A i \in DOMAIN Body(r) : kv'[Body(r)[i]] = kv[Body(r)[i]]
  PROVE  CacheOf(r)'
<1>1. CacheOf(r)
  BY DEF CacheInv
<1>2. Contents(r)' = Contents(r)
  BY DEF Contents
<1>3. Cells(r)' = Cells(r)
  BY <1>2 DEF Cells
<1>4. Good(Cells(r), r, Stored(r), heads[r][1])'
  BY <1>1, <1>3 DEF CacheOf, Good
<1>5. (recipe = "layerwise" => \A i \in DOMAIN Body(r) : kv[Body(r)[i]] \in Pair)'
  BY <1>1 DEF CacheOf
<1>6. (recipe = "headwise" /\ Due(r) => Cells(r)[Len(Cells(r))] = <<r, Stored(r) - 1>>)'
  BY <1>1, <1>3 DEF CacheOf
<1> QED BY ONLY <1>4, <1>5, <1>6 DEF CacheOf

LEMMA CacheInit == Init => CacheInv
<1> SUFFICES ASSUME Init PROVE CacheInv
  OBVIOUS
<1>1. \A r : ~Settled(r)
  BY NoMembers DEF Init, Settled
<1>2. kv \in [Blocks -> Pair \cup {Nothing}]
  BY DEF Init
<1> QED BY <1>1, <1>2 DEF CacheInv

LEMMA QuietDue ==
  ASSUME Base, Quiet, NEW r, Due(r)'
  PROVE  Due(r)
<1>b. batch \in Seq(Requests) /\ table \in [Requests -> Seq(Blocks)]
  BY DEF Base, Types, Pool
<1>1. CASE Generate \/ Return \/ SchedulePrefill \/ ScheduleDecode \/ ScheduleRaises \/ EndCompress
  <2>1. pc' \notin {"post", "compress", "store"}
    BY <1>1 DEF Generate, Return, SchedulePrefill, ScheduleDecode, ScheduleRaises, EndCompress
  <2> QED BY ONLY <2>1, Due(r)' DEF Due
<1>2. CASE Postprocess
  <2>1. pc = "post" /\ batch' = batch /\ pc' \in {"compress", "schedule"}
    BY <1>2 DEF Postprocess
  <2> QED BY ONLY <2>1, Due(r)' DEF Due
<1>3. CASE StartCompress
  <2> PICK q : q = Rewritten
    OBVIOUS
  <2>1. pc = "compress" /\ pc' = "store" /\ todo' = q
    BY <1>3 DEF StartCompress
  <2>2. Members(q, r)
    BY ONLY <2>1, Due(r)' DEF Due
  <2>3. \A x : Members(q, x) => Members(batch, x)
    BY ONLY <1>b, q = Rewritten, RewrittenFacts
  <2> QED BY ONLY <2>1, <2>2, <2>3 DEF Due
<1>4. CASE UNCHANGED vars
  <2>1. UNCHANGED <<pc, batch, todo>>
    BY <1>4 DEF vars, queues
  <2> QED BY ONLY <2>1, Due(r)' DEF Due
<1> QED BY <1>1, <1>2, <1>3, <1>4 DEF Quiet

LEMMA CacheQuiet ==
  ASSUME Base, CacheInv, Quiet
  PROVE  CacheInv'
<1>1. UNCHANGED <<recipe, kv, heads>>
  BY QuietCaches
<1>2. ASSUME NEW r, Settled(r)' PROVE CacheOf(r)'
  <2>1. Settled(r) /\ Body(r)' = Body(r) /\ Stored(r)' = Stored(r)
    <3>1. SameBody(r)
      BY <1>2, QuietBodies
    <3> QED BY <3>1 DEF SameBody
  <2>2. Due(r)' => Due(r)
    BY QuietDue
  <2> QED BY <1>1, <2>1, <2>2, CacheStays
<1>3. kv' \in [Blocks -> Pair \cup {Nothing}]
  BY <1>1 DEF CacheInv
<1> QED BY <1>2, <1>3 DEF CacheInv

LEMMA CachePrefill ==
  ASSUME Base, CacheInv, RunPrefill
  PROVE  CacheInv'
<1>b. Types /\ Queues /\ Batches /\ Pool(Blocks, free, table)
  BY DEF Base
<1>0. /\ pc = "run" /\ pc' = "post" /\ prefill = TRUE
      /\ UNCHANGED <<recipe, plen, running, num_tokens, batch, prefill, table>>
  BY DEF RunPrefill, fixed, queues, blocks
<1>q. /\ running \in Seq(Requests) /\ batch \in Seq(Requests) /\ table \in [Requests -> Seq(Blocks)]
      /\ num_tokens \in [Requests -> Nat] /\ kv \in [Blocks -> Pair \cup {Nothing}]
      /\ \A x : Members(batch, x) => /\ Members(running, x) /\ x \in Requests /\ table[x] # << >>
                                     /\ num_tokens[x] = plen[x] /\ Len(table[x]) = plen[x]
  <2>1. \A x : Members(batch, x) => x \in Requests
    BY <1>b, MembersType DEF Types
  <2> QED BY <1>0, <1>b, <2>1 DEF Types, Pool, Batches, CacheInv
<1>r. \A x : x \in Range(batch) <=> Members(batch, x)
  BY RangeMembers
<1> DEFINE Own(b) == {s \in Range(batch) : b \in Range(table[s])}
<1>1. kv' = [b \in Blocks |-> IF Own(b) = {} THEN kv[b]
                              ELSE <<CHOOSE s \in Own(b) : TRUE, IndexOf(b, table[CHOOSE s \in Own(b) : TRUE]) - 1>>]
  BY DEF RunPrefill
<1>2. ASSUME NEW b, NEW s PROVE s \in Own(b) <=> Members(batch, s) /\ \E i \in DOMAIN table[s] : table[s][i] = b
  <2>1. b \in Range(table[s]) <=> \E i \in DOMAIN table[s] : table[s][i] = b
    <3>1. b \in Range(table[s]) <=> Members(table[s], b)
      BY RangeMembers
    <3> QED BY ONLY <3>1 DEF Members
  <2> QED BY ONLY <1>r, <2>1
<1> HIDE DEF Own
<1>3. ASSUME NEW s, Members(batch, s), NEW i \in DOMAIN table[s]
      PROVE  table[s][i] \in Blocks /\ kv'[table[s][i]] = <<s, i - 1>>
  <2> PICK b, c : b = table[s][i] /\ c = CHOOSE x \in Own(b) : TRUE
    OBVIOUS
  <2>1. s \in Requests /\ table[s] \in Seq(Blocks) /\ b \in Blocks
    <3>1. s \in Requests
      BY <1>3, <1>q
    <3>2. table[s] \in Seq(Blocks)
      BY ONLY <1>q, <3>1
    <3>3. b \in Blocks
      BY ONLY <3>2, i \in DOMAIN table[s], b = table[s][i]
    <3> QED BY <3>1, <3>2, <3>3
  <2>2. s \in Own(b)
    BY ONLY <1>2, <1>3, b = table[s][i]
  <2>3. c \in Own(b)
    BY ONLY <2>2, c = CHOOSE x \in Own(b) : TRUE
  <2>4. Members(batch, c) /\ \E j \in DOMAIN table[c] : table[c][j] = b
    BY ONLY <1>2, <2>3
  <2>5. c = s
    <3> PICK j \in DOMAIN table[c] : table[c][j] = b
      BY <2>4
    <3>1. c \in Requests
      BY <1>q, <2>4
    <3>2. table[s][i] = table[c][j]
      BY ONLY table[c][j] = b, b = table[s][i]
    <3> QED BY ONLY Base, <2>1, <3>1, <3>2, i \in DOMAIN table[s], j \in DOMAIN table[c], TablePlaces
  <2>6. IndexOf(b, table[s]) = i
    <3>1. Distinct(table[s])
      BY <1>b, <2>1 DEF Pool, Apart
    <3> QED BY ONLY <3>1, i \in DOMAIN table[s], b = table[s][i], IndexOfFacts
  <2>7. kv'[b] = <<c, IndexOf(b, table[c]) - 1>>
    BY ONLY <1>1, <2>1, <2>2, c = CHOOSE x \in Own(b) : TRUE
  <2>8. kv'[b] = <<s, i - 1>>
    BY ONLY <2>5, <2>6, <2>7
  <2> QED BY ONLY <2>1, <2>8, b = table[s][i]
<1>4. ASSUME NEW s \in Requests, ~Members(batch, s), NEW i \in DOMAIN table[s]
      PROVE  kv'[table[s][i]] = kv[table[s][i]]
  <2> PICK b : b = table[s][i]
    OBVIOUS
  <2>1. b \in Blocks
    <3>1. table[s] \in Seq(Blocks)
      BY ONLY <1>q, s \in Requests
    <3> QED BY ONLY <3>1, i \in DOMAIN table[s], b = table[s][i]
  <2>2. ASSUME NEW c \in Own(b) PROVE FALSE
    <3>1. Members(batch, c) /\ \E j \in DOMAIN table[c] : table[c][j] = b
      BY ONLY <1>2, c \in Own(b)
    <3> PICK j \in DOMAIN table[c] : table[c][j] = b
      BY <3>1
    <3>2. c \in Requests
      BY <1>q, <3>1
    <3>3. table[s][i] = table[c][j]
      BY ONLY table[c][j] = b, b = table[s][i]
    <3>4. s = c
      BY ONLY Base, s \in Requests, <3>2, <3>3, i \in DOMAIN table[s], j \in DOMAIN table[c], TablePlaces
    <3> QED BY ONLY <1>4, <3>1, <3>4
  <2>3. Own(b) = {}
    BY ONLY <2>2
  <2> QED BY ONLY <1>1, <2>1, <2>3, b = table[s][i]
<1>5. kv' \in [Blocks -> Pair \cup {Nothing}]
  <2>1. ASSUME NEW b \in Blocks PROVE kv'[b] \in Pair \cup {Nothing}
    <3>1. CASE Own(b) = {}
      BY ONLY <1>1, <1>q, <3>1, b \in Blocks
    <3>2. CASE Own(b) # {}
      <4> PICK s \in Own(b) : TRUE
        BY ONLY <3>2
      <4>1. Members(batch, s) /\ \E i \in DOMAIN table[s] : table[s][i] = b
        BY ONLY <1>2, s \in Own(b)
      <4> PICK i \in DOMAIN table[s] : table[s][i] = b
        BY <4>1
      <4>2. kv'[table[s][i]] = <<s, i - 1>>
        BY ONLY <1>3, <4>1, i \in DOMAIN table[s]
      <4>3. s \in Requests
        BY <1>q, <4>1
      <4>4. i - 1 \in Nat
        <5>1. table[s] \in Seq(Blocks)
          BY ONLY <1>q, <4>3
        <5> QED BY ONLY <5>1, i \in DOMAIN table[s]
      <4>5. <<s, i - 1>> \in Pair
        BY ONLY <4>3, <4>4 DEF Pair
      <4>6. kv'[b] = <<s, i - 1>>
        BY ONLY <4>2, table[s][i] = b
      <4> QED BY ONLY <4>5, <4>6
    <3> QED BY <3>1, <3>2
  <2>2. DOMAIN kv' = Blocks /\ kv' = [b \in Blocks |-> kv'[b]]
    BY ONLY <1>1
  <2> QED BY ONLY <2>1, <2>2
<1>6. ASSUME NEW r, Settled(r)' PROVE CacheOf(r)'
  <2>1. r \in Requests /\ Members(running, r) /\ table[r] \in Seq(Blocks)
    BY <1>0, <1>6, <1>q, MembersType DEF Settled
  <2>2. /\ Body(r)' = table[r] /\ Stored(r)' = IF Members(batch, r) THEN num_tokens[r] ELSE num_tokens[r] - 1
        /\ Due(r)' <=> Members(batch, r)
    BY ONLY <1>0 DEF Body, Fresh, Stored, Due
  <2>h. heads' = IF recipe = "headwise"
                 THEN [x \in Requests |-> IF x \in Range(batch) THEN [h \in Heads |-> plen[x]] ELSE heads[x]]
                 ELSE heads
    BY DEF RunPrefill
  <2>3. CASE ~Members(batch, r)
    <3>1. Settled(r) /\ Body(r) = table[r] /\ Stored(r) = num_tokens[r] - 1
      BY ONLY <1>0, <2>1, <2>3 DEF Settled, Body, Fresh, Stored
    <3>2. Body(r)' = Body(r) /\ Stored(r)' = Stored(r)
      BY ONLY <2>2, <2>3, <3>1
    <3>3. heads'[r] = heads[r]
      <4>1. r \notin Range(batch)
        BY ONLY <1>r, <2>3
      <4> QED BY ONLY <2>1, <2>h, <4>1
    <3>4. Due(r)' => Due(r)
      BY ONLY <2>2, <2>3
    <3>5. \A i \in DOMAIN Body(r) : kv'[Body(r)[i]] = kv[Body(r)[i]]
      BY ONLY <1>4, <2>1, <2>3, <3>1
    <3>6. recipe' = recipe
      BY ONLY <1>0
    <3> QED BY ONLY CacheInv, <3>1, <3>2, <3>3, <3>4, <3>5, <3>6, CacheStays
  <2>4. CASE Members(batch, r)
    <3> PICK n : n = plen[r]
      OBVIOUS
    <3>1. n \in Nat \ {0} /\ DOMAIN table[r] = 1 .. n /\ Stored(r)' = n /\ table[r] # << >>
      <4>1. /\ table[r] # << >> /\ Len(table[r]) = n /\ num_tokens[r] = n
        BY <1>q, <2>4, n = plen[r]
      <4> QED BY ONLY <2>1, <2>2, <2>4, <4>1
    <3> PICK e : e = [i \in 1 .. n |-> <<r, i - 1>>]
      OBVIOUS
    <3>2. Good(e, r, n, n) /\ e \in Seq(Pair) /\ Len(e) = n /\ e[Len(e)] = <<r, n - 1>>
      <4>1. n \in Nat \ {0}
        BY <3>1
      <4>2. r \in Requests
        BY <2>1
      <4>3. Prompted(e, r, n)
        BY ONLY <4>1, <4>2, e = [i \in 1 .. n |-> <<r, i - 1>>], GoodPrompt
      <4> QED BY ONLY <4>3 DEF Prompted
    <3>3. Contents(r)' = e
      <4>1. Contents(r)' = [i \in DOMAIN table[r] |-> kv'[table[r][i]]]
        BY ONLY <2>2 DEF Contents
      <4>2. \A i \in 1 .. n : kv'[table[r][i]] = <<r, i - 1>>
        BY ONLY <1>3, <2>4, <3>1
      <4> QED BY ONLY <3>1, <4>1, <4>2, e = [i \in 1 .. n |-> <<r, i - 1>>]
    <3>4. Filter(e, Pair) = e
      <4>1. /\ Len(e) <= Len(e)
            /\ \A k \in 1 .. Len(e) : e[k] = e[k] /\ e[k] \in Pair
            /\ \A k \in Len(e) + 1 .. Len(e) : e[k] \notin Pair
        BY ONLY <3>1, <3>2
      <4>2. e \in Seq(Pair)
        BY <3>2
      <4> QED BY ONLY <4>1, <4>2, FilterPad
    <3>5. Cells(r)' = e
      BY ONLY <3>3, <3>4 DEF Cells
    <3>6. recipe = "headwise" => heads'[r][1] = n
      <4>1. r \in Range(batch) /\ 1 \in Heads
        <5>1. NumHeads \in Nat \ {0}
          BY KVAssumption
        <5> QED BY ONLY <1>r, <2>4, <5>1 DEF Heads
      <4> QED BY ONLY <2>1, <2>h, <4>1, n = plen[r]
    <3> PICK k : k = heads'[r][1]
      OBVIOUS
    <3>7. Good(e, r, n, k)
      BY ONLY <3>2, <3>6, k = heads'[r][1] DEF Good
    <3>8. Good(Cells(r), r, Stored(r), heads[r][1])'
      BY ONLY <1>0, <3>1, <3>5, <3>7, k = heads'[r][1] DEF Good
    <3>9. \A i \in DOMAIN Body(r)' : kv'[Body(r)'[i]] \in Pair
      <4>1. \A i \in 1 .. n : <<r, i - 1>> \in Pair
        BY ONLY <2>1, <3>1 DEF Pair
      <4>2. \A i \in 1 .. n : kv'[table[r][i]] = <<r, i - 1>>
        BY ONLY <1>3, <2>4, <3>1
      <4>3. \A i \in 1 .. n : kv'[table[r][i]] \in Pair
        BY ONLY <4>1, <4>2
      <4> QED BY ONLY <2>2, <3>1, <4>3
    <3>10. (Cells(r)[Len(Cells(r))] = <<r, Stored(r) - 1>>)'
      BY ONLY <3>1, <3>2, <3>5
    <3> QED BY ONLY <3>8, <3>9, <3>10 DEF CacheOf
  <2> QED BY <2>3, <2>4
<1> QED BY <1>5, <1>6 DEF CacheInv

LEMMA CacheDecode ==
  ASSUME Base, PagesInv, CacheInv, RunDecode
  PROVE  CacheInv'
<1>b. Types /\ Queues /\ Batches /\ Pool(Blocks, free, table)
  BY DEF Base
<1>0. /\ pc = "run" /\ pc' = "post" /\ prefill = FALSE
      /\ UNCHANGED <<recipe, plen, running, num_tokens, batch, prefill, table>>
  <2>1. /\ pc = "run" /\ pc' = "post" /\ ~prefill
        /\ UNCHANGED <<recipe, plen, running, num_tokens, batch, prefill, table>>
    <3>1. /\ pc = "run" /\ ~prefill /\ pc' = "post"
          /\ UNCHANGED <<fixed, queues, blocks, row, nextRow, collided, curStep, todo>>
      BY ONLY RunDecode, Zenon DEF RunDecode
    <3> QED BY ONLY <3>1 DEF fixed, queues, blocks
  <2>2. prefill \in BOOLEAN
    BY ONLY <1>b DEF Types
  <2> QED BY ONLY <2>1, <2>2
<1>q. /\ running \in Seq(Requests) /\ batch \in Seq(Requests) /\ table \in [Requests -> Seq(Blocks)]
      /\ num_tokens \in [Requests -> Nat] /\ kv \in [Blocks -> Pair \cup {Nothing}]
      /\ heads \in [Requests -> [Heads -> Nat]]
      /\ \A x : Members(batch, x) => Members(running, x) /\ x \in Requests /\ table[x] # << >>
  <2>1. \A x : Members(batch, x) => x \in Requests
    BY <1>b, MembersType DEF Types
  <2> QED BY <1>0, <1>b, <2>1 DEF Types, Pool, Batches, PagesInv, PageTypes, CacheInv
<1>r. \A x : x \in Range(batch) <=> Members(batch, x)
  BY RangeMembers
<1>1. kv' = [b \in Blocks |->
               IF \E s \in Range(batch) : Last(table[s]) = b
               THEN <<CHOOSE s \in Range(batch) : Last(table[s]) = b,
                      num_tokens[CHOOSE s \in Range(batch) : Last(table[s]) = b] - 1>>
               ELSE kv[b]]
  BY ONLY RunDecode, Zenon DEF RunDecode
<1>2. ASSUME NEW s, Members(batch, s)
      PROVE  s \in Requests /\ Len(table[s]) \in DOMAIN table[s] /\ table[s][Len(table[s])] = Last(table[s])
  <2>1. s \in Requests /\ table[s] # << >>
    BY <1>2, <1>q
  <2>2. table[s] \in Seq(Blocks)
    BY ONLY <1>q, <2>1
  <2>3. Len(table[s]) \in DOMAIN table[s]
    BY ONLY <2>1, <2>2
  <2> QED BY ONLY <2>1, <2>3 DEF Last
<1>3. ASSUME NEW s, Members(batch, s), NEW t \in Requests, NEW i \in DOMAIN table[t], Last(table[s]) = table[t][i]
      PROVE  s = t /\ i = Len(table[t])
  <2> PICK j : j = Len(table[s])
    OBVIOUS
  <2>1. s \in Requests /\ j \in DOMAIN table[s] /\ table[s][j] = Last(table[s])
    BY ONLY <1>2, <1>3, j = Len(table[s])
  <2>2. table[s][j] = table[t][i]
    BY ONLY <1>3, <2>1
  <2>3. s = t /\ j = i
    BY ONLY Base, <2>1, <2>2, t \in Requests, i \in DOMAIN table[t], TablePlaces
  <2> QED BY ONLY <2>3, j = Len(table[s])
<1>4. ASSUME NEW s, Members(batch, s)
      PROVE  kv'[table[s][Len(table[s])]] = <<s, num_tokens[s] - 1>>
  <2> PICK b, c : b = Last(table[s]) /\ c = CHOOSE x \in Range(batch) : Last(table[x]) = b
    OBVIOUS
  <2>1. s \in Range(batch) /\ s \in Requests /\ table[s][Len(table[s])] = b /\ Len(table[s]) \in DOMAIN table[s]
    BY ONLY <1>2, <1>4, <1>r, b = Last(table[s])
  <2>2. c \in Range(batch) /\ Last(table[c]) = b
    BY ONLY <2>1, b = Last(table[s]), c = CHOOSE x \in Range(batch) : Last(table[x]) = b
  <2>3. Members(batch, c)
    BY ONLY <1>r, <2>2
  <2>4. c = s
    <3>1. Last(table[c]) = table[s][Len(table[s])]
      BY ONLY <2>1, <2>2
    <3> QED BY ONLY <1>3, <2>1, <2>3, <3>1
  <2>5. b \in Blocks
    <3>1. table[s] \in Seq(Blocks)
      BY ONLY <1>q, <2>1
    <3> QED BY ONLY <2>1, <3>1
  <2>6. kv'[b] = <<c, num_tokens[c] - 1>>
    BY ONLY <1>1, <2>2, <2>5, c = CHOOSE x \in Range(batch) : Last(table[x]) = b
  <2> QED BY ONLY <2>1, <2>4, <2>6
<1>5. ASSUME NEW t \in Requests, NEW i \in DOMAIN table[t], Members(batch, t) => i # Len(table[t])
      PROVE  kv'[table[t][i]] = kv[table[t][i]]
  <2> PICK b : b = table[t][i]
    OBVIOUS
  <2>1. b \in Blocks
    <3>1. table[t] \in Seq(Blocks)
      BY ONLY <1>q, t \in Requests
    <3> QED BY ONLY <3>1, i \in DOMAIN table[t], b = table[t][i]
  <2>2. ASSUME NEW s \in Range(batch), Last(table[s]) = b PROVE FALSE
    <3>1. Members(batch, s)
      BY ONLY <1>r, s \in Range(batch)
    <3>2. Last(table[s]) = table[t][i]
      BY ONLY <2>2, b = table[t][i]
    <3>3. s = t /\ i = Len(table[t])
      BY ONLY <1>3, <3>1, <3>2, t \in Requests, i \in DOMAIN table[t]
    <3> QED BY ONLY <1>5, <3>1, <3>3
  <2>3. ~\E s \in Range(batch) : Last(table[s]) = b
    BY ONLY <2>2
  <2>4. kv'[b] = kv[b]
    BY ONLY <1>1, <2>1, <2>3
  <2> QED BY ONLY <2>4, b = table[t][i]
<1>6. ASSUME NEW r, Members(running, r)
      PROVE  /\ r \in Requests /\ Settled(r) /\ CacheOf(r) /\ table[r] \in Seq(Blocks)
             /\ Stored(r) = num_tokens[r] - 1 /\ Stored(r) \in Nat
  <2>1. Settled(r) /\ Stored(r) = num_tokens[r] - 1
    BY ONLY <1>0, <1>6 DEF Settled, Stored
  <2>2. CacheOf(r)
    BY ONLY <2>1, CacheInv DEF CacheInv
  <2>3. Stored(r) \in Nat
    BY ONLY <2>2 DEF CacheOf, Good, Owned
  <2>4. r \in Requests
    BY ONLY <1>6, <1>q, MembersType
  <2>5. table[r] \in Seq(Blocks)
    BY ONLY <1>q, <2>4
  <2> QED BY ONLY <2>1, <2>2, <2>3, <2>4, <2>5
<1>7. kv' \in [Blocks -> Pair \cup {Nothing}]
  <2>1. ASSUME NEW b \in Blocks PROVE kv'[b] \in Pair \cup {Nothing}
    <3>1. CASE ~\E s \in Range(batch) : Last(table[s]) = b
      <4>1. kv'[b] = kv[b]
        BY ONLY <1>1, <3>1, b \in Blocks
      <4> QED BY ONLY <1>q, <4>1, b \in Blocks
    <3>2. CASE \E s \in Range(batch) : Last(table[s]) = b
      <4> PICK s \in Range(batch) : Last(table[s]) = b
        BY ONLY <3>2
      <4>1. Members(batch, s) /\ Members(running, s)
        BY <1>r, <1>q
      <4>2. kv'[b] = <<s, num_tokens[s] - 1>>
        BY ONLY <1>2, <1>4, <4>1, Last(table[s]) = b
      <4>3. s \in Requests /\ num_tokens[s] - 1 \in Nat
        BY ONLY <1>6, <4>1
      <4>4. <<s, num_tokens[s] - 1>> \in Pair
        BY ONLY <4>3 DEF Pair
      <4> QED BY ONLY <4>2, <4>4
    <3> QED BY <3>1, <3>2
  <2>2. DOMAIN kv' = Blocks /\ kv' = [b \in Blocks |-> kv'[b]]
    BY ONLY <1>1
  <2> QED BY ONLY <2>1, <2>2
<1>h. /\ heads' \in [Requests -> [Heads -> Nat]]
      /\ \A r \in Requests, h \in Heads : heads'[r][h] = IF recipe = "headwise" /\ r \in Range(batch) THEN heads[r][h] + 1
                                                         ELSE heads[r][h]
  <2>1. heads' = [r \in Requests |-> [h \in Heads |->
                     IF recipe = "headwise" /\ r \in Range(batch) THEN heads[r][h] + 1
                     ELSE heads[r][h]]]
    BY DEF RunDecode
  <2> QED BY ONLY <1>q, <2>1
<1>8. ASSUME NEW r, Settled(r)' PROVE CacheOf(r)'
  <2>1. Members(running, r)
    BY ONLY <1>0, <1>8 DEF Settled
  <2>2. /\ r \in Requests /\ Settled(r) /\ CacheOf(r) /\ table[r] \in Seq(Blocks)
        /\ Stored(r) = num_tokens[r] - 1 /\ Stored(r) \in Nat
    BY ONLY <1>6, <2>1
  <2>3. /\ Body(r)' = table[r] /\ Stored(r)' = IF Members(batch, r) THEN num_tokens[r] ELSE num_tokens[r] - 1
        /\ Due(r)' <=> Members(batch, r)
    BY ONLY <1>0 DEF Body, Fresh, Stored, Due
  <2>4. CASE ~Members(batch, r)
    <3>1. Body(r) = table[r]
      BY ONLY <2>4 DEF Body, Fresh
    <3>2. Body(r)' = Body(r) /\ Stored(r)' = Stored(r)
      BY ONLY <2>2, <2>3, <2>4, <3>1
    <3>3. heads'[r] = heads[r]
      <4>1. r \notin Range(batch)
        BY ONLY <1>r, <2>4
      <4>2. heads'[r] \in [Heads -> Nat] /\ heads[r] \in [Heads -> Nat]
        BY ONLY <1>h, <1>q, <2>2
      <4>3. \A h \in Heads : heads'[r][h] = heads[r][h]
        BY ONLY <1>h, <2>2, <4>1
      <4> QED BY ONLY <4>2, <4>3
    <3>4. Due(r)' => Due(r)
      BY ONLY <2>3, <2>4
    <3>5. \A i \in DOMAIN Body(r) : kv'[Body(r)[i]] = kv[Body(r)[i]]
      BY ONLY <1>5, <2>2, <2>4, <3>1
    <3>6. recipe' = recipe
      BY ONLY <1>0
    <3> QED BY ONLY CacheInv, <2>2, <3>2, <3>3, <3>4, <3>5, <3>6, CacheStays
  <2>5. CASE Members(batch, r)
    <3> PICK n, L, e, k : n = Stored(r) /\ L = Len(table[r]) /\ e = Cells(r) /\ k = heads[r][1]
      OBVIOUS
    <3> PICK x : x = <<r, n>>
      OBVIOUS
    <3>1. n \in Nat /\ L \in Nat \ {0} /\ DOMAIN table[r] = 1 .. L /\ Stored(r)' = n + 1 /\ x \in Pair
      <4>1. table[r] # << >>
        BY ONLY <1>q, <2>5
      <4>2. L \in Nat \ {0} /\ DOMAIN table[r] = 1 .. L
        BY ONLY <2>2, <4>1, L = Len(table[r])
      <4>3. num_tokens[r] \in Nat
        BY ONLY <1>q, <2>2
      <4>4. Stored(r)' = n + 1
        BY ONLY <2>2, <2>3, <2>5, <4>3, n = Stored(r)
      <4>5. x \in Pair
        BY ONLY <2>2, n = Stored(r), x = <<r, n>> DEF Pair
      <4> QED BY ONLY <2>2, <4>2, <4>4, <4>5, n = Stored(r)
    <3> PICK s : s = Contents(r)
      OBVIOUS
    <3>2. /\ s \in Seq(Pair \cup {Nothing}) /\ Len(s) = L - 1
          /\ \A i \in 1 .. L - 1 : s[i] = kv[table[r][i]]
      <4>1. /\ Body(r) \in Seq(Blocks) /\ DOMAIN Body(r) = 1 .. L - 1
            /\ \A i \in DOMAIN Body(r) : table[r][i] = Body(r)[i]
        <5>1. Fresh(r)
          BY ONLY <1>0, <2>5 DEF Fresh
        <5>2. /\ Body(r) \in Seq(Blocks)
              /\ \A i \in DOMAIN Body(r) : i \in DOMAIN table[r] /\ table[r][i] = Body(r)[i]
              /\ Fresh(r) => DOMAIN Body(r) = 1 .. Len(table[r]) - 1 /\ Len(table[r]) \in Nat \ {0}
          BY ONLY Base, <2>2, BodyFacts
        <5> QED BY ONLY <5>1, <5>2, L = Len(table[r])
      <4>2. \A i \in 1 .. L - 1 : kv[table[r][i]] \in Pair \cup {Nothing}
        <5>1. \A i \in 1 .. L - 1 : i \in 1 .. L
          BY ONLY <3>1
        <5>2. \A i \in 1 .. L : table[r][i] \in Blocks
          BY ONLY <2>2, <3>1
        <5> QED BY ONLY <1>q, <5>1, <5>2
      <4>3. s = [i \in 1 .. L - 1 |-> kv[table[r][i]]]
        BY ONLY <4>1, s = Contents(r) DEF Contents
      <4>4. L - 1 \in Nat
        BY ONLY <3>1
      <4> QED BY ONLY <4>2, <4>3, <4>4
    <3>3. Contents(r)' = Append(s, x)
      <4>1. Contents(r)' = [i \in 1 .. L |-> kv'[table[r][i]]]
        BY ONLY <2>3, <3>1 DEF Contents
      <4>2. kv'[table[r][L]] = x
        BY ONLY <1>4, <2>2, <2>5, L = Len(table[r]), n = Stored(r), x = <<r, n>>
      <4>3. \A i \in 1 .. L - 1 : kv'[table[r][i]] = s[i]
        <5>1. \A i \in 1 .. L - 1 : i \in 1 .. L /\ i # L
          BY ONLY <3>1
        <5>2. \A i \in 1 .. L - 1 : kv'[table[r][i]] = kv[table[r][i]]
          BY ONLY <1>5, <2>2, <3>1, <5>1, L = Len(table[r])
        <5> QED BY ONLY <3>2, <5>2
      <4> PICK w : w = Contents(r)'
        OBVIOUS
      <4>4. w = [i \in 1 .. L |-> IF i = L THEN x ELSE s[i]]
        <5>1. \A i \in 1 .. L : i = L \/ i \in 1 .. L - 1
          BY ONLY <3>1
        <5>2. \A i \in 1 .. L : kv'[table[r][i]] = IF i = L THEN x ELSE s[i]
          BY ONLY <4>2, <4>3, <5>1
        <5> QED BY ONLY <4>1, <5>2, w = Contents(r)'
      <4>5. w = Append(s, x)
        <5>1. Append(s, x) = [i \in 1 .. L |-> IF i = L THEN x ELSE s[i]]
          <6> PICK p : p = Append(s, x)
            OBVIOUS
          <6>1. /\ p \in Seq(Pair \cup {Nothing}) /\ Len(p) = L
                /\ p[L] = x /\ \A i \in 1 .. L - 1 : p[i] = s[i]
            <7>1. x \in Pair \cup {Nothing}
              BY ONLY <3>1
            <7>2. (L - 1) + 1 = L
              BY ONLY <3>1
            <7> QED BY ONLY <3>2, <7>1, <7>2, p = Append(s, x)
          <6>3. p = [i \in 1 .. L |-> p[i]]
            BY ONLY <6>1
          <6>2. \A i \in 1 .. L : p[i] = IF i = L THEN x ELSE s[i]
            <7>1. \A i \in 1 .. L : i = L \/ i \in 1 .. L - 1
              BY ONLY <3>1
            <7> QED BY ONLY <6>1, <7>1
          <6> QED BY ONLY <6>3, <6>2, p = Append(s, x)
        <5> QED BY ONLY <4>4, <5>1
      <4> QED BY ONLY <4>5, w = Contents(r)'
    <3>4. Cells(r)' = Append(e, x)
      <4> PICK w : w = Append(s, x)
        OBVIOUS
      <4>1. x \in Pair \cup {Nothing} /\ s \in Seq(Pair \cup {Nothing}) /\ x \in Pair
        BY ONLY <3>1, <3>2
      <4>2. Filter(w, Pair) = Append(Filter(s, Pair), x)
        BY ONLY <4>1, w = Append(s, x), FilterAppend
      <4>3. e = Filter(s, Pair)
        BY ONLY e = Cells(r), s = Contents(r) DEF Cells
      <4>4. Cells(r)' = Filter(w, Pair)
        BY ONLY <3>3, w = Append(s, x) DEF Cells
      <4> QED BY ONLY <4>2, <4>3, <4>4
    <3> PICK d : d = Append(e, <<r, n>>)
      OBVIOUS
    <3>5. Good(d, r, n + 1, k + 1) /\ d[Len(d)] = <<r, (n + 1) - 1>>
      <4>1. Good(e, r, n, k)
        BY ONLY <2>2, e = Cells(r), n = Stored(r), k = heads[r][1] DEF CacheOf
      <4>2. r \in Requests
        BY <2>2
      <4>3. d = Append(e, <<r, n>>)
        OBVIOUS
      <4>4. Grown(d, r, n, k)
        BY ONLY <4>1, <4>2, <4>3, GoodAppend
      <4> QED BY ONLY <4>4 DEF Grown
    <3>6. Cells(r)' = d
      BY ONLY <3>4, x = <<r, n>>, d = Append(e, <<r, n>>)
    <3> PICK j : j = heads'[r][1]
      OBVIOUS
    <3>7. Good(d, r, n + 1, j)
      <4>1. recipe = "headwise" => j = k + 1
        <5>1. r \in Range(batch) /\ 1 \in Heads
          <6>1. NumHeads \in Nat \ {0}
            BY KVAssumption
          <6> QED BY ONLY <1>r, <2>5, <6>1 DEF Heads
        <5> QED BY ONLY <1>h, <2>2, <5>1, j = heads'[r][1], k = heads[r][1]
      <4> QED BY ONLY <3>5, <4>1 DEF Good
    <3>8. Good(Cells(r), r, Stored(r), heads[r][1])'
      BY ONLY <1>0, <3>1, <3>6, <3>7, j = heads'[r][1] DEF Good
    <3>9. ASSUME recipe = "layerwise" PROVE \A i \in DOMAIN Body(r)' : kv'[Body(r)'[i]] \in Pair
      <4>1. \A i \in DOMAIN Body(r) : kv[Body(r)[i]] \in Pair
        BY ONLY <2>2, <3>9 DEF CacheOf
      <4>2. \A i \in 1 .. L - 1 : s[i] \in Pair
        <5>1. DOMAIN s = 1 .. L - 1
          BY ONLY <3>1, <3>2
        <5>2. s = [i \in DOMAIN Body(r) |-> kv[Body(r)[i]]]
          BY ONLY s = Contents(r) DEF Contents
        <5> QED BY ONLY <4>1, <5>1, <5>2
      <4>3. \A i \in 1 .. L : Append(s, x)[i] \in Pair
        <5> PICK p : p = Append(s, x)
          OBVIOUS
        <5>1. p[L] = x /\ \A i \in 1 .. L - 1 : p[i] = s[i]
          BY ONLY <3>1, <3>2, p = Append(s, x)
        <5>2. \A i \in 1 .. L : i = L \/ i \in 1 .. L - 1
          BY ONLY <3>1
        <5>3. x \in Pair
          BY <3>1
        <5> QED BY ONLY <4>2, <5>1, <5>2, <5>3, p = Append(s, x)
      <4>4. \A i \in 1 .. L : kv'[table[r][i]] = Append(s, x)[i]
        <5>1. Contents(r)' = [i \in 1 .. L |-> kv'[table[r][i]]]
          BY ONLY <2>3, <3>1 DEF Contents
        <5> QED BY ONLY <3>3, <5>1
      <4> QED BY ONLY <2>3, <3>1, <4>3, <4>4
    <3>10. (Cells(r)[Len(Cells(r))] = <<r, Stored(r) - 1>>)'
      BY ONLY <3>1, <3>5, <3>6
    <3> QED BY ONLY <1>0, <3>8, <3>9, <3>10 DEF CacheOf
  <2> QED BY <2>4, <2>5
<1> QED BY <1>7, <1>8 DEF CacheInv

(* What a compression keeps of a request.                                  *)
LEMMA KeptGood ==
  ASSUME Base, PagesInv, CacheInv, pc = "store", NEW r, Members(todo, r),
         NEW kept, NEW n, Compressed(r, kept, n)
  PROVE  /\ r \in Requests /\ Good(kept, r, Stored(r), n) /\ kept \in Seq(Pair) /\ Len(kept) <= n
         /\ recipe = "layerwise" => Len(kept) = n
<1>b. /\ table \in [Requests -> Seq(Blocks)] /\ kv \in [Blocks -> Pair \cup {Nothing}] /\ recipe \in {"layerwise", "headwise"}
      /\ todo \in Seq(Requests)
  <2>1. recipe \in {"layerwise", "headwise"}
    BY KVAssumption DEF Base, Types
  <2> QED BY <2>1 DEF Base, Types, Pool, CacheInv
<1>1. /\ kept \in Kept(r, n) /\ n \in 1 .. Len(table[r]) /\ Recent < n
      /\ recipe = "layerwise" => n = Budget
  BY DEF Compressed
<1>2. r \in Requests /\ Members(running, r) /\ Len(table[r]) >= Budget
  <2>1. Members(running, r) /\ Len(table[r]) >= Budget
    BY DEF Base, Batches
  <2>2. r \in Requests
    BY ONLY <1>b, Members(todo, r), MembersType
  <2> QED BY ONLY <2>1, <2>2
<1>3. Settled(r) /\ Body(r) = table[r] /\ Due(r)
  BY <1>2 DEF Settled, Fresh, Body, Due
<1>4. CacheOf(r)
  BY ONLY <1>3, CacheInv DEF CacheInv
<1> PICK e, s, m : e = Cells(r) /\ s = Contents(r) /\ m = n
  OBVIOUS
<1> PICK q, k : q = Stored(r) /\ k = heads[r][1]
  OBVIOUS
<1>5. Entries(r) = e /\ e = Filter(s, Pair) /\ s = [i \in DOMAIN table[r] |-> kv[table[r][i]]]
  BY ONLY <1>3, e = Cells(r), s = Contents(r) DEF Entries, Cells, Contents, Pair
<1>6. Good(e, r, q, k)
  BY ONLY <1>4, e = Cells(r), q = Stored(r), k = heads[r][1] DEF CacheOf
<1>7. 1 \in Heads
  <2>1. NumHeads \in Nat \ {0}
    BY KVAssumption
  <2> QED BY ONLY <2>1 DEF Heads
<1>8. CASE recipe = "layerwise"
  <2>1. s \in Seq(Pair) /\ Len(s) = Len(table[r])
    <3>1. table[r] \in Seq(Blocks)
      BY ONLY <1>b, <1>2
    <3>2. \A i \in DOMAIN table[r] : kv[table[r][i]] \in Pair
      BY ONLY <1>3, <1>4, <1>8 DEF CacheOf
    <3> QED BY ONLY <1>5, <3>1, <3>2
  <2>2. e = s
    <3>1. /\ Len(s) <= Len(s)
          /\ \A i \in 1 .. Len(s) : s[i] = s[i] /\ s[i] \in Pair
          /\ \A i \in Len(s) + 1 .. Len(s) : s[i] \notin Pair
      BY ONLY <2>1
    <3>2. s \in Seq(Pair)
      BY <2>1
    <3>3. Filter(s, Pair) = s
      BY ONLY <3>1, <3>2, FilterPad
    <3> QED BY ONLY <1>5, <3>3
  <2>3. Len(e) >= Budget
    BY ONLY <1>2, <2>1, <2>2
  <2>4. kept \in KeptLayerwise(e)
    BY ONLY <1>1, <1>5, <1>8 DEF Kept
  <2>5. Good(kept, r, q, Budget) /\ kept \in Seq(Pair) /\ Len(kept) = Budget
    BY ONLY <1>6, <1>8, <2>3, <2>4, GoodLayerwise
  <2>6. n = Budget
    BY ONLY <1>1, <1>8
  <2>7. n <= n
    BY ONLY <1>1
  <2> QED BY ONLY <1>2, <2>5, <2>6, <2>7, q = Stored(r)
<1>9. CASE recipe = "headwise"
  <2>1. e[Len(e)] = <<r, q - 1>>
    BY ONLY <1>3, <1>4, <1>9, e = Cells(r), q = Stored(r) DEF CacheOf
  <2>2. Len(e) = k
    BY ONLY <1>6, <1>9 DEF Good
  <2>3. recipe # "layerwise"
    BY ONLY <1>9
  <2>4. m \in Nat /\ Recent < m /\ m <= Len(e) /\ m <= n
    <3>1. k = Len(table[r])
      <4>1. Fits
        BY PagesFit
      <4> QED BY ONLY <1>7, <1>9, <4>1, pc = "store", Members(todo, r), k = heads[r][1] DEF Fits
    <3>2. m \in 1 .. k
      BY ONLY <1>1, <3>1, m = n
    <3>3. k \in Nat
      <4>1. table[r] \in Seq(Blocks)
        BY ONLY <1>b, <1>2
      <4> QED BY ONLY <3>1, <4>1
    <3> QED BY ONLY <1>1, <2>2, <3>2, <3>3, m = n
  <2>5. kept \in KeptHeadwise(e, m)
    BY ONLY <1>1, <1>5, <2>3, m = n DEF Kept
  <2>6. Good(kept, r, q, m) /\ kept \in Seq(Pair) /\ Len(kept) = m
    <3>1. m \in Nat
      BY <2>4
    <3>2. Recent < m
      BY <2>4
    <3>3. m <= Len(e)
      BY <2>4
    <3> QED BY ONLY <1>6, <1>9, <2>1, <2>5, <3>1, <3>2, <3>3, GoodHeadwise
  <2>7. Len(kept) <= n
    BY ONLY <2>4, <2>6
  <2> QED BY ONLY <1>2, <2>3, <2>6, <2>7, q = Stored(r), m = n
<1> QED BY ONLY <1>b, <1>8, <1>9

LEMMA CacheStore ==
  ASSUME Base, PagesInv, CacheInv, Store
  PROVE  CacheInv'
<1>0. /\ pc = "store" /\ pc' = "store" /\ todo # << >> /\ todo' = Tail(todo)
      /\ UNCHANGED <<recipe, running, num_tokens>>
  BY DEF Store, fixed, queues
<1> PICK r : r = Head(todo)
  OBVIOUS
<1>1. r \in Requests /\ \E kept, n : Compressed(r, kept, n)
  BY StoreFacts
<1> PICK kept, n : Compressed(r, kept, n)
  BY <1>1
<1>b. /\ table \in [Requests -> Seq(Blocks)] /\ kv \in [Blocks -> Pair \cup {Nothing}] /\ running \in Seq(Requests)
      /\ todo \in Seq(Requests) /\ Distinct(todo) /\ heads \in [Requests -> [Heads -> Nat]] /\ Distinct(table[r])
  BY <1>0, <1>1 DEF Base, Types, Batches, Pool, Apart, CacheInv, PagesInv, PageTypes
<1> PICK p : p = Tail(todo)
  OBVIOUS
<1>2. Members(todo, r) /\ ~Members(p, r) /\ \A x : Members(p, x) => Members(todo, x)
  <2>1. Popped(todo, r, p, Requests)
    BY ONLY <1>0, <1>b, r = Head(todo), p = Tail(todo), HeadTail
  <2> QED BY ONLY <1>b, <2>1 DEF Popped
<1>3. /\ Good(kept, r, Stored(r), n) /\ kept \in Seq(Pair) /\ Len(kept) <= n
      /\ recipe = "layerwise" => Len(kept) = n
  BY ONLY Base, PagesInv, CacheInv, <1>0, <1>2, Compressed(r, kept, n), KeptGood
<1> PICK q, a : q = table[r] /\ a = SubSeq(q, 1, n)
  OBVIOUS
<1>4. /\ n \in 0 .. Len(q) /\ q \in Seq(Blocks)
      /\ table' = [table EXCEPT ![r] = a]
      /\ heads' = IF recipe = "headwise" THEN [heads EXCEPT ![r] = [h \in Heads |-> n]] ELSE heads
      /\ kv' = [b \in Blocks |->
                 IF b \notin Range(a) THEN kv[b]
                 ELSE IF IndexOf(b, q) <= Len(kept) THEN kept[IndexOf(b, q)] ELSE Nothing]
  <2>1. n \in 1 .. Len(q)
    BY ONLY Compressed(r, kept, n), q = table[r] DEF Compressed
  <2>2. n \in 0 .. Len(q)
    BY ONLY <2>1
  <2> QED BY ONLY <1>1, <1>b, <2>2, Compressed(r, kept, n), q = table[r], a = SubSeq(q, 1, n) DEF Compressed
<1>5. a \in Seq(Blocks) /\ Len(a) = n /\ n \in Nat /\ \A i \in 1 .. n : i \in DOMAIN q /\ a[i] = q[i]
  <2>1. Prefix(a, q, Blocks) /\ Len(a) = n /\ \A i \in 1 .. n : a[i] = q[i]
    BY ONLY <1>4, a = SubSeq(q, 1, n), PrefixFacts
  <2>2. n \in Nat /\ \A i \in 1 .. n : i \in DOMAIN q
    BY ONLY <1>4
  <2> QED BY ONLY <2>1, <2>2 DEF Prefix
<1>6. \A b : b \in Range(a) <=> \E i \in 1 .. n : a[i] = b
  <2>1. \A b : b \in Range(a) <=> Members(a, b)
    BY RangeMembers
  <2>2. DOMAIN a = 1 .. n
    BY ONLY <1>5
  <2> QED BY ONLY <2>1, <2>2 DEF Members
<1>7. ASSUME NEW i \in 1 .. n PROVE kv'[a[i]] = IF i <= Len(kept) THEN kept[i] ELSE Nothing
  <2> PICK b : b = a[i]
    OBVIOUS
  <2>1. b \in Blocks /\ b \in Range(a) /\ i \in DOMAIN q /\ q[i] = b
    BY ONLY <1>5, <1>6, i \in 1 .. n, b = a[i]
  <2>2. IndexOf(b, q) = i
    <3>1. Distinct(q)
      BY ONLY <1>b, q = table[r]
    <3>2. i \in DOMAIN q
      BY <2>1
    <3>3. IndexOf(q[i], q) = i
      BY ONLY <3>1, <3>2, IndexOfFacts
    <3> QED BY ONLY <2>1, <3>3
  <2> QED BY ONLY <1>4, <2>1, <2>2, b = a[i]
<1>8. \A i \in 1 .. n : i <= Len(kept) => kept[i] \in Pair
  <2>1. Len(kept) \in Nat
    BY ONLY <1>3
  <2>2. \A i \in 1 .. n : i <= Len(kept) => i \in 1 .. Len(kept)
    BY ONLY <1>5, <2>1
  <2> QED BY ONLY <1>3, <2>2
<1>9. kv' \in [Blocks -> Pair \cup {Nothing}]
  <2>1. ASSUME NEW b \in Blocks PROVE kv'[b] \in Pair \cup {Nothing}
    <3>1. CASE b \notin Range(a)
      BY ONLY <1>4, <1>b, <3>1, b \in Blocks
    <3>2. CASE b \in Range(a)
      <4> PICK i \in 1 .. n : a[i] = b
        BY ONLY <1>6, <3>2
      <4>1. kv'[b] = IF i <= Len(kept) THEN kept[i] ELSE Nothing
        BY ONLY <1>7, i \in 1 .. n, a[i] = b
      <4> QED BY ONLY <1>8, <4>1, i \in 1 .. n
    <3> QED BY <3>1, <3>2
  <2>2. DOMAIN kv' = Blocks /\ kv' = [b \in Blocks |-> kv'[b]]
    BY ONLY <1>4
  <2> QED BY ONLY <2>1, <2>2
<1>10. ASSUME NEW x, Settled(x)' PROVE CacheOf(x)'
  <2>1. x \in Requests /\ Settled(x) /\ Body(x)' = table'[x] /\ Body(x) = table[x]
    <3>1. Members(running, x)
      BY ONLY <1>0, <1>10 DEF Settled
    <3>2. x \in Requests
      BY ONLY <1>b, <3>1, MembersType
    <3>3. Settled(x) /\ Body(x)' = table'[x] /\ Body(x) = table[x]
      BY ONLY <1>0, <3>1 DEF Settled, Fresh, Body
    <3> QED BY ONLY <3>2, <3>3
  <2>2. Stored(x)' = Stored(x)
    BY ONLY <1>0 DEF Stored
  <2>3. CASE x # r
    <3>1. table'[x] = table[x] /\ heads'[x] = heads[x]
      BY ONLY <1>1, <1>4, <1>b, <2>1, <2>3
    <3>2. Due(x)' => Due(x)
      <4>1. Due(x)' => Members(p, x)
        BY ONLY <1>0, p = Tail(todo) DEF Due
      <4> QED BY ONLY <1>0, <1>2, <4>1 DEF Due
    <3>3. ASSUME NEW i \in DOMAIN table[x] PROVE kv'[table[x][i]] = kv[table[x][i]]
      <4> PICK b : b = table[x][i]
        OBVIOUS
      <4>1. b \in Blocks
        <5>1. table[x] \in Seq(Blocks)
          BY ONLY <1>b, <2>1
        <5> QED BY ONLY <5>1, i \in DOMAIN table[x], b = table[x][i]
      <4>2. ASSUME NEW j \in 1 .. n, a[j] = b PROVE FALSE
        <5>1. j \in DOMAIN table[r] /\ table[r][j] = table[x][i]
          BY ONLY <1>5, <4>2, j \in 1 .. n, q = table[r], b = table[x][i]
        <5>2. r = x
          BY ONLY Base, <1>1, <2>1, <5>1, i \in DOMAIN table[x], TablePlaces
        <5> QED BY ONLY <2>3, <5>2
      <4>3. b \notin Range(a)
        BY ONLY <1>6, <4>2
      <4> QED BY ONLY <1>4, <4>1, <4>3, b = table[x][i]
    <3>4. Body(x)' = Body(x) /\ \A i \in DOMAIN Body(x) : kv'[Body(x)[i]] = kv[Body(x)[i]]
      BY ONLY <2>1, <3>1, <3>3
    <3>5. recipe' = recipe
      BY ONLY <1>0
    <3> QED BY ONLY CacheInv, <2>1, <2>2, <3>1, <3>2, <3>4, <3>5, CacheStays
  <2>4. CASE x = r
    <3>1. Body(x)' = a
      BY ONLY <1>1, <1>4, <1>b, <2>1, <2>4
    <3>2. Contents(x)' = [i \in 1 .. n |-> kv'[a[i]]]
      <4>1. DOMAIN a = 1 .. n
        BY ONLY <1>5
      <4> QED BY ONLY <3>1, <4>1 DEF Contents
    <3> PICK w : w = [i \in 1 .. n |-> IF i <= Len(kept) THEN kept[i] ELSE Nothing]
      OBVIOUS
    <3>3. Contents(x)' = w
      BY ONLY <1>7, <3>2, w = [i \in 1 .. n |-> IF i <= Len(kept) THEN kept[i] ELSE Nothing]
    <3>4. /\ w \in Seq(Pair \cup {Nothing}) /\ Len(w) = n
          /\ \A i \in 1 .. n : w[i] = IF i <= Len(kept) THEN kept[i] ELSE Nothing
      BY ONLY <1>5, <1>8, w = [i \in 1 .. n |-> IF i <= Len(kept) THEN kept[i] ELSE Nothing]
    <3>5. Filter(w, Pair) = kept
      <4> PICK m \in Nat : m = Len(kept)
        BY ONLY <1>3
      <4>1. m <= n
        BY ONLY <1>3, m = Len(kept)
      <4>2. \A i \in 1 .. m : i \in 1 .. n /\ i <= m
        BY ONLY <1>5, <4>1, m \in Nat
      <4>3. \A i \in m + 1 .. n : i \in 1 .. n /\ ~(i <= m)
        BY ONLY <1>5, <4>1, m \in Nat
      <4>4. \A i \in 1 .. Len(kept) : w[i] = kept[i] /\ w[i] \in Pair
        BY ONLY <1>8, <3>4, <4>2, m = Len(kept)
      <4>5. Nothing \notin Pair
        <5>1. 0 \notin Requests
          BY ONLY TRUE DEF Requests
        <5> QED BY ONLY <5>1 DEF Nothing, Pair
      <4>6. \A i \in Len(kept) + 1 .. Len(w) : w[i] \notin Pair
        BY ONLY <3>4, <4>3, <4>5, m = Len(kept)
      <4>7. kept \in Seq(Pair \cup {Nothing})
        BY ONLY <1>3
      <4>8. Len(kept) <= Len(w)
        BY ONLY <1>3, <3>4
      <4>9. w \in Seq(Pair \cup {Nothing})
        BY <3>4
      <4> QED BY ONLY <4>4, <4>6, <4>7, <4>8, <4>9, FilterPad
    <3>6. Cells(x)' = kept
      BY ONLY <3>3, <3>5 DEF Cells
    <3> PICK k, l : k = n /\ l = heads'[x][1]
      OBVIOUS
    <3> PICK st : st = Stored(r)
      OBVIOUS
    <3>7. Good(kept, x, st, l)
      <4>1. Good(kept, r, st, k)
        BY ONLY <1>3, k = n, st = Stored(r)
      <4>2. recipe = "headwise" => l = k
        <5>1. 1 \in Heads
          BY KVAssumption DEF Heads
        <5> QED BY ONLY <1>1, <1>4, <1>b, <2>4, <5>1, k = n, l = heads'[x][1]
      <4> QED BY ONLY <2>4, <4>1, <4>2 DEF Good
    <3>8. Stored(x)' = st
      BY ONLY <2>2, <2>4, st = Stored(r)
    <3>9. Good(Cells(x), x, Stored(x), heads[x][1])'
      BY ONLY <1>0, <3>6, <3>7, <3>8, l = heads'[x][1] DEF Good
    <3>10. ASSUME recipe = "layerwise" PROVE \A i \in DOMAIN Body(x)' : kv'[Body(x)'[i]] \in Pair
      <4>1. \A i \in 1 .. n : i <= Len(kept)
        BY ONLY <1>3, <1>5, <3>10
      <4>2. \A i \in 1 .. n : kv'[a[i]] \in Pair
        BY ONLY <1>7, <1>8, <4>1
      <4>3. DOMAIN a = 1 .. n
        BY ONLY <1>5
      <4> QED BY ONLY <3>1, <4>2, <4>3
    <3>11. ~Due(x)'
      BY ONLY <1>0, <1>2, <2>4, p = Tail(todo) DEF Due
    <3> QED BY ONLY <1>0, <3>9, <3>10, <3>11 DEF CacheOf
  <2> QED BY <2>3, <2>4
<1> QED BY <1>9, <1>10 DEF CacheInv

LEMMA CacheAlways == Spec => []CacheInv
<1>1. Base /\ PagesInv /\ CacheInv /\ [Next]_vars => CacheInv'
  BY CacheQuiet, CachePrefill, CacheDecode, CacheStore DEF Next, Quiet
<1> QED BY <1>1, CacheInit, BaseAlways, PagesAlways, PTL DEF Spec

(* The newest of a window are the end of the list.                         *)
EndsIn(e, r, n, w) == SubSeq(e, Len(e) - w + 1, Len(e)) = [i \in 1 .. w |-> <<r, n - w + i - 1>>]

LEMMA NewestAtEnd ==
  ASSUME NEW e, NEW r, NEW n, Owned(e, r, n), Newest(e, r, n), NEW w, w = Min({Window, n})
  PROVE  EndsIn(e, r, n, w)
<1>1. e \in Seq(Pair) /\ n \in Nat \ {0}
  BY DEF Owned
<1>2. Window \in Nat \ {0}
  <2>1. Budget \in Nat /\ Window \in 1 .. Budget - 1
    BY KVAssumption
  <2> QED BY ONLY <2>1
<1>3. w \in 1 .. Window /\ w <= n
  <2> PICK S : S = {Window, n}
    OBVIOUS
  <2>1. S \in SUBSET Nat /\ S # {} /\ w = Min(S)
    BY ONLY <1>1, <1>2, S = {Window, n}, w = Min({Window, n})
  <2>2. w \in S /\ \A y \in S : w <= y
    BY ONLY <2>1, LowestOf
  <2> QED BY ONLY <1>1, <1>2, <2>2, S = {Window, n}
<1> PICK L, m, s : L = Len(e) /\ m = L - w + 1 /\ s = SubSeq(e, m, L)
  OBVIOUS
<1>4. L \in Nat /\ w <= L
  <2>1. w <= Len(e)
    BY ONLY <1>3, Newest(e, r, n) DEF Newest
  <2> QED BY ONLY <1>1, <2>1, L = Len(e)
<1>5. m \in Int /\ L \in Int /\ (\A i \in m .. L : i \in 1 .. L) /\ m <= L /\ L - m + 1 = w
  BY ONLY <1>3, <1>4, m = L - w + 1
<1>6. s \in Seq(Pair) /\ Len(s) = w /\ \A i \in 1 .. w : s[i] = e[m + i - 1]
  <2>1. \A i \in m .. L : e[i] \in Pair
    BY ONLY <1>1, <1>5, L = Len(e)
  <2>2. m \in Int /\ L \in Int
    BY <1>5
  <2>3. s \in Seq(Pair) /\ Len(s) = (IF m <= L THEN L - m + 1 ELSE 0) /\ \A i \in 1 .. L - m + 1 : s[i] = e[m + i - 1]
    BY ONLY <2>1, <2>2, s = SubSeq(e, m, L), SubSeqProperties
  <2> QED BY ONLY <1>5, <2>3
<1>7. ASSUME NEW i \in 1 .. w PROVE s[i] = <<r, n - w + i - 1>>
  <2> PICK j : j = w - i + 1
    OBVIOUS
  <2>1. j \in 1 .. Window /\ j <= n /\ L + 1 - j = m + i - 1 /\ n - j = n - w + i - 1
    BY ONLY <1>1, <1>2, <1>3, <1>4, i \in 1 .. w, j = w - i + 1, m = L - w + 1
  <2>2. e[L + 1 - j] = <<r, n - j>>
    BY ONLY <2>1, Newest(e, r, n), L = Len(e) DEF Newest
  <2>3. s[i] = e[m + i - 1]
    BY ONLY <1>6, i \in 1 .. w
  <2> QED BY ONLY <2>1, <2>2, <2>3
<1>8. s = [i \in 1 .. w |-> s[i]]
  BY ONLY <1>6
<1>9. s = [i \in 1 .. w |-> <<r, n - w + i - 1>>]
  BY ONLY <1>7, <1>8
<1> QED BY ONLY <1>9, L = Len(e), m = L - w + 1, s = SubSeq(e, m, L) DEF EndsIn

(* Between two steps the cache of a running request holds tokens of its    *)
(* own, none twice; layerwise the newest of the window in their order,     *)
(* headwise the sink and the newest: a compression reads its request's      *)
(* entries before it writes over them, in blocks no other request holds,   *)
(* and a block behind what a head keeps is not read as an entry            *)
(* (update_kv, update_blocks_post_compression, store_kvcache).             *)
THEOREM CacheIsFaithful == Spec => []CacheFaithful
<1>1. ASSUME Base, CacheInv PROVE CacheFaithful
  <2> SUFFICES ASSUME pc = "schedule", NEW r \in Live
               PROVE  LET e == Entries(r)
                          stored == num_tokens[r] - 1
                          w == Min({Window, stored})
                      IN /\ IsInjective(e) /\ \A i \in DOMAIN e : e[i][1] = r /\ e[i][2] \in 0 .. stored - 1
                         /\ recipe = "layerwise" => SubSeq(e, Len(e) - w + 1, Len(e)) = [i \in 1 .. w |-> <<r, stored - w + i - 1>>]
                         /\ recipe = "headwise" => e[1] = <<r, 0>> /\ <<r, stored - 1>> \in Range(e)
    BY DEF CacheFaithful
  <2> PICK e, n, w, k : e = Entries(r) /\ n = num_tokens[r] - 1 /\ w = Min({Window, n}) /\ k = heads[r][1]
    OBVIOUS
  <2>1. Members(running, r)
    BY RangeMembers DEF Live
  <2>2. Settled(r) /\ Body(r) = table[r] /\ Stored(r) = n
    BY <2>1 DEF Settled, Body, Fresh, Stored
  <2>3. Good(e, r, n, k)
    <3>1. CacheOf(r)
      BY ONLY <1>1, <2>2 DEF CacheInv
    <3>2. Cells(r) = e
      BY ONLY <2>2, e = Entries(r) DEF Entries, Cells, Contents, Pair
    <3> QED BY ONLY <2>2, <3>1, <3>2, k = heads[r][1] DEF CacheOf
  <2>4. Owned(e, r, n)
    BY ONLY <2>3 DEF Good
  <2>5. IsInjective(e) /\ \A i \in DOMAIN e : e[i][1] = r /\ e[i][2] \in 0 .. n - 1
    BY ONLY <2>4 DEF Owned, Distinct, IsInjective
  <2>6. ASSUME recipe = "layerwise" PROVE SubSeq(e, Len(e) - w + 1, Len(e)) = [i \in 1 .. w |-> <<r, n - w + i - 1>>]
    <3>1. Newest(e, r, n)
      BY ONLY <2>3, <2>6 DEF Good
    <3>2. EndsIn(e, r, n, w)
      BY ONLY <2>4, <3>1, w = Min({Window, n}), NewestAtEnd
    <3> QED BY ONLY <3>2 DEF EndsIn
  <2>7. ASSUME recipe = "headwise" PROVE e[1] = <<r, 0>> /\ <<r, n - 1>> \in Range(e)
    <3>1. e[1] = <<r, 0>> /\ \E i \in DOMAIN e : e[i] = <<r, n - 1>>
      BY ONLY <2>3, <2>7 DEF Good, Ended
    <3> QED BY ONLY <3>1 DEF Range
  <2> QED BY ONLY <2>5, <2>6, <2>7, e = Entries(r), n = num_tokens[r] - 1, w = Min({Window, n})
<1> QED BY <1>1, BaseAlways, CacheAlways, PTL

-----------------------------------------------------------------------------

=============================================================================
