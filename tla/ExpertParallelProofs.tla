------------------------ MODULE ExpertParallelProofs ------------------------
(***************************************************************************)
(* Proofs about the dispatch, the experts and the combine of expert        *)
(* parallelism, for every number of ranks, experts, choices and slots and  *)
(* every set of routings.                                                  *)
(***************************************************************************)
EXTENDS ExpertParallel, TLAPS, FiniteSetTheorems

Expert == 0 .. N * ELocal - 1

(* A call has its routing, and a rank that dispatched has dealt the slots  *)
(* of its buckets: every replica of a bucket got another slot, from 0 on.  *)
Dealt(b, slot) ==
  /\ slot \in [Replicas(b) -> Nat]
  /\ \A d \in Ranks, e \in Locals :
       {slot[p] : p \in Bucket(b, d, e)} = 0 .. Cardinality(Bucket(b, d, e)) - 1

EPTypeOK ==
  /\ recipe \in Recipes
  /\ pc \in [Ranks -> {"ready", "bucketed", "sorted", "counted", "received", "computed", "returned",
                       "raised", "left"}]
  /\ calls \in [Ranks -> Nat]
  /\ batch = [r \in Ranks |-> batch[r]] /\ out = [r \in Ranks |-> out[r]]
  /\ send_buf = [r \in Ranks |-> send_buf[r]] /\ indices = [r \in Ranks |-> indices[r]]
  /\ counts = [r \in Ranks |-> counts[r]] /\ rows = [r \in Ranks |-> rows[r]]

InCall(r) == pc[r] \in {"bucketed", "sorted", "counted", "received", "computed", "returned"}
BatchesInv == \A r \in Ranks : InCall(r) => batch[r] \in Batches /\ calls[r] < MaxCalls

BucketInv(r) ==
  /\ counts[r] = Counted(batch[r])
  /\ recipe = "ep_ll_torch" => ~Overflows(batch[r])
  /\ \E slot : Dealt(batch[r], slot) /\ indices[r] = Filled(batch[r], slot)
  /\ \A d \in Ranks, e \in Locals, m \in Slots :
       indices[r][d][e][m] # Unused => send_buf[r][d][e][m] = Payload(r, indices[r][d][e][m][1])
DispatchInv == ll => \A r \in Ranks :
  pc[r] \in {"bucketed", "received", "computed", "returned"} => BucketInv(r)

-----------------------------------------------------------------------------
LEMMA Sizes ==
  /\ N \in Nat \ {0} /\ ELocal \in Nat \ {0} /\ K \in Nat \ {0} /\ TCap \in Nat \ {0} /\ MMax \in Nat \ {0}
  /\ N * ELocal \in Nat
BY EPAssumption

LEMMA BatchFacts ==
  ASSUME NEW b \in Batches
  PROVE  /\ b \in Seq([1 .. K -> Expert]) /\ Len(b) \in 1 .. TCap /\ DOMAIN b = 1 .. Len(b)
         /\ \A p \in Replicas(b) : /\ p[1] \in DOMAIN b /\ p[2] \in 1 .. K /\ p = <<p[1], p[2]>>
                                   /\ b[p[1]][p[2]] \in Expert
<1>1. b \in Seq([1 .. K -> Expert]) /\ Len(b) \in 1 .. TCap
  BY EPAssumption DEF Expert
<1>2. DOMAIN b = 1 .. Len(b)
  BY <1>1
<1>3. ASSUME NEW p \in Replicas(b)
      PROVE  p[1] \in DOMAIN b /\ p[2] \in 1 .. K /\ p = <<p[1], p[2]>> /\ b[p[1]][p[2]] \in Expert
  <2>1. p[1] \in 1 .. Len(b) /\ p[2] \in 1 .. K /\ p = <<p[1], p[2]>>
    BY <1>1, Sizes DEF Replicas, Pairs
  <2>2. b[p[1]] \in [1 .. K -> Expert]
    BY <1>1, <2>1
  <2> QED BY <1>2, <2>1, <2>2
<1> QED BY <1>1, <1>2, <1>3

LEMMA FinitePairs ==
  /\ IsFiniteSet(Pairs) /\ Cardinality(Pairs) = TCap * K
  /\ \A S \in SUBSET Pairs : IsFiniteSet(S) /\ Cardinality(S) \in Nat /\ Cardinality(S) <= TCap * K
<1>1. IsFiniteSet(1 .. TCap) /\ Cardinality(1 .. TCap) = TCap
  <2>1. 1 \in Int /\ TCap \in Int /\ ~(1 > TCap) /\ TCap - 1 + 1 = TCap
    BY Sizes
  <2> QED BY <2>1, FS_Interval, Zenon
<1>2. IsFiniteSet(1 .. K) /\ Cardinality(1 .. K) = K
  <2>1. 1 \in Int /\ K \in Int /\ ~(1 > K) /\ K - 1 + 1 = K
    BY Sizes
  <2> QED BY <2>1, FS_Interval, Zenon
<1>3. IsFiniteSet(Pairs) /\ Cardinality(Pairs) = TCap * K
  <2>1. /\ IsFiniteSet((1 .. TCap) \X (1 .. K))
        /\ Cardinality((1 .. TCap) \X (1 .. K)) = Cardinality(1 .. TCap) * Cardinality(1 .. K)
    BY <1>1, <1>2, FS_Product, Zenon
  <2> QED BY <1>1, <1>2, <2>1 DEF Pairs
<1> QED BY <1>3, FS_Subset, FS_CardinalityType

LEMMA BucketFacts ==
  ASSUME NEW b, NEW d, NEW e
  PROVE  /\ Bucket(b, d, e) \subseteq Replicas(b) /\ Replicas(b) \subseteq Pairs
         /\ IsFiniteSet(Bucket(b, d, e)) /\ Cardinality(Bucket(b, d, e)) \in Nat
         /\ Cardinality(Bucket(b, d, e)) <= TCap * K
BY FinitePairs DEF Bucket, Replicas

(* The rank and the local number of an expert. *)
LEMMA Owner ==
  ASSUME NEW x \in Expert
  PROVE  /\ TargetRank(x) \in Ranks /\ TargetLocal(x) \in Locals
         /\ x = TargetRank(x) * ELocal + TargetLocal(x)
<1> PICK q : q = x \div ELocal
  OBVIOUS
<1> PICK m : m = x % ELocal
  OBVIOUS
<1>1. x \in Nat /\ ELocal \in Nat \ {0} /\ x < N * ELocal /\ N \in Nat \ {0} /\ N * ELocal \in Nat
  BY Sizes DEF Expert
<1>2. q \in Nat /\ m \in 0 .. ELocal - 1 /\ x = q * ELocal + m
  BY <1>1
<1>3. q < N
  <2>1. ASSUME ~(q < N) PROVE FALSE
    <3>1. N * ELocal <= q * ELocal /\ q * ELocal \in Nat
      BY <1>1, <1>2, <2>1
    <3> QED BY <1>1, <1>2, <3>1
  <2> QED BY <2>1
<1> QED BY <1>1, <1>2, <1>3 DEF TargetRank, TargetLocal, Ranks, Locals

LEMMA GlobalUnique ==
  ASSUME NEW d \in Ranks, NEW e \in Locals, NEW c \in Ranks, NEW f \in Locals,
         Global(d, e) = Global(c, f)
  PROVE  d = c /\ e = f
<1>1. d \in Nat /\ c \in Nat /\ ELocal \in Nat \ {0} /\ e \in 0 .. ELocal - 1 /\ f \in 0 .. ELocal - 1
      /\ d * ELocal + e = c * ELocal + f
  BY Sizes DEF Ranks, Locals, Global
<1>2. ASSUME NEW i \in Nat, NEW j \in Nat, i < j PROVE (i + 1) * ELocal <= j * ELocal
  BY <1>1, <1>2
<1>3. ASSUME NEW i \in Nat PROVE i * ELocal \in Nat /\ (i + 1) * ELocal = i * ELocal + ELocal
  BY <1>1
<1>4. ~(d < c)
  BY <1>1, <1>2, <1>3
<1>5. ~(c < d)
  BY <1>1, <1>2, <1>3
<1>6. d = c
  BY <1>1, <1>4, <1>5
<1> QED BY <1>1, <1>3, <1>6

-----------------------------------------------------------------------------
(* Dealing slots. *)
Rank(S) == [p \in S |-> Cardinality({q \in S : Before(q, p)})]

LEMMA RanksFill ==
  ASSUME NEW S \in SUBSET Pairs
  PROVE  {Rank(S)[p] : p \in S} = 0 .. Cardinality(S) - 1
<1> DEFINE n == Cardinality(S)
           Up(p) == {q \in S : Before(q, p)}
<1>1. IsFiniteSet(S) /\ n \in Nat
  BY FinitePairs
<1>2. \A p \in S : p[1] \in Nat /\ p[2] \in Nat /\ p = <<p[1], p[2]>>
  BY Sizes DEF Pairs
<1>3. ASSUME NEW p \in S PROVE IsFiniteSet(Up(p)) /\ Cardinality(Up(p)) \in 0 .. n - 1
  <2>1. Up(p) \in SUBSET (S \ {p})
    BY <1>2 DEF Before
  <2>2. IsFiniteSet(S \ {p}) /\ Cardinality(S \ {p}) = n - 1
    BY <1>1, FS_RemoveElement
  <2>3. IsFiniteSet(Up(p)) /\ Cardinality(Up(p)) <= n - 1
    BY <2>1, <2>2, FS_Subset
  <2>4. Cardinality(Up(p)) \in Nat
    BY <2>3, FS_CardinalityType
  <2> QED BY <1>1, <2>3, <2>4
<1>4. ASSUME NEW p \in S, NEW q \in S, Before(p, q) PROVE Cardinality(Up(p)) < Cardinality(Up(q))
  <2> PICK A : A = Up(p)
    OBVIOUS
  <2> PICK B : B = Up(q)
    OBVIOUS
  <2>1. p \notin A /\ A \cup {p} \in SUBSET B
    BY <1>2, <1>4 DEF Before
  <2>2. IsFiniteSet(A) /\ IsFiniteSet(B) /\ Cardinality(A) \in Int /\ Cardinality(B) \in Int
    BY <1>1, <1>3
  <2> HIDE DEF Up
  <2>3. Cardinality(A \cup {p}) = Cardinality(A) + 1
    BY <2>1, <2>2, FS_AddElement
  <2>4. Cardinality(A \cup {p}) <= Cardinality(B)
    BY <2>1, <2>2, FS_Subset
  <2> QED BY <2>2, <2>3, <2>4
<1>5. Rank(S) \in Injection(S, 0 .. n - 1)
  <2>1. Rank(S) \in [S -> 0 .. n - 1]
    BY <1>3 DEF Rank
  <2>2. ASSUME NEW p \in S, NEW q \in S, Rank(S)[p] = Rank(S)[q] PROVE p = q
    <3>1. Cardinality(Up(p)) = Cardinality(Up(q)) /\ Cardinality(Up(p)) \in Int
      BY <1>3, <2>2 DEF Rank
    <3>2. ~Before(p, q) /\ ~Before(q, p)
      BY <1>4, <3>1
    <3> QED BY <1>2, <3>2 DEF Before
  <2> QED BY <2>1, <2>2 DEF Injection, IsInjective
<1>6. IsFiniteSet(0 .. n - 1) /\ Cardinality(0 .. n - 1) = n
  <2>1. 0 \in Int /\ n - 1 \in Int /\ (IF 0 > n - 1 THEN 0 ELSE n - 1 - 0 + 1) = n
    BY <1>1
  <2> QED BY <2>1, FS_Interval, Zenon
<1>7. Rank(S) \in Surjection(S, 0 .. n - 1)
  BY <1>5, <1>6, FS_Injection
<1> QED BY <1>7 DEF Surjection

(* The torch loop and the atomic adds of the kernel both deal the slots. *)
LEMMA LoopDeals == ASSUME NEW b \in Batches PROVE Dealt(b, LoopOrder(b))
<1>1. \A p \in Replicas(b) : LoopOrder(b)[p] \in Nat
  BY FinitePairs DEF LoopOrder, Bucket, Replicas
<1>2. ASSUME NEW d \in Ranks, NEW e \in Locals
      PROVE  {LoopOrder(b)[p] : p \in Bucket(b, d, e)} = 0 .. Cardinality(Bucket(b, d, e)) - 1
  <2>1. Bucket(b, d, e) \in SUBSET Pairs
    BY BucketFacts
  <2>2. ASSUME NEW p \in Bucket(b, d, e) PROVE LoopOrder(b)[p] = Rank(Bucket(b, d, e))[p]
    <3> PICK x : x = b[p[1]][p[2]]
      OBVIOUS
    <3>1. p \in Replicas(b) /\ x \in Expert /\ x = Global(d, e)
      BY BatchFacts DEF Bucket, Global
    <3>2. TargetRank(x) = d /\ TargetLocal(x) = e
      BY <3>1, Owner, GlobalUnique DEF Global
    <3> QED BY <3>1, <3>2 DEF LoopOrder, Rank
  <2> QED BY <2>1, <2>2, RanksFill
<1> QED BY <1>1, <1>2 DEF Dealt, LoopOrder

LEMMA AtomicDeals == ASSUME NEW b \in Batches, NEW s \in AtomicOrders(b) PROVE Dealt(b, s)
<1>1. Cardinality(Replicas(b)) \in Nat
  BY FinitePairs DEF Replicas
<1> QED BY <1>1 DEF AtomicOrders, Dealt

(* A slot below the size of its bucket has one holder, the others have none. *)
LEMMA DealtOnce ==
  ASSUME NEW b, NEW slot, Dealt(b, slot), NEW d \in Ranks, NEW e \in Locals
  PROVE  /\ \A p, q \in Bucket(b, d, e) : slot[p] = slot[q] => p = q
         /\ \A p \in Bucket(b, d, e) : slot[p] \in 0 .. Cardinality(Bucket(b, d, e)) - 1
         /\ \A m \in 0 .. Cardinality(Bucket(b, d, e)) - 1 : \E p \in Bucket(b, d, e) : slot[p] = m
<1> DEFINE S == Bucket(b, d, e)
           n == Cardinality(S)
           f == [p \in S |-> slot[p]]
<1>1. IsFiniteSet(S) /\ n \in Nat
  BY BucketFacts
<1>2. {slot[p] : p \in S} = 0 .. n - 1
  BY DEF Dealt
<1>3. f \in Surjection(S, 0 .. n - 1)
  BY <1>2 DEF Surjection
<1>4. IsFiniteSet(0 .. n - 1) /\ Cardinality(0 .. n - 1) = n
  <2>1. 0 \in Int /\ n - 1 \in Int /\ (IF 0 > n - 1 THEN 0 ELSE n - 1 - 0 + 1) = n
    BY <1>1
  <2> QED BY <2>1, FS_Interval, Zenon
<1>5. f \in Injection(S, 0 .. n - 1)
  BY <1>1, <1>3, <1>4, FS_Surjection
<1>6. \A p, q \in S : slot[p] = slot[q] => p = q
  BY <1>5 DEF Injection, IsInjective
<1> QED BY <1>2, <1>6

LEMMA FilledSlots ==
  ASSUME NEW b, NEW slot, Dealt(b, slot), NEW d \in Ranks, NEW e \in Locals, NEW m \in Slots
  PROVE  /\ Filled(b, slot)[d][e][m] # Unused <=> m < Cardinality(Bucket(b, d, e))
         /\ Filled(b, slot)[d][e][m] # Unused =>
              Filled(b, slot)[d][e][m] \in Bucket(b, d, e) /\ slot[Filled(b, slot)[d][e][m]] = m
         /\ \A p \in Bucket(b, d, e) : slot[p] = m => Filled(b, slot)[d][e][m] = p
<1> DEFINE F == Filled(b, slot)[d][e][m]
           H == Holder(b, slot, d, e, m)
           n == Cardinality(Bucket(b, d, e))
<1>1. F = IF H = {} THEN Unused ELSE CHOOSE p \in H : TRUE
  BY DEF Filled
<1>2. H = {p \in Bucket(b, d, e) : slot[p] = m}
  BY DEF Holder
<1>3. \A p \in Bucket(b, d, e) : p # Unused
  BY BucketFacts, Sizes DEF Pairs, Unused
<1>4. n \in Nat /\ m \in Nat
  BY BucketFacts DEF Slots
<1> HIDE DEF F, H, n
<1>5. H # {} => F \in H
  BY <1>1
<1>6. H # {} <=> m < n
  BY <1>2, <1>4, DealtOnce DEF n
<1>7. \A p, q \in H : p = q
  BY <1>2, DealtOnce
<1> QED BY <1>1, <1>2, <1>3, <1>5, <1>6, <1>7 DEF F, H, n

-----------------------------------------------------------------------------
(* Between the two exchanges all ranks are in the same call, and what a    *)
(* rank has received is what the others keep in their send buffers.        *)
ExchangeInv == ll => \A r \in Ranks :
  /\ pc[r] \notin {"sorted", "counted"}
  /\ pc[r] \in {"received", "computed"} => \A s \in Ranks : pc[s] \in {"received", "computed"}
  /\ \A s \in Ranks, e \in Locals, m \in Slots :
       /\ pc[r] = "received" => rows[r][s][e][m] = send_buf[s][r][e][m]
       /\ pc[r] = "computed" => rows[r][s][e][m] = <<Global(r, e), send_buf[s][r][e][m]>>
       /\ pc[r] = "returned" => rows[r][s][e][m] = <<Global(s, e), send_buf[r][s][e][m]>>

EPInv == EPTypeOK /\ BatchesInv /\ DispatchInv /\ ExchangeInv

LEMMA TypeInit == Init => EPTypeOK
BY DEF Init, EPTypeOK

LEMMA TypeNext == EPTypeOK /\ [Next]_vars => EPTypeOK'
<1> SUFFICES ASSUME EPTypeOK, [Next]_vars PROVE EPTypeOK'
  OBVIOUS
<1>1. ASSUME NEW r \in Ranks, Forward(r) PROVE EPTypeOK'
  <2> PICK b \in Batches :
        /\ batch' = [batch EXCEPT ![r] = b]
        /\ \/ \E slot : Bucketed(r, b, slot)
           \/ \E stage \in {"raised", "sorted"} :
                pc' = [pc EXCEPT ![r] = stage] /\ UNCHANGED <<send_buf, indices, counts>>
    BY <1>1 DEF Forward
  <2>1. UNCHANGED <<recipe, calls, rows, out>>
    BY <1>1 DEF Forward
  <2> QED BY <2>1 DEF EPTypeOK, Bucketed
<1>2. ASSUME NEW r \in Ranks, Leave(r) PROVE EPTypeOK'
  BY <1>2 DEF EPTypeOK, Leave
<1>3. CASE Collective
  <2>1. UNCHANGED <<recipe, calls, batch, send_buf, indices, counts, out>>
    BY <1>3 DEF Collective, ExchangeDense, ExchangeCounts, ExchangeRows, ReverseExchange
  <2>2. \E stage \in {"received", "counted", "returned"} : pc' = [r \in Ranks |-> stage]
    BY <1>3 DEF Collective, ExchangeDense, ExchangeCounts, ExchangeRows, ReverseExchange, AllGo
  <2>3. rows' = [r \in Ranks |-> rows'[r]]
    <3>1. CASE ExchangeDense
      BY <3>1 DEF ExchangeDense
    <3>2. CASE ExchangeCounts
      BY <3>2 DEF ExchangeCounts, EPTypeOK
    <3>3. CASE ExchangeRows
      BY <3>3 DEF ExchangeRows
    <3>4. CASE ReverseExchange
      BY <3>4 DEF ReverseExchange
    <3> QED BY <1>3, <3>1, <3>2, <3>3, <3>4 DEF Collective
  <2> QED BY <2>1, <2>2, <2>3 DEF EPTypeOK
<1>4. ASSUME NEW r \in Ranks, Experts(r) PROVE EPTypeOK'
  BY <1>4 DEF EPTypeOK, Experts
<1>5. ASSUME NEW r \in Ranks, Combine(r) PROVE EPTypeOK'
  BY <1>5 DEF EPTypeOK, Combine
<1>6. CASE UNCHANGED vars
  BY <1>6 DEF EPTypeOK, vars
<1> QED BY <1>1, <1>2, <1>3, <1>4, <1>5, <1>6 DEF Next, Step

LEMMA BatchesNext == EPTypeOK /\ BatchesInv /\ [Next]_vars => BatchesInv'
<1> SUFFICES ASSUME EPTypeOK, BatchesInv, [Next]_vars PROVE BatchesInv'
  OBVIOUS
<1>1. 0 \in Ranks
  BY Sizes DEF Ranks
<1>2. ASSUME NEW r \in Ranks, Forward(r) PROVE BatchesInv'
  <2> PICK b \in Batches : batch' = [batch EXCEPT ![r] = b]
    BY <1>2 DEF Forward
  <2>1. (\E stage : pc' = [pc EXCEPT ![r] = stage]) /\ UNCHANGED calls /\ calls[r] < MaxCalls
    BY <1>2 DEF Forward, Bucketed
  <2> QED BY <2>1 DEF EPTypeOK, BatchesInv, InCall
<1>3. ASSUME NEW r \in Ranks, Leave(r) \/ Experts(r) \/ Combine(r) PROVE BatchesInv'
  BY <1>3 DEF EPTypeOK, BatchesInv, InCall, Leave, Experts, Combine
<1>4. CASE Collective
  <2>1. UNCHANGED <<batch, calls>> /\ \A r \in Ranks : InCall(r)
    BY <1>4 DEF Collective, ExchangeDense, ExchangeCounts, ExchangeRows, ReverseExchange, All, InCall
  <2> QED BY <2>1 DEF BatchesInv
<1>5. CASE UNCHANGED vars
  BY <1>5 DEF BatchesInv, InCall, vars
<1> QED BY <1>2, <1>3, <1>4, <1>5 DEF Next, Step

LEMMA BucketKept ==
  ASSUME NEW r \in Ranks, BucketInv(r), recipe' = recipe, batch'[r] = batch[r], calls'[r] = calls[r],
         counts'[r] = counts[r], indices'[r] = indices[r], send_buf'[r] = send_buf[r]
  PROVE  BucketInv(r)'
BY DEF BucketInv, Payload

LEMMA DispatchInit == Init => DispatchInv /\ BatchesInv /\ ExchangeInv
BY DEF Init, DispatchInv, BatchesInv, InCall, ExchangeInv

LEMMA ForwardDispatch ==
  ASSUME EPTypeOK, ll, NEW r \in Ranks, Forward(r), pc'[r] = "bucketed"
  PROVE  BucketInv(r)'
<1> PICK b \in Batches :
      /\ batch' = [batch EXCEPT ![r] = b]
      /\ \/ recipe = "ep_ll_torch" /\ ~Overflows(b) /\ Bucketed(r, b, LoopOrder(b))
         \/ recipe = "ep_ll_triton" /\ \E slot \in AtomicOrders(b) : Bucketed(r, b, slot)
  BY DEF Forward, EPTypeOK, ll
<1> PICK slot : Dealt(b, slot) /\ Bucketed(r, b, slot)
  BY LoopDeals, AtomicDeals
<1>1. UNCHANGED <<recipe, calls>>
  BY DEF Forward
<1>2. /\ counts'[r] = Counted(b) /\ indices'[r] = Filled(b, slot) /\ batch'[r] = b
      /\ send_buf'[r] = Written(send_buf[r], r, Filled(b, slot))
  BY DEF Bucketed, EPTypeOK
<1>3. ASSUME NEW d \in Ranks, NEW e \in Locals, NEW m \in Slots, Filled(b, slot)[d][e][m] # Unused
      PROVE  send_buf'[r][d][e][m] = Payload(r, Filled(b, slot)[d][e][m][1])
  BY <1>2, <1>3 DEF Written
<1>4. recipe = "ep_ll_torch" => ~Overflows(b)
  OBVIOUS
<1>5. Dealt(b, slot)' /\ Filled(b, slot)' = Filled(b, slot) /\ Counted(b)' = Counted(b)
      /\ (Overflows(b)' <=> Overflows(b))
  OBVIOUS
<1> QED BY <1>1, <1>2, <1>3, <1>4, <1>5 DEF BucketInv, Payload

LEMMA DispatchNext == EPInv /\ [Next]_vars => DispatchInv'
<1> SUFFICES ASSUME EPInv, [Next]_vars, ll', NEW r \in Ranks,
                    pc'[r] \in {"bucketed", "received", "computed", "returned"}
             PROVE  BucketInv(r)'
  BY DEF DispatchInv
<1>1. EPTypeOK /\ DispatchInv /\ ExchangeInv /\ 0 \in Ranks
  BY Sizes DEF EPInv, Ranks
<1>2. recipe' = recipe /\ ll
  BY DEF Next, Collective, ExchangeDense, ExchangeCounts, ExchangeRows, ReverseExchange, Step, Forward, Leave,
         Experts, Combine, vars, ll
<1>3. ASSUME NEW q \in Ranks, Forward(q) PROVE BucketInv(r)'
  <2>1. CASE q = r
    <3>1. pc'[r] = "bucketed"
      BY <1>1, <1>3, <2>1 DEF Forward, Bucketed, EPTypeOK
    <3> QED BY <1>1, <1>2, <1>3, <2>1, <3>1, ForwardDispatch
  <2>2. CASE q # r
    <3>1. /\ pc'[r] = pc[r] /\ batch'[r] = batch[r] /\ calls'[r] = calls[r]
          /\ counts'[r] = counts[r] /\ indices'[r] = indices[r] /\ send_buf'[r] = send_buf[r]
      BY <1>1, <1>3, <2>2 DEF Forward, Bucketed, EPTypeOK
    <3> QED BY <1>1, <1>2, <3>1, BucketKept DEF DispatchInv
  <2> QED BY <2>1, <2>2
<1>4. ASSUME NEW q \in Ranks, Leave(q) \/ Experts(q) \/ Combine(q) PROVE BucketInv(r)'
  <2>1. /\ pc[r] \in {"bucketed", "received", "computed", "returned"}
        /\ batch'[r] = batch[r] /\ calls'[r] = calls[r]
        /\ counts'[r] = counts[r] /\ indices'[r] = indices[r] /\ send_buf'[r] = send_buf[r]
    BY <1>1, <1>4 DEF Leave, Experts, Combine, EPTypeOK
  <2> QED BY <1>1, <1>2, <2>1, BucketKept DEF DispatchInv
<1>5. CASE Collective
  <2>1. /\ pc[r] \in {"bucketed", "received", "computed", "returned"}
        /\ UNCHANGED <<batch, calls, counts, indices, send_buf>>
    BY <1>1, <1>2, <1>5 DEF Collective, ExchangeDense, ExchangeCounts, ExchangeRows, ReverseExchange, All, ExchangeInv
  <2> QED BY <1>1, <1>2, <2>1, BucketKept DEF DispatchInv
<1>6. CASE UNCHANGED vars
  BY <1>1, <1>2, <1>6, BucketKept DEF DispatchInv, vars
<1> QED BY <1>3, <1>4, <1>5, <1>6 DEF Next, Step

LEMMA ExchangeNext == EPInv /\ [Next]_vars => ExchangeInv'
<1> SUFFICES ASSUME EPInv, [Next]_vars, ll' PROVE ExchangeInv'
  BY DEF ExchangeInv
<1>1. EPTypeOK /\ ExchangeInv /\ 0 \in Ranks
  BY Sizes DEF EPInv, Ranks
<1>2. recipe' = recipe /\ ll
  BY DEF Next, Collective, ExchangeDense, ExchangeCounts, ExchangeRows, ReverseExchange, Step, Forward, Leave,
         Experts, Combine, vars, ll
<1>3. ASSUME NEW q \in Ranks, Forward(q) PROVE ExchangeInv'
  <2>1. /\ pc[q] = "ready" /\ UNCHANGED rows
        /\ \A r \in Ranks : r # q => pc'[r] = pc[r] /\ send_buf'[r] = send_buf[r]
        /\ pc'[q] \in {"bucketed", "raised"}
    BY <1>1, <1>2, <1>3 DEF Forward, Bucketed, EPTypeOK, ll
  <2> QED BY <1>1, <1>2, <2>1 DEF ExchangeInv, Global
<1>4. ASSUME NEW q \in Ranks, Leave(q) \/ Combine(q) PROVE ExchangeInv'
  <2>1. /\ pc[q] \in {"ready", "returned"} /\ UNCHANGED <<rows, send_buf>>
        /\ \A r \in Ranks : r # q => pc'[r] = pc[r]
        /\ pc'[q] \in {"left", "ready"}
    BY <1>1, <1>4 DEF Leave, Combine, EPTypeOK
  <2> QED BY <1>1, <1>2, <2>1 DEF ExchangeInv, Global
<1>5. ASSUME NEW q \in Ranks, Experts(q) PROVE ExchangeInv'
  <2>1. /\ pc[q] = "received" /\ pc'[q] = "computed" /\ UNCHANGED send_buf
        /\ \A r \in Ranks : r # q => pc'[r] = pc[r] /\ rows'[r] = rows[r]
        /\ rows'[q] = Computed(q)
    BY <1>1, <1>2, <1>5 DEF Experts, Overrun, EPTypeOK
  <2>2. \A s \in Ranks, e \in Locals, m \in Slots :
          rows'[q][s][e][m] = <<Global(q, e), send_buf[s][q][e][m]>>
    BY <1>1, <1>2, <2>1 DEF Computed, ExchangeInv
  <2> QED BY <1>1, <1>2, <2>1, <2>2 DEF ExchangeInv, Global
<1>6. CASE ExchangeDense
  BY <1>1, <1>6 DEF ExchangeDense, AllGo, ExchangeInv
<1>7. CASE ReverseExchange
  BY <1>1, <1>2, <1>7 DEF ReverseExchange, All, AllGo, ExchangeInv, Global
<1>8. ~ExchangeCounts /\ ~ExchangeRows
  BY <1>1, <1>2 DEF ExchangeCounts, ExchangeRows, All, ExchangeInv
<1>9. CASE UNCHANGED vars
  BY <1>1, <1>9 DEF vars, ExchangeInv, ll, Global
<1> QED BY <1>3, <1>4, <1>5, <1>6, <1>7, <1>8, <1>9 DEF Next, Step, Collective

LEMMA EPInvHolds == Spec => []EPInv
<1>1. Init => EPInv
  BY TypeInit, DispatchInit DEF EPInv
<1>2. EPInv /\ [Next]_vars => EPInv'
  BY TypeNext, BatchesNext, DispatchNext, ExchangeNext DEF EPInv
<1> QED BY <1>1, <1>2, PTL DEF Spec

-----------------------------------------------------------------------------
LEMMA MinOf ==
  ASSUME NEW a \in Nat, NEW c \in Nat
  PROVE  Min({a, c}) = IF a <= c THEN a ELSE c
BY DEF Min

LEMMA SentIsBucket ==
  ASSUME NEW b, NEW d \in Ranks, NEW e \in Locals
  PROVE  {p \in Replicas(b) : b[p[1]][p[2]] = Global(d, e)} = Bucket(b, d, e)
BY DEF Bucket, Global

LEMMA LossCounted == EPInv => LossIsCounted
<1> SUFFICES ASSUME EPInv, NEW r \in Ranks, ll, pc[r] \in {"bucketed", "received", "computed", "returned"},
                    NEW d \in Ranks, NEW e \in Locals
             PROVE  LET sent == {p \in Replicas(batch[r]) : batch[r][p[1]][p[2]] = Global(d, e)}
                        kept == {m \in Slots : indices[r][d][e][m] # Unused}
                    IN /\ counts[r][d][e] = Cardinality(sent)
                       /\ kept = 0 .. Min({MMax, counts[r][d][e]}) - 1
                       /\ {indices[r][d][e][m] : m \in kept} \subseteq sent
                       /\ recipe = "ep_ll_torch" => counts[r][d][e] <= MMax
  BY DEF LossIsCounted
<1> DEFINE S == Bucket(batch[r], d, e)
           kept == {m \in Slots : indices[r][d][e][m] # Unused}
<1> PICK n \in Nat : n = Cardinality(S)
  BY BucketFacts
<1>1. BucketInv(r)
  BY DEF EPInv, DispatchInv
<1> PICK slot : Dealt(batch[r], slot) /\ indices[r] = Filled(batch[r], slot)
  BY <1>1 DEF BucketInv
<1>2. counts[r][d][e] = n
  BY <1>1 DEF BucketInv, Counted
<1>3. \A m \in Slots : /\ indices[r][d][e][m] # Unused <=> m < n
                       /\ indices[r][d][e][m] # Unused => indices[r][d][e][m] \in S
  BY FilledSlots
<1>4. recipe = "ep_ll_torch" => n <= MMax
  BY <1>1, Sizes DEF BucketInv, Overflows
<1>5. kept = 0 .. Min({MMax, n}) - 1
  BY <1>3, MinOf, Sizes DEF Slots
<1> QED BY <1>2, <1>3, <1>4, <1>5, SentIsBucket

(* Nothing is lost silently: local_counts holds the true size of a bucket,   *)
(* also of one that was cut off, the slots below it are filled, and the      *)
(* torch loop reaches the exchange with no bucket that overflowed.           *)
THEOREM CountersAreTrue == Spec => []LossIsCounted
BY EPInvHolds, LossCounted, PTL

-----------------------------------------------------------------------------
(* The dense exchange. *)
DenseOnly == "ep_ht" \notin Recipes

LEMMA OneChoiceOfBucket ==
  ASSUME NEW b \in Batches, NEW d \in Ranks, NEW e \in Locals,
         NEW p \in Bucket(b, d, e), NEW q \in Bucket(b, d, e), p[1] = q[1]
  PROVE  p = q
<1>1. /\ p[1] \in DOMAIN b /\ p[2] \in 1 .. K /\ p = <<p[1], p[2]>> /\ q[2] \in 1 .. K /\ q = <<q[1], q[2]>>
      /\ b[p[1]][p[2]] = b[p[1]][q[2]] /\ b[p[1]] \in [1 .. K -> Expert]
  BY BucketFacts, BatchFacts DEF Bucket
<1>2. IsInjective(b[p[1]])
  BY <1>1, EPAssumption
<1>3. p[2] = q[2]
  BY <1>1, <1>2 DEF IsInjective
<1> QED BY <1>1, <1>3

LEMMA DensePlacedOnce == DenseOnly /\ EPInv => ReplicasPlacedOnce
<1> SUFFICES ASSUME DenseOnly, EPInv, NEW r \in Ranks, NEW s \in Ranks, NEW e \in Locals, pc[r] = "received"
             PROVE  LET b == Bucket(batch[s], r, e)  got == RowsFor(r, s, e) IN
                    /\ ToSet(got) \subseteq {Payload(s, p[1]) : p \in b}
                    /\ Cardinality(ToSet(got)) = Len(got)
                    /\ Len(got) = IF ll THEN Min({MMax, Cardinality(b)}) ELSE Cardinality(b)
  BY DEF ReplicasPlacedOnce
<1>1. ll /\ EPTypeOK /\ ExchangeInv
  BY EPAssumption DEF EPInv, EPTypeOK, DenseOnly, ll
<1> DEFINE b == Bucket(batch[s], r, e)
           got == RowsFor(r, s, e)
<1> PICK n \in Nat : n = Cardinality(b)
  BY BucketFacts
<1> PICK l \in Nat : l = Min({MMax, n}) /\ l <= n /\ l <= MMax
  BY MinOf, Sizes
<1>2. BucketInv(s) /\ batch[s] \in Batches
  BY <1>1 DEF EPInv, DispatchInv, BatchesInv, InCall, ExchangeInv
<1> PICK slot : Dealt(batch[s], slot) /\ indices[s] = Filled(batch[s], slot)
  BY <1>2 DEF BucketInv
<1>3. got = [i \in 1 .. l |-> rows[r][s][e][i - 1]]
  BY <1>1 DEF RowsFor
<1>4. ASSUME NEW i \in 1 .. l
      PROVE  \E p \in b : slot[p] = i - 1 /\ got[i] = Payload(s, p[1])
  <2>1. i - 1 \in Slots /\ i - 1 < n
    BY Sizes DEF Slots
  <2> PICK p : p = indices[s][r][e][i - 1]
    OBVIOUS
  <2>2. p # Unused /\ p \in b /\ slot[p] = i - 1
    BY <2>1, FilledSlots
  <2>3. rows[r][s][e][i - 1] = send_buf[s][r][e][i - 1]
    BY ONLY <1>1, <2>1, pc[r] = "received", r \in Ranks, s \in Ranks, e \in Locals DEF ExchangeInv
  <2>4. send_buf[s][r][e][i - 1] = Payload(s, p[1])
    BY <1>2, <2>1, <2>2 DEF BucketInv
  <2> QED BY <1>3, <2>2, <2>3, <2>4
<1>5. Len(got) = l /\ DOMAIN got = 1 .. l
  BY <1>3
<1>6. ToSet(got) = {got[i] : i \in 1 .. l}
  BY <1>5 DEF ToSet
<1>7. ASSUME NEW i \in 1 .. l, NEW j \in 1 .. l, got[i] = got[j] PROVE i = j
  <2> PICK p \in b : slot[p] = i - 1 /\ got[i] = Payload(s, p[1])
    BY <1>4
  <2> PICK q \in b : slot[q] = j - 1 /\ got[j] = Payload(s, q[1])
    BY <1>4
  <2>1. p[1] = q[1]
    BY <1>7 DEF Payload
  <2>2. p = q
    BY <1>2, <2>1, OneChoiceOfBucket
  <2> QED BY <2>2
<1> HIDE DEF got, b
<1>8. Cardinality(ToSet(got)) = l
  <2> DEFINE f == [i \in 1 .. l |-> got[i]]
  <2>1. f \in [1 .. l -> ToSet(got)] /\ \A x \in ToSet(got) : \E i \in 1 .. l : f[i] = x
    BY <1>6
  <2>2. \A i, j \in 1 .. l : f[i] = f[j] => i = j
    BY <1>7
  <2> HIDE DEF f
  <2>3. f \in Bijection(1 .. l, ToSet(got))
    BY <2>1, <2>2 DEF Bijection, Injection, Surjection, IsInjective
  <2>4. ExistsBijection(1 .. l, ToSet(got))
    BY <2>3 DEF ExistsBijection
  <2> QED BY <2>4, FS_CountingElements, Zenon
<1>9. ToSet(got) \subseteq {Payload(s, p[1]) : p \in b}
  BY <1>4, <1>6
<1> QED BY <1>1, <1>5, <1>8, <1>9 DEF got, b

(* Dispatch through the dense buffer hands every replica that found a slot   *)
(* to the rank of its expert, once, and nothing that an earlier call left in *)
(* the buffer is taken for one.                                              *)
THEOREM DenseDispatchIsExact == ASSUME DenseOnly PROVE Spec => []ReplicasPlacedOnce
BY EPInvHolds, DensePlacedOnce, PTL

-----------------------------------------------------------------------------
(* The layer.  What is summed up for a token are the terms of the replicas *)
(* that found a slot.                                                      *)
Stored(b, slot) == {p \in Replicas(b) : slot[p] < MMax}
TermOf(r, b, p) == [k |-> p[2], row |-> <<b[p[1]][p[2]], Payload(r, p[1])>>]

LEMMA StoredOfBucket ==
  ASSUME NEW b, NEW slot, Dealt(b, slot), NEW d \in Ranks, NEW e \in Locals
  PROVE  Cardinality({p \in Bucket(b, d, e) : slot[p] < MMax}) =
           IF Cardinality(Bucket(b, d, e)) <= MMax THEN Cardinality(Bucket(b, d, e)) ELSE MMax
<1> DEFINE S == Bucket(b, d, e)
           T == {p \in S : slot[p] < MMax}
<1> PICK n \in Nat : n = Cardinality(S)
  BY BucketFacts
<1> PICK l \in Nat : l = IF n <= MMax THEN n ELSE MMax
  BY Sizes
<1>1. IsFiniteSet(T)
  BY BucketFacts, FS_Subset
<1>2. /\ \A p, q \in T : slot[p] = slot[q] => p = q
      /\ \A p \in T : slot[p] \in 0 .. l - 1
      /\ \A m \in 0 .. l - 1 : \E p \in T : slot[p] = m
  BY DealtOnce, Sizes
<1> HIDE DEF T
<1>3. [p \in T |-> slot[p]] \in Bijection(T, 0 .. l - 1)
  BY <1>2 DEF Bijection, Injection, Surjection, IsInjective
<1>4. Cardinality(0 .. l - 1) = Cardinality(T)
  <2>1. ExistsBijection(T, 0 .. l - 1)
    BY <1>3 DEF ExistsBijection
  <2> QED BY <1>1, <2>1, FS_Bijection, Zenon
<1>5. Cardinality(0 .. l - 1) = l
  <2>1. 0 \in Int /\ l - 1 \in Int /\ (IF 0 > l - 1 THEN 0 ELSE l - 1 - 0 + 1) = l
    OBVIOUS
  <2> QED BY <2>1, FS_Interval, Zenon
<1> QED BY <1>4, <1>5 DEF T

LEMMA SameReplicas == ASSUME NEW b \in Batches PROVE Layer!Replicas(b) = Replicas(b)
<1>1. /\ b \in Seq([1 .. K -> Expert]) /\ Len(b) \in 1 .. TCap /\ DOMAIN b = 1 .. Len(b)
      /\ \A t \in DOMAIN b : b[t] \in [1 .. K -> Expert]
  BY BatchFacts
<1>2. UNION {DOMAIN b[u] : u \in DOMAIN b} = 1 .. K
  <2>1. 1 \in DOMAIN b
    BY <1>1
  <2>2. \A u \in DOMAIN b : DOMAIN b[u] = 1 .. K
    BY <1>1
  <2> QED BY <2>1, <2>2
<1>3. Replicas(b) = (1 .. Len(b)) \X (1 .. K)
  BY <1>1, Sizes DEF Replicas, Pairs
<1> PICK J : J = UNION {DOMAIN b[u] : u \in DOMAIN b}
  OBVIOUS
<1>4. Layer!Replicas(b) = {<<t, k>> : t \in DOMAIN b, k \in J}
  BY DEF Layer!Replicas
<1>5. DOMAIN b = 1 .. Len(b) /\ J = 1 .. K
  BY <1>1, <1>2
<1> QED BY <1>3, <1>4, <1>5

LEMMA SameCardinality == \A S : Layer!Cardinality(S) = Cardinality(S)
BY DEF Cardinality, Layer!Cardinality

LEMMA LawfullyStored ==
  ASSUME NEW b \in Batches, NEW slot, Dealt(b, slot), ll, recipe = "ep_ll_torch" => ~Overflows(b)
  PROVE  Stored(b, slot) \in SUBSET Layer!Replicas(b) /\ Layer!Lawful(b, Stored(b, slot))
<1>1. Stored(b, slot) \in SUBSET Layer!Replicas(b)
  BY SameReplicas DEF Stored
<1> PICK R : R = Layer!Replicas(b) /\ R = Replicas(b)
  BY SameReplicas
<1>2. ASSUME NEW e \in UNION {Range(b[t]) : t \in DOMAIN b}
      PROVE  Cardinality({p \in Stored(b, slot) : b[p[1]][p[2]] = e}) =
               LET sent == {p \in R : b[p[1]][p[2]] = e}
                   cap == IF recipe = "ep_ll_triton" THEN MMax ELSE TCap * K
               IN  IF Cardinality(sent) <= cap THEN Cardinality(sent) ELSE cap
  <2> PICK t \in DOMAIN b : e \in Range(b[t])
    OBVIOUS
  <2>1. e \in Expert
    <3>1. b[t] \in [1 .. K -> Expert]
      BY BatchFacts
    <3> QED BY <3>1 DEF Range
  <2> PICK d \in Ranks, f \in Locals : e = Global(d, f)
    BY <2>1, Owner DEF Global
  <2> PICK n \in Nat : n = Cardinality(Bucket(b, d, f)) /\ n <= TCap * K
    BY BucketFacts
  <2>2. {p \in R : b[p[1]][p[2]] = e} = Bucket(b, d, f)
    BY SentIsBucket
  <2>3. {p \in Stored(b, slot) : b[p[1]][p[2]] = e} = {p \in Bucket(b, d, f) : slot[p] < MMax}
    BY <2>2 DEF Stored
  <2>4. Cardinality({p \in Stored(b, slot) : b[p[1]][p[2]] = e}) = IF n <= MMax THEN n ELSE MMax
    BY <2>3, StoredOfBucket
  <2>5. recipe = "ep_ll_torch" => n <= MMax
    BY Sizes DEF Overflows
  <2>6. recipe \in {"ep_ll_torch", "ep_ll_triton"} /\ MMax \in Nat
    BY Sizes DEF ll
  <2> QED BY <2>2, <2>4, <2>5, <2>6
<1>3. \A t \in DOMAIN b : Layer!Range(b[t]) = Range(b[t])
  BY DEF Range, Layer!Range
<1> QED BY <1>1, <1>2, <1>3, SameCardinality DEF Layer!Lawful

LEMMA RowsReturned ==
  ASSUME ExchangeInv, ll, NEW r \in Ranks, BucketInv(r), pc[r] = "returned",
         NEW d \in Ranks, NEW e \in Locals, NEW m \in Slots, indices[r][d][e][m] # Unused
  PROVE  rows[r][d][e][m] = <<Global(d, e), Payload(r, indices[r][d][e][m][1])>>
<1>1. rows[r][d][e][m] = <<Global(d, e), send_buf[r][d][e][m]>>
  BY DEF ExchangeInv
<1>2. send_buf[r][d][e][m] = Payload(r, indices[r][d][e][m][1])
  BY DEF BucketInv
<1> QED BY <1>1, <1>2

LEMMA TermsAreStored ==
  ASSUME EPInv, ll, NEW r \in Ranks, pc[r] = "returned", NEW slot,
         Dealt(batch[r], slot), indices[r] = Filled(batch[r], slot), NEW t \in DOMAIN batch[r]
  PROVE  Terms(r, t) = {TermOf(r, batch[r], p) : p \in {q \in Stored(batch[r], slot) : q[1] = t}}
<1> DEFINE b == batch[r]
           Marked == {y \in Ranks \X Locals \X Slots : indices[r][y[1]][y[2]][y[3]][1] = t}
           At(x) == [k |-> indices[r][x[1]][x[2]][x[3]][2], row |-> rows[r][x[1]][x[2]][x[3]]]
           Mine == {q \in Stored(b, slot) : q[1] = t}
<1>1. b \in Batches /\ BucketInv(r) /\ ExchangeInv
  BY DEF EPInv, BatchesInv, DispatchInv, InCall
<1>2. t # 0
  BY <1>1, BatchFacts
<1>3. ASSUME NEW x \in Marked PROVE \E p \in Mine : At(x) = TermOf(r, b, p)
  <2> PICK d, e, m : d = x[1] /\ e = x[2] /\ m = x[3]
    OBVIOUS
  <2> PICK p : p = indices[r][d][e][m]
    OBVIOUS
  <2>1. d \in Ranks /\ e \in Locals /\ m \in Slots /\ p[1] = t
    OBVIOUS
  <2>2. p # Unused /\ p \in Bucket(b, d, e) /\ slot[p] = m
    BY <1>2, <2>1, FilledSlots DEF Unused
  <2>3. p \in Mine
    <3>1. p \in Replicas(b) /\ slot[p] < MMax
      BY <2>1, <2>2, Sizes, BucketFacts DEF Slots
    <3> QED BY <2>1, <3>1 DEF Stored
  <2>4. rows[r][d][e][m] = <<Global(d, e), Payload(r, t)>>
    BY <1>1, <2>1, <2>2, RowsReturned
  <2>5. b[p[1]][p[2]] = Global(d, e)
    BY <2>2 DEF Bucket, Global
  <2> QED BY <2>1, <2>3, <2>4, <2>5 DEF TermOf
<1>4. ASSUME NEW p \in Mine PROVE \E x \in Marked : At(x) = TermOf(r, b, p)
  <2>1. p \in Replicas(b) /\ p[1] = t /\ slot[p] < MMax
    BY DEF Stored
  <2>2. b[p[1]][p[2]] \in Expert
    BY <1>1, <2>1, BatchFacts
  <2> PICK d \in Ranks, e \in Locals : b[p[1]][p[2]] = Global(d, e)
    BY <2>2, Owner DEF Global
  <2> PICK m : m = slot[p]
    OBVIOUS
  <2>3. m \in Slots /\ p \in Bucket(b, d, e)
    BY <2>1, Sizes DEF Dealt, Slots, Bucket, Global
  <2>4. indices[r][d][e][m] = p
    BY <2>3, FilledSlots
  <2>5. p # Unused
    BY <1>2, <2>1 DEF Unused
  <2>6. rows[r][d][e][m] = <<Global(d, e), Payload(r, t)>>
    BY <1>1, <2>1, <2>3, <2>4, <2>5, RowsReturned
  <2> PICK x : x = <<d, e, m>>
    OBVIOUS
  <2>7. x \in Marked /\ At(x) = TermOf(r, b, p)
    BY <2>1, <2>3, <2>4, <2>6 DEF TermOf
  <2> QED BY <2>7
<1>5. Terms(r, t) = {At(x) : x \in Marked}
  BY DEF Terms
<1> HIDE DEF Marked, At, Mine
<1>6. {At(x) : x \in Marked} = {TermOf(r, b, p) : p \in Mine}
  BY <1>3, <1>4
<1> QED BY <1>5, <1>6 DEF Mine

LEMMA LayerStep == DenseOnly /\ EPInv /\ [Next]_vars => [Layer!Next]_(Layer!vars)
<1> SUFFICES ASSUME DenseOnly, EPInv, [Next]_vars
             PROVE  (\E r \in Ranks : Layer!Call(r)) \/ UNCHANGED <<recipe, calls, out>>
  BY DEF Layer!Next, Layer!vars
<1>1. EPTypeOK /\ ll
  BY EPAssumption DEF EPInv, EPTypeOK, DenseOnly, ll
<1>2. ASSUME NEW r \in Ranks, Combine(r) PROVE Layer!Call(r)
  <2> DEFINE b == batch[r]
  <2>1. b \in Batches /\ calls[r] < MaxCalls /\ BucketInv(r) /\ pc[r] = "returned"
    BY <1>1, <1>2 DEF EPInv, BatchesInv, DispatchInv, InCall, Combine
  <2> PICK slot : Dealt(b, slot) /\ indices[r] = Filled(b, slot)
    BY <2>1 DEF BucketInv
  <2> DEFINE kept == Stored(b, slot)
  <2>2. kept \in SUBSET Layer!Replicas(b) /\ Layer!Lawful(b, kept)
    BY <1>1, <2>1, LawfullyStored DEF BucketInv
  <2>3. \A t \in DOMAIN b :
          Terms(r, t) = {Layer!Term(r, calls[r], b, p[1], p[2]) : p \in {q \in kept : q[1] = t}}
    BY <1>1, <2>1, TermsAreStored DEF TermOf, Layer!Term, Payload
  <2>4. out' = [out EXCEPT ![r] = [t \in DOMAIN b |->
                 {Layer!Term(r, calls[r], b, p[1], p[2]) : p \in {q \in kept : q[1] = t}}]]
    BY <1>2, <2>3 DEF Combine
  <2>5. calls' = [calls EXCEPT ![r] = @ + 1] /\ recipe' = recipe
    BY <1>2 DEF Combine
  <2> HIDE DEF b, kept
  <2> QED BY <2>1, <2>2, <2>4, <2>5 DEF Layer!Call, b
<1>3. (\E r \in Ranks : Combine(r)) \/ UNCHANGED <<recipe, calls, out>>
  BY DEF Next, Collective, ExchangeDense, ExchangeCounts, ExchangeRows, ReverseExchange, Step, Forward, Leave,
         Experts, vars
<1> QED BY <1>2, <1>3

LEMMA LayerInit == Init => Layer!Init
BY Sizes DEF Init, Layer!Init

(* The safety half of RefinesLayer for the dense recipes: whatever order the *)
(* ranks run and the atomic adds happen in, the output of a call is the sum  *)
(* over the experts of its own tokens, without loss for the torch loop, and  *)
(* for the kernel with at most the excess over a bucket lost.                *)
THEOREM DenseLayerIsTheSum ==
  ASSUME DenseOnly PROVE Spec => Layer!Init /\ [][Layer!Next]_(Layer!vars)
BY EPInvHolds, LayerInit, LayerStep, PTL DEF Spec

=============================================================================
