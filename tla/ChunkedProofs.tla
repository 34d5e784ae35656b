--------------------------- MODULE ChunkedProofs ---------------------------
(***************************************************************************)
(* Proofs about the chunked-prefill engine, for every pool, block size,    *)
(* budget, set of prompts and number of requests.                          *)
(***************************************************************************)
EXTENDS Chunked, TLAPS, FiniteSetTheorems, SequenceTheorems, NaturalsInduction, WellFoundedInduction

-----------------------------------------------------------------------------
(* The loops of the engine: each is a recursive function, which exists      *)
(* because a least place where it did not would have a predecessor.         *)
LEMMA LeastOf ==
  ASSUME NEW S \in SUBSET Nat, S # {}
  PROVE  \E k \in S : \A j \in S : k <= j
<1>1. PICK k \in S : \A j \in S : ~(<<j, k>> \in OpToRel(<, Nat))
  BY WFMin, NatLessThanWellFounded
<1>2. ASSUME NEW j \in S, j < k PROVE FALSE
  <2>1. <<j, k>> \in {ss \in Nat \X Nat : ss[1] < ss[2]}
    BY <1>2
  <2> QED BY <1>1, <2>1 DEF OpToRel
<1> QED BY <1>2

(* The loop of allocate_slots over the new blocks. *)
LEMMA SlotsLoop ==
  ASSUME NEW s, NEW m \in Nat
  PROVE  /\ Slots(s, m)[0] = FillLast(WithSeq(s), s)
         /\ \A k \in 1 .. m :
              Slots(s, m)[k] = AddBlock(Slots(s, m)[k - 1], s, Len(table[s]) + k - 1)
<1> DEFINE base == FillLast(WithSeq(s), s)
           Step(p, k) == AddBlock(p, s, Len(table[s]) + k - 1)
           Good(n, f) == f = [k \in 0 .. n |-> IF k = 0 THEN base ELSE Step(f[k - 1], k)]
           T == {n \in Nat : \A f : ~Good(n, f)}
<1>0. Slots(s, m) = CHOOSE p : Good(m, p)
  BY DEF Slots
<1> HIDE DEF base, Step
<1>1. ASSUME T # {} PROVE FALSE
  <2> PICK n \in T : \A j \in T : n <= j
    <3>1. T \subseteq Nat
      OBVIOUS
    <3> HIDE DEF T
    <3> QED BY <1>1, <3>1, LeastOf
  <2>0. n \in Nat /\ \A f : ~Good(n, f)
    OBVIOUS
  <2>1. CASE n = 0
    <3> DEFINE f == [k \in 0 .. 0 |-> base]
    <3>1. Good(0, f)
      OBVIOUS
    <3> HIDE DEF f
    <3> QED BY <2>1, <3>1
  <2>2. CASE n # 0
    <3>1. n - 1 \in Nat /\ ~(n <= n - 1)
      BY <2>0, <2>2
    <3>a. n - 1 \notin T
      <4> HIDE DEF T
      <4> QED BY <3>1
    <3>2. PICK g : Good(n - 1, g)
      <4> HIDE DEF Good
      <4> QED BY <3>1, <3>a
    <3> DEFINE f == [k \in 0 .. n |-> IF k = n THEN Step(g[n - 1], n) ELSE g[k]]
    <3>3. \A k \in 0 .. n - 1 : g[k] = IF k = 0 THEN base ELSE Step(g[k - 1], k)
      BY <3>2
    <3>4. ASSUME NEW k \in 0 .. n PROVE f[k] = IF k = 0 THEN base ELSE Step(f[k - 1], k)
      <4>1. CASE k = n
        <5>1. f[k - 1] = g[n - 1] /\ k # 0
          BY <2>2, <4>1
        <5> QED BY <4>1, <5>1
      <4>2. CASE k # n /\ k # 0
        <5>1. k \in 0 .. n - 1 /\ f[k] = g[k] /\ f[k - 1] = g[k - 1]
          BY <4>2
        <5> QED BY <3>3, <4>2, <5>1
      <4>3. CASE k = 0
        BY <2>2, <3>3, <4>3
      <4> QED BY <4>1, <4>2, <4>3
    <3>5. Good(n, f)
      BY <3>4
    <3> HIDE DEF f
    <3> QED BY <3>5
  <2> QED BY <2>1, <2>2
<1>2. Good(m, Slots(s, m))
  <2> HIDE DEF Good
  <2>1. \E f : Good(m, f)
    BY <1>1
  <2> QED BY <1>0, <2>1
<1>3. \A k \in 0 .. m : Slots(s, m)[k] = IF k = 0 THEN base ELSE Step(Slots(s, m)[k - 1], k)
  BY <1>2
<1> QED BY <1>3 DEF base, Step

(* The loop of deallocate. *)
LEMMA ReturnedLoop ==
  ASSUME NEW tbl \in Seq(Blocks)
  PROVE  /\ Returned(tbl)[0] = pool
         /\ \A k \in 1 .. Len(tbl) :
              Returned(tbl)[k] = GiveBack(Returned(tbl)[k - 1], tbl[Len(tbl) + 1 - k])
<1> PICK m \in Nat : m = Len(tbl)
  OBVIOUS
<1> DEFINE base == pool
           Step(p, k) == GiveBack(p, tbl[Len(tbl) + 1 - k])
           Good(n, f) == f = [k \in 0 .. n |-> IF k = 0 THEN base ELSE Step(f[k - 1], k)]
           T == {n \in Nat : \A f : ~Good(n, f)}
<1>0. Returned(tbl) = CHOOSE p : Good(m, p)
  BY DEF Returned
<1> HIDE DEF base, Step
<1>1. ASSUME T # {} PROVE FALSE
  <2> PICK n \in T : \A j \in T : n <= j
    <3>1. T \subseteq Nat
      OBVIOUS
    <3> HIDE DEF T
    <3> QED BY <1>1, <3>1, LeastOf
  <2>0. n \in Nat /\ \A f : ~Good(n, f)
    OBVIOUS
  <2>1. CASE n = 0
    <3> DEFINE f == [k \in 0 .. 0 |-> base]
    <3>1. Good(0, f)
      OBVIOUS
    <3> HIDE DEF f
    <3> QED BY <2>1, <3>1
  <2>2. CASE n # 0
    <3>1. n - 1 \in Nat /\ ~(n <= n - 1)
      BY <2>0, <2>2
    <3>a. n - 1 \notin T
      <4> HIDE DEF T
      <4> QED BY <3>1
    <3>2. PICK g : Good(n - 1, g)
      <4> HIDE DEF Good
      <4> QED BY <3>1, <3>a
    <3> DEFINE f == [k \in 0 .. n |-> IF k = n THEN Step(g[n - 1], n) ELSE g[k]]
    <3>3. \A k \in 0 .. n - 1 : g[k] = IF k = 0 THEN base ELSE Step(g[k - 1], k)
      BY <3>2
    <3>4. ASSUME NEW k \in 0 .. n PROVE f[k] = IF k = 0 THEN base ELSE Step(f[k - 1], k)
      <4>1. CASE k = n
        <5>1. f[k - 1] = g[n - 1] /\ k # 0
          BY <2>2, <4>1
        <5> QED BY <4>1, <5>1
      <4>2. CASE k # n /\ k # 0
        <5>1. k \in 0 .. n - 1 /\ f[k] = g[k] /\ f[k - 1] = g[k - 1]
          BY <4>2
        <5> QED BY <3>3, <4>2, <5>1
      <4>3. CASE k = 0
        BY <2>2, <3>3, <4>3
      <4> QED BY <4>1, <4>2, <4>3
    <3>5. Good(n, f)
      BY <3>4
    <3> HIDE DEF f
    <3> QED BY <3>5
  <2> QED BY <2>1, <2>2
<1>2. Good(m, Returned(tbl))
  <2> HIDE DEF Good
  <2>1. \E f : Good(m, f)
    BY <1>1
  <2> QED BY <1>0, <2>1
<1>3. \A k \in 0 .. m : Returned(tbl)[k] = IF k = 0 THEN base ELSE Step(Returned(tbl)[k - 1], k)
  BY <1>2
<1> QED BY <1>3 DEF base, Step

(* The loop at the end of schedule. *)
LEMMA AdvancedLoop ==
  ASSUME scheduled \in Seq(SeqId \X Nat)
  PROVE  /\ Advanced[0] = computed
         /\ \A k \in 1 .. Len(scheduled) :
              Advanced[k] = [Advanced[k - 1] EXCEPT ![scheduled[k][1]] = @ + scheduled[k][2]]
<1> PICK m \in Nat : m = Len(scheduled)
  OBVIOUS
<1> DEFINE base == computed
           Step(p, k) == [p EXCEPT ![scheduled[k][1]] = @ + scheduled[k][2]]
           Good(n, f) == f = [k \in 0 .. n |-> IF k = 0 THEN base ELSE Step(f[k - 1], k)]
           T == {n \in Nat : \A f : ~Good(n, f)}
<1>0. Advanced = CHOOSE p : Good(m, p)
  BY DEF Advanced
<1> HIDE DEF base, Step
<1>1. ASSUME T # {} PROVE FALSE
  <2> PICK n \in T : \A j \in T : n <= j
    <3>1. T \subseteq Nat
      OBVIOUS
    <3> HIDE DEF T
    <3> QED BY <1>1, <3>1, LeastOf
  <2>0. n \in Nat /\ \A f : ~Good(n, f)
    OBVIOUS
  <2>1. CASE n = 0
    <3> DEFINE f == [k \in 0 .. 0 |-> base]
    <3>1. Good(0, f)
      OBVIOUS
    <3> HIDE DEF f
    <3> QED BY <2>1, <3>1
  <2>2. CASE n # 0
    <3>1. n - 1 \in Nat /\ ~(n <= n - 1)
      BY <2>0, <2>2
    <3>a. n - 1 \notin T
      <4> HIDE DEF T
      <4> QED BY <3>1
    <3>2. PICK g : Good(n - 1, g)
      <4> HIDE DEF Good
      <4> QED BY <3>1, <3>a
    <3> DEFINE f == [k \in 0 .. n |-> IF k = n THEN Step(g[n - 1], n) ELSE g[k]]
    <3>3. \A k \in 0 .. n - 1 : g[k] = IF k = 0 THEN base ELSE Step(g[k - 1], k)
      BY <3>2
    <3>4. ASSUME NEW k \in 0 .. n PROVE f[k] = IF k = 0 THEN base ELSE Step(f[k - 1], k)
      <4>1. CASE k = n
        <5>1. f[k - 1] = g[n - 1] /\ k # 0
          BY <2>2, <4>1
        <5> QED BY <4>1, <5>1
      <4>2. CASE k # n /\ k # 0
        <5>1. k \in 0 .. n - 1 /\ f[k] = g[k] /\ f[k - 1] = g[k - 1]
          BY <4>2
        <5> QED BY <3>3, <4>2, <5>1
      <4>3. CASE k = 0
        BY <2>2, <3>3, <4>3
      <4> QED BY <4>1, <4>2, <4>3
    <3>5. Good(n, f)
      BY <3>4
    <3> HIDE DEF f
    <3> QED BY <3>5
  <2> QED BY <2>1, <2>2
<1>2. Good(m, Advanced)
  <2> HIDE DEF Good
  <2>1. \E f : Good(m, f)
    BY <1>1
  <2> QED BY <1>0, <2>1
<1>3. \A k \in 0 .. m : Advanced[k] = IF k = 0 THEN base ELSE Step(Advanced[k - 1], k)
  BY <1>2
<1>4. Advanced[0] = base
  BY <1>3
<1>5. ASSUME NEW k \in 1 .. m PROVE Advanced[k] = Step(Advanced[k - 1], k)
  <2>1. k \in 0 .. m /\ k # 0
    OBVIOUS
  <2> QED BY <1>3, <2>1
<1> QED BY <1>4, <1>5 DEF base, Step

(* The sum of the chunks of a step. *)
LEMMA TotalsLoop ==
  ASSUME NEW q \in Seq(SeqId \X Nat)
  PROVE  /\ Totals(q)[0] = 0
         /\ \A k \in 1 .. Len(q) : Totals(q)[k] = Totals(q)[k - 1] + q[k][2]
<1> PICK m \in Nat : m = Len(q)
  OBVIOUS
<1> DEFINE base == 0
           Step(p, k) == p + q[k][2]
           Good(n, f) == f = [k \in 0 .. n |-> IF k = 0 THEN base ELSE Step(f[k - 1], k)]
           T == {n \in Nat : \A f : ~Good(n, f)}
<1>0. Totals(q) = CHOOSE p : Good(m, p)
  BY DEF Totals
<1> HIDE DEF base, Step
<1>1. ASSUME T # {} PROVE FALSE
  <2> PICK n \in T : \A j \in T : n <= j
    <3>1. T \subseteq Nat
      OBVIOUS
    <3> HIDE DEF T
    <3> QED BY <1>1, <3>1, LeastOf
  <2>0. n \in Nat /\ \A f : ~Good(n, f)
    OBVIOUS
  <2>1. CASE n = 0
    <3> DEFINE f == [k \in 0 .. 0 |-> base]
    <3>1. Good(0, f)
      OBVIOUS
    <3> HIDE DEF f
    <3> QED BY <2>1, <3>1
  <2>2. CASE n # 0
    <3>1. n - 1 \in Nat /\ ~(n <= n - 1)
      BY <2>0, <2>2
    <3>a. n - 1 \notin T
      <4> HIDE DEF T
      <4> QED BY <3>1
    <3>2. PICK g : Good(n - 1, g)
      <4> HIDE DEF Good
      <4> QED BY <3>1, <3>a
    <3> DEFINE f == [k \in 0 .. n |-> IF k = n THEN Step(g[n - 1], n) ELSE g[k]]
    <3>3. \A k \in 0 .. n - 1 : g[k] = IF k = 0 THEN base ELSE Step(g[k - 1], k)
      BY <3>2
    <3>4. ASSUME NEW k \in 0 .. n PROVE f[k] = IF k = 0 THEN base ELSE Step(f[k - 1], k)
      <4>1. CASE k = n
        <5>1. f[k - 1] = g[n - 1] /\ k # 0
          BY <2>2, <4>1
        <5> QED BY <4>1, <5>1
      <4>2. CASE k # n /\ k # 0
        <5>1. k \in 0 .. n - 1 /\ f[k] = g[k] /\ f[k - 1] = g[k - 1]
          BY <4>2
        <5> QED BY <3>3, <4>2, <5>1
      <4>3. CASE k = 0
        BY <2>2, <3>3, <4>3
      <4> QED BY <4>1, <4>2, <4>3
    <3>5. Good(n, f)
      BY <3>4
    <3> HIDE DEF f
    <3> QED BY <3>5
  <2> QED BY <2>1, <2>2
<1>2. Good(m, Totals(q))
  <2> HIDE DEF Good
  <2>1. \E f : Good(m, f)
    BY <1>1
  <2> QED BY <1>0, <2>1
<1>3. \A k \in 0 .. m : Totals(q)[k] = IF k = 0 THEN base ELSE Step(Totals(q)[k - 1], k)
  BY <1>2
<1> QED BY <1>3 DEF base, Step

-----------------------------------------------------------------------------
(* The pool and the sequence at hand, field by field. *)
PoolFields == {"ref", "hash", "content", "h2b", "free", "used"}
Fields == PoolFields \cup {"table", "last"}

Typed(p) ==
  /\ p.ref \in [Blocks -> Nat] /\ p.hash \in [Blocks -> Seq(Token)]
  /\ p.content \in [Blocks -> Seq(Token)] /\ p.h2b \in [DOMAIN p.h2b -> Blocks]
  /\ p.free \in Seq(Blocks) /\ p.used \subseteq Blocks
TypedSeq(p) == DOMAIN p = Fields /\ Typed(p) /\ p.table \in Seq(Blocks) /\ p.last \in Seq(Token)

-----------------------------------------------------------------------------
(* Blocks of tokens. *)
LEMMA Sizes ==
  /\ BlockSize \in Nat /\ BlockSize >= 1 /\ NumBlocks \in Nat /\ NumBlocks >= 1
  /\ MaxNumBatchedTokens \in Nat /\ MaxNumBatchedTokens >= 1 /\ MaxNumSeqs \in Nat /\ MaxNumSeqs >= 1
BY ChunkedAssumption

LEMMA TimesMonotone ==
  ASSUME NEW m \in Int, NEW n \in Int, m <= n
  PROVE  m * BlockSize <= n * BlockSize
BY Sizes

LEMMA TimesNext ==
  ASSUME NEW n \in Int
  PROVE  /\ (n + 1) * BlockSize = n * BlockSize + BlockSize
         /\ (n - 1) * BlockSize = n * BlockSize - BlockSize
         /\ n * BlockSize \in Int
         /\ n \in Nat => n * BlockSize \in Nat
BY Sizes

(* Block i of a sequence: at most BlockSize tokens, from place i * BlockSize on. *)
LEMMA BlockOf ==
  ASSUME tokens \in [SeqId -> Seq(Token)], NEW s \in SeqId, NEW i \in Nat
  PROVE  /\ block(s, i) \in Seq(Token)
         /\ Len(block(s, i)) \in Nat /\ Len(block(s, i)) <= BlockSize
         /\ Len(block(s, i)) = BlockSize <=> (i + 1) * BlockSize <= Len(tokens[s])
         /\ Len(block(s, i)) = BlockSize => block(s, i) # << >>
         /\ (i + 1) * BlockSize <= Len(tokens[s]) =>
              block(s, i) = SubSeq(tokens[s], i * BlockSize + 1, (i + 1) * BlockSize)
<1> DEFINE lo == i * BlockSize
           hi == (i + 1) * BlockSize
<1>1. /\ tokens[s] \in Seq(Token) /\ Len(tokens[s]) \in Nat
      /\ lo \in Nat /\ hi = lo + BlockSize /\ BlockSize \in Nat /\ BlockSize >= 1
  BY TimesNext, Sizes
<1>2. block(s, i) = SubSeq(tokens[s], lo + 1, IF hi <= Len(tokens[s]) THEN hi ELSE Len(tokens[s]))
  BY DEF block, Slice
<1> HIDE DEF lo, hi
<1>3. CASE hi <= Len(tokens[s])
  <2>1. block(s, i) = SubSeq(tokens[s], lo + 1, hi)
    BY <1>2, <1>3
  <2>2. \A k \in lo + 1 .. hi : tokens[s][k] \in Token
    BY <1>1, <1>3
  <2>3. block(s, i) \in Seq(Token) /\ Len(block(s, i)) = BlockSize
    <3>1. /\ SubSeq(tokens[s], lo + 1, hi) \in Seq(Token)
          /\ Len(SubSeq(tokens[s], lo + 1, hi)) =
               IF lo + 1 <= hi THEN hi - (lo + 1) + 1 ELSE 0
      <4>1. lo + 1 \in Int /\ hi \in Int
        BY <1>1
      <4> QED BY <4>1, <2>2, SubSeqProperties
    <3> QED BY <1>1, <2>1, <3>1
  <2>4. block(s, i) # << >>
    BY <1>1, <2>3
  <2>5. Len(block(s, i)) \in Nat /\ Len(block(s, i)) <= BlockSize
    BY <1>1, <2>3
  <2> QED BY <1>3, <2>1, <2>3, <2>4, <2>5 DEF lo, hi
<1>4. CASE ~(hi <= Len(tokens[s])) /\ lo <= Len(tokens[s])
  <2>1. block(s, i) = SubSeq(tokens[s], lo + 1, Len(tokens[s]))
    BY <1>2, <1>4
  <2>2. \A k \in lo + 1 .. Len(tokens[s]) : tokens[s][k] \in Token
    BY <1>1, <1>4
  <2>3. block(s, i) \in Seq(Token) /\ Len(block(s, i)) = Len(tokens[s]) - lo
    BY <1>1, <1>4, <2>1, <2>2
  <2> QED BY <1>1, <1>4, <2>3 DEF lo, hi
<1>5. CASE ~(lo <= Len(tokens[s]))
  <2>1. block(s, i) = << >>
    BY <1>1, <1>2, <1>5
  <2> QED BY <1>1, <1>5, <2>1 DEF lo, hi
<1> QED BY <1>1, <1>3, <1>4, <1>5

-----------------------------------------------------------------------------
(* What one iteration of allocate_slots does to p: a free block is taken,  *)
(* and named if it is full, or a full block is shared.                     *)
Names(p, q, b, toks) ==
  \E h \in Seq(Token), c \in Seq(Token) :
    /\ q.hash = [p.hash EXCEPT ![b] = h] /\ q.content = [p.content EXCEPT ![b] = c]
    /\ IF Len(toks) = BlockSize THEN h # NoHash /\ c = toks ELSE h = NoHash /\ c = << >>
Takes(p, q, b, toks) ==
  /\ b \in ToSet(p.free) /\ Names(p, q, b, toks)
  /\ q.ref = [p.ref EXCEPT ![b] = 1] /\ q.free = RemoveEntry(p.free, b)
  /\ q.used = p.used \cup {b} /\ q.table = Append(p.table, b)
Shares(p, q, b, toks) ==
  /\ b \in p.used /\ Len(toks) = BlockSize /\ p.content[b] = toks
  /\ q.ref = [p.ref EXCEPT ![b] = @ + 1] /\ q.table = Append(p.table, b)
  /\ q.hash = p.hash /\ q.content = p.content /\ q.free = p.free /\ q.used = p.used
Distinct(q) == \A j, k \in DOMAIN q : q[j] = q[k] => j = k
FreeOK(p) ==
  /\ Distinct(p.free)
  /\ \A b \in Blocks : b \in ToSet(p.free) <=> b \notin p.used
  /\ \A b \in Blocks : b \in p.used <=> p.ref[b] > 0

LEMMA MapToType ==
  ASSUME NEW m, m \in [DOMAIN m -> Blocks], NEW h, NEW b \in Blocks
  PROVE  MapTo(m, h, b) \in [DOMAIN MapTo(m, h, b) -> Blocks]
BY DEF MapTo

LEMMA HashType ==
  ASSUME NEW toks \in Seq(Token), NEW prefix \in Seq(Token), toks # << >>
  PROVE  compute_hash(toks, prefix) \in Seq(Token) /\ compute_hash(toks, prefix) # NoHash
<1>1. /\ prefix \o toks \in Seq(Token)
      /\ Len(prefix \o toks) = Len(prefix) + Len(toks)
      /\ Len(toks) \in Nat /\ Len(prefix) \in Nat /\ Len(toks) # 0
  OBVIOUS
<1>2. Len(prefix \o toks) # 0
  BY <1>1
<1>3. prefix \o toks # << >>
  BY <1>2
<1> QED BY <1>1, <1>3 DEF compute_hash, NoHash

(* The fields of each of the helpers of the block manager. *)
Took(p, q, b) ==
  /\ DOMAIN q = Fields /\ q.ref = [p.ref EXCEPT ![b] = 1]
  /\ q.hash = [p.hash EXCEPT ![b] = NoHash] /\ q.content = [p.content EXCEPT ![b] = << >>]
  /\ q.free = RemoveEntry(p.free, b) /\ q.used = p.used \cup {b}
  /\ q.h2b = p.h2b /\ q.table = p.table /\ q.last = p.last
Updated(p, q, b, h, toks) ==
  /\ DOMAIN q = Fields
  /\ q.hash = [p.hash EXCEPT ![b] = h] /\ q.content = [p.content EXCEPT ![b] = toks]
  /\ q.ref = p.ref /\ q.free = p.free /\ q.used = p.used
  /\ q.h2b = p.h2b /\ q.table = p.table /\ q.last = p.last
Registered(p, q, b, h, toks) ==
  /\ DOMAIN q = Fields
  /\ q.hash = [p.hash EXCEPT ![b] = h] /\ q.content = [p.content EXCEPT ![b] = toks]
  /\ q.ref = p.ref /\ q.free = p.free /\ q.used = p.used
  /\ q.h2b = MapTo(p.h2b, h, b) /\ q.table = p.table /\ q.last = h
Joined(p, q, b, h) ==
  /\ DOMAIN q = Fields /\ q.table = Append(p.table, b) /\ q.last = h
  /\ q.hash = p.hash /\ q.content = p.content
  /\ q.ref = p.ref /\ q.free = p.free /\ q.used = p.used /\ q.h2b = p.h2b

LEMMA TakeFields ==
  ASSUME NEW p, DOMAIN p = Fields, NEW b
  PROVE  Took(p, Take(p, b), b)
<1> PICK q : q = Take(p, b)
  OBVIOUS
<1>1. Took(p, q, b)
  BY DEF Take, Took, Fields, PoolFields
<1> QED BY <1>1

LEMMA UpdateFields ==
  ASSUME NEW p, DOMAIN p = Fields, NEW b, NEW h, NEW toks
  PROVE  Updated(p, Update(p, b, h, toks), b, h, toks)
<1> PICK q : q = Update(p, b, h, toks)
  OBVIOUS
<1>1. Updated(p, q, b, h, toks)
  BY DEF Update, Updated, Fields, PoolFields
<1> QED BY <1>1

LEMMA RegisterFields ==
  ASSUME NEW p, DOMAIN p = Fields, NEW b, NEW h, NEW toks
  PROVE  Registered(p, Register(p, b, h, toks), b, h, toks)
<1> PICK u : u = Update(p, b, h, toks)
  OBVIOUS
<1>1. Updated(p, u, b, h, toks)
  BY UpdateFields
<1> PICK q : q = Register(p, b, h, toks)
  OBVIOUS
<1>2. q = [u EXCEPT !.h2b = MapTo(u.h2b, h, b), !.last = h]
  BY DEF Register
<1>3. /\ DOMAIN q = Fields /\ q.hash = u.hash /\ q.content = u.content
      /\ q.ref = u.ref /\ q.free = u.free /\ q.used = u.used
      /\ q.h2b = MapTo(u.h2b, h, b) /\ q.table = u.table /\ q.last = h
  BY <1>1, <1>2 DEF Updated, Fields, PoolFields
<1>4. Registered(p, q, b, h, toks)
  BY <1>1, <1>3 DEF Registered, Updated
<1> QED BY <1>4

LEMMA JoinFields ==
  ASSUME NEW p, DOMAIN p = Fields, NEW b
  PROVE  Joined(p, Join(p, b), b, p.last)
<1> PICK q : q = Join(p, b)
  OBVIOUS
<1>1. Joined(p, q, b, p.last)
  BY DEF Join, Joined, Fields, PoolFields
<1> QED BY <1>1

LEMMA JoinLastFields ==
  ASSUME NEW p, DOMAIN p = Fields, NEW b, NEW h, NEW q, q = [Join(p, b) EXCEPT !.last = h]
  PROVE  Joined(p, q, b, h)
BY DEF Join, Joined, Fields, PoolFields

LEMMA AddBlockCases ==
  ASSUME tokens \in [SeqId -> Seq(Token)], NEW s \in SeqId, NEW i \in Nat,
         NEW p, TypedSeq(p), FreeOK(p), p.free # << >>
  PROVE  /\ DOMAIN AddBlock(p, s, i) = Fields /\ AddBlock(p, s, i).last \in Seq(Token)
         /\ AddBlock(p, s, i).h2b \in [DOMAIN AddBlock(p, s, i).h2b -> Blocks]
         /\ \E b \in Blocks : \/ Takes(p, AddBlock(p, s, i), b, block(s, i))
                              \/ Shares(p, AddBlock(p, s, i), b, block(s, i))
<1> PICK toks : toks = block(s, i)
  OBVIOUS
<1> PICK h : h = compute_hash(toks, p.last)
  OBVIOUS
<1> PICK q : q = AddBlock(p, s, i)
  OBVIOUS
<1>1. /\ toks \in Seq(Token)
      /\ Len(toks) = BlockSize => toks # << >>
      /\ p.last \in Seq(Token)
  BY BlockOf DEF TypedSeq
<1>2. Len(toks) = BlockSize => h \in Seq(Token) /\ h # NoHash
  BY <1>1, HashType
<1>3. /\ Head(p.free) \in Blocks /\ Head(p.free) \in ToSet(p.free)
      /\ << >> \in Seq(Token) /\ NoHash \in Seq(Token)
  BY DEF TypedSeq, Typed, ToSet, NoHash
<1>d. DOMAIN p = Fields
  BY DEF TypedSeq
<1>4. CASE Len(toks) = BlockSize /\ Hit(p, toks) /\ p.h2b[h] \in p.used
  <2> PICK b : b = p.h2b[h]
    OBVIOUS
  <2>1. b \in Blocks /\ b \in p.used /\ p.content[b] = toks
    BY <1>4 DEF Hit, TypedSeq, Typed
  <2>2. q = [Join([p EXCEPT !.ref[b] = @ + 1], b) EXCEPT !.last = h]
    BY <1>4 DEF AddBlock
  <2>3. /\ DOMAIN q = Fields /\ q.last = h /\ q.h2b = p.h2b
        /\ q.ref = [p.ref EXCEPT ![b] = @ + 1] /\ q.table = Append(p.table, b)
        /\ q.hash = p.hash /\ q.content = p.content /\ q.free = p.free /\ q.used = p.used
    BY <1>d, <2>2 DEF Join, Fields, PoolFields
  <2>4. Shares(p, q, b, toks)
    BY <1>4, <2>1, <2>3 DEF Shares
  <2> QED BY <1>2, <1>4, <2>1, <2>3, <2>4 DEF TypedSeq, Typed
<1>5. CASE Len(toks) = BlockSize /\ Hit(p, toks) /\ p.h2b[h] \notin p.used
  <2> PICK b : b = p.h2b[h]
    OBVIOUS
  <2>1. b \in Blocks /\ b \notin p.used
    BY <1>5 DEF Hit, TypedSeq, Typed
  <2>a. b \in ToSet(p.free)
    BY <2>1 DEF FreeOK
  <2>2. q = [Join(Update(Take(p, b), b, h, toks), b) EXCEPT !.last = h]
    BY <1>5, <2>1 DEF AddBlock
  <2> PICK t : t = Take(p, b)
    OBVIOUS
  <2> PICK u : u = Update(t, b, h, toks)
    OBVIOUS
  <2>c. Took(p, t, b) /\ Updated(t, u, b, h, toks) /\ Joined(u, q, b, h)
    <3>1. Took(p, t, b)
      BY <1>d, TakeFields
    <3>2. Updated(t, u, b, h, toks)
      BY <3>1, UpdateFields DEF Took
    <3>a. q = [Join(u, b) EXCEPT !.last = h]
      BY <2>2
    <3>3. Joined(u, q, b, h)
      BY <3>2, <3>a, JoinLastFields DEF Updated
    <3> QED BY <3>1, <3>2, <3>3
  <2>3. /\ DOMAIN q = Fields /\ q.last = h /\ q.h2b = p.h2b
        /\ q.ref = [p.ref EXCEPT ![b] = 1] /\ q.table = Append(p.table, b)
        /\ q.free = RemoveEntry(p.free, b) /\ q.used = p.used \cup {b}
    BY ONLY <2>c DEF Took, Updated, Joined
  <2>b. q.hash = [p.hash EXCEPT ![b] = h] /\ q.content = [p.content EXCEPT ![b] = toks]
    <3>1. p.hash \in [Blocks -> Seq(Token)] /\ p.content \in [Blocks -> Seq(Token)]
      BY DEF TypedSeq, Typed
    <3>2. /\ q.hash = [[p.hash EXCEPT ![b] = NoHash] EXCEPT ![b] = h]
          /\ q.content = [[p.content EXCEPT ![b] = << >>] EXCEPT ![b] = toks]
      BY <2>c DEF Took, Updated, Joined
    <3> QED BY <3>1, <3>2
  <2>4. Takes(p, q, b, toks)
    BY <1>1, <1>2, <1>5, <2>a, <2>3, <2>b DEF Takes, Names
  <2> QED BY <1>2, <1>5, <2>1, <2>3, <2>4 DEF TypedSeq, Typed
<1>6. CASE Len(toks) = BlockSize /\ ~Hit(p, toks)
  <2> PICK b : b = Head(p.free)
    OBVIOUS
  <2>2. q = Join(Register(Take(p, b), b, h, toks), b)
    BY <1>6 DEF AddBlock
  <2> PICK t : t = Take(p, b)
    OBVIOUS
  <2> PICK u : u = Register(t, b, h, toks)
    OBVIOUS
  <2>c. Took(p, t, b) /\ Registered(t, u, b, h, toks) /\ Joined(u, q, b, u.last)
    <3>1. Took(p, t, b)
      BY <1>d, TakeFields
    <3>2. Registered(t, u, b, h, toks)
      BY <3>1, RegisterFields DEF Took
    <3>3. Joined(u, q, b, u.last)
      BY <3>2, <2>2, JoinFields DEF Registered
    <3> QED BY <3>1, <3>2, <3>3
  <2>3. /\ DOMAIN q = Fields /\ q.last = h /\ q.h2b = MapTo(p.h2b, h, b)
        /\ q.ref = [p.ref EXCEPT ![b] = 1] /\ q.table = Append(p.table, b)
        /\ q.free = RemoveEntry(p.free, b) /\ q.used = p.used \cup {b}
    BY ONLY <2>c DEF Took, Registered, Joined
  <2>b. q.hash = [p.hash EXCEPT ![b] = h] /\ q.content = [p.content EXCEPT ![b] = toks]
    <3>1. p.hash \in [Blocks -> Seq(Token)] /\ p.content \in [Blocks -> Seq(Token)]
      BY DEF TypedSeq, Typed
    <3>2. /\ q.hash = [[p.hash EXCEPT ![b] = NoHash] EXCEPT ![b] = h]
          /\ q.content = [[p.content EXCEPT ![b] = << >>] EXCEPT ![b] = toks]
      BY <2>c DEF Took, Registered, Joined
    <3> QED BY <3>1, <3>2
  <2>4. Takes(p, q, b, toks)
    BY <1>1, <1>2, <1>3, <1>6, <2>3, <2>b DEF Takes, Names
  <2>5. q.h2b \in [DOMAIN q.h2b -> Blocks]
    <3> PICK m : m = p.h2b
      OBVIOUS
    <3>1. m \in [DOMAIN m -> Blocks] /\ b \in Blocks
      BY <1>3 DEF TypedSeq, Typed
    <3>2. MapTo(m, h, b) \in [DOMAIN MapTo(m, h, b) -> Blocks]
      BY <3>1, MapToType
    <3> QED BY <2>3, <3>2
  <2> QED BY <1>2, <1>3, <1>6, <2>3, <2>4, <2>5
<1>7. CASE Len(toks) # BlockSize
  <2> PICK b : b = Head(p.free)
    OBVIOUS
  <2>2. q = Join(Take(p, b), b)
    BY <1>7 DEF AddBlock
  <2>3. /\ DOMAIN q = Fields /\ q.last = p.last /\ q.h2b = p.h2b
        /\ q.ref = [p.ref EXCEPT ![b] = 1] /\ q.table = Append(p.table, b)
        /\ q.free = RemoveEntry(p.free, b) /\ q.used = p.used \cup {b}
        /\ q.hash = [p.hash EXCEPT ![b] = NoHash] /\ q.content = [p.content EXCEPT ![b] = << >>]
    <3> PICK t : t = Take(p, b)
      OBVIOUS
    <3>1. Took(p, t, b)
      BY <1>d, TakeFields
    <3>2. Joined(t, q, b, t.last)
      BY <3>1, <2>2, JoinFields DEF Took
    <3> QED BY <3>1, <3>2 DEF Took, Joined
  <2>4. Takes(p, q, b, toks)
    BY <1>3, <1>7, <2>3 DEF Takes, Names
  <2> QED BY <1>1, <1>3, <2>3, <2>4 DEF TypedSeq, Typed
<1> QED BY <1>4, <1>5, <1>6, <1>7

-----------------------------------------------------------------------------
(* The deque of free blocks. *)
LEMMA Removal ==
  ASSUME NEW S, NEW q \in Seq(S), NEW b \in ToSet(q)
  PROVE  /\ RemoveEntry(q, b) \in Seq(S)
         /\ Len(RemoveEntry(q, b)) = Len(q) - 1
         /\ \E n \in 1 .. Len(q) :
              /\ q[n] = b
              /\ \A k \in 1 .. Len(q) - 1 :
                   RemoveEntry(q, b)[k] = IF k < n THEN q[k] ELSE q[k + 1]
<1> DEFINE n == CHOOSE k \in DOMAIN q : q[k] = b
           r == RemoveEntry(q, b)
<1>1. n \in 1 .. Len(q) /\ q[n] = b
  BY DEF ToSet
<1>2. r = SubSeq(q, 1, n - 1) \o SubSeq(q, n + 1, Len(q))
  BY DEF RemoveEntry, RemoveAt
<1> HIDE DEF n, r
<1>3. /\ r \in Seq(S) /\ Len(r) = Len(q) - 1
      /\ \A k \in 1 .. Len(q) - 1 : r[k] = IF k < n THEN q[k] ELSE q[k + 1]
  <2> DEFINE front == SubSeq(q, 1, n - 1)
             back == SubSeq(q, n + 1, Len(q))
  <2>1. /\ front \in Seq(S) /\ Len(front) = n - 1
        /\ \A k \in 1 .. n - 1 : front[k] = q[k]
    BY <1>1
  <2>2. /\ back \in Seq(S) /\ Len(back) = Len(q) - n
        /\ \A k \in 1 .. Len(q) - n : back[k] = q[n + k]
    BY <1>1
  <2> HIDE DEF front, back
  <2>3. r = front \o back
    BY <1>2 DEF front, back
  <2>4. /\ r \in Seq(S) /\ Len(r) = Len(front) + Len(back)
        /\ \A k \in 1 .. Len(front) + Len(back) :
             r[k] = IF k <= Len(front) THEN front[k] ELSE back[k - Len(front)]
    BY <2>1, <2>2, <2>3, ConcatProperties
  <2>5. ASSUME NEW k \in 1 .. Len(q) - 1
        PROVE  r[k] = IF k < n THEN q[k] ELSE q[k + 1]
    <3>1. CASE k < n
      <4>1. k \in 1 .. n - 1 /\ k \in 1 .. Len(front) + Len(back) /\ k <= Len(front)
        BY <3>1, <1>1, <2>1, <2>2
      <4>2. r[k] = front[k] /\ front[k] = q[k]
        BY <4>1, <2>1, <2>4
      <4> QED BY <3>1, <4>2
    <3>2. CASE ~(k < n)
      <4>0. k \in 1 .. Len(front) + Len(back) /\ ~(k <= Len(front))
        BY <3>2, <1>1, <2>1, <2>2
      <4>1. r[k] = back[k - (n - 1)]
        BY <4>0, <2>1, <2>4
      <4>2. k - (n - 1) \in 1 .. Len(q) - n
        BY <3>2, <1>1
      <4>3. n + (k - (n - 1)) = k + 1
        BY <1>1
      <4> QED BY <3>2, <4>1, <4>2, <4>3, <2>2
    <3> QED BY <3>1, <3>2
  <2> QED BY <1>1, <2>1, <2>2, <2>4, <2>5
<1> QED BY <1>1, <1>3 DEF r

Without(q, r, b) ==
  r \in Seq(Blocks) /\ Len(r) = Len(q) - 1 /\ ToSet(r) = ToSet(q) \ {b} /\ Distinct(r)

LEMMA DequeRemove ==
  ASSUME NEW q \in Seq(Blocks), NEW b \in ToSet(q), Distinct(q)
  PROVE  Without(q, RemoveEntry(q, b), b)
<1> USE DEF Distinct
<1> DEFINE r == RemoveEntry(q, b)
<1>0. /\ r \in Seq(Blocks) /\ Len(r) = Len(q) - 1
      /\ \E n \in 1 .. Len(q) :
           q[n] = b /\ \A k \in 1 .. Len(q) - 1 : r[k] = IF k < n THEN q[k] ELSE q[k + 1]
  BY Removal
<1> HIDE DEF r
<1> PICK n \in 1 .. Len(q) :
      q[n] = b /\ \A k \in 1 .. Len(q) - 1 : r[k] = IF k < n THEN q[k] ELSE q[k + 1]
  BY <1>0
<1>1. n \in 1 .. Len(q) /\ q[n] = b
  OBVIOUS
<1>3. /\ r \in Seq(Blocks) /\ Len(r) = Len(q) - 1
      /\ \A k \in 1 .. Len(q) - 1 : r[k] = IF k < n THEN q[k] ELSE q[k + 1]
  BY <1>0
<1>4. ToSet(r) \subseteq ToSet(q) \ {b}
  <2> SUFFICES ASSUME NEW k \in 1 .. Len(r) PROVE r[k] \in ToSet(q) \ {b}
    BY <1>3 DEF ToSet
  <2> DEFINE kk == IF k < n THEN k ELSE k + 1
  <2>1. kk \in DOMAIN q /\ kk # n /\ r[k] = q[kk]
    BY <1>1, <1>3
  <2>2. q[kk] # b
    BY <1>1, <2>1
  <2> QED BY <2>1, <2>2 DEF ToSet
<1>5. ASSUME NEW c \in ToSet(q) \ {b} PROVE c \in ToSet(r)
  <2>1. PICK k \in 1 .. Len(q) : q[k] = c /\ k # n
    BY <1>1 DEF ToSet
  <2>2. CASE k < n
    BY <2>1, <2>2, <1>1, <1>3 DEF ToSet
  <2>3. CASE k > n
    <3>1. k - 1 \in 1 .. Len(q) - 1 /\ r[k - 1] = q[k]
      BY <2>1, <2>3, <1>1, <1>3
    <3> QED BY <3>1, <2>1, <1>3 DEF ToSet
  <2> QED BY <1>1, <2>1, <2>2, <2>3
<1>6. \A j, k \in DOMAIN r : r[j] = r[k] => j = k
  <2> SUFFICES ASSUME NEW j \in 1 .. Len(q) - 1, NEW k \in 1 .. Len(q) - 1, r[j] = r[k]
               PROVE  j = k
    BY <1>3
  <2> DEFINE jj == IF j < n THEN j ELSE j + 1
             kk == IF k < n THEN k ELSE k + 1
  <2>1. jj \in DOMAIN q /\ kk \in DOMAIN q
    BY <1>1
  <2>2. r[j] = q[jj] /\ r[k] = q[kk]
    BY <1>3
  <2>3. jj = kk
    BY <2>1, <2>2
  <2> QED BY <2>3, <1>1
<1> QED BY <1>3, <1>4, <1>5, <1>6 DEF r, Without

With(q, r, b) ==
  r \in Seq(Blocks) /\ Len(r) = Len(q) + 1 /\ ToSet(r) = ToSet(q) \cup {b} /\ Distinct(r)

LEMMA DequeAppend ==
  ASSUME NEW q \in Seq(Blocks), NEW b \in Blocks, b \notin ToSet(q), Distinct(q)
  PROVE  With(q, Append(q, b), b)
<1> USE DEF Distinct
<1> DEFINE r == Append(q, b)
<1>1. /\ DOMAIN r = 1 .. Len(q) + 1 /\ r[Len(q) + 1] = b
      /\ DOMAIN q = 1 .. Len(q) /\ \A k \in 1 .. Len(q) : r[k] = q[k]
      /\ Len(q) \in Nat
  OBVIOUS
<1> HIDE DEF r
<1>2. \A k \in 1 .. Len(q) : q[k] # b
  BY <1>1 DEF ToSet
<1>3. \A c : c \in ToSet(r) <=> c \in ToSet(q) \/ c = b
  <2>1. \A c : c \in ToSet(r) <=> \E k \in 1 .. Len(q) + 1 : r[k] = c
    BY <1>1 DEF ToSet
  <2>2. \A c : c \in ToSet(q) <=> \E k \in 1 .. Len(q) : q[k] = c
    BY <1>1 DEF ToSet
  <2> QED BY <1>1, <2>1, <2>2
<1>4. \A j, k \in DOMAIN r : r[j] = r[k] => j = k
  BY <1>1, <1>2
<1>5. ToSet(r) = ToSet(q) \cup {b}
  BY <1>3
<1>6. r \in Seq(Blocks) /\ Len(r) = Len(q) + 1
  BY DEF r
<1> QED BY <1>4, <1>5, <1>6 DEF r, With

-----------------------------------------------------------------------------
(* Who holds a block. *)
LEMMA HoldersMeans ==
  ASSUME NEW tab, NEW b, NEW x
  PROVE  x \in HoldersIn(tab, b) <=>
           \E t \in SeqId : \E k \in DOMAIN tab[t] : x = <<t, k>> /\ tab[t][k] = b
BY DEF HoldersIn

Extended(tab, s, b) == [tab EXCEPT ![s] = Append(@, b)]
Grows(tab, tab2, s, b) ==
  /\ tab2 \in [SeqId -> Seq(Blocks)]
  /\ Len(tab[s]) \in Nat /\ DOMAIN tab[s] = 1 .. Len(tab[s])
  /\ DOMAIN tab2[s] = 1 .. Len(tab[s]) + 1 /\ tab2[s][Len(tab[s]) + 1] = b
  /\ \A i \in 1 .. Len(tab[s]) : tab2[s][i] = tab[s][i]
  /\ \A t \in SeqId \ {s} : tab2[t] = tab[t]
HoldersGrow(tab, tab2, s, b) ==
  /\ \E x : x \notin HoldersIn(tab, b) /\ HoldersIn(tab2, b) = HoldersIn(tab, b) \cup {x}
  /\ \A c \in Blocks \ {b} : HoldersIn(tab2, c) = HoldersIn(tab, c)

LEMMA TableAppend ==
  ASSUME NEW tab \in [SeqId -> Seq(Blocks)], NEW s \in SeqId, NEW b \in Blocks,
         NEW tab2, tab2 = Extended(tab, s, b)
  PROVE  Grows(tab, tab2, s, b)
<1>1. tab[s] \in Seq(Blocks) /\ tab2[s] = Append(tab[s], b)
  BY DEF Extended
<1>2. /\ \A t \in SeqId \ {s} : tab2[t] = tab[t]
      /\ tab2 \in [SeqId -> Seq(Blocks)]
  BY DEF Extended
<1> PICK q \in Seq(Blocks) : q = tab[s]
  BY <1>1
<1>3. /\ Append(q, b) \in Seq(Blocks) /\ Len(Append(q, b)) = Len(q) + 1 /\ Len(q) \in Nat
      /\ Append(q, b)[Len(q) + 1] = b /\ \A i \in 1 .. Len(q) : Append(q, b)[i] = q[i]
  BY AppendProperties
<1>4. DOMAIN q = 1 .. Len(q) /\ DOMAIN Append(q, b) = 1 .. Len(q) + 1
  BY <1>3
<1> QED BY <1>1, <1>2, <1>3, <1>4 DEF Grows

(* The entries of the extended table: the new one, and the old ones. *)
GrownEntry(tab, tab2, s, b, t, k) ==
  \/ t = s /\ k - 1 = Len(tab[s]) /\ tab2[t][k] = b
  \/ k \in DOMAIN tab[t] /\ tab2[t][k] = tab[t][k]

LEMMA GrowsEntry ==
  ASSUME NEW tab, NEW tab2, NEW s \in SeqId, NEW b, Grows(tab, tab2, s, b),
         NEW t \in SeqId, NEW k \in DOMAIN tab2[t]
  PROVE  GrownEntry(tab, tab2, s, b, t, k)
<1> PICK n \in Nat : n = Len(tab[s])
  BY DEF Grows
<1>1. CASE t # s
  BY <1>1 DEF Grows, GrownEntry
<1>2. CASE t = s
  <2>1. k \in 1 .. n + 1
    BY <1>2 DEF Grows
  <2>2. CASE k = n + 1
    BY <1>2, <2>2 DEF Grows, GrownEntry
  <2>3. CASE k # n + 1
    <3>1. k \in 1 .. n
      BY <2>1, <2>3
    <3> QED BY <1>2, <3>1 DEF Grows, GrownEntry
  <2> QED BY <2>2, <2>3
<1> QED BY <1>1, <1>2

LEMMA HoldersAppend ==
  ASSUME NEW tab, NEW s \in SeqId, NEW b, NEW tab2, Grows(tab, tab2, s, b)
  PROVE  HoldersGrow(tab, tab2, s, b)
<1> PICK n \in Nat : n = Len(tab[s])
  BY DEF Grows
<1>1. /\ DOMAIN tab[s] = 1 .. n /\ DOMAIN tab2[s] = 1 .. n + 1 /\ tab2[s][n + 1] = b
      /\ \A i \in 1 .. n : tab2[s][i] = tab[s][i]
      /\ \A t \in SeqId \ {s} : tab2[t] = tab[t]
  BY DEF Grows
<1>2. ASSUME NEW c, NEW x
      PROVE  x \in HoldersIn(tab2, c) <=> x \in HoldersIn(tab, c) \/ (x = <<s, n + 1>> /\ c = b)
  BY <1>1, HoldersMeans
<1>3. <<s, n + 1>> \notin HoldersIn(tab, b)
  BY <1>1, HoldersMeans
<1>4. HoldersIn(tab2, b) = HoldersIn(tab, b) \cup {<<s, n + 1>>}
  BY <1>2
<1>5. ASSUME NEW c \in Blocks \ {b} PROVE HoldersIn(tab2, c) = HoldersIn(tab, c)
  <2>1. \A x : x \in HoldersIn(tab2, c) <=> x \in HoldersIn(tab, c)
    BY <1>2
  <2> QED BY <2>1
<1> QED BY <1>3, <1>4, <1>5 DEF HoldersGrow

(* Without the last entry of s. *)
Shrinks(tab, tab2, s, b) ==
  /\ tab2 \in [SeqId -> Seq(Blocks)] /\ Len(tab[s]) \in DOMAIN tab[s]
  /\ b \in Blocks /\ tab[s][Len(tab[s])] = b
  /\ DOMAIN tab2[s] = DOMAIN tab[s] \ {Len(tab[s])}
  /\ \A k \in DOMAIN tab2[s] : tab2[s][k] = tab[s][k]
  /\ \A t \in SeqId \ {s} : tab2[t] = tab[t]
HoldersShrink(tab, tab2, b, x) ==
  /\ x \in HoldersIn(tab, b) /\ HoldersIn(tab2, b) = HoldersIn(tab, b) \ {x}
  /\ \A c \in Blocks \ {b} : HoldersIn(tab2, c) = HoldersIn(tab, c)

LEMMA HoldersFront ==
  ASSUME NEW tab, NEW s \in SeqId, NEW b, NEW tab2, Shrinks(tab, tab2, s, b)
  PROVE  HoldersShrink(tab, tab2, b, <<s, Len(tab[s])>>)
<1> PICK n : n = Len(tab[s])
  OBVIOUS
<1>1. n \in DOMAIN tab[s] /\ tab[s][n] = b /\ b \in Blocks
  BY DEF Shrinks
<1>2. /\ \A t \in SeqId \ {s} : tab2[t] = tab[t]
      /\ DOMAIN tab2[s] = DOMAIN tab[s] \ {n}
      /\ \A k \in DOMAIN tab2[s] : tab2[s][k] = tab[s][k]
  BY DEF Shrinks
<1>5. ASSUME NEW c, NEW x
      PROVE  x \in HoldersIn(tab2, c) <=> x \in HoldersIn(tab, c) /\ x # <<s, n>>
  BY <1>2, HoldersMeans
<1>6. ASSUME NEW c \in Blocks \ {b} PROVE <<s, n>> \notin HoldersIn(tab, c)
  BY <1>1, HoldersMeans
<1>7. <<s, n>> \in HoldersIn(tab, b)
  BY <1>1, HoldersMeans
<1>8. HoldersIn(tab2, b) = HoldersIn(tab, b) \ {<<s, n>>}
  BY <1>5
<1>9. ASSUME NEW c \in Blocks \ {b} PROVE HoldersIn(tab2, c) = HoldersIn(tab, c)
  <2>1. \A x : x \in HoldersIn(tab2, c) <=> x \in HoldersIn(tab, c)
    BY <1>5, <1>6
  <2> QED BY <2>1
<1> QED BY <1>7, <1>8, <1>9 DEF HoldersShrink

LEMMA CardinalityAdd ==
  ASSUME NEW S, NEW T, NEW e, IsFiniteSet(S), T = S \cup {e}, e \notin S
  PROVE  IsFiniteSet(T) /\ Cardinality(T) = Cardinality(S) + 1
  BY FS_AddElement

LEMMA CardinalityRemove ==
  ASSUME NEW S, NEW T, NEW e, IsFiniteSet(S), T = S \ {e}, e \in S
  PROVE  /\ IsFiniteSet(T) /\ Cardinality(T) = Cardinality(S) - 1
         /\ Cardinality(S) \in Nat /\ Cardinality(S) # 0
  BY FS_RemoveElement, FS_EmptySet, FS_CardinalityType

-----------------------------------------------------------------------------
(***************************************************************************)
(* The invariant of the pool, for a pool p and block tables tab.  e counts *)
(* the references that were lost in preemptions: every operation but       *)
(* Preempt keeps it.                                                       *)
(***************************************************************************)
CountOK(p, tab, e) ==
  \A b \in Blocks : IsFiniteSet(HoldersIn(tab, b)) /\ p.ref[b] = Cardinality(HoldersIn(tab, b)) + e[b]

(* A block with a hash is full and holds the tokens of all its holders; one *)
(* without is empty and has one holder at most.                             *)
EntryOK(p, tab, s, i) ==
  IF p.hash[tab[s][i]] # NoHash
  THEN p.content[tab[s][i]] = block(s, i - 1) /\ Len(block(s, i - 1)) = BlockSize
  ELSE Cardinality(HoldersIn(tab, tab[s][i])) = 1
NamesOK(p, tab) ==
  /\ \A b \in Blocks : p.hash[b] = NoHash => p.content[b] = << >>
  /\ \A s \in SeqId : \A i \in DOMAIN tab[s] : EntryOK(p, tab, s, i)

PoolOK(p, tab, e) == Typed(p) /\ FreeOK(p) /\ CountOK(p, tab, e) /\ NamesOK(p, tab)

Unheld(p, tab, e, b) ==
  /\ HoldersIn(tab, b) = {} /\ p.ref[b] = 0 /\ e[b] = 0
  /\ \A t \in SeqId : \A k \in DOMAIN tab[t] : tab[t][k] # b

LEMMA FreeIsUnheld ==
  ASSUME NEW p, NEW tab, NEW e \in [Blocks -> Nat], NEW b \in Blocks,
         PoolOK(p, tab, e), b \notin p.used
  PROVE  Unheld(p, tab, e, b)
<1>1. p.ref[b] = 0 /\ p.ref[b] = Cardinality(HoldersIn(tab, b)) + e[b] /\ IsFiniteSet(HoldersIn(tab, b))
  BY DEF FreeOK, CountOK, PoolOK, Typed
<1>2. Cardinality(HoldersIn(tab, b)) \in Nat
  BY <1>1, FS_CardinalityType
<1>3. Cardinality(HoldersIn(tab, b)) = 0 /\ e[b] = 0
  BY <1>1, <1>2
<1>4. HoldersIn(tab, b) = {}
  BY <1>1, <1>3, FS_EmptySet
<1>5. \A t \in SeqId : \A k \in DOMAIN tab[t] : tab[t][k] # b
  BY <1>4, HoldersMeans
<1> QED BY <1>1, <1>3, <1>4, <1>5 DEF Unheld

LEMMA TakesKeeps ==
  ASSUME NEW p, NEW q, NEW tab \in [SeqId -> Seq(Blocks)], NEW e \in [Blocks -> Nat],
         NEW s \in SeqId, NEW b \in Blocks, PoolOK(p, tab, e),
         NEW toks, toks = block(s, Len(tab[s])),
         q.h2b \in [DOMAIN q.h2b -> Blocks], Takes(p, q, b, toks),
         NEW tab2, Grows(tab, tab2, s, b)
  PROVE  PoolOK(q, tab2, e) /\ Len(q.free) = Len(p.free) - 1
<1>1. HoldersGrow(tab, tab2, s, b)
  BY HoldersAppend
<1>2. /\ p.ref \in [Blocks -> Nat] /\ p.hash \in [Blocks -> Seq(Token)]
      /\ p.content \in [Blocks -> Seq(Token)] /\ p.free \in Seq(Blocks) /\ p.used \subseteq Blocks
      /\ FreeOK(p) /\ CountOK(p, tab, e) /\ NamesOK(p, tab)
  BY DEF PoolOK, Typed
<1>3. /\ b \in ToSet(p.free) /\ Names(p, q, b, toks)
      /\ q.ref = [p.ref EXCEPT ![b] = 1] /\ q.free = RemoveEntry(p.free, b)
      /\ q.used = p.used \cup {b}
  BY DEF Takes
<1>4. b \notin p.used
  BY <1>2, <1>3 DEF FreeOK
<1>5. Unheld(p, tab, e, b)
  BY <1>4, FreeIsUnheld
<1>6. Without(p.free, q.free, b)
  <2> PICK f \in Seq(Blocks) : f = p.free
    BY <1>2
  <2>1. b \in ToSet(f) /\ Distinct(f)
    BY <1>2, <1>3 DEF FreeOK
  <2>2. Without(f, RemoveEntry(f, b), b)
    BY <2>1, DequeRemove
  <2> QED BY <1>3, <2>2
<1>7. FreeOK(q)
  <2>1. q.ref[b] = 1 /\ \A c \in Blocks \ {b} : q.ref[c] = p.ref[c]
    BY <1>2, <1>3
  <2>2. \A c \in Blocks : c \in q.used <=> q.ref[c] > 0
    BY <1>2, <1>3, <2>1 DEF FreeOK
  <2>3. \A c \in Blocks : c \in ToSet(q.free) <=> c \notin q.used
    BY <1>2, <1>3, <1>6 DEF FreeOK, Without
  <2> QED BY <1>6, <2>2, <2>3 DEF FreeOK, Without
<1>8. IsFiniteSet(HoldersIn(tab2, b)) /\ Cardinality(HoldersIn(tab2, b)) = 1
  <2>1. PICK x : HoldersIn(tab2, b) = HoldersIn(tab, b) \cup {x}
    BY <1>1 DEF HoldersGrow
  <2>2. HoldersIn(tab2, b) = {x}
    BY <1>5, <2>1 DEF Unheld
  <2> QED BY <2>2, FS_Singleton
<1>9. CountOK(q, tab2, e)
  <2> SUFFICES ASSUME NEW c \in Blocks
               PROVE  /\ IsFiniteSet(HoldersIn(tab2, c))
                      /\ q.ref[c] = Cardinality(HoldersIn(tab2, c)) + e[c]
    BY DEF CountOK
  <2>1. CASE c = b
    BY <1>2, <1>3, <1>5, <1>8, <2>1 DEF Unheld
  <2>2. CASE c # b
    <3>1. q.ref[c] = p.ref[c]
      BY <1>2, <1>3, <2>2
    <3>2. HoldersIn(tab2, c) = HoldersIn(tab, c)
      BY <1>1, <2>2 DEF HoldersGrow
    <3>3. IsFiniteSet(HoldersIn(tab, c)) /\ p.ref[c] = Cardinality(HoldersIn(tab, c)) + e[c]
      BY <1>2 DEF CountOK
    <3> QED BY <3>1, <3>2, <3>3
  <2> QED BY <2>1, <2>2
<1> PICK h \in Seq(Token), d \in Seq(Token) :
      /\ q.hash = [p.hash EXCEPT ![b] = h] /\ q.content = [p.content EXCEPT ![b] = d]
      /\ IF Len(toks) = BlockSize THEN h # NoHash /\ d = toks ELSE h = NoHash /\ d = << >>
  BY <1>3 DEF Names
<1>10. /\ q.hash \in [Blocks -> Seq(Token)] /\ q.content \in [Blocks -> Seq(Token)]
       /\ q.hash[b] = h /\ q.content[b] = d
       /\ \A c \in Blocks \ {b} : q.hash[c] = p.hash[c] /\ q.content[c] = p.content[c]
  BY <1>2
<1>11. Typed(q)
  <2>1. q.ref \in [Blocks -> Nat] /\ q.used \subseteq Blocks
    BY <1>2, <1>3
  <2> QED BY <1>6, <1>10, <2>1 DEF Typed, Without
<1>12. \A c \in Blocks : q.hash[c] = NoHash => q.content[c] = << >>
  BY <1>2, <1>10 DEF NamesOK
<1>13. ASSUME NEW t \in SeqId, NEW k \in DOMAIN tab2[t] PROVE EntryOK(q, tab2, t, k)
  <2>1. CASE t = s /\ k - 1 = Len(tab[s]) /\ tab2[t][k] = b
    <3>1. tab2[t][k] = b /\ k - 1 = Len(tab[s])
      BY <2>1
    <3> QED BY <1>8, <1>10, <2>1, <3>1 DEF EntryOK
  <2>2. CASE k \in DOMAIN tab[t] /\ tab2[t][k] = tab[t][k]
    <3>1. k \in DOMAIN tab[t] /\ tab2[t][k] = tab[t][k]
      BY <2>2
    <3>2. tab[t][k] \in Blocks
      BY <3>1
    <3>3. tab[t][k] # b
      BY <1>5, <3>1 DEF Unheld
    <3>4. EntryOK(p, tab, t, k)
      BY <1>2, <3>1 DEF NamesOK
    <3>5. HoldersIn(tab2, tab[t][k]) = HoldersIn(tab, tab[t][k])
      BY <1>1, <3>2, <3>3 DEF HoldersGrow
    <3> QED BY <1>10, <3>1, <3>2, <3>3, <3>4, <3>5 DEF EntryOK
  <2>3. GrownEntry(tab, tab2, s, b, t, k)
    BY GrowsEntry
  <2> QED BY <2>1, <2>2, <2>3 DEF GrownEntry
<1>14. NamesOK(q, tab2)
  BY <1>12, <1>13 DEF NamesOK
<1>15. Len(q.free) = Len(p.free) - 1
  BY <1>6 DEF Without
<1> QED BY <1>7, <1>9, <1>11, <1>14, <1>15 DEF PoolOK

(* A block that is shared: it is full, so it has its name. *)
LEMMA SharesKeeps ==
  ASSUME NEW p, NEW q, NEW tab \in [SeqId -> Seq(Blocks)], NEW e \in [Blocks -> Nat],
         NEW s \in SeqId, NEW b \in Blocks, PoolOK(p, tab, e),
         NEW toks, toks = block(s, Len(tab[s])), toks # << >>,
         q.h2b \in [DOMAIN q.h2b -> Blocks], Shares(p, q, b, toks),
         NEW tab2, Grows(tab, tab2, s, b)
  PROVE  PoolOK(q, tab2, e) /\ Len(q.free) = Len(p.free)
<1>1. HoldersGrow(tab, tab2, s, b)
  BY HoldersAppend
<1>2. /\ p.ref \in [Blocks -> Nat] /\ p.hash \in [Blocks -> Seq(Token)]
      /\ p.content \in [Blocks -> Seq(Token)] /\ p.free \in Seq(Blocks) /\ p.used \subseteq Blocks
      /\ FreeOK(p) /\ CountOK(p, tab, e) /\ NamesOK(p, tab)
  BY DEF PoolOK, Typed
<1>3. /\ b \in p.used /\ Len(toks) = BlockSize /\ p.content[b] = toks
      /\ q.ref = [p.ref EXCEPT ![b] = @ + 1]
      /\ q.hash = p.hash /\ q.content = p.content /\ q.free = p.free /\ q.used = p.used
  BY DEF Shares
<1>4. /\ q.ref[b] = p.ref[b] + 1 /\ p.ref[b] \in Nat
      /\ \A c \in Blocks \ {b} : q.ref[c] = p.ref[c]
  BY <1>2, <1>3
<1>5. FreeOK(q)
  <2>1. \A c \in Blocks : c \in q.used <=> q.ref[c] > 0
    <3> TAKE c \in Blocks
    <3>1. c \in p.used <=> p.ref[c] > 0
      BY <1>2 DEF FreeOK
    <3> QED BY <1>3, <1>4, <3>1
  <2> QED BY <1>2, <1>3, <2>1 DEF FreeOK
<1>6. CountOK(q, tab2, e)
  <2> SUFFICES ASSUME NEW c \in Blocks
               PROVE  /\ IsFiniteSet(HoldersIn(tab2, c))
                      /\ q.ref[c] = Cardinality(HoldersIn(tab2, c)) + e[c]
    BY DEF CountOK
  <2>0. IsFiniteSet(HoldersIn(tab, c)) /\ p.ref[c] = Cardinality(HoldersIn(tab, c)) + e[c]
    BY <1>2 DEF CountOK
  <2>1. CASE c = b
    <3>1. PICK x : x \notin HoldersIn(tab, b) /\ HoldersIn(tab2, b) = HoldersIn(tab, b) \cup {x}
      BY <1>1 DEF HoldersGrow
    <3> PICK H, H2 : H = HoldersIn(tab, b) /\ H2 = HoldersIn(tab2, b)
      OBVIOUS
    <3>2. IsFiniteSet(H) /\ H2 = H \cup {x} /\ x \notin H
      BY <2>0, <2>1, <3>1
    <3>a. Cardinality(H) \in Nat
      BY <3>2, FS_CardinalityType
    <3>b. IsFiniteSet(H2) /\ Cardinality(H2) = Cardinality(H) + 1
      BY <3>2, CardinalityAdd
    <3>3. IsFiniteSet(H2) /\ Cardinality(H2) = Cardinality(H) + 1 /\ Cardinality(H) \in Nat
      BY <3>a, <3>b
    <3>4. p.ref[b] = Cardinality(H) + e[b] /\ e[b] \in Nat
      BY <2>0, <2>1
    <3>5. q.ref[b] = Cardinality(H2) + e[b]
      BY <1>4, <3>3, <3>4
    <3> QED BY <2>1, <3>3, <3>5
  <2>2. CASE c # b
    <3>1. q.ref[c] = p.ref[c]
      BY <1>4, <2>2
    <3>2. HoldersIn(tab2, c) = HoldersIn(tab, c)
      BY <1>1, <2>2 DEF HoldersGrow
    <3> QED BY <2>0, <3>1, <3>2
  <2> QED BY <2>1, <2>2
<1>7. p.hash[b] # NoHash
  BY <1>2, <1>3 DEF NamesOK
<1>8. ASSUME NEW t \in SeqId, NEW k \in DOMAIN tab2[t] PROVE EntryOK(q, tab2, t, k)
  <2>1. CASE t = s /\ k - 1 = Len(tab[s]) /\ tab2[t][k] = b
    <3>1. tab2[t][k] = b /\ k - 1 = Len(tab[s])
      BY <2>1
    <3> QED BY <1>3, <1>7, <2>1, <3>1 DEF EntryOK
  <2>2. CASE k \in DOMAIN tab[t] /\ tab2[t][k] = tab[t][k]
    <3>1. k \in DOMAIN tab[t] /\ tab2[t][k] = tab[t][k]
      BY <2>2
    <3>2. tab[t][k] \in Blocks
      BY <3>1
    <3>3. EntryOK(p, tab, t, k)
      BY <1>2, <3>1 DEF NamesOK
    <3>4. CASE p.hash[tab[t][k]] # NoHash
      BY <1>3, <3>1, <3>3, <3>4 DEF EntryOK
    <3>5. CASE p.hash[tab[t][k]] = NoHash
      <4>1. tab[t][k] # b
        BY <1>7, <3>5
      <4>2. HoldersIn(tab2, tab[t][k]) = HoldersIn(tab, tab[t][k])
        BY <1>1, <3>2, <4>1 DEF HoldersGrow
      <4> QED BY <1>3, <3>1, <3>3, <3>5, <4>2 DEF EntryOK
    <3> QED BY <3>4, <3>5
  <2>3. GrownEntry(tab, tab2, s, b, t, k)
    BY GrowsEntry
  <2> QED BY <2>1, <2>2, <2>3 DEF GrownEntry
<1>9. NamesOK(q, tab2)
  BY <1>2, <1>3, <1>8 DEF NamesOK
<1>10. Typed(q)
  <2>1. q.ref \in [Blocks -> Nat]
    BY <1>2, <1>3, <1>4
  <2> QED BY <1>2, <1>3, <2>1 DEF Typed
<1>11. Len(q.free) = Len(p.free)
  BY <1>3
<1> QED BY <1>5, <1>6, <1>9, <1>10, <1>11 DEF PoolOK

(* The last block of a sequence gets its name once it is full. *)
Renamed(p, q, b, toks) ==
  /\ q.ref = p.ref /\ q.free = p.free /\ q.used = p.used /\ q.table = p.table
  /\ \E h \in Seq(Token) :
       /\ h # NoHash /\ q.last = h /\ q.hash = [p.hash EXCEPT ![b] = h]
       /\ q.content = [p.content EXCEPT ![b] = toks]

LEMMA RenamedKeeps ==
  ASSUME NEW p, NEW q, NEW tab \in [SeqId -> Seq(Blocks)], NEW e \in [Blocks -> Nat],
         NEW s \in SeqId, NEW i \in DOMAIN tab[s], NEW b \in Blocks, tab[s][i] = b,
         PoolOK(p, tab, e), p.hash[b] = NoHash,
         NEW toks \in Seq(Token), toks = block(s, i - 1), Len(toks) = BlockSize,
         q.h2b \in [DOMAIN q.h2b -> Blocks], Renamed(p, q, b, toks)
  PROVE  PoolOK(q, tab, e)
<1>2. /\ p.ref \in [Blocks -> Nat] /\ p.hash \in [Blocks -> Seq(Token)]
      /\ p.content \in [Blocks -> Seq(Token)] /\ p.free \in Seq(Blocks) /\ p.used \subseteq Blocks
      /\ FreeOK(p) /\ CountOK(p, tab, e) /\ NamesOK(p, tab)
  BY DEF PoolOK, Typed
<1>3. q.ref = p.ref /\ q.free = p.free /\ q.used = p.used
  BY DEF Renamed
<1> PICK h \in Seq(Token) :
      h # NoHash /\ q.hash = [p.hash EXCEPT ![b] = h] /\ q.content = [p.content EXCEPT ![b] = toks]
  BY DEF Renamed
<1>4. /\ q.hash \in [Blocks -> Seq(Token)] /\ q.content \in [Blocks -> Seq(Token)]
      /\ q.hash[b] = h /\ q.content[b] = toks
      /\ \A c \in Blocks \ {b} : q.hash[c] = p.hash[c] /\ q.content[c] = p.content[c]
  <2> PICK ph, pc1, qh, qc : ph = p.hash /\ pc1 = p.content /\ qh = q.hash /\ qc = q.content
    OBVIOUS
  <2>1. /\ ph \in [Blocks -> Seq(Token)] /\ pc1 \in [Blocks -> Seq(Token)]
        /\ qh = [ph EXCEPT ![b] = h] /\ qc = [pc1 EXCEPT ![b] = toks]
    BY <1>2
  <2>2. /\ qh \in [Blocks -> Seq(Token)] /\ qc \in [Blocks -> Seq(Token)]
        /\ qh[b] = h /\ qc[b] = toks
        /\ \A c \in Blocks \ {b} : qh[c] = ph[c] /\ qc[c] = pc1[c]
    BY ONLY <2>1, h \in Seq(Token), toks \in Seq(Token), b \in Blocks
  <2> QED BY <2>2
<1>5. FreeOK(q) /\ CountOK(q, tab, e)
  BY <1>2, <1>3 DEF FreeOK, CountOK
<1>6. Typed(q)
  BY <1>2, <1>3, <1>4 DEF Typed
<1>7. Cardinality(HoldersIn(tab, b)) = 1
  <2>1. EntryOK(p, tab, s, i)
    BY <1>2 DEF NamesOK
  <2> QED BY <2>1 DEF EntryOK
<1>8. <<s, i>> \in HoldersIn(tab, b)
  BY HoldersMeans
<1>9. HoldersIn(tab, b) = {<<s, i>>}
  <2> PICK H : H = HoldersIn(tab, b)
    OBVIOUS
  <2>1. IsFiniteSet(H) /\ Cardinality(H) = 1 /\ <<s, i>> \in H
    BY <1>2, <1>7, <1>8 DEF CountOK
  <2>2. PICK x : H = {x}
    BY <2>1, FS_Singleton
  <2> QED BY <2>1, <2>2
<1>10. ASSUME NEW t \in SeqId, NEW k \in DOMAIN tab[t] PROVE EntryOK(q, tab, t, k)
  <2>1. CASE tab[t][k] = b
    <3>1. <<t, k>> \in HoldersIn(tab, b)
      BY <2>1, HoldersMeans
    <3>2. t = s /\ k = i
      BY <1>9, <3>1
    <3> QED BY <1>4, <3>2 DEF EntryOK
  <2>2. CASE tab[t][k] # b
    <3>1. tab[t][k] \in Blocks /\ EntryOK(p, tab, t, k)
      BY <1>2 DEF NamesOK
    <3>2. q.hash[tab[t][k]] = p.hash[tab[t][k]] /\ q.content[tab[t][k]] = p.content[tab[t][k]]
      BY <1>4, <2>2, <3>1
    <3> QED BY <3>1, <3>2 DEF EntryOK
  <2> QED BY <2>1, <2>2
<1>11. \A c \in Blocks : q.hash[c] = NoHash => q.content[c] = << >>
  <2> SUFFICES ASSUME NEW c \in Blocks, q.hash[c] = NoHash PROVE q.content[c] = << >>
    OBVIOUS
  <2>1. c # b
    BY <1>4
  <2>2. p.hash[c] = NoHash => p.content[c] = << >>
    BY <1>2 DEF NamesOK
  <2>3. q.hash[c] = p.hash[c] /\ q.content[c] = p.content[c]
    BY <1>4, <2>1
  <2> QED BY ONLY <2>2, <2>3, q.hash[c] = NoHash
<1>12. NamesOK(q, tab)
  BY <1>10, <1>11 DEF NamesOK
<1> QED BY <1>5, <1>6, <1>12 DEF PoolOK

LEMMA FillLastCases ==
  ASSUME tokens \in [SeqId -> Seq(Token)], NEW s \in SeqId, NEW p, TypedSeq(p),
         NEW q, q = FillLast(p, s)
  PROVE  \/ q = p
         \/ /\ Len(p.table) \in DOMAIN p.table /\ p.table[Len(p.table)] \in Blocks
            /\ p.hash[p.table[Len(p.table)]] = NoHash
            /\ block(s, Len(p.table) - 1) \in Seq(Token)
            /\ Len(block(s, Len(p.table) - 1)) = BlockSize
            /\ DOMAIN q = Fields /\ q.h2b \in [DOMAIN q.h2b -> Blocks] /\ q.last \in Seq(Token)
            /\ Renamed(p, q, p.table[Len(p.table)], block(s, Len(p.table) - 1))
<1> PICK n : n = Len(p.table)
  OBVIOUS
<1> PICK prefix : prefix = IF n - 1 > 0 THEN p.hash[p.table[n - 1]] ELSE NoHash
  OBVIOUS
<1> PICK toks : toks = block(s, n - 1)
  OBVIOUS
<1> PICK b : b = p.table[n]
  OBVIOUS
<1>1. /\ p.table \in Seq(Blocks) /\ n \in Nat
      /\ p.hash \in [Blocks -> Seq(Token)]
  BY DEF TypedSeq, Typed
<1>2. prefix \in Seq(Token)
  <2>1. CASE n - 1 > 0
    <3>1. p.table[n - 1] \in Blocks
      BY <1>1, <2>1
    <3> QED BY <1>1, <2>1, <3>1
  <2>2. CASE ~(n - 1 > 0)
    BY <2>2 DEF NoHash
  <2> QED BY <2>1, <2>2
<1>3. CASE ~(n - 1 >= 0 /\ Len(toks) = BlockSize /\ p.hash[b] = NoHash)
  <2>1. q = p
    BY <1>1, <1>3 DEF FillLast
  <2> QED BY <2>1
<1>4. CASE n - 1 >= 0 /\ Len(toks) = BlockSize /\ p.hash[b] = NoHash
  <2> PICK h : h = compute_hash(toks, prefix)
    OBVIOUS
  <2>1. q = Register(p, b, h, toks)
    BY <1>1, <1>4 DEF FillLast
  <2>2. DOMAIN p = Fields
    BY DEF TypedSeq
  <2>3. Registered(p, q, b, h, toks)
    BY <2>1, <2>2, RegisterFields
  <2>4. n - 1 \in Nat /\ n \in DOMAIN p.table /\ b \in Blocks
    BY <1>1, <1>4
  <2>5. toks \in Seq(Token) /\ toks # << >>
    BY <1>4, <2>4, BlockOf
  <2>6. h \in Seq(Token) /\ h # NoHash
    BY <1>2, <2>5, HashType
  <2>7. q.h2b \in [DOMAIN q.h2b -> Blocks]
    <3> PICK m : m = p.h2b
      OBVIOUS
    <3>1. m \in [DOMAIN m -> Blocks]
      BY DEF TypedSeq, Typed
    <3>2. MapTo(m, h, b) \in [DOMAIN MapTo(m, h, b) -> Blocks]
      BY <2>4, <3>1, MapToType
    <3>3. q.h2b = MapTo(m, h, b)
      BY <2>3 DEF Registered
    <3> QED BY <3>2, <3>3
  <2>8. Renamed(p, q, b, toks)
    BY <2>3, <2>6 DEF Registered, Renamed
  <2>9. DOMAIN q = Fields /\ q.last = h
    BY <2>3 DEF Registered
  <2> QED BY <1>4, <2>4, <2>5, <2>6, <2>7, <2>8, <2>9
<1> QED BY <1>3, <1>4

-----------------------------------------------------------------------------
(* The state of the loop of allocate_slots: the pool is sound with the      *)
(* blocks the sequence has got so far in its table.                         *)
TabOf(s, q) == [table EXCEPT ![s] = q]
LoopOK(p, s, e) == TypedSeq(p) /\ PoolOK(p, TabOf(s, p.table), e)

LEMMA TabOfGrows ==
  ASSUME table \in [SeqId -> Seq(Blocks)], NEW s \in SeqId, NEW q \in Seq(Blocks), NEW b \in Blocks
  PROVE  /\ TabOf(s, q) \in [SeqId -> Seq(Blocks)] /\ TabOf(s, q)[s] = q
         /\ Grows(TabOf(s, q), TabOf(s, Append(q, b)), s, b)
<1>1. TabOf(s, q) \in [SeqId -> Seq(Blocks)] /\ TabOf(s, q)[s] = q
  BY DEF TabOf
<1>2. TabOf(s, Append(q, b)) = Extended(TabOf(s, q), s, b)
  BY DEF TabOf, Extended
<1> PICK tab, tab2 : tab = TabOf(s, q) /\ tab2 = TabOf(s, Append(q, b))
  OBVIOUS
<1>3. Grows(tab, tab2, s, b)
  BY <1>1, <1>2, TableAppend
<1> QED BY <1>1, <1>3

SameTable(p, q) == q.table = p.table /\ q.free = p.free

LEMMA FillLastKeeps ==
  ASSUME tokens \in [SeqId -> Seq(Token)], table \in [SeqId -> Seq(Blocks)],
         NEW s \in SeqId, NEW e \in [Blocks -> Nat], NEW p, LoopOK(p, s, e),
         NEW q, q = FillLast(p, s)
  PROVE  LoopOK(q, s, e) /\ SameTable(p, q)
<1>0. TypedSeq(p) /\ PoolOK(p, TabOf(s, p.table), e)
  BY DEF LoopOK
<1> PICK n, b, toks : n = Len(p.table) /\ b = p.table[n] /\ toks = block(s, n - 1)
  OBVIOUS
<1>1. CASE q = p
  BY <1>1 DEF SameTable
<1>2. CASE /\ n \in DOMAIN p.table /\ b \in Blocks
           /\ p.hash[b] = NoHash
           /\ toks \in Seq(Token)
           /\ Len(toks) = BlockSize
           /\ DOMAIN q = Fields /\ q.h2b \in [DOMAIN q.h2b -> Blocks] /\ q.last \in Seq(Token)
           /\ Renamed(p, q, b, toks)
  <2> PICK pt \in Seq(Blocks) : pt = p.table
    BY <1>0 DEF TypedSeq
  <2> PICK tab : tab = TabOf(s, pt)
    OBVIOUS
  <2>1. tab \in [SeqId -> Seq(Blocks)] /\ tab[s] = pt
    BY DEF TabOf
  <2>2. n \in DOMAIN tab[s] /\ tab[s][n] = b /\ PoolOK(p, tab, e) /\ p.hash[b] = NoHash
    BY <1>0, <1>2, <2>1
  <2>3. PoolOK(q, tab, e)
    BY <1>2, <2>1, <2>2, RenamedKeeps
  <2>4. q.table = pt /\ q.free = p.free
    BY <1>2 DEF Renamed
  <2>5. TypedSeq(q)
    BY <1>2, <2>3, <2>4 DEF TypedSeq, PoolOK
  <2> QED BY <2>3, <2>4, <2>5 DEF LoopOK, SameTable
<1>3. <1>1!1 \/ <1>2!1
  BY <1>0, FillLastCases
<1> QED BY <1>1, <1>2, <1>3

(* A block table grows at its end only. *)
OneMore(q, r) == \E b \in Blocks : r = Append(q, b)
Extends(q, r) == \A i \in DOMAIN q : i \in DOMAIN r /\ r[i] = q[i]

LEMMA AppendExtends ==
  ASSUME NEW q \in Seq(Blocks), NEW r \in Seq(Blocks), NEW r2, OneMore(r, r2), Extends(q, r)
  PROVE  Extends(q, r2)
<1> PICK b \in Blocks : r2 = Append(r, b)
  BY DEF OneMore
<1>1. \A i \in DOMAIN r : i \in DOMAIN r2 /\ r2[i] = r[i]
  OBVIOUS
<1> QED BY <1>1 DEF Extends

LEMMA AddBlockKeeps ==
  ASSUME tokens \in [SeqId -> Seq(Token)], table \in [SeqId -> Seq(Blocks)],
         NEW s \in SeqId, NEW e \in [Blocks -> Nat], NEW p, LoopOK(p, s, e), p.free # << >>,
         NEW q, q = AddBlock(p, s, Len(p.table))
  PROVE  /\ LoopOK(q, s, e) /\ Len(q.table) = Len(p.table) + 1
         /\ OneMore(p.table, q.table)
         /\ Len(p.free) \in Nat /\ Len(q.free) \in Nat /\ Len(q.free) >= Len(p.free) - 1
<1>0. TypedSeq(p) /\ PoolOK(p, TabOf(s, p.table), e)
  BY DEF LoopOK
<1> PICK pt \in Seq(Blocks) : pt = p.table
  BY <1>0 DEF TypedSeq
<1> PICK n \in Nat : n = Len(pt)
  OBVIOUS
<1> PICK toks : toks = block(s, n)
  OBVIOUS
<1>1. /\ DOMAIN q = Fields /\ q.last \in Seq(Token)
      /\ q.h2b \in [DOMAIN q.h2b -> Blocks]
      /\ \E b \in Blocks : Takes(p, q, b, toks) \/ Shares(p, q, b, toks)
  <2>1. FreeOK(p)
    BY <1>0 DEF PoolOK
  <2> QED BY <1>0, <2>1, AddBlockCases
<1> PICK b \in Blocks : Takes(p, q, b, toks) \/ Shares(p, q, b, toks)
  BY <1>1
<1> PICK tab, tab2 : tab = TabOf(s, pt) /\ tab2 = TabOf(s, Append(pt, b))
  OBVIOUS
<1>2. tab \in [SeqId -> Seq(Blocks)] /\ tab[s] = pt /\ Grows(tab, tab2, s, b)
  BY TabOfGrows
<1>3. PoolOK(p, tab, e) /\ toks = block(s, Len(tab[s]))
  BY <1>0, <1>2
<1>4. Len(toks) = BlockSize => toks # << >>
  BY BlockOf
<1>5. /\ PoolOK(q, tab2, e)
      /\ Len(q.free) = Len(p.free) - 1 \/ Len(q.free) = Len(p.free)
      /\ q.table = Append(p.table, b)
  <2>1. CASE Takes(p, q, b, toks)
    <3>1. PoolOK(q, tab2, e) /\ Len(q.free) = Len(p.free) - 1
      BY <1>1, <1>2, <1>3, <2>1, TakesKeeps
    <3> QED BY <2>1, <3>1 DEF Takes
  <2>2. CASE Shares(p, q, b, toks)
    <3>1. PoolOK(q, tab2, e) /\ Len(q.free) = Len(p.free)
      BY <1>1, <1>2, <1>3, <1>4, <2>2, SharesKeeps DEF Shares
    <3> QED BY <2>2, <3>1 DEF Shares
  <2> QED BY <2>1, <2>2
<1>6. p.free \in Seq(Blocks) /\ q.free \in Seq(Blocks)
  BY <1>0, <1>5 DEF PoolOK, Typed
<1>7. /\ Len(p.free) \in Nat /\ Len(q.free) \in Nat /\ Len(q.free) >= Len(p.free) - 1
  BY <1>5, <1>6
<1>8. q.table = Append(pt, b) /\ q.table \in Seq(Blocks) /\ Len(q.table) = n + 1
  BY <1>5
<1>9. TypedSeq(q)
  BY <1>1, <1>5, <1>8 DEF TypedSeq, PoolOK
<1>10. OneMore(p.table, q.table)
  BY <1>5 DEF OneMore
<1> QED BY <1>5, <1>7, <1>8, <1>9, <1>10 DEF LoopOK

(* How many blocks a number of tokens takes. *)
LEMMA CeilDivFacts ==
  ASSUME NEW n \in Nat
  PROVE  /\ CeilDiv(n) \in Nat /\ n <= CeilDiv(n) * BlockSize
         /\ CeilDiv(n) * BlockSize < n + BlockSize
<1> PICK q : q = CeilDiv(n)
  OBVIOUS
<1>1. q = (n + BlockSize - 1) \div BlockSize
  BY DEF CeilDiv
<1>2. n + BlockSize - 1 \in Nat
  BY Sizes
<1>3. q \in Nat
  BY <1>1, <1>2, Sizes
<1>4. q * BlockSize <= n + BlockSize - 1 /\ n + BlockSize - 1 < q * BlockSize + BlockSize
  BY <1>1, <1>2, <1>3, Sizes
<1>5. q * BlockSize \in Int
  BY <1>3, TimesNext
<1> QED BY <1>3, <1>4, <1>5, Sizes

LEMMA CeilDivLeast ==
  ASSUME NEW n \in Nat, NEW c \in Nat, n <= c * BlockSize
  PROVE  CeilDiv(n) <= c
<1> PICK q \in Nat : q = CeilDiv(n)
  BY CeilDivFacts
<1>1. q * BlockSize < n + BlockSize
  BY CeilDivFacts
<1>2. q * BlockSize \in Int /\ c * BlockSize \in Int /\ (c + 1) * BlockSize = c * BlockSize + BlockSize
  BY TimesNext
<1>3. ASSUME c + 1 <= q PROVE FALSE
  <2>1. (c + 1) * BlockSize <= q * BlockSize
    BY <1>3, TimesMonotone
  <2> QED BY <1>1, <1>2, <2>1, Sizes
<1> QED BY <1>3

LEMMA CeilDivMonotone ==
  ASSUME NEW m \in Nat, NEW n \in Nat, m <= n
  PROVE  CeilDiv(m) <= CeilDiv(n) /\ CeilDiv(m) \in Nat /\ CeilDiv(n) \in Nat
<1> PICK q \in Nat : q = CeilDiv(n)
  BY CeilDivFacts
<1>1. n <= q * BlockSize /\ q * BlockSize \in Int
  BY CeilDivFacts, TimesNext
<1>2. m <= q * BlockSize
  BY <1>1
<1> QED BY <1>2, CeilDivLeast, CeilDivFacts

LEMMA CeilDivZero == CeilDiv(0) = 0
<1>1. 0 <= 0 * BlockSize
  BY Sizes
<1>2. CeilDiv(0) <= 0 /\ CeilDiv(0) \in Nat
  BY <1>1, CeilDivLeast, CeilDivFacts
<1> QED BY <1>2

(* The loop of allocate_slots keeps the pool sound, one block at a time. *)
LoopAt(s, e, m, k) ==
  LET p == Slots(s, m)[k] IN
  /\ LoopOK(p, s, e) /\ Len(p.table) = Len(table[s]) + k /\ Extends(table[s], p.table)
  /\ Len(p.free) \in Nat /\ Len(p.free) >= Len(pool.free) - k

LEMMA SlotsKeep ==
  ASSUME tokens \in [SeqId -> Seq(Token)], table \in [SeqId -> Seq(Blocks)],
         NEW s \in SeqId, NEW e \in [Blocks -> Nat], LoopOK(WithSeq(s), s, e),
         NEW m \in Nat, m <= Len(pool.free), pool.free \in Seq(Blocks)
  PROVE  \A k \in 0 .. m : LoopAt(s, e, m, k)
<1> DEFINE T == {k \in 0 .. m : ~LoopAt(s, e, m, k)}
<1>0. Len(table[s]) \in Nat /\ Len(pool.free) \in Nat
  OBVIOUS
<1>1. LoopAt(s, e, m, 0)
  <2> PICK w, p : w = WithSeq(s) /\ p = FillLast(w, s)
    OBVIOUS
  <2>a. LoopOK(w, s, e) /\ p = FillLast(w, s)
    OBVIOUS
  <2>1. LoopOK(p, s, e) /\ SameTable(w, p)
    BY <2>a, FillLastKeeps
  <2>2. w.table = table[s] /\ w.free = pool.free
    BY DEF WithSeq
  <2>3. Slots(s, m)[0] = p
    BY SlotsLoop
  <2>4. Extends(table[s], p.table)
    BY <2>1, <2>2 DEF Extends, SameTable
  <2> QED BY <1>0, <2>1, <2>2, <2>3, <2>4 DEF LoopAt, SameTable
<1>2. ASSUME T # {} PROVE FALSE
  <2>0. T \subseteq Nat
    OBVIOUS
  <2> PICK k \in T : \A j \in T : k <= j
    <3> HIDE DEF T
    <3> QED BY <1>2, <2>0, LeastOf
  <2>1. k \in 0 .. m /\ ~LoopAt(s, e, m, k)
    OBVIOUS
  <2>2. k # 0
    BY <1>1, <2>1
  <2>3. k - 1 \in 0 .. m /\ ~(k <= k - 1) /\ k \in 1 .. m
    BY <2>1, <2>2
  <2>4. k - 1 \notin T
    <3> HIDE DEF T
    <3> QED BY <2>3
  <2>5. LoopAt(s, e, m, k - 1)
    BY <2>3, <2>4
  <2> HIDE DEF T
  <2> PICK p, q : p = Slots(s, m)[k - 1] /\ q = Slots(s, m)[k]
    OBVIOUS
  <2>6. /\ LoopOK(p, s, e) /\ Len(p.table) = Len(table[s]) + (k - 1)
        /\ Extends(table[s], p.table)
        /\ Len(p.free) \in Nat /\ Len(p.free) >= Len(pool.free) - (k - 1)
    BY <2>5 DEF LoopAt
  <2>7. p.free # << >>
    <3>1. Len(p.free) > 0
      BY ONLY <1>0, <2>3, <2>6, m \in Nat, m <= Len(pool.free)
    <3> QED BY <3>1
  <2>8. q = AddBlock(p, s, Len(p.table))
    <3>1. q = AddBlock(p, s, Len(table[s]) + k - 1)
      BY <2>3, SlotsLoop
    <3>2. Len(table[s]) + k - 1 = Len(p.table)
      BY <1>0, <2>3, <2>6
    <3> QED BY <3>1, <3>2
  <2>9. /\ LoopOK(q, s, e) /\ Len(q.table) = Len(p.table) + 1
        /\ OneMore(p.table, q.table)
        /\ Len(q.free) \in Nat /\ Len(q.free) >= Len(p.free) - 1
    <3>1. tokens \in [SeqId -> Seq(Token)] /\ table \in [SeqId -> Seq(Blocks)]
      OBVIOUS
    <3>2. s \in SeqId /\ e \in [Blocks -> Nat]
      OBVIOUS
    <3>3. LoopOK(p, s, e)
      BY <2>6
    <3> QED BY ONLY <2>7, <2>8, <3>1, <3>2, <3>3, AddBlockKeeps
  <2>10. Len(q.table) = Len(table[s]) + k /\ Len(q.free) >= Len(pool.free) - k
    <3> PICK x0, y0, x1, y1, x2, y2 :
          /\ x0 = Len(table[s]) /\ x1 = Len(p.table) /\ x2 = Len(q.table)
          /\ y0 = Len(pool.free) /\ y1 = Len(p.free) /\ y2 = Len(q.free)
      OBVIOUS
    <3>1. /\ x0 \in Nat /\ y0 \in Nat /\ k \in Int /\ y1 \in Nat /\ y2 \in Nat
          /\ x1 = x0 + (k - 1) /\ x2 = x1 + 1 /\ y1 >= y0 - (k - 1) /\ y2 >= y1 - 1
      BY <1>0, <2>3, <2>6, <2>9
    <3>2. x2 = x0 + k /\ y2 >= y0 - k
      BY ONLY <3>1
    <3> QED BY <3>2
  <2>11. Extends(table[s], q.table)
    <3>1. p.table \in Seq(Blocks) /\ table[s] \in Seq(Blocks)
      BY <2>6 DEF LoopOK, TypedSeq
    <3> QED BY <2>6, <2>9, <3>1, AppendExtends
  <2> QED BY <2>1, <2>9, <2>10, <2>11 DEF LoopAt
<1> QED BY <1>2

(* The pool without the fields of the sequence, and with them. *)
SameFields(p, q) ==
  /\ q.ref = p.ref /\ q.hash = p.hash /\ q.content = p.content /\ q.h2b = p.h2b
  /\ q.free = p.free /\ q.used = p.used

LEMMA SamePool ==
  ASSUME NEW p, NEW q, NEW tab, NEW e, SameFields(p, q), PoolOK(p, tab, e)
  PROVE  PoolOK(q, tab, e)
<1>1. Typed(q)
  BY DEF SameFields, PoolOK, Typed
<1>2. FreeOK(q)
  BY DEF SameFields, PoolOK, FreeOK
<1>3. CountOK(q, tab, e)
  BY DEF SameFields, PoolOK, CountOK
<1>4. NamesOK(q, tab)
  BY DEF SameFields, PoolOK, NamesOK, EntryOK
<1> QED BY <1>1, <1>2, <1>3, <1>4 DEF PoolOK

LEMMA AllocationKeeps ==
  ASSUME tokens \in [SeqId -> Seq(Token)], table \in [SeqId -> Seq(Blocks)],
         last \in [SeqId -> Seq(Token)], computed \in [SeqId -> Nat],
         NEW s \in SeqId, NEW e \in [Blocks -> Nat], PoolOK(pool, table, e),
         NEW n \in Nat, HasSlots(s, n), Len(table[s]) <= CeilDiv(computed[s] + n),
         NEW a, a = AllocatedSlots(s, n)
  PROVE  /\ DOMAIN PoolOf(a) = PoolFields /\ PoolOK(PoolOf(a), TabOf(s, a.table), e)
         /\ a.table \in Seq(Blocks) /\ a.last \in Seq(Token)
         /\ Len(a.table) = CeilDiv(computed[s] + n) /\ Extends(table[s], a.table)
<1> PICK w : w = WithSeq(s)
  OBVIOUS
<1>1. SameFields(pool, w) /\ DOMAIN w = Fields /\ w.table = table[s] /\ w.last = last[s]
  BY DEF WithSeq, SameFields, Fields, PoolFields
<1>2. TabOf(s, w.table) = table
  BY <1>1 DEF TabOf
<1>3. PoolOK(w, table, e)
  BY <1>1, SamePool
<1>4. TypedSeq(w)
  BY <1>1, <1>3 DEF TypedSeq, PoolOK
<1>5. LoopOK(w, s, e)
  BY <1>2, <1>3, <1>4 DEF LoopOK
<1> PICK c : c = CeilDiv(computed[s] + n)
  OBVIOUS
<1> PICK m : m = c - Len(table[s])
  OBVIOUS
<1>6. c \in Nat /\ Len(table[s]) \in Nat /\ m \in Nat /\ c = Len(table[s]) + m
  <2>1. computed[s] + n \in Nat
    OBVIOUS
  <2>2. c \in Nat
    BY <2>1, CeilDivFacts
  <2> QED BY <2>2
<1>7. m <= Len(pool.free) /\ pool.free \in Seq(Blocks)
  BY DEF HasSlots, PoolOK, Typed
<1>8. LoopAt(s, e, m, m)
  <2>1. m \in 0 .. m
    BY <1>6
  <2> QED BY <1>5, <1>6, <1>7, <2>1, SlotsKeep
<1>9. a = Slots(s, m)[m]
  BY DEF AllocatedSlots
<1>10. LoopOK(a, s, e) /\ Len(a.table) = c /\ Extends(table[s], a.table)
  BY <1>6, <1>8, <1>9 DEF LoopAt
<1>11. TypedSeq(a) /\ PoolOK(a, TabOf(s, a.table), e)
  BY <1>10 DEF LoopOK
<1> PICK q : q = PoolOf(a)
  OBVIOUS
<1>12. SameFields(a, q) /\ DOMAIN q = PoolFields
  BY DEF PoolOf, SameFields, PoolFields
<1>13. PoolOK(q, TabOf(s, a.table), e)
  BY <1>11, <1>12, SamePool
<1> QED BY <1>10, <1>11, <1>12, <1>13 DEF TypedSeq

-----------------------------------------------------------------------------
(* One iteration of deallocate: the last block of the table is given back. *)
LEMMA GiveBackKeeps ==
  ASSUME NEW tab \in [SeqId -> Seq(Blocks)], NEW e \in [Blocks -> Nat],
         NEW s \in SeqId, NEW b \in Blocks, NEW tab2, Shrinks(tab, tab2, s, b),
         NEW p, DOMAIN p = PoolFields, PoolOK(p, tab, e),
         NEW q, q = GiveBack(p, b)
  PROVE  DOMAIN q = PoolFields /\ PoolOK(q, tab2, e)
<1> PICK x : x = <<s, Len(tab[s])>>
  OBVIOUS
<1>1. HoldersShrink(tab, tab2, b, x)
  BY HoldersFront
<1>2. /\ p.ref \in [Blocks -> Nat] /\ p.hash \in [Blocks -> Seq(Token)]
      /\ p.content \in [Blocks -> Seq(Token)] /\ p.free \in Seq(Blocks) /\ p.used \subseteq Blocks
      /\ p.h2b \in [DOMAIN p.h2b -> Blocks]
      /\ FreeOK(p) /\ CountOK(p, tab, e) /\ NamesOK(p, tab)
  BY DEF PoolOK, Typed
<1> PICK H, H2 : H = HoldersIn(tab, b) /\ H2 = HoldersIn(tab2, b)
  OBVIOUS
<1> PICK r, eb : r = p.ref[b] /\ eb = e[b]
  OBVIOUS
<1>3. /\ IsFiniteSet(H) /\ r = Cardinality(H) + eb /\ r \in Nat /\ eb \in Nat
      /\ x \in H /\ H2 = H \ {x}
  <2>1. IsFiniteSet(HoldersIn(tab, b)) /\ p.ref[b] = Cardinality(HoldersIn(tab, b)) + e[b]
    BY <1>2 DEF CountOK
  <2>2. p.ref[b] \in Nat /\ e[b] \in Nat
    BY <1>2
  <2> QED BY <1>1, <2>1, <2>2 DEF HoldersShrink
<1>4. /\ IsFiniteSet(H2) /\ Cardinality(H2) = Cardinality(H) - 1
      /\ Cardinality(H) \in Nat /\ Cardinality(H) # 0 /\ Cardinality(H2) \in Nat
  <2>1. /\ IsFiniteSet(H2) /\ Cardinality(H2) = Cardinality(H) - 1
        /\ Cardinality(H) \in Nat /\ Cardinality(H) # 0
    BY <1>3, CardinalityRemove
  <2> QED BY <2>1
<1>5. /\ DOMAIN q = PoolFields /\ q.hash = p.hash /\ q.content = p.content /\ q.h2b = p.h2b
      /\ q.ref = [p.ref EXCEPT ![b] = r - 1]
      /\ r = 1 => q.used = p.used \ {b} /\ q.free = Append(p.free, b)
      /\ r # 1 => q.used = p.used /\ q.free = p.free
  <2>1. CASE r = 1
    <3>1. q = [p EXCEPT !.ref[b] = 0, !.used = @ \ {b}, !.free = Append(@, b)]
      BY <2>1 DEF GiveBack
    <3> QED BY <2>1, <3>1 DEF PoolFields
  <2>2. CASE r # 1
    <3>1. q = [p EXCEPT !.ref[b] = @ - 1]
      BY <2>2 DEF GiveBack
    <3> QED BY <2>2, <3>1 DEF PoolFields
  <2> QED BY <2>1, <2>2
<1>6. /\ q.ref \in [Blocks -> Nat] /\ q.ref[b] = r - 1
      /\ \A c \in Blocks \ {b} : q.ref[c] = p.ref[c]
  <2>1. r - 1 \in Nat
    BY <1>3, <1>4
  <2> PICK f, g, n : f = p.ref /\ g = q.ref /\ n = r - 1
    OBVIOUS
  <2>2. f \in [Blocks -> Nat] /\ g = [f EXCEPT ![b] = n] /\ n \in Nat
    BY <1>2, <1>5, <2>1
  <2>3. g \in [Blocks -> Nat] /\ g[b] = n /\ \A c \in Blocks \ {b} : g[c] = f[c]
    BY ONLY <2>2, b \in Blocks
  <2> QED BY <2>3
<1>7. b \in p.used
  <2>1. r > 0
    BY <1>3, <1>4
  <2> QED BY <1>2, <2>1 DEF FreeOK
<1>8. /\ q.free \in Seq(Blocks) /\ q.used \subseteq Blocks /\ Distinct(q.free)
      /\ \A c \in Blocks : c \in ToSet(q.free) <=> c \notin q.used
      /\ \A c \in Blocks : c \in q.used <=> c \in p.used /\ (c = b => r # 1)
  <2>1. CASE r = 1
    <3> PICK f \in Seq(Blocks) : f = p.free
      BY <1>2
    <3>1. b \notin ToSet(f) /\ Distinct(f)
      BY <1>2, <1>7 DEF FreeOK
    <3>2. With(f, Append(f, b), b)
      BY <3>1, DequeAppend
    <3>3. /\ q.free \in Seq(Blocks) /\ Distinct(q.free)
          /\ ToSet(q.free) = ToSet(p.free) \cup {b}
      BY <1>5, <2>1, <3>2 DEF With
    <3>4. q.used = p.used \ {b}
      BY <1>5, <2>1
    <3> QED BY <1>2, <2>1, <3>3, <3>4 DEF FreeOK
  <2>2. CASE r # 1
    BY <1>2, <1>5, <1>7, <2>2 DEF FreeOK
  <2> QED BY <2>1, <2>2
<1>9. FreeOK(q)
  <2>1. ASSUME NEW c \in Blocks PROVE c \in q.used <=> q.ref[c] > 0
    <3>1. CASE c = b
      BY ONLY <1>3, <1>4, <1>6, <1>7, <1>8, <3>1
    <3>2. CASE c # b
      <4>1. c \in p.used <=> p.ref[c] > 0
        BY <1>2 DEF FreeOK
      <4> QED BY <1>6, <1>8, <3>2, <4>1
    <3> QED BY <3>1, <3>2
  <2> QED BY <1>8, <2>1 DEF FreeOK
<1>10. CountOK(q, tab2, e)
  <2> SUFFICES ASSUME NEW c \in Blocks
               PROVE  /\ IsFiniteSet(HoldersIn(tab2, c))
                      /\ q.ref[c] = Cardinality(HoldersIn(tab2, c)) + e[c]
    BY DEF CountOK
  <2>1. CASE c = b
    <3>1. q.ref[b] = Cardinality(H2) + eb
      BY <1>3, <1>4, <1>6
    <3> QED BY <1>4, <2>1, <3>1
  <2>2. CASE c # b
    <3>1. q.ref[c] = p.ref[c]
      BY <1>6, <2>2
    <3>2. HoldersIn(tab2, c) = HoldersIn(tab, c)
      BY <1>1, <2>2 DEF HoldersShrink
    <3>3. IsFiniteSet(HoldersIn(tab, c)) /\ p.ref[c] = Cardinality(HoldersIn(tab, c)) + e[c]
      BY <1>2 DEF CountOK
    <3> QED BY <3>1, <3>2, <3>3
  <2> QED BY <2>1, <2>2
<1>11. ASSUME NEW t \in SeqId, NEW k \in DOMAIN tab2[t] PROVE EntryOK(q, tab2, t, k)
  <2>1. k \in DOMAIN tab[t] /\ tab2[t][k] = tab[t][k] /\ <<t, k>> # x
    <3>1. CASE t = s
      BY <3>1 DEF Shrinks
    <3>2. CASE t # s
      BY <3>2 DEF Shrinks
    <3> QED BY <3>1, <3>2
  <2>2. EntryOK(p, tab, t, k) /\ tab[t][k] \in Blocks
    BY <1>2, <2>1 DEF NamesOK
  <2> PICK c \in Blocks : c = tab[t][k] /\ c = tab2[t][k]
    BY <2>1, <2>2
  <2>3. CASE p.hash[c] # NoHash
    BY <1>5, <2>2, <2>3 DEF EntryOK
  <2>4. CASE p.hash[c] = NoHash
    <3>1. Cardinality(HoldersIn(tab, c)) = 1
      BY <2>2, <2>4 DEF EntryOK
    <3>2. CASE c # b
      <4>1. HoldersIn(tab2, c) = HoldersIn(tab, c)
        BY <1>1, <3>2 DEF HoldersShrink
      <4> QED BY <1>5, <2>4, <3>1, <4>1 DEF EntryOK
    <3>3. CASE c = b
      <4>1. Cardinality(H2) = 0
        BY <1>4, <3>1, <3>3
      <4>2. H2 = {}
        BY <1>4, <4>1, FS_EmptySet
      <4>3. <<t, k>> \in H2
        BY <2>1, <3>3, HoldersMeans
      <4> QED BY <4>2, <4>3
    <3> QED BY <3>2, <3>3
  <2> QED BY <2>3, <2>4
<1>12. NamesOK(q, tab2)
  BY <1>2, <1>5, <1>11 DEF NamesOK
<1>13. Typed(q)
  BY <1>2, <1>5, <1>6, <1>8 DEF Typed
<1> QED BY <1>5, <1>9, <1>10, <1>12, <1>13 DEF PoolOK

(* The loop of deallocate over the reversed table of the sequence. *)
TakeOut(s, n) == [table EXCEPT ![s] = SubSeq(table[s], 1, Len(table[s]) - n)]
ReturnAt(s, e, k) ==
  LET p == Returned(table[s])[k] IN DOMAIN p = PoolFields /\ PoolOK(p, TakeOut(s, k), e)

LEMMA TakeOutShrinks ==
  ASSUME table \in [SeqId -> Seq(Blocks)], NEW s \in SeqId, NEW k \in 1 .. Len(table[s])
  PROVE  /\ TakeOut(s, k - 1) \in [SeqId -> Seq(Blocks)]
         /\ table[s][Len(table[s]) + 1 - k] \in Blocks
         /\ Shrinks(TakeOut(s, k - 1), TakeOut(s, k), s, table[s][Len(table[s]) + 1 - k])
<1> PICK q \in Seq(Blocks) : q = table[s]
  OBVIOUS
<1> PICK m \in Nat : m = Len(q)
  OBVIOUS
<1> PICK f, g : f = SubSeq(q, 1, m - (k - 1)) /\ g = SubSeq(q, 1, m - k)
  OBVIOUS
<1>1. k \in 1 .. m /\ \A i \in 1 .. m : q[i] \in Blocks
  OBVIOUS
<1>2. /\ f \in Seq(Blocks) /\ Len(f) = m - (k - 1) /\ DOMAIN f = 1 .. m - (k - 1)
      /\ \A i \in 1 .. m - (k - 1) : f[i] = q[i]
  BY <1>1
<1>3. /\ g \in Seq(Blocks) /\ Len(g) = m - k /\ DOMAIN g = 1 .. m - k
      /\ \A i \in 1 .. m - k : g[i] = q[i]
  BY <1>1
<1> PICK tab, tab2 : tab = TakeOut(s, k - 1) /\ tab2 = TakeOut(s, k)
  OBVIOUS
<1>4. /\ tab \in [SeqId -> Seq(Blocks)] /\ tab2 \in [SeqId -> Seq(Blocks)]
      /\ tab[s] = f /\ tab2[s] = g /\ \A t \in SeqId \ {s} : tab2[t] = tab[t]
  BY <1>2, <1>3 DEF TakeOut
<1> PICK b : b = q[m + 1 - k]
  OBVIOUS
<1>5. /\ b \in Blocks /\ Len(f) \in DOMAIN f /\ f[Len(f)] = b
      /\ DOMAIN g = DOMAIN f \ {Len(f)} /\ \A i \in DOMAIN g : g[i] = f[i]
  <2>1. m - (k - 1) \in 1 .. m /\ m + 1 - k = m - (k - 1)
    BY <1>1
  <2>2. b \in Blocks /\ Len(f) \in DOMAIN f /\ f[Len(f)] = b
    BY <1>1, <1>2, <2>1
  <2>3. DOMAIN g = DOMAIN f \ {Len(f)}
    BY <1>1, <1>2, <1>3
  <2>4. \A i \in DOMAIN g : g[i] = f[i]
    BY <1>1, <1>2, <1>3
  <2> QED BY <2>2, <2>3, <2>4
<1>6. Shrinks(tab, tab2, s, b)
  BY <1>4, <1>5 DEF Shrinks
<1> QED BY <1>4, <1>5, <1>6

LEMMA ReturnedKeep ==
  ASSUME table \in [SeqId -> Seq(Blocks)], NEW s \in SeqId, NEW e \in [Blocks -> Nat],
         DOMAIN pool = PoolFields, PoolOK(pool, table, e)
  PROVE  \A k \in 0 .. Len(table[s]) : ReturnAt(s, e, k)
<1> PICK q \in Seq(Blocks) : q = table[s]
  OBVIOUS
<1> PICK m \in Nat : m = Len(q)
  OBVIOUS
<1> DEFINE T == {k \in 0 .. m : ~ReturnAt(s, e, k)}
<1>1. ReturnAt(s, e, 0)
  <2>1. SubSeq(q, 1, m - 0) = q
    OBVIOUS
  <2>2. TakeOut(s, 0) = table
    BY <2>1 DEF TakeOut
  <2>3. Returned(q)[0] = pool
    BY ReturnedLoop
  <2> QED BY <2>2, <2>3 DEF ReturnAt
<1>2. ASSUME T # {} PROVE FALSE
  <2>0. T \subseteq Nat
    OBVIOUS
  <2> PICK k \in T : \A j \in T : k <= j
    <3> HIDE DEF T
    <3> QED BY <1>2, <2>0, LeastOf
  <2>1. k \in 0 .. m /\ ~ReturnAt(s, e, k)
    OBVIOUS
  <2>2. k # 0
    BY <1>1, <2>1
  <2>3. k - 1 \in 0 .. m /\ ~(k <= k - 1) /\ k \in 1 .. m
    BY <2>1, <2>2
  <2>4. k - 1 \notin T
    <3> HIDE DEF T
    <3> QED BY <2>3
  <2>5. ReturnAt(s, e, k - 1)
    BY <2>3, <2>4
  <2> HIDE DEF T
  <2> PICK p, p2, b : p = Returned(q)[k - 1] /\ p2 = Returned(q)[k] /\ b = q[m + 1 - k]
    OBVIOUS
  <2> PICK tab, tab2 : tab = TakeOut(s, k - 1) /\ tab2 = TakeOut(s, k)
    OBVIOUS
  <2>6. DOMAIN p = PoolFields /\ PoolOK(p, tab, e)
    BY <2>5 DEF ReturnAt
  <2>7. p2 = GiveBack(p, b)
    <3>1. Returned(q)[k] = GiveBack(Returned(q)[k - 1], q[Len(q) + 1 - k])
      BY <2>3, ReturnedLoop
    <3> QED BY <3>1
  <2>8. /\ tab \in [SeqId -> Seq(Blocks)] /\ b \in Blocks /\ Shrinks(tab, tab2, s, b)
    <3>1. k \in 1 .. Len(table[s])
      BY <2>3
    <3>2. /\ TakeOut(s, k - 1) \in [SeqId -> Seq(Blocks)]
          /\ table[s][Len(table[s]) + 1 - k] \in Blocks
          /\ Shrinks(TakeOut(s, k - 1), TakeOut(s, k), s, table[s][Len(table[s]) + 1 - k])
      BY <3>1, TakeOutShrinks
    <3> QED BY <3>2
  <2>9. DOMAIN p2 = PoolFields /\ PoolOK(p2, tab2, e)
    BY ONLY <2>6, <2>7, <2>8, GiveBackKeeps, ZenonT(60), s \in SeqId, e \in [Blocks -> Nat]
  <2>10. ReturnAt(s, e, k)
    BY <2>9 DEF ReturnAt
  <2> QED BY <2>1, <2>10
<1> QED BY <1>2

(* deallocate of a finished sequence. *)
LEMMA DeallocateKeeps ==
  ASSUME table \in [SeqId -> Seq(Blocks)], NEW s \in SeqId, NEW e \in [Blocks -> Nat],
         DOMAIN pool = PoolFields, PoolOK(pool, table, e),
         NEW p, p = Returned(table[s])[Len(table[s])]
  PROVE  DOMAIN p = PoolFields /\ PoolOK(p, TabOf(s, << >>), e)
<1> PICK m \in Nat : m = Len(table[s])
  OBVIOUS
<1>1. ReturnAt(s, e, m)
  BY ReturnedKeep
<1>2. TakeOut(s, m) = TabOf(s, << >>)
  <2>1. SubSeq(table[s], 1, m - m) = << >>
    OBVIOUS
  <2> QED BY <2>1 DEF TakeOut, TabOf
<1> QED BY <1>1, <1>2 DEF ReturnAt

(* Preempt clears the table and gives nothing back: the references stay. *)
LEMMA ClearedKeeps ==
  ASSUME table \in [SeqId -> Seq(Blocks)], NEW s \in SeqId, NEW e \in [Blocks -> Nat],
         NEW p, PoolOK(p, table, e)
  PROVE  \E d \in [Blocks -> Nat] : PoolOK(p, TabOf(s, << >>), d)
<1> PICK tab : tab = TabOf(s, << >>)
  OBVIOUS
<1>1. /\ tab \in [SeqId -> Seq(Blocks)] /\ tab[s] = << >>
      /\ \A t \in SeqId \ {s} : tab[t] = table[t]
  BY DEF TabOf
<1>2. /\ p.ref \in [Blocks -> Nat] /\ Typed(p) /\ FreeOK(p) /\ CountOK(p, table, e)
      /\ NamesOK(p, table)
  BY DEF PoolOK, Typed
<1>3. ASSUME NEW b \in Blocks
      PROVE  /\ HoldersIn(tab, b) \subseteq HoldersIn(table, b)
             /\ IsFiniteSet(HoldersIn(tab, b)) /\ IsFiniteSet(HoldersIn(table, b))
             /\ Cardinality(HoldersIn(tab, b)) \in Nat
             /\ Cardinality(HoldersIn(table, b)) \in Nat
             /\ Cardinality(HoldersIn(tab, b)) <= Cardinality(HoldersIn(table, b))
  <2> PICK H, H2 : H = HoldersIn(table, b) /\ H2 = HoldersIn(tab, b)
    OBVIOUS
  <2>1. IsFiniteSet(H)
    BY <1>2 DEF CountOK
  <2>2. H2 \subseteq H
    <3> SUFFICES ASSUME NEW x \in H2 PROVE x \in H
      OBVIOUS
    <3>1. PICK t \in SeqId : \E k \in DOMAIN tab[t] : x = <<t, k>> /\ tab[t][k] = b
      BY HoldersMeans
    <3>2. t # s
      BY <1>1, <3>1
    <3>3. tab[t] = table[t]
      BY <1>1, <3>2
    <3> QED BY <3>1, <3>3, HoldersMeans
  <2>3. IsFiniteSet(H2) /\ Cardinality(H2) <= Cardinality(H)
    BY <2>1, <2>2, FS_Subset
  <2> QED BY <2>1, <2>2, <2>3, FS_CardinalityType
<1> DEFINE d == [b \in Blocks |-> e[b] + (Cardinality(HoldersIn(table, b)) - Cardinality(HoldersIn(tab, b)))]
<1>4. d \in [Blocks -> Nat]
  <2> SUFFICES ASSUME NEW b \in Blocks
               PROVE  e[b] + (Cardinality(HoldersIn(table, b)) - Cardinality(HoldersIn(tab, b))) \in Nat
    OBVIOUS
  <2> QED BY <1>3
<1>5. CountOK(p, tab, d)
  <2> SUFFICES ASSUME NEW b \in Blocks
               PROVE  /\ IsFiniteSet(HoldersIn(tab, b))
                      /\ p.ref[b] = Cardinality(HoldersIn(tab, b)) + d[b]
    <3> HIDE DEF d
    <3> QED BY DEF CountOK
  <2>1. p.ref[b] = Cardinality(HoldersIn(table, b)) + e[b]
    BY <1>2 DEF CountOK
  <2>2. d[b] = e[b] + (Cardinality(HoldersIn(table, b)) - Cardinality(HoldersIn(tab, b)))
    OBVIOUS
  <2> HIDE DEF d
  <2> QED BY <1>3, <2>1, <2>2
<1>6. NamesOK(p, tab)
  <2> SUFFICES ASSUME NEW t \in SeqId, NEW k \in DOMAIN tab[t] PROVE EntryOK(p, tab, t, k)
    BY <1>2 DEF NamesOK
  <2>1. t # s /\ tab[t] = table[t]
    BY <1>1
  <2>2. EntryOK(p, table, t, k) /\ table[t][k] \in Blocks
    BY <1>2, <2>1 DEF NamesOK
  <2> PICK b \in Blocks : b = table[t][k] /\ b = tab[t][k]
    BY <2>1, <2>2
  <2>3. CASE p.hash[b] # NoHash
    BY <2>2, <2>3 DEF EntryOK
  <2>4. CASE p.hash[b] = NoHash
    <3> PICK H, H2 : H = HoldersIn(table, b) /\ H2 = HoldersIn(tab, b)
      OBVIOUS
    <3>1. Cardinality(H) = 1
      BY <2>2, <2>4 DEF EntryOK
    <3>2. <<t, k>> \in H2
      BY HoldersMeans
    <3>3. /\ H2 \subseteq H /\ IsFiniteSet(H2) /\ IsFiniteSet(H)
          /\ Cardinality(H2) \in Nat /\ Cardinality(H2) <= 1
      BY <1>3, <3>1
    <3>4. Cardinality(H2) # 0
      BY <3>2, <3>3, FS_EmptySet
    <3>5. Cardinality(H2) = 1
      BY <3>3, <3>4
    <3> QED BY <2>4, <3>5 DEF EntryOK
  <2> QED BY <2>3, <2>4
<1>7. PoolOK(p, tab, d)
  <2> HIDE DEF d
  <2> QED BY <1>2, <1>5, <1>6 DEF PoolOK
<1> QED BY <1>4, <1>7

-----------------------------------------------------------------------------
(***************************************************************************)
(* The inductive invariant.  The pool is sound for some count of lost      *)
(* references; the queues are in order and hold the unfinished sequences;  *)
(* only a running sequence has blocks; and the chunks of the step are      *)
(* those of the first sequences of running, with the blocks they need.     *)
(***************************************************************************)
PoolInv == DOMAIN pool = PoolFields /\ \E e \in [Blocks -> Nat] : PoolOK(pool, table, e)

Types ==
  /\ TypeOK /\ nextId \in Nat /\ nextId >= 1 /\ DOMAIN params = SeqId
  /\ \A s \in SeqId : params[s].prompt \in Nat /\ params[s].max \in Nat

Ordered(rs, ws) ==
  /\ \A j, k \in DOMAIN rs : j < k => rs[j] < rs[k]
  /\ \A j, k \in DOMAIN ws : j < k => ws[j] < ws[k]
  /\ \A j \in DOMAIN rs, k \in DOMAIN ws : rs[j] < ws[k]
Queued(st, rs, ws) ==
  /\ \A s \in SeqId : st[s] = "RUNNING" <=> \E j \in DOMAIN rs : rs[j] = s
  /\ \A s \in SeqId : st[s] = "WAITING" <=> \E j \in DOMAIN ws : ws[j] = s
Queues ==
  /\ Ordered(running, waiting) /\ Queued(status, running, waiting) /\ Len(running) <= MaxNumSeqs
  /\ \A s \in SeqId : status[s] = "none" <=> s >= nextId
  /\ pc = "add" => nextId \in SeqId /\ running = << >>

Lengths ==
  /\ \A s \in SeqId : status[s] # "RUNNING" => table[s] = << >>
  /\ \A s \in SeqId : status[s] = "none" => tokens[s] = << >> /\ computed[s] = 0
  /\ \A s \in SeqId : status[s] = "WAITING" => computed[s] = 0
  /\ \A s \in SeqId : status[s] \in {"WAITING", "RUNNING"} =>
       tokens[s] # << >> /\ Len(tokens[s]) < params[s].prompt + params[s].max

(* A sequence the next chunk of which is not allocated yet, and one the     *)
(* computed tokens of which have their blocks.                              *)
Covered(s) == computed[s] <= Len(tokens[s]) /\ Len(table[s]) = CeilDiv(computed[s])
Behind(s) == computed[s] < Len(tokens[s]) /\ Len(table[s]) = CeilDiv(computed[s])
ChunkOK(s, n) ==
  n > 0 /\ computed[s] + n <= Len(tokens[s]) /\ Len(table[s]) = CeilDiv(computed[s] + n)

Scheduling ==
  pc \in {"running", "waiting"} =>
    /\ Len(scheduled) <= Len(running)
    /\ \A k \in DOMAIN scheduled :
         scheduled[k][1] = running[k] /\ ChunkOK(scheduled[k][1], scheduled[k][2])
    /\ \A k \in DOMAIN running : k > Len(scheduled) => Behind(running[k])
    /\ running # << >> \/ waiting # << >>
Places ==
  /\ pc = "running" => index = Len(scheduled) + 1
  /\ pc = "waiting" /\ budget > 0 => Len(scheduled) = Len(running)
Budget ==
  pc \in {"running", "waiting", "run", "post"} =>
    Totals(scheduled)[Len(scheduled)] + budget = MaxNumBatchedTokens
OfStep ==
  pc \in {"run", "post"} =>
    /\ \A j, k \in DOMAIN scheduled : scheduled[j][1] = scheduled[k][1] => j = k
    /\ \A k \in DOMAIN scheduled : pc = "run" \/ k > sampled =>
         status[scheduled[k][1]] = "RUNNING" /\ scheduled[k][2] > 0
    /\ \A s \in SeqId : status[s] = "RUNNING" =>
         /\ Covered(s)
         /\ \/ Behind(s)
            \/ \E k \in DOMAIN scheduled : (pc = "run" \/ k > sampled) /\ scheduled[k][1] = s
Between == pc = "step" => \A s \in SeqId : status[s] = "RUNNING" => Behind(s)

Control == Queues /\ Lengths /\ Scheduling /\ Places /\ Budget /\ OfStep /\ Between

-----------------------------------------------------------------------------
(* A step that leaves the tokens alone keeps what is said about blocks. *)
LEMMA SameTokens ==
  ASSUME tokens' = tokens, NEW e, PoolOK(pool', table', e)
  PROVE  PoolOK(pool, table, e)'
<1>1. Typed(pool') /\ FreeOK(pool') /\ CountOK(pool', table', e) /\ NamesOK(pool', table')
  BY DEF PoolOK
<1>2. Typed(pool)'
  BY <1>1 DEF Typed
<1>3. FreeOK(pool)'
  BY <1>1 DEF FreeOK
<1>4. CountOK(pool, table, e)'
  BY <1>1 DEF CountOK
<1>5. NamesOK(pool, table)'
  BY <1>1 DEF NamesOK, EntryOK, block
<1> QED BY <1>2, <1>3, <1>4, <1>5 DEF PoolOK

LEMMA PoolSame ==
  ASSUME tokens' = tokens, pool' = pool, table' = table, NEW e, PoolOK(pool, table, e)
  PROVE  PoolOK(pool, table, e)'
<1>1. PoolOK(pool', table', e)
  OBVIOUS
<1> QED BY <1>1, SameTokens

(* What allocate_slots does to the variables of the engine. *)
Allocated(s, n) ==
  /\ DOMAIN pool' = PoolFields
  /\ table' \in [SeqId -> Seq(Blocks)] /\ last' \in [SeqId -> Seq(Token)]
  /\ Len(table'[s]) = CeilDiv(computed[s] + n)
  /\ \A t \in SeqId \ {s} : table'[t] = table[t]
  /\ Extends(table[s], table'[s])

LEMMA AllocateStep ==
  ASSUME TypeOK, PoolInv, NEW s \in SeqId, NEW n \in Nat, allocate_slots(s, n), tokens' = tokens,
         Len(table[s]) <= CeilDiv(computed[s] + n)
  PROVE  /\ Allocated(s, n)
         /\ \A e \in [Blocks -> Nat] : PoolOK(pool, table, e) => PoolOK(pool, table, e)'
<1>1. /\ tokens \in [SeqId -> Seq(Token)] /\ table \in [SeqId -> Seq(Blocks)]
      /\ last \in [SeqId -> Seq(Token)] /\ computed \in [SeqId -> Nat]
  BY DEF TypeOK
<1> PICK a : a = AllocatedSlots(s, n)
  OBVIOUS
<1>2. /\ HasSlots(s, n) /\ pool' = PoolOf(a)
      /\ table' = [table EXCEPT ![s] = a.table] /\ last' = [last EXCEPT ![s] = a.last]
  BY DEF allocate_slots
<1>3. ASSUME NEW e \in [Blocks -> Nat], PoolOK(pool, table, e)
      PROVE  Allocated(s, n) /\ PoolOK(pool, table, e)'
  <2>1. /\ DOMAIN PoolOf(a) = PoolFields /\ PoolOK(PoolOf(a), TabOf(s, a.table), e)
        /\ a.table \in Seq(Blocks) /\ a.last \in Seq(Token)
        /\ Len(a.table) = CeilDiv(computed[s] + n) /\ Extends(table[s], a.table)
    BY <1>1, <1>2, <1>3, AllocationKeeps
  <2>2. table' = TabOf(s, a.table)
    BY <1>2 DEF TabOf
  <2>3. PoolOK(pool', table', e)
    BY <1>2, <2>1, <2>2
  <2>4. PoolOK(pool, table, e)'
    BY <2>3, SameTokens
  <2>5. /\ table' \in [SeqId -> Seq(Blocks)] /\ table'[s] = a.table
        /\ last' \in [SeqId -> Seq(Token)] /\ \A t \in SeqId \ {s} : table'[t] = table[t]
    BY <1>1, <1>2, <2>1
  <2> QED BY <1>2, <2>1, <2>4, <2>5 DEF Allocated
<1>4. PICK e \in [Blocks -> Nat] : PoolOK(pool, table, e)
  BY DEF PoolInv
<1> QED BY <1>3, <1>4

(* What allocate_slots leaves of the block tables. *)
Prolonged == \A t \in SeqId : Extends(table[t], table'[t])

LEMMA AllocatedProlongs ==
  ASSUME NEW s \in SeqId, NEW n, Allocated(s, n)
  PROVE  Prolonged
BY DEF Allocated, Prolonged, Extends

(* The pool keeps its invariant as soon as its count is kept. *)
LEMMA PoolTypes ==
  ASSUME PoolInv
  PROVE  Typed(pool)
BY DEF PoolInv, PoolOK

LEMMA PoolInvNext ==
  ASSUME PoolInv, DOMAIN pool' = PoolFields,
         \A e \in [Blocks -> Nat] : PoolOK(pool, table, e) => PoolOK(pool, table, e)'
  PROVE  PoolInv' /\ Typed(pool)'
<1>1. PICK e \in [Blocks -> Nat] : PoolOK(pool, table, e)
  BY DEF PoolInv
<1>2. PoolOK(pool, table, e)'
  BY <1>1
<1>3. PoolInv'
  BY <1>2 DEF PoolInv
<1> QED BY <1>2, <1>3 DEF PoolOK

-----------------------------------------------------------------------------
(* Steps that leave most of the state alone. *)
IInv == Types /\ PoolInv /\ Control

LEMMA QueuesSame ==
  ASSUME Queues, running' = running, waiting' = waiting, status' = status, nextId' = nextId,
         pc' # "add"
  PROVE  Queues'
BY DEF Queues, Ordered, Queued

LEMMA LengthsSame ==
  ASSUME Lengths, status' = status, table' = table, tokens' = tokens, computed' = computed,
         params' = params
  PROVE  Lengths'
BY DEF Lengths

LEMMA PoolSameInv ==
  ASSUME PoolInv, tokens' = tokens, pool' = pool, table' = table
  PROVE  PoolInv'
<1>1. \A e \in [Blocks -> Nat] : PoolOK(pool, table, e) => PoolOK(pool, table, e)'
  BY PoolSame
<1>2. DOMAIN pool' = PoolFields
  BY DEF PoolInv
<1> QED BY <1>1, <1>2, PoolInvNext

(* The types of the variables but the pool. *)
Rest ==
  /\ tokens \in [SeqId -> Seq(Token)] /\ table \in [SeqId -> Seq(Blocks)]
  /\ last \in [SeqId -> Seq(Token)] /\ computed \in [SeqId -> Nat]
  /\ status \in [SeqId -> {"none", "WAITING", "RUNNING", "FINISHED"}]
  /\ waiting \in Seq(SeqId) /\ running \in Seq(SeqId)
  /\ scheduled \in Seq(SeqId \X Nat)
  /\ budget \in 0 .. MaxNumBatchedTokens /\ index \in Nat /\ sampled \in Nat
  /\ pc \in {"add", "step", "running", "waiting", "run", "post", "raised"}

LEMMA TypeNext ==
  ASSUME Typed(pool)', Rest'
  PROVE  TypeOK'
BY DEF Typed, Rest, TypeOK

LEMMA StepBeginInv ==
  ASSUME IInv, StepBegin
  PROVE  IInv'
<1> USE DEF IInv
<1>1. /\ pc = "step" /\ ~is_finished /\ budget' = MaxNumBatchedTokens /\ scheduled' = << >>
      /\ index' = 1 /\ pc' = "running"
      /\ pool' = pool /\ tokens' = tokens /\ table' = table /\ last' = last
      /\ computed' = computed /\ status' = status /\ params' = params
      /\ waiting' = waiting /\ running' = running /\ sampled' = sampled /\ nextId' = nextId /\ kv' = kv
  BY DEF StepBegin, seqVars
<1>2. Types'
  <2>1. Typed(pool)' /\ TypeOK
    BY <1>1 DEF Types, TypeOK, Typed
  <2>2. MaxNumBatchedTokens \in 0 .. MaxNumBatchedTokens /\ << >> \in Seq(SeqId \X Nat)
    BY ONLY Sizes
  <2>3. Rest'
    BY ONLY <1>1, <2>1, <2>2 DEF Rest, TypeOK
  <2>4. TypeOK'
    BY ONLY <2>1, <2>3, TypeNext
  <2> QED BY <1>1, <2>4 DEF Types
<1>3. PoolInv'
  BY <1>1, PoolSameInv
<1>4. Queues'
  BY <1>1, QueuesSame DEF Control
<1>5. Lengths'
  BY <1>1, LengthsSame DEF Control
<1>6. /\ Len(scheduled') = 0 /\ DOMAIN scheduled' = {} /\ << >> \in Seq(SeqId \X Nat)
      /\ running \in Seq(SeqId)
  BY <1>1 DEF Types, TypeOK
<1>7. Scheduling'
  <2>1. ASSUME NEW k \in DOMAIN running PROVE Behind(running[k])'
    <3>1. running[k] \in SeqId /\ status[running[k]] = "RUNNING"
      BY <1>6 DEF Control, Queues, Queued
    <3>2. Behind(running[k])
      BY <1>1, <3>1 DEF Control, Between
    <3> QED BY <1>1, <3>2 DEF Behind
  <2> QED BY <1>1, <1>6, <2>1 DEF Scheduling, is_finished
<1>8. Places'
  BY <1>1, <1>6 DEF Places
<1>9. Budget'
  <2>1. Totals(<< >>)[0] = 0
    BY <1>6, TotalsLoop
  <2>2. Totals(scheduled')[Len(scheduled')] + budget' = MaxNumBatchedTokens
    BY <1>1, <1>6, <2>1, Sizes
  <2> QED BY <2>2 DEF Budget
<1>10. OfStep' /\ Between'
  BY <1>1 DEF OfStep, Between
<1> QED BY <1>2, <1>3, <1>4, <1>5, <1>7, <1>8, <1>9, <1>10 DEF Control

LEMMA RunningEndInv ==
  ASSUME IInv, RunningEnd
  PROVE  IInv'
<1> USE DEF IInv
<1>1. /\ pc = "running" /\ ~InRunningLoop /\ pc' = "waiting"
      /\ pool' = pool /\ tokens' = tokens /\ table' = table /\ last' = last
      /\ computed' = computed /\ status' = status /\ params' = params
      /\ waiting' = waiting /\ running' = running /\ sampled' = sampled /\ nextId' = nextId /\ kv' = kv
      /\ scheduled' = scheduled /\ budget' = budget /\ index' = index
  BY DEF RunningEnd, seqVars
<1>2. Types'
  BY <1>1 DEF Types, TypeOK
<1>3. PoolInv'
  BY <1>1, PoolSameInv
<1>4. Queues'
  BY <1>1, QueuesSame DEF Control
<1>5. Lengths'
  BY <1>1, LengthsSame DEF Control
<1>6. Scheduling'
  BY <1>1 DEF Control, Scheduling, ChunkOK, Behind
<1>7. Places'
  <2>1. Len(scheduled) <= Len(running) /\ index = Len(scheduled) + 1
    BY <1>1 DEF Control, Scheduling, Places
  <2>2. Len(scheduled) \in Nat /\ Len(running) \in Nat /\ budget \in Nat
    BY Sizes DEF Types, TypeOK
  <2>3. budget > 0 => Len(scheduled) = Len(running)
    BY <1>1, <2>1, <2>2 DEF InRunningLoop
  <2> QED BY <1>1, <2>3 DEF Places
<1>8. Budget'
  BY <1>1 DEF Control, Budget
<1>9. OfStep' /\ Between'
  BY <1>1 DEF OfStep, Between
<1> QED BY <1>2, <1>3, <1>4, <1>5, <1>6, <1>7, <1>8, <1>9 DEF Control

(* A step that changes pc, sampled and the rows of the cache only. *)
Quiet ==
  /\ pool' = pool /\ tokens' = tokens /\ table' = table /\ last' = last
  /\ computed' = computed /\ status' = status /\ params' = params
  /\ waiting' = waiting /\ running' = running /\ nextId' = nextId
  /\ scheduled' = scheduled /\ budget' = budget /\ index' = index

LEMMA QuietInv ==
  ASSUME IInv, Quiet, pc' \in {"step", "run", "post", "raised"}, sampled' \in Nat
  PROVE  Types' /\ PoolInv' /\ Queues' /\ Lengths' /\ Scheduling' /\ Places'
<1> USE DEF IInv, Quiet
<1>2. Types'
  BY DEF Types, TypeOK
<1>3. PoolInv'
  BY PoolSameInv
<1>4. Queues'
  BY QueuesSame DEF Control
<1>5. Lengths'
  BY LengthsSame DEF Control
<1>6. Scheduling' /\ Places'
  BY DEF Scheduling, Places
<1> QED BY <1>2, <1>3, <1>4, <1>5, <1>6

LEMMA RunInv ==
  ASSUME IInv, run \/ RunNothing
  PROVE  IInv'
<1> USE DEF IInv
<1>1. CASE run
  <2>1. Quiet /\ pc = "run" /\ pc' = "post" /\ sampled' = 0
    BY <1>1 DEF run, Quiet, seqVars
  <2>2. Types' /\ PoolInv' /\ Queues' /\ Lengths' /\ Scheduling' /\ Places'
    BY <2>1, QuietInv
  <2>3. Budget'
    BY <2>1 DEF Quiet, Control, Budget
  <2>4. \A k \in DOMAIN scheduled : k > 0
    <3>1. scheduled \in Seq(SeqId \X Nat)
      BY DEF Types, TypeOK
    <3> QED BY <3>1
  <2>5. OfStep'
    BY <2>1, <2>4 DEF Quiet, Control, OfStep, Covered, Behind
  <2>6. Between'
    BY <2>1 DEF Between
  <2> QED BY <2>2, <2>3, <2>5, <2>6 DEF Control
<1>2. CASE RunNothing
  <2>1. Quiet /\ pc = "run" /\ pc' = "raised" /\ sampled' = sampled
    BY <1>2 DEF RunNothing, Quiet, seqVars
  <2>2. Types' /\ PoolInv' /\ Queues' /\ Lengths' /\ Scheduling' /\ Places'
    <3>1. sampled' \in Nat
      BY <2>1 DEF Types, TypeOK
    <3> QED BY <2>1, <3>1, QuietInv
  <2>3. Budget' /\ OfStep' /\ Between'
    BY <2>1 DEF Budget, OfStep, Between
  <2> QED BY <2>2, <2>3 DEF Control
<1> QED BY <1>1, <1>2

LEMMA PostDiscardInv ==
  ASSUME IInv, PostDiscard
  PROVE  IInv'
<1> USE DEF IInv
<1>1. Quiet /\ pc = "post" /\ pc' = "post" /\ sampled' = sampled + 1
  BY DEF PostDiscard, Quiet, seqVars
<1>2. sampled \in Nat /\ scheduled \in Seq(SeqId \X Nat)
  BY DEF Types, TypeOK
<1>3. Types' /\ PoolInv' /\ Queues' /\ Lengths' /\ Scheduling' /\ Places'
  BY <1>1, <1>2, QuietInv
<1>4. Budget'
  BY <1>1 DEF Quiet, Control, Budget
<1> PICK s \in SeqId : InHand(s) /\ Discarded(s)
  BY DEF PostDiscard
<1>5. OfStep'
  <2>1. /\ \A j, k \in DOMAIN scheduled : scheduled[j][1] = scheduled[k][1] => j = k
        /\ \A k \in DOMAIN scheduled : k > sampled =>
             status[scheduled[k][1]] = "RUNNING" /\ scheduled[k][2] > 0
        /\ \A r \in SeqId : status[r] = "RUNNING" =>
             /\ Covered(r)
             /\ \/ Behind(r)
                \/ \E k \in DOMAIN scheduled : k > sampled /\ scheduled[k][1] = r
    BY <1>1 DEF Control, OfStep
  <2>2. \A k \in DOMAIN scheduled : k > sampled' => k > sampled
    BY <1>1, <1>2
  <2>3. ASSUME NEW r \in SeqId, status[r] = "RUNNING"
        PROVE  \/ Behind(r)
               \/ \E k \in DOMAIN scheduled : k > sampled' /\ scheduled[k][1] = r
    <3>1. CASE r = s
      <4>1. Len(table[r]) = CeilDiv(computed[r]) /\ computed[r] < Len(tokens[r])
        BY <2>1, <2>3, <3>1 DEF Covered, Discarded
      <4> QED BY <4>1 DEF Behind
    <3>2. CASE r # s
      <4>1. ASSUME NEW k \in DOMAIN scheduled, k > sampled, scheduled[k][1] = r
            PROVE  k > sampled'
        <5>1. k # sampled + 1
          BY <3>2, <4>1 DEF InHand
        <5> QED BY <1>1, <1>2, <4>1, <5>1
      <4> QED BY <2>1, <2>3, <4>1
    <3> QED BY <3>1, <3>2
  <2>4. /\ scheduled' = scheduled /\ status' = status /\ computed' = computed
        /\ tokens' = tokens /\ table' = table
    BY <1>1 DEF Quiet
  <2>5. \A r \in SeqId : (Covered(r)' <=> Covered(r)) /\ (Behind(r)' <=> Behind(r))
    BY <2>4 DEF Covered, Behind
  <2> QED BY <1>1, <2>1, <2>2, <2>3, <2>4, <2>5 DEF OfStep
<1>6. Between'
  BY <1>1 DEF Between
<1> QED BY <1>3, <1>4, <1>5, <1>6 DEF Control

LEMMA StepEndInv ==
  ASSUME IInv, StepEnd \/ StepRaises
  PROVE  IInv'
<1> USE DEF IInv
<1>1. /\ Quiet /\ pc = "post" /\ sampled = Len(scheduled) /\ sampled' = sampled
      /\ pc' \in {"step", "raised"}
  BY DEF StepEnd, StepRaises, Quiet, seqVars
<1>2. sampled \in Nat /\ scheduled \in Seq(SeqId \X Nat)
  BY DEF Types, TypeOK
<1>3. Types' /\ PoolInv' /\ Queues' /\ Lengths' /\ Scheduling' /\ Places'
  BY <1>1, <1>2, QuietInv
<1>4. Budget' /\ OfStep'
  BY <1>1 DEF Budget, OfStep
<1>5. Between'
  <2>1. \A k \in DOMAIN scheduled : ~(k > sampled)
    BY <1>1, <1>2
  <2>2. \A r \in SeqId : status[r] = "RUNNING" => Behind(r)
    BY <1>1, <2>1 DEF Control, OfStep
  <2> QED BY <1>1, <2>2 DEF Between, Behind, Quiet
<1> QED BY <1>3, <1>4, <1>5 DEF Control

-----------------------------------------------------------------------------
(* A sequence with one more entry at its end. *)
Appended(q, r, x) ==
  /\ Len(q) \in Nat /\ Len(r) = Len(q) + 1 /\ r[Len(q) + 1] = x
  /\ DOMAIN q = 1 .. Len(q) /\ DOMAIN r = 1 .. Len(q) + 1
  /\ \A k \in 1 .. Len(q) : r[k] = q[k]

LEMMA SeqAppend ==
  ASSUME NEW S, NEW q \in Seq(S), NEW x \in S, NEW r, r = Append(q, x)
  PROVE  r \in Seq(S) /\ Appended(q, r, x)
<1>1. r \in Seq(S) /\ Len(r) = Len(q) + 1 /\ Len(q) \in Nat
  OBVIOUS
<1>2. r[Len(q) + 1] = x /\ \A k \in 1 .. Len(q) : r[k] = q[k]
  OBVIOUS
<1>3. DOMAIN q = 1 .. Len(q) /\ DOMAIN r = 1 .. Len(q) + 1
  BY <1>1
<1> QED BY <1>1, <1>2, <1>3 DEF Appended

(* The sum of the chunks when one more is scheduled. *)
LEMMA TotalsPrefix ==
  ASSUME NEW q \in Seq(SeqId \X Nat), NEW r \in Seq(SeqId \X Nat), Len(q) <= Len(r),
         \A k \in 1 .. Len(q) : r[k] = q[k]
  PROVE  \A k \in 0 .. Len(q) : Totals(r)[k] = Totals(q)[k] /\ Totals(q)[k] \in Nat
<1> PICK m \in Nat, n \in Nat : m = Len(q) /\ n = Len(r)
  OBVIOUS
<1> PICK f, g : f = Totals(q) /\ g = Totals(r)
  OBVIOUS
<1>1. /\ f[0] = 0 /\ \A k \in 1 .. m : f[k] = f[k - 1] + q[k][2]
      /\ g[0] = 0 /\ \A k \in 1 .. n : g[k] = g[k - 1] + r[k][2]
  BY TotalsLoop
<1> DEFINE T == {k \in 0 .. m : ~(g[k] = f[k] /\ f[k] \in Nat)}
<1>2. ASSUME T # {} PROVE FALSE
  <2>0. T \subseteq Nat
    OBVIOUS
  <2> PICK k \in T : \A j \in T : k <= j
    <3> HIDE DEF T
    <3> QED BY <1>2, <2>0, LeastOf
  <2>1. k \in 0 .. m /\ ~(g[k] = f[k] /\ f[k] \in Nat)
    OBVIOUS
  <2>2. k # 0
    BY <1>1, <2>1
  <2>3. k - 1 \in 0 .. m /\ ~(k <= k - 1) /\ k \in 1 .. m /\ k \in 1 .. n
    BY <2>1, <2>2
  <2>4. k - 1 \notin T
    <3> HIDE DEF T
    <3> QED BY <2>3
  <2>5. g[k - 1] = f[k - 1] /\ f[k - 1] \in Nat
    BY <2>3, <2>4
  <2> HIDE DEF T
  <2>6. q[k] \in SeqId \X Nat /\ r[k] = q[k]
    BY <2>3
  <2>7. q[k][2] \in Nat
    BY <2>6
  <2>8. f[k] = f[k - 1] + q[k][2] /\ g[k] = g[k - 1] + q[k][2]
    BY <1>1, <2>3, <2>6
  <2> QED BY <2>1, <2>5, <2>7, <2>8
<1> QED BY <1>2

SumGrows(q, r, n) ==
  Totals(r)[Len(r)] = Totals(q)[Len(q)] + n /\ Totals(q)[Len(q)] \in Nat

LEMMA TotalsAppend ==
  ASSUME NEW q \in Seq(SeqId \X Nat), NEW s \in SeqId, NEW n \in Nat,
         NEW r, r = Append(q, <<s, n>>)
  PROVE  SumGrows(q, r, n)
<1> PICK m \in Nat : m = Len(q)
  OBVIOUS
<1>1. /\ r \in Seq(SeqId \X Nat) /\ Len(r) = m + 1 /\ r[m + 1] = <<s, n>>
      /\ \A k \in 1 .. m : r[k] = q[k]
  OBVIOUS
<1>2. Totals(r)[m] = Totals(q)[m] /\ Totals(q)[m] \in Nat
  <2>1. m \in 0 .. Len(q) /\ Len(q) <= Len(r)
    BY <1>1
  <2> QED BY <1>1, <2>1, TotalsPrefix
<1>3. Totals(r)[m + 1] = Totals(r)[m] + r[m + 1][2]
  <2>1. m + 1 \in 1 .. Len(r) /\ (m + 1) - 1 = m
    BY <1>1
  <2>2. Totals(r)[m + 1] = Totals(r)[(m + 1) - 1] + r[m + 1][2]
    BY <1>1, <2>1, TotalsLoop
  <2> QED BY <2>1, <2>2
<1> QED BY <1>1, <1>2, <1>3 DEF SumGrows

(* The chunk of a sequence that is behind. *)
LEMMA NextChunk ==
  ASSUME TypeOK, NEW s \in SeqId, Behind(s), budget > 0,
         NEW n, n = num_new_tokens(s)
  PROVE  /\ n \in Nat /\ n > 0 /\ n <= budget /\ budget - n \in 0 .. MaxNumBatchedTokens
         /\ computed[s] + n <= Len(tokens[s]) /\ Len(table[s]) <= CeilDiv(computed[s] + n)
<1> PICK c, l, b : c = computed[s] /\ l = Len(tokens[s]) /\ b = budget
  OBVIOUS
<1>1. c \in Nat /\ l \in Nat /\ b \in Nat /\ b > 0 /\ c < l /\ b <= MaxNumBatchedTokens
      /\ Len(table[s]) = CeilDiv(c)
  BY Sizes DEF TypeOK, Behind
<1>2. n = IF l - c <= b THEN l - c ELSE b
  BY DEF num_new_tokens
<1>3. n \in Nat /\ n > 0 /\ n <= b /\ b - n \in 0 .. MaxNumBatchedTokens /\ c + n <= l
  BY ONLY <1>1, <1>2, Sizes
<1>4. CeilDiv(c) <= CeilDiv(c + n)
  <2>1. c + n \in Nat /\ c <= c + n
    BY <1>1, <1>3
  <2> QED BY <1>1, <2>1, CeilDivMonotone
<1> QED BY <1>1, <1>3, <1>4

LEMMA Ids ==
  SeqId \subseteq Nat /\ Cardinality(SeqId) \in Nat /\ SeqId = 1 .. Cardinality(SeqId)
<1>1. Cardinality(SeqId) \in Nat /\ SeqId = 1 .. Cardinality(SeqId)
  BY ChunkedAssumption, FS_CardinalityType
<1> PICK n : n = Cardinality(SeqId)
  OBVIOUS
<1>2. n \in Nat /\ 1 .. n \subseteq Nat
  BY <1>1
<1> QED BY <1>1, <1>2

(* The entries of the queues are sequences of their status, in order. *)
LEMMA RunningFacts ==
  ASSUME TypeOK, Queues
  PROVE  /\ \A k \in DOMAIN running : running[k] \in SeqId /\ status[running[k]] = "RUNNING"
         /\ \A k \in DOMAIN waiting : waiting[k] \in SeqId /\ status[waiting[k]] = "WAITING"
         /\ \A j, k \in DOMAIN running : j # k => running[j] # running[k]
         /\ DOMAIN running = 1 .. Len(running) /\ Len(running) \in Nat
         /\ DOMAIN waiting = 1 .. Len(waiting) /\ Len(waiting) \in Nat
<1>1. running \in Seq(SeqId) /\ waiting \in Seq(SeqId)
  BY DEF TypeOK
<1>2. /\ DOMAIN running = 1 .. Len(running) /\ Len(running) \in Nat
      /\ DOMAIN waiting = 1 .. Len(waiting) /\ Len(waiting) \in Nat
      /\ \A k \in DOMAIN running : running[k] \in SeqId
      /\ \A k \in DOMAIN waiting : waiting[k] \in SeqId
  BY <1>1
<1>3. /\ \A k \in DOMAIN running : status[running[k]] = "RUNNING"
      /\ \A k \in DOMAIN waiting : status[waiting[k]] = "WAITING"
  BY <1>2 DEF Queues, Queued
<1>4. ASSUME NEW j \in DOMAIN running, NEW k \in DOMAIN running, j # k
      PROVE  running[j] # running[k]
  <2>1. running[j] \in Nat /\ running[k] \in Nat
    BY <1>2, Ids
  <2>2. running[j] \in Int /\ running[k] \in Int /\ j \in Int /\ k \in Int
    BY <1>2, <2>1
  <2>3. j < k => running[j] < running[k]
    BY DEF Queues, Ordered
  <2>4. k < j => running[k] < running[j]
    BY DEF Queues, Ordered
  <2> QED BY <1>4, <2>2, <2>3, <2>4
<1> QED BY <1>2, <1>3, <1>4

LEMMA ScheduleRunningInv ==
  ASSUME IInv, ScheduleRunning
  PROVE  /\ IInv' /\ Prolonged
         /\ \A e \in [Blocks -> Nat] : PoolOK(pool, table, e) => PoolOK(pool, table, e)'
<1> USE DEF IInv
<1> PICK s : s = running[index]
  OBVIOUS
<1> PICK n : n = num_new_tokens(s)
  OBVIOUS
<1>1. /\ pc = "running" /\ index <= Len(running) /\ budget > 0
      /\ allocate_slots(s, n) /\ scheduled' = Append(scheduled, <<s, n>>)
      /\ budget' = budget - n /\ index' = index + 1
      /\ tokens' = tokens /\ computed' = computed /\ status' = status /\ params' = params
      /\ waiting' = waiting /\ running' = running /\ sampled' = sampled /\ nextId' = nextId
      /\ pc' = pc
  BY DEF ScheduleRunning, InRunningLoop
<1>t. TypeOK /\ Queues /\ Lengths /\ Scheduling /\ Places /\ Budget
  BY DEF Types, Control
<1> PICK m \in Nat : m = Len(scheduled)
  BY <1>t DEF TypeOK
<1>2. /\ index = m + 1 /\ m + 1 \in DOMAIN running /\ s = running[m + 1] /\ s \in SeqId
      /\ status[s] = "RUNNING" /\ Behind(s)
  <2>1. index = m + 1
    BY <1>1, <1>t DEF Places
  <2>2. m + 1 \in DOMAIN running
    BY <1>1, <1>t, <2>1, RunningFacts
  <2>3. s \in SeqId /\ status[s] = "RUNNING"
    BY <1>t, <2>1, <2>2, RunningFacts
  <2>4. m + 1 > Len(scheduled)
    OBVIOUS
  <2>5. Behind(s)
    BY <1>1, <1>t, <2>1, <2>2, <2>4 DEF Scheduling
  <2> QED BY <2>1, <2>2, <2>3, <2>5
<1>3. /\ n \in Nat /\ n > 0 /\ n <= budget /\ budget - n \in 0 .. MaxNumBatchedTokens
      /\ computed[s] + n <= Len(tokens[s]) /\ Len(table[s]) <= CeilDiv(computed[s] + n)
  BY <1>1, <1>2, <1>t, NextChunk
<1>4. /\ Allocated(s, n)
      /\ \A e \in [Blocks -> Nat] : PoolOK(pool, table, e) => PoolOK(pool, table, e)'
  BY <1>1, <1>2, <1>3, <1>t, AllocateStep
<1>5. PoolInv' /\ Typed(pool)'
  BY <1>4, PoolInvNext DEF Allocated
<1>6. /\ scheduled \in Seq(SeqId \X Nat) /\ scheduled' \in Seq(SeqId \X Nat)
      /\ Len(scheduled') = m + 1 /\ scheduled'[m + 1] = <<s, n>>
      /\ DOMAIN scheduled' = 1 .. m + 1 /\ DOMAIN scheduled = 1 .. m
      /\ \A k \in 1 .. m : scheduled'[k] = scheduled[k]
  <2>1. scheduled \in Seq(SeqId \X Nat) /\ <<s, n>> \in SeqId \X Nat
    BY <1>2, <1>3, <1>t DEF TypeOK
  <2>2. scheduled' \in Seq(SeqId \X Nat) /\ Appended(scheduled, scheduled', <<s, n>>)
    BY <1>1, <2>1, SeqAppend
  <2> QED BY <2>1, <2>2 DEF Appended
<1>7. Types'
  <2>1. /\ table' \in [SeqId -> Seq(Blocks)] /\ last' \in [SeqId -> Seq(Token)]
        /\ scheduled' \in Seq(SeqId \X Nat) /\ budget' \in 0 .. MaxNumBatchedTokens
        /\ index' \in Nat
    BY <1>1, <1>2, <1>3, <1>4, <1>6 DEF Allocated
  <2>2. Rest'
    BY <1>1, <1>t, <2>1 DEF Rest, TypeOK
  <2> QED BY <1>1, <1>5, <2>2, TypeNext DEF Types
<1>8. Queues'
  BY <1>1, <1>t, QueuesSame
<1>9. Lengths'
  BY <1>1, <1>2, <1>4, <1>t DEF Lengths, Allocated
<1>10. \A t \in SeqId \ {s} : table'[t] = table[t]
  BY <1>4 DEF Allocated
<1>11. Scheduling'
  <2>1. ASSUME NEW k \in 1 .. m + 1
        PROVE  scheduled'[k][1] = running[k] /\ ChunkOK(scheduled[k][1], scheduled[k][2])'
    <3>1. CASE k = m + 1
      <4>1. scheduled'[k][1] = s /\ scheduled'[k][2] = n
        BY <1>6, <3>1
      <4>2. Len(table'[s]) = CeilDiv(computed[s] + n)
        BY <1>4 DEF Allocated
      <4> QED BY <1>1, <1>2, <1>3, <3>1, <4>1, <4>2 DEF ChunkOK
    <3>2. CASE k # m + 1
      <4>1. k \in 1 .. m
        BY <3>2
      <4>2. scheduled[k][1] = running[k] /\ ChunkOK(scheduled[k][1], scheduled[k][2])
        BY <1>1, <1>6, <1>t, <4>1 DEF Scheduling
      <4>3. k \in DOMAIN running /\ running[k] # s /\ running[k] \in SeqId
        BY <1>2, <1>t, <4>1, RunningFacts
      <4>4. table'[running[k]] = table[running[k]]
        BY <1>10, <4>3
      <4>5. scheduled'[k] = scheduled[k]
        BY <1>6, <4>1
      <4> QED BY <1>1, <4>2, <4>4, <4>5 DEF ChunkOK
    <3> QED BY <3>1, <3>2
  <2>2. ASSUME NEW k \in DOMAIN running, k > m + 1 PROVE Behind(running[k])'
    <3>1. k > Len(scheduled) /\ k # m + 1
      BY <1>t, <2>2, RunningFacts
    <3>2. Behind(running[k])
      BY <1>1, <1>t, <3>1 DEF Scheduling
    <3>3. running[k] # s /\ running[k] \in SeqId
      BY <1>2, <1>t, <3>1, RunningFacts
    <3>4. table'[running[k]] = table[running[k]]
      BY <1>10, <3>3
    <3> QED BY <1>1, <3>2, <3>4 DEF Behind
  <2>3. Len(scheduled') <= Len(running)
    BY <1>2, <1>6, <1>t, RunningFacts
  <2>4. running # << >> \/ waiting # << >>
    BY <1>1, <1>t DEF Scheduling
  <2> QED BY <1>1, <1>6, <2>1, <2>2, <2>3, <2>4 DEF Scheduling
<1>12. Places'
  BY <1>1, <1>2, <1>6 DEF Places
<1>13. Budget'
  <2>1. Totals(scheduled)[Len(scheduled)] + budget = MaxNumBatchedTokens
    BY <1>1, <1>t DEF Budget
  <2>2. /\ Totals(scheduled')[Len(scheduled')] = Totals(scheduled)[Len(scheduled)] + n
        /\ Totals(scheduled)[Len(scheduled)] \in Nat
    <3> PICK q, r : q = scheduled /\ r = scheduled'
      OBVIOUS
    <3>1. q \in Seq(SeqId \X Nat) /\ r = Append(q, <<s, n>>)
      BY <1>1, <1>6
    <3>2. SumGrows(q, r, n)
      BY <1>2, <1>3, <3>1, TotalsAppend
    <3> QED BY <3>2 DEF SumGrows
  <2>3. budget \in Nat
    BY <1>t, Sizes DEF TypeOK
  <2>4. Totals(scheduled')[Len(scheduled')] + budget' = MaxNumBatchedTokens
    BY <1>1, <1>3, <2>1, <2>2, <2>3
  <2> QED BY <2>4 DEF Budget
<1>14. OfStep' /\ Between'
  BY <1>1 DEF OfStep, Between
<1>15. Prolonged
  BY <1>2, <1>4, AllocatedProlongs
<1> QED BY <1>4, <1>5, <1>7, <1>8, <1>9, <1>11, <1>12, <1>13, <1>14, <1>15 DEF Control

-----------------------------------------------------------------------------
(* The line of the requests: one moves between the tail of running and the *)
(* head of waiting, and the line stays as it was.                          *)
Headed(w1, w2, h) ==
  /\ Len(w2) \in Nat /\ Len(w1) = Len(w2) + 1 /\ w1[1] = h
  /\ DOMAIN w2 = 1 .. Len(w2) /\ DOMAIN w1 = 1 .. Len(w2) + 1
  /\ \A k \in 1 .. Len(w2) : w2[k] = w1[k + 1]

LEMMA SeqTail ==
  ASSUME NEW S, NEW w1 \in Seq(S), w1 # << >>
  PROVE  Tail(w1) \in Seq(S) /\ Head(w1) \in S /\ Headed(w1, Tail(w1), Head(w1))
<1> PICK w2, h : w2 = Tail(w1) /\ h = Head(w1)
  OBVIOUS
<1>1. w2 \in Seq(S) /\ Len(w2) = Len(w1) - 1 /\ Len(w1) \in Nat /\ Len(w1) > 0 /\ h = w1[1] /\ h \in S
  OBVIOUS
<1>2. \A k \in 1 .. Len(w2) : w2[k] = w1[k + 1]
  BY <1>1
<1>3. DOMAIN w2 = 1 .. Len(w2) /\ DOMAIN w1 = 1 .. Len(w1) /\ Len(w1) = Len(w2) + 1
  BY <1>1
<1> QED BY <1>1, <1>2, <1>3 DEF Headed

LEMMA SeqCons ==
  ASSUME NEW S, NEW w2 \in Seq(S), NEW h \in S, NEW w1, w1 = <<h>> \o w2
  PROVE  w1 \in Seq(S) /\ Headed(w1, w2, h)
<1>1. w1 \in Seq(S) /\ Len(w1) = Len(w2) + 1 /\ Len(w2) \in Nat /\ w1[1] = h
  OBVIOUS
<1>2. ASSUME NEW k \in 1 .. Len(w2) PROVE w2[k] = w1[k + 1]
  OBVIOUS
<1>3. DOMAIN w2 = 1 .. Len(w2) /\ DOMAIN w1 = 1 .. Len(w2) + 1
  BY <1>1
<1> QED BY <1>1, <1>2, <1>3 DEF Headed

LEMMA SeqFront ==
  ASSUME NEW S, NEW r \in Seq(S), r # << >>
  PROVE  Front(r) \in Seq(S) /\ Last(r) \in S /\ Appended(Front(r), r, Last(r))
<1> PICK q, h : q = Front(r) /\ h = Last(r)
  OBVIOUS
<1> PICK n \in Nat : n = Len(r)
  OBVIOUS
<1>1. n > 0 /\ h = r[n] /\ q = SubSeq(r, 1, n - 1) /\ DOMAIN r = 1 .. n
  BY DEF Last, Front
<1>2. h \in S
  BY <1>1
<1>3. q \in Seq(S) /\ Len(q) = n - 1 /\ \A k \in 1 .. n - 1 : q[k] = r[k]
  BY <1>1
<1>4. DOMAIN q = 1 .. n - 1
  BY <1>3
<1>5. n - 1 \in Nat /\ (n - 1) + 1 = n
  BY <1>1
<1> QED BY <1>1, <1>2, <1>3, <1>4, <1>5 DEF Appended

LEMMA ShiftBack ==
  ASSUME NEW r1, NEW r2, NEW w1, NEW w2, NEW h, Appended(r1, r2, h), Headed(w1, w2, h),
         Ordered(r1, w1)
  PROVE  Ordered(r2, w2)
<1> PICK m \in Nat, n \in Nat : m = Len(r1) /\ n = Len(w2)
  BY DEF Appended, Headed
<1>1. /\ DOMAIN r1 = 1 .. m /\ DOMAIN r2 = 1 .. m + 1 /\ r2[m + 1] = h
      /\ \A k \in 1 .. m : r2[k] = r1[k]
      /\ DOMAIN w2 = 1 .. n /\ DOMAIN w1 = 1 .. n + 1 /\ w1[1] = h
      /\ \A k \in 1 .. n : w2[k] = w1[k + 1]
  BY DEF Appended, Headed
<1>2. /\ \A j, k \in 1 .. m : j < k => r1[j] < r1[k]
      /\ \A j, k \in 1 .. n + 1 : j < k => w1[j] < w1[k]
      /\ \A j \in 1 .. m, k \in 1 .. n + 1 : r1[j] < w1[k]
  BY <1>1 DEF Ordered
<1>3. ASSUME NEW j \in 1 .. m + 1, NEW k \in 1 .. m + 1, j < k PROVE r2[j] < r2[k]
  <2>1. j \in 1 .. m /\ r2[j] = r1[j]
    BY <1>1, <1>3
  <2>2. CASE k = m + 1
    <3>1. r2[k] = w1[1] /\ 1 \in 1 .. n + 1
      BY <1>1, <2>2
    <3> QED BY <1>2, <2>1, <3>1
  <2>3. CASE k # m + 1
    <3>1. k \in 1 .. m /\ r2[k] = r1[k]
      BY <1>1, <2>3
    <3> QED BY <1>2, <1>3, <2>1, <3>1
  <2> QED BY <2>2, <2>3
<1>4. ASSUME NEW j \in 1 .. n, NEW k \in 1 .. n, j < k PROVE w2[j] < w2[k]
  <2>1. j + 1 \in 1 .. n + 1 /\ k + 1 \in 1 .. n + 1 /\ j + 1 < k + 1
    BY <1>4
  <2> QED BY <1>1, <1>2, <2>1
<1>5. ASSUME NEW j \in 1 .. m + 1, NEW k \in 1 .. n PROVE r2[j] < w2[k]
  <2>1. w2[k] = w1[k + 1] /\ k + 1 \in 1 .. n + 1 /\ 1 \in 1 .. n + 1 /\ 1 < k + 1
    BY <1>1
  <2>2. CASE j = m + 1
    BY <1>1, <1>2, <2>1, <2>2
  <2>3. CASE j # m + 1
    <3>1. j \in 1 .. m /\ r2[j] = r1[j]
      BY <1>1, <2>3
    <3> QED BY <1>2, <2>1, <3>1
  <2> QED BY <2>2, <2>3
<1> QED BY <1>1, <1>3, <1>4, <1>5 DEF Ordered

LEMMA ShiftForth ==
  ASSUME NEW r1, NEW r2, NEW w1, NEW w2, NEW h, Appended(r1, r2, h), Headed(w1, w2, h),
         Ordered(r2, w2)
  PROVE  Ordered(r1, w1)
<1> PICK m \in Nat, n \in Nat : m = Len(r1) /\ n = Len(w2)
  BY DEF Appended, Headed
<1>1. /\ DOMAIN r1 = 1 .. m /\ DOMAIN r2 = 1 .. m + 1 /\ r2[m + 1] = h
      /\ \A k \in 1 .. m : r2[k] = r1[k]
      /\ DOMAIN w2 = 1 .. n /\ DOMAIN w1 = 1 .. n + 1 /\ w1[1] = h
      /\ \A k \in 1 .. n : w2[k] = w1[k + 1]
  BY DEF Appended, Headed
<1>2. /\ \A j, k \in 1 .. m + 1 : j < k => r2[j] < r2[k]
      /\ \A j, k \in 1 .. n : j < k => w2[j] < w2[k]
      /\ \A j \in 1 .. m + 1, k \in 1 .. n : r2[j] < w2[k]
  BY <1>1 DEF Ordered
<1>3. ASSUME NEW j \in 1 .. m PROVE r1[j] < h
  <2>1. j \in 1 .. m + 1 /\ m + 1 \in 1 .. m + 1 /\ j < m + 1
    OBVIOUS
  <2> QED BY <1>1, <1>2, <2>1
<1>4. \A j, k \in 1 .. m : j < k => r1[j] < r1[k]
  BY <1>1, <1>2
<1>5. ASSUME NEW k \in 1 .. n + 1, k # 1
      PROVE  k - 1 \in 1 .. n /\ w1[k] = w2[k - 1] /\ h < w1[k]
  <2>1. k - 1 \in 1 .. n /\ (k - 1) + 1 = k
    BY <1>5
  <2>2. w1[k] = w2[k - 1]
    BY <1>1, <2>1
  <2>3. m + 1 \in 1 .. m + 1
    OBVIOUS
  <2> QED BY <1>1, <1>2, <2>1, <2>2, <2>3
<1>6. ASSUME NEW j \in 1 .. n + 1, NEW k \in 1 .. n + 1, j < k PROVE w1[j] < w1[k]
  <2>0. k # 1
    BY <1>6
  <2>1. CASE j = 1
    BY <1>1, <1>5, <2>0, <2>1
  <2>2. CASE j # 1
    <3>1. j - 1 \in 1 .. n /\ w1[j] = w2[j - 1] /\ k - 1 \in 1 .. n /\ w1[k] = w2[k - 1]
      BY <1>5, <2>0, <2>2
    <3>2. j - 1 < k - 1
      BY <1>6
    <3> QED BY <1>2, <3>1, <3>2
  <2> QED BY <2>1, <2>2
<1>7. ASSUME NEW j \in 1 .. m, NEW k \in 1 .. n + 1 PROVE r1[j] < w1[k]
  <2>1. CASE k = 1
    BY <1>1, <1>3, <2>1
  <2>2. CASE k # 1
    <3>1. k - 1 \in 1 .. n /\ w1[k] = w2[k - 1]
      BY <1>5, <2>2
    <3>2. j \in 1 .. m + 1 /\ r2[j] = r1[j]
      BY <1>1
    <3> QED BY <1>2, <3>1, <3>2
  <2> QED BY <2>1, <2>2
<1> QED BY <1>1, <1>4, <1>6, <1>7 DEF Ordered

(* The one that moves is in no other place of the line. *)
LEMMA OnlyPlace ==
  ASSUME NEW r1 \in Seq(SeqId), NEW r2, NEW w1 \in Seq(SeqId), NEW w2, NEW h \in SeqId,
         Appended(r1, r2, h), Headed(w1, w2, h), Ordered(r1, w1)
  PROVE  /\ \A j \in DOMAIN r1 : r1[j] # h
         /\ \A k \in DOMAIN w2 : w2[k] # h
<1> PICK m \in Nat, n \in Nat : m = Len(r1) /\ n = Len(w2)
  BY DEF Appended, Headed
<1>1. /\ DOMAIN r1 = 1 .. m
      /\ DOMAIN w2 = 1 .. n /\ DOMAIN w1 = 1 .. n + 1 /\ w1[1] = h
      /\ \A k \in 1 .. n : w2[k] = w1[k + 1]
  BY DEF Appended, Headed
<1>2. h \in Int
  BY Ids
<1>3. ASSUME NEW j \in 1 .. m PROVE r1[j] # h
  <2>1. r1[j] \in SeqId /\ 1 \in DOMAIN w1
    BY <1>1
  <2>2. r1[j] < w1[1]
    BY <1>1, <2>1 DEF Ordered
  <2>3. r1[j] \in Int
    BY <2>1, Ids
  <2> QED BY <1>1, <1>2, <2>2, <2>3
<1>4. ASSUME NEW k \in 1 .. n PROVE w2[k] # h
  <2>1. k + 1 \in DOMAIN w1 /\ 1 \in DOMAIN w1 /\ 1 < k + 1
    BY <1>1
  <2>2. w1[k + 1] \in SeqId
    BY <2>1
  <2>3. w1[1] < w1[k + 1]
    BY <2>1 DEF Ordered
  <2>4. w1[k + 1] \in Int
    BY <2>2, Ids
  <2> QED BY <1>1, <1>2, <2>3, <2>4
<1> QED BY <1>1, <1>3, <1>4

Becomes(st, st2, h, v) == st2[h] = v /\ \A t \in SeqId \ {h} : st2[t] = st[t]

LEMMA QueuedShift ==
  ASSUME NEW r1 \in Seq(SeqId), NEW r2, NEW w1 \in Seq(SeqId), NEW w2, NEW h \in SeqId,
         Appended(r1, r2, h), Headed(w1, w2, h), Ordered(r1, w1),
         NEW st1, NEW st2, \/ Queued(st1, r1, w1) /\ Becomes(st1, st2, h, "RUNNING")
                           \/ Queued(st2, r2, w2) /\ Becomes(st2, st1, h, "WAITING")
  PROVE  (Queued(st1, r1, w1) => Queued(st2, r2, w2)) /\ (Queued(st2, r2, w2) => Queued(st1, r1, w1))
<1> PICK m \in Nat, n \in Nat : m = Len(r1) /\ n = Len(w2)
  BY DEF Appended, Headed
<1>1. /\ DOMAIN r1 = 1 .. m /\ DOMAIN r2 = 1 .. m + 1 /\ r2[m + 1] = h
      /\ \A k \in 1 .. m : r2[k] = r1[k]
      /\ DOMAIN w2 = 1 .. n /\ DOMAIN w1 = 1 .. n + 1 /\ w1[1] = h
      /\ \A k \in 1 .. n : w2[k] = w1[k + 1]
  BY DEF Appended, Headed
<1>2. /\ \A j \in 1 .. m : r1[j] # h
      /\ \A k \in 1 .. n : w2[k] # h
  BY <1>1, OnlyPlace, SMTT(30)
<1>3. \A s \in SeqId \ {h} : (\E j \in 1 .. m + 1 : r2[j] = s) <=> (\E j \in 1 .. m : r1[j] = s)
  <2> SUFFICES ASSUME NEW s \in SeqId \ {h}
               PROVE  (\E j \in 1 .. m + 1 : r2[j] = s) <=> (\E j \in 1 .. m : r1[j] = s)
    OBVIOUS
  <2>1. ASSUME NEW j \in 1 .. m + 1, r2[j] = s PROVE j \in 1 .. m /\ r1[j] = s
    BY <1>1, <2>1
  <2>2. ASSUME NEW j \in 1 .. m, r1[j] = s PROVE j \in 1 .. m + 1 /\ r2[j] = s
    BY <1>1, <2>2
  <2> QED BY <2>1, <2>2
<1>4. \A s \in SeqId \ {h} : (\E k \in 1 .. n + 1 : w1[k] = s) <=> (\E k \in 1 .. n : w2[k] = s)
  <2> SUFFICES ASSUME NEW s \in SeqId \ {h}
               PROVE  (\E k \in 1 .. n + 1 : w1[k] = s) <=> (\E k \in 1 .. n : w2[k] = s)
    OBVIOUS
  <2>1. ASSUME NEW k \in 1 .. n + 1, w1[k] = s PROVE k - 1 \in 1 .. n /\ w2[k - 1] = s
    <3>1. k # 1
      BY <1>1, <2>1
    <3>2. k - 1 \in 1 .. n /\ (k - 1) + 1 = k
      BY <3>1
    <3> QED BY <1>1, <2>1, <3>2
  <2>2. ASSUME NEW k \in 1 .. n, w2[k] = s PROVE k + 1 \in 1 .. n + 1 /\ w1[k + 1] = s
    BY <1>1, <2>2
  <2> QED BY <2>1, <2>2
<1>5. \A s \in SeqId \ {h} : st1[s] = st2[s]
  BY DEF Becomes
<1>6. ASSUME Queued(st1, r1, w1) PROVE Queued(st2, r2, w2)
  <2>0. st2[h] = "RUNNING"
    <3>1. CASE Becomes(st1, st2, h, "RUNNING")
      BY <3>1 DEF Becomes
    <3>2. CASE Queued(st2, r2, w2)
      <4>1. m + 1 \in 1 .. m + 1
        OBVIOUS
      <4> QED BY <1>1, <3>2, <4>1 DEF Queued
    <3> QED BY <3>1, <3>2
  <2>1. ASSUME NEW s \in SeqId PROVE st2[s] = "RUNNING" <=> \E j \in 1 .. m + 1 : r2[j] = s
    <3>1. CASE s = h
      <4>1. m + 1 \in 1 .. m + 1
        OBVIOUS
      <4> QED BY <1>1, <2>0, <3>1, <4>1
    <3>2. CASE s # h
      <4>1. st1[s] = "RUNNING" <=> \E j \in 1 .. m : r1[j] = s
        BY <1>1, <1>6 DEF Queued
      <4> QED BY <1>3, <1>5, <3>2, <4>1
    <3> QED BY <3>1, <3>2
  <2>2. ASSUME NEW s \in SeqId PROVE st2[s] = "WAITING" <=> \E k \in 1 .. n : w2[k] = s
    <3>1. CASE s = h
      BY <1>2, <2>0, <3>1
    <3>2. CASE s # h
      <4>1. st1[s] = "WAITING" <=> \E j \in 1 .. n + 1 : w1[j] = s
        BY <1>1, <1>6 DEF Queued
      <4> QED BY <1>4, <1>5, <3>2, <4>1
    <3> QED BY <3>1, <3>2
  <2> QED BY ONLY <1>1, <2>1, <2>2 DEF Queued
<1>7. ASSUME Queued(st2, r2, w2) PROVE Queued(st1, r1, w1)
  <2>0. st1[h] = "WAITING"
    <3>1. CASE Becomes(st2, st1, h, "WAITING")
      BY <3>1 DEF Becomes
    <3>2. CASE Queued(st1, r1, w1)
      <4>1. 1 \in 1 .. n + 1
        OBVIOUS
      <4> QED BY <1>1, <3>2, <4>1 DEF Queued
    <3> QED BY <3>1, <3>2
  <2>1. ASSUME NEW s \in SeqId PROVE st1[s] = "RUNNING" <=> \E j \in 1 .. m : r1[j] = s
    <3>1. CASE s = h
      BY <1>2, <2>0, <3>1
    <3>2. CASE s # h
      <4>1. st2[s] = "RUNNING" <=> \E j \in 1 .. m + 1 : r2[j] = s
        BY <1>1, <1>7 DEF Queued
      <4> QED BY <1>3, <1>5, <3>2, <4>1
    <3> QED BY <3>1, <3>2
  <2>2. ASSUME NEW s \in SeqId PROVE st1[s] = "WAITING" <=> \E k \in 1 .. n + 1 : w1[k] = s
    <3>1. CASE s = h
      <4>1. 1 \in 1 .. n + 1
        OBVIOUS
      <4> QED BY <1>1, <2>0, <3>1, <4>1
    <3>2. CASE s # h
      <4>1. st2[s] = "WAITING" <=> \E j \in 1 .. n : w2[j] = s
        BY <1>1, <1>7 DEF Queued
      <4> QED BY <1>4, <1>5, <3>2, <4>1
    <3> QED BY <3>1, <3>2
  <2> QED BY ONLY <1>1, <2>1, <2>2 DEF Queued
<1> QED BY <1>6, <1>7

-----------------------------------------------------------------------------
LEMMA AdmitInv ==
  ASSUME IInv, Admit
  PROVE  /\ IInv' /\ Prolonged
         /\ \A e \in [Blocks -> Nat] : PoolOK(pool, table, e) => PoolOK(pool, table, e)'
<1> USE DEF IInv
<1> PICK s : s = Head(waiting)
  OBVIOUS
<1> PICK n : n = num_new_tokens(s)
  OBVIOUS
<1>1. /\ pc = "waiting" /\ waiting # << >> /\ budget > 0 /\ Len(running) < MaxNumSeqs
      /\ allocate_slots(s, n) /\ scheduled' = Append(scheduled, <<s, n>>)
      /\ status' = [status EXCEPT ![s] = "RUNNING"]
      /\ running' = Append(running, s) /\ waiting' = Tail(waiting)
      /\ budget' = budget - n /\ index' = index
      /\ tokens' = tokens /\ computed' = computed /\ params' = params
      /\ sampled' = sampled /\ nextId' = nextId /\ pc' = pc
  BY DEF Admit, CanAdmit
<1>t. /\ TypeOK /\ Queues /\ Lengths /\ Scheduling /\ Places /\ Budget
      /\ running \in Seq(SeqId) /\ waiting \in Seq(SeqId)
  BY DEF Types, Control, TypeOK
<1>s. scheduled \in Seq(SeqId \X Nat)
  BY <1>t DEF TypeOK
<1> PICK m \in Nat : m = Len(scheduled)
  BY ONLY <1>s
<1>2. /\ s \in SeqId /\ waiting' \in Seq(SeqId) /\ Headed(waiting, waiting', s)
  <2>1. Tail(waiting) \in Seq(SeqId) /\ Headed(waiting, Tail(waiting), Head(waiting)) /\ Head(waiting) \in SeqId
    BY <1>1, <1>t, SeqTail
  <2> QED BY <1>1, <2>1
<1>3. running' \in Seq(SeqId) /\ Appended(running, running', s)
  <2>1. running \in Seq(SeqId) /\ s \in SeqId /\ running' = Append(running, s)
    BY <1>1, <1>2, <1>t
  <2> QED BY ONLY <2>1, SeqAppend
<1>4. Len(running) = m
  BY <1>1, <1>t DEF Places
<1>5. status[s] = "WAITING"
  <2>1. 1 \in DOMAIN waiting /\ waiting[1] = s
    BY <1>2 DEF Headed
  <2> QED BY <1>2, <1>t, <2>1, RunningFacts
<1>6. Behind(s)
  <2>1. computed[s] = 0 /\ table[s] = << >> /\ tokens[s] # << >>
    BY <1>2, <1>5, <1>t DEF Lengths
  <2>2. tokens[s] \in Seq(Token)
    BY <1>2, <1>t DEF TypeOK
  <2>3. Len(tokens[s]) > 0
    BY <2>1, <2>2
  <2> QED BY <2>1, <2>3, CeilDivZero DEF Behind
<1>7. /\ n \in Nat /\ n > 0 /\ n <= budget /\ budget - n \in 0 .. MaxNumBatchedTokens
      /\ computed[s] + n <= Len(tokens[s]) /\ Len(table[s]) <= CeilDiv(computed[s] + n)
  BY <1>1, <1>2, <1>6, <1>t, NextChunk
<1>8. /\ Allocated(s, n)
      /\ \A e \in [Blocks -> Nat] : PoolOK(pool, table, e) => PoolOK(pool, table, e)'
  BY <1>1, <1>2, <1>7, <1>t, AllocateStep
<1>9. PoolInv' /\ Typed(pool)'
  BY <1>8, PoolInvNext DEF Allocated
<1>10. scheduled' \in Seq(SeqId \X Nat) /\ Appended(scheduled, scheduled', <<s, n>>)
  <2>1. scheduled \in Seq(SeqId \X Nat) /\ <<s, n>> \in SeqId \X Nat
    BY <1>2, <1>7, <1>t DEF TypeOK
  <2> QED BY <1>1, <2>1, SeqAppend
<1>11. Becomes(status, status', s, "RUNNING") /\ status' \in [SeqId -> {"none", "WAITING", "RUNNING", "FINISHED"}]
  BY <1>1, <1>2, <1>t DEF TypeOK, Becomes
<1>12. Types'
  <2>1. /\ table' \in [SeqId -> Seq(Blocks)] /\ last' \in [SeqId -> Seq(Token)]
        /\ budget' \in 0 .. MaxNumBatchedTokens
    BY <1>1, <1>7, <1>8 DEF Allocated
  <2>2. Rest'
    BY <1>1, <1>2, <1>3, <1>10, <1>11, <1>t, <2>1 DEF Rest, TypeOK
  <2> QED BY <1>1, <1>9, <2>2, TypeNext DEF Types
<1>13. Queues'
  <2>0. Ordered(running, waiting) /\ Queued(status, running, waiting)
    BY <1>t DEF Queues
  <2>1. Ordered(running', waiting')
    BY <1>2, <1>3, <2>0, ShiftBack
  <2>2. Queued(status', running', waiting')
    BY <1>2, <1>3, <1>11, <1>t, <2>0, QueuedShift
  <2>3. Len(running') <= MaxNumSeqs
    BY <1>1, <1>3, Sizes DEF Appended
  <2>4. \A t \in SeqId : status'[t] = "none" <=> t >= nextId
    BY <1>2, <1>5, <1>11, <1>t DEF Queues, Becomes
  <2> QED BY <1>1, <2>1, <2>2, <2>3, <2>4 DEF Queues, Ordered, Queued
<1>14. \A t \in SeqId \ {s} : table'[t] = table[t]
  BY <1>8 DEF Allocated
<1>15. Lengths'
  BY <1>1, <1>2, <1>5, <1>11, <1>14, <1>t DEF Lengths, Becomes
<1>16. /\ DOMAIN scheduled' = 1 .. m + 1 /\ DOMAIN running' = 1 .. m + 1
       /\ Len(scheduled') = m + 1 /\ Len(running') = m + 1
       /\ scheduled'[m + 1] = <<s, n>> /\ running'[m + 1] = s
       /\ \A k \in 1 .. m : scheduled'[k] = scheduled[k] /\ running'[k] = running[k]
       /\ DOMAIN scheduled = 1 .. m
  BY <1>3, <1>4, <1>10 DEF Appended
<1>17. Scheduling'
  <2>1. ASSUME NEW k \in 1 .. m + 1
        PROVE  scheduled'[k][1] = running'[k] /\ ChunkOK(scheduled[k][1], scheduled[k][2])'
    <3>1. CASE k = m + 1
      <4>1. scheduled'[k][1] = s /\ scheduled'[k][2] = n
        BY <1>16, <3>1
      <4>2. Len(table'[s]) = CeilDiv(computed[s] + n)
        BY <1>8 DEF Allocated
      <4> QED BY <1>1, <1>7, <1>16, <3>1, <4>1, <4>2 DEF ChunkOK
    <3>2. CASE k # m + 1
      <4>1. k \in 1 .. m
        BY <3>2
      <4>2. scheduled[k][1] = running[k] /\ ChunkOK(scheduled[k][1], scheduled[k][2])
        BY <1>1, <1>16, <1>t, <4>1 DEF Scheduling
      <4>3. k \in DOMAIN running /\ running[k] \in SeqId /\ status[running[k]] = "RUNNING"
        BY <1>4, <1>t, <4>1, RunningFacts
      <4>4. table'[running[k]] = table[running[k]]
        BY <1>5, <1>14, <4>3
      <4>5. scheduled'[k] = scheduled[k] /\ running'[k] = running[k]
        BY <1>16, <4>1
      <4> QED BY <1>1, <4>2, <4>4, <4>5 DEF ChunkOK
    <3> QED BY <3>1, <3>2
  <2>2. \A k \in 1 .. m + 1 : ~(k > m + 1)
    OBVIOUS
  <2>3. running' # << >>
    BY <1>16
  <2> QED BY <1>1, <1>16, <2>1, <2>2, <2>3 DEF Scheduling
<1>18. Places'
  BY <1>1, <1>16 DEF Places
<1>19. Budget'
  <2>1. Totals(scheduled)[Len(scheduled)] + budget = MaxNumBatchedTokens
    BY <1>1, <1>t DEF Budget
  <2>2. /\ Totals(scheduled')[Len(scheduled')] = Totals(scheduled)[Len(scheduled)] + n
        /\ Totals(scheduled)[Len(scheduled)] \in Nat
    <3> PICK q, r : q = scheduled /\ r = scheduled'
      OBVIOUS
    <3>1. q \in Seq(SeqId \X Nat) /\ r = Append(q, <<s, n>>)
      BY <1>1, <1>t DEF TypeOK
    <3>2. SumGrows(q, r, n)
      BY <1>2, <1>7, <3>1, TotalsAppend
    <3> QED BY <3>2 DEF SumGrows
  <2>3. budget \in Nat
    BY <1>t, Sizes DEF TypeOK
  <2>4. Totals(scheduled')[Len(scheduled')] + budget' = MaxNumBatchedTokens
    BY <1>1, <1>7, <2>1, <2>2, <2>3
  <2> QED BY <2>4 DEF Budget
<1>20. OfStep' /\ Between'
  BY <1>1 DEF OfStep, Between
<1>21. Prolonged
  BY <1>2, <1>8, AllocatedProlongs
<1> QED BY <1>8, <1>9, <1>12, <1>13, <1>15, <1>17, <1>18, <1>19, <1>20, <1>21 DEF Control

LEMMA PreemptInv ==
  ASSUME IInv, Preempt
  PROVE  IInv' /\ \E s \in SeqId : status[s] = "RUNNING" /\ status'[s] = "WAITING"
<1> USE DEF IInv
<1> PICK s : s = Last(running)
  OBVIOUS
<1>1. /\ pc = "running" /\ index <= Len(running)
      /\ deallocate(s, << >>) /\ scheduled' = scheduled
      /\ status' = [status EXCEPT ![s] = "WAITING"] /\ computed' = [computed EXCEPT ![s] = 0]
      /\ running' = Front(running) /\ waiting' = <<s>> \o waiting
      /\ budget' = budget /\ index' = index
      /\ tokens' = tokens /\ params' = params
      /\ sampled' = sampled /\ nextId' = nextId /\ pc' = pc
  BY DEF Preempt, InRunningLoop
<1>t. /\ TypeOK /\ Queues /\ Lengths /\ Scheduling /\ Places /\ Budget
      /\ running \in Seq(SeqId) /\ waiting \in Seq(SeqId)
      /\ table \in [SeqId -> Seq(Blocks)] /\ last \in [SeqId -> Seq(Token)]
      /\ computed \in [SeqId -> Nat]
  BY DEF Types, Control, TypeOK
<1>s. scheduled \in Seq(SeqId \X Nat)
  BY <1>t DEF TypeOK
<1> PICK m \in Nat : m = Len(scheduled)
  BY ONLY <1>s
<1>2. index = m + 1
  BY <1>1, <1>t DEF Places
<1>3. running # << >>
  BY <1>1, <1>2, <1>t
<1>4. s \in SeqId /\ running' \in Seq(SeqId) /\ Appended(running', running, s)
  <2>1. Front(running) \in Seq(SeqId) /\ Last(running) \in SeqId /\ Appended(Front(running), running, Last(running))
    BY <1>3, <1>t, SeqFront
  <2> QED BY <1>1, <2>1
<1>5. waiting' \in Seq(SeqId) /\ Headed(waiting', waiting, s)
  BY <1>1, <1>4, <1>t, SeqCons
<1>6. status[s] = "RUNNING"
  <2>1. Len(running) \in DOMAIN running /\ running[Len(running)] = s
    BY <1>4 DEF Appended
  <2> QED BY <1>t, <2>1, RunningFacts
<1>7. /\ pool' = pool /\ table' = TabOf(s, << >>) /\ last' = [last EXCEPT ![s] = NoHash]
  <2>1. /\ pool' = Returned(<< >>)[Len(<< >>)]
        /\ table' = [table EXCEPT ![s] = << >>] /\ last' = [last EXCEPT ![s] = NoHash]
    BY <1>1 DEF deallocate
  <2>2. Returned(<< >>)[0] = pool
    <3>1. << >> \in Seq(Blocks)
      OBVIOUS
    <3> QED BY <3>1, ReturnedLoop
  <2> QED BY <2>1, <2>2 DEF TabOf
<1>8. /\ table' \in [SeqId -> Seq(Blocks)] /\ table'[s] = << >>
      /\ \A t \in SeqId \ {s} : table'[t] = table[t]
  BY <1>4, <1>7, <1>t DEF TabOf
<1>9. PoolInv' /\ Typed(pool)'
  <2>1. PICK e \in [Blocks -> Nat] : PoolOK(pool, table, e)
    BY DEF PoolInv
  <2>2. PICK d \in [Blocks -> Nat] : PoolOK(pool, TabOf(s, << >>), d)
    BY <1>4, <1>t, <2>1, ClearedKeeps
  <2>3. PoolOK(pool', table', d)
    BY <1>7, <2>2
  <2>4. PoolOK(pool, table, d)'
    BY <1>1, <2>3, SameTokens
  <2>5. DOMAIN pool' = PoolFields
    BY <1>7 DEF PoolInv
  <2>6. Typed(pool)'
    BY <2>4 DEF PoolOK
  <2> QED BY <2>4, <2>5, <2>6 DEF PoolInv
<1>10. /\ Becomes(status, status', s, "WAITING")
       /\ status' \in [SeqId -> {"none", "WAITING", "RUNNING", "FINISHED"}]
  BY <1>1, <1>4, <1>t DEF TypeOK, Becomes
<1>11. /\ computed' \in [SeqId -> Nat] /\ computed'[s] = 0
       /\ \A t \in SeqId \ {s} : computed'[t] = computed[t]
       /\ last' \in [SeqId -> Seq(Token)]
  BY <1>1, <1>4, <1>7, <1>t DEF NoHash
<1>12. Types'
  <2>1. Rest'
    BY <1>1, <1>4, <1>5, <1>8, <1>10, <1>11, <1>t DEF Rest, TypeOK
  <2> QED BY <1>1, <1>9, <2>1, TypeNext DEF Types
<1>13. Queues'
  <2>0. Ordered(running, waiting) /\ Queued(status, running, waiting)
    BY <1>t DEF Queues
  <2>1. Ordered(running', waiting')
    BY <1>4, <1>5, <2>0, ShiftForth
  <2>2. Queued(status', running', waiting')
    <3> PICK st1, st2, r1, r2, w1, w2 :
          /\ st1 = status' /\ st2 = status /\ r1 = running' /\ r2 = running
          /\ w1 = waiting' /\ w2 = waiting
      OBVIOUS
    <3>1. /\ Appended(r1, r2, s) /\ Headed(w1, w2, s) /\ Ordered(r1, w1) /\ s \in SeqId
          /\ Becomes(st2, st1, s, "WAITING") /\ Queued(st2, r2, w2)
          /\ r1 \in Seq(SeqId) /\ w1 \in Seq(SeqId)
      BY <1>4, <1>5, <1>10, <1>t, <2>0, <2>1
    <3>2. Queued(st1, r1, w1)
      BY ONLY <3>1, QueuedShift, Ids
    <3> QED BY <3>2
  <2>3. Len(running') <= MaxNumSeqs
    BY <1>4, <1>t, Sizes DEF Appended, Queues
  <2>4. \A t \in SeqId : status'[t] = "none" <=> t >= nextId
    BY <1>4, <1>6, <1>10, <1>t DEF Queues, Becomes
  <2> QED BY <1>1, <2>1, <2>2, <2>3, <2>4 DEF Queues, Ordered, Queued
<1>14. Lengths'
  <2>1. /\ status'[s] = "WAITING" /\ \A t \in SeqId \ {s} : status'[t] = status[t]
    BY <1>10 DEF Becomes
  <2>2. ASSUME NEW t \in SeqId
        PROVE  /\ status'[t] # "RUNNING" => table'[t] = << >>
               /\ status'[t] = "none" => tokens[t] = << >> /\ computed'[t] = 0
               /\ status'[t] = "WAITING" => computed'[t] = 0
               /\ status'[t] \in {"WAITING", "RUNNING"} =>
                    tokens[t] # << >> /\ Len(tokens[t]) < params[t].prompt + params[t].max
    <3>0. Lengths
      BY <1>t
    <3>1. CASE t = s
      <4>1. tokens[s] # << >> /\ Len(tokens[s]) < params[s].prompt + params[s].max
        BY <1>4, <1>6, <3>0 DEF Lengths
      <4> QED BY <1>8, <1>11, <2>1, <3>1, <4>1
    <3>2. CASE t # s
      <4>1. status'[t] = status[t] /\ table'[t] = table[t] /\ computed'[t] = computed[t]
        BY <1>8, <1>11, <2>1, <3>2
      <4> QED BY <3>0, <4>1 DEF Lengths
    <3> QED BY <3>1, <3>2
  <2> QED BY <1>1, <2>2 DEF Lengths
<1> PICK l \in Nat : l = Len(running')
  BY <1>4
<1>15. /\ DOMAIN running' = 1 .. l /\ DOMAIN running = 1 .. l + 1 /\ running[l + 1] = s
       /\ \A k \in 1 .. l : running'[k] = running[k]
       /\ Len(running) = l + 1
  BY <1>4 DEF Appended
<1>16. ASSUME NEW k \in 1 .. l
       PROVE  /\ k \in DOMAIN running /\ running[k] \in SeqId /\ running'[k] = running[k]
              /\ computed'[running[k]] = computed[running[k]]
              /\ table'[running[k]] = table[running[k]]
  <2>1. k \in DOMAIN running /\ l + 1 \in DOMAIN running /\ k # l + 1
    BY <1>15
  <2>2. running[k] # s /\ running[k] \in SeqId
    <3>1. TypeOK /\ Queues
      BY <1>t
    <3>2. running[k] # running[l + 1] /\ running[k] \in SeqId
      BY ONLY <2>1, <3>1, RunningFacts
    <3> QED BY <1>15, <3>2
  <2> QED BY <1>8, <1>11, <1>15, <2>1, <2>2
<1>17. Scheduling'
  <2>0. m <= l /\ DOMAIN scheduled = 1 .. m
    BY <1>1, <1>2, <1>15, <1>t DEF TypeOK
  <2>1. ASSUME NEW k \in 1 .. m
        PROVE  scheduled[k][1] = running'[k] /\ ChunkOK(scheduled[k][1], scheduled[k][2])'
    <3>1. scheduled[k][1] = running[k] /\ ChunkOK(scheduled[k][1], scheduled[k][2])
      BY <1>1, <1>t, <2>0 DEF Scheduling
    <3>2. k \in 1 .. l
      BY <2>0
    <3> QED BY <1>1, <1>16, <3>1, <3>2 DEF ChunkOK
  <2>2. ASSUME NEW k \in 1 .. l, k > m PROVE Behind(running[k])'
    <3>1. Behind(running[k])
      BY <1>1, <1>15, <1>16, <1>t, <2>2 DEF Scheduling
    <3> QED BY <1>1, <1>16, <3>1 DEF Behind
  <2>3. waiting' # << >>
    BY <1>5 DEF Headed
  <2> QED BY <1>1, <1>15, <2>0, <2>1, <2>2, <2>3 DEF Scheduling
<1>18. Places' /\ Budget'
  BY <1>1, <1>t DEF Places, Budget
<1>19. OfStep' /\ Between'
  BY <1>1 DEF OfStep, Between
<1>20. \E r \in SeqId : status[r] = "RUNNING" /\ status'[r] = "WAITING"
  BY <1>4, <1>6, <1>10 DEF Becomes
<1> QED BY <1>9, <1>12, <1>13, <1>14, <1>17, <1>18, <1>19, <1>20 DEF Control

-----------------------------------------------------------------------------
(* The end of schedule: every chunk is added to its sequence, once. *)
Unique(q) == \A j, k \in DOMAIN q : q[j][1] = q[k][1] => j = k
AdvancedTo(q, c, f, k) ==
  /\ f \in [SeqId -> Nat]
  /\ \A j \in DOMAIN q : f[q[j][1]] = c[q[j][1]] + (IF j <= k THEN q[j][2] ELSE 0)
  /\ \A t \in SeqId : (\A j \in DOMAIN q : q[j][1] # t) => f[t] = c[t]

LEMMA OneAdvanced ==
  ASSUME NEW q \in Seq(SeqId \X Nat), Unique(q), NEW c \in [SeqId -> Nat], NEW f, NEW g,
         NEW k \in 1 .. Len(q), AdvancedTo(q, c, f, k - 1),
         g = [f EXCEPT ![q[k][1]] = @ + q[k][2]]
  PROVE  AdvancedTo(q, c, g, k)
<1>1. f \in [SeqId -> Nat] /\ DOMAIN q = 1 .. Len(q) /\ Len(q) \in Nat /\ k \in Nat /\ k \in DOMAIN q
  BY DEF AdvancedTo
<1>2. \A j \in DOMAIN q : q[j][1] \in SeqId /\ q[j][2] \in Nat
  <2> SUFFICES ASSUME NEW j \in DOMAIN q PROVE q[j][1] \in SeqId /\ q[j][2] \in Nat
    OBVIOUS
  <2>1. q[j] \in SeqId \X Nat
    BY <1>1
  <2> QED BY <2>1
<1> PICK h \in SeqId, n \in Nat : h = q[k][1] /\ n = q[k][2]
  BY <1>1, <1>2
<1>3. g \in [SeqId -> Nat] /\ g[h] = f[h] + n /\ \A t \in SeqId \ {h} : g[t] = f[t]
  BY <1>1
<1>4. ASSUME NEW j \in DOMAIN q
      PROVE  g[q[j][1]] = c[q[j][1]] + (IF j <= k THEN q[j][2] ELSE 0)
  <2>1. f[q[j][1]] = c[q[j][1]] + (IF j <= k - 1 THEN q[j][2] ELSE 0)
    BY DEF AdvancedTo
  <2>2. CASE j = k
    <3>1. ~(j <= k - 1) /\ j <= k
      BY <1>1, <2>2
    <3>2. f[h] = c[h] + 0 /\ c[h] \in Nat
      <4>1. c[h] \in Nat
        BY ONLY c \in [SeqId -> Nat], h \in SeqId
      <4>2. q[j][1] = h
        BY ONLY <2>2, h = q[k][1]
      <4>3. f[h] = c[h] + 0
        BY ONLY <2>1, <4>2, <3>1
      <4> QED BY ONLY <4>1, <4>3
    <3>3. g[h] = c[h] + n
      BY <1>3, <3>2
    <3> QED BY ONLY <2>2, <3>1, <3>3, h = q[k][1], n = q[k][2]
  <2>3. CASE j # k
    <3>1. q[j][1] # h /\ q[j][1] \in SeqId
      BY <1>1, <1>2, <2>3 DEF Unique
    <3>2. g[q[j][1]] = f[q[j][1]]
      BY <1>3, <3>1
    <3>3. j <= k - 1 <=> j <= k
      <4>1. j \in Nat /\ k \in Nat
        BY <1>1
      <4>2. \A x \in Nat, y \in Nat : x # y => (x <= y - 1 <=> x <= y)
        BY ONLY TRUE
      <4> QED BY ONLY <4>1, <4>2, <2>3
    <3> QED BY <2>1, <3>2, <3>3
  <2> QED BY <2>2, <2>3
<1>5. ASSUME NEW t \in SeqId, \A j \in DOMAIN q : q[j][1] # t PROVE g[t] = c[t]
  <2>1. t # h
    BY <1>1, <1>5
  <2> QED BY <1>3, <1>5, <2>1 DEF AdvancedTo
<1> QED BY <1>3, <1>4, <1>5 DEF AdvancedTo

LEMMA AllAdvanced ==
  ASSUME scheduled \in Seq(SeqId \X Nat), computed \in [SeqId -> Nat], Unique(scheduled)
  PROVE  AdvancedTo(scheduled, computed, Advanced[Len(scheduled)], Len(scheduled))
<1> PICK f : f = Advanced
  OBVIOUS
<1> PICK q \in Seq(SeqId \X Nat), c \in [SeqId -> Nat] : q = scheduled /\ c = computed
  OBVIOUS
<1> PICK m \in Nat : m = Len(q)
  OBVIOUS
<1>1. /\ f[0] = c /\ \A k \in 1 .. m : f[k] = [f[k - 1] EXCEPT ![q[k][1]] = @ + q[k][2]]
      /\ Unique(q)
  BY AdvancedLoop
<1> DEFINE T == {k \in 0 .. m : ~AdvancedTo(q, c, f[k], k)}
<1>2. AdvancedTo(q, c, f[0], 0)
  <2>1. ASSUME NEW j \in DOMAIN q PROVE c[q[j][1]] = c[q[j][1]] + (IF j <= 0 THEN q[j][2] ELSE 0)
    <3>1. ~(j <= 0) /\ q[j] \in SeqId \X Nat
      OBVIOUS
    <3>2. q[j][1] \in SeqId
      BY <3>1
    <3>3. c[q[j][1]] \in Nat
      BY <3>2
    <3> QED BY <3>1, <3>3
  <2> QED BY <1>1, <2>1 DEF AdvancedTo
<1>3. ASSUME T # {} PROVE FALSE
  <2>0. T \subseteq Nat
    OBVIOUS
  <2> PICK k \in T : \A j \in T : k <= j
    <3> HIDE DEF T
    <3> QED BY <1>3, <2>0, LeastOf
  <2>1. k \in 0 .. m /\ ~AdvancedTo(q, c, f[k], k)
    OBVIOUS
  <2>2. k # 0
    BY <1>2, <2>1
  <2>3. k - 1 \in 0 .. m /\ ~(k <= k - 1) /\ k \in 1 .. m
    BY <2>1, <2>2
  <2>4. k - 1 \notin T
    <3> HIDE DEF T
    <3> QED BY <2>3
  <2>5. AdvancedTo(q, c, f[k - 1], k - 1)
    BY <2>3, <2>4
  <2> HIDE DEF T
  <2> PICK f1, f2 : f1 = f[k - 1] /\ f2 = f[k]
    OBVIOUS
  <2>6. f2 = [f1 EXCEPT ![q[k][1]] = @ + q[k][2]]
    BY <1>1, <2>3
  <2>7. AdvancedTo(q, c, f2, k)
    BY <1>1, <2>3, <2>5, <2>6, OneAdvanced
  <2> QED BY <2>1, <2>7
<1>4. m \in 0 .. m
  OBVIOUS
<1>5. AdvancedTo(q, c, f[m], m)
  BY <1>3, <1>4
<1> QED BY <1>5

Counted ==
  /\ \A j \in DOMAIN scheduled :
       computed'[scheduled[j][1]] = computed[scheduled[j][1]] + scheduled[j][2]
  /\ \A t \in SeqId : (\A j \in DOMAIN scheduled : scheduled[j][1] # t) => computed'[t] = computed[t]

LEMMA ScheduleEndInv ==
  ASSUME IInv, ScheduleEnd
  PROVE  IInv' /\ Counted
<1> USE DEF IInv
<1>1. /\ pc = "waiting" /\ pc' = "run" /\ computed' = Advanced[Len(scheduled)]
      /\ pool' = pool /\ tokens' = tokens /\ table' = table /\ last' = last
      /\ status' = status /\ params' = params
      /\ waiting' = waiting /\ running' = running /\ sampled' = sampled /\ nextId' = nextId
      /\ scheduled' = scheduled /\ budget' = budget /\ index' = index
  BY DEF ScheduleEnd
<1>t. /\ TypeOK /\ Queues /\ Lengths /\ Scheduling /\ Places /\ Budget
      /\ scheduled \in Seq(SeqId \X Nat) /\ computed \in [SeqId -> Nat]
  BY DEF Types, Control, TypeOK
<1> PICK m \in Nat : m = Len(scheduled)
  BY <1>t
<1>2. DOMAIN scheduled = 1 .. m /\ \A k \in 1 .. m : scheduled[k][1] \in SeqId /\ scheduled[k][2] \in Nat
  <2> SUFFICES ASSUME NEW k \in 1 .. m PROVE scheduled[k][1] \in SeqId /\ scheduled[k][2] \in Nat
    BY <1>t
  <2>1. scheduled[k] \in SeqId \X Nat
    BY <1>t
  <2> QED BY <2>1
<1>3. ASSUME NEW k \in 1 .. m
      PROVE  /\ k \in DOMAIN running /\ scheduled[k][1] = running[k]
             /\ status[scheduled[k][1]] = "RUNNING" /\ ChunkOK(scheduled[k][1], scheduled[k][2])
  <2>1. m <= Len(running) /\ scheduled[k][1] = running[k] /\ ChunkOK(scheduled[k][1], scheduled[k][2])
    BY <1>1, <1>2, <1>t DEF Scheduling
  <2>2. DOMAIN running = 1 .. Len(running) /\ Len(running) \in Nat
    BY <1>t, RunningFacts
  <2>3. k \in DOMAIN running
    BY <2>1, <2>2
  <2>4. status[running[k]] = "RUNNING"
    BY <1>t, <2>3, RunningFacts
  <2> QED BY <2>1, <2>3, <2>4
<1>4. Unique(scheduled)
  <2> SUFFICES ASSUME NEW j \in 1 .. m, NEW k \in 1 .. m, scheduled[j][1] = scheduled[k][1]
               PROVE  j = k
    BY <1>2 DEF Unique
  <2>1. running[j] = running[k] /\ j \in DOMAIN running /\ k \in DOMAIN running
    BY <1>3
  <2> QED BY <1>t, <2>1, RunningFacts
<1>5. /\ computed' \in [SeqId -> Nat]
      /\ \A j \in 1 .. m : computed'[scheduled[j][1]] = computed[scheduled[j][1]] + scheduled[j][2]
      /\ \A t \in SeqId : (\A j \in 1 .. m : scheduled[j][1] # t) => computed'[t] = computed[t]
  <2>1. AdvancedTo(scheduled, computed, computed', m)
    BY <1>1, <1>4, <1>t, AllAdvanced
  <2>2. \A j \in 1 .. m : j <= m
    OBVIOUS
  <2> QED BY <1>2, <2>1, <2>2 DEF AdvancedTo
<1>6. Types'
  <2>1. Typed(pool)'
    BY <1>1, PoolTypes DEF Typed
  <2>2. Rest'
    BY <1>1, <1>5, <1>t DEF Rest, TypeOK
  <2> QED BY <1>1, <2>1, <2>2, TypeNext DEF Types
<1>7. PoolInv'
  BY <1>1, PoolSameInv
<1>8. Queues'
  BY <1>1, <1>t, QueuesSame
<1>9. \A t \in SeqId : status[t] # "RUNNING" => computed'[t] = computed[t]
  BY <1>3, <1>5
<1>10. Lengths'
  BY <1>1, <1>9, <1>t DEF Lengths
<1>11. Scheduling' /\ Places' /\ Budget' /\ Between'
  BY <1>1, <1>t DEF Scheduling, Places, Budget, Between
<1>12. ASSUME NEW k \in 1 .. m
       PROVE  scheduled[k][2] > 0 /\ Covered(scheduled[k][1])'
  <2>1. ChunkOK(scheduled[k][1], scheduled[k][2])
    BY <1>3
  <2>2. computed'[scheduled[k][1]] = computed[scheduled[k][1]] + scheduled[k][2]
    BY <1>5
  <2> QED BY <1>1, <2>1, <2>2 DEF ChunkOK, Covered
<1>13. ASSUME NEW t \in SeqId, status[t] = "RUNNING", \A k \in 1 .. m : scheduled[k][1] # t
       PROVE  Behind(t)' /\ Covered(t)'
  <2>1. PICK j \in DOMAIN running : running[j] = t
    BY <1>13, <1>t DEF Queues, Queued
  <2>2. j \in Nat /\ j >= 1
    BY <1>t, RunningFacts
  <2>3. j > Len(scheduled)
    <3>1. j \notin 1 .. m
      BY <1>3, <1>13, <2>1
    <3> QED BY <2>2, <3>1
  <2>4. Behind(t)
    BY <1>1, <1>t, <2>1, <2>3 DEF Scheduling
  <2>5. computed'[t] = computed[t]
    BY <1>5, <1>13
  <2>6. Behind(t)'
    BY <1>1, <2>4, <2>5 DEF Behind
  <2>7. computed'[t] \in Nat /\ Len(tokens[t]) \in Nat
    BY <1>5, <1>t DEF TypeOK
  <2>8. computed'[t] < Len(tokens'[t]) /\ Len(table'[t]) = CeilDiv(computed'[t])
    BY <2>6 DEF Behind
  <2>9. Covered(t)'
    BY <1>1, <2>7, <2>8 DEF Covered
  <2> QED BY <2>6, <2>9
<1>14. OfStep'
  <2>1. ASSUME NEW t \in SeqId, status[t] = "RUNNING"
        PROVE  /\ Covered(t)'
               /\ Behind(t)' \/ \E k \in 1 .. m : scheduled[k][1] = t
    <3>1. CASE \E k \in 1 .. m : scheduled[k][1] = t
      BY <1>1, <1>12, <3>1 DEF Covered
    <3>2. CASE \A k \in 1 .. m : scheduled[k][1] # t
      BY <1>13, <2>1, <3>2
    <3> QED BY <3>1, <3>2
  <2>2. \A j, k \in 1 .. m : scheduled[j][1] = scheduled[k][1] => j = k
    BY <1>2, <1>4 DEF Unique
  <2> QED BY <1>1, <1>2, <1>3, <1>12, <2>1, <2>2 DEF OfStep
<1>15. Counted
  BY <1>2, <1>5 DEF Counted
<1> QED BY <1>6, <1>7, <1>8, <1>10, <1>11, <1>14, <1>15 DEF Control

-----------------------------------------------------------------------------
(* A full block stays what it is when tokens are appended. *)
FullBlocksStay ==
  \A r \in SeqId : \A i \in Nat : Len(block(r, i)) = BlockSize => block(r, i)' = block(r, i)

LEMMA SliceAppend ==
  ASSUME NEW q \in Seq(Token), NEW x \in Token, NEW a \in Nat, NEW b \in Nat, b <= Len(q)
  PROVE  SubSeq(Append(q, x), a + 1, b) = SubSeq(q, a + 1, b)
<1> PICK r : r = Append(q, x)
  OBVIOUS
<1>1. \A k \in 1 .. Len(q) : r[k] = q[k]
  OBVIOUS
<1>2. \A k \in 1 .. b - a : r[a + k] = q[a + k]
  BY <1>1
<1> QED BY <1>2

LEMMA BlocksStay ==
  ASSUME tokens \in [SeqId -> Seq(Token)], NEW s \in SeqId, NEW x \in Token,
         tokens' = [tokens EXCEPT ![s] = Append(@, x)]
  PROVE  FullBlocksStay
<1> SUFFICES ASSUME NEW r \in SeqId, NEW i \in Nat, Len(block(r, i)) = BlockSize
             PROVE  block(r, i)' = block(r, i)
  BY DEF FullBlocksStay
<1>1. (i + 1) * BlockSize <= Len(tokens[r])
  BY BlockOf
<1>2. block(r, i) = SubSeq(tokens[r], i * BlockSize + 1, (i + 1) * BlockSize)
  BY <1>1, BlockOf
<1>3. CASE r # s
  BY <1>3 DEF block
<1>4. CASE r = s
  <2> PICK lo \in Nat, hi \in Nat : lo = i * BlockSize /\ hi = (i + 1) * BlockSize
    <3>1. i + 1 \in Nat
      OBVIOUS
    <3> QED BY <3>1, Sizes
  <2> PICK q \in Seq(Token) : q = tokens[s]
    OBVIOUS
  <2>1. hi <= Len(q) /\ Len(Append(q, x)) = Len(q) + 1 /\ Len(q) \in Nat
    BY <1>1, <1>4
  <2>2. hi <= Len(Append(q, x))
    BY <2>1
  <2>3. block(r, i)' = Slice(Append(q, x), lo, hi)
    BY <1>4 DEF block
  <2>4. block(r, i)' = SubSeq(Append(q, x), lo + 1, hi)
    BY <2>2, <2>3 DEF Slice
  <2>5. block(r, i) = SubSeq(q, lo + 1, hi)
    BY <1>2, <1>4
  <2>6. SubSeq(Append(q, x), lo + 1, hi) = SubSeq(q, lo + 1, hi)
    <3>1. hi <= Len(q) /\ q \in Seq(Token) /\ x \in Token /\ lo \in Nat /\ hi \in Nat
      BY <2>1
    <3> QED BY ONLY <3>1, SliceAppend
  <2> QED BY <2>4, <2>5, <2>6
<1> QED BY <1>3, <1>4

LEMMA MoreTokens ==
  ASSUME FullBlocksStay, table' \in [SeqId -> Seq(Blocks)], NEW e, PoolOK(pool', table', e)
  PROVE  PoolOK(pool, table, e)'
<1>1. Typed(pool') /\ FreeOK(pool') /\ CountOK(pool', table', e) /\ NamesOK(pool', table')
  BY DEF PoolOK
<1>2. Typed(pool)'
  BY <1>1 DEF Typed
<1>3. FreeOK(pool)'
  BY <1>1 DEF FreeOK
<1>4. CountOK(pool, table, e)'
  BY <1>1 DEF CountOK
<1>5. ASSUME NEW r \in SeqId, NEW i \in DOMAIN table'[r] PROVE EntryOK(pool, table, r, i)'
  <2>1. EntryOK(pool', table', r, i)
    BY <1>1 DEF NamesOK
  <2> PICK b : b = table'[r][i]
    OBVIOUS
  <2>2. i - 1 \in Nat
    <3>1. table'[r] \in Seq(Blocks)
      OBVIOUS
    <3> QED BY <3>1
  <2>3. CASE pool'.hash[b] # NoHash
    <3>1. pool'.content[b] = block(r, i - 1) /\ Len(block(r, i - 1)) = BlockSize
      BY <2>1, <2>3 DEF EntryOK
    <3>2. block(r, i - 1)' = block(r, i - 1)
      BY <2>2, <3>1 DEF FullBlocksStay
    <3> QED BY <2>3, <3>1, <3>2 DEF EntryOK
  <2>4. CASE pool'.hash[b] = NoHash
    BY <2>1, <2>4 DEF EntryOK
  <2> QED BY <2>3, <2>4
<1>6. \A b \in Blocks : pool'.hash[b] = NoHash => pool'.content[b] = << >>
  BY <1>1 DEF NamesOK
<1>7. NamesOK(pool, table)'
  BY <1>5, <1>6 DEF NamesOK
<1> QED BY <1>2, <1>3, <1>4, <1>7 DEF PoolOK

-----------------------------------------------------------------------------
(* The sequence postprocess has in hand, and the others of the step. *)
LEMMA InHandFacts ==
  ASSUME TypeOK, OfStep, pc = "post", NEW s \in SeqId, InHand(s)
  PROVE  /\ status[s] = "RUNNING" /\ Covered(s)
         /\ ~Discarded(s) => computed[s] = Len(tokens[s])
<1>1. sampled \in Nat /\ scheduled \in Seq(SeqId \X Nat) /\ computed[s] \in Nat /\ Len(tokens[s]) \in Nat
  BY DEF TypeOK
<1>2. sampled + 1 \in DOMAIN scheduled /\ sampled + 1 > sampled /\ s = scheduled[sampled + 1][1]
  BY <1>1 DEF InHand
<1>3. status[s] = "RUNNING" /\ Covered(s)
  BY <1>2 DEF OfStep
<1> QED BY <1>1, <1>3 DEF Covered, Discarded

LEMMA OthersOfStep ==
  ASSUME TypeOK, OfStep, pc = "post", pc' = "post", NEW s \in SeqId, InHand(s),
         sampled' = sampled + 1, scheduled' = scheduled, computed' = computed,
         \A t \in SeqId \ {s} :
           status'[t] = status[t] /\ tokens'[t] = tokens[t] /\ table'[t] = table[t],
         status'[s] = "RUNNING" => Covered(s)' /\ Behind(s)'
  PROVE  OfStep'
<1>1. sampled \in Nat /\ scheduled \in Seq(SeqId \X Nat)
  BY DEF TypeOK
<1>2. sampled + 1 \in DOMAIN scheduled /\ s = scheduled[sampled + 1][1]
  BY <1>1 DEF InHand
<1>3. /\ \A j, k \in DOMAIN scheduled : scheduled[j][1] = scheduled[k][1] => j = k
      /\ \A k \in DOMAIN scheduled : k > sampled =>
           status[scheduled[k][1]] = "RUNNING" /\ scheduled[k][2] > 0
      /\ \A r \in SeqId : status[r] = "RUNNING" =>
           /\ Covered(r)
           /\ \/ Behind(r)
              \/ \E k \in DOMAIN scheduled : k > sampled /\ scheduled[k][1] = r
  BY DEF OfStep
<1>4. ASSUME NEW k \in DOMAIN scheduled, k > sampled + 1
      PROVE  status'[scheduled[k][1]] = "RUNNING" /\ scheduled[k][2] > 0
  <2>1. k > sampled /\ k # sampled + 1
    BY <1>1, <1>4
  <2>2. scheduled[k][1] # s
    BY <1>2, <1>3, <2>1
  <2>3. scheduled[k][1] \in SeqId
    <3>1. scheduled[k] \in SeqId \X Nat
      BY <1>1
    <3> QED BY <3>1
  <2>4. status'[scheduled[k][1]] = status[scheduled[k][1]]
    BY <2>2, <2>3
  <2> QED BY <1>3, <2>1, <2>4
<1>5. ASSUME NEW r \in SeqId, r # s, status'[r] = "RUNNING"
      PROVE  /\ Covered(r)'
             /\ \/ Behind(r)'
                \/ \E k \in DOMAIN scheduled : k > sampled + 1 /\ scheduled[k][1] = r
  <2>1. status[r] = "RUNNING" /\ tokens'[r] = tokens[r] /\ table'[r] = table[r]
    BY <1>5
  <2>2. (Covered(r)' <=> Covered(r)) /\ (Behind(r)' <=> Behind(r))
    BY <2>1 DEF Covered, Behind
  <2>3. ASSUME NEW k \in DOMAIN scheduled, k > sampled, scheduled[k][1] = r
        PROVE  k > sampled + 1
    <3>1. k # sampled + 1
      BY <1>2, <1>5, <2>3
    <3> QED BY <1>1, <2>3, <3>1
  <2> QED BY <1>3, <2>1, <2>2, <2>3
<1>6. ASSUME NEW r \in SeqId, status'[r] = "RUNNING"
      PROVE  /\ Covered(r)'
             /\ \/ Behind(r)'
                \/ \E k \in DOMAIN scheduled : k > sampled + 1 /\ scheduled[k][1] = r
  <2>1. CASE r = s
    BY <1>6, <2>1 DEF Covered, Behind
  <2>2. CASE r # s
    BY <1>5, <1>6, <2>2
  <2> QED BY <2>1, <2>2
<1> QED BY <1>3, <1>4, <1>6 DEF OfStep

LEMMA PostAppendInv ==
  ASSUME IInv, PostAppend
  PROVE  /\ IInv'
         /\ \A e \in [Blocks -> Nat] : PoolOK(pool, table, e) => PoolOK(pool, table, e)'
         /\ \A s \in SeqId : tokens'[s] # tokens[s] => computed[s] = Len(tokens[s])
<1> USE DEF IInv
<1> PICK s \in SeqId, x \in Token :
      /\ InHand(s) /\ ~Discarded(s) /\ ~Stops(s, Append(tokens[s], x))
      /\ tokens' = [tokens EXCEPT ![s] = Append(@, x)]
  BY DEF PostAppend
<1>1. /\ pc = "post" /\ pc' = "post" /\ sampled' = sampled + 1
      /\ pool' = pool /\ table' = table /\ last' = last
      /\ computed' = computed /\ status' = status /\ params' = params
      /\ waiting' = waiting /\ running' = running /\ nextId' = nextId
      /\ scheduled' = scheduled /\ budget' = budget /\ index' = index
  BY DEF PostAppend
<1>t. /\ TypeOK /\ Queues /\ Lengths /\ OfStep /\ Budget
      /\ tokens \in [SeqId -> Seq(Token)] /\ table \in [SeqId -> Seq(Blocks)]
      /\ computed \in [SeqId -> Nat] /\ sampled \in Nat
      /\ params[s].prompt \in Nat /\ params[s].max \in Nat
  BY DEF Types, Control, TypeOK
<1>2. status[s] = "RUNNING" /\ Covered(s) /\ computed[s] = Len(tokens[s])
  BY <1>1, <1>t, InHandFacts
<1> PICK q \in Seq(Token) : q = tokens[s]
  BY <1>t
<1>3. /\ tokens' \in [SeqId -> Seq(Token)] /\ tokens'[s] = Append(q, x)
      /\ \A t \in SeqId \ {s} : tokens'[t] = tokens[t]
      /\ Len(tokens'[s]) = Len(q) + 1 /\ tokens'[s] # << >> /\ Len(q) \in Nat
  <2>1. /\ tokens' \in [SeqId -> Seq(Token)] /\ tokens'[s] = Append(q, x)
        /\ \A t \in SeqId \ {s} : tokens'[t] = tokens[t]
    BY <1>t
  <2>2. Len(Append(q, x)) = Len(q) + 1 /\ Append(q, x) # << >> /\ Len(q) \in Nat
    OBVIOUS
  <2> QED BY <2>1, <2>2
<1>4. \A e \in [Blocks -> Nat] : PoolOK(pool, table, e) => PoolOK(pool, table, e)'
  <2> SUFFICES ASSUME NEW e \in [Blocks -> Nat], PoolOK(pool, table, e)
               PROVE  PoolOK(pool, table, e)'
    OBVIOUS
  <2>1. FullBlocksStay
    BY <1>t, BlocksStay
  <2>2. PoolOK(pool', table', e) /\ table' \in [SeqId -> Seq(Blocks)]
    BY <1>1, <1>t
  <2> QED BY <2>1, <2>2, MoreTokens
<1>5. PoolInv' /\ Typed(pool)'
  <2>1. DOMAIN pool' = PoolFields
    BY <1>1 DEF PoolInv
  <2> QED BY <1>4, <2>1, PoolInvNext
<1>6. Types'
  <2>0. tokens' \in [SeqId -> Seq(Token)] /\ sampled' \in Nat
    BY <1>1, <1>3, <1>t
  <2>1. Rest'
    BY <1>1, <1>t, <2>0 DEF Rest, TypeOK
  <2> QED BY <1>1, <1>5, <2>1, TypeNext DEF Types
<1>7. Queues'
  BY <1>1, <1>t, QueuesSame
<1>8. Lengths'
  <2>1. Len(q) + 1 < params[s].prompt + params[s].max
    <3> PICK p \in Nat, m \in Nat, l \in Nat : p = params[s].prompt /\ m = params[s].max /\ l = Len(q)
      BY <1>3, <1>t
    <3>1. l < p + m
      BY <1>2, <1>t DEF Lengths
    <3>2. Generated(s, Append(tokens[s], x)) # m
      <4>1. ~Stops(s, Append(tokens[s], x))
        OBVIOUS
      <4> QED BY ONLY <4>1, m = params[s].max DEF Stops
    <3>3. Generated(s, Append(tokens[s], x)) = (l + 1) - p
      BY <1>3 DEF Generated
    <3>4. l + 1 < p + m
      <4>1. (l + 1) - p # m
        BY <3>2, <3>3
      <4> QED BY ONLY <3>1, <4>1, l \in Nat, p \in Nat, m \in Nat
    <3> QED BY <3>4
  <2>2. ASSUME NEW t \in SeqId
        PROVE  /\ status[t] # "RUNNING" => table[t] = << >>
               /\ status[t] = "none" => tokens'[t] = << >> /\ computed[t] = 0
               /\ status[t] = "WAITING" => computed[t] = 0
               /\ status[t] \in {"WAITING", "RUNNING"} =>
                    tokens'[t] # << >> /\ Len(tokens'[t]) < params[t].prompt + params[t].max
    <3>0. Lengths
      BY <1>t
    <3>1. CASE t = s
      BY <1>2, <1>3, <2>1, <3>1
    <3>2. CASE t # s
      <4>1. tokens'[t] = tokens[t]
        BY <1>3, <3>2
      <4> QED BY <3>0, <4>1 DEF Lengths
    <3> QED BY <3>1, <3>2
  <2> QED BY <1>1, <2>2 DEF Lengths
<1>9. Scheduling' /\ Places' /\ Budget' /\ Between'
  BY <1>1, <1>t DEF Scheduling, Places, Budget, Between
<1>10. OfStep'
  <2>1. Covered(s)' /\ Behind(s)'
    <3>1. computed'[s] = Len(q) /\ Len(tokens'[s]) = Len(q) + 1 /\ Len(table'[s]) = CeilDiv(computed'[s])
      BY <1>1, <1>2, <1>3 DEF Covered
    <3>2. computed'[s] < Len(tokens'[s]) /\ computed'[s] <= Len(tokens'[s])
      BY <1>3, <3>1
    <3> QED BY <3>1, <3>2 DEF Covered, Behind
  <2> QED BY <1>1, <1>3, <1>t, <2>1, OthersOfStep
<1>11. \A t \in SeqId : tokens'[t] # tokens[t] => computed[t] = Len(tokens[t])
  BY <1>2, <1>3
<1> QED BY <1>4, <1>5, <1>6, <1>7, <1>8, <1>9, <1>10, <1>11 DEF Control

-----------------------------------------------------------------------------
(* A finished sequence leaves running. *)
Removed(q, r, n) ==
  /\ Len(q) \in Nat /\ DOMAIN q = 1 .. Len(q) /\ n \in 1 .. Len(q)
  /\ Len(r) = Len(q) - 1 /\ DOMAIN r = 1 .. Len(q) - 1
  /\ \A k \in 1 .. Len(q) - 1 : r[k] = IF k < n THEN q[k] ELSE q[k + 1]

LEMMA RemovedOne ==
  ASSUME NEW q \in Seq(SeqId), NEW s, NEW j \in DOMAIN q, q[j] = s, NEW r, r = RemoveEntry(q, s)
  PROVE  r \in Seq(SeqId) /\ \E n \in DOMAIN q : q[n] = s /\ Removed(q, r, n)
<1>1. s \in ToSet(q)
  BY DEF ToSet
<1>2. /\ r \in Seq(SeqId) /\ Len(r) = Len(q) - 1
      /\ \E n \in 1 .. Len(q) :
           q[n] = s /\ \A k \in 1 .. Len(q) - 1 : r[k] = IF k < n THEN q[k] ELSE q[k + 1]
  BY <1>1, Removal
<1>3. DOMAIN r = 1 .. Len(q) - 1 /\ DOMAIN q = 1 .. Len(q) /\ Len(q) \in Nat
  BY <1>2
<1> QED BY <1>2, <1>3 DEF Removed

LEMMA LeavesRunning ==
  ASSUME NEW q \in Seq(SeqId), NEW ws \in Seq(SeqId), NEW s \in SeqId, NEW r, NEW n \in DOMAIN q,
         q[n] = s, Removed(q, r, n), Ordered(q, ws), NEW st, NEW st2, Queued(st, q, ws),
         Becomes(st, st2, s, "FINISHED")
  PROVE  Ordered(r, ws) /\ Queued(st2, r, ws) /\ Len(r) <= Len(q)
<1> PICK m \in Nat : m = Len(q)
  BY DEF Removed
<1>1. /\ DOMAIN q = 1 .. m /\ DOMAIN r = 1 .. m - 1 /\ n \in 1 .. m /\ Len(r) = m - 1
      /\ \A k \in 1 .. m - 1 : r[k] = IF k < n THEN q[k] ELSE q[k + 1]
  BY DEF Removed
<1>2. /\ \A j, k \in 1 .. m : j < k => q[j] < q[k]
      /\ \A j, k \in DOMAIN ws : j < k => ws[j] < ws[k]
      /\ \A j \in 1 .. m, k \in DOMAIN ws : q[j] < ws[k]
  BY <1>1 DEF Ordered
<1>3. /\ \A k \in 1 .. m : q[k] \in Int
      /\ \A k \in DOMAIN ws : ws[k] \in Int
      /\ s \in Int
  <2>1. /\ \A k \in 1 .. m : q[k] \in SeqId
        /\ \A k \in DOMAIN ws : ws[k] \in SeqId
    BY <1>1
  <2> QED BY <2>1, Ids
<1>4. ASSUME NEW k \in 1 .. m - 1
      PROVE  \E i \in 1 .. m : i # n /\ i = (IF k < n THEN k ELSE k + 1) /\ r[k] = q[i]
  <2>1. CASE k < n
    BY <1>1, <2>1
  <2>2. CASE ~(k < n)
    BY <1>1, <2>2
  <2> QED BY <2>1, <2>2
<1>5. ASSUME NEW j \in 1 .. m - 1, NEW k \in 1 .. m - 1, j < k PROVE r[j] < r[k]
  <2> PICK a \in 1 .. m : a = (IF j < n THEN j ELSE j + 1) /\ r[j] = q[a]
    BY <1>4
  <2> PICK b \in 1 .. m : b = (IF k < n THEN k ELSE k + 1) /\ r[k] = q[b]
    BY <1>4
  <2>1. a < b
    BY <1>1, <1>5
  <2> QED BY <1>2, <2>1
<1>6. ASSUME NEW j \in 1 .. m - 1, NEW k \in DOMAIN ws PROVE r[j] < ws[k]
  BY <1>2, <1>4
<1>7. ASSUME NEW i \in 1 .. m, i # n PROVE q[i] # s
  BY <1>1, <1>2, <1>3, <1>7
<1>8. ASSUME NEW t \in SeqId, t # s
      PROVE  (\E k \in 1 .. m - 1 : r[k] = t) <=> (\E i \in 1 .. m : q[i] = t)
  <2>1. ASSUME NEW k \in 1 .. m - 1, r[k] = t PROVE \E i \in 1 .. m : q[i] = t
    BY <1>4, <2>1
  <2>2. ASSUME NEW i \in 1 .. m, q[i] = t PROVE \E k \in 1 .. m - 1 : r[k] = t
    <3>1. i # n
      BY <1>8, <2>2
    <3>2. CASE i < n
      <4>1. i \in 1 .. m - 1
        BY <1>1, <3>2
      <4> QED BY <1>1, <2>2, <3>2, <4>1
    <3>3. CASE ~(i < n)
      <4>1. i - 1 \in 1 .. m - 1 /\ ~(i - 1 < n) /\ (i - 1) + 1 = i
        BY <1>1, <3>1, <3>3
      <4> QED BY <1>1, <2>2, <4>1
    <3> QED BY <3>2, <3>3
  <2> QED BY <2>1, <2>2
<1>9. \A k \in 1 .. m - 1 : r[k] # s
  BY <1>4, <1>7
<1>10. \A k \in DOMAIN ws : ws[k] # s
  BY <1>1, <1>2, <1>3
<1>11. st2[s] = "FINISHED" /\ \A t \in SeqId \ {s} : st2[t] = st[t]
  BY DEF Becomes
<1>12. ASSUME NEW t \in SeqId
       PROVE  /\ st2[t] = "RUNNING" <=> \E j \in 1 .. m - 1 : r[j] = t
              /\ st2[t] = "WAITING" <=> \E j \in DOMAIN ws : ws[j] = t
  <2>1. CASE t = s
    BY <1>9, <1>10, <1>11, <2>1
  <2>2. CASE t # s
    <3>1. st2[t] = st[t]
      BY <1>11, <2>2
    <3>2. /\ st[t] = "RUNNING" <=> \E j \in 1 .. m : q[j] = t
          /\ st[t] = "WAITING" <=> \E j \in DOMAIN ws : ws[j] = t
      BY <1>1 DEF Queued
    <3> QED BY <1>8, <2>2, <3>1, <3>2
  <2> QED BY <2>1, <2>2
<1>13. Ordered(r, ws)
  BY <1>1, <1>2, <1>5, <1>6 DEF Ordered
<1>14. Queued(st2, r, ws)
  BY <1>1, <1>12 DEF Queued
<1> QED BY <1>1, <1>13, <1>14

LEMMA PostFinishInv ==
  ASSUME IInv, PostFinish
  PROVE  /\ IInv'
         /\ \A e \in [Blocks -> Nat] : PoolOK(pool, table, e) => PoolOK(pool, table, e)'
         /\ \A s \in SeqId : tokens'[s] # tokens[s] => computed[s] = Len(tokens[s])
<1> USE DEF IInv
<1> PICK s \in SeqId, x \in Token :
      /\ InHand(s) /\ ~Discarded(s)
      /\ tokens' = [tokens EXCEPT ![s] = Append(@, x)]
      /\ status' = [status EXCEPT ![s] = "FINISHED"]
      /\ deallocate(s, table[s])
      /\ running' = RemoveEntry(running, s)
  BY DEF PostFinish
<1>1. /\ pc = "post" /\ pc' = "post" /\ sampled' = sampled + 1
      /\ computed' = computed /\ params' = params
      /\ waiting' = waiting /\ nextId' = nextId
      /\ scheduled' = scheduled /\ budget' = budget /\ index' = index
  BY DEF PostFinish
<1>t. /\ TypeOK /\ Queues /\ Lengths /\ OfStep /\ Budget
      /\ tokens \in [SeqId -> Seq(Token)] /\ table \in [SeqId -> Seq(Blocks)]
      /\ computed \in [SeqId -> Nat] /\ sampled \in Nat /\ last \in [SeqId -> Seq(Token)]
      /\ status \in [SeqId -> {"none", "WAITING", "RUNNING", "FINISHED"}]
      /\ running \in Seq(SeqId) /\ waiting \in Seq(SeqId)
  BY DEF Types, Control, TypeOK
<1>2. status[s] = "RUNNING" /\ computed[s] = Len(tokens[s])
  BY <1>1, <1>t, InHandFacts
<1>3. /\ tokens' \in [SeqId -> Seq(Token)] /\ \A t \in SeqId \ {s} : tokens'[t] = tokens[t]
  BY <1>t
<1>4. /\ pool' = Returned(table[s])[Len(table[s])] /\ table' = TabOf(s, << >>)
      /\ last' = [last EXCEPT ![s] = NoHash]
  BY DEF deallocate, TabOf
<1>5. /\ table' \in [SeqId -> Seq(Blocks)] /\ table'[s] = << >>
      /\ \A t \in SeqId \ {s} : table'[t] = table[t]
  BY <1>4, <1>t DEF TabOf
<1>6. last' \in [SeqId -> Seq(Token)]
  BY <1>4, <1>t DEF NoHash
<1>7. DOMAIN pool = PoolFields
  BY DEF PoolInv
<1>8. ASSUME NEW e \in [Blocks -> Nat], PoolOK(pool, table, e)
      PROVE  DOMAIN pool' = PoolFields /\ PoolOK(pool, table, e)'
  <2> PICK p : p = Returned(table[s])[Len(table[s])]
    OBVIOUS
  <2>1. DOMAIN p = PoolFields /\ PoolOK(p, TabOf(s, << >>), e)
    BY <1>7, <1>8, <1>t, DeallocateKeeps
  <2>2. PoolOK(pool', table', e) /\ DOMAIN pool' = PoolFields
    BY <1>4, <2>1
  <2>3. FullBlocksStay
    BY <1>t, BlocksStay
  <2> QED BY <1>5, <2>2, <2>3, MoreTokens
<1>9. \A e \in [Blocks -> Nat] : PoolOK(pool, table, e) => PoolOK(pool, table, e)'
  BY <1>8
<1>10. PoolInv' /\ Typed(pool)'
  <2>1. PICK e \in [Blocks -> Nat] : PoolOK(pool, table, e)
    BY DEF PoolInv
  <2>2. DOMAIN pool' = PoolFields
    BY <1>8, <2>1
  <2> QED BY <1>9, <2>2, PoolInvNext
<1>11. /\ Becomes(status, status', s, "FINISHED")
       /\ status' \in [SeqId -> {"none", "WAITING", "RUNNING", "FINISHED"}]
  BY <1>t DEF Becomes
<1>12. PICK n0 \in DOMAIN running : running[n0] = s
  BY <1>2, <1>t DEF Queues, Queued
<1>13. running' \in Seq(SeqId) /\ \E n \in DOMAIN running : running[n] = s /\ Removed(running, running', n)
  BY <1>12, <1>t, RemovedOne
<1>14. Ordered(running', waiting) /\ Queued(status', running', waiting) /\ Len(running') <= Len(running)
  <2> PICK n \in DOMAIN running : running[n] = s /\ Removed(running, running', n)
    BY <1>13
  <2> PICK st, st2, q, r, ws : st = status /\ st2 = status' /\ q = running /\ r = running' /\ ws = waiting
    OBVIOUS
  <2>1. /\ q \in Seq(SeqId) /\ ws \in Seq(SeqId) /\ n \in DOMAIN q /\ q[n] = s /\ Removed(q, r, n)
        /\ Ordered(q, ws) /\ Queued(st, q, ws) /\ Becomes(st, st2, s, "FINISHED")
    BY <1>11, <1>t DEF Queues
  <2>2. Ordered(r, ws) /\ Queued(st2, r, ws) /\ Len(r) <= Len(q)
    BY ONLY <2>1, s \in SeqId, LeavesRunning
  <2> QED BY <2>2
<1>15. Queues'
  <2>1. Len(running') <= MaxNumSeqs
    <3>1. Len(running) <= MaxNumSeqs /\ Len(running) \in Nat /\ Len(running') \in Nat
      <4>1. running \in Seq(SeqId) /\ running' \in Seq(SeqId)
        BY <1>13, <1>t
      <4>2. Len(running) \in Nat /\ Len(running') \in Nat
        BY ONLY <4>1
      <4> QED BY <1>t, <4>2 DEF Queues
    <3> QED BY <1>14, <3>1, Sizes
  <2>2. \A t \in SeqId : status'[t] = "none" <=> t >= nextId
    BY <1>2, <1>11, <1>t DEF Queues, Becomes
  <2> QED BY <1>1, <1>14, <2>1, <2>2 DEF Queues, Ordered, Queued
<1>16. Types'
  <2>0. sampled' \in Nat
    BY <1>1, <1>t
  <2>1. Rest'
    BY <1>1, <1>3, <1>5, <1>6, <1>11, <1>13, <1>t, <2>0 DEF Rest, TypeOK
  <2> QED BY <1>1, <1>10, <2>1, TypeNext DEF Types
<1>17. Lengths'
  <2>1. status'[s] = "FINISHED" /\ \A t \in SeqId \ {s} : status'[t] = status[t]
    BY <1>11 DEF Becomes
  <2>2. ASSUME NEW t \in SeqId
        PROVE  /\ status'[t] # "RUNNING" => table'[t] = << >>
               /\ status'[t] = "none" => tokens'[t] = << >> /\ computed[t] = 0
               /\ status'[t] = "WAITING" => computed[t] = 0
               /\ status'[t] \in {"WAITING", "RUNNING"} =>
                    tokens'[t] # << >> /\ Len(tokens'[t]) < params[t].prompt + params[t].max
    <3>0. Lengths
      BY <1>t
    <3>1. CASE t = s
      BY <1>5, <2>1, <3>1
    <3>2. CASE t # s
      <4>1. tokens'[t] = tokens[t] /\ table'[t] = table[t] /\ status'[t] = status[t]
        BY <1>3, <1>5, <2>1, <3>2
      <4> QED BY <3>0, <4>1 DEF Lengths
    <3> QED BY <3>1, <3>2
  <2> QED BY <1>1, <2>2 DEF Lengths
<1>18. Scheduling' /\ Places' /\ Budget' /\ Between'
  BY <1>1, <1>t DEF Scheduling, Places, Budget, Between
<1>19. OfStep'
  <2>1. status'[s] # "RUNNING" /\ \A t \in SeqId \ {s} : status'[t] = status[t]
    BY <1>11 DEF Becomes
  <2> QED BY <1>1, <1>3, <1>5, <1>t, <2>1, OthersOfStep
<1>20. \A t \in SeqId : tokens'[t] # tokens[t] => computed[t] = Len(tokens[t])
  BY <1>2, <1>3
<1> QED BY <1>9, <1>10, <1>15, <1>16, <1>17, <1>18, <1>19, <1>20 DEF Control

-----------------------------------------------------------------------------
(* A request is added: the newest of the line, with its prompt. *)
LEMMA AddRequestInv ==
  ASSUME IInv, add_request
  PROVE  /\ IInv'
         /\ \A e \in [Blocks -> Nat] : PoolOK(pool, table, e) => PoolOK(pool, table, e)'
         /\ \A t \in SeqId : tokens'[t] # tokens[t] => tokens[t] = << >>
<1> USE DEF IInv
<1> PICK s : s = nextId
  OBVIOUS
<1> PICK p \in Prompts, m \in MaxTokens, g \in IgnoreEos :
      /\ tokens' = [tokens EXCEPT ![s] = p]
      /\ params' = [params EXCEPT ![s] = [prompt |-> Len(p), max |-> m, ignore |-> g]]
  BY DEF add_request
<1>1. /\ pc = "add" /\ status' = [status EXCEPT ![s] = "WAITING"]
      /\ waiting' = Append(waiting, s) /\ nextId' = s + 1
      /\ pc' = (IF s + 1 \in SeqId THEN "add" ELSE "step")
      /\ pool' = pool /\ table' = table /\ last' = last /\ computed' = computed
      /\ running' = running /\ scheduled' = scheduled /\ budget' = budget
      /\ index' = index /\ sampled' = sampled
  BY DEF add_request
<1>t. /\ TypeOK /\ Queues /\ Lengths
      /\ tokens \in [SeqId -> Seq(Token)] /\ table \in [SeqId -> Seq(Blocks)]
      /\ computed \in [SeqId -> Nat]
      /\ status \in [SeqId -> {"none", "WAITING", "RUNNING", "FINISHED"}]
      /\ running \in Seq(SeqId) /\ waiting \in Seq(SeqId)
      /\ DOMAIN params = SeqId
      /\ \A t \in SeqId : params[t].prompt \in Nat /\ params[t].max \in Nat
  BY DEF Types, Control, TypeOK
<1>2. /\ s \in SeqId /\ running = << >> /\ status[s] = "none" /\ s \in Nat
      /\ tokens[s] = << >> /\ computed[s] = 0 /\ table[s] = << >>
  <2>1. s \in SeqId /\ running = << >>
    BY <1>1, <1>t DEF Queues
  <2>2. s \in Nat
    BY <2>1, Ids
  <2>3. s >= nextId
    BY <2>2
  <2>4. status[s] = "none"
    BY <1>t, <2>1, <2>3 DEF Queues
  <2>5. tokens[s] = << >> /\ computed[s] = 0 /\ table[s] = << >>
    BY <1>t, <2>1, <2>4 DEF Lengths
  <2> QED BY <2>1, <2>2, <2>4, <2>5
<1>3. p \in Seq(Token) /\ p # << >> /\ m \in Nat /\ m >= 1 /\ Len(p) \in Nat
  BY ChunkedAssumption
<1>4. /\ tokens' \in [SeqId -> Seq(Token)] /\ tokens'[s] = p
      /\ \A t \in SeqId \ {s} : tokens'[t] = tokens[t]
  BY <1>2, <1>3, <1>t
<1>5. /\ DOMAIN params' = SeqId /\ params'[s].prompt = Len(p) /\ params'[s].max = m
      /\ \A t \in SeqId \ {s} : params'[t] = params[t]
  BY <1>2, <1>t
<1>6. FullBlocksStay
  <2> SUFFICES ASSUME NEW r \in SeqId, NEW i \in Nat, Len(block(r, i)) = BlockSize
               PROVE  block(r, i)' = block(r, i)
    BY DEF FullBlocksStay
  <2>1. CASE r # s
    BY <1>4, <2>1 DEF block
  <2>2. CASE r = s
    <3>1. (i + 1) * BlockSize <= Len(tokens[s])
      BY <1>t, <2>2, BlockOf
    <3>2. Len(tokens[s]) = 0
      BY <1>2
    <3>3. (i + 1) * BlockSize = i * BlockSize + BlockSize /\ i * BlockSize \in Nat
      BY TimesNext
    <3> QED BY <3>1, <3>2, <3>3, Sizes
  <2> QED BY <2>1, <2>2
<1>7. \A e \in [Blocks -> Nat] : PoolOK(pool, table, e) => PoolOK(pool, table, e)'
  <2> SUFFICES ASSUME NEW e \in [Blocks -> Nat], PoolOK(pool, table, e)
               PROVE  PoolOK(pool, table, e)'
    OBVIOUS
  <2>1. PoolOK(pool', table', e) /\ table' \in [SeqId -> Seq(Blocks)]
    BY <1>1, <1>t
  <2> QED BY <1>6, <2>1, MoreTokens
<1>8. PoolInv' /\ Typed(pool)'
  <2>1. DOMAIN pool' = PoolFields
    BY <1>1 DEF PoolInv
  <2> QED BY <1>7, <2>1, PoolInvNext
<1>9. waiting' \in Seq(SeqId) /\ Appended(waiting, waiting', s)
  <2>1. waiting \in Seq(SeqId) /\ s \in SeqId /\ waiting' = Append(waiting, s)
    BY <1>1, <1>2, <1>t
  <2> QED BY ONLY <2>1, SeqAppend
<1>10. /\ Becomes(status, status', s, "WAITING")
       /\ status' \in [SeqId -> {"none", "WAITING", "RUNNING", "FINISHED"}]
  BY <1>1, <1>2, <1>t DEF Becomes
<1>11. Types'
  <2>1. Rest'
    BY <1>1, <1>4, <1>9, <1>10, <1>t DEF Rest, TypeOK
  <2>2. nextId' \in Nat /\ nextId' >= 1
    BY <1>1, <1>2
  <2>3. \A t \in SeqId : params'[t].prompt \in Nat /\ params'[t].max \in Nat
    BY <1>3, <1>5, <1>t
  <2> QED BY <1>5, <1>8, <2>1, <2>2, <2>3, TypeNext DEF Types
<1> PICK l \in Nat : l = Len(waiting)
  BY <1>t
<1>12. /\ DOMAIN waiting = 1 .. l /\ DOMAIN waiting' = 1 .. l + 1 /\ waiting'[l + 1] = s
       /\ \A k \in 1 .. l : waiting'[k] = waiting[k]
  BY <1>9 DEF Appended
<1>13. \A k \in 1 .. l : waiting[k] \in SeqId /\ waiting[k] < s
  <2> SUFFICES ASSUME NEW k \in 1 .. l PROVE waiting[k] \in SeqId /\ waiting[k] < s
    OBVIOUS
  <2>1. waiting[k] \in SeqId /\ status[waiting[k]] = "WAITING"
    BY <1>12, <1>t, RunningFacts
  <2>2. ~(waiting[k] >= nextId)
    BY <1>t, <2>1 DEF Queues
  <2>3. waiting[k] \in Nat
    BY <2>1, Ids
  <2> QED BY <1>2, <2>1, <2>2, <2>3
<1>14. Queues'
  <2>0. DOMAIN running = {}
    BY <1>2
  <2>1. Ordered(running', waiting')
    <3>1. ASSUME NEW j \in 1 .. l + 1, NEW k \in 1 .. l + 1, j < k PROVE waiting'[j] < waiting'[k]
      <4>1. j \in 1 .. l /\ waiting'[j] = waiting[j]
        BY <1>12, <3>1
      <4>2. CASE k = l + 1
        BY <1>12, <1>13, <4>1, <4>2
      <4>3. CASE k # l + 1
        <5>1. k \in 1 .. l /\ waiting'[k] = waiting[k]
          BY <1>12, <4>3
        <5> QED BY <1>12, <1>t, <3>1, <4>1, <5>1 DEF Queues, Ordered
      <4> QED BY <4>2, <4>3
    <3> QED BY <1>1, <1>12, <2>0, <3>1 DEF Ordered
  <2>2. status'[s] = "WAITING" /\ \A t \in SeqId \ {s} : status'[t] = status[t]
    BY <1>10 DEF Becomes
  <2>3. ASSUME NEW t \in SeqId
        PROVE  /\ status'[t] # "RUNNING"
               /\ status'[t] = "WAITING" <=> \E j \in 1 .. l + 1 : waiting'[j] = t
    <3>1. CASE t = s
      <4>1. l + 1 \in 1 .. l + 1
        OBVIOUS
      <4> QED BY <1>12, <2>2, <3>1, <4>1
    <3>2. CASE t # s
      <4>1. status'[t] = status[t]
        BY <2>2, <3>2
      <4>2. status[t] # "RUNNING" /\ (status[t] = "WAITING" <=> \E j \in 1 .. l : waiting[j] = t)
        BY <1>12, <1>t, <2>0 DEF Queues, Queued
      <4>3. (\E j \in 1 .. l : waiting[j] = t) <=> (\E j \in 1 .. l + 1 : waiting'[j] = t)
        <5>1. ASSUME NEW j \in 1 .. l + 1, waiting'[j] = t PROVE j \in 1 .. l /\ waiting[j] = t
          BY <1>12, <3>2, <5>1
        <5>2. ASSUME NEW j \in 1 .. l, waiting[j] = t PROVE j \in 1 .. l + 1 /\ waiting'[j] = t
          BY <1>12, <5>2
        <5> QED BY <5>1, <5>2
      <4> QED BY <4>1, <4>2, <4>3
    <3> QED BY <3>1, <3>2
  <2>4. Queued(status', running', waiting')
    BY <1>1, <1>12, <2>0, <2>3 DEF Queued
  <2>5. ASSUME NEW t \in SeqId PROVE status'[t] = "none" <=> t >= nextId'
    <3>1. t \in Nat
      BY Ids
    <3>2. CASE t = s
      BY <1>1, <1>2, <2>2, <3>2
    <3>3. CASE t # s
      <4>1. status'[t] = status[t] /\ (status[t] = "none" <=> t >= s)
        BY <1>t, <2>2, <3>3 DEF Queues
      <4> QED BY <1>1, <1>2, <3>1, <3>3, <4>1
    <3> QED BY <3>2, <3>3
  <2>6. Len(running') <= MaxNumSeqs
    BY <1>1, <1>t DEF Queues
  <2> QED BY <1>1, <1>2, <2>1, <2>4, <2>5, <2>6 DEF Queues, Ordered, Queued
<1>15. Lengths'
  <2>1. status'[s] = "WAITING" /\ \A t \in SeqId \ {s} : status'[t] = status[t]
    BY <1>10 DEF Becomes
  <2>2. ASSUME NEW t \in SeqId
        PROVE  /\ status'[t] # "RUNNING" => table[t] = << >>
               /\ status'[t] = "none" => tokens'[t] = << >> /\ computed[t] = 0
               /\ status'[t] = "WAITING" => computed[t] = 0
               /\ status'[t] \in {"WAITING", "RUNNING"} =>
                    tokens'[t] # << >> /\ Len(tokens'[t]) < params'[t].prompt + params'[t].max
    <3>0. Lengths
      BY <1>t
    <3>1. CASE t = s
      <4>1. Len(p) < Len(p) + m
        BY <1>3
      <4> QED BY <1>2, <1>3, <1>4, <1>5, <2>1, <3>1, <4>1
    <3>2. CASE t # s
      <4>1. tokens'[t] = tokens[t] /\ params'[t] = params[t] /\ status'[t] = status[t]
        BY <1>4, <1>5, <2>1, <3>2
      <4> QED BY <3>0, <4>1 DEF Lengths
    <3> QED BY <3>1, <3>2
  <2> QED BY <1>1, <2>2 DEF Lengths
<1>16. Scheduling' /\ Places' /\ Budget' /\ OfStep'
  BY <1>1 DEF Scheduling, Places, Budget, OfStep
<1>17. Between'
  <2>1. \A t \in SeqId : status'[t] # "RUNNING"
    <3>1. DOMAIN running' = {}
      BY <1>1, <1>2
    <3> QED BY <1>14, <3>1 DEF Queues, Queued
  <2> QED BY <2>1 DEF Between
<1>18. \A t \in SeqId : tokens'[t] # tokens[t] => tokens[t] = << >>
  BY <1>2, <1>4
<1> QED BY <1>7, <1>8, <1>11, <1>14, <1>15, <1>16, <1>17, <1>18 DEF Control

-----------------------------------------------------------------------------
(* The initial state, and the steps that change nothing. *)
LEMMA InitInv ==
  ASSUME Init
  PROVE  IInv
<1> PICK n \in Nat : n = NumBlocks /\ n >= 1
  BY Sizes
<1>0. Blocks = 0 .. n - 1
  BY DEF Blocks
<1>1. /\ DOMAIN pool = PoolFields
      /\ pool.ref = [b \in Blocks |-> 0] /\ pool.hash = [b \in Blocks |-> NoHash]
      /\ pool.content = [b \in Blocks |-> << >>] /\ pool.h2b = [h \in {} |-> 0]
      /\ pool.free = [k \in 1 .. n |-> k - 1] /\ pool.used = {}
  BY DEF Init, PoolFields
<1>2. /\ tokens = [s \in SeqId |-> << >>] /\ table = [s \in SeqId |-> << >>]
      /\ last = [s \in SeqId |-> NoHash] /\ computed = [s \in SeqId |-> 0]
      /\ status = [s \in SeqId |-> "none"]
      /\ params = [s \in SeqId |-> [prompt |-> 0, max |-> 0, ignore |-> FALSE]]
      /\ waiting = << >> /\ running = << >> /\ scheduled = << >>
      /\ budget = 0 /\ index = 1 /\ sampled = 0 /\ nextId = 1 /\ pc = "add"
  BY DEF Init
<1>3. Typed(pool)
  <2>1. pool.free \in Seq(Blocks)
    <3>1. \A k \in 1 .. n : k - 1 \in Blocks
      BY <1>0
    <3> PICK f : f = pool.free
      OBVIOUS
    <3>2. f \in [1 .. n -> Blocks]
      BY <1>1, <3>1
    <3> QED BY <3>2
  <2>2. /\ pool.ref \in [Blocks -> Nat] /\ pool.hash \in [Blocks -> Seq(Token)]
        /\ pool.content \in [Blocks -> Seq(Token)] /\ pool.used \subseteq Blocks
    BY <1>1 DEF NoHash
  <2>3. pool.h2b \in [DOMAIN pool.h2b -> Blocks]
    BY <1>1
  <2> QED BY <2>1, <2>2, <2>3 DEF Typed
<1>4. FreeOK(pool)
  <2> PICK f : f = pool.free
    OBVIOUS
  <2>1. DOMAIN f = 1 .. n /\ \A k \in 1 .. n : f[k] = k - 1
    BY <1>1
  <2>2. Distinct(f)
    BY <2>1 DEF Distinct
  <2>3. ASSUME NEW b \in Blocks PROVE b \in ToSet(f)
    <3>1. b + 1 \in 1 .. n /\ f[b + 1] = b
      BY <1>0, <2>1
    <3> QED BY <2>1, <3>1 DEF ToSet
  <2>4. \A b \in Blocks : b \notin pool.used /\ pool.ref[b] = 0
    BY <1>1
  <2> QED BY <2>2, <2>3, <2>4 DEF FreeOK
<1>5. \A b \in Blocks : HoldersIn(table, b) = {}
  <2> SUFFICES ASSUME NEW b \in Blocks, NEW x \in HoldersIn(table, b) PROVE FALSE
    OBVIOUS
  <2>1. PICK t \in SeqId : \E k \in DOMAIN table[t] : x = <<t, k>> /\ table[t][k] = b
    BY HoldersMeans
  <2> QED BY <1>2, <2>1
<1> PICK e : e = [b \in Blocks |-> 0]
  OBVIOUS
<1>6. e \in [Blocks -> Nat] /\ \A b \in Blocks : e[b] = 0
  OBVIOUS
<1>7. CountOK(pool, table, e)
  <2>1. \A b \in Blocks : pool.ref[b] = 0
    BY <1>1
  <2>2. IsFiniteSet({}) /\ Cardinality({}) = 0
    BY FS_EmptySet
  <2> QED BY <1>5, <1>6, <2>1, <2>2 DEF CountOK
<1>8. NamesOK(pool, table)
  <2>1. \A b \in Blocks : pool.content[b] = << >>
    BY <1>1
  <2>2. \A s \in SeqId : DOMAIN table[s] = {}
    BY <1>2
  <2> QED BY <2>1, <2>2 DEF NamesOK
<1>9. PoolInv
  BY <1>1, <1>3, <1>4, <1>6, <1>7, <1>8 DEF PoolInv, PoolOK
<1>10. 1 \in SeqId
  BY Ids, ChunkedAssumption
<1>11. Types
  <2>1. Rest
    BY <1>2, Sizes DEF Rest, NoHash
  <2>2. TypeOK
    BY <1>3, <2>1 DEF Typed, Rest, TypeOK
  <2> QED BY <1>2, <2>2 DEF Types
<1>12. Queues
  <2>1. DOMAIN running = {} /\ DOMAIN waiting = {} /\ Len(running) = 0
    BY <1>2
  <2>2. \A s \in SeqId : s >= 1
    BY Ids
  <2> QED BY <1>2, <1>10, <2>1, <2>2, Sizes DEF Queues, Ordered, Queued
<1>13. Lengths
  BY <1>2 DEF Lengths
<1>14. Scheduling /\ Places /\ Budget /\ OfStep /\ Between
  BY <1>2 DEF Scheduling, Places, Budget, OfStep, Between
<1> QED BY <1>9, <1>11, <1>12, <1>13, <1>14 DEF IInv, Control

LEMMA StutterInv ==
  ASSUME IInv, UNCHANGED vars
  PROVE  IInv'
<1> USE DEF IInv
<1>1. /\ pool' = pool /\ tokens' = tokens /\ table' = table /\ last' = last
      /\ computed' = computed /\ status' = status /\ params' = params
      /\ waiting' = waiting /\ running' = running /\ sampled' = sampled /\ nextId' = nextId
      /\ scheduled' = scheduled /\ budget' = budget /\ index' = index /\ pc' = pc
  BY DEF vars
<1>2. Types'
  BY <1>1 DEF Types, TypeOK
<1>3. PoolInv'
  BY <1>1, PoolSameInv
<1>4. Queues'
  BY <1>1 DEF Control, Queues, Ordered, Queued
<1>5. Lengths'
  BY <1>1, LengthsSame DEF Control
<1>6. Scheduling' /\ Places' /\ Budget'
  BY <1>1 DEF Control, Scheduling, ChunkOK, Behind, Places, Budget
<1>7. OfStep' /\ Between'
  BY <1>1 DEF Control, OfStep, Covered, Behind, Between
<1> QED BY <1>2, <1>3, <1>4, <1>5, <1>6, <1>7 DEF Control

(* Every step keeps the invariant. *)
LEMMA StepInv ==
  ASSUME IInv, [Next]_vars
  PROVE  IInv'
<1>1. CASE add_request
  BY <1>1, AddRequestInv
<1>2. CASE StepBegin
  BY <1>2, StepBeginInv
<1>3. CASE ScheduleRunning
  BY <1>3, ScheduleRunningInv
<1>4. CASE Preempt
  BY <1>4, PreemptInv
<1>5. CASE RunningEnd
  BY <1>5, RunningEndInv
<1>6. CASE Admit
  BY <1>6, AdmitInv
<1>7. CASE ScheduleEnd
  BY <1>7, ScheduleEndInv
<1>8. CASE run \/ RunNothing
  BY <1>8, RunInv
<1>9. CASE PostDiscard
  BY <1>9, PostDiscardInv
<1>10. CASE PostAppend
  BY <1>10, PostAppendInv
<1>11. CASE PostFinish
  BY <1>11, PostFinishInv
<1>12. CASE StepEnd \/ StepRaises
  BY <1>12, StepEndInv
<1>13. CASE GenerateEnd \/ Raised \/ UNCHANGED vars
  BY <1>13, StutterInv DEF GenerateEnd, Raised
<1> QED
  BY <1>1, <1>2, <1>3, <1>4, <1>5, <1>6, <1>7, <1>8, <1>9, <1>10, <1>11, <1>12, <1>13 DEF Next

LEMMA Invariance == Spec => []IInv
<1>1. Init => IInv
  BY InitInv
<1>2. IInv /\ [Next]_vars => IInv'
  BY StepInv
<1> QED BY <1>1, <1>2, PTL DEF Spec

-----------------------------------------------------------------------------
(* What the invariant says in the words of the engine. *)
LEMMA OwnersFollow ==
  ASSUME IInv
  PROVE  HeldBlocksStay
<1>1. PICK e \in [Blocks -> Nat] : PoolOK(pool, table, e)
  BY DEF IInv, PoolInv
<1>2. Typed(pool) /\ FreeOK(pool) /\ CountOK(pool, table, e)
  BY <1>1 DEF PoolOK
<1>3. pool.free \in Seq(Blocks) /\ pool.used \subseteq Blocks /\ pool.ref \in [Blocks -> Nat]
  BY <1>2 DEF Typed
<1>4. \A j, k \in DOMAIN pool.free : pool.free[j] = pool.free[k] => j = k
  BY <1>2 DEF FreeOK, Distinct
<1>5. ToSet(pool.free) = Blocks \ pool.used
  <2>1. ToSet(pool.free) \subseteq Blocks
    <3> PICK q \in Seq(Blocks) : q = pool.free
      BY <1>3
    <3>1. \A k \in DOMAIN q : q[k] \in Blocks
      OBVIOUS
    <3> QED BY <3>1 DEF ToSet
  <2> QED BY <1>2, <2>1 DEF FreeOK
<1>6. ASSUME NEW b \in Blocks
      PROVE  /\ b \in pool.used <=> pool.ref[b] > 0
             /\ Cardinality(Holders(b)) <= pool.ref[b]
  <2> PICK H, n : H = HoldersIn(table, b) /\ n = e[b]
    OBVIOUS
  <2>1. IsFiniteSet(H) /\ pool.ref[b] = Cardinality(H) + n /\ n \in Nat
    BY <1>2 DEF CountOK
  <2>2. Cardinality(H) \in Nat
    BY <2>1, FS_CardinalityType
  <2>3. Cardinality(H) <= pool.ref[b]
    BY <2>1, <2>2
  <2> QED BY <1>2, <2>3 DEF FreeOK, Holders
<1> QED BY <1>4, <1>5, <1>6 DEF HeldBlocksStay

LEMMA OrderFollows ==
  ASSUME IInv
  PROVE  ArrivalOrder
<1>t. /\ running \in Seq(SeqId) /\ waiting \in Seq(SeqId)
      /\ Ordered(running, waiting) /\ Queued(status, running, waiting)
  BY DEF IInv, Types, TypeOK, Control, Queues
<1> PICK q \in Seq(SeqId), w \in Seq(SeqId) : q = running /\ w = waiting
  BY <1>t
<1> PICK m \in Nat, n \in Nat : m = Len(q) /\ n = Len(w)
  OBVIOUS
<1> PICK line : line = q \o w
  OBVIOUS
<1>1. /\ line \in Seq(SeqId) /\ Len(line) = m + n
      /\ \A k \in 1 .. m + n : line[k] = IF k <= m THEN q[k] ELSE w[k - m]
  BY ConcatProperties
<1>2. DOMAIN line = 1 .. m + n /\ DOMAIN q = 1 .. m /\ DOMAIN w = 1 .. n
  BY <1>1
<1>3. ASSUME NEW j \in 1 .. m + n, NEW k \in 1 .. m + n, j < k PROVE line[j] < line[k]
  <2>1. CASE k <= m
    <3>1. j \in 1 .. m /\ k \in 1 .. m /\ line[j] = q[j] /\ line[k] = q[k]
      BY <1>1, <1>3, <2>1
    <3> QED BY <1>2, <1>3, <1>t, <3>1 DEF Ordered
  <2>2. CASE j <= m /\ ~(k <= m)
    <3>1. j \in 1 .. m /\ k - m \in 1 .. n /\ line[j] = q[j] /\ line[k] = w[k - m]
      BY <1>1, <2>2
    <3> QED BY <1>2, <1>t, <3>1 DEF Ordered
  <2>3. CASE ~(j <= m)
    <3>1. /\ j - m \in 1 .. n /\ k - m \in 1 .. n /\ j - m < k - m
          /\ line[j] = w[j - m] /\ line[k] = w[k - m]
      BY <1>1, <1>3, <2>3
    <3> QED BY <1>2, <1>t, <3>1 DEF Ordered
  <2> QED BY <2>1, <2>2, <2>3
<1>4. \A s \in SeqId : s \in ToSet(q) <=> status[s] = "RUNNING"
  BY <1>2, <1>t DEF Queued, ToSet
<1>5. \A s \in SeqId : s \in ToSet(w) <=> status[s] = "WAITING"
  BY <1>2, <1>t DEF Queued, ToSet
<1>6. ToSet(line) \subseteq SeqId /\ ToSet(q) \subseteq SeqId
  <2>1. (\A k \in DOMAIN line : line[k] \in SeqId) /\ (\A k \in DOMAIN q : q[k] \in SeqId)
    BY <1>1
  <2> QED BY <2>1 DEF ToSet
<1>7. ASSUME NEW s PROVE s \in ToSet(line) <=> s \in ToSet(q) \/ s \in ToSet(w)
  <2>1. ASSUME NEW k \in 1 .. m + n, line[k] = s PROVE s \in ToSet(q) \/ s \in ToSet(w)
    <3>1. CASE k <= m
      BY <1>1, <1>2, <2>1, <3>1 DEF ToSet
    <3>2. CASE ~(k <= m)
      <4>1. k - m \in 1 .. n /\ w[k - m] = s
        BY <1>1, <2>1, <3>2
      <4> QED BY <1>2, <4>1 DEF ToSet
    <3> QED BY <3>1, <3>2
  <2>2. ASSUME NEW k \in 1 .. m, q[k] = s PROVE s \in ToSet(line)
    <3>1. k \in 1 .. m + n /\ line[k] = s
      BY <1>1, <2>2
    <3> QED BY <1>2, <3>1 DEF ToSet
  <2>3. ASSUME NEW k \in 1 .. n, w[k] = s PROVE s \in ToSet(line)
    <3>1. k + m \in 1 .. m + n /\ ~(k + m <= m) /\ (k + m) - m = k
      OBVIOUS
    <3>2. line[k + m] = s
      BY <1>1, <2>3, <3>1
    <3> QED BY <1>2, <3>1, <3>2 DEF ToSet
  <2> QED BY <1>2, <2>1, <2>2, <2>3 DEF ToSet
<1>8. ToSet(line) = {s \in SeqId : status[s] \in {"WAITING", "RUNNING"}}
  BY <1>4, <1>5, <1>6, <1>7
<1>9. ToSet(q) = {s \in SeqId : status[s] = "RUNNING"}
  BY <1>4, <1>6
<1> QED BY <1>2, <1>3, <1>8, <1>9 DEF ArrivalOrder

LEMMA ContractFollows ==
  ASSUME IInv
  PROVE  RunnerContract
<1> SUFFICES ASSUME pc = "run" PROVE RunnerContract
  BY DEF RunnerContract
<1>t. /\ TypeOK /\ Queues /\ Budget /\ OfStep
      /\ scheduled \in Seq(SeqId \X Nat) /\ running \in Seq(SeqId)
  BY DEF IInv, Types, TypeOK, Control
<1>1. Totals(scheduled)[Len(scheduled)] + budget = MaxNumBatchedTokens
  BY <1>t DEF Budget
<1>2. Len(running) <= MaxNumSeqs
  BY <1>t DEF Queues
<1>3. ASSUME NEW j \in DOMAIN scheduled
      PROVE  /\ scheduled[j][2] > 0 /\ scheduled[j][1] \in ToSet(running)
             /\ \A k \in DOMAIN scheduled : scheduled[k][1] = scheduled[j][1] => k = j
             /\ computed[scheduled[j][1]] <= Len(tokens[scheduled[j][1]])
             /\ Len(table[scheduled[j][1]]) = CeilDiv(computed[scheduled[j][1]])
  <2> PICK s : s = scheduled[j][1]
    OBVIOUS
  <2>1. s \in SeqId
    <3>1. scheduled[j] \in SeqId \X Nat
      BY <1>t
    <3> QED BY <3>1
  <2>2. status[s] = "RUNNING" /\ scheduled[j][2] > 0
    BY <1>t DEF OfStep
  <2>3. Covered(s)
    BY <1>t, <2>1, <2>2 DEF OfStep
  <2>4. s \in ToSet(running)
    <3>1. \E k \in DOMAIN running : running[k] = s
      BY <1>t, <2>1, <2>2 DEF Queues, Queued
    <3> QED BY <3>1 DEF ToSet
  <2>5. \A k \in DOMAIN scheduled : scheduled[k][1] = scheduled[j][1] => k = j
    BY <1>t DEF OfStep
  <2> QED BY <2>2, <2>3, <2>4, <2>5 DEF Covered
<1> QED BY <1>1, <1>2, <1>3 DEF RunnerContract

LEMMA PrivateFollows ==
  ASSUME IInv
  PROVE  GrowingBlocksArePrivate
<1> SUFFICES ASSUME NEW s \in SeqId, NEW i \in DOMAIN table[s], Len(block(s, i - 1)) < BlockSize
             PROVE  Cardinality(Holders(table[s][i])) = 1
  BY DEF GrowingBlocksArePrivate
<1>1. PICK e \in [Blocks -> Nat] : PoolOK(pool, table, e)
  BY DEF IInv, PoolInv
<1>2. EntryOK(pool, table, s, i)
  BY <1>1 DEF PoolOK, NamesOK
<1>3. Len(block(s, i - 1)) # BlockSize
  BY Sizes
<1> QED BY <1>2, <1>3 DEF EntryOK, Holders

-----------------------------------------------------------------------------
(* Only a preemption loses references. *)
LostOf(p, tab) == {b \in Blocks : p.ref[b] # Cardinality(HoldersIn(tab, b))}

LEMMA LostMeans ==
  ASSUME NEW p, NEW tab, NEW e \in [Blocks -> Nat], CountOK(p, tab, e)
  PROVE  LostOf(p, tab) = {b \in Blocks : e[b] # 0}
<1>1. ASSUME NEW b \in Blocks PROVE p.ref[b] # Cardinality(HoldersIn(tab, b)) <=> e[b] # 0
  <2> PICK H, n : H = HoldersIn(tab, b) /\ n = e[b]
    OBVIOUS
  <2>1. IsFiniteSet(H) /\ p.ref[b] = Cardinality(H) + n /\ n \in Nat
    BY DEF CountOK
  <2>2. Cardinality(H) \in Nat
    BY <2>1, FS_CardinalityType
  <2> QED BY <2>1, <2>2
<1> QED BY <1>1 DEF LostOf

LEMMA LostSame ==
  ASSUME IInv, \A e \in [Blocks -> Nat] : PoolOK(pool, table, e) => PoolOK(pool, table, e)'
  PROVE  Lost' = Lost
<1>1. PICK e \in [Blocks -> Nat] : PoolOK(pool, table, e)
  BY DEF IInv, PoolInv
<1>2. PoolOK(pool, table, e)'
  BY <1>1
<1>3. CountOK(pool, table, e) /\ CountOK(pool', table', e)
  BY <1>1, <1>2 DEF PoolOK, CountOK
<1>4. LostOf(pool, table) = LostOf(pool', table')
  BY <1>3, LostMeans
<1>5. Lost = LostOf(pool, table) /\ Lost' = LostOf(pool', table')
  BY DEF Lost, LostOf, Holders
<1> QED BY <1>4, <1>5

LEMMA LostStep ==
  ASSUME IInv, [Next]_vars, ~Preempt
  PROVE  Lost' = Lost
<1>1. CASE add_request
  BY <1>1, AddRequestInv, LostSame
<1>2. CASE ScheduleRunning
  BY <1>2, ScheduleRunningInv, LostSame
<1>3. CASE Admit
  BY <1>3, AdmitInv, LostSame
<1>4. CASE PostAppend
  BY <1>4, PostAppendInv, LostSame
<1>5. CASE PostFinish
  BY <1>5, PostFinishInv, LostSame
<1>6. CASE pool' = pool /\ table' = table
  BY <1>6 DEF Lost, Holders, HoldersIn
<1>7. CASE StepBegin \/ RunningEnd \/ ScheduleEnd \/ run \/ RunNothing \/ PostDiscard \/ StepEnd \/ StepRaises
  <2>1. pool' = pool /\ table' = table
    BY <1>7 DEF StepBegin, RunningEnd, ScheduleEnd, run, RunNothing, PostDiscard, StepEnd, StepRaises, seqVars
  <2> QED BY <1>6, <2>1
<1>8. CASE GenerateEnd \/ Raised \/ UNCHANGED vars
  BY <1>6, <1>8 DEF GenerateEnd, Raised, vars
<1> QED BY <1>1, <1>2, <1>3, <1>4, <1>5, <1>7, <1>8 DEF Next

LEMMA SampleStep ==
  ASSUME IInv, [Next]_vars, NEW s \in SeqId, tokens[s] # << >>, tokens'[s] # tokens[s]
  PROVE  computed[s] = Len(tokens[s])
<1>1. CASE add_request
  BY <1>1, AddRequestInv
<1>2. CASE PostAppend
  BY <1>2, PostAppendInv
<1>3. CASE PostFinish
  BY <1>3, PostFinishInv
<1>4. CASE tokens' = tokens
  BY <1>4
<1>5. ASSUME ~add_request, ~PostAppend, ~PostFinish PROVE tokens' = tokens
  BY <1>5 DEF Next, StepBegin, ScheduleRunning, Preempt, RunningEnd, Admit, ScheduleEnd, run,
              RunNothing, PostDiscard, StepEnd, StepRaises, GenerateEnd, Raised, seqVars, vars
<1> QED BY <1>1, <1>2, <1>3, <1>4, <1>5

-----------------------------------------------------------------------------
(* No step is empty: with nothing running and nothing lost the whole pool   *)
(* is free, and it holds the longest request.                               *)
LongestFits == \A p \in Prompts, m \in MaxTokens : Len(p) + m - 1 <= NumBlocks * BlockSize
Fits == \A s \in SeqId : params[s].prompt + params[s].max - 1 <= NumBlocks * BlockSize

LEMMA WholePool ==
  ASSUME NEW q \in Seq(Blocks), ToSet(q) = Blocks
  PROVE  Len(q) \in Nat /\ NumBlocks <= Len(q)
<1> PICK n \in Nat : n = Len(q)
  OBVIOUS
<1>1. q \in [1 .. n -> Blocks] /\ DOMAIN q = 1 .. n
  OBVIOUS
<1>2. \A b \in Blocks : \E k \in 1 .. n : q[k] = b
  BY <1>1 DEF ToSet
<1> PICK B : B = Blocks
  OBVIOUS
<1>3. q \in Surjection(1 .. n, B)
  <2>1. q \in [1 .. n -> B] /\ \A b \in B : \E k \in 1 .. n : q[k] = b
    BY <1>1, <1>2
  <2> QED BY ONLY <2>1 DEF Surjection
<1>4. IsFiniteSet(1 .. n) /\ Cardinality(1 .. n) = n
  <2>1. 1 \in Int /\ n \in Int
    OBVIOUS
  <2>2. IsFiniteSet(1 .. n) /\ Cardinality(1 .. n) = IF 1 > n THEN 0 ELSE n - 1 + 1
    BY ONLY <2>1, FS_Interval
  <2>3. (IF 1 > n THEN 0 ELSE n - 1 + 1) = n
    OBVIOUS
  <2> QED BY <2>2, <2>3
<1>5. Cardinality(B) <= n
  <2>1. Cardinality(B) <= Cardinality(1 .. n)
    BY ONLY <1>3, <1>4, FS_Surjection
  <2> QED BY ONLY <2>1, <1>4
<1>6. Cardinality(B) = NumBlocks
  <2>1. 0 \in Int /\ NumBlocks - 1 \in Int /\ ~(0 > NumBlocks - 1) /\ (NumBlocks - 1) - 0 + 1 = NumBlocks
    BY Sizes
  <2>2. Cardinality(0 .. NumBlocks - 1) = NumBlocks
    BY <2>1, FS_Interval
  <2> QED BY <2>2 DEF Blocks
<1> QED BY <1>5, <1>6

LEMMA IdleAdmits ==
  ASSUME IInv, Fits, pc = "waiting", scheduled = << >>, NoLeak
  PROVE  CanAdmit
<1>t. /\ TypeOK /\ Queues /\ Lengths /\ Scheduling /\ Places /\ Budget
      /\ running \in Seq(SeqId) /\ waiting \in Seq(SeqId) /\ budget \in 0 .. MaxNumBatchedTokens
      /\ tokens \in [SeqId -> Seq(Token)] /\ computed \in [SeqId -> Nat]
      /\ \A s \in SeqId : params[s].prompt \in Nat /\ params[s].max \in Nat
  BY DEF IInv, Types, TypeOK, Control
<1>1. budget = MaxNumBatchedTokens /\ budget > 0
  <2>1. << >> \in Seq(SeqId \X Nat) /\ Len(<< >>) = 0
    OBVIOUS
  <2>2. Totals(<< >>)[0] = 0
    BY <2>1, TotalsLoop
  <2>3. 0 + budget = MaxNumBatchedTokens
    BY <1>t, <2>1, <2>2 DEF Budget
  <2> QED BY <1>t, <2>3, Sizes
<1>2. running = << >> /\ Len(running) = 0
  <2>1. Len(scheduled) = 0
    OBVIOUS
  <2>2. Len(running) = 0
    BY <1>1, <1>t, <2>1 DEF Places
  <2> QED BY <1>t, <2>2
<1>3. waiting # << >>
  BY <1>2, <1>t DEF Scheduling
<1> PICK s \in SeqId : s = Head(waiting)
  BY <1>3, <1>t
<1> PICK n : n = num_new_tokens(s)
  OBVIOUS
<1>4. status[s] = "WAITING"
  <2>1. 1 \in DOMAIN waiting /\ waiting[1] = s
    BY <1>3, <1>t
  <2> QED BY <1>t, <2>1, RunningFacts
<1>l. Len(tokens[s]) \in Nat /\ params[s].prompt \in Nat /\ params[s].max \in Nat
  <2>1. tokens[s] \in Seq(Token)
    BY <1>t
  <2> QED BY <1>t, <2>1
<1> PICK l \in Nat, p \in Nat, m \in Nat : l = Len(tokens[s]) /\ p = params[s].prompt /\ m = params[s].max
  BY ONLY <1>l
<1>5. computed[s] = 0 /\ table[s] = << >> /\ l < p + m /\ l > 0
  <2>1. computed[s] = 0 /\ table[s] = << >> /\ l < p + m /\ tokens[s] # << >>
    BY <1>4, <1>t DEF Lengths
  <2> QED BY <1>t, <2>1
<1>6. l <= NumBlocks * BlockSize
  <2>1. p + m - 1 <= NumBlocks * BlockSize
    BY DEF Fits
  <2>2. NumBlocks * BlockSize \in Int
    BY Sizes
  <2>3. ASSUME NEW z \in Int, p + m - 1 <= z PROVE l <= z
    BY ONLY <1>5, <2>3, l \in Nat, p \in Nat, m \in Nat
  <2> QED BY <2>1, <2>2, <2>3
<1>7. n \in Nat /\ n <= l
  <2>1. n = IF l - 0 <= budget THEN l - 0 ELSE budget
    BY <1>5 DEF num_new_tokens
  <2>2. budget \in Nat
    BY <1>t, Sizes
  <2> QED BY <2>1, <2>2
<1>8. CeilDiv(n) \in Nat /\ CeilDiv(n) <= NumBlocks
  <2>1. n <= NumBlocks * BlockSize
    <3>1. NumBlocks * BlockSize \in Int
      BY Sizes
    <3> QED BY <1>6, <1>7, <3>1
  <2> QED BY <1>7, <2>1, CeilDivLeast, CeilDivFacts, Sizes
<1>9. \A t \in SeqId : table[t] = << >>
  <2>1. DOMAIN running = {}
    BY <1>2
  <2> QED BY <1>t, <2>1 DEF Queues, Queued, Lengths
<1>10. \A b \in Blocks : pool.ref[b] = 0
  <2> SUFFICES ASSUME NEW b \in Blocks PROVE pool.ref[b] = 0
    OBVIOUS
  <2>1. HoldersIn(table, b) = {}
    <3> SUFFICES ASSUME NEW x \in HoldersIn(table, b) PROVE FALSE
      OBVIOUS
    <3>1. PICK t \in SeqId : \E k \in DOMAIN table[t] : x = <<t, k>> /\ table[t][k] = b
      BY HoldersMeans
    <3> QED BY <1>9, <3>1
  <2>2. Cardinality(Holders(b)) = 0
    BY <2>1, FS_EmptySet DEF Holders
  <2> QED BY <2>2 DEF NoLeak
<1>11. NumBlocks <= Len(pool.free) /\ Len(pool.free) \in Nat
  <2>1. HeldBlocksStay
    BY OwnersFollow
  <2>2. \A b \in Blocks : b \notin pool.used
    BY <1>10, <2>1 DEF HeldBlocksStay
  <2>3. ToSet(pool.free) = Blocks
    BY <2>1, <2>2 DEF HeldBlocksStay
  <2>4. pool.free \in Seq(Blocks)
    BY <1>t DEF TypeOK
  <2> PICK q \in Seq(Blocks) : q = pool.free
    BY <2>4
  <2> QED BY <2>3, WholePool
<1>12. HasSlots(s, n)
  <2>1. computed[s] + n = n /\ Len(table[s]) = 0
    BY <1>5, <1>7
  <2>2. CeilDiv(n) - 0 <= Len(pool.free)
    BY <1>8, <1>11, Sizes
  <2> QED BY <2>1, <2>2 DEF HasSlots
<1>13. Len(running) < MaxNumSeqs
  BY <1>2, Sizes
<1> QED BY <1>1, <1>3, <1>12, <1>13 DEF CanAdmit

LEMMA FitsStep ==
  ASSUME IInv, Fits, LongestFits, [Next]_vars
  PROVE  Fits'
<1>1. CASE add_request
  <2> PICK s : s = nextId
    OBVIOUS
  <2> PICK p \in Prompts, m \in MaxTokens, g \in IgnoreEos :
        params' = [params EXCEPT ![s] = [prompt |-> Len(p), max |-> m, ignore |-> g]]
    BY <1>1 DEF add_request
  <2>1. s \in SeqId /\ DOMAIN params = SeqId
    BY <1>1 DEF add_request, IInv, Types, Control, Queues
  <2>2. Len(p) + m - 1 <= NumBlocks * BlockSize
    BY DEF LongestFits
  <2>3. /\ params'[s].prompt = Len(p) /\ params'[s].max = m
        /\ \A t \in SeqId \ {s} : params'[t] = params[t]
    BY <2>1
  <2> QED BY <2>2, <2>3 DEF Fits
<1>2. CASE params' = params
  BY <1>2 DEF Fits
<1>3. ASSUME ~add_request PROVE params' = params
  BY <1>3 DEF Next, StepBegin, ScheduleRunning, Preempt, RunningEnd, Admit, ScheduleEnd, run,
              RunNothing, PostDiscard, PostAppend, PostFinish, StepEnd, StepRaises, GenerateEnd,
              Raised, seqVars, vars
<1> QED BY <1>1, <1>2, <1>3

LEMMA NoEmptyStepNext ==
  ASSUME IInv, Fits, NoEmptyStep, [Next]_vars
  PROVE  NoEmptyStep'
<1> SUFFICES ASSUME pc' = "run", NoLeak' PROVE scheduled' # << >>
  BY DEF NoEmptyStep
<1>1. CASE ScheduleEnd
  <2>1. /\ pc = "waiting" /\ ~CanAdmit /\ scheduled' = scheduled /\ pool' = pool /\ table' = table
    BY <1>1 DEF ScheduleEnd
  <2>2. NoLeak
    BY <2>1 DEF NoLeak, Holders, HoldersIn
  <2> QED BY <2>1, <2>2, IdleAdmits
<1>2. CASE pc = "run" /\ scheduled' = scheduled /\ pool' = pool /\ table' = table
  <2>1. NoLeak
    BY <1>2 DEF NoLeak, Holders, HoldersIn
  <2> QED BY <1>2, <2>1 DEF NoEmptyStep
<1>3. ASSUME ~ScheduleEnd PROVE pc = "run" /\ scheduled' = scheduled /\ pool' = pool /\ table' = table
  <2>1. CASE UNCHANGED vars \/ GenerateEnd \/ Raised
    BY <2>1 DEF vars, GenerateEnd, Raised
  <2>2. CASE add_request
    BY <2>2 DEF add_request
  <2>3. CASE StepBegin \/ RunningEnd \/ run \/ RunNothing \/ StepEnd \/ StepRaises
    BY <2>3 DEF StepBegin, RunningEnd, run, RunNothing, StepEnd, StepRaises
  <2>4. CASE ScheduleRunning \/ Preempt
    BY <2>4 DEF ScheduleRunning, Preempt, InRunningLoop
  <2>5. CASE Admit
    BY <2>5 DEF Admit
  <2>6. CASE PostDiscard \/ PostAppend \/ PostFinish
    BY <2>6 DEF PostDiscard, PostAppend, PostFinish
  <2> QED BY <1>3, <2>1, <2>2, <2>3, <2>4, <2>5, <2>6 DEF Next
<1> QED BY <1>1, <1>2, <1>3

-----------------------------------------------------------------------------
(* Types, ownership and order: a block is free or used and never both, and *)
(* a used block counts at least its holders; the running sequences come    *)
(* before the waiting ones and both are in the order of their arrival, and *)
(* together they are the unfinished sequences (allocate_slots, deallocate, *)
(* schedule with its preemption, postprocess).                             *)
THEOREM BlocksAndOrder == Spec => [](TypeOK /\ HeldBlocksStay /\ ArrivalOrder)
<1>1. IInv => TypeOK /\ HeldBlocksStay /\ ArrivalOrder
  BY OwnersFollow, OrderFollows DEF IInv, Types
<1> QED BY <1>1, Invariance, PTL

(* The invariant of the engine: with a pool that holds the longest request *)
(* to its last token, also no step without a chunk, as long as no block is *)
(* lost (schedule, allocate_slots, add_request).                           *)
THEOREM ChunkedInvHolds ==
  ASSUME LongestFits
  PROVE  Spec => []ChunkedInv
<1>1. Init => Fits /\ NoEmptyStep
  <2>1. NumBlocks * BlockSize \in Nat
    BY Sizes
  <2>2. ASSUME Init, NEW s \in SeqId PROVE params[s].prompt + params[s].max - 1 <= NumBlocks * BlockSize
    <3>1. params[s].prompt = 0 /\ params[s].max = 0
      BY <2>2 DEF Init
    <3> QED BY <2>1, <3>1
  <2>3. Init => NoEmptyStep
    BY DEF Init, NoEmptyStep
  <2> QED BY <2>2, <2>3 DEF Fits
<1>2. IInv /\ Fits /\ NoEmptyStep /\ [Next]_vars => (Fits /\ NoEmptyStep)'
  BY FitsStep, NoEmptyStepNext
<1>3. Spec => [](Fits /\ NoEmptyStep)
  BY <1>1, <1>2, Invariance, PTL DEF Spec
<1>4. TypeOK /\ HeldBlocksStay /\ ArrivalOrder /\ Fits /\ NoEmptyStep => ChunkedInv
  BY DEF ChunkedInv
<1> QED BY <1>3, <1>4, BlocksAndOrder, PTL

(* What the model runner is given: chunks that add up to the budget spent, *)
(* one per running sequence, none of a sequence that was preempted after   *)
(* it was scheduled, and block tables that cover exactly what counts as    *)
(* computed (schedule, prepare_inputs).                                    *)
THEOREM RunnerContractHolds == Spec => []RunnerContract
<1>1. IInv => RunnerContract
  BY ContractFollows
<1> QED BY <1>1, Invariance, PTL

(* The block a sequence still appends tokens to has no other holder, after *)
(* any sharing, revival or preemption (allocate_slots).                    *)
THEOREM GrowingBlocksPrivate == Spec => []GrowingBlocksArePrivate
<1>1. IInv => GrowingBlocksArePrivate
  BY PrivateFollows
<1> QED BY <1>1, Invariance, PTL

(* References are lost in a preemption and in no other step: sharing,      *)
(* revival and the end of a request keep them equal to the holders         *)
(* (preempt, allocate_slots, deallocate).                                  *)
THEOREM OnlyPreemptionLoses == Spec => LostByPreemptionOnly
<1>1. IInv /\ [Next]_vars =>
        [Lost' # Lost => \E s \in SeqId : status[s] = "RUNNING" /\ status'[s] = "WAITING"]_vars
  BY LostStep, PreemptInv
<1> QED BY <1>1, Invariance, PTL DEF Spec, LostByPreemptionOnly

(* A token is sampled only after the last token a sequence has, also where *)
(* the prefill of a preempted request is done again (discard_mask,         *)
(* postprocess).                                                           *)
THEOREM SamplesAtTheEnd == Spec => SampleAtTheEnd
<1>1. IInv /\ [Next]_vars =>
        [\A s \in SeqId : tokens[s] # << >> /\ tokens'[s] # tokens[s]
                            => computed[s] = Len(tokens[s])]_vars
  BY SampleStep
<1> QED BY <1>1, Invariance, PTL DEF Spec, SampleAtTheEnd

-----------------------------------------------------------------------------
(* The rows of the KV cache.  From its admission to its end or preemption a *)
(* running sequence keeps its blocks and computes every one of its tokens   *)
(* itself, and two sequences write a row both only if they have the same    *)
(* tokens up to there.                                                      *)
Place(k) == (k \div BlockSize) + 1
Offset(k) == k % BlockSize
Upto(s, k) == SubSeq(tokens[s], 1, k + 1)
RowOK(s, k) == kv[table[s][Place(k)]][Offset(k)] = Upto(s, k)

(* Position k is part of the chunk that run is about to compute. *)
ToWrite(s, k) ==
  /\ pc = "run"
  /\ \E j \in DOMAIN scheduled : scheduled[j][1] = s /\ k >= computed[s] - scheduled[j][2]

ChunksCounted ==
  pc = "run" => \A j \in DOMAIN scheduled : scheduled[j][2] <= computed[scheduled[j][1]]
RowsOK ==
  Unambiguous =>
    \A s \in SeqId : status[s] = "RUNNING" =>
      \A k \in 0 .. computed[s] - 1 : ToWrite(s, k) \/ RowOK(s, k)
RowsInv == ChunksCounted /\ RowsOK

LEMMA PlaceFacts ==
  ASSUME NEW k \in Nat
  PROVE  /\ Place(k) \in Nat /\ Place(k) >= 1 /\ Offset(k) \in 0 .. BlockSize - 1
         /\ k = Place(k) * BlockSize - BlockSize + Offset(k)
         /\ Place(k) * BlockSize \in Nat
<1> PICK i, o : i = k \div BlockSize /\ o = k % BlockSize
  OBVIOUS
<1>1. i \in Nat /\ o \in 0 .. BlockSize - 1 /\ k = BlockSize * i + o
  BY ONLY k \in Nat, i = k \div BlockSize, o = k % BlockSize, Sizes
<1>2. BlockSize * i = i * BlockSize /\ i + 1 \in Nat /\ i + 1 >= 1
  BY <1>1, Sizes
<1>3. (i + 1) * BlockSize = i * BlockSize + BlockSize /\ i * BlockSize \in Nat
  BY <1>1, TimesNext
<1>4. (i + 1) * BlockSize \in Nat /\ k = (i + 1) * BlockSize - BlockSize + o
  BY ONLY <1>1, <1>2, <1>3, Sizes
<1> QED BY <1>1, <1>2, <1>4 DEF Place, Offset

LEMMA PlaceCovered ==
  ASSUME NEW n \in Nat, NEW k \in Nat, k < n
  PROVE  Place(k) <= CeilDiv(n)
<1> PICK i, c, o : i = Place(k) /\ c = CeilDiv(n) /\ o = Offset(k)
  OBVIOUS
<1>1. i \in Nat /\ o \in Nat /\ k = i * BlockSize - BlockSize + o /\ i * BlockSize \in Nat
  BY PlaceFacts
<1>2. c \in Nat /\ n <= c * BlockSize
  BY CeilDivFacts
<1>3. ASSUME c + 1 <= i PROVE FALSE
  <2>1. (c + 1) * BlockSize <= i * BlockSize /\ (c + 1) * BlockSize = c * BlockSize + BlockSize
        /\ c * BlockSize \in Int
    BY <1>1, <1>2, <1>3, TimesMonotone, TimesNext
  <2> QED BY <1>1, <1>2, <2>1, Sizes
<1> QED BY <1>1, <1>2, <1>3

LEMMA PrefixOfPrefix ==
  ASSUME NEW q \in Seq(Token), NEW r \in Seq(Token), NEW a \in Nat, NEW b \in Nat, NEW m \in Nat,
         a <= Len(q), b <= Len(r), SubSeq(q, 1, a) = SubSeq(r, 1, b), m <= a
  PROVE  a = b /\ SubSeq(q, 1, m) = SubSeq(r, 1, m)
<1>1. Len(SubSeq(q, 1, a)) = a /\ \A i \in 1 .. a : SubSeq(q, 1, a)[i] = q[i]
  OBVIOUS
<1>2. Len(SubSeq(r, 1, b)) = b /\ \A i \in 1 .. b : SubSeq(r, 1, b)[i] = r[i]
  OBVIOUS
<1>3. a = b
  BY <1>1, <1>2
<1>4. \A i \in 1 .. m : i \in 1 .. a /\ q[i] = r[i]
  BY <1>1, <1>2, <1>3
<1>5. SubSeq(q, 1, m) = [i \in 1 .. m |-> q[i]] /\ SubSeq(r, 1, m) = [i \in 1 .. m |-> r[i]]
  OBVIOUS
<1> QED BY <1>3, <1>4, <1>5

(* Two places with the same block and different owners: both full. *)
LEMMA TwoHolders ==
  ASSUME IInv, NEW s \in SeqId, NEW t \in SeqId, NEW i \in DOMAIN table[s], NEW j \in DOMAIN table[t],
         table[s][i] = table[t][j], <<s, i>> # <<t, j>>
  PROVE  /\ block(s, i - 1) = block(t, j - 1)
         /\ Len(block(s, i - 1)) = BlockSize /\ Len(block(t, j - 1)) = BlockSize
<1> PICK e \in [Blocks -> Nat] : PoolOK(pool, table, e)
  BY DEF IInv, PoolInv
<1>0. table[s] \in Seq(Blocks)
  BY DEF IInv, Types, TypeOK
<1> PICK b \in Blocks : b = table[s][i]
  BY <1>0
<1> PICK H : H = HoldersIn(table, b)
  OBVIOUS
<1>1. IsFiniteSet(H)
  BY DEF PoolOK, CountOK
<1>2. <<s, i>> \in H /\ <<t, j>> \in H
  BY DEF HoldersIn
<1>3. Cardinality(H) # 1
  <2>1. ASSUME NEW x, H = {x} PROVE FALSE
    BY <1>2, <2>1
  <2> QED BY <1>1, <2>1, FS_Singleton
<1>4. EntryOK(pool, table, s, i) /\ EntryOK(pool, table, t, j)
  BY DEF PoolOK, NamesOK
<1>5. pool.hash[b] # NoHash
  BY <1>3, <1>4 DEF EntryOK
<1> QED BY <1>4, <1>5 DEF EntryOK

LEMMA FullPlace ==
  ASSUME tokens \in [SeqId -> Seq(Token)], NEW s \in SeqId, NEW i \in Nat, i >= 1,
         Len(block(s, i - 1)) = BlockSize
  PROVE  <<s, i>> \in FullBlocks /\ i * BlockSize <= Len(tokens[s])
<1>1. i - 1 \in Nat /\ (i - 1) + 1 = i
  OBVIOUS
<1>2. i * BlockSize <= Len(tokens[s])
  BY <1>1, BlockOf
<1> PICK a \in Int, n \in Nat : a = (i - 1) * BlockSize /\ n = Len(tokens[s])
  BY <1>1, TimesNext
<1>3. i <= i * BlockSize /\ i * BlockSize \in Nat
  BY Sizes
<1>4. i \in 1 .. n
  <2> PICK m \in Nat : m = i * BlockSize
    BY <1>3
  <2>1. i >= 1 /\ i <= m /\ m <= n
    BY <1>2, <1>3
  <2> QED BY ONLY <2>1, i \in Nat, m \in Nat, n \in Nat
<1> QED BY <1>2, <1>4 DEF FullBlocks

(* The row two sequences share is the same for both. *)
LEMMA SharedRow ==
  ASSUME IInv, Unambiguous, NEW s \in SeqId, NEW t \in SeqId, NEW k \in Nat, NEW l \in Nat,
         Place(k) \in DOMAIN table[s], Place(l) \in DOMAIN table[t],
         table[s][Place(k)] = table[t][Place(l)], Offset(k) = Offset(l)
  PROVE  Upto(s, k) = Upto(t, l)
<1> PICK i, j, o : i = Place(k) /\ j = Place(l) /\ o = Offset(k)
  OBVIOUS
<1>t. tokens \in [SeqId -> Seq(Token)]
  BY DEF IInv, Types, TypeOK
<1>1. /\ i \in Nat /\ i >= 1 /\ o \in 0 .. BlockSize - 1 /\ k = i * BlockSize - BlockSize + o
      /\ j \in Nat /\ j >= 1 /\ l = j * BlockSize - BlockSize + o
      /\ i * BlockSize \in Nat /\ j * BlockSize \in Nat
  BY PlaceFacts
<1>2. CASE <<s, i>> = <<t, j>>
  <2>1. s = t /\ i = j
    BY <1>2
  <2>2. k = l
    BY ONLY <1>1, <2>1
  <2> QED BY <2>1, <2>2
<1>3. CASE <<s, i>> # <<t, j>>
  <2>1. /\ block(s, i - 1) = block(t, j - 1)
        /\ Len(block(s, i - 1)) = BlockSize /\ Len(block(t, j - 1)) = BlockSize
    BY <1>3, TwoHolders
  <2>2. /\ <<s, i>> \in FullBlocks /\ i * BlockSize <= Len(tokens[s])
        /\ <<t, j>> \in FullBlocks /\ j * BlockSize <= Len(tokens[t])
    BY <1>1, <1>t, <2>1, FullPlace
  <2>3. SubSeq(tokens[s], 1, i * BlockSize) = SubSeq(tokens[t], 1, j * BlockSize)
    <3> PICK x, y : x = <<s, i>> /\ y = <<t, j>>
      OBVIOUS
    <3>1. x[1] = s /\ x[2] = i /\ y[1] = t /\ y[2] = j /\ x \in FullBlocks /\ y \in FullBlocks
      BY <2>2
    <3>2. block(x[1], x[2] - 1) = block(y[1], y[2] - 1)
      BY <2>1, <3>1
    <3>3. SubSeq(tokens[x[1]], 1, x[2] * BlockSize) = SubSeq(tokens[y[1]], 1, y[2] * BlockSize)
      BY <3>1, <3>2 DEF Unambiguous
    <3> QED BY <3>1, <3>3
  <2> PICK a \in Nat, b \in Nat, q \in Seq(Token), r \in Seq(Token) :
        a = i * BlockSize /\ b = j * BlockSize /\ q = tokens[s] /\ r = tokens[t]
    BY <1>1, <1>t
  <2>4. k + 1 \in Nat /\ k + 1 <= a
    BY ONLY <1>1, a = i * BlockSize, Sizes
  <2>5. a = b /\ SubSeq(q, 1, k + 1) = SubSeq(r, 1, k + 1)
    <3>1. a <= Len(q) /\ b <= Len(r) /\ SubSeq(q, 1, a) = SubSeq(r, 1, b)
      BY <2>2, <2>3
    <3> QED BY ONLY <2>4, <3>1, a \in Nat, b \in Nat, q \in Seq(Token), r \in Seq(Token), PrefixOfPrefix
  <2>6. k = l
    BY ONLY <1>1, <2>5, a = i * BlockSize, b = j * BlockSize
  <2> QED BY <2>5, <2>6 DEF Upto
<1> QED BY <1>2, <1>3 DEF Upto

(* The blocks of a running sequence cover what counts as computed. *)
LEMMA TablesCover ==
  ASSUME IInv, pc \in {"running", "waiting", "run", "post", "step"}, NEW s \in SeqId,
         status[s] = "RUNNING", NEW k \in Nat, k < computed[s]
  PROVE  Place(k) \in DOMAIN table[s]
<1>t. /\ TypeOK /\ Queues /\ Scheduling /\ OfStep /\ Between
      /\ table[s] \in Seq(Blocks) /\ computed \in [SeqId -> Nat] /\ running \in Seq(SeqId)
      /\ scheduled \in Seq(SeqId \X Nat) /\ scheduled \in [DOMAIN scheduled -> SeqId \X Nat]
  <2>1. TypeOK /\ Queues /\ Scheduling /\ OfStep /\ Between
    BY DEF IInv, Types, Control
  <2>2. /\ table[s] \in Seq(Blocks) /\ computed \in [SeqId -> Nat] /\ running \in Seq(SeqId)
        /\ scheduled \in Seq(SeqId \X Nat)
    BY <2>1 DEF TypeOK
  <2> QED BY <2>1, <2>2
<1>1. CeilDiv(computed[s]) <= Len(table[s])
  <2>1. CASE Len(table[s]) = CeilDiv(computed[s])
    <3>1. CeilDiv(computed[s]) \in Nat
      BY <1>t, CeilDivFacts
    <3> QED BY <2>1, <3>1
  <2>2. CASE pc \in {"run", "post", "step"}
    BY <1>t, <2>1, <2>2 DEF OfStep, Between, Covered, Behind
  <2>3. CASE pc \in {"running", "waiting"}
    <3> PICK j \in DOMAIN running : running[j] = s
      BY <1>t DEF Queues, Queued
    <3>1. j \in Nat /\ j >= 1 /\ Len(scheduled) \in Nat /\ DOMAIN scheduled = 1 .. Len(scheduled)
      BY <1>t
    <3>2. CASE j > Len(scheduled)
      BY <1>t, <2>1, <2>3, <3>2 DEF Scheduling, Behind
    <3>3. CASE j <= Len(scheduled)
      <4>1. j \in DOMAIN scheduled
        BY <3>1, <3>3
      <4> PICK n \in Nat : n = scheduled[j][2]
        BY <1>t, <4>1
      <4>2. Len(table[s]) = CeilDiv(computed[s] + n)
        BY <1>t, <2>3, <4>1 DEF Scheduling, ChunkOK
      <4> PICK c \in Nat : c = computed[s]
        BY <1>t
      <4>3. c \in Nat /\ c + n \in Nat /\ c <= c + n
        OBVIOUS
      <4>4. CeilDiv(c) <= CeilDiv(c + n)
        BY ONLY <4>3, CeilDivMonotone
      <4> QED BY <4>2, <4>4
    <3> QED BY <3>1, <3>2, <3>3
  <2> QED BY <2>2, <2>3
<1>2. computed[s] \in Nat /\ CeilDiv(computed[s]) \in Nat
  BY <1>t, CeilDivFacts
<1>3. Place(k) <= CeilDiv(computed[s]) /\ Place(k) \in Nat /\ Place(k) >= 1
  BY <1>2, PlaceCovered, PlaceFacts
<1>4. DOMAIN table[s] = 1 .. Len(table[s]) /\ Len(table[s]) \in Nat
  BY <1>t
<1> QED BY <1>1, <1>2, <1>3, <1>4

(* With more tokens there are only more full blocks. *)
LEMMA UnambiguousBefore ==
  ASSUME tokens \in [SeqId -> Seq(Token)], NEW s \in SeqId, NEW x \in Token,
         tokens' = [tokens EXCEPT ![s] = Append(@, x)], Unambiguous'
  PROVE  Unambiguous
<1>1. ASSUME NEW y \in FullBlocks
      PROVE  /\ y \in FullBlocks' /\ block(y[1], y[2] - 1)' = block(y[1], y[2] - 1)
             /\ SubSeq(tokens'[y[1]], 1, y[2] * BlockSize) = SubSeq(tokens[y[1]], 1, y[2] * BlockSize)
  <2> PICK t \in SeqId, i \in Nat :
        y = <<t, i>> /\ i \in 1 .. Len(tokens[t]) /\ i * BlockSize <= Len(tokens[t])
    BY DEF FullBlocks
  <2>1. y[1] = t /\ y[2] = i /\ i \in Nat /\ i >= 1 /\ i - 1 \in Nat /\ (i - 1) + 1 = i
    OBVIOUS
  <2>2. Len(block(t, i - 1)) = BlockSize
    BY <2>1, BlockOf
  <2>3. block(t, i - 1)' = block(t, i - 1)
    BY <2>1, <2>2, BlocksStay DEF FullBlocksStay
  <2> PICK r : r = tokens'[t]
    OBVIOUS
  <2> PICK q \in Seq(Token), n \in Nat, m \in Nat :
        q = tokens[t] /\ n = Len(q) /\ m = i * BlockSize
    BY <2>1, Sizes
  <2>4. r = q \/ r = Append(q, x)
    OBVIOUS
  <2>5. r \in Seq(Token) /\ n <= Len(r) /\ \A k \in 1 .. n : r[k] = q[k]
    BY ONLY <2>4, q \in Seq(Token), x \in Token, n = Len(q)
  <2>6. m <= n
    OBVIOUS
  <2>7. SubSeq(r, 1, m) = SubSeq(q, 1, m)
    <3>1. \A k \in 1 .. m : k \in 1 .. n /\ r[k] = q[k]
      BY <2>5, <2>6
    <3> QED BY ONLY <2>5, <2>6, <3>1, q \in Seq(Token), n = Len(q), m \in Nat, n \in Nat
  <2>8. i \in 1 .. Len(r) /\ m <= Len(r)
    BY ONLY <2>1, <2>5, <2>6, n = Len(q), i \in 1 .. Len(tokens[t]), q = tokens[t], n \in Nat
  <2>9. <<t, i>> \in FullBlocks'
    BY <2>8 DEF FullBlocks
  <2> QED BY <2>1, <2>3, <2>7, <2>9
<1>2. ASSUME NEW y \in FullBlocks, NEW z \in FullBlocks, block(y[1], y[2] - 1) = block(z[1], z[2] - 1)
      PROVE  SubSeq(tokens[y[1]], 1, y[2] * BlockSize) = SubSeq(tokens[z[1]], 1, z[2] * BlockSize)
  <2>1. block(y[1], y[2] - 1)' = block(z[1], z[2] - 1)'
    BY <1>1, <1>2
  <2>2. SubSeq(tokens'[y[1]], 1, y[2] * BlockSize) = SubSeq(tokens'[z[1]], 1, z[2] * BlockSize)
    BY <1>1, <2>1 DEF Unambiguous
  <2> QED BY <1>1, <2>2
<1> QED BY <1>2 DEF Unambiguous

-----------------------------------------------------------------------------
(* The rows a step writes. *)
LEMMA WritesMean ==
  ASSUME IInv, ChunksCounted, pc = "run", NEW w \in Writes
  PROVE  \E t \in SeqId, l \in Nat :
           /\ status[t] = "RUNNING" /\ l < computed[t]
           /\ w[1] = table[t][Place(l)] /\ w[2] = Offset(l) /\ w[3] = Upto(t, l)
<1>t. /\ OfStep /\ computed \in [SeqId -> Nat] /\ scheduled \in Seq(SeqId \X Nat)
  BY DEF IInv, Types, TypeOK, Control
<1> PICK c, k : /\ c \in ToSet(scheduled) /\ k \in Positions(c)
                /\ w = <<table[c[1]][(k \div BlockSize) + 1], k % BlockSize, SubSeq(tokens[c[1]], 1, k + 1)>>
  BY DEF Writes
<1> PICK j \in DOMAIN scheduled : c = scheduled[j]
  BY DEF ToSet
<1> PICK t \in SeqId, n \in Nat : t = c[1] /\ n = c[2]
  <2>1. c \in SeqId \X Nat
    BY <1>t
  <2> QED BY <2>1
<1>1. status[t] = "RUNNING" /\ n <= computed[t] /\ computed[t] \in Nat
  BY <1>t DEF OfStep, ChunksCounted
<1>2. k \in computed[t] - n .. computed[t] - 1
  BY DEF Positions
<1>3. k \in Nat /\ k < computed[t]
  BY <1>1, <1>2
<1>4. w[1] = table[t][Place(k)] /\ w[2] = Offset(k) /\ w[3] = Upto(t, k)
  BY DEF Place, Offset, Upto
<1> QED BY <1>1, <1>3, <1>4

LEMMA WriteThere ==
  ASSUME IInv, NEW s \in SeqId, NEW k \in Nat, k < computed[s], ToWrite(s, k)
  PROVE  \E w \in Writes : w[1] = table[s][Place(k)] /\ w[2] = Offset(k)
<1>t. computed \in [SeqId -> Nat] /\ scheduled \in Seq(SeqId \X Nat)
  BY DEF IInv, Types, TypeOK
<1> PICK j \in DOMAIN scheduled : scheduled[j][1] = s /\ k >= computed[s] - scheduled[j][2]
  BY DEF ToWrite
<1> PICK c : c = scheduled[j]
  OBVIOUS
<1> PICK n \in Nat : n = c[2]
  <2>1. c \in SeqId \X Nat
    BY <1>t
  <2> QED BY <2>1
<1>1. c[1] = s /\ c[2] = n /\ c \in ToSet(scheduled)
  BY DEF ToSet
<1>2. k \in Positions(c)
  <2>1. k \in computed[s] - n .. computed[s] - 1
    BY <1>t
  <2> QED BY <1>1, <2>1 DEF Positions
<1>3. <<table[s][Place(k)], Offset(k), Upto(s, k)>> \in Writes
  BY <1>1, <1>2 DEF Writes, Place, Offset, Upto
<1> PICK w \in Writes : w = <<table[s][Place(k)], Offset(k), Upto(s, k)>>
  BY <1>3
<1> QED OBVIOUS

(* After run the rows of everything computed are there. *)
LEMMA RunRows ==
  ASSUME IInv, RowsInv, run, Unambiguous, NEW s \in SeqId, status[s] = "RUNNING",
         NEW k \in Nat, k < computed[s]
  PROVE  kv'[table[s][Place(k)]][Offset(k)] = Upto(s, k)
<1>1. /\ pc = "run"
      /\ kv' = [b \in Blocks |-> [o \in 0 .. BlockSize - 1 |->
                  IF \E w \in Writes : w[1] = b /\ w[2] = o
                  THEN (CHOOSE w \in Writes : w[1] = b /\ w[2] = o)[3] ELSE kv[b][o]]]
  BY DEF run
<1>2. Place(k) \in DOMAIN table[s]
  BY <1>1, TablesCover
<1> PICK b \in Blocks : b = table[s][Place(k)]
  <2>1. table[s] \in Seq(Blocks)
    BY DEF IInv, Types, TypeOK
  <2> QED BY <1>2, <2>1
<1> PICK o \in 0 .. BlockSize - 1 : o = Offset(k)
  BY PlaceFacts
<1>3. kv'[b][o] = IF \E w \in Writes : w[1] = b /\ w[2] = o
                  THEN (CHOOSE w \in Writes : w[1] = b /\ w[2] = o)[3] ELSE kv[b][o]
  BY <1>1
<1>4. CASE \E w \in Writes : w[1] = b /\ w[2] = o
  <2> PICK w : w = (CHOOSE v \in Writes : v[1] = b /\ v[2] = o)
    OBVIOUS
  <2>1. w \in Writes /\ w[1] = b /\ w[2] = o
    BY <1>4
  <2> PICK t \in SeqId, l \in Nat :
         /\ status[t] = "RUNNING" /\ l < computed[t]
         /\ w[1] = table[t][Place(l)] /\ w[2] = Offset(l) /\ w[3] = Upto(t, l)
    BY <1>1, <2>1, WritesMean DEF RowsInv
  <2>2. Place(l) \in DOMAIN table[t]
    BY <1>1, TablesCover
  <2>3. Upto(s, k) = Upto(t, l)
    BY <1>2, <2>1, <2>2, SharedRow
  <2> QED BY <1>3, <1>4, <2>3
<1>5. CASE ~ \E w \in Writes : w[1] = b /\ w[2] = o
  <2>1. ~ToWrite(s, k)
    BY <1>5, WriteThere
  <2>2. k \in 0 .. computed[s] - 1
    BY DEF IInv, Types, TypeOK
  <2>3. RowOK(s, k)
    BY <2>1, <2>2 DEF RowsInv, RowsOK
  <2> QED BY <1>3, <1>5, <2>3 DEF RowOK
<1> QED BY <1>4, <1>5

-----------------------------------------------------------------------------
(* The steps keep the rows. *)
LEMMA SameUnambiguous ==
  ASSUME tokens' = tokens
  PROVE  Unambiguous' <=> Unambiguous
BY DEF Unambiguous, FullBlocks, block

(* A step that writes no row, in which no running sequence loses a block or *)
(* gets a row to write that was not counted before.                         *)
LEMMA RowsKept ==
  ASSUME RowsInv, kv' = kv, pc' # "run", computed \in [SeqId -> Nat], Unambiguous' => Unambiguous,
         \A s \in SeqId : status'[s] = "RUNNING" => \A k \in 0 .. computed'[s] - 1 :
           /\ status[s] = "RUNNING" /\ k \in 0 .. computed[s] - 1 /\ ~ToWrite(s, k)
           /\ table'[s][Place(k)] = table[s][Place(k)] /\ Upto(s, k)' = Upto(s, k)
  PROVE  RowsInv'
<1>1. ChunksCounted'
  BY DEF ChunksCounted
<1>2. ASSUME Unambiguous', NEW s \in SeqId, status'[s] = "RUNNING", NEW k \in 0 .. computed'[s] - 1
      PROVE  RowOK(s, k)'
  <2>1. /\ status[s] = "RUNNING" /\ k \in 0 .. computed[s] - 1 /\ ~ToWrite(s, k)
        /\ table'[s][Place(k)] = table[s][Place(k)] /\ Upto(s, k)' = Upto(s, k)
    BY <1>2
  <2>2. RowOK(s, k)
    BY <1>2, <2>1 DEF RowsInv, RowsOK
  <2>3. kv'[table'[s][Place(k)]][Offset(k)] = Upto(s, k)'
    BY <2>1, <2>2 DEF RowOK
  <2> QED BY <2>3 DEF RowOK
<1> QED BY <1>1, <1>2 DEF RowsInv, RowsOK

LEMMA QuietRows ==
  ASSUME IInv, RowsInv, tokens' = tokens, table' = table, computed' = computed, status' = status,
         kv' = kv, pc' # "run", pc # "run" \/ scheduled = << >>
  PROVE  RowsInv'
<1>1. computed \in [SeqId -> Nat] /\ (Unambiguous' => Unambiguous)
  BY SameUnambiguous DEF IInv, Types, TypeOK
<1>2. ASSUME NEW s \in SeqId, NEW k PROVE ~ToWrite(s, k)
  BY DEF ToWrite
<1>3. ASSUME NEW s \in SeqId, NEW k PROVE Upto(s, k)' = Upto(s, k)
  BY DEF Upto
<1> QED BY <1>1, <1>2, <1>3, RowsKept

LEMMA AllocateRows ==
  ASSUME IInv, RowsInv, Prolonged, tokens' = tokens, computed' = computed, kv' = kv, pc' = pc,
         pc \in {"running", "waiting"},
         \A s \in SeqId : status'[s] = "RUNNING" => status[s] = "RUNNING" \/ computed[s] = 0
  PROVE  RowsInv'
<1>1. computed \in [SeqId -> Nat] /\ (Unambiguous' => Unambiguous)
  BY SameUnambiguous DEF IInv, Types, TypeOK
<1>2. ASSUME NEW s \in SeqId, status'[s] = "RUNNING", NEW k \in 0 .. computed'[s] - 1
      PROVE  /\ status[s] = "RUNNING" /\ k \in 0 .. computed[s] - 1 /\ ~ToWrite(s, k)
             /\ table'[s][Place(k)] = table[s][Place(k)] /\ Upto(s, k)' = Upto(s, k)
  <2>1. k \in Nat /\ k < computed[s] /\ computed[s] # 0
    BY <1>1, <1>2
  <2>2. status[s] = "RUNNING"
    BY <1>2, <2>1
  <2>3. Place(k) \in DOMAIN table[s]
    BY <2>1, <2>2, TablesCover
  <2>4. table'[s][Place(k)] = table[s][Place(k)]
    BY <2>3 DEF Prolonged, Extends
  <2>5. ~ToWrite(s, k) /\ Upto(s, k)' = Upto(s, k)
    BY DEF ToWrite, Upto
  <2> QED BY <1>2, <2>2, <2>4, <2>5
<1> QED BY <1>1, <1>2, RowsKept

LEMMA ScheduleEndRows ==
  ASSUME IInv, RowsInv, ScheduleEnd
  PROVE  RowsInv'
<1>1. /\ pc = "waiting" /\ pc' = "run" /\ tokens' = tokens /\ table' = table /\ status' = status
      /\ scheduled' = scheduled /\ kv' = kv
  BY DEF ScheduleEnd
<1>t. /\ computed \in [SeqId -> Nat] /\ scheduled \in Seq(SeqId \X Nat) /\ Counted
  BY ScheduleEndInv DEF IInv, Types, TypeOK
<1>2. ASSUME NEW j \in DOMAIN scheduled
      PROVE  /\ scheduled[j][1] \in SeqId /\ scheduled[j][2] \in Nat
             /\ computed[scheduled[j][1]] \in Nat
             /\ computed'[scheduled[j][1]] = computed[scheduled[j][1]] + scheduled[j][2]
  <2>1. scheduled[j] \in SeqId \X Nat
    BY <1>t
  <2> QED BY <1>t, <2>1 DEF Counted
<1>3. ChunksCounted'
  <2>1. ASSUME NEW j \in DOMAIN scheduled PROVE scheduled[j][2] <= computed'[scheduled[j][1]]
    BY <1>2
  <2> QED BY <1>1, <2>1 DEF ChunksCounted
<1>4. ASSUME Unambiguous', NEW s \in SeqId, status'[s] = "RUNNING", NEW k \in 0 .. computed'[s] - 1
      PROVE  ToWrite(s, k)' \/ RowOK(s, k)'
  <2>1. CASE k \in 0 .. computed[s] - 1
    <3>1. ~ToWrite(s, k)
      BY <1>1 DEF ToWrite
    <3>2. Unambiguous /\ status[s] = "RUNNING"
      BY <1>1, <1>4, SameUnambiguous
    <3>3. RowOK(s, k)
      BY <2>1, <3>1, <3>2 DEF RowsInv, RowsOK
    <3> QED BY <1>1, <3>3 DEF RowOK, Upto
  <2>2. CASE k \notin 0 .. computed[s] - 1
    <3>1. computed[s] \in Nat /\ computed'[s] # computed[s] /\ k \in Int /\ ~(k < computed[s])
      BY <1>4, <1>t, <2>2
    <3> PICK j \in DOMAIN scheduled : scheduled[j][1] = s
      BY <1>t, <3>1 DEF Counted
    <3> PICK n \in Nat : n = scheduled[j][2] /\ computed'[s] = computed[s] + n
      BY <1>2
    <3>2. k >= computed'[s] - n
      BY ONLY <3>1, n \in Nat, computed'[s] = computed[s] + n
    <3> QED BY <1>1, <3>2 DEF ToWrite
  <2> QED BY <2>1, <2>2
<1> QED BY <1>3, <1>4 DEF RowsInv, RowsOK

LEMMA RunRowsInv ==
  ASSUME IInv, RowsInv, run
  PROVE  RowsInv'
<1>1. /\ pc' = "post" /\ tokens' = tokens /\ table' = table /\ status' = status /\ computed' = computed
  BY DEF run, seqVars
<1>t. computed \in [SeqId -> Nat]
  BY DEF IInv, Types, TypeOK
<1>2. ChunksCounted'
  BY <1>1 DEF ChunksCounted
<1>3. ASSUME Unambiguous', NEW s \in SeqId, status'[s] = "RUNNING", NEW k \in 0 .. computed'[s] - 1
      PROVE  RowOK(s, k)'
  <2>1. Unambiguous /\ status[s] = "RUNNING" /\ k \in Nat /\ k < computed[s]
    BY <1>1, <1>3, <1>t, SameUnambiguous
  <2>2. kv'[table[s][Place(k)]][Offset(k)] = Upto(s, k)
    BY <2>1, RunRows
  <2> QED BY <1>1, <2>2 DEF RowOK, Upto
<1> QED BY <1>2, <1>3 DEF RowsInv, RowsOK

LEMMA PreemptRows ==
  ASSUME IInv, RowsInv, Preempt
  PROVE  RowsInv'
<1> PICK v : v = Last(running)
  OBVIOUS
<1>1. /\ pc = "running" /\ pc' = pc /\ tokens' = tokens /\ kv' = kv
      /\ status' = [status EXCEPT ![v] = "WAITING"] /\ computed' = [computed EXCEPT ![v] = 0]
      /\ table' = [table EXCEPT ![v] = << >>]
  BY DEF Preempt, InRunningLoop, deallocate
<1>t. /\ computed \in [SeqId -> Nat] /\ table \in [SeqId -> Seq(Blocks)] /\ DOMAIN status = SeqId
      /\ (Unambiguous' => Unambiguous)
  BY <1>1, SameUnambiguous DEF IInv, Types, TypeOK
<1>2. ASSUME NEW s \in SeqId, status'[s] = "RUNNING", NEW k \in 0 .. computed'[s] - 1
      PROVE  /\ status[s] = "RUNNING" /\ k \in 0 .. computed[s] - 1 /\ ~ToWrite(s, k)
             /\ table'[s][Place(k)] = table[s][Place(k)] /\ Upto(s, k)' = Upto(s, k)
  <2>1. s # v
    BY <1>1, <1>2, <1>t
  <2>2. status'[s] = status[s] /\ computed'[s] = computed[s] /\ table'[s] = table[s]
    BY <1>1, <1>t, <2>1
  <2>3. ~ToWrite(s, k) /\ Upto(s, k)' = Upto(s, k)
    BY <1>1 DEF ToWrite, Upto
  <2> QED BY <1>2, <2>2, <2>3
<1>3. pc' # "run"
  BY <1>1
<1> QED BY <1>1, <1>2, <1>3, <1>t, RowsKept

LEMMA UptoAppend ==
  ASSUME tokens \in [SeqId -> Seq(Token)], NEW s \in SeqId, NEW x \in Token,
         tokens' = [tokens EXCEPT ![s] = Append(@, x)],
         NEW t \in SeqId, NEW k \in Nat, k < Len(tokens[t])
  PROVE  Upto(t, k)' = Upto(t, k)
<1>1. CASE t # s
  BY <1>1 DEF Upto
<1>2. CASE t = s
  <2> PICK q \in Seq(Token) : q = tokens[s]
    OBVIOUS
  <2>1. k + 1 \in Nat /\ k + 1 <= Len(q) /\ tokens'[t] = Append(q, x) /\ tokens[t] = q
    BY <1>2
  <2>2. SubSeq(Append(q, x), 0 + 1, k + 1) = SubSeq(q, 0 + 1, k + 1)
    <3>1. q \in Seq(Token) /\ x \in Token /\ 0 \in Nat /\ k + 1 \in Nat /\ k + 1 <= Len(q)
      BY <2>1
    <3> QED BY ONLY <3>1, SliceAppend
  <2> QED BY <2>1, <2>2 DEF Upto
<1> QED BY <1>1, <1>2

(* A token is appended; the other sequences, and this one if it goes on,   *)
(* keep their blocks and their rows.                                       *)
LEMMA TokenRows ==
  ASSUME IInv, RowsInv, pc = "post", pc' = "post", NEW s \in SeqId, NEW x \in Token,
         tokens' = [tokens EXCEPT ![s] = Append(@, x)], kv' = kv, computed' = computed,
         \A t \in SeqId : status'[t] = "RUNNING" => status[t] = "RUNNING" /\ table'[t] = table[t]
  PROVE  RowsInv'
<1>t. /\ computed \in [SeqId -> Nat] /\ tokens \in [SeqId -> Seq(Token)] /\ OfStep
  BY DEF IInv, Types, TypeOK, Control
<1>1. Unambiguous' => Unambiguous
  BY <1>t, UnambiguousBefore
<1>2. ASSUME NEW t \in SeqId, status'[t] = "RUNNING", NEW k \in 0 .. computed'[t] - 1
      PROVE  /\ status[t] = "RUNNING" /\ k \in 0 .. computed[t] - 1 /\ ~ToWrite(t, k)
             /\ table'[t][Place(k)] = table[t][Place(k)] /\ Upto(t, k)' = Upto(t, k)
  <2>1. status[t] = "RUNNING" /\ table'[t] = table[t] /\ k \in 0 .. computed[t] - 1
    BY <1>2
  <2>2. computed[t] <= Len(tokens[t]) /\ computed[t] \in Nat /\ Len(tokens[t]) \in Nat
    BY <1>t, <2>1 DEF OfStep, Covered
  <2>3. k \in Nat /\ k < Len(tokens[t])
    BY <2>1, <2>2
  <2>4. Upto(t, k)' = Upto(t, k)
    BY <1>t, <2>3, UptoAppend
  <2> QED BY <2>1, <2>4 DEF ToWrite
<1> QED BY <1>1, <1>2, <1>t, RowsKept

LEMMA PostRows ==
  ASSUME IInv, RowsInv, PostAppend \/ PostFinish
  PROVE  RowsInv'
<1>t. table \in [SeqId -> Seq(Blocks)] /\ DOMAIN status = SeqId
  BY DEF IInv, Types, TypeOK
<1>1. CASE PostAppend
  <2> PICK s \in SeqId, x \in Token : tokens' = [tokens EXCEPT ![s] = Append(@, x)]
    BY <1>1 DEF PostAppend
  <2>1. /\ pc = "post" /\ pc' = "post" /\ kv' = kv /\ computed' = computed
        /\ status' = status /\ table' = table
    BY <1>1 DEF PostAppend
  <2> QED BY <2>1, TokenRows
<1>2. CASE PostFinish
  <2> PICK s \in SeqId, x \in Token :
        /\ tokens' = [tokens EXCEPT ![s] = Append(@, x)]
        /\ status' = [status EXCEPT ![s] = "FINISHED"] /\ deallocate(s, table[s])
    BY <1>2 DEF PostFinish
  <2>1. pc = "post" /\ pc' = "post" /\ kv' = kv /\ computed' = computed
    BY <1>2 DEF PostFinish
  <2>2. table' = [table EXCEPT ![s] = << >>]
    BY DEF deallocate
  <2>3. ASSUME NEW t \in SeqId, status'[t] = "RUNNING"
        PROVE  status[t] = "RUNNING" /\ table'[t] = table[t]
    <3>1. t # s
      BY <1>t, <2>3
    <3> QED BY <1>t, <2>2, <2>3, <3>1
  <2> QED BY <2>1, <2>3, TokenRows
<1> QED BY <1>1, <1>2

LEMMA AddRows ==
  ASSUME IInv, RowsInv, add_request
  PROVE  RowsInv'
<1>1. /\ pc = "add" /\ pc' \in {"add", "step"} /\ status' = [status EXCEPT ![nextId] = "WAITING"]
  BY DEF add_request
<1>2. running = << >> /\ DOMAIN status = SeqId /\ Queues
  BY <1>1 DEF IInv, Types, TypeOK, Control, Queues
<1>3. ASSUME NEW s \in SeqId PROVE status'[s] # "RUNNING"
  BY <1>1, <1>2 DEF Queues, Queued
<1> QED BY <1>1, <1>3 DEF RowsInv, RowsOK, ChunksCounted

LEMMA RowsNext ==
  ASSUME IInv, RowsInv, [Next]_vars
  PROVE  RowsInv'
<1>1. CASE add_request
  BY <1>1, AddRows
<1>2. CASE ScheduleRunning
  <2>1. /\ Prolonged /\ tokens' = tokens /\ computed' = computed /\ kv' = kv /\ pc' = pc
        /\ pc = "running" /\ status' = status
    BY <1>2, ScheduleRunningInv DEF ScheduleRunning, InRunningLoop
  <2> QED BY <2>1, AllocateRows
<1>3. CASE Admit
  <2> PICK h : h = Head(waiting)
    OBVIOUS
  <2>1. /\ Prolonged /\ tokens' = tokens /\ computed' = computed /\ kv' = kv /\ pc' = pc
        /\ pc = "waiting" /\ status' = [status EXCEPT ![h] = "RUNNING"] /\ waiting # << >>
    BY <1>3, AdmitInv DEF Admit, CanAdmit
  <2>2. Queues /\ Lengths /\ DOMAIN status = SeqId /\ waiting \in Seq(SeqId)
    BY DEF IInv, Types, TypeOK, Control
  <2>3. 1 \in DOMAIN waiting /\ waiting[1] = h /\ h \in SeqId
    BY <2>1, <2>2
  <2>4. computed[h] = 0
    BY <2>2, <2>3 DEF Queues, Queued, Lengths
  <2>5. ASSUME NEW s \in SeqId, status'[s] = "RUNNING"
        PROVE  status[s] = "RUNNING" \/ computed[s] = 0
    BY <2>1, <2>2, <2>4, <2>5
  <2> QED BY <2>1, <2>5, AllocateRows
<1>4. CASE Preempt
  BY <1>4, PreemptRows
<1>5. CASE ScheduleEnd
  BY <1>5, ScheduleEndRows
<1>6. CASE run
  BY <1>6, RunRowsInv
<1>7. CASE PostAppend \/ PostFinish
  BY <1>7, PostRows
<1>8. CASE StepBegin \/ RunningEnd \/ RunNothing \/ PostDiscard \/ StepEnd \/ StepRaises
           \/ GenerateEnd \/ Raised
  <2>1. /\ tokens' = tokens /\ table' = table /\ computed' = computed /\ status' = status
        /\ kv' = kv /\ pc' # "run" /\ (pc # "run" \/ scheduled = << >>)
    BY <1>8 DEF StepBegin, RunningEnd, RunNothing, PostDiscard, StepEnd, StepRaises, GenerateEnd,
                Raised, seqVars, vars
  <2> QED BY <2>1, QuietRows
<1>9. CASE UNCHANGED vars
  <2>1. /\ tokens' = tokens /\ table' = table /\ computed' = computed /\ status' = status
        /\ kv' = kv /\ pc' = pc /\ scheduled' = scheduled
    BY <1>9 DEF vars
  <2>2. ChunksCounted'
    BY <2>1 DEF RowsInv, ChunksCounted
  <2>3. ASSUME Unambiguous', NEW s \in SeqId, status'[s] = "RUNNING", NEW k \in 0 .. computed'[s] - 1
        PROVE  ToWrite(s, k)' \/ RowOK(s, k)'
    <3>1. Unambiguous /\ status[s] = "RUNNING" /\ k \in 0 .. computed[s] - 1
      BY <2>1, <2>3, SameUnambiguous
    <3>2. ToWrite(s, k) \/ RowOK(s, k)
      BY <3>1 DEF RowsInv, RowsOK
    <3> QED BY <2>1, <3>2 DEF ToWrite, RowOK, Upto
  <2> QED BY <2>2, <2>3 DEF RowsInv, RowsOK
<1> QED BY <1>1, <1>2, <1>3, <1>4, <1>5, <1>6, <1>7, <1>8, <1>9 DEF Next

(* For an unambiguous workload, after every run the rows of whatever counts *)
(* as computed of a running sequence hold its own tokens up to there:       *)
(* through chunks that end inside a block, blocks shared before they are    *)
(* filled, eviction and recomputation (allocate_slots, schedule, run).      *)
THEOREM RowsAreFaithful == Spec => []KVFaithful
<1>1. Init => RowsInv
  <2> SUFFICES ASSUME Init PROVE RowsInv
    OBVIOUS
  <2>1. pc = "add" /\ \A s \in SeqId : status[s] = "none"
    BY DEF Init
  <2> QED BY <2>1 DEF RowsInv, RowsOK, ChunksCounted
<1>2. IInv /\ RowsInv /\ [Next]_vars => RowsInv'
  BY RowsNext
<1>3. Spec => []RowsInv
  BY <1>1, <1>2, Invariance, PTL DEF Spec
<1>4. IInv /\ RowsInv => KVFaithful
  <2> SUFFICES ASSUME IInv, RowsInv, pc = "post", Unambiguous, NEW s \in ToSet(running),
                      NEW k \in 0 .. computed[s] - 1
               PROVE  kv[table[s][(k \div BlockSize) + 1]][k % BlockSize] = SubSeq(tokens[s], 1, k + 1)
    BY DEF KVFaithful
  <2>1. Queues /\ running \in Seq(SeqId)
    BY DEF IInv, Types, TypeOK, Control
  <2> PICK j \in DOMAIN running : running[j] = s
    BY DEF ToSet
  <2>2. s \in SeqId /\ status[s] = "RUNNING"
    BY <2>1 DEF Queues, Queued
  <2>3. ~ToWrite(s, k)
    BY DEF ToWrite
  <2>4. RowOK(s, k)
    BY <2>2, <2>3 DEF RowsInv, RowsOK
  <2> QED BY <2>4 DEF RowOK, Place, Offset, Upto
<1> QED BY <1>3, <1>4, Invariance, PTL

=============================================================================
