------------------------- MODULE BlockManagerProofs -------------------------
(***************************************************************************)
(* Proofs about the block manager, for every pool size, block size, set of *)
(* sequences and set of prompts.                                           *)
(***************************************************************************)
EXTENDS BlockManager, TLAPS, FiniteSetTheorems, SequenceTheorems

(***************************************************************************)
(* The inductive invariant.  RefCount speaks of the cardinality of         *)
(* Holders(b), which the theorems about finite sets only determine when    *)
(* the set is finite, so the finiteness is carried along.                  *)
(***************************************************************************)
HoldersFinite == \A b \in Blocks : IsFiniteSet(Holders(b))
PoolInv == HoldersFinite /\ RefCount /\ Partition
HeldHaveTokens == \A s \in SeqId : table[s] # << >> => tokens[s] # << >>
BMInv == BMTypeOK /\ PoolInv /\ HeldHaveTokens

-----------------------------------------------------------------------------
(* RemoveAt at the first place of an entry: the entries behind it move up. *)
LEMMA Removal ==
  ASSUME NEW S, NEW q \in Seq(S), NEW b \in ToSet(q)
  PROVE  /\ RemoveFromDeque(q, b) \in Seq(S)
         /\ Len(RemoveFromDeque(q, b)) = Len(q) - 1
         /\ \E n \in 1 .. Len(q) :
              /\ q[n] = b
              /\ \A k \in 1 .. Len(q) - 1 :
                   RemoveFromDeque(q, b)[k] = IF k < n THEN q[k] ELSE q[k + 1]
<1> DEFINE n == CHOOSE k \in DOMAIN q : q[k] = b
           r == RemoveFromDeque(q, b)
<1>1. n \in 1 .. Len(q) /\ q[n] = b
  BY DEF ToSet
<1>2. r = SubSeq(q, 1, n - 1) \o SubSeq(q, n + 1, Len(q))
  BY DEF RemoveFromDeque, RemoveAt
<1> HIDE DEF n, r
<1>3. /\ r \in Seq(S) /\ Len(r) = Len(q) - 1
      /\ \A k \in 1 .. Len(q) - 1 : r[k] = IF k < n THEN q[k] ELSE q[k + 1]
  <2> DEFINE front == SubSeq(q, 1, n - 1)
             back == SubSeq(q, n + 1, Len(q))
  <2>1. /\ front \in Seq(S) /\ Len(front) = n - 1
        /\ \A k \in 1 .. n - 1 : front[k] = q[k]
    BY <1>1
  <2>2. /\ back \in Seq(S) /\ Len(back) = Len(q) - n
        /\ \A k \in 1 .. Len(q) - n : back[k] = q[n + k]
    BY <1>1
  <2> HIDE DEF front, back
  <2>3. r = front \o back
    BY <1>2 DEF front, back
  <2>4. /\ r \in Seq(S) /\ Len(r) = Len(front) + Len(back)
        /\ \A k \in 1 .. Len(front) + Len(back) :
             r[k] = IF k <= Len(front) THEN front[k] ELSE back[k - Len(front)]
    BY <2>1, <2>2, <2>3, ConcatProperties
  <2>5. ASSUME NEW k \in 1 .. Len(q) - 1
        PROVE  r[k] = IF k < n THEN q[k] ELSE q[k + 1]
    <3>1. CASE k < n
      <4>1. k \in 1 .. n - 1 /\ k \in 1 .. Len(front) + Len(back) /\ k <= Len(front)
        BY <3>1, <1>1, <2>1, <2>2
      <4>2. r[k] = front[k] /\ front[k] = q[k]
        BY <4>1, <2>1, <2>4
      <4> QED BY <3>1, <4>2
    <3>2. CASE ~(k < n)
      <4>0. k \in 1 .. Len(front) + Len(back) /\ ~(k <= Len(front))
        BY <3>2, <1>1, <2>1, <2>2
      <4>1. r[k] = back[k - (n - 1)]
        BY <4>0, <2>1, <2>4
      <4>2. k - (n - 1) \in 1 .. Len(q) - n
        BY <3>2, <1>1
      <4>3. n + (k - (n - 1)) = k + 1
        BY <1>1
      <4> QED BY <3>2, <4>1, <4>2, <4>3, <2>2
    <3> QED BY <3>1, <3>2
  <2> QED BY <1>1, <2>1, <2>2, <2>4, <2>5
<1> QED BY <1>1, <1>3 DEF r

(* Removing an entry of a deque without duplicates (free_block_ids.remove)  *)
(* removes that block and nothing else, and leaves no duplicate behind.     *)
LEMMA DequeRemove ==
  ASSUME NEW q \in Seq(Blocks), NEW b \in ToSet(q),
         \A j, k \in DOMAIN q : q[j] = q[k] => j = k
  PROVE  /\ RemoveFromDeque(q, b) \in Seq(Blocks)
         /\ Len(RemoveFromDeque(q, b)) = Len(q) - 1
         /\ ToSet(RemoveFromDeque(q, b)) = ToSet(q) \ {b}
         /\ \A j, k \in DOMAIN RemoveFromDeque(q, b) :
              RemoveFromDeque(q, b)[j] = RemoveFromDeque(q, b)[k] => j = k
<1> DEFINE r == RemoveFromDeque(q, b)
<1>0. /\ r \in Seq(Blocks) /\ Len(r) = Len(q) - 1
      /\ \E n \in 1 .. Len(q) :
           q[n] = b /\ \A k \in 1 .. Len(q) - 1 : r[k] = IF k < n THEN q[k] ELSE q[k + 1]
  BY Removal
<1> HIDE DEF r
<1> PICK n \in 1 .. Len(q) :
      q[n] = b /\ \A k \in 1 .. Len(q) - 1 : r[k] = IF k < n THEN q[k] ELSE q[k + 1]
  BY <1>0
<1>1. n \in 1 .. Len(q) /\ q[n] = b
  OBVIOUS
<1>3. /\ r \in Seq(Blocks) /\ Len(r) = Len(q) - 1
      /\ \A k \in 1 .. Len(q) - 1 : r[k] = IF k < n THEN q[k] ELSE q[k + 1]
  BY <1>0
<1>4. ToSet(r) \subseteq ToSet(q) \ {b}
  <2> SUFFICES ASSUME NEW k \in 1 .. Len(r) PROVE r[k] \in ToSet(q) \ {b}
    BY <1>3 DEF ToSet
  <2> DEFINE kk == IF k < n THEN k ELSE k + 1
  <2>1. kk \in DOMAIN q /\ kk # n /\ r[k] = q[kk]
    BY <1>1, <1>3
  <2>2. q[kk] # b
    BY <1>1, <2>1
  <2> QED BY <2>1, <2>2 DEF ToSet
<1>5. ASSUME NEW c \in ToSet(q) \ {b} PROVE c \in ToSet(r)
  <2>1. PICK k \in 1 .. Len(q) : q[k] = c /\ k # n
    BY <1>1 DEF ToSet
  <2>2. CASE k < n
    BY <2>1, <2>2, <1>1, <1>3 DEF ToSet
  <2>3. CASE k > n
    <3>1. k - 1 \in 1 .. Len(q) - 1 /\ r[k - 1] = q[k]
      BY <2>1, <2>3, <1>1, <1>3
    <3> QED BY <3>1, <2>1, <1>3 DEF ToSet
  <2> QED BY <1>1, <2>1, <2>2, <2>3
<1>6. \A j, k \in DOMAIN r : r[j] = r[k] => j = k
  <2> SUFFICES ASSUME NEW j \in 1 .. Len(q) - 1, NEW k \in 1 .. Len(q) - 1, r[j] = r[k]
               PROVE  j = k
    BY <1>3
  <2> DEFINE jj == IF j < n THEN j ELSE j + 1
             kk == IF k < n THEN k ELSE k + 1
  <2>1. jj \in DOMAIN q /\ kk \in DOMAIN q
    BY <1>1
  <2>2. r[j] = q[jj] /\ r[k] = q[kk]
    BY <1>3
  <2>3. jj = kk
    BY <2>1, <2>2
  <2> QED BY <2>3, <1>1
<1> QED BY <1>3, <1>4, <1>5, <1>6 DEF r

(* Appending a block that is not in the deque leaves it without duplicates. *)
LEMMA DequeAppend ==
  ASSUME NEW q \in Seq(Blocks), NEW b \in Blocks, b \notin ToSet(q),
         \A j, k \in DOMAIN q : q[j] = q[k] => j = k
  PROVE  /\ ToSet(Append(q, b)) = ToSet(q) \cup {b}
         /\ \A j, k \in DOMAIN Append(q, b) : Append(q, b)[j] = Append(q, b)[k] => j = k
<1> DEFINE r == Append(q, b)
<1>1. /\ DOMAIN r = 1 .. Len(q) + 1 /\ r[Len(q) + 1] = b
      /\ DOMAIN q = 1 .. Len(q) /\ \A k \in 1 .. Len(q) : r[k] = q[k]
      /\ Len(q) \in Nat
  OBVIOUS
<1> HIDE DEF r
<1>2. \A k \in 1 .. Len(q) : q[k] # b
  BY <1>1 DEF ToSet
<1>3. \A c : c \in ToSet(r) <=> c \in ToSet(q) \/ c = b
  <2>1. \A c : c \in ToSet(r) <=> \E k \in 1 .. Len(q) + 1 : r[k] = c
    BY <1>1 DEF ToSet
  <2>2. \A c : c \in ToSet(q) <=> \E k \in 1 .. Len(q) : q[k] = c
    BY <1>1 DEF ToSet
  <2> QED BY <1>1, <2>1, <2>2
<1>4. \A j, k \in DOMAIN r : r[j] = r[k] => j = k
  BY <1>1, <1>2
<1>5. ToSet(r) = ToSet(q) \cup {b}
  BY <1>3
<1> QED BY <1>4, <1>5 DEF r

(* Appending a block to a table adds one place to the holders of that      *)
(* block.                                                                  *)
LEMMA HoldersAppend ==
  ASSUME table \in [SeqId -> Seq(Blocks)], NEW s \in SeqId, NEW b \in Blocks,
         table' = [table EXCEPT ![s] = Append(@, b)]
  PROVE  /\ table' \in [SeqId -> Seq(Blocks)]
         /\ Holders(b)' = Holders(b) \cup {<<s, Len(table[s]) + 1>>}
         /\ <<s, Len(table[s]) + 1>> \notin Holders(b)
         /\ \A c \in Blocks \ {b} : Holders(c)' = Holders(c)
  BY DEF Holders

(* Dropping the last entry of a table removes one place from the holders   *)
(* of the block it named.                                                  *)
LEMMA HoldersFront ==
  ASSUME table \in [SeqId -> Seq(Blocks)], NEW s \in SeqId, table[s] # << >>,
         NEW b, b = Last(table[s]),
         table' = [table EXCEPT ![s] = Front(@)]
  PROVE  /\ table' \in [SeqId -> Seq(Blocks)]
         /\ b \in Blocks
         /\ Holders(b)' = Holders(b) \ {<<s, Len(table[s])>>}
         /\ <<s, Len(table[s])>> \in Holders(b)
         /\ \A c \in Blocks \ {b} : Holders(c)' = Holders(c)
<1>1. /\ Len(table[s]) \in DOMAIN table[s] /\ b = table[s][Len(table[s])]
      /\ b \in Blocks
  BY DEF Last
<1>2. /\ table' \in [SeqId -> Seq(Blocks)]
      /\ \A t \in SeqId \ {s} : table'[t] = table[t]
      /\ DOMAIN table'[s] = DOMAIN table[s] \ {Len(table[s])}
      /\ \A k \in DOMAIN table'[s] : table'[s][k] = table[s][k]
  BY DEF Front
<1>3. \A c : \A p : p \in Holders(c) <=>
        \E t \in SeqId : \E k \in DOMAIN table[t] : p = <<t, k>> /\ table[t][k] = c
  BY DEF Holders
<1>4. \A c : \A p : p \in Holders(c)' <=>
        \E t \in SeqId : \E k \in DOMAIN table'[t] : p = <<t, k>> /\ table'[t][k] = c
  BY DEF Holders
<1>5. \A c \in Blocks : \A p : p \in Holders(c)' <=> p \in Holders(c) /\ p # <<s, Len(table[s])>>
  BY <1>2, <1>3, <1>4
<1>6. \A c \in Blocks \ {b} : <<s, Len(table[s])>> \notin Holders(c)
  BY <1>1, <1>3
<1>7. <<s, Len(table[s])>> \in Holders(b)
  BY <1>1, <1>3
<1>8. Holders(b)' = Holders(b) \ {<<s, Len(table[s])>>}
  <2> DEFINE H == Holders(b)  HP == Holders(b)'  e == <<s, Len(table[s])>>
  <2>1. \A p : p \in HP <=> p \in H /\ p # e
    BY <1>1, <1>5
  <2> HIDE DEF H, HP, e
  <2>2. HP = H \ {e}
    BY <2>1
  <2> QED BY <2>2 DEF H, HP, e
<1>9. ASSUME NEW c \in Blocks \ {b} PROVE Holders(c)' = Holders(c)
  <2> DEFINE H == Holders(c)  HP == Holders(c)'
  <2>1. \A p : p \in HP <=> p \in H
    BY <1>5, <1>6
  <2> HIDE DEF H, HP
  <2>2. HP = H
    BY <2>1
  <2> QED BY <2>2 DEF H, HP
<1> QED BY <1>1, <1>2, <1>7, <1>8, <1>9

-----------------------------------------------------------------------------
(* The two facts about cardinality the reference counts rest on. *)
LEMMA CardinalityAdd ==
  ASSUME NEW S, NEW T, NEW e, IsFiniteSet(S), T = S \cup {e}, e \notin S
  PROVE  IsFiniteSet(T) /\ Cardinality(T) = Cardinality(S) + 1
  BY FS_AddElement

LEMMA CardinalityRemove ==
  ASSUME NEW S, NEW T, NEW e, IsFiniteSet(S), T = S \ {e}, e \in S
  PROVE  /\ IsFiniteSet(T) /\ Cardinality(T) = Cardinality(S) - 1
         /\ Cardinality(S) # 0
  BY FS_RemoveElement, FS_EmptySet

(* _allocate_block followed by the append to a block table (allocate on a  *)
(* miss or a revived block, may_append) preserves the pool invariant.      *)
LEMMA TakeBlock ==
  ASSUME BMTypeOK, PoolInv, NEW s \in SeqId, NEW b \in Blocks,
         _allocate_block(b), table' = [table EXCEPT ![s] = Append(@, b)]
  PROVE  /\ PoolInv'
         /\ ref' \in [Blocks -> Nat] /\ free' \in Seq(Blocks) /\ used' \in SUBSET Blocks
         /\ table' \in [SeqId -> Seq(Blocks)]
<1>1. /\ table' \in [SeqId -> Seq(Blocks)]
      /\ Holders(b)' = Holders(b) \cup {<<s, Len(table[s]) + 1>>}
      /\ <<s, Len(table[s]) + 1>> \notin Holders(b)
      /\ \A c \in Blocks \ {b} : Holders(c)' = Holders(c)
  BY HoldersAppend DEF BMTypeOK
<1>2. /\ ref[b] = 0 /\ b \in ToSet(free)
      /\ ref' = [ref EXCEPT ![b] = 1] /\ ref' \in [Blocks -> Nat]
      /\ used' = used \cup {b} /\ used' \in SUBSET Blocks
  BY DEF _allocate_block, BMTypeOK
<1>3. /\ free' \in Seq(Blocks)
      /\ ToSet(free') = ToSet(free) \ {b}
      /\ \A j, k \in DOMAIN free' : free'[j] = free'[k] => j = k
  BY <1>2, DequeRemove DEF _allocate_block, BMTypeOK, PoolInv, Partition
<1>4. Partition'
  <2>1. Partition /\ used \in SUBSET Blocks /\ ref \in [Blocks -> Nat]
    BY DEF PoolInv, BMTypeOK
  <2>2. \A c \in Blocks : c \in ToSet(free') <=> c \notin used'
    BY <1>2, <1>3, <2>1 DEF Partition
  <2>3. \A c \in Blocks : c \in used' <=> ref'[c] > 0
    BY <1>2, <2>1 DEF Partition
  <2> QED BY <1>3, <2>2, <2>3 DEF Partition
<1>5. IsFiniteSet(Holders(b)) /\ Cardinality(Holders(b)) = 0
  BY <1>2 DEF PoolInv, HoldersFinite, RefCount
<1>6. IsFiniteSet(Holders(b)') /\ Cardinality(Holders(b)') = 1
  <2> PICK S, T, e : S = Holders(b) /\ T = Holders(b)' /\ e = <<s, Len(table[s]) + 1>>
    OBVIOUS
  <2>1. IsFiniteSet(S) /\ T = S \cup {e} /\ e \notin S
    BY <1>1, <1>5
  <2>2. IsFiniteSet(T) /\ Cardinality(T) = Cardinality(S) + 1
    BY ONLY <2>1, CardinalityAdd
  <2> QED BY <2>2, <1>5
<1>7. HoldersFinite'
  BY <1>1, <1>6 DEF PoolInv, HoldersFinite
<1>8. RefCount'
  BY <1>1, <1>2, <1>6 DEF PoolInv, RefCount, BMTypeOK
<1> QED BY <1>1, <1>2, <1>3, <1>4, <1>7, <1>8 DEF PoolInv

(* A hit on a used block (one more reference, one more entry) preserves it. *)
LEMMA ShareBlock ==
  ASSUME BMTypeOK, PoolInv, NEW s \in SeqId, NEW b \in used,
         ref' = [ref EXCEPT ![b] = @ + 1], UNCHANGED <<free, used>>,
         table' = [table EXCEPT ![s] = Append(@, b)]
  PROVE  /\ PoolInv'
         /\ ref' \in [Blocks -> Nat] /\ table' \in [SeqId -> Seq(Blocks)]
<1>1. b \in Blocks /\ ref' \in [Blocks -> Nat]
  BY DEF BMTypeOK
<1>2. /\ table' \in [SeqId -> Seq(Blocks)]
      /\ Holders(b)' = Holders(b) \cup {<<s, Len(table[s]) + 1>>}
      /\ <<s, Len(table[s]) + 1>> \notin Holders(b)
      /\ \A c \in Blocks \ {b} : Holders(c)' = Holders(c)
  BY <1>1, HoldersAppend DEF BMTypeOK
<1>3. Partition'
  <2>1. Partition /\ ref \in [Blocks -> Nat] /\ UNCHANGED <<free, used>>
    BY DEF PoolInv, BMTypeOK
  <2>2. \A c \in Blocks : ref'[c] > 0 <=> ref[c] > 0
    <3>1. ref[b] \in Nat /\ ref[b] > 0 /\ ref'[b] = ref[b] + 1
      BY <1>1, <2>1 DEF Partition
    <3>2. \A c \in Blocks \ {b} : ref'[c] = ref[c]
      BY <2>1
    <3> QED BY <3>1, <3>2
  <2> QED BY <2>1, <2>2 DEF Partition
<1>4. IsFiniteSet(Holders(b)) /\ Cardinality(Holders(b)) = ref[b]
  BY <1>1 DEF PoolInv, HoldersFinite, RefCount
<1>5. IsFiniteSet(Holders(b)') /\ Cardinality(Holders(b)') = ref[b] + 1
  <2> PICK S, T, e : S = Holders(b) /\ T = Holders(b)' /\ e = <<s, Len(table[s]) + 1>>
    OBVIOUS
  <2>1. IsFiniteSet(S) /\ T = S \cup {e} /\ e \notin S
    BY <1>2, <1>4
  <2>2. IsFiniteSet(T) /\ Cardinality(T) = Cardinality(S) + 1
    BY ONLY <2>1, CardinalityAdd
  <2> QED BY <2>2, <1>4
<1>6. HoldersFinite'
  BY <1>2, <1>5 DEF PoolInv, HoldersFinite
<1>7. RefCount'
  BY <1>1, <1>2, <1>5 DEF PoolInv, RefCount, BMTypeOK
<1> QED BY <1>1, <1>2, <1>3, <1>6, <1>7 DEF PoolInv

(* One iteration of deallocate preserves it: the block whose last reference *)
(* goes is the block that goes back to the deque.                           *)
LEMMA DropBlock ==
  ASSUME BMTypeOK, PoolInv, NEW s \in SeqId, table[s] # << >>, NEW b, b = Last(table[s]),
         ref' = [ref EXCEPT ![b] = @ - 1],
         used' = IF ref[b] = 1 THEN used \ {b} ELSE used,
         free' = IF ref[b] = 1 THEN Append(free, b) ELSE free,
         table' = [table EXCEPT ![s] = Front(@)]
  PROVE  /\ PoolInv'
         /\ ref' \in [Blocks -> Nat] /\ free' \in Seq(Blocks) /\ used' \in SUBSET Blocks
         /\ table' \in [SeqId -> Seq(Blocks)]
<1>1. /\ table' \in [SeqId -> Seq(Blocks)]
      /\ b \in Blocks
      /\ Holders(b)' = Holders(b) \ {<<s, Len(table[s])>>}
      /\ <<s, Len(table[s])>> \in Holders(b)
      /\ \A c \in Blocks \ {b} : Holders(c)' = Holders(c)
  BY HoldersFront DEF BMTypeOK
<1>0. ref \in [Blocks -> Nat] /\ free \in Seq(Blocks) /\ used \in SUBSET Blocks
  BY DEF BMTypeOK
<1>a. IsFiniteSet(Holders(b)) /\ Cardinality(Holders(b)) = ref[b]
  BY <1>1 DEF PoolInv, HoldersFinite, RefCount
<1>b. /\ IsFiniteSet(Holders(b)') /\ Cardinality(Holders(b)') = ref[b] - 1
      /\ ref[b] # 0
  BY <1>1, <1>a, CardinalityRemove
<1>2. HoldersFinite'
  BY <1>1, <1>b DEF PoolInv, HoldersFinite
<1>3. ref[b] > 0
  BY <1>0, <1>1, <1>b
<1>4. /\ ref' \in [Blocks -> Nat] /\ free' \in Seq(Blocks) /\ used' \in SUBSET Blocks
  <2>1. ref[b] - 1 \in Nat
    BY <1>0, <1>1, <1>3
  <2>2. ref' \in [Blocks -> Nat]
    BY <1>0, <1>1, <2>1
  <2>3. free' \in Seq(Blocks)
    BY <1>0, <1>1
  <2>4. used' \in SUBSET Blocks
    BY <1>0
  <2> QED BY <2>2, <2>3, <2>4
<1>5. RefCount'
  BY <1>0, <1>1, <1>b DEF PoolInv, RefCount
<1>6. Partition'
  <2>1. CASE ref[b] # 1
    <3>1. UNCHANGED <<free, used>> /\ \A c \in Blocks : ref'[c] > 0 <=> ref[c] > 0
      BY <2>1, <1>0, <1>1, <1>3
    <3> QED BY <3>1 DEF PoolInv, Partition, ToSet
  <2>2. CASE ref[b] = 1
    <3>1. b \in used /\ b \notin ToSet(free)
      BY <1>1, <1>3 DEF PoolInv, Partition
    <3>2. /\ free' = Append(free, b) /\ used' = used \ {b}
          /\ ref'[b] = 0 /\ \A c \in Blocks \ {b} : ref'[c] = ref[c]
      BY <2>2, <1>0, <1>1
    <3>3. /\ ToSet(free') = ToSet(free) \cup {b}
          /\ \A j, k \in DOMAIN free' : free'[j] = free'[k] => j = k
      <4>1. free \in Seq(Blocks) /\ \A j, k \in DOMAIN free : free[j] = free[k] => j = k
        BY DEF PoolInv, Partition, BMTypeOK
      <4>2. /\ ToSet(Append(free, b)) = ToSet(free) \cup {b}
            /\ \A j, k \in DOMAIN Append(free, b) :
                 Append(free, b)[j] = Append(free, b)[k] => j = k
        BY <1>1, <3>1, <4>1, DequeAppend
      <4>3. free' = Append(free, b)
        BY <3>2
      <4> QED BY ONLY <4>2, <4>3
    <3> QED BY <1>1, <3>1, <3>2, <3>3 DEF PoolInv, Partition
  <2> QED BY <2>1, <2>2
<1> QED BY <1>1, <1>2, <1>4, <1>5, <1>6 DEF PoolInv

-----------------------------------------------------------------------------
(* What depends on the tables and the pool only. *)
LEMMA PoolStutter ==
  ASSUME PoolInv, UNCHANGED <<ref, free, used, table>>
  PROVE  PoolInv'
  BY DEF PoolInv, HoldersFinite, RefCount, Partition, Holders, ToSet

(* The fields of an activation record. *)
LEMMA CallFields ==
  ASSUME call \in CallType
  PROVE  /\ call.op = "allocate" =>
              /\ call.seq \in SeqId /\ call.i \in Nat
              /\ call.h \in Seq(Token) /\ call.miss \in BOOLEAN
         /\ call.op = "deallocate" => call.seq \in SeqId
  BY DEF CallType, NoCall

(* Sequence.block(i) is a sequence of tokens for a block that exists. *)
LEMMA BlockType ==
  ASSUME tokens \in [SeqId -> Seq(Token)], NEW s \in SeqId, NEW i \in Nat, i < num_blocks(s)
  PROVE  block(s, i) \in Seq(Token)
  BY BlockSizeAssumption DEF block, num_blocks

LEMMA NumBlocksPositive ==
  ASSUME tokens \in [SeqId -> Seq(Token)], NEW s \in SeqId
  PROVE  num_blocks(s) \in Nat /\ (num_blocks(s) > 0 <=> tokens[s] # << >>)
<1> PICK n \in Nat : n = Len(tokens[s]) /\ (n = 0 <=> tokens[s] = << >>)
  OBVIOUS
<1>1. num_blocks(s) = (n + BlockSize - 1) \div BlockSize
  BY DEF num_blocks
<1>2. /\ (n + BlockSize - 1) \div BlockSize \in Nat
      /\ (n + BlockSize - 1) \div BlockSize > 0 <=> n # 0
  BY ONLY BlockSizeAssumption, n \in Nat
<1> QED BY <1>1, <1>2

LEMMA MapToType ==
  ASSUME NEW m, m \in [DOMAIN m -> Blocks], NEW h, NEW b \in Blocks
  PROVE  MapTo(m, h, b) \in [DOMAIN MapTo(m, h, b) -> Blocks]
  BY DEF MapTo

(* The values of an iteration of allocate. *)
LEMMA IterTypes ==
  ASSUME BMTypeOK, InAllocateLoop
  PROVE  /\ call.seq \in SeqId /\ call.i \in Nat /\ tokens[call.seq] # << >>
         /\ IterTokens \in Seq(Token) /\ IterHash \in Seq(Token)
         /\ IterHit => h2b[IterHash] \in Blocks
<1>1. /\ call.seq \in SeqId /\ call.i \in Nat /\ call.h \in Seq(Token)
      /\ call.i < num_blocks(call.seq)
  BY CallFields DEF BMTypeOK, InAllocateLoop
<1>2. IterTokens \in Seq(Token)
  BY <1>1, BlockType DEF IterTokens, BMTypeOK
<1>3. IterHash \in Seq(Token)
  BY <1>1, <1>2, ConcatProperties DEF IterHash, compute_hash, NoHash
<1>4. tokens[call.seq] # << >>
  BY <1>1, NumBlocksPositive DEF BMTypeOK
<1>5. IterHit => h2b[IterHash] \in Blocks
  BY DEF IterHit, BMTypeOK
<1> QED BY <1>1, <1>2, <1>3, <1>4, <1>5

(* The end of an iteration of allocate keeps the types it touches. *)
LEMMA IterEndTypes ==
  ASSUME BMTypeOK, InAllocateLoop, NEW b \in Blocks, IterEnd(b)
  PROVE  /\ hash' \in [Blocks -> Seq(Token)] /\ content' \in [Blocks -> Seq(Token)]
         /\ h2b' \in [DOMAIN h2b' -> Blocks]
         /\ tokens' \in [SeqId -> Seq(Token)] /\ pending' \in [SeqId -> BOOLEAN]
         /\ call' \in CallType
         /\ table' = [table EXCEPT ![call.seq] = Append(@, b)]
         /\ HeldHaveTokens => HeldHaveTokens'
<1>1. /\ call.seq \in SeqId /\ call.i \in Nat /\ tokens[call.seq] # << >>
      /\ IterTokens \in Seq(Token) /\ IterHash \in Seq(Token)
  BY IterTypes
<1>2. hash' \in [Blocks -> Seq(Token)]
  BY <1>1 DEF IterEnd, BMTypeOK
<1>3. content' \in [Blocks -> Seq(Token)]
  BY <1>1 DEF IterEnd, BMTypeOK
<1>4. h2b' \in [DOMAIN h2b' -> Blocks]
  BY MapToType DEF IterEnd, BMTypeOK
<1>5. tokens' \in [SeqId -> Seq(Token)] /\ pending' \in [SeqId -> BOOLEAN]
  BY DEF IterEnd, BMTypeOK
<1>6. call' \in CallType
  <2>1. (~IterHit) \in BOOLEAN
    BY DEF IterHit
  <2>2. call' = [op |-> "allocate", seq |-> call.seq, i |-> call.i + 1, h |-> IterHash,
                 miss |-> ~IterHit]
    BY DEF IterEnd, AllocateFrame
  <2> QED BY <1>1, <2>1, <2>2 DEF CallType
<1>7. HeldHaveTokens => HeldHaveTokens'
  BY <1>1 DEF IterEnd, HeldHaveTokens, BMTypeOK
<1> QED BY <1>2, <1>3, <1>4, <1>5, <1>6, <1>7 DEF IterEnd

-----------------------------------------------------------------------------
LEMMA BMInitInv == BMInit => BMInv
<1> SUFFICES ASSUME BMInit PROVE BMInv
  OBVIOUS
<1> USE NumBlocksAssumption
<1>1. BMTypeOK
  <2>1. free \in Seq(Blocks)
    BY DEF BMInit, Blocks
  <2>2. hash \in [Blocks -> Seq(Token)] /\ content \in [Blocks -> Seq(Token)]
    BY DEF BMInit, NoHash
  <2>3. h2b \in [DOMAIN h2b -> Blocks] /\ call \in CallType
    BY DEF BMInit, EmptyMap, CallType
  <2>4. /\ tokens \in [SeqId -> Seq(Token)] /\ table \in [SeqId -> Seq(Blocks)]
        /\ cached \in [SeqId -> Nat] /\ pending \in [SeqId -> BOOLEAN]
        /\ ref \in [Blocks -> Nat] /\ used \in SUBSET Blocks
    BY DEF BMInit
  <2> QED BY <2>1, <2>2, <2>3, <2>4 DEF BMTypeOK
<1>2. \A b \in Blocks : Holders(b) = {}
  BY DEF BMInit, Holders
<1>3. HoldersFinite /\ RefCount
  BY <1>2, FS_EmptySet DEF HoldersFinite, RefCount, BMInit
<1>4. Partition
  BY DEF BMInit, Partition, ToSet, Blocks
<1> QED BY <1>1, <1>3, <1>4 DEF BMInv, PoolInv, HeldHaveTokens, BMInit

(* The actions that take a block out of the deque. *)
LEMMA AllocateMissInv == BMInv /\ AllocateMiss => BMInv'
<1> SUFFICES ASSUME BMInv, AllocateMiss PROVE BMInv'
  OBVIOUS
<1> DEFINE b == Head(free)
<1>1. b \in Blocks /\ call.seq \in SeqId /\ InAllocateLoop
  BY IterTypes DEF BMInv, BMTypeOK, AllocateMiss
<1> HIDE DEF b
<1>2. _allocate_block(b) /\ IterEnd(b) /\ UNCHANGED cached
  BY DEF AllocateMiss, b
<1>3. /\ hash' \in [Blocks -> Seq(Token)] /\ content' \in [Blocks -> Seq(Token)]
      /\ h2b' \in [DOMAIN h2b' -> Blocks]
      /\ tokens' \in [SeqId -> Seq(Token)] /\ pending' \in [SeqId -> BOOLEAN]
      /\ call' \in CallType
      /\ table' = [table EXCEPT ![call.seq] = Append(@, b)]
      /\ HeldHaveTokens'
  BY <1>1, <1>2, IterEndTypes DEF BMInv
<1>4. /\ PoolInv'
      /\ ref' \in [Blocks -> Nat] /\ free' \in Seq(Blocks) /\ used' \in SUBSET Blocks
      /\ table' \in [SeqId -> Seq(Blocks)]
  BY <1>1, <1>2, <1>3, TakeBlock DEF BMInv
<1>5. cached' \in [SeqId -> Nat]
  BY <1>2 DEF BMInv, BMTypeOK
<1> QED BY <1>3, <1>4, <1>5 DEF BMInv, BMTypeOK

LEMMA AllocateReviveInv == BMInv /\ AllocateRevive => BMInv'
<1> SUFFICES ASSUME BMInv, AllocateRevive PROVE BMInv'
  OBVIOUS
<1> DEFINE b == h2b[IterHash]
<1>1. b \in Blocks /\ call.seq \in SeqId /\ InAllocateLoop
  BY IterTypes DEF BMInv, AllocateRevive
<1> HIDE DEF b
<1>2. /\ _allocate_block(b) /\ IterEnd(b)
      /\ cached' = [cached EXCEPT ![call.seq] = @ + BlockSize]
  BY DEF AllocateRevive, b
<1>3. /\ hash' \in [Blocks -> Seq(Token)] /\ content' \in [Blocks -> Seq(Token)]
      /\ h2b' \in [DOMAIN h2b' -> Blocks]
      /\ tokens' \in [SeqId -> Seq(Token)] /\ pending' \in [SeqId -> BOOLEAN]
      /\ call' \in CallType
      /\ table' = [table EXCEPT ![call.seq] = Append(@, b)]
      /\ HeldHaveTokens'
  BY <1>1, <1>2, IterEndTypes DEF BMInv
<1>4. /\ PoolInv'
      /\ ref' \in [Blocks -> Nat] /\ free' \in Seq(Blocks) /\ used' \in SUBSET Blocks
      /\ table' \in [SeqId -> Seq(Blocks)]
  BY <1>1, <1>2, <1>3, TakeBlock DEF BMInv
<1>5. cached' \in [SeqId -> Nat]
  BY <1>1, <1>2, BlockSizeAssumption DEF BMInv, BMTypeOK
<1> QED BY <1>3, <1>4, <1>5 DEF BMInv, BMTypeOK

LEMMA AllocateShareInv == BMInv /\ AllocateShare => BMInv'
<1> SUFFICES ASSUME BMInv, AllocateShare PROVE BMInv'
  OBVIOUS
<1> DEFINE b == h2b[IterHash]
<1>1. b \in Blocks /\ b \in used /\ call.seq \in SeqId /\ InAllocateLoop
  BY IterTypes DEF BMInv, AllocateShare
<1> HIDE DEF b
<1>2. /\ ref' = [ref EXCEPT ![b] = @ + 1] /\ IterEnd(b) /\ UNCHANGED <<free, used>>
      /\ cached' = [cached EXCEPT ![call.seq] = @ + BlockSize]
  BY DEF AllocateShare, b
<1>3. /\ hash' \in [Blocks -> Seq(Token)] /\ content' \in [Blocks -> Seq(Token)]
      /\ h2b' \in [DOMAIN h2b' -> Blocks]
      /\ tokens' \in [SeqId -> Seq(Token)] /\ pending' \in [SeqId -> BOOLEAN]
      /\ call' \in CallType
      /\ table' = [table EXCEPT ![call.seq] = Append(@, b)]
      /\ HeldHaveTokens'
  BY <1>1, <1>2, IterEndTypes DEF BMInv
<1>4. /\ PoolInv'
      /\ ref' \in [Blocks -> Nat] /\ table' \in [SeqId -> Seq(Blocks)]
  BY <1>1, <1>2, <1>3, ShareBlock DEF BMInv
<1>5. cached' \in [SeqId -> Nat] /\ free' \in Seq(Blocks) /\ used' \in SUBSET Blocks
  BY <1>1, <1>2, BlockSizeAssumption DEF BMInv, BMTypeOK
<1> QED BY <1>3, <1>4, <1>5 DEF BMInv, BMTypeOK

LEMMA DeallocateBlockInv == BMInv /\ DeallocateBlock => BMInv'
<1> SUFFICES ASSUME BMInv, DeallocateBlock PROVE BMInv'
  OBVIOUS
<1> DEFINE s == call.seq
           b == Last(table[s])
<1>1. s \in SeqId /\ table[s] # << >>
  BY CallFields DEF BMInv, BMTypeOK, DeallocateBlock
<1>2. /\ ref' = [ref EXCEPT ![b] = @ - 1]
      /\ used' = IF ref[b] = 1 THEN used \ {b} ELSE used
      /\ free' = IF ref[b] = 1 THEN Append(free, b) ELSE free
      /\ table' = [table EXCEPT ![s] = Front(@)]
      /\ UNCHANGED <<hash, content, h2b, tokens, cached, pending, call>>
  BY DEF DeallocateBlock
<1> HIDE DEF s
<1>3. /\ PoolInv'
      /\ ref' \in [Blocks -> Nat] /\ free' \in Seq(Blocks) /\ used' \in SUBSET Blocks
      /\ table' \in [SeqId -> Seq(Blocks)]
  BY <1>1, <1>2, DropBlock DEF BMInv
<1>4. HeldHaveTokens'
  BY <1>1, <1>2, <1>3 DEF BMInv, HeldHaveTokens, BMTypeOK, Front
<1> QED BY <1>2, <1>3, <1>4 DEF BMInv, BMTypeOK

(* may_append, branch by branch. *)
LEMMA MayAppendInv ==
  ASSUME BMInv, NEW s \in SeqId, may_append(s)
  PROVE  BMInv'
<1>1. /\ table[s] # << >> /\ tokens[s] # << >>
      /\ Last(table[s]) \in Blocks
      /\ UNCHANGED <<tokens, cached, call>>
      /\ tokens' \in [SeqId -> Seq(Token)] /\ cached' \in [SeqId -> Nat]
      /\ call' \in CallType /\ pending' \in [SeqId -> BOOLEAN]
  <2>1. /\ table[s] # << >> /\ UNCHANGED <<tokens, cached, call>>
        /\ pending' = [pending EXCEPT ![s] = FALSE]
    BY DEF may_append
  <2>2. BMTypeOK /\ tokens[s] # << >>
    BY <2>1 DEF BMInv, HeldHaveTokens
  <2>3. table[s] \in Seq(Blocks)
    BY <2>2 DEF BMTypeOK
  <2>4. Last(table[s]) \in Blocks
    BY ONLY <2>1, <2>3 DEF Last
  <2>5. /\ tokens' \in [SeqId -> Seq(Token)] /\ cached' \in [SeqId -> Nat]
        /\ call' \in CallType /\ pending' \in [SeqId -> BOOLEAN]
    BY <2>1, <2>2 DEF BMTypeOK
  <2> QED BY <2>1, <2>2, <2>4, <2>5
<1>2. LastTokens(s) \in Seq(Token)
  <2>1. tokens \in [SeqId -> Seq(Token)] /\ tokens[s] # << >>
    BY <1>1 DEF BMInv, BMTypeOK
  <2>2. num_blocks(s) \in Nat /\ num_blocks(s) > 0
    BY <2>1, NumBlocksPositive
  <2>3. num_blocks(s) - 1 \in Nat /\ num_blocks(s) - 1 < num_blocks(s)
    BY ONLY <2>2
  <2> QED BY <2>1, <2>3, BlockType DEF LastTokens
<1>3. ASSUME NEW tab \in Seq(Blocks), NEW hs \in [Blocks -> Seq(Token)]
      PROVE  LastHash(s, tab, hs) \in Seq(Token)
  <2>1. (IF Len(tab) > 1 THEN hs[tab[Len(tab) - 1]] ELSE NoHash) \in Seq(Token)
    BY DEF NoHash
  <2> QED BY <2>1, <1>2, ConcatProperties DEF LastHash, compute_hash
<1>4. CASE MayAppendNew(s)
  <2> DEFINE b == Head(free)
  <2>1. b \in Blocks
    BY <1>4 DEF MayAppendNew, BMInv, BMTypeOK
  <2> HIDE DEF b
  <2>2. /\ _allocate_block(b) /\ UNCHANGED h2b
        /\ table' = [table EXCEPT ![s] = Append(@, b)]
        /\ hash' = [hash EXCEPT ![b] = NoHash] /\ content' = [content EXCEPT ![b] = << >>]
    BY <1>4 DEF MayAppendNew, b
  <2>3. /\ PoolInv'
        /\ ref' \in [Blocks -> Nat] /\ free' \in Seq(Blocks) /\ used' \in SUBSET Blocks
        /\ table' \in [SeqId -> Seq(Blocks)]
    BY <2>1, <2>2, TakeBlock DEF BMInv
  <2>4. /\ hash' \in [Blocks -> Seq(Token)] /\ content' \in [Blocks -> Seq(Token)]
        /\ h2b' \in [DOMAIN h2b' -> Blocks]
    BY <2>1, <2>2 DEF BMInv, BMTypeOK, NoHash
  <2>5. HeldHaveTokens'
    BY <1>1, <2>2 DEF BMInv, HeldHaveTokens, BMTypeOK
  <2> QED BY <1>1, <2>3, <2>4, <2>5 DEF BMInv, BMTypeOK
<1>5. CASE MayAppendFull(s)
  <2>1. PoolInv' /\ HeldHaveTokens'
    BY <1>1, <1>5, PoolStutter DEF MayAppendFull, BMInv, HeldHaveTokens
  <2>2. LastHash(s, table[s], hash) \in Seq(Token)
    BY <1>3 DEF BMInv, BMTypeOK
  <2>3. hash' \in [Blocks -> Seq(Token)] /\ content' \in [Blocks -> Seq(Token)]
    BY <1>1, <1>2, <1>5, <2>2 DEF MayAppendFull, RegisterLast, BMInv, BMTypeOK
  <2>4. h2b' \in [DOMAIN h2b' -> Blocks]
    BY <1>1, <1>5, MapToType DEF MayAppendFull, RegisterLast, BMInv, BMTypeOK
  <2>5. UNCHANGED <<ref, free, used, table>>
    BY <1>5 DEF MayAppendFull
  <2> QED BY <1>1, <2>1, <2>3, <2>4, <2>5 DEF BMInv, BMTypeOK
<1>6. CASE MayAppendInside(s)
  <2>1. UNCHANGED <<ref, hash, content, h2b, free, used, table>>
    BY <1>6 DEF MayAppendInside, pool
  <2>2. PoolInv' /\ HeldHaveTokens'
    BY <1>1, <2>1, PoolStutter DEF BMInv, HeldHaveTokens
  <2> QED BY <1>1, <2>1, <2>2 DEF BMInv, BMTypeOK
<1>7. CASE MayAppendUnit(s)
  <2> DEFINE b == Head(free)
             hs == [hash EXCEPT ![b] = NoHash]
             cs == [content EXCEPT ![b] = << >>]
  <2>1. b \in Blocks
    BY <1>7 DEF MayAppendUnit, BMInv, BMTypeOK
  <2>2. hs \in [Blocks -> Seq(Token)] /\ cs \in [Blocks -> Seq(Token)]
    BY <2>1 DEF BMInv, BMTypeOK, NoHash
  <2> HIDE DEF b, hs, cs
  <2>3. /\ _allocate_block(b)
        /\ table' = [table EXCEPT ![s] = Append(@, b)]
        /\ RegisterLast(Last(table[s]), LastTokens(s), LastHash(s, table'[s], hs), hs, cs)
    BY <1>7 DEF MayAppendUnit, b, hs, cs
  <2>4. /\ PoolInv'
        /\ ref' \in [Blocks -> Nat] /\ free' \in Seq(Blocks) /\ used' \in SUBSET Blocks
        /\ table' \in [SeqId -> Seq(Blocks)]
    BY <2>1, <2>3, TakeBlock DEF BMInv
  <2>5. LastHash(s, table'[s], hs) \in Seq(Token)
    BY <1>3, <2>2, <2>4
  <2>6. hash' \in [Blocks -> Seq(Token)] /\ content' \in [Blocks -> Seq(Token)]
    BY <1>1, <1>2, <2>2, <2>3, <2>5 DEF RegisterLast
  <2>7. h2b' \in [DOMAIN h2b' -> Blocks]
    BY <1>1, <2>3, MapToType DEF RegisterLast, BMInv, BMTypeOK
  <2>8. HeldHaveTokens'
    BY <1>1, <2>3 DEF BMInv, HeldHaveTokens, BMTypeOK
  <2> QED BY <1>1, <2>4, <2>6, <2>7, <2>8 DEF BMInv, BMTypeOK
<1> QED BY <1>4, <1>5, <1>6, <1>7 DEF may_append

(* reset: the pool is rebuilt while the counts of the blocks stay as they  *)
(* are, which is sound because no table holds a block any more.            *)
LEMMA ResetInv == BMInv /\ reset => BMInv'
<1> SUFFICES ASSUME BMInv, reset PROVE BMInv'
  OBVIOUS
<1>1. /\ UNCHANGED <<ref, hash, content, tokens, table, cached, pending, call>>
      /\ free' = [k \in 1 .. NumBlocks |-> k - 1] /\ used' = {} /\ h2b' = EmptyMap
      /\ \A s \in SeqId : table[s] = << >>
  BY DEF reset, seqs
<1>2. \A b \in Blocks : Holders(b) = {} /\ Holders(b)' = {}
  BY <1>1 DEF Holders
<1>3. \A b \in Blocks : ref[b] = 0
  BY <1>2, FS_EmptySet DEF BMInv, PoolInv, RefCount
<1>4. HoldersFinite' /\ RefCount'
  BY <1>1, <1>2, <1>3, FS_EmptySet DEF HoldersFinite, RefCount
<1>5. free' \in Seq(Blocks) /\ Partition'
  BY <1>1, <1>3, NumBlocksAssumption DEF Partition, ToSet, Blocks
<1>6. h2b' \in [DOMAIN h2b' -> Blocks]
  BY <1>1 DEF EmptyMap
<1> QED BY <1>1, <1>4, <1>5, <1>6 DEF BMInv, BMTypeOK, PoolInv, HeldHaveTokens

LEMMA AppendNonEmpty ==
  ASSUME NEW q \in Seq(Token), NEW t \in Token
  PROVE  Append(q, t) \in Seq(Token) /\ Append(q, t) # << >>
<1>1. Append(q, t) \in Seq(Token) /\ Len(Append(q, t)) = Len(q) + 1 /\ Len(q) \in Nat
  BY AppendProperties
<1> QED BY <1>1

(* The operations that leave the pool and the tables alone. *)
LEMMA CallsInv ==
  ASSUME BMInv,
         \/ \E s \in SeqId : \/ \E p \in Prompts : from_prompt(s, p)
                             \/ \E t \in Token : append_token(s, t)
                             \/ allocate(s) \/ deallocate(s) \/ MayAppendRaises(s)
         \/ AllocateReturn \/ DeallocateReturn
  PROVE  BMInv'
<1>1. UNCHANGED <<ref, hash, content, h2b, free, used, table>>
  BY DEF from_prompt, append_token, allocate, deallocate, MayAppendRaises, AllocateReturn,
         DeallocateReturn, pool, seqs
<1>2. PoolInv'
  BY <1>1, PoolStutter DEF BMInv
<1> DEFINE Rest == /\ tokens' \in [SeqId -> Seq(Token)] /\ HeldHaveTokens'
                   /\ cached' \in [SeqId -> Nat] /\ pending' \in [SeqId -> BOOLEAN]
                   /\ call' \in CallType
<1> USE DEF BMInv, BMTypeOK, HeldHaveTokens, pool, seqs
<1>3. ASSUME NEW s \in SeqId, NEW p \in Prompts, from_prompt(s, p) PROVE Rest
  BY <1>1, <1>3, PromptsAssumption DEF from_prompt
<1>4. ASSUME NEW s \in SeqId, NEW t \in Token, append_token(s, t) PROVE Rest
  <2>1. Append(tokens[s], t) \in Seq(Token) /\ Append(tokens[s], t) # << >>
    BY AppendNonEmpty
  <2> QED BY <1>1, <1>4, <2>1 DEF append_token
<1>5. ASSUME NEW s \in SeqId, allocate(s) PROVE Rest
  BY <1>1, <1>5 DEF allocate, CallType, AllocateFrame, NoHash
<1>6. ASSUME NEW s \in SeqId, deallocate(s) PROVE Rest
  BY <1>1, <1>6 DEF deallocate, CallType, DeallocateFrame
<1>6a. ASSUME NEW s \in SeqId, MayAppendRaises(s) PROVE Rest
  BY <1>1, <1>6a DEF MayAppendRaises, CallType, RaisedFrame
<1>7. ASSUME AllocateReturn PROVE Rest
  <2>1. call.seq \in SeqId
    BY <1>7, CallFields DEF AllocateReturn
  <2>2. call' \in CallType
    BY <1>7 DEF AllocateReturn, CallType
  <2> QED BY <1>1, <1>7, <2>1, <2>2 DEF AllocateReturn
<1>8. ASSUME DeallocateReturn PROVE Rest
  <2>1. call.seq \in SeqId
    BY <1>8, CallFields DEF DeallocateReturn
  <2>2. call' \in CallType
    BY <1>8 DEF DeallocateReturn, CallType
  <2> QED BY <1>1, <1>8, <2>1, <2>2 DEF DeallocateReturn
<1>9. Rest
  BY <1>3, <1>4, <1>5, <1>6, <1>6a, <1>7, <1>8
<1> QED BY <1>1, <1>2, <1>9

(* Every step of the block manager preserves the invariant. *)
LEMMA BMNextInv == BMInv /\ [BMNext]_bmVars => BMInv'
<1> SUFFICES ASSUME BMInv, [BMNext]_bmVars PROVE BMInv'
  OBVIOUS
<1>1. CASE UNCHANGED bmVars
  BY <1>1, PoolStutter DEF bmVars, BMInv, BMTypeOK, HeldHaveTokens
<1>2. CASE CallStep
  BY <1>2, AllocateMissInv, AllocateShareInv, AllocateReviveInv, DeallocateBlockInv DEF CallStep
<1>3. ASSUME NEW s \in SeqId, may_append(s) PROVE BMInv'
  BY <1>3, MayAppendInv
<1>4. CASE reset
  BY <1>4, ResetInv
<1>5. CASE AllocateReturn \/ DeallocateReturn
  BY <1>5, CallsInv
<1>5a. ASSUME NEW s \in SeqId,
              \/ \E p \in Prompts : from_prompt(s, p)
              \/ \E t \in Token : append_token(s, t)
              \/ allocate(s) \/ deallocate(s) \/ MayAppendRaises(s)
       PROVE  BMInv'
  BY <1>5a, CallsInv
<1>6. BMNext \/ UNCHANGED bmVars
  OBVIOUS
<1>7. CASE BMNext
  BY <1>2, <1>3, <1>4, <1>5, <1>5a, <1>7 DEF BMNext
<1> QED BY <1>1, <1>6, <1>7

-----------------------------------------------------------------------------
LEMMA BMInvariant == BMSpec => []BMInv
<1> QED BY BMInitInv, BMNextInv, PTL DEF BMSpec

(* Type correctness of the block manager, for every pool size, block size, *)
(* set of sequences, of tokens and of prompts.                             *)
THEOREM BMTypeCorrect == BMSpec => []BMTypeOK
<1>1. BMInv => BMTypeOK
  BY DEF BMInv
<1> QED BY <1>1, BMInvariant, PTL

(* The reference counts are exact: allocate, may_append and deallocate     *)
(* neither leak a reference nor drop one twice, whatever is shared.        *)
THEOREM BMRefCount == BMSpec => []RefCount
<1>1. BMInv => RefCount
  BY DEF BMInv, PoolInv
<1> QED BY <1>1, BMInvariant, PTL

(* Every block is either once in free_block_ids and unreferenced or in     *)
(* used_block_ids and referenced, so no block is handed out twice.         *)
THEOREM BMPartition == BMSpec => []Partition
<1>1. BMInv => Partition
  BY DEF BMInv, PoolInv
<1> QED BY <1>1, BMInvariant, PTL

-----------------------------------------------------------------------------
(* What the blocks of a sequence contain and who may write them, and that  *)
(* no assertion of block_manager.py fails.                                 *)

(* An entry of a block table is full when the covered tokens fill it: then *)
(* its block is registered with this sequence's tokens.  Otherwise it is   *)
(* blank and nobody else's.                                                *)
Full(s, i) == i * BlockSize <= Covered(s)
EntryInv(s, i) ==
  IF Full(s, i)
  THEN /\ hash[table[s][i]] # NoHash
       /\ content[table[s][i]] = SubSeq(tokens[s], (i - 1) * BlockSize + 1, i * BlockSize)
  ELSE /\ hash[table[s][i]] = NoHash /\ content[table[s][i]] = << >>
       /\ ref[table[s][i]] = 1

Fits(s, n) == (n - 1) * BlockSize < Covered(s) /\ Covered(s) <= n * BlockSize
Calling(s) == call.op # "none" /\ call.seq = s

(* A sequence that nobody is working on has the blocks its tokens need, and *)
(* a token that waits for may_append belongs to a sequence with blocks.     *)
SizeInv(s) ==
  /\ Holding(s) => Fits(s, Len(table[s]))
  /\ pending[s] => table[s] # << >> \/ Calling(s)
SizesInv ==
  /\ NoHash \notin DOMAIN h2b
  /\ call.op = "allocate" => ~pending[call.seq]
  /\ \A s \in SeqId : SizeInv(s)

(* allocate has filled one entry in every iteration, and can_allocate still *)
(* answers for the rest.                                                    *)
LoopInv ==
  call.op = "allocate" =>
    /\ tokens[call.seq] # << >> /\ Len(table[call.seq]) = call.i
    /\ call.i <= num_blocks(call.seq)
    /\ Len(free) + call.i >= num_blocks(call.seq)

ContentInv ==
  BlockSize # 1 => \A s \in SeqId : \A i \in DOMAIN table[s] : EntryInv(s, i)

(* may_append has raised: the blocks have one token and none is free. *)
RaisedInv == call.op = "raised" => BlockSize = 1 /\ free = << >>

BlockInv == BMInv /\ LoopInv /\ SizesInv /\ ContentInv /\ RaisedInv

-----------------------------------------------------------------------------
(* Arithmetic of blocks. *)
LEMMA TimesMonotone ==
  ASSUME NEW m \in Int, NEW n \in Int, m <= n
  PROVE  m * BlockSize <= n * BlockSize
BY BlockSizeAssumption

LEMMA TimesNext ==
  ASSUME NEW n \in Int
  PROVE  /\ (n + 1) * BlockSize = n * BlockSize + BlockSize
         /\ (n - 1) * BlockSize = n * BlockSize - BlockSize
         /\ n * BlockSize \in Int /\ BlockSize >= 1
         /\ n \in Nat => n * BlockSize \in Nat
BY BlockSizeAssumption

LEMMA QuotientUnique ==
  ASSUME NEW c \in Int, NEW m \in Int, NEW n \in Int,
         (m - 1) * BlockSize < c, c <= m * BlockSize,
         (n - 1) * BlockSize < c, c <= n * BlockSize
  PROVE  m = n
<1>1. ASSUME m < n PROVE FALSE
  <2>1. m * BlockSize <= (n - 1) * BlockSize
    BY <1>1, TimesMonotone
  <2> QED BY <2>1, TimesNext
<1>2. ASSUME n < m PROVE FALSE
  <2>1. n * BlockSize <= (m - 1) * BlockSize
    BY <1>2, TimesMonotone
  <2> QED BY <2>1, TimesNext
<1> QED BY <1>1, <1>2

LEMMA BelowLast ==
  ASSUME NEW i \in Int, NEW m \in Int, NEW n \in Int, i < m, (m - 1) * BlockSize < n
  PROVE  i * BlockSize <= n /\ i * BlockSize <= n + 1
<1>1. i * BlockSize <= (m - 1) * BlockSize
  BY TimesMonotone
<1>2. (m - 1) * BlockSize \in Int /\ i * BlockSize \in Int
  BY BlockSizeAssumption
<1> QED BY <1>1, <1>2

LEMMA Quotient ==
  ASSUME NEW x \in Nat
  PROVE  /\ x \div BlockSize \in Nat
         /\ (x \div BlockSize) * BlockSize <= x
         /\ x < (x \div BlockSize) * BlockSize + BlockSize
<1> PICK q : q = x \div BlockSize
  OBVIOUS
<1>1. q \in Nat
  BY BlockSizeAssumption
<1>2. x < q * BlockSize + BlockSize /\ q * BlockSize <= x
  BY <1>1, BlockSizeAssumption
<1> QED BY <1>1, <1>2

LEMMA NumBlocksBounds ==
  ASSUME tokens \in [SeqId -> Seq(Token)], NEW s \in SeqId
  PROVE  /\ num_blocks(s) \in Nat /\ Len(tokens[s]) \in Nat
         /\ (num_blocks(s) - 1) * BlockSize < Len(tokens[s])
         /\ Len(tokens[s]) <= num_blocks(s) * BlockSize
<1> DEFINE n == num_blocks(s)
           x == Len(tokens[s]) + BlockSize - 1
<1>1. Len(tokens[s]) \in Nat /\ x \in Nat /\ n = x \div BlockSize
  BY BlockSizeAssumption DEF num_blocks
<1> HIDE DEF n, x
<1>2. n \in Nat /\ n * BlockSize <= x /\ x < n * BlockSize + BlockSize
  BY <1>1, Quotient
<1>3. x = Len(tokens[s]) + BlockSize - 1
  BY DEF x
<1>4. n * BlockSize \in Int /\ (n - 1) * BlockSize = n * BlockSize - BlockSize /\ BlockSize \in Nat
  BY <1>2, TimesNext, BlockSizeAssumption
<1>5. (n - 1) * BlockSize < Len(tokens[s]) /\ Len(tokens[s]) <= n * BlockSize
  BY <1>1, <1>2, <1>3, <1>4
<1> QED BY <1>1, <1>2, <1>5 DEF n

(* block(i) is full or short, never empty. *)
LEMMA BlockLen ==
  ASSUME tokens \in [SeqId -> Seq(Token)], NEW s \in SeqId, NEW i \in Nat, i < num_blocks(s)
  PROVE  /\ block(s, i) \in Seq(Token) /\ block(s, i) # << >>
         /\ Len(block(s, i)) = BlockSize <=> (i + 1) * BlockSize <= Len(tokens[s])
         /\ (i + 1) * BlockSize <= Len(tokens[s]) =>
              block(s, i) = SubSeq(tokens[s], i * BlockSize + 1, (i + 1) * BlockSize)
<1> DEFINE lo == i * BlockSize
           hi == (i + 1) * BlockSize
<1>1. /\ tokens[s] \in Seq(Token) /\ Len(tokens[s]) \in Nat
      /\ lo \in Nat /\ hi = lo + BlockSize /\ BlockSize \in Nat /\ BlockSize >= 1
  BY TimesNext, BlockSizeAssumption
<1>2. lo < Len(tokens[s])
  <2>1. i * BlockSize <= (num_blocks(s) - 1) * BlockSize
    BY TimesMonotone, NumBlocksBounds
  <2>2. (num_blocks(s) - 1) * BlockSize < Len(tokens[s]) /\ (num_blocks(s) - 1) * BlockSize \in Int
    <3>1. num_blocks(s) \in Nat
      BY NumBlocksBounds
    <3>2. (num_blocks(s) - 1) * BlockSize \in Int
      BY <3>1, TimesNext
    <3> QED BY <3>2, NumBlocksBounds
  <2> QED BY <1>1, <2>1, <2>2
<1>3. block(s, i) = SubSeq(tokens[s], lo + 1, IF hi <= Len(tokens[s]) THEN hi ELSE Len(tokens[s]))
  BY DEF block
<1> HIDE DEF lo, hi
<1>4. /\ block(s, i) \in Seq(Token)
      /\ Len(block(s, i)) = (IF hi <= Len(tokens[s]) THEN hi ELSE Len(tokens[s])) - lo
  BY <1>1, <1>2, <1>3
<1>5. block(s, i) # << >>
  BY <1>1, <1>2, <1>4
<1>6. Len(block(s, i)) = BlockSize <=> hi <= Len(tokens[s])
  BY <1>1, <1>2, <1>4
<1>7. hi <= Len(tokens[s]) => block(s, i) = SubSeq(tokens[s], lo + 1, hi)
  BY <1>3
<1> QED BY <1>4, <1>5, <1>6, <1>7 DEF lo, hi

-----------------------------------------------------------------------------
(* Who holds a block. *)
LEMMA HoldersOf ==
  ASSUME NEW s \in SeqId, NEW i \in DOMAIN table[s]
  PROVE  <<s, i>> \in Holders(table[s][i])
BY DEF Holders

LEMMA NoHolder ==
  ASSUME BMInv, NEW b \in Blocks, ref[b] = 0, NEW s \in SeqId, NEW i \in DOMAIN table[s]
  PROVE  table[s][i] # b
<1>1. Holders(b) = {}
  BY FS_EmptySet DEF BMInv, PoolInv, HoldersFinite, RefCount
<1> QED BY <1>1, HoldersOf

LEMMA OnlyHolder ==
  ASSUME BMInv, NEW b \in Blocks, ref[b] = 1,
         NEW s \in SeqId, NEW i \in DOMAIN table[s], table[s][i] = b,
         NEW t \in SeqId, NEW j \in DOMAIN table[t], table[t][j] = b
  PROVE  s = t /\ i = j
<1>1. IsFiniteSet(Holders(b)) /\ Cardinality(Holders(b)) = 1
  BY DEF BMInv, PoolInv, HoldersFinite, RefCount
<1>2. PICK p : Holders(b) = {p}
  BY <1>1, FS_Singleton
<1>3. <<s, i>> \in Holders(b) /\ <<t, j>> \in Holders(b)
  BY HoldersOf
<1> QED BY <1>2, <1>3

LEMMA TableTypes ==
  ASSUME BMTypeOK, NEW s \in SeqId
  PROVE  /\ table[s] \in Seq(Blocks) /\ Len(table[s]) \in Nat /\ DOMAIN table[s] = 1 .. Len(table[s])
         /\ \A i \in DOMAIN table[s] : table[s][i] \in Blocks
         /\ tokens[s] \in Seq(Token) /\ Len(tokens[s]) \in Nat
         /\ pending[s] \in BOOLEAN /\ Covered(s) \in Int /\ Covered(s) <= Len(tokens[s])
         /\ table[s] # << >> => Len(table[s]) \in DOMAIN table[s] /\ Last(table[s]) = table[s][Len(table[s])]
<1>1. table[s] \in Seq(Blocks) /\ tokens[s] \in Seq(Token) /\ pending[s] \in BOOLEAN
  BY DEF BMTypeOK
<1>2. Covered(s) \in Int /\ Covered(s) <= Len(tokens[s])
  <2>1. CASE pending[s] BY <1>1, <2>1 DEF Covered
  <2>2. CASE ~pending[s] BY <1>1, <2>2 DEF Covered
  <2> QED BY <2>1, <2>2
<1>3. table[s] # << >> => Len(table[s]) \in DOMAIN table[s] /\ Last(table[s]) = table[s][Len(table[s])]
  BY <1>1 DEF Last
<1> QED BY <1>1, <1>2, <1>3

(* A block joins the end of a table. *)
LEMMA AppendFacts ==
  ASSUME NEW q \in Seq(Blocks), NEW b \in Blocks
  PROVE  /\ Append(q, b) \in Seq(Blocks) /\ Append(q, b) # << >>
         /\ Len(Append(q, b)) = Len(q) + 1 /\ Len(q) \in Nat
         /\ DOMAIN q = 1 .. Len(q) /\ DOMAIN Append(q, b) = 1 .. Len(q) + 1
         /\ Append(q, b)[Len(q) + 1] = b
         /\ \A i \in 1 .. Len(q) : Append(q, b)[i] = q[i]
<1> DEFINE r == Append(q, b)
<1>1. /\ r \in Seq(Blocks) /\ Len(r) = Len(q) + 1 /\ Len(q) \in Nat
      /\ r[Len(q) + 1] = b /\ \A i \in 1 .. Len(q) : r[i] = q[i]
  BY AppendProperties
<1>2. DOMAIN q = 1 .. Len(q) /\ DOMAIN r = 1 .. Len(q) + 1 /\ r # << >>
  BY <1>1
<1> QED BY <1>1, <1>2

LEMMA TableAppend ==
  ASSUME table \in [SeqId -> Seq(Blocks)], NEW s \in SeqId, NEW b \in Blocks,
         table' = [table EXCEPT ![s] = Append(@, b)]
  PROVE  /\ table'[s] # << >> /\ Len(table'[s]) = Len(table[s]) + 1
         /\ DOMAIN table[s] = 1 .. Len(table[s]) /\ Len(table[s]) \in Nat
         /\ DOMAIN table'[s] = 1 .. Len(table[s]) + 1
         /\ table'[s][Len(table[s]) + 1] = b
         /\ \A i \in 1 .. Len(table[s]) : table'[s][i] = table[s][i]
         /\ \A t \in SeqId \ {s} : table'[t] = table[t]
<1>1. table[s] \in Seq(Blocks) /\ table'[s] = Append(table[s], b)
  OBVIOUS
<1>2. \A t \in SeqId \ {s} : table'[t] = table[t]
  OBVIOUS
<1> QED BY <1>1, <1>2, AppendFacts

LEMMA TableFront ==
  ASSUME table \in [SeqId -> Seq(Blocks)], NEW s \in SeqId, table[s] # << >>,
         table' = [table EXCEPT ![s] = Front(@)]
  PROVE  /\ DOMAIN table'[s] = DOMAIN table[s] \ {Len(table[s])}
         /\ \A i \in DOMAIN table'[s] : table'[s][i] = table[s][i]
         /\ \A t \in SeqId \ {s} : table'[t] = table[t]
BY DEF Front

-----------------------------------------------------------------------------
(* The loop of allocate never runs out of blocks. *)
LEMMA TakenLen ==
  ASSUME BMInv, NEW b \in Blocks, _allocate_block(b)
  PROVE  Len(free') = Len(free) - 1 /\ Len(free) \in Nat
<1> PICK q \in Seq(Blocks) : q = free
  BY DEF BMInv, BMTypeOK
<1>1. b \in ToSet(q) /\ \A j, k \in DOMAIN q : q[j] = q[k] => j = k
  BY DEF _allocate_block, BMInv, BMTypeOK, PoolInv, Partition
<1>2. Len(RemoveFromDeque(q, b)) = Len(q) - 1
  BY <1>1, DequeRemove
<1>3. free' = RemoveFromDeque(q, b)
  BY DEF _allocate_block
<1> QED BY <1>2, <1>3

LEMMA LoopIteration ==
  ASSUME BMInv, LoopInv, InAllocateLoop, NEW b \in Blocks, IterEnd(b),
         Len(free') \in {Len(free) - 1, Len(free)}
  PROVE  LoopInv'
<1> PICK s : s = call.seq
  OBVIOUS
<1>1. /\ s \in SeqId /\ call.i \in Nat /\ call.i < num_blocks(s) /\ call.op = "allocate"
      /\ table \in [SeqId -> Seq(Blocks)] /\ Len(free) \in Nat
      /\ tokens \in [SeqId -> Seq(Token)]
  <2>1. BMTypeOK
    BY DEF BMInv
  <2>2. call.seq \in SeqId /\ call.i \in Nat
    BY <2>1, IterTypes
  <2>3. table \in [SeqId -> Seq(Blocks)] /\ Len(free) \in Nat /\ tokens \in [SeqId -> Seq(Token)]
    BY <2>1 DEF BMTypeOK
  <2> QED BY <2>2, <2>3 DEF InAllocateLoop
<1>2. num_blocks(s) \in Nat
  BY <1>1, NumBlocksBounds
<1>3. /\ tokens[s] # << >> /\ Len(table[s]) = call.i /\ Len(free) + call.i >= num_blocks(s)
  BY <1>1 DEF LoopInv
<1>4. /\ table' = [table EXCEPT ![s] = Append(@, b)] /\ tokens' = tokens
      /\ call'.op = "allocate" /\ call'.seq = s /\ call'.i = call.i + 1
  BY DEF IterEnd, AllocateFrame
<1>5. Len(table'[s]) = call.i + 1
  BY <1>1, <1>3, <1>4, TableAppend
<1>6. num_blocks(s)' = num_blocks(s)
  BY <1>4 DEF num_blocks
<1>7. tokens'[s] # << >> /\ call'.seq = s /\ call'.i = call.i + 1
  BY <1>3, <1>4
<1>8. call.i + 1 <= num_blocks(s) /\ Len(free') + (call.i + 1) >= num_blocks(s)
  BY <1>1, <1>2, <1>3
<1>9. /\ tokens'[s] # << >> /\ Len(table'[s]) = call'.i
      /\ call'.i <= num_blocks(s)' /\ Len(free') + call'.i >= num_blocks(s)'
  BY ONLY <1>5, <1>6, <1>7, <1>8
<1> QED BY <1>7, <1>9 DEF LoopInv

LEMMA LoopNext == BMInv /\ LoopInv /\ [BMNext]_bmVars => LoopInv'
<1> SUFFICES ASSUME BMInv, LoopInv, [BMNext]_bmVars PROVE LoopInv'
  OBVIOUS
<1>1. CASE AllocateMiss
  <2>1. Head(free) \in Blocks /\ InAllocateLoop /\ _allocate_block(Head(free)) /\ IterEnd(Head(free))
    BY <1>1 DEF AllocateMiss, BMInv, BMTypeOK
  <2> QED BY <2>1, LoopIteration, TakenLen
<1>2. CASE AllocateRevive
  <2>1. /\ h2b[IterHash] \in Blocks /\ InAllocateLoop /\ _allocate_block(h2b[IterHash])
        /\ IterEnd(h2b[IterHash])
    BY <1>2, IterTypes DEF AllocateRevive, BMInv
  <2> QED BY <2>1, LoopIteration, TakenLen
<1>3. CASE AllocateShare
  <2>1. /\ h2b[IterHash] \in Blocks /\ InAllocateLoop /\ IterEnd(h2b[IterHash]) /\ free' = free
    BY <1>3, IterTypes DEF AllocateShare, BMInv
  <2> QED BY <2>1, LoopIteration
<1>4. ASSUME NEW s \in SeqId, allocate(s) PROVE LoopInv'
  <2>1. /\ call'.op = "allocate" /\ call'.seq = s /\ call'.i = 0
        /\ tokens[s] # << >> /\ table[s] = << >> /\ Len(free) >= num_blocks(s)
        /\ UNCHANGED <<free, tokens, table>>
    BY <1>4 DEF allocate, AllocateFrame, can_allocate, pool, seqs
  <2>2. num_blocks(s) \in Nat /\ num_blocks(s)' = num_blocks(s) /\ Len(free) \in Nat
    BY <2>1, NumBlocksBounds DEF num_blocks, BMInv, BMTypeOK
  <2> QED BY <2>1, <2>2 DEF LoopInv, num_blocks
<1>5. CASE UNCHANGED bmVars
  BY <1>5 DEF bmVars, LoopInv, num_blocks
<1>6. ASSUME call'.op # "allocate" PROVE LoopInv'
  BY <1>6 DEF LoopInv
<1>7. CASE DeallocateBlock \/ AllocateReturn \/ DeallocateReturn \/ reset
  <2>1. call'.op # "allocate"
    BY <1>7 DEF DeallocateBlock, AllocateReturn, DeallocateReturn, reset, NoCall
  <2> QED BY <1>6, <2>1
<1>8. ASSUME NEW s \in SeqId,
             \/ \E p \in Prompts : from_prompt(s, p)
             \/ \E t \in Token : append_token(s, t)
             \/ deallocate(s) \/ may_append(s) \/ MayAppendRaises(s)
      PROVE  LoopInv'
  <2>1. call'.op # "allocate"
    BY <1>8 DEF from_prompt, append_token, deallocate, may_append, DeallocateFrame,
                MayAppendRaises, RaisedFrame
  <2> QED BY <1>6, <2>1
<1> QED BY <1>1, <1>2, <1>3, <1>4, <1>5, <1>7, <1>8 DEF BMNext, CallStep

-----------------------------------------------------------------------------
(* How many blocks a sequence has. *)
LEMMA SizeStays ==
  ASSUME NEW t \in SeqId, SizeInv(t), UNCHANGED <<table[t], tokens[t], pending[t]>>,
         Holding(t)' => Holding(t), Calling(t) => Calling(t)' \/ ~pending[t]
  PROVE  SizeInv(t)'
BY DEF SizeInv, Fits, Covered

LEMMA HashNotEmpty ==
  ASSUME BMTypeOK, NEW s \in SeqId, tokens[s] # << >>,
         NEW tab \in Seq(Blocks), NEW hs \in [Blocks -> Seq(Token)]
  PROVE  LastHash(s, tab, hs) # NoHash
<1>1. (IF Len(tab) > 1 THEN hs[tab[Len(tab) - 1]] ELSE NoHash) \in Seq(Token)
  <2>1. CASE Len(tab) > 1
    <3>1. Len(tab) - 1 \in DOMAIN tab
      BY <2>1
    <3>2. tab[Len(tab) - 1] \in Blocks
      BY <3>1
    <3> QED BY <2>1, <3>2
  <2>2. CASE ~(Len(tab) > 1)
    BY <2>2 DEF NoHash
  <2> QED BY <2>1, <2>2
<1>2. LastTokens(s) \in Seq(Token) /\ LastTokens(s) # << >>
  <2>1. num_blocks(s) - 1 \in Nat /\ num_blocks(s) - 1 < num_blocks(s)
    BY NumBlocksPositive DEF BMTypeOK
  <2> QED BY <2>1, BlockLen DEF BMTypeOK, LastTokens
<1>3. ASSUME NEW p \in Seq(Token) PROVE p \o LastTokens(s) # << >>
  BY <1>2
<1> QED BY <1>1, <1>3 DEF LastHash, compute_hash, NoHash

LEMMA IterationSizes ==
  ASSUME BlockInv, InAllocateLoop, NEW b \in Blocks, IterEnd(b)
  PROVE  SizesInv'
<1> PICK s \in SeqId : s = call.seq
  BY IterTypes DEF BlockInv, BMInv
<1>1. /\ table \in [SeqId -> Seq(Blocks)] /\ call.op = "allocate" /\ SizesInv
  BY DEF BlockInv, BMInv, BMTypeOK, InAllocateLoop
<1>2. /\ h2b' = IF IterHash # NoHash THEN MapTo(h2b, IterHash, b) ELSE h2b
      /\ table' = [table EXCEPT ![s] = Append(@, b)]
      /\ call'.op = "allocate" /\ call'.seq = s /\ UNCHANGED <<tokens, pending>>
  BY DEF IterEnd, AllocateFrame
<1>3. NoHash \notin DOMAIN h2b'
  BY <1>1, <1>2 DEF MapTo, SizesInv
<1>4. ~pending'[s]
  BY <1>1, <1>2 DEF SizesInv
<1>5. SizeInv(s)'
  BY <1>2, <1>4 DEF SizeInv, Holding
<1>6. ASSUME NEW t \in SeqId \ {s} PROVE SizeInv(t)'
  <2>1. UNCHANGED <<table[t], tokens[t], pending[t]>>
    BY <1>1, <1>2
  <2>2. (Holding(t)' => Holding(t)) /\ ~Calling(t)
    BY <1>1, <2>1 DEF Holding, Calling
  <2> QED BY <1>1, <2>1, <2>2, SizeStays DEF SizesInv
<1> QED BY <1>2, <1>3, <1>4, <1>5, <1>6 DEF SizesInv

LEMMA DeallocateSizes == BlockInv /\ DeallocateBlock => SizesInv'
<1> SUFFICES ASSUME BlockInv, DeallocateBlock PROVE SizesInv'
  OBVIOUS
<1> PICK s \in SeqId : s = call.seq
  BY CallFields DEF BlockInv, BMInv, BMTypeOK, DeallocateBlock
<1>1. /\ table \in [SeqId -> Seq(Blocks)] /\ call.op = "deallocate" /\ SizesInv
      /\ table' = [table EXCEPT ![s] = Front(@)]
      /\ UNCHANGED <<h2b, tokens, pending, call>>
  BY DEF BlockInv, BMInv, BMTypeOK, DeallocateBlock
<1>2. SizeInv(s)'
  BY <1>1 DEF SizeInv, Holding, Calling
<1>3. ASSUME NEW t \in SeqId \ {s} PROVE SizeInv(t)'
  <2>1. UNCHANGED <<table[t], tokens[t], pending[t]>>
    BY <1>1
  <2>2. (Holding(t)' => Holding(t)) /\ ~Calling(t)
    BY <1>1, <2>1 DEF Holding, Calling
  <2> QED BY <1>1, <2>1, <2>2, SizeStays DEF SizesInv
<1> QED BY <1>1, <1>2, <1>3 DEF SizesInv

-----------------------------------------------------------------------------
(* What the blocks contain. *)
LEMMA EntryKept ==
  ASSUME NEW t \in SeqId, NEW i \in DOMAIN table[t], EntryInv(t, i), table'[t][i] = table[t][i],
         hash'[table[t][i]] = hash[table[t][i]], content'[table[t][i]] = content[table[t][i]],
         ref'[table[t][i]] = ref[table[t][i]] \/ Full(t, i),
         UNCHANGED <<tokens[t], pending[t]>>
  PROVE  EntryInv(t, i)'
<1>1. Full(t, i)' <=> Full(t, i)
  BY DEF Full, Covered
<1> QED BY <1>1 DEF EntryInv

(* One iteration of allocate: the block gets the tokens it will hold, and  *)
(* if somebody holds it already it keeps the same ones.                    *)
LEMMA IterContent ==
  ASSUME BlockInv, BlockSize # 1, InAllocateLoop, NEW b \in Blocks, IterEnd(b),
         IterHash = NoHash => ref'[b] = 1,
         \A c \in Blocks \ {b} : ref'[c] = ref[c],
         \A t \in SeqId : \A i \in DOMAIN table[t] :
           table[t][i] = b => Full(t, i) /\ content[b] = IterTokens /\ IterHash # NoHash
  PROVE  ContentInv'
<1> PICK s \in SeqId : s = call.seq
  BY IterTypes DEF BlockInv, BMInv
<1> PICK k \in Nat : k = call.i
  BY IterTypes DEF BlockInv, BMInv
<1>0. BMTypeOK /\ tokens \in [SeqId -> Seq(Token)] /\ call.op = "allocate" /\ k < num_blocks(s)
  BY DEF BlockInv, BMInv, BMTypeOK, InAllocateLoop
<1>1. /\ Len(table[s]) = k /\ ~pending[s]
      /\ \A t \in SeqId : \A i \in DOMAIN table[t] : EntryInv(t, i)
  BY <1>0 DEF BlockInv, LoopInv, ContentInv, SizesInv
<1>2. /\ hash' = [hash EXCEPT ![b] = IterHash]
      /\ content' = [content EXCEPT ![b] = IF IterHash # NoHash THEN IterTokens ELSE << >>]
      /\ table' = [table EXCEPT ![s] = Append(@, b)] /\ UNCHANGED <<tokens, pending>>
  BY DEF IterEnd
<1>3. /\ hash'[b] = IterHash
      /\ content'[b] = IF IterHash # NoHash THEN IterTokens ELSE << >>
      /\ \A c \in Blocks \ {b} : hash'[c] = hash[c] /\ content'[c] = content[c]
  BY <1>0, <1>2 DEF BMTypeOK
<1>4. /\ IterTokens = block(s, k)
      /\ IterHash # NoHash <=> (k + 1) * BlockSize <= Len(tokens[s])
      /\ (k + 1) * BlockSize <= Len(tokens[s]) =>
           IterTokens = SubSeq(tokens[s], k * BlockSize + 1, (k + 1) * BlockSize)
  <2>1. IterTokens = block(s, k)
    BY DEF IterTokens
  <2>2. IterTokens \in Seq(Token) /\ IterTokens # << >> /\ call.h \in Seq(Token)
    BY <1>0, <2>1, BlockLen, CallFields DEF BMTypeOK
  <2>3. call.h \o IterTokens # << >>
    BY <2>2
  <2> QED BY <1>0, <2>1, <2>3, BlockLen DEF IterHash, compute_hash, NoHash
<1>5. ASSUME NEW t \in SeqId, NEW i \in DOMAIN table[t], table'[t][i] = table[t][i]
      PROVE  EntryInv(t, i)'
  <2>1. CASE table[t][i] = b
    <3>1. Full(t, i) /\ content[b] = IterTokens /\ IterHash # NoHash /\ EntryInv(t, i)
      BY <1>1, <2>1
    <3>2. Full(t, i)'
      BY <1>2, <3>1 DEF Full, Covered
    <3>3. content'[b] = content[b] /\ hash'[b] # NoHash
      BY <1>3, <3>1
    <3> QED BY <1>2, <1>5, <2>1, <3>1, <3>2, <3>3 DEF EntryInv
  <2>2. CASE table[t][i] # b
    <3>1. table[t][i] \in Blocks \ {b}
      BY <1>0, <2>2, TableTypes
    <3> QED BY <1>1, <1>2, <1>3, <1>5, <3>1, EntryKept
  <2> QED BY <2>1, <2>2
<1>6. /\ DOMAIN table[s] = 1 .. k /\ DOMAIN table'[s] = 1 .. k + 1 /\ table'[s][k + 1] = b
      /\ \A i \in 1 .. k : table'[s][i] = table[s][i]
      /\ \A t \in SeqId \ {s} : table'[t] = table[t]
  <2>1. table \in [SeqId -> Seq(Blocks)] /\ table' = [table EXCEPT ![s] = Append(@, b)]
    BY <1>0, <1>2 DEF BMTypeOK
  <2>2. /\ DOMAIN table[s] = 1 .. Len(table[s])
        /\ DOMAIN table'[s] = 1 .. Len(table[s]) + 1
        /\ table'[s][Len(table[s]) + 1] = b
        /\ \A i \in 1 .. Len(table[s]) : table'[s][i] = table[s][i]
        /\ \A t \in SeqId \ {s} : table'[t] = table[t]
    BY <2>1, TableAppend
  <2>3. Len(table[s]) = k
    BY <1>1
  <2> QED BY ONLY <2>2, <2>3
<1>7. EntryInv(s, k + 1)'
  <2>1. k + 1 - 1 = k /\ Covered(s)' = Len(tokens[s])
    BY <1>0, <1>1, <1>2 DEF Covered
  <2>2. Full(s, k + 1)' <=> (k + 1) * BlockSize <= Len(tokens[s])
    BY <2>1 DEF Full
  <2>3. CASE Full(s, k + 1)'
    BY <1>2, <1>3, <1>4, <1>6, <2>1, <2>2, <2>3 DEF EntryInv
  <2>4. CASE ~Full(s, k + 1)'
    BY <1>2, <1>3, <1>4, <1>6, <2>1, <2>2, <2>4 DEF EntryInv
  <2> QED BY <2>3, <2>4
<1>8. ASSUME NEW t \in SeqId, NEW i \in DOMAIN table'[t] PROVE EntryInv(t, i)'
  <2>1. CASE t = s /\ i = k + 1
    BY <1>7, <2>1
  <2>2. CASE ~(t = s /\ i = k + 1)
    <3>1. CASE t = s
      <4>1. i \in 1 .. k
        BY <1>6, <2>2, <3>1
      <4> QED BY <1>5, <1>6, <3>1, <4>1
    <3>2. CASE t # s
      <4>1. table'[t] = table[t]
        BY <1>6, <3>2
      <4> QED BY <1>5, <4>1
    <3> QED BY <3>1, <3>2
  <2> QED BY <2>1, <2>2
<1> QED BY <1>8 DEF ContentInv

(* Where a sequence neither grows nor loses an entry, and the blocks stay   *)
(* as they are, nothing changes.                                            *)
LEMMA EntriesStay ==
  ASSUME NEW t \in SeqId, \A i \in DOMAIN table[t] : EntryInv(t, i),
         UNCHANGED <<hash, content, ref>>, UNCHANGED <<table[t], tokens[t], pending[t]>>
  PROVE  \A i \in DOMAIN table'[t] : EntryInv(t, i)'
<1> SUFFICES ASSUME NEW i \in DOMAIN table[t] PROVE EntryInv(t, i)'
  OBVIOUS
<1> QED BY EntryKept

LEMMA AllocateContent ==
  ASSUME BlockInv, BlockSize # 1, AllocateMiss \/ AllocateShare \/ AllocateRevive
  PROVE  ContentInv'
<1>1. BMInv /\ BMTypeOK /\ SizesInv /\ ContentInv
  BY DEF BlockInv, BMInv
<1>2. ASSUME NEW b \in Blocks, InAllocateLoop, _allocate_block(b), IterEnd(b)
      PROVE  ContentInv'
  <2>1. ref[b] = 0 /\ ref'[b] = 1 /\ \A c \in Blocks \ {b} : ref'[c] = ref[c]
    BY <1>1, <1>2 DEF _allocate_block, BMTypeOK
  <2>2. \A t \in SeqId : \A i \in DOMAIN table[t] : table[t][i] # b
    BY <1>1, <2>1, NoHolder
  <2> QED BY <1>2, <2>1, <2>2, IterContent
<1>3. CASE AllocateMiss
  <2>1. Head(free) \in Blocks
    BY <1>1, <1>3 DEF AllocateMiss, BMTypeOK
  <2> QED BY <1>2, <1>3, <2>1 DEF AllocateMiss
<1>4. CASE AllocateRevive
  <2>1. h2b[IterHash] \in Blocks
    BY <1>1, <1>4, IterTypes DEF AllocateRevive
  <2> QED BY <1>2, <1>4, <2>1 DEF AllocateRevive
<1>5. CASE AllocateShare
  <2> PICK b : b = h2b[IterHash]
    OBVIOUS
  <2>1. /\ b \in Blocks /\ InAllocateLoop /\ IterEnd(b) /\ content[b] = IterTokens
        /\ IterHash # NoHash /\ ref' = [ref EXCEPT ![b] = @ + 1]
    BY <1>1, <1>5, IterTypes DEF AllocateShare, IterHit, SizesInv
  <2>2. \A c \in Blocks \ {b} : ref'[c] = ref[c]
    BY <1>1, <2>1 DEF BMTypeOK
  <2>3. IterTokens # << >>
    <3>1. call.seq \in SeqId /\ call.i \in Nat /\ call.i < num_blocks(call.seq)
      BY <1>1, <2>1, CallFields DEF BMTypeOK, InAllocateLoop
    <3> QED BY <1>1, <3>1, BlockLen DEF BMTypeOK, IterTokens
  <2>4. ASSUME NEW t \in SeqId, NEW i \in DOMAIN table[t], table[t][i] = b PROVE Full(t, i)
    BY <1>1, <2>1, <2>3, <2>4 DEF ContentInv, EntryInv
  <2> QED BY <2>1, <2>2, <2>4, IterContent
<1> QED BY <1>3, <1>4, <1>5

(* deallocate drops entries from the end and changes the count of one       *)
(* block, which is no open block of anybody else.                           *)
LEMMA DeallocateContent ==
  ASSUME BlockInv, BlockSize # 1, DeallocateBlock
  PROVE  ContentInv'
<1> PICK s \in SeqId : s = call.seq
  BY CallFields DEF BlockInv, BMInv, BMTypeOK, DeallocateBlock
<1> PICK b : b = Last(table[s])
  OBVIOUS
<1>1. /\ call.op = "deallocate" /\ table[s] # << >>
      /\ ref' = [ref EXCEPT ![b] = @ - 1] /\ table' = [table EXCEPT ![s] = Front(@)]
      /\ UNCHANGED <<hash, content, h2b, tokens, pending, call>>
  BY DEF DeallocateBlock
<1>2. /\ BMInv /\ BMTypeOK
      /\ \A t \in SeqId : \A i \in DOMAIN table[t] : EntryInv(t, i)
  BY DEF BlockInv, BMInv, ContentInv
<1>3. /\ b = table[s][Len(table[s])] /\ Len(table[s]) \in DOMAIN table[s] /\ b \in Blocks
  BY <1>1, <1>2, TableTypes
<1>4. /\ DOMAIN table'[s] = DOMAIN table[s] \ {Len(table[s])}
      /\ \A i \in DOMAIN table'[s] : table'[s][i] = table[s][i]
      /\ \A t \in SeqId \ {s} : table'[t] = table[t]
  <2>1. table \in [SeqId -> Seq(Blocks)] /\ table' = [table EXCEPT ![s] = Front(@)]
    BY <1>1, <1>2 DEF BMTypeOK
  <2> QED BY <1>1, <2>1, TableFront
<1>5. ASSUME NEW t \in SeqId, NEW i \in DOMAIN table'[t] PROVE EntryInv(t, i)'
  <2>1. i \in DOMAIN table[t] /\ table'[t][i] = table[t][i] /\ ~(t = s /\ i = Len(table[s]))
    BY <1>4
  <2>2. EntryInv(t, i) /\ table[t][i] \in Blocks
    BY <1>2, <2>1, TableTypes
  <2>3. CASE Full(t, i)
    BY <1>1, <2>1, <2>2, <2>3, EntryKept
  <2>4. CASE ~Full(t, i)
    <3>1. ref[table[t][i]] = 1
      BY <2>2, <2>4 DEF EntryInv
    <3>2. table[t][i] # b
      BY <1>2, <1>3, <2>1, <2>2, <3>1, OnlyHolder
    <3>3. ref'[table[t][i]] = ref[table[t][i]]
      BY <1>1, <1>2, <2>2, <3>2 DEF BMTypeOK
    <3> QED BY <1>1, <2>1, <2>2, <3>3, EntryKept
  <2> QED BY <2>3, <2>4
<1> QED BY <1>5 DEF ContentInv

-----------------------------------------------------------------------------
(* may_append, branch by branch.  With n tokens, L entries and the last     *)
(* token not covered, the remainder of n tells how the last entry stands.   *)
LEMMA Remainder ==
  ASSUME BlockSize # 1, NEW n \in Nat, NEW m \in Nat, n > 0,
         (m - 1) * BlockSize < n - 1, n - 1 <= m * BlockSize
  PROVE  /\ n % BlockSize = 1 <=> n = m * BlockSize + 1
         /\ n % BlockSize = 0 <=> n = m * BlockSize
<1> PICK q, r : q = n \div BlockSize /\ r = n % BlockSize
  OBVIOUS
<1>1. /\ q \in Nat /\ r \in Nat /\ r < BlockSize /\ n = q * BlockSize + r
      /\ BlockSize \in Nat /\ BlockSize >= 2
  BY BlockSizeAssumption
<1>2. /\ q * BlockSize \in Nat /\ (q - 1) * BlockSize = q * BlockSize - BlockSize
      /\ m * BlockSize \in Nat /\ (m - 1) * BlockSize = m * BlockSize - BlockSize
  BY <1>1, TimesNext
<1>3. ASSUME r \in {0, 1} PROVE q = m
  <2>1. (q - 1) * BlockSize < n - 1 /\ n - 1 <= q * BlockSize
    BY <1>1, <1>2, <1>3
  <2> QED BY <1>1, <2>1, QuotientUnique
<1>4. ASSUME NEW e \in {0, 1}, n = m * BlockSize + e PROVE r = e
  <2>1. e < BlockSize /\ e \in Nat
    BY <1>1
  <2>2. CASE q < m
    <3>1. (q + 1) * BlockSize <= m * BlockSize /\ (q + 1) * BlockSize = q * BlockSize + BlockSize
      BY <1>1, <2>2, TimesMonotone, TimesNext
    <3> QED BY <1>1, <1>2, <1>4, <2>1, <3>1
  <2>3. CASE m < q
    <3>1. (m + 1) * BlockSize <= q * BlockSize /\ (m + 1) * BlockSize = m * BlockSize + BlockSize
      BY <1>1, <2>3, TimesMonotone, TimesNext
    <3> QED BY <1>1, <1>2, <1>4, <2>1, <3>1
  <2>4. CASE q = m
    BY <1>1, <1>2, <1>4, <2>1, <2>4
  <2> QED BY <1>1, <2>2, <2>3, <2>4
<1>5. r = 1 <=> n = m * BlockSize + 1
  BY <1>1, <1>2, <1>3, <1>4
<1>6. r = 0 <=> n = m * BlockSize
  <2>1. r = 0 => n = m * BlockSize
    BY <1>1, <1>2, <1>3
  <2>2. n = m * BlockSize => r = 0
    BY <1>2, <1>4
  <2> QED BY <2>1, <2>2
<1> QED BY <1>5, <1>6

(* Where a sequence stands when may_append is called on it. *)
LEMMA Appending ==
  ASSUME BlockInv, call.op = "none", NEW s \in SeqId, table[s] # << >>, pending[s]
  PROVE  \E n, m \in Nat :
           /\ n = Len(tokens[s]) /\ m = Len(table[s]) /\ n > 0 /\ m > 0 /\ Covered(s) = n - 1
           /\ (m - 1) * BlockSize < n - 1 /\ n - 1 <= m * BlockSize
<1> PICK n, m : n = Len(tokens[s]) /\ m = Len(table[s])
  OBVIOUS
<1>1. BMTypeOK /\ SizeInv(s) /\ tokens[s] # << >>
  BY DEF BlockInv, BMInv, SizesInv, HeldHaveTokens
<1>2. n \in Nat /\ m \in Nat /\ n > 0 /\ m > 0
  <2>1. table[s] \in Seq(Blocks) /\ tokens[s] \in Seq(Token)
    BY <1>1, TableTypes
  <2> QED BY <1>1, <2>1
<1>3. Covered(s) = n - 1
  BY DEF Covered
<1>4. Fits(s, m)
  BY <1>1 DEF SizeInv, Holding
<1>5. (m - 1) * BlockSize < n - 1 /\ n - 1 <= m * BlockSize
  BY <1>3, <1>4 DEF Fits
<1> WITNESS n \in Nat, m \in Nat
<1> QED BY <1>2, <1>3, <1>5

LEMMA MayAppendSizes ==
  ASSUME BlockInv, NEW s \in SeqId, may_append(s)
  PROVE  SizesInv'
<1>1. /\ call.op = "none" /\ table[s] # << >> /\ pending[s] /\ BMTypeOK /\ SizesInv
      /\ pending' = [pending EXCEPT ![s] = FALSE] /\ UNCHANGED <<tokens, call>>
      /\ tokens[s] # << >>
  BY DEF may_append, BlockInv, BMInv, HeldHaveTokens
<1> PICK n \in Nat, m \in Nat :
      /\ n = Len(tokens[s]) /\ m = Len(table[s]) /\ n > 0 /\ m > 0 /\ Covered(s) = n - 1
      /\ (m - 1) * BlockSize < n - 1 /\ n - 1 <= m * BlockSize
  BY <1>1, Appending
<1>1a. ASSUME BlockSize # 1
       PROVE  /\ n % BlockSize = 1 <=> n = m * BlockSize + 1
              /\ n % BlockSize = 0 <=> n = m * BlockSize
  BY <1>1a, Remainder
<1>2. /\ ~pending'[s] /\ Covered(s)' = n
  BY <1>1 DEF BMTypeOK, Covered
<1>3. /\ BlockSize \in Nat /\ BlockSize >= 1 /\ m * BlockSize \in Nat
      /\ (m + 1) * BlockSize = m * BlockSize + BlockSize
      /\ (m - 1) * BlockSize = m * BlockSize - BlockSize
  BY BlockSizeAssumption, TimesNext
<1>4. table \in [SeqId -> Seq(Blocks)] /\ table[s] \in Seq(Blocks)
  BY <1>1 DEF BMTypeOK
<1>5. ASSUME NEW k \in Nat, Len(table'[s]) = k, (k - 1) * BlockSize < n, n <= k * BlockSize,
             \A t \in SeqId \ {s} : table'[t] = table[t],
             NoHash \notin DOMAIN h2b'
      PROVE  SizesInv'
  <2>1. Fits(s, k)'
    BY <1>2, <1>5 DEF Fits
  <2>2. Fits(s, Len(table[s]))'
    BY <1>5, <2>1 DEF Fits
  <2>3. SizeInv(s)'
    BY <1>2, <2>2 DEF SizeInv
  <2>4. ASSUME NEW t \in SeqId \ {s} PROVE SizeInv(t)'
    <3>1. UNCHANGED <<table[t], tokens[t], pending[t]>>
      BY <1>1, <1>5 DEF BMTypeOK
    <3>2. (Holding(t)' => Holding(t)) /\ ~Calling(t)
      BY <1>1, <3>1 DEF Holding, Calling
    <3> QED BY <1>1, <3>1, <3>2, SizeStays DEF SizesInv
  <2> QED BY <1>1, <1>5, <2>3, <2>4 DEF SizesInv
<1>6. ASSUME NEW b \in Blocks, table' = [table EXCEPT ![s] = Append(@, b)]
      PROVE  Len(table'[s]) = m + 1 /\ \A t \in SeqId \ {s} : table'[t] = table[t]
  BY <1>4, <1>6, TableAppend
<1>7. CASE MayAppendNew(s)
  <2>1. Head(free) \in Blocks
    BY <1>1, <1>7 DEF MayAppendNew, BMTypeOK
  <2>2. Len(table'[s]) = m + 1 /\ \A t \in SeqId \ {s} : table'[t] = table[t]
    BY <1>6, <1>7, <2>1 DEF MayAppendNew
  <2>3. n = m * BlockSize + 1 /\ NoHash \notin DOMAIN h2b'
    BY <1>1, <1>1a, <1>7 DEF MayAppendNew, SizesInv
  <2>4. m + 1 \in Nat /\ ((m + 1) - 1) * BlockSize < n /\ n <= (m + 1) * BlockSize
    BY <1>3, <2>3
  <2> QED BY <1>5, <2>2, <2>3, <2>4
<1>8. CASE MayAppendFull(s) \/ MayAppendInside(s)
  <2>1. UNCHANGED table /\ BlockSize # 1 /\ n # m * BlockSize + 1
    BY <1>1a, <1>8 DEF MayAppendFull, MayAppendInside
  <2>2. (m - 1) * BlockSize < n /\ n <= m * BlockSize
    BY <1>3, <2>1
  <2>3. NoHash \notin DOMAIN h2b'
    <3>1. CASE MayAppendFull(s)
      <4>1. h2b' = MapTo(h2b, LastHash(s, table[s], hash), Last(table[s]))
        BY <3>1 DEF MayAppendFull, RegisterLast
      <4>2. LastHash(s, table[s], hash) # NoHash
        BY <1>1, <1>4, HashNotEmpty DEF BMTypeOK
      <4> QED BY <1>1, <4>1, <4>2 DEF MapTo, SizesInv
    <3>2. CASE MayAppendInside(s)
      BY <1>1, <3>2 DEF MayAppendInside, pool, SizesInv
    <3> QED BY <1>8, <3>1, <3>2
  <2>4. Len(table'[s]) = m
    BY <2>1
  <2> QED BY <1>5, <2>1, <2>2, <2>3, <2>4
<1>9. CASE MayAppendUnit(s)
  <2> PICK b : b = Head(free)
    OBVIOUS
  <2> PICK hs : hs = [hash EXCEPT ![b] = NoHash]
    OBVIOUS
  <2>1. b \in Blocks /\ table' = [table EXCEPT ![s] = Append(@, b)] /\ BlockSize = 1
    BY <1>1, <1>9 DEF MayAppendUnit, BMTypeOK
  <2>2. hs \in [Blocks -> Seq(Token)]
    BY <1>1, <2>1 DEF BMTypeOK, NoHash
  <2>3. table'[s] \in Seq(Blocks)
    BY <1>4, <2>1, AppendFacts
  <2>4. h2b' = MapTo(h2b, LastHash(s, table'[s], hs), Last(table[s]))
    BY <1>9 DEF MayAppendUnit, RegisterLast
  <2>5. LastHash(s, table'[s], hs) # NoHash
    BY <1>1, <2>2, <2>3, HashNotEmpty
  <2>6. NoHash \notin DOMAIN h2b'
    BY <1>1, <2>4, <2>5 DEF MapTo, SizesInv
  <2>7. Len(table'[s]) = m + 1 /\ \A t \in SeqId \ {s} : table'[t] = table[t]
    BY <1>6, <2>1
  <2>8. m + 1 \in Nat /\ ((m + 1) - 1) * BlockSize < n /\ n <= (m + 1) * BlockSize
    BY <1>3, <2>1
  <2> QED BY <1>5, <2>6, <2>7, <2>8
<1> QED BY <1>7, <1>8, <1>9 DEF may_append

LEMMA MayAppendContent ==
  ASSUME BlockInv, BlockSize # 1, NEW s \in SeqId, may_append(s)
  PROVE  ContentInv'
<1>1. /\ call.op = "none" /\ table[s] # << >> /\ pending[s]
      /\ pending' = [pending EXCEPT ![s] = FALSE] /\ UNCHANGED <<tokens, call>>
  BY DEF may_append
<1>2. /\ BMInv /\ BMTypeOK
      /\ \A t \in SeqId : \A i \in DOMAIN table[t] : EntryInv(t, i)
  BY DEF BlockInv, BMInv, ContentInv
<1> PICK n \in Nat, m \in Nat :
      /\ n = Len(tokens[s]) /\ m = Len(table[s]) /\ n > 0 /\ m > 0 /\ Covered(s) = n - 1
      /\ (m - 1) * BlockSize < n - 1 /\ n - 1 <= m * BlockSize
  BY <1>1, Appending
<1>1a. /\ n % BlockSize = 1 <=> n = m * BlockSize + 1
       /\ n % BlockSize = 0 <=> n = m * BlockSize
  BY Remainder
<1>3. /\ ~pending'[s] /\ Covered(s)' = n
      /\ \A t \in SeqId \ {s} : UNCHANGED <<pending[t], Covered(t)>>
  BY <1>1, <1>2 DEF BMTypeOK, Covered
<1>4. /\ BlockSize \in Nat /\ BlockSize >= 2 /\ m * BlockSize \in Nat
      /\ (m + 1) * BlockSize = m * BlockSize + BlockSize
      /\ (m - 1) * BlockSize = m * BlockSize - BlockSize
  BY BlockSizeAssumption, TimesNext
<1> HIDE DEF may_append
<1>5. DOMAIN table[s] = 1 .. m /\ table[s][m] = Last(table[s]) /\ m \in DOMAIN table[s]
      /\ Last(table[s]) \in Blocks
  BY <1>1, <1>2, TableTypes
<1>6. \A i \in 1 .. m : i * BlockSize \in Nat /\ i * BlockSize <= m * BlockSize
  <2> SUFFICES ASSUME NEW i \in 1 .. m
               PROVE  i * BlockSize \in Nat /\ i * BlockSize <= m * BlockSize
    OBVIOUS
  <2>1. i * BlockSize <= m * BlockSize
    BY TimesMonotone
  <2> QED BY <2>1, TimesNext
<1>6a. \A i \in Nat : (Full(s, i) <=> i * BlockSize <= n - 1) /\ (Full(s, i)' <=> i * BlockSize <= n)
  BY <1>3 DEF Full
<1>7. \A i \in 1 .. m : i # m => Full(s, i) /\ Full(s, i)'
  <2> SUFFICES ASSUME NEW i \in 1 .. m, i # m PROVE Full(s, i) /\ Full(s, i)'
    OBVIOUS
  <2>1. i * BlockSize <= n - 1 /\ i * BlockSize <= (n - 1) + 1
    <3>1. i \in Int /\ m \in Int /\ n - 1 \in Int /\ i < m /\ (m - 1) * BlockSize < n - 1
      OBVIOUS
    <3> QED BY ONLY <3>1, BelowLast
  <2>2. (n - 1) + 1 = n /\ i \in Nat
    OBVIOUS
  <2> QED BY <1>6a, <2>1, <2>2
<1>9. CASE MayAppendNew(s)
  <2> PICK b : b = Head(free)
    OBVIOUS
  <2>1. /\ _allocate_block(b) /\ n = m * BlockSize + 1
        /\ table' = [table EXCEPT ![s] = Append(@, b)]
        /\ hash' = [hash EXCEPT ![b] = NoHash] /\ content' = [content EXCEPT ![b] = << >>]
    BY <1>1a, <1>9 DEF MayAppendNew
  <2>2. b \in Blocks
    BY <1>2, <1>9 DEF MayAppendNew, BMTypeOK
  <2>3. /\ ref[b] = 0 /\ ref'[b] = 1 /\ hash'[b] = NoHash /\ content'[b] = << >>
        /\ \A c \in Blocks \ {b} : UNCHANGED <<ref[c], hash[c], content[c]>>
    BY <1>2, <2>1, <2>2 DEF BMTypeOK, _allocate_block
  <2>4. /\ table'[s] # << >> /\ Len(table'[s]) = m + 1
        /\ DOMAIN table'[s] = 1 .. m + 1 /\ table'[s][m + 1] = b
        /\ \A i \in 1 .. m : table'[s][i] = table[s][i]
        /\ \A t \in SeqId \ {s} : table'[t] = table[t]
    <3>1. table \in [SeqId -> Seq(Blocks)]
      BY <1>2 DEF BMTypeOK
    <3> QED BY <2>1, <2>2, <3>1, TableAppend
  <2>5. ASSUME NEW t \in SeqId, NEW i \in DOMAIN table[t]
        PROVE  EntryInv(t, i) /\ table[t][i] \in Blocks \ {b}
    <3>1. EntryInv(t, i)
      BY <1>2
    <3>2. table[t][i] \in Blocks
      BY <1>2, TableTypes
    <3>3. table[t][i] # b
      BY <1>2, <2>2, <2>3, NoHolder
    <3> QED BY <3>1, <3>2, <3>3
  <2>6. ASSUME NEW i \in 1 .. m PROVE EntryInv(s, i)'
    <3>1. Full(s, i) /\ Full(s, i)'
      <4>1. i \in Nat /\ i * BlockSize \in Nat /\ i * BlockSize <= m * BlockSize
        BY <1>6
      <4>2. n = m * BlockSize + 1 /\ m * BlockSize \in Nat
        BY <1>4, <2>1
      <4>3. i * BlockSize <= n - 1 /\ i * BlockSize <= n
        BY ONLY <4>1, <4>2
      <4> QED BY <1>6a, <4>1, <4>3
    <3>2. EntryInv(s, i) /\ table[s][i] \in Blocks \ {b}
      BY <1>5, <2>5
    <3>3. UNCHANGED <<hash[table[s][i]], content[table[s][i]]>> /\ table'[s][i] = table[s][i]
      BY <2>3, <2>4, <3>2
    <3> QED BY <1>1, <3>1, <3>2, <3>3 DEF EntryInv
  <2>7. EntryInv(s, m + 1)'
    <3>1. ~Full(s, m + 1)'
      <4>1. m + 1 \in Nat /\ ~((m + 1) * BlockSize <= n)
        BY <1>4, <2>1
      <4> QED BY <1>6a, <4>1
    <3> QED BY <2>3, <2>4, <3>1 DEF EntryInv
  <2>8. ASSUME NEW t \in SeqId \ {s}, NEW i \in DOMAIN table'[t] PROVE EntryInv(t, i)'
    <3>1. table'[t] = table[t] /\ i \in DOMAIN table[t]
      BY <2>4
    <3>2. EntryInv(t, i) /\ table[t][i] \in Blocks \ {b}
      BY <2>5, <3>1
    <3>3. UNCHANGED <<hash[table[t][i]], content[table[t][i]], ref[table[t][i]]>>
      BY <2>3, <3>1, <3>2
    <3> QED BY <1>1, <1>3, <3>1, <3>2, <3>3, EntryKept
  <2>9. \A t \in SeqId : \A i \in DOMAIN table'[t] : EntryInv(t, i)'
    <3>1. \A i \in DOMAIN table'[s] : i \in 1 .. m \/ i = m + 1
      BY <2>4
    <3> QED BY <2>6, <2>7, <2>8, <3>1
  <2> QED BY <2>9 DEF ContentInv
<1>10. CASE MayAppendFull(s)
  <2> PICK b, toks, h : b = Last(table[s]) /\ toks = LastTokens(s) /\ h = LastHash(s, table[s], hash)
    OBVIOUS
  <2>1. /\ UNCHANGED <<ref, table>> /\ n = m * BlockSize
        /\ hash' = [hash EXCEPT ![b] = h] /\ content' = [content EXCEPT ![b] = toks]
    BY <1>1a, <1>10 DEF MayAppendFull, RegisterLast
  <2>2. num_blocks(s) = m
    <3>1. /\ num_blocks(s) \in Nat
          /\ (num_blocks(s) - 1) * BlockSize < n /\ n <= num_blocks(s) * BlockSize
      BY <1>2, NumBlocksBounds DEF BMTypeOK
    <3>2. (m - 1) * BlockSize < n /\ n <= m * BlockSize
      BY <1>4, <2>1
    <3> QED BY <3>1, <3>2, QuotientUnique
  <2>3. /\ toks \in Seq(Token) /\ toks # << >>
        /\ toks = SubSeq(tokens[s], (m - 1) * BlockSize + 1, m * BlockSize)
    <3>1. m - 1 \in Nat /\ m - 1 < num_blocks(s) /\ (m - 1) + 1 = m
      BY <2>2
    <3>2. toks = block(s, m - 1)
      BY <2>2 DEF LastTokens
    <3>3. m * BlockSize <= Len(tokens[s])
      BY <1>4, <2>1
    <3>4. tokens \in [SeqId -> Seq(Token)]
      BY <1>2 DEF BMTypeOK
    <3> QED BY <3>1, <3>2, <3>3, <3>4, BlockLen
  <2>4. h # NoHash
    BY <1>1, <1>2, HashNotEmpty DEF BMTypeOK, BMInv, HeldHaveTokens
  <2>5. ~Full(s, m) /\ EntryInv(s, m)
    <3>1. ~(m * BlockSize <= n - 1)
      BY <1>4, <2>1
    <3> QED BY <1>2, <1>5, <1>6a, <3>1
  <2>6. ref[b] = 1
    BY <1>5, <2>5 DEF EntryInv
  <2>7. /\ b \in Blocks /\ hash'[b] = h /\ content'[b] = toks
        /\ \A c \in Blocks \ {b} : UNCHANGED <<hash[c], content[c]>>
    BY <1>2, <1>5, <2>1 DEF BMTypeOK
  <2>8. EntryInv(s, m)'
    <3>1. Full(s, m)'
      BY <1>3, <1>4, <2>1 DEF Full
    <3>2. table'[s][m] = b
      BY <1>5, <2>1
    <3> QED BY <1>1, <2>3, <2>4, <2>7, <3>1, <3>2 DEF EntryInv
  <2>9. ASSUME NEW t \in SeqId, NEW i \in DOMAIN table[t], ~(t = s /\ i = m)
        PROVE  EntryInv(t, i)'
    <3>1. EntryInv(t, i) /\ table[t][i] \in Blocks
      BY <1>2, TableTypes
    <3>2. table[t][i] # b
      BY <1>2, <1>5, <2>6, <2>7, <2>9, OnlyHolder
    <3>3. UNCHANGED <<hash[table[t][i]], content[table[t][i]], ref[table[t][i]]>>
          /\ table'[t][i] = table[t][i]
      BY <2>1, <2>7, <3>1, <3>2
    <3>4. CASE t = s
      <4>1. Full(s, i) /\ Full(s, i)'
        BY <1>5, <1>7, <2>9, <3>4
      <4> QED BY <1>1, <3>1, <3>3, <3>4, <4>1 DEF EntryInv
    <3>5. CASE t # s
      BY <1>1, <1>3, <3>1, <3>3, <3>5, EntryKept
    <3> QED BY <3>4, <3>5
  <2>10. \A t \in SeqId : \A i \in DOMAIN table'[t] : EntryInv(t, i)'
    BY <2>1, <2>8, <2>9
  <2> QED BY <2>10 DEF ContentInv
<1>11. CASE MayAppendInside(s)
  <2>1. UNCHANGED <<ref, hash, content, table>> /\ n # m * BlockSize + 1 /\ n # m * BlockSize
    BY <1>1a, <1>11 DEF MayAppendInside, pool
  <2>2. ASSUME NEW i \in DOMAIN table[s] PROVE EntryInv(s, i)'
    <3>1. Full(s, i)' <=> Full(s, i)
      <4>1. CASE i = m
        <5>1. m * BlockSize <= n - 1 <=> m * BlockSize <= n
          BY <1>4, <2>1
        <5> QED BY <1>6a, <4>1, <5>1
      <4>2. CASE i # m
        <5>1. i \in 1 .. m
          BY <1>5
        <5> QED BY <1>7, <4>2, <5>1
      <4> QED BY <4>1, <4>2
    <3> QED BY <1>1, <1>2, <2>1, <3>1 DEF EntryInv
  <2>3. ASSUME NEW t \in SeqId \ {s} PROVE \A i \in DOMAIN table'[t] : EntryInv(t, i)'
    BY <1>1, <1>2, <1>3, <2>1, EntriesStay
  <2> QED BY <2>1, <2>2, <2>3 DEF ContentInv
<1>12. ~MayAppendUnit(s)
  BY DEF MayAppendUnit
<1> QED BY <1>9, <1>10, <1>11, <1>12 DEF may_append

-----------------------------------------------------------------------------
(* The operations that leave the blocks and the tables alone. *)
LEMMA CallsSizes ==
  ASSUME BlockInv,
         \/ \E s \in SeqId : \/ \E p \in Prompts : from_prompt(s, p)
                             \/ \E t \in Token : append_token(s, t)
                             \/ allocate(s) \/ deallocate(s)
         \/ AllocateReturn \/ DeallocateReturn
  PROVE  SizesInv'
<1>1. UNCHANGED <<ref, hash, content, h2b, free, used, table>>
  BY DEF from_prompt, append_token, allocate, deallocate, AllocateReturn, DeallocateReturn,
         pool, seqs
<1>2. BMInv /\ BMTypeOK /\ SizesInv
  BY DEF BlockInv, BMInv
<1>3. /\ tokens \in [SeqId -> Seq(Token)] /\ pending \in [SeqId -> BOOLEAN]
      /\ table \in [SeqId -> Seq(Blocks)]
  BY <1>2 DEF BMTypeOK
<1> DEFINE Goal == /\ call'.op = "allocate" => ~pending'[call'.seq]
                   /\ \A t \in SeqId : SizeInv(t)'
<1>4. ASSUME NEW s \in SeqId, NEW p \in Prompts, from_prompt(s, p) PROVE Goal
  <2>1. /\ call.op = "none" /\ tokens[s] = << >> /\ UNCHANGED <<pending, call>>
        /\ \A t \in SeqId \ {s} : tokens'[t] = tokens[t]
    BY <1>4, <1>3 DEF from_prompt
  <2>2. table[s] = << >>
    BY <1>2, <2>1 DEF BMInv, HeldHaveTokens
  <2>3. SizeInv(s)'
    BY <1>1, <1>2, <2>1, <2>2 DEF SizesInv, SizeInv, Holding, Calling
  <2>4. ASSUME NEW t \in SeqId \ {s} PROVE SizeInv(t)'
    BY <1>1, <1>2, <2>1, SizeStays DEF SizesInv, Holding, Calling
  <2> QED BY <2>1, <2>3, <2>4
<1>5. ASSUME NEW s \in SeqId, NEW x \in Token, append_token(s, x) PROVE Goal
  <2>1. /\ call.op = "none" /\ table[s] # << >> /\ ~pending[s] /\ UNCHANGED call
        /\ tokens'[s] = Append(tokens[s], x) /\ pending'[s]
        /\ \A t \in SeqId \ {s} : UNCHANGED <<tokens[t], pending[t]>>
    BY <1>5, <1>3 DEF append_token
  <2>2. Len(tokens'[s]) = Len(tokens[s]) + 1 /\ Len(tokens[s]) \in Nat
    BY <1>3, <2>1, AppendProperties
  <2>3. Covered(s) = Len(tokens[s]) - 0 /\ Covered(s)' = Len(tokens'[s]) - 1
    BY <2>1 DEF Covered
  <2>4. Covered(s)' = Covered(s)
    BY <2>2, <2>3
  <2>5. SizeInv(s)'
    BY <1>1, <1>2, <2>1, <2>4 DEF SizesInv, SizeInv, Holding, Fits
  <2>6. ASSUME NEW t \in SeqId \ {s} PROVE SizeInv(t)'
    BY <1>1, <1>2, <2>1, SizeStays DEF SizesInv, Holding, Calling
  <2> QED BY <2>1, <2>5, <2>6
<1>6. ASSUME NEW s \in SeqId, allocate(s) PROVE Goal
  <2>1. /\ call.op = "none" /\ table[s] = << >> /\ UNCHANGED <<tokens, pending>>
        /\ call'.op = "allocate" /\ call'.seq = s
    BY <1>6 DEF allocate, seqs, AllocateFrame
  <2>2. ~pending[s]
    BY <1>2, <2>1 DEF SizesInv, SizeInv, Calling
  <2>3. \A t \in SeqId : SizeInv(t)'
    BY <1>1, <1>2, <2>1, <2>2, SizeStays DEF SizesInv, Holding, Calling
  <2> QED BY <2>1, <2>2, <2>3
<1>7. ASSUME NEW s \in SeqId, deallocate(s) PROVE Goal
  <2>1. /\ call.op = "none" /\ table[s] # << >> /\ UNCHANGED <<tokens, pending>>
        /\ call'.op = "deallocate" /\ call'.seq = s
    BY <1>7 DEF deallocate, seqs, DeallocateFrame
  <2>2. \A t \in SeqId : SizeInv(t)'
    BY <1>1, <1>2, <2>1, SizeStays DEF SizesInv, Holding, Calling
  <2> QED BY <2>1, <2>2
<1>8. ASSUME AllocateReturn PROVE Goal
  <2> PICK s \in SeqId : s = call.seq
    BY <1>2, <1>8, CallFields DEF AllocateReturn, BMTypeOK
  <2>1. /\ call.op = "allocate" /\ call.i >= num_blocks(s) /\ call.i \in Nat /\ UNCHANGED tokens
        /\ call'.op = "none" /\ pending' = [pending EXCEPT ![s] = FALSE]
    BY <1>2, <1>8, CallFields DEF AllocateReturn, NoCall, BMTypeOK
  <2>2. ~pending[s]
    BY <1>2, <2>1 DEF SizesInv
  <2>3. pending' = pending
    BY <1>3, <2>1, <2>2
  <2>4. Fits(s, Len(table[s])) /\ Len(table[s]) = num_blocks(s)
    <3>1. Len(table[s]) = num_blocks(s)
      BY <1>3, <2>1, NumBlocksBounds DEF BlockInv, LoopInv
    <3>2. Covered(s) = Len(tokens[s])
      BY <1>3, <2>2 DEF Covered
    <3> QED BY <1>3, <3>1, <3>2, NumBlocksBounds DEF Fits
  <2>5. ASSUME NEW t \in SeqId PROVE SizeInv(t)'
    <3>1. Fits(t, Len(table[t]))' <=> Fits(t, Len(table[t]))
      BY <1>1, <2>1, <2>3 DEF Fits, Covered
    <3>2. CASE t = s
      BY <2>1, <2>2, <2>3, <2>4, <3>1, <3>2 DEF SizeInv
    <3>3. CASE t # s
      BY <1>1, <1>2, <2>1, <2>3, <3>1, <3>3 DEF SizesInv, SizeInv, Holding, Calling
    <3> QED BY <3>2, <3>3
  <2> QED BY <2>1, <2>5
<1>9. ASSUME DeallocateReturn PROVE Goal
  <2> PICK s \in SeqId : s = call.seq
    BY <1>2, <1>9, CallFields DEF DeallocateReturn, BMTypeOK
  <2>1. /\ call.op = "deallocate" /\ table[s] = << >> /\ UNCHANGED tokens
        /\ call'.op = "none" /\ pending'[s] = FALSE
        /\ \A t \in SeqId \ {s} : pending'[t] = pending[t]
    BY <1>9, <1>3 DEF DeallocateReturn, NoCall
  <2>2. SizeInv(s)'
    BY <1>1, <2>1 DEF SizeInv, Holding
  <2>3. ASSUME NEW t \in SeqId \ {s} PROVE SizeInv(t)'
    BY <1>1, <1>2, <2>1, SizeStays DEF SizesInv, Holding, Calling
  <2> QED BY <2>1, <2>2, <2>3
<1>10. Goal
  BY <1>4, <1>5, <1>6, <1>7, <1>8, <1>9
<1> QED BY <1>1, <1>2, <1>10 DEF SizesInv

LEMMA SizesNext == BlockInv /\ [BMNext]_bmVars => SizesInv'
<1> SUFFICES ASSUME BlockInv, [BMNext]_bmVars PROVE SizesInv'
  OBVIOUS
<1>1. CASE UNCHANGED bmVars
  <2>1. UNCHANGED <<h2b, table, tokens, pending, call>> /\ SizesInv
    BY <1>1 DEF bmVars, BlockInv
  <2> QED BY <2>1, SizeStays DEF SizesInv, Holding, Calling
<1>2. CASE CallStep
  <2>1. CASE AllocateMiss \/ AllocateShare \/ AllocateRevive
    <3>1. \E b \in Blocks : InAllocateLoop /\ IterEnd(b)
      <4>1. AllocateMiss => Head(free) \in Blocks
        BY DEF AllocateMiss, BlockInv, BMInv, BMTypeOK
      <4>2. IterHit => h2b[IterHash] \in Blocks
        BY IterTypes DEF BlockInv, BMInv, BMTypeOK, IterHit
      <4> QED BY <2>1, <4>1, <4>2 DEF AllocateMiss, AllocateShare, AllocateRevive
    <3> QED BY <3>1, IterationSizes
  <2>2. CASE DeallocateBlock
    BY <2>2, DeallocateSizes
  <2> QED BY <1>2, <2>1, <2>2 DEF CallStep
<1>3. ASSUME NEW s \in SeqId, may_append(s) PROVE SizesInv'
  BY <1>3, MayAppendSizes
<1>4. CASE reset
  <2>1. /\ UNCHANGED <<table, tokens, pending, call>> /\ h2b' = EmptyMap /\ SizesInv
    BY <1>4 DEF reset, seqs, BlockInv
  <2>2. NoHash \notin DOMAIN h2b'
    BY <2>1 DEF EmptyMap
  <2> QED BY <2>1, <2>2, SizeStays DEF SizesInv, Holding, Calling
<1>5. CASE AllocateReturn \/ DeallocateReturn
  BY <1>5, CallsSizes
<1>6. ASSUME NEW s \in SeqId,
             \/ \E p \in Prompts : from_prompt(s, p)
             \/ \E t \in Token : append_token(s, t)
             \/ allocate(s) \/ deallocate(s)
      PROVE  SizesInv'
  BY <1>6, CallsSizes
<1>6a. ASSUME NEW s \in SeqId, MayAppendRaises(s) PROVE SizesInv'
  <2>1. /\ UNCHANGED <<h2b, table, tokens, pending>> /\ SizesInv
        /\ call.op = "none" /\ call'.op = "raised"
    BY <1>6a DEF MayAppendRaises, RaisedFrame, BlockInv, pool, seqs
  <2> QED BY <2>1, SizeStays DEF SizesInv, Holding, Calling
<1>7. CASE BMNext
  BY <1>2, <1>3, <1>4, <1>5, <1>6, <1>6a, <1>7 DEF BMNext
<1> QED BY <1>1, <1>7

LEMMA AppendedTokens ==
  ASSUME NEW q \in Seq(Token), NEW x \in Token, NEW r, r = Append(q, x),
         NEW a \in Nat, NEW b \in Nat, a >= 1, b <= Len(q)
  PROVE  SubSeq(r, a, b) = SubSeq(q, a, b)
<1>1. /\ r \in Seq(Token) /\ Len(r) = Len(q) + 1 /\ Len(q) \in Nat
      /\ \A k \in 1 .. Len(q) : r[k] = q[k]
  BY AppendProperties
<1> QED BY <1>1

LEMMA CallsContent ==
  ASSUME BlockInv, BlockSize # 1,
         \/ \E s \in SeqId : \/ \E p \in Prompts : from_prompt(s, p)
                             \/ \E t \in Token : append_token(s, t)
                             \/ allocate(s) \/ deallocate(s)
         \/ AllocateReturn \/ DeallocateReturn
  PROVE  ContentInv'
<1>1. UNCHANGED <<ref, hash, content, h2b, free, used, table>>
  BY DEF from_prompt, append_token, allocate, deallocate, AllocateReturn, DeallocateReturn,
         pool, seqs
<1>2. /\ BMInv /\ BMTypeOK /\ SizesInv
      /\ \A t \in SeqId : \A i \in DOMAIN table[t] : EntryInv(t, i)
  BY DEF BlockInv, BMInv, ContentInv
<1>3. /\ tokens \in [SeqId -> Seq(Token)] /\ pending \in [SeqId -> BOOLEAN]
      /\ table \in [SeqId -> Seq(Blocks)]
  BY <1>2 DEF BMTypeOK
<1>4. ASSUME NEW s \in SeqId,
             \A t \in SeqId \ {s} : UNCHANGED <<tokens[t], pending[t]>>,
             table[s] = << >> \/ UNCHANGED <<tokens[s], pending[s]>>
      PROVE  ContentInv'
  BY <1>1, <1>2, <1>4, EntriesStay DEF ContentInv
<1>5. ASSUME NEW s \in SeqId, NEW p \in Prompts, from_prompt(s, p) PROVE ContentInv'
  <2>1. /\ tokens[s] = << >> /\ UNCHANGED pending
        /\ \A t \in SeqId \ {s} : tokens'[t] = tokens[t]
    BY <1>5, <1>3 DEF from_prompt
  <2>2. table[s] = << >>
    BY <1>2, <2>1 DEF BMInv, HeldHaveTokens
  <2> QED BY <1>4, <2>1, <2>2
<1>6. ASSUME NEW s \in SeqId, NEW x \in Token, append_token(s, x) PROVE ContentInv'
  <2>1. /\ ~pending[s] /\ tokens'[s] = Append(tokens[s], x) /\ pending'[s]
        /\ \A t \in SeqId \ {s} : UNCHANGED <<tokens[t], pending[t]>>
    BY <1>6, <1>3 DEF append_token
  <2> PICK q, r : q = tokens[s] /\ r = tokens'[s]
    OBVIOUS
  <2>2. q \in Seq(Token) /\ r = Append(q, x) /\ Len(r) = Len(q) + 1 /\ Len(q) \in Nat
    BY <1>3, <2>1, AppendProperties
  <2>3. Covered(s) = Len(q) /\ Covered(s)' = Len(q)
    <3>1. Covered(s) = Len(q) - 0 /\ Covered(s)' = Len(r) - 1
      BY <2>1 DEF Covered
    <3> QED BY <2>2, <3>1
  <2>4. ASSUME NEW i \in DOMAIN table[s] PROVE EntryInv(s, i)'
    <3>1. Full(s, i)' <=> Full(s, i)
      BY <2>3 DEF Full
    <3>2. EntryInv(s, i)
      BY <1>2
    <3>3. CASE Full(s, i)
      <4> DEFINE lo == (i - 1) * BlockSize + 1
                 hi == i * BlockSize
      <4>1. i \in Nat /\ i >= 1
        BY <1>3
      <4>2. lo \in Nat /\ lo >= 1 /\ hi \in Nat
        <5>1. i - 1 \in Nat
          BY <4>1
        <5> QED BY <4>1, <5>1, TimesNext
      <4>3. hi <= Len(q)
        BY <2>3, <3>3 DEF Full
      <4> HIDE DEF lo, hi
      <4>4. SubSeq(r, lo, hi) = SubSeq(q, lo, hi)
        <5>1. /\ q \in Seq(Token) /\ x \in Token /\ r = Append(q, x)
              /\ lo \in Nat /\ lo >= 1 /\ hi \in Nat /\ hi <= Len(q)
          BY <2>2, <4>2, <4>3
        <5> QED BY ONLY <5>1, AppendedTokens
      <4>5. hash[table[s][i]] # NoHash /\ content[table[s][i]] = SubSeq(q, lo, hi)
        BY <3>2, <3>3 DEF EntryInv, lo, hi
      <4>6. hash'[table'[s][i]] # NoHash /\ content'[table'[s][i]] = SubSeq(r, lo, hi)
        BY <1>1, <4>4, <4>5
      <4> QED BY <3>1, <3>3, <4>6 DEF EntryInv, lo, hi
    <3>4. CASE ~Full(s, i)
      BY <1>1, <3>1, <3>2, <3>4 DEF EntryInv
    <3> QED BY <3>3, <3>4
  <2>5. ASSUME NEW t \in SeqId \ {s} PROVE \A i \in DOMAIN table'[t] : EntryInv(t, i)'
    BY <1>1, <1>2, <2>1, EntriesStay
  <2> QED BY <1>1, <2>4, <2>5 DEF ContentInv
<1>7. ASSUME NEW s \in SeqId, allocate(s) \/ deallocate(s) PROVE ContentInv'
  BY <1>4, <1>7 DEF allocate, deallocate, seqs
<1>8. ASSUME AllocateReturn PROVE ContentInv'
  <2> PICK s \in SeqId : s = call.seq
    BY <1>2, <1>8, CallFields DEF AllocateReturn, BMTypeOK
  <2>1. UNCHANGED tokens /\ pending' = [pending EXCEPT ![s] = FALSE] /\ ~pending[s]
    BY <1>2, <1>8 DEF AllocateReturn, SizesInv
  <2>2. pending' = pending
    BY <1>3, <2>1
  <2> QED BY <1>4, <2>1, <2>2
<1>9. ASSUME DeallocateReturn PROVE ContentInv'
  <2> PICK s \in SeqId : s = call.seq
    BY <1>2, <1>9, CallFields DEF DeallocateReturn, BMTypeOK
  <2>1. /\ table[s] = << >> /\ UNCHANGED tokens
        /\ \A t \in SeqId \ {s} : pending'[t] = pending[t]
    BY <1>9, <1>3 DEF DeallocateReturn
  <2> QED BY <1>4, <2>1
<1> QED BY <1>5, <1>6, <1>7, <1>8, <1>9

LEMMA ContentNext == BlockInv /\ [BMNext]_bmVars => ContentInv'
<1> SUFFICES ASSUME BlockInv, BlockSize # 1, [BMNext]_bmVars PROVE ContentInv'
  BY DEF ContentInv
<1>1. CASE UNCHANGED bmVars
  <2>1. UNCHANGED <<hash, content, ref, table, tokens, pending>>
    BY <1>1 DEF bmVars
  <2> QED BY <2>1, EntriesStay DEF BlockInv, ContentInv
<1>2. CASE CallStep
  BY <1>2, AllocateContent, DeallocateContent DEF CallStep
<1>3. ASSUME NEW s \in SeqId, may_append(s) PROVE ContentInv'
  BY <1>3, MayAppendContent
<1>4. CASE reset
  BY <1>4 DEF reset, seqs, ContentInv
<1>5. CASE AllocateReturn \/ DeallocateReturn
  BY <1>5, CallsContent
<1>6. ASSUME NEW s \in SeqId,
             \/ \E p \in Prompts : from_prompt(s, p)
             \/ \E t \in Token : append_token(s, t)
             \/ allocate(s) \/ deallocate(s)
      PROVE  ContentInv'
  BY <1>6, CallsContent
<1>6a. ASSUME NEW s \in SeqId, MayAppendRaises(s) PROVE ContentInv'
  <2>1. UNCHANGED <<hash, content, ref, table, tokens, pending>>
    BY <1>6a DEF MayAppendRaises, pool, seqs
  <2> QED BY <2>1, EntriesStay DEF BlockInv, ContentInv
<1>7. CASE BMNext
  BY <1>2, <1>3, <1>4, <1>5, <1>6, <1>6a, <1>7 DEF BMNext
<1> QED BY <1>1, <1>7

(* can_append answers for every block may_append takes, unless a block has *)
(* one token; after a raise nothing runs.                                  *)
LEMMA RaisedNext == BMTypeOK /\ RaisedInv /\ [BMNext]_bmVars => RaisedInv'
<1> SUFFICES ASSUME BMTypeOK, RaisedInv, [BMNext]_bmVars, call'.op = "raised"
             PROVE  BlockSize = 1 /\ free' = << >>
  BY DEF RaisedInv
<1>1. CASE UNCHANGED bmVars
  BY <1>1 DEF bmVars, RaisedInv
<1>2. ASSUME NEW s \in SeqId, can_append(s), MayAppendRaises(s)
      PROVE  BlockSize = 1 /\ free' = << >>
  <2>1. free = << >> /\ free' = << >> /\ (BlockSize = 1 \/ Len(tokens[s]) % BlockSize = 1)
    BY <1>2 DEF MayAppendRaises, pool
  <2>2. Len(free) = 0
    BY <2>1
  <2> QED BY <1>2, <2>1, <2>2 DEF can_append
<1>3. CASE CallStep \/ AllocateReturn \/ DeallocateReturn \/ reset
  BY <1>3 DEF CallStep, AllocateMiss, AllocateShare, AllocateRevive, IterEnd, AllocateFrame,
     InAllocateLoop, DeallocateBlock, AllocateReturn, DeallocateReturn, reset, NoCall
<1>4. ASSUME NEW s \in SeqId,
             \/ \E p \in Prompts : from_prompt(s, p)
             \/ \E t \in Token : append_token(s, t)
             \/ allocate(s) \/ deallocate(s) \/ may_append(s)
      PROVE  FALSE
  BY <1>4 DEF from_prompt, append_token, allocate, AllocateFrame, deallocate, DeallocateFrame,
     may_append
<1> QED BY <1>1, <1>2, <1>3, <1>4 DEF BMNext

LEMMA BlockInitInv == BMInit => BlockInv
<1> SUFFICES ASSUME BMInit PROVE BlockInv
  OBVIOUS
<1>1. BMInv
  BY BMInitInv
<1>2. LoopInv
  BY DEF BMInit, LoopInv, NoCall
<1>3. SizesInv /\ ContentInv /\ RaisedInv
  BY DEF BMInit, ContentInv, SizesInv, SizeInv, Holding, EmptyMap, NoCall, RaisedInv
<1> QED BY <1>1, <1>2, <1>3 DEF BlockInv

LEMMA BlockNextInv == BlockInv /\ [BMNext]_bmVars => BlockInv'
<1>1. BlockInv => BMInv /\ LoopInv /\ BMTypeOK /\ RaisedInv
  BY DEF BlockInv, BMInv
<1> QED BY <1>1, BMNextInv, LoopNext, SizesNext, ContentNext, RaisedNext DEF BlockInv

LEMMA BlockInvariant == BMSpec => []BlockInv
BY BlockInitInv, BlockNextInv, PTL DEF BMSpec

-----------------------------------------------------------------------------
(* Nobody shares the block a sequence is about to write into: prefix       *)
(* caching hands out full blocks only, and may_append closes a block before *)
(* it can be shared.                                                       *)
THEOREM SharedBlocksAreNotWritten == BMSpec => []OpenBlocksArePrivate
<1>1. BlockInv => OpenBlocksArePrivate
  <2> SUFFICES ASSUME BlockInv, BlockSize # 1, NEW s \in SeqId, Holding(s),
                      Covered(s) < Len(table[s]) * BlockSize
               PROVE  ref[Last(table[s])] = 1
    BY DEF OpenBlocksArePrivate
  <2>1. BMTypeOK /\ \A i \in DOMAIN table[s] : EntryInv(s, i)
    BY DEF BlockInv, BMInv, ContentInv
  <2>2. Len(table[s]) \in DOMAIN table[s] /\ Last(table[s]) = table[s][Len(table[s])]
    BY <2>1, TableTypes DEF Holding
  <2>3. ~Full(s, Len(table[s]))
    <3>1. Covered(s) \in Int /\ Len(table[s]) \in Nat
      BY <2>1, TableTypes
    <3>2. Len(table[s]) * BlockSize \in Int
      BY <3>1, BlockSizeAssumption
    <3> QED BY <3>1, <3>2 DEF Full
  <2> QED BY <2>1, <2>2, <2>3 DEF EntryInv
<1> QED BY <1>1, BlockInvariant, PTL

(* A sequence that no call is working on has exactly the blocks its tokens *)
(* need, and every full one carries its own tokens, whoever else shares    *)
(* it.                                                                     *)
THEOREM TablesHoldTheTokens == BMSpec => []TablesCoverTokens
<1>1. BlockInv => TablesCoverTokens
  <2> SUFFICES ASSUME BlockInv, BlockSize # 1, NEW s \in SeqId, Holding(s)
               PROVE  /\ Fits(s, Len(table[s]))
                      /\ \A i \in DOMAIN table[s] : Full(s, i) =>
                           content[table[s][i]] = SubSeq(tokens[s], (i - 1) * BlockSize + 1, i * BlockSize)
    BY DEF TablesCoverTokens, Fits, Full
  <2> QED BY DEF BlockInv, ContentInv, SizesInv, SizeInv, EntryInv
<1> QED BY <1>1, BlockInvariant, PTL

LEMMA FreeBlock ==
  ASSUME BMInv, NEW b \in Blocks
  PROVE  /\ b \in ToSet(free) <=> b \notin used
         /\ b \notin used => ref[b] = 0
         /\ ref[b] # 0 => b \in used /\ ref[b] > 0
<1>1. ref[b] \in Nat
  BY DEF BMInv, BMTypeOK
<1> QED BY <1>1 DEF BMInv, PoolInv, Partition

(* No assertion of block_manager.py fails: in the loop of allocate because *)
(* can_allocate was asked and every iteration takes one block, in          *)
(* deallocate because the reference counts are exact, in may_append        *)
(* because the last block has a hash if and only if it is full.  The one   *)
(* index that does fail is that of may_append in an empty deque, with one  *)
(* token per block, and then every block of the pool is in some table.     *)
THEOREM NoAssertionFails == BMSpec => []Assertions
<1>1. ASSUME BlockInv, InAllocateLoop, ~IterHit PROVE free # << >> /\ ref[Head(free)] = 0
  <2>1. BMInv /\ BMTypeOK /\ LoopInv
    BY <1>1 DEF BlockInv, BMInv
  <2>2. /\ call.op = "allocate" /\ call.seq \in SeqId /\ call.i \in Nat /\ call.i < num_blocks(call.seq)
        /\ Len(free) + call.i >= num_blocks(call.seq)
    BY <1>1, <2>1, CallFields DEF InAllocateLoop, LoopInv, BMTypeOK
  <2>3. num_blocks(call.seq) \in Nat /\ free \in Seq(Blocks)
    BY <2>1, <2>2, NumBlocksBounds DEF BMTypeOK
  <2>4. free # << >>
    BY <2>2, <2>3
  <2>5. Head(free) \in Blocks /\ Head(free) \in ToSet(free)
    BY <2>3, <2>4 DEF ToSet
  <2> QED BY <2>1, <2>4, <2>5, FreeBlock
<1>2. ASSUME BlockInv, InAllocateLoop, IterHit, h2b[IterHash] \notin used
      PROVE  ref[h2b[IterHash]] = 0 /\ h2b[IterHash] \in ToSet(free)
  <2>1. BMInv /\ h2b[IterHash] \in Blocks
    BY <1>2 DEF BlockInv, BMInv, BMTypeOK, IterHit
  <2> QED BY <1>2, <2>1, FreeBlock
<1>3. ASSUME BlockInv, call.op = "deallocate", table[call.seq] # << >>
      PROVE  ref[Last(table[call.seq])] > 0 /\ Last(table[call.seq]) \in used
  <2>1. BMInv /\ BMTypeOK /\ call.seq \in SeqId
    BY <1>3, CallFields DEF BlockInv, BMInv, BMTypeOK
  <2> PICK s \in SeqId : s = call.seq
    BY <2>1
  <2>2. /\ Len(table[s]) \in DOMAIN table[s] /\ Last(table[s]) = table[s][Len(table[s])]
        /\ Last(table[s]) \in Blocks
    BY <1>3, <2>1, TableTypes
  <2>3. ref[Last(table[s])] # 0
    BY <2>1, <2>2, NoHolder
  <2> QED BY <2>1, <2>2, <2>3, FreeBlock
<1>4. ASSUME BlockInv, BlockSize # 1, call.op = "none", NEW s \in SeqId, table[s] # << >>, pending[s]
      PROVE  Len(tokens[s]) % BlockSize = 1 <=> hash[Last(table[s])] # NoHash
  <2> PICK n \in Nat, m \in Nat :
        /\ n = Len(tokens[s]) /\ m = Len(table[s]) /\ n > 0 /\ m > 0 /\ Covered(s) = n - 1
        /\ (m - 1) * BlockSize < n - 1 /\ n - 1 <= m * BlockSize
    BY <1>4, Appending
  <2>0. n % BlockSize = 1 <=> n = m * BlockSize + 1
    BY <1>4, Remainder
  <2>1. BMTypeOK /\ \A i \in DOMAIN table[s] : EntryInv(s, i)
    BY <1>4 DEF BlockInv, BMInv, ContentInv
  <2>2. m \in DOMAIN table[s] /\ Last(table[s]) = table[s][m]
    BY <1>4, <2>1, TableTypes
  <2>3. Full(s, m) <=> hash[Last(table[s])] # NoHash
    BY <2>1, <2>2 DEF EntryInv
  <2>4. Full(s, m) <=> n = m * BlockSize + 1
    <3>1. Full(s, m) <=> m * BlockSize <= n - 1
      BY DEF Full
    <3>2. m * BlockSize \in Nat
      BY BlockSizeAssumption
    <3>3. n \in Nat /\ n - 1 <= m * BlockSize /\ Covered(s) = n - 1
      OBVIOUS
    <3> QED BY ONLY <3>1, <3>2, <3>3
  <2> QED BY <2>0, <2>3, <2>4
<1>5. ASSUME BlockInv, free # << >> PROVE ref[Head(free)] = 0
  <2>1. BMInv /\ free \in Seq(Blocks)
    BY <1>5 DEF BlockInv, BMInv, BMTypeOK
  <2>2. Head(free) \in Blocks /\ Head(free) \in ToSet(free)
    BY <1>5, <2>1 DEF ToSet
  <2> QED BY <2>1, <2>2, FreeBlock
<1>6. ASSUME BlockInv, call.op = "raised"
      PROVE  BlockSize = 1 /\ \A b \in Blocks : Holders(b) # {}
  <2>1. BlockSize = 1 /\ free = << >> /\ BMInv
    BY <1>6 DEF BlockInv, RaisedInv
  <2>2. ASSUME NEW b \in Blocks PROVE Holders(b) # {}
    <3>1. b \notin ToSet(free)
      BY <2>1 DEF ToSet
    <3>2. ref[b] > 0
      BY <2>1, <3>1 DEF BMInv, PoolInv, Partition
    <3>3. ref[b] = Cardinality(Holders(b))
      BY <2>1 DEF BMInv, PoolInv, RefCount
    <3> QED BY <3>2, <3>3, FS_EmptySet
  <2> QED BY <2>1, <2>2
<1>7. BlockInv => Assertions
  BY <1>1, <1>2, <1>3, <1>4, <1>5, <1>6 DEF Assertions
<1> QED BY <1>7, BlockInvariant, PTL

=============================================================================
