---------------------------- MODULE EngineProofs ----------------------------
(***************************************************************************)
(* Proofs about the engine: its steps are steps of the block manager, the  *)
(* requests keep their order, only running requests hold blocks, and the   *)
(* model runner gets the batch it relies on, for every pool, every batch   *)
(* limit, every set of prompts and any number of requests.                 *)
(***************************************************************************)
EXTENDS Engine, BlockManagerProofs

Scheduling == pc \in {"prefill", "allocate", "decode", "append", "preempt", "run"}

(* Where the engine thread is determines which call of the block manager is *)
(* under way, and for which sequence.                                       *)
ControlInv ==
  /\ pc = "allocate" =>
       call.op = "allocate" /\ waiting # << >> /\ call.seq = Head(waiting)
  /\ pc \in {"preempt", "finish"} => call.op = "deallocate"
  /\ pc \notin {"allocate", "preempt", "finish"} => call.op = "none"
  /\ cur # NoSeq <=> pc \in {"append", "preempt"}
  /\ pc = "preempt" => status[call.seq] = "WAITING" /\ (call.seq = cur => running = << >>)
  /\ pc \in {"check", "finish"} => done < Len(scheduled)
  /\ pc = "finish" => call.seq = scheduled[done + 1] /\ status[call.seq] = "FINISHED"

QueueInv ==
  /\ 1 .. nextId - 1 \subseteq SeqId
  /\ \A s \in ToSet(waiting) : status[s] # "RUNNING"
  /\ \A s \in SeqId : s >= nextId => status[s] = "none"

(* The batch under construction, and what is left of it in postprocess. *)
LimitInv ==
  /\ Scheduling => Len(scheduled) <= MaxNumSeqs /\ batched <= MaxNumBatchedTokens
  /\ pc \in {"allocate", "append", "preempt"} => Len(scheduled) < MaxNumSeqs
  /\ pc = "allocate" => batched + Len(tokens[call.seq]) <= MaxNumBatchedTokens
  /\ pc = "run" => scheduled # << >>
ReadyInv ==
  Scheduling => \A k \in DOMAIN scheduled : ~pending[scheduled[k]] /\ table[scheduled[k]] # << >>
BatchInv ==
  pc \in {"prefill", "allocate", "run", "post", "check", "finish"} =>
    /\ \A j, k \in DOMAIN scheduled : j < k => scheduled[j] < scheduled[k]
    /\ \A k \in DOMAIN scheduled :
         (pc \in {"post", "check", "finish"} => k > done) => scheduled[k] \in ToSet(running)

(* A hit is a full block of the sequence's own tokens. *)
CachedInv ==
  pc = "allocate" =>
    cached[call.seq] <= call.i * BlockSize /\ cached[call.seq] <= Len(tokens[call.seq])

EngineInd ==
  /\ EngineTypeOK /\ BlockInv
  /\ ControlInv /\ QueueInv /\ InOrder /\ OnlyRunningHold
  /\ LimitInv /\ ReadyInv /\ BatchInv /\ CachedInv

(* Every request fits the limits of a step and the pool, up to its last    *)
(* token but one: the last one is never scheduled.                         *)
EveryRequestFits ==
  \A p \in Prompts, m \in MaxTokens :
    /\ Len(p) + m - 1 <= MaxNumBatchedTokens
    /\ Len(p) + m - 1 <= NumBlocks * BlockSize

(* A running sequence that is not scheduled has a token its table may not  *)
(* cover yet.                                                              *)
PendingInv ==
  /\ cur # NoSeq => pending[cur]
  /\ \A s \in ToSet(running) :
       \/ pending[s]
       \/ pc \in {"prefill", "allocate", "run"} /\ s \in ToSet(scheduled)
       \/ pc \in {"post", "check", "finish"}
            /\ \E k \in DOMAIN scheduled :
                 s = scheduled[k] /\ k > (IF pc = "post" THEN done ELSE done + 1)
BudgetInv ==
  \A s \in 1 .. nextId - 1 :
    /\ tokens[s] # << >> /\ budget[s] <= MaxNumBatchedTokens + 1 /\ budget[s] <= NumBlocks * BlockSize + 1
    /\ status[s] # "FINISHED" =>
         Len(tokens[s]) <= (IF pc = "check" /\ s = scheduled[done + 1] THEN budget[s] ELSE budget[s] - 1)
ProgressInv ==
  /\ pc = "prefill" /\ scheduled = << >> => waiting # << >> \/ running # << >>
  /\ pc = "preempt" /\ call.seq = cur => scheduled # << >>
  /\ pc = "prefill" /\ scheduled = << >> => batched = 0
  /\ pc = "decode" /\ running = << >> => scheduled # << >>
FitInd == EngineInd /\ PendingInv /\ BudgetInv /\ ProgressInv
-----------------------------------------------------------------------------
(* Queues: sequences of ids in ascending order. *)
Sorted(q) == \A j, k \in DOMAIN q : j < k => q[j] < q[k]
Cat(p, q) == p \o q

LEMMA Concatenation ==
  ASSUME NEW p \in Seq(SeqId), NEW q \in Seq(SeqId)
  PROVE  /\ Cat(p, q) \in Seq(SeqId) /\ ToSet(Cat(p, q)) = ToSet(p) \cup ToSet(q)
         /\ Sorted(Cat(p, q)) <=> /\ Sorted(p) /\ Sorted(q)
                                 /\ \A s \in ToSet(p), t \in ToSet(q) : s < t
<1> DEFINE r == Cat(p, q)
<1> PICK m \in Nat, n \in Nat : m = Len(p) /\ n = Len(q)
  OBVIOUS
<1>1. /\ r \in Seq(SeqId) /\ Len(r) = m + n
      /\ \A i \in 1 .. m + n : r[i] = IF i <= m THEN p[i] ELSE q[i - m]
  BY ConcatProperties DEF Cat
<1> HIDE DEF r
<1>2. DOMAIN p = 1 .. m /\ DOMAIN q = 1 .. n /\ DOMAIN r = 1 .. m + n
  BY <1>1
<1>3. \A i \in 1 .. m : i \in 1 .. m + n /\ r[i] = p[i]
  BY <1>1
<1>4. ASSUME NEW i \in 1 .. n PROVE i + m \in 1 .. m + n /\ r[i + m] = q[i] /\ ~(i + m <= m)
  <2>1. i + m \in 1 .. m + n /\ ~(i + m <= m) /\ (i + m) - m = i
    OBVIOUS
  <2> QED BY <1>1, <2>1
<1>5. ASSUME NEW i \in 1 .. m + n
      PROVE  (i \in 1 .. m /\ r[i] = p[i]) \/ (i - m \in 1 .. n /\ r[i] = q[i - m] /\ i > m)
  BY <1>1
<1>6. ToSet(r) = ToSet(p) \cup ToSet(q)
  <2>1. ASSUME NEW s \in ToSet(p) \cup ToSet(q) PROVE s \in ToSet(r)
    <3>1. CASE s \in ToSet(p)
      BY <1>2, <1>3, <3>1 DEF ToSet
    <3>2. CASE s \in ToSet(q)
      <4> PICK i \in 1 .. n : q[i] = s
        BY <1>2, <3>2 DEF ToSet
      <4> QED BY <1>2, <1>4 DEF ToSet
    <3> QED BY <3>1, <3>2
  <2>2. \A s \in ToSet(r) : s \in ToSet(p) \cup ToSet(q)
    BY <1>2, <1>5 DEF ToSet
  <2> QED BY <2>1, <2>2
<1>7. ASSUME Sorted(r)
      PROVE  Sorted(p) /\ Sorted(q) /\ \A s \in ToSet(p), t \in ToSet(q) : s < t
  <2>1. Sorted(p)
    BY <1>2, <1>3, <1>7 DEF Sorted
  <2>2. Sorted(q)
    <3> SUFFICES ASSUME NEW j \in 1 .. n, NEW k \in 1 .. n, j < k PROVE q[j] < q[k]
      BY <1>2 DEF Sorted
    <3>1. j + m < k + m
      OBVIOUS
    <3> QED BY <1>2, <1>4, <1>7, <3>1 DEF Sorted
  <2>3. ASSUME NEW s \in ToSet(p), NEW t \in ToSet(q) PROVE s < t
    <3> PICK j \in 1 .. m, k \in 1 .. n : p[j] = s /\ q[k] = t
      BY <1>2 DEF ToSet
    <3>1. j < k + m
      OBVIOUS
    <3> QED BY <1>2, <1>3, <1>4, <1>7, <3>1 DEF Sorted
  <2> QED BY <2>1, <2>2, <2>3
<1>8. ASSUME Sorted(p), Sorted(q), \A s \in ToSet(p), t \in ToSet(q) : s < t
      PROVE  Sorted(r)
  <2> SUFFICES ASSUME NEW j \in 1 .. m + n, NEW k \in 1 .. m + n, j < k PROVE r[j] < r[k]
    BY <1>2 DEF Sorted
  <2>1. CASE j \in 1 .. m /\ k \in 1 .. m
    BY <1>2, <1>3, <1>8, <2>1 DEF Sorted
  <2>2. CASE j > m /\ k > m
    <3>1. j - m \in 1 .. n /\ k - m \in 1 .. n /\ j - m < k - m
      BY <2>2
    <3>2. r[j] = q[j - m] /\ r[k] = q[k - m]
      BY <1>5, <2>2
    <3> QED BY <1>2, <1>8, <3>1, <3>2 DEF Sorted
  <2>3. CASE j \in 1 .. m /\ k > m
    <3>1. r[j] = p[j] /\ k - m \in 1 .. n /\ r[k] = q[k - m]
      BY <1>3, <1>5, <2>3
    <3>2. p[j] \in ToSet(p) /\ q[k - m] \in ToSet(q)
      BY <1>2, <2>3, <3>1 DEF ToSet
    <3> QED BY <1>8, <3>1, <3>2
  <2> QED BY <2>1, <2>2, <2>3
<1> QED BY <1>1, <1>6, <1>7, <1>8 DEF r

LEMMA Single ==
  ASSUME NEW s \in SeqId
  PROVE  <<s>> \in Seq(SeqId) /\ ToSet(<<s>>) = {s} /\ Sorted(<<s>>)
BY DEF ToSet, Sorted

LEMMA Empty == << >> \in Seq(SeqId) /\ ToSet(<< >>) = {} /\ Sorted(<< >>)
BY DEF ToSet, Sorted

LEMMA Members ==
  ASSUME NEW q \in Seq(SeqId)
  PROVE  /\ ToSet(q) \subseteq SeqId
         /\ \A k \in DOMAIN q : q[k] \in ToSet(q) /\ q[k] \in SeqId
         /\ DOMAIN q = 1 .. Len(q) /\ Len(q) \in Nat
         /\ q # << >> <=> Len(q) > 0
BY DEF ToSet

LEMMA HeadTail ==
  ASSUME NEW q \in Seq(SeqId), q # << >>
  PROVE  /\ Head(q) \in SeqId /\ Tail(q) \in Seq(SeqId) /\ q = Cat(<<Head(q)>>, Tail(q))
         /\ Head(q) \in ToSet(q)
<1>1. Head(q) \in SeqId /\ Tail(q) \in Seq(SeqId) /\ Head(q) = q[1] /\ 1 \in DOMAIN q
  OBVIOUS
<1>2. /\ <<Head(q)>> \o Tail(q) \in Seq(SeqId) /\ Len(<<Head(q)>> \o Tail(q)) = Len(q)
      /\ \A i \in 1 .. Len(q) : (<<Head(q)>> \o Tail(q))[i] = q[i]
  BY <1>1
<1>3. <<Head(q)>> \o Tail(q) = q
  BY <1>2, SeqEqual
<1> QED BY <1>1, <1>3 DEF ToSet, Cat

LEMMA FrontLast ==
  ASSUME NEW q \in Seq(SeqId), q # << >>
  PROVE  /\ Front(q) \in Seq(SeqId) /\ Last(q) \in SeqId /\ q = Cat(Front(q), <<Last(q)>>)
         /\ Last(q) \in ToSet(q)
<1>0. Len(q) \in Nat /\ Len(q) > 0 /\ Len(q) \in DOMAIN q /\ Last(q) = q[Len(q)]
  BY DEF Last
<1>1. /\ Last(q) \in SeqId /\ Last(q) = q[Len(q)] /\ Len(q) \in DOMAIN q
      /\ Front(q) \in Seq(SeqId) /\ Len(Front(q)) = Len(q) - 1
      /\ \A i \in 1 .. Len(q) - 1 : Front(q)[i] = q[i]
  <2>1. q[Len(q)] \in SeqId
    BY <1>0
  <2>2. \A i \in 1 .. Len(q) - 1 : q[i] \in SeqId
    BY <1>0
  <2>3. /\ Front(q) \in Seq(SeqId) /\ Len(Front(q)) = Len(q) - 1
        /\ \A i \in 1 .. Len(q) - 1 : Front(q)[i] = q[i]
    <3> PICK n \in Nat : n = Len(q) - 1
      BY <1>0
    <3>1. /\ SubSeq(q, 1, n) \in Seq(SeqId) /\ Len(SubSeq(q, 1, n)) = n
          /\ \A i \in 1 .. n : SubSeq(q, 1, n)[i] = q[i]
      BY <2>2
    <3> QED BY <3>1 DEF Front
  <2> QED BY <1>0, <2>1, <2>3
<1>2. /\ Front(q) \o <<Last(q)>> \in Seq(SeqId) /\ Len(Front(q) \o <<Last(q)>>) = Len(q)
      /\ \A i \in 1 .. Len(q) : (Front(q) \o <<Last(q)>>)[i] = q[i]
  BY <1>1
<1>3. Front(q) \o <<Last(q)>> = q
  BY <1>2, SeqEqual
<1> QED BY <1>1, <1>3 DEF ToSet, Cat

(* running.remove(seq) takes one entry out of a queue in ascending order. *)
LEMMA SortedRemoval ==
  ASSUME NEW q \in Seq(SeqId), Sorted(q), NEW s \in ToSet(q)
  PROVE  /\ RemoveFromDeque(q, s) \in Seq(SeqId)
         /\ ToSet(RemoveFromDeque(q, s)) = ToSet(q) \ {s}
         /\ Sorted(RemoveFromDeque(q, s))
<1> PICK r : r = RemoveFromDeque(q, s)
  OBVIOUS
<1>1. r \in Seq(SeqId) /\ Len(r) = Len(q) - 1
  BY Removal
<1> PICK n \in 1 .. Len(q) :
      /\ q[n] = s /\ \A k \in 1 .. Len(q) - 1 : r[k] = IF k < n THEN q[k] ELSE q[k + 1]
  BY Removal
<1>2. /\ DOMAIN q = 1 .. Len(q) /\ DOMAIN r = 1 .. Len(q) - 1 /\ Len(q) \in Nat
      /\ \A k \in DOMAIN q : q[k] \in Int
  <2>1. DOMAIN q = 1 .. Len(q) /\ Len(q) \in Nat /\ DOMAIN r = 1 .. Len(q) - 1
    BY <1>1
  <2>2. \A k \in DOMAIN q : q[k] \in SeqId
    OBVIOUS
  <2>3. SeqId \subseteq Int
    BY EngineAssumption
  <2> QED BY <2>1, <2>2, <2>3
<1>3. \A j, k \in DOMAIN q : j # k => q[j] # q[k]
  <2> SUFFICES ASSUME NEW j \in DOMAIN q, NEW k \in DOMAIN q, j # k PROVE q[j] # q[k]
    OBVIOUS
  <2>1. q[j] < q[k] \/ q[k] < q[j]
    BY <1>2 DEF Sorted
  <2> QED BY <1>2, <2>1
<1>4. ASSUME NEW k \in 1 .. Len(q) - 1
      PROVE  r[k] \in ToSet(q) \ {s}
  <2>1. ASSUME NEW i \in DOMAIN q, i # n PROVE q[i] \in ToSet(q) \ {s}
    BY <1>2, <1>3, <2>1 DEF ToSet
  <2>2. CASE k < n
    <3>1. r[k] = q[k] /\ k \in DOMAIN q /\ k # n
      BY <1>2, <2>2
    <3> QED BY <2>1, <3>1
  <2>3. CASE ~(k < n)
    <3>1. r[k] = q[k + 1] /\ k + 1 \in DOMAIN q /\ k + 1 # n
      BY <1>2, <2>3
    <3> QED BY <2>1, <3>1
  <2> QED BY <2>2, <2>3
<1>5. ASSUME NEW t \in ToSet(q) \ {s} PROVE t \in ToSet(r)
  <2> PICK k \in 1 .. Len(q) : q[k] = t /\ k # n
    BY <1>2 DEF ToSet
  <2>1. CASE k < n
    <3>1. k \in 1 .. Len(q) - 1 /\ r[k] = t
      BY <2>1
    <3> QED BY <1>2, <3>1 DEF ToSet
  <2>2. CASE k > n
    <3>1. k - 1 \in 1 .. Len(q) - 1 /\ r[k - 1] = t
      BY <2>2
    <3> QED BY <1>2, <3>1 DEF ToSet
  <2> QED BY <2>1, <2>2
<1>6. Sorted(r)
  <2> SUFFICES ASSUME NEW j \in 1 .. Len(q) - 1, NEW k \in 1 .. Len(q) - 1, j < k
               PROVE  r[j] < r[k]
    BY <1>2 DEF Sorted
  <2>1. CASE k < n
    <3>1. j \in DOMAIN q /\ k \in DOMAIN q /\ r[k] = q[k] /\ r[j] = q[j]
      BY <1>2, <2>1
    <3> QED BY <3>1 DEF Sorted
  <2>2. CASE j < n /\ ~(k < n)
    <3>1. k + 1 \in DOMAIN q /\ j < k + 1 /\ r[k] = q[k + 1] /\ r[j] = q[j] /\ j \in DOMAIN q
      BY <1>2, <2>2
    <3> QED BY <3>1 DEF Sorted
  <2>3. CASE ~(j < n) /\ ~(k < n)
    <3>1. /\ k + 1 \in DOMAIN q /\ j + 1 \in DOMAIN q /\ j + 1 < k + 1
          /\ r[k] = q[k + 1] /\ r[j] = q[j + 1]
      BY <1>2, <2>3
    <3> QED BY <3>1 DEF Sorted
  <2> QED BY <2>1, <2>2, <2>3
<1>7. ToSet(r) = ToSet(q) \ {s}
  <2>1. ToSet(r) \subseteq ToSet(q) \ {s}
    BY <1>2, <1>4 DEF ToSet
  <2> QED BY <1>5, <2>1
<1> QED BY <1>1, <1>6, <1>7

-----------------------------------------------------------------------------
(* What the calls of the block manager leave alone. *)
LEMMA CallStepFrame ==
  ASSUME BMTypeOK, CallStep
  PROVE  /\ UNCHANGED <<tokens, pending>> /\ call'.op = call.op /\ call'.seq = call.seq
         /\ call.op \in {"allocate", "deallocate"} /\ call.seq \in SeqId
         /\ \A s \in SeqId : s # call.seq => UNCHANGED <<table[s], cached[s]>>
<1>1. CASE DeallocateBlock
  <2>1. call.op = "deallocate" /\ call.seq \in SeqId
    BY <1>1, CallFields DEF DeallocateBlock, BMTypeOK
  <2>2. /\ UNCHANGED <<tokens, pending, call, cached>>
        /\ table' = [table EXCEPT ![call.seq] = Front(@)]
    BY <1>1 DEF DeallocateBlock
  <2> QED BY <2>1, <2>2 DEF BMTypeOK
<1>2. ASSUME InAllocateLoop, NEW b, IterEnd(b),
             \/ UNCHANGED cached
             \/ cached' = [cached EXCEPT ![call.seq] = @ + BlockSize]
      PROVE  /\ UNCHANGED <<tokens, pending>> /\ call'.op = call.op /\ call'.seq = call.seq
             /\ call.op \in {"allocate", "deallocate"} /\ call.seq \in SeqId
             /\ \A s \in SeqId : s # call.seq => UNCHANGED <<table[s], cached[s]>>
  <2>1. call.op = "allocate" /\ call.seq \in SeqId
    BY <1>2, CallFields DEF InAllocateLoop, BMTypeOK
  <2>2. /\ UNCHANGED <<tokens, pending>>
        /\ table' = [table EXCEPT ![call.seq] = Append(@, b)]
        /\ call'.op = "allocate" /\ call'.seq = call.seq
    BY <1>2 DEF IterEnd, AllocateFrame
  <2> QED BY <1>2, <2>1, <2>2 DEF BMTypeOK
<1>3. CASE AllocateMiss
  BY <1>2, <1>3 DEF AllocateMiss
<1>4. CASE AllocateShare
  BY <1>2, <1>4 DEF AllocateShare
<1>5. CASE AllocateRevive
  BY <1>2, <1>5 DEF AllocateRevive
<1> QED BY <1>1, <1>3, <1>4, <1>5 DEF CallStep

LEMMA MayAppendFrame ==
  ASSUME BMTypeOK, NEW s \in SeqId, may_append(s)
  PROVE  /\ UNCHANGED <<tokens, cached, call>>
         /\ pending' = [pending EXCEPT ![s] = FALSE] /\ table[s] # << >> /\ table'[s] # << >>
         /\ \A t \in SeqId \ {s} : table'[t] = table[t]
<1>1. /\ UNCHANGED <<tokens, cached, call>> /\ table[s] # << >>
      /\ pending' = [pending EXCEPT ![s] = FALSE]
      /\ table \in [SeqId -> Seq(Blocks)]
  BY DEF may_append, BMTypeOK
<1>2. CASE MayAppendNew(s) \/ MayAppendUnit(s)
  <2>1. Head(free) \in Blocks /\ table' = [table EXCEPT ![s] = Append(@, Head(free))]
    BY <1>2 DEF MayAppendNew, MayAppendUnit, BMTypeOK
  <2> QED BY <1>1, <2>1, TableAppend
<1>3. CASE MayAppendFull(s) \/ MayAppendInside(s)
  BY <1>1, <1>3 DEF MayAppendFull, MayAppendInside, pool
<1> QED BY <1>2, <1>3 DEF may_append

(* Every step of the engine is a step of the block manager, or none.       *)
LEMMA EngineStepIsBM ==
  ASSUME EngineTypeOK, ControlInv, [EngineStep]_vars
  PROVE  [BMNext]_bmVars
<1>1. ASSUME NEW q \in Seq(SeqId), q # << >> PROVE Head(q) \in SeqId /\ Last(q) \in SeqId
  BY <1>1, HeadTail, FrontLast
<1>2. pc \in {"append", "preempt"} => cur \in SeqId
  BY DEF EngineTypeOK, ControlInv, NoSeq
<1>3. done < Len(scheduled) => scheduled[done + 1] \in SeqId
  BY DEF EngineTypeOK
<1>4. CASE add_request
  BY <1>4 DEF add_request, BMNext
<1>5. CASE Admit
  BY <1>1, <1>5 DEF Admit, CanAdmit, EngineTypeOK, BMNext
<1>6. CASE DecodeAppend
  BY <1>2, <1>6 DEF DecodeAppend, BMNext
<1>7. CASE PreemptOther \/ PreemptSelf
  BY <1>1, <1>2, <1>7 DEF PreemptOther, PreemptSelf, EngineTypeOK, BMNext
<1>8. CASE PostAppend
  BY <1>3, <1>8 DEF PostAppend, BMNext
<1>9. CASE PostStop
  BY <1>3, <1>9 DEF PostStop, ControlInv, BMNext
<1>10. CASE Admitted \/ Preempted \/ PostFinished \/ GenerateEnd \/ LoopStep
  BY <1>10 DEF Admitted, Preempted, PostFinished, GenerateEnd, LoopStep, BMNext
<1>11. CASE \/ StepBegin \/ PrefillEnd \/ DecodeNext \/ DecodeEnd \/ run \/ PostContinue
            \/ StepEnd
  BY <1>11 DEF StepBegin, PrefillEnd, DecodeNext, DecodeEnd, run, PostContinue, StepEnd
<1>12. CASE UNCHANGED vars
  BY <1>12 DEF vars, bmVars
<1> QED BY <1>4, <1>5, <1>6, <1>7, <1>8, <1>9, <1>10, <1>11, <1>12 DEF EngineStep, Exited

-----------------------------------------------------------------------------
(* The line of unfinished requests, case by case. *)
Lines ==
  /\ ~Decoding => Line = Cat(running, waiting)
  /\ pc = "decode" => Line = Cat(scheduled, Cat(running, waiting))
  /\ pc = "append" \/ (pc = "preempt" /\ call.seq = cur) =>
       Line = Cat(scheduled, Cat(<<cur>>, Cat(running, waiting)))
  /\ pc = "preempt" /\ call.seq # cur =>
       Line = Cat(scheduled, Cat(<<cur>>, Cat(running, Cat(<<call.seq>>, waiting))))

LEMMA ConcatAssoc ==
  ASSUME NEW a \in Seq(SeqId), NEW b \in Seq(SeqId), NEW c \in Seq(SeqId)
  PROVE  Cat(Cat(a, b), c) = Cat(a, Cat(b, c))
BY ConcatAssociative DEF Cat

LEMMA ConcatEmpty ==
  ASSUME NEW a \in Seq(SeqId)
  PROVE  Cat(<< >>, a) = a /\ Cat(a, << >>) = a
BY ConcatEmptySeq DEF Cat

LEMMA Ids == NoSeq \notin SeqId /\ SeqId \subseteq Nat
BY EngineAssumption DEF NoSeq

LEMMA Callers ==
  ASSUME EngineTypeOK, ControlInv
  PROVE  /\ pc \in {"allocate", "preempt", "finish"} => call.seq \in SeqId
         /\ pc \in {"append", "preempt"} => cur \in SeqId
         /\ pc \notin {"append", "preempt"} => cur = NoSeq
         /\ pc \in {"check", "finish"} => done + 1 \in DOMAIN scheduled /\ scheduled[done + 1] \in SeqId
<1>1. call \in CallType /\ scheduled \in Seq(SeqId) /\ done \in Nat
  BY DEF EngineTypeOK, BMTypeOK
<1> QED BY <1>1, CallFields DEF ControlInv, EngineTypeOK

LEMMA LinesHold == EngineTypeOK /\ ControlInv => Lines
<1> SUFFICES ASSUME EngineTypeOK, ControlInv PROVE Lines
  OBVIOUS
<1>1. /\ waiting \in Seq(SeqId) /\ running \in Seq(SeqId) /\ scheduled \in Seq(SeqId)
      /\ << >> \in Seq(SeqId)
  BY Empty DEF EngineTypeOK
<1>2. ASSUME NEW a \in Seq(SeqId), NEW c \in Seq(SeqId), NEW v \in Seq(SeqId),
             Line = (((a \o c) \o running) \o v) \o waiting
      PROVE  Line = Cat(a, Cat(c, Cat(running, Cat(v, waiting))))
  <2>1. Line = Cat(Cat(Cat(Cat(a, c), running), v), waiting)
    BY <1>2 DEF Cat
  <2>2. /\ Cat(a, c) \in Seq(SeqId) /\ Cat(Cat(a, c), running) \in Seq(SeqId)
        /\ Cat(v, waiting) \in Seq(SeqId) /\ Cat(running, Cat(v, waiting)) \in Seq(SeqId)
    BY <1>1, Concatenation
  <2>3. Line = Cat(Cat(Cat(a, c), running), Cat(v, waiting))
    BY <1>1, <2>1, <2>2, ConcatAssoc
  <2>4. Line = Cat(Cat(a, c), Cat(running, Cat(v, waiting)))
    BY <1>1, <2>2, <2>3, ConcatAssoc
  <2> QED BY <1>1, <2>2, <2>4, ConcatAssoc
<1>3. /\ Cat(<< >>, waiting) = waiting /\ Cat(running, waiting) \in Seq(SeqId)
      /\ Cat(<< >>, Cat(running, waiting)) = Cat(running, waiting)
  BY <1>1, ConcatEmpty, Concatenation
<1>4. CASE ~Decoding
  <2>1. cur = NoSeq /\ pc # "preempt"
    BY <1>4, Callers DEF Decoding
  <2>2. Line = (((<< >> \o << >>) \o running) \o << >>) \o waiting
    BY <1>4, <2>1 DEF Line
  <2>3. Line = Cat(<< >>, Cat(<< >>, Cat(running, Cat(<< >>, waiting))))
    BY <1>1, <1>2, <2>2
  <2> QED BY <1>3, <1>4, <2>3 DEF Lines, Decoding
<1>5. CASE pc = "decode"
  <2>1. cur = NoSeq
    BY <1>5, Callers
  <2>2. Line = (((scheduled \o << >>) \o running) \o << >>) \o waiting
    BY <1>5, <2>1 DEF Line, Decoding
  <2>3. Line = Cat(scheduled, Cat(<< >>, Cat(running, Cat(<< >>, waiting))))
    BY <1>1, <1>2, <2>2
  <2> QED BY <1>3, <1>5, <2>3 DEF Lines, Decoding
<1>6. CASE pc = "append" \/ (pc = "preempt" /\ call.seq = cur)
  <2>1. cur \in SeqId /\ cur # NoSeq /\ <<cur>> \in Seq(SeqId)
    BY <1>6, Callers, Ids, Single
  <2>2. Line = (((scheduled \o <<cur>>) \o running) \o << >>) \o waiting
    BY <1>6, <2>1 DEF Line, Decoding
  <2>3. Line = Cat(scheduled, Cat(<<cur>>, Cat(running, Cat(<< >>, waiting))))
    BY <1>1, <1>2, <2>1, <2>2
  <2> QED BY <1>3, <1>6, <2>3 DEF Lines, Decoding
<1>7. CASE pc = "preempt" /\ call.seq # cur
  <2>1. /\ cur \in SeqId /\ cur # NoSeq /\ <<cur>> \in Seq(SeqId)
        /\ call.seq \in SeqId /\ <<call.seq>> \in Seq(SeqId)
    BY <1>7, Callers, Ids, Single
  <2>2. Line = (((scheduled \o <<cur>>) \o running) \o <<call.seq>>) \o waiting
    BY <1>7, <2>1 DEF Line, Decoding
  <2>3. Line = Cat(scheduled, Cat(<<cur>>, Cat(running, Cat(<<call.seq>>, waiting))))
    BY <1>1, <1>2, <2>1, <2>2
  <2> QED BY <1>7, <2>3 DEF Lines, Decoding
<1> QED BY <1>4, <1>5, <1>6, <1>7 DEF Decoding

(* The parts of the line: each is in ascending order, and every request of *)
(* one part is older than those of the parts behind it.                    *)
LEMMA LineParts ==
  ASSUME EngineTypeOK, ControlInv, Sorted(Line)
  PROVE  /\ Sorted(running) /\ Sorted(waiting)
         /\ \A s \in ToSet(running), t \in ToSet(waiting) : s < t
         /\ Decoding =>
              /\ Sorted(scheduled)
              /\ \A s \in ToSet(scheduled), t \in ToSet(running) \cup ToSet(waiting) : s < t
         /\ pc \in {"append", "preempt"} =>
              /\ \A s \in ToSet(scheduled) : s < cur
              /\ \A s \in ToSet(running) \cup ToSet(waiting) : cur < s
         /\ pc = "preempt" /\ call.seq # cur =>
              /\ \A s \in ToSet(scheduled) \cup ToSet(running) : s < call.seq
              /\ \A s \in ToSet(waiting) : call.seq < s
<1>1. /\ waiting \in Seq(SeqId) /\ running \in Seq(SeqId) /\ scheduled \in Seq(SeqId)
      /\ Lines /\ Cat(running, waiting) \in Seq(SeqId)
      /\ ToSet(Cat(running, waiting)) = ToSet(running) \cup ToSet(waiting)
  BY LinesHold, Concatenation DEF EngineTypeOK
<1>2. CASE ~Decoding
  BY <1>1, <1>2, Concatenation DEF Lines, Decoding
<1>3. CASE pc = "decode"
  <2>1. Sorted(Cat(scheduled, Cat(running, waiting)))
    BY <1>1, <1>3 DEF Lines
  <2>2. /\ Sorted(scheduled) /\ Sorted(Cat(running, waiting))
        /\ \A s \in ToSet(scheduled), t \in ToSet(running) \cup ToSet(waiting) : s < t
    BY <1>1, <2>1, Concatenation
  <2> QED BY <1>1, <1>3, <2>2, Concatenation
<1>4. CASE pc = "append" \/ (pc = "preempt" /\ call.seq = cur)
  <2>1. /\ <<cur>> \in Seq(SeqId) /\ ToSet(<<cur>>) = {cur}
    BY <1>4, Callers, Single
  <2>2. /\ Cat(<<cur>>, Cat(running, waiting)) \in Seq(SeqId)
        /\ ToSet(Cat(<<cur>>, Cat(running, waiting))) = {cur} \cup (ToSet(running) \cup ToSet(waiting))
    BY <1>1, <2>1, Concatenation
  <2>3. Sorted(Cat(scheduled, Cat(<<cur>>, Cat(running, waiting))))
    BY <1>1, <1>4 DEF Lines
  <2>4. /\ Sorted(scheduled) /\ Sorted(Cat(<<cur>>, Cat(running, waiting)))
        /\ \A s \in ToSet(scheduled), t \in {cur} \cup (ToSet(running) \cup ToSet(waiting)) : s < t
    <3>1. scheduled \in Seq(SeqId)
      BY <1>1
    <3> QED BY ONLY <3>1, <2>2, <2>3, Concatenation
  <2>5. Sorted(Cat(running, waiting)) /\ \A t \in ToSet(running) \cup ToSet(waiting) : cur < t
    BY <1>1, <2>1, <2>4, Concatenation
  <2>6. /\ Sorted(running) /\ Sorted(waiting)
        /\ \A s \in ToSet(running), t \in ToSet(waiting) : s < t
    BY <1>1, <2>5, Concatenation
  <2> QED BY <1>4, <2>4, <2>5, <2>6
<1>5. CASE pc = "preempt" /\ call.seq # cur
  <2> PICK v, c, behind, after :
        /\ v = call.seq /\ c = <<cur>>
        /\ behind = Cat(running, Cat(<<v>>, waiting)) /\ after = Cat(c, behind)
    OBVIOUS
  <2>1. /\ c \in Seq(SeqId) /\ ToSet(c) = {cur}
        /\ <<v>> \in Seq(SeqId) /\ ToSet(<<v>>) = {v}
    BY <1>5, Callers, Single
  <2>2. Cat(<<v>>, waiting) \in Seq(SeqId) /\ ToSet(Cat(<<v>>, waiting)) = {v} \cup ToSet(waiting)
    BY <1>1, <2>1, Concatenation
  <2>3. /\ behind \in Seq(SeqId)
        /\ ToSet(behind) = ToSet(running) \cup ({v} \cup ToSet(waiting))
    BY <1>1, <2>2, Concatenation
  <2>4. /\ after \in Seq(SeqId) /\ ToSet(after) = {cur} \cup ToSet(behind)
    BY <1>1, <2>1, <2>3, Concatenation
  <2>5. Sorted(Cat(scheduled, after))
    BY <1>1, <1>5 DEF Lines
  <2>6. /\ Sorted(scheduled) /\ Sorted(after)
        /\ \A s \in ToSet(scheduled), t \in ToSet(after) : s < t
    BY <1>1, <2>4, <2>5, Concatenation
  <2>7. Sorted(behind) /\ \A t \in ToSet(behind) : cur < t
    <3>1. Sorted(Cat(c, behind)) /\ c \in Seq(SeqId) /\ behind \in Seq(SeqId)
      BY <2>1, <2>3, <2>6
    <3>2. Sorted(behind) /\ \A s \in ToSet(c), t \in ToSet(behind) : s < t
      BY ONLY <3>1, Concatenation
    <3> QED BY <2>1, <3>2
  <2>8. /\ Sorted(running) /\ Sorted(Cat(<<v>>, waiting))
        /\ \A s \in ToSet(running), t \in {v} \cup ToSet(waiting) : s < t
    BY <1>1, <2>2, <2>7, Concatenation
  <2>9. Sorted(waiting) /\ \A t \in ToSet(waiting) : v < t
    BY <1>1, <2>1, <2>8, Concatenation
  <2> QED BY <1>5, <2>3, <2>4, <2>6, <2>7, <2>8, <2>9
<1> QED BY <1>2, <1>3, <1>4, <1>5 DEF Decoding

-----------------------------------------------------------------------------
(* The steps preserve the types and the control invariant. *)
LEMMA IndParts ==
  ASSUME EngineInd
  PROVE  /\ EngineTypeOK /\ BMTypeOK /\ BlockInv /\ ControlInv /\ QueueInv /\ Sorted(Line)
         /\ waiting \in Seq(SeqId) /\ running \in Seq(SeqId) /\ scheduled \in Seq(SeqId)
BY DEF EngineInd, EngineTypeOK, InOrder, Sorted

LEMMA BlockStep == EngineInd /\ [EngineStep]_vars => BlockInv' /\ BMTypeOK'
<1> SUFFICES ASSUME EngineInd, [EngineStep]_vars PROVE BlockInv' /\ BMTypeOK'
  OBVIOUS
<1>1. BlockInv /\ [BMNext]_bmVars
  BY EngineStepIsBM DEF EngineInd
<1>2. BlockInv'
  BY <1>1, BlockNextInv
<1> QED BY <1>2 DEF BlockInv, BMInv

(* The length added to the batch: no more tokens are cached than there are. *)
LEMMA AdmittedTokens ==
  ASSUME EngineInd, Admitted
  PROVE  /\ batched' \in Nat /\ batched' <= batched + Len(tokens[call.seq])
         /\ call.seq \in SeqId /\ call.seq = Head(waiting) /\ waiting # << >>
         /\ table[call.seq] # << >> /\ call.op = "allocate"
<1>1. /\ call.op = "allocate" /\ call.seq = Head(waiting) /\ waiting # << >>
      /\ pc = "allocate" /\ call.i >= num_blocks(call.seq)
      /\ batched' = batched + Len(tokens[call.seq]) - cached[call.seq]
  BY DEF Admitted, AllocateReturn, ControlInv, EngineInd
<1>2. call.seq \in SeqId /\ batched \in Nat /\ BMTypeOK /\ LoopInv
  BY <1>1, Callers DEF EngineInd, EngineTypeOK, BlockInv
<1> PICK s \in SeqId : s = call.seq
  BY <1>2
<1>3. Len(tokens[s]) \in Nat /\ cached[s] \in Nat /\ cached[s] <= Len(tokens[s])
  BY <1>1, <1>2, TableTypes DEF CachedInv, EngineInd, BMTypeOK
<1>4. table[s] # << >>
  <2>1. tokens[s] # << >> /\ Len(table[s]) = call.i
    BY <1>1, <1>2 DEF LoopInv
  <2>2. num_blocks(s) \in Nat /\ num_blocks(s) > 0
    BY <1>2, <2>1, NumBlocksPositive DEF BMTypeOK
  <2>3. Len(table[s]) \in Nat /\ Len(table[s]) >= num_blocks(s)
    BY <1>1, <1>2, <2>1, TableTypes
  <2>4. Len(table[s]) # 0
    BY <2>2, <2>3
  <2> QED BY <2>4
<1> QED BY <1>1, <1>2, <1>3, <1>4

LEMMA Finisher ==
  ASSUME EngineInd, pc = "finish"
  PROVE  call.seq \in ToSet(running) /\ call.seq = scheduled[done + 1]
<1>1. done + 1 \in DOMAIN scheduled /\ done \in Nat /\ call.seq = scheduled[done + 1]
  BY Callers DEF EngineInd, ControlInv, EngineTypeOK
<1>2. done + 1 > done
  BY <1>1
<1> QED BY <1>1, <1>2 DEF EngineInd, BatchInv

LEMMA UptoType ==
  ASSUME BMTypeOK, NEW s \in SeqId, NEW i \in 1 .. MaxLen
  PROVE  Upto(s, i) \in Seq(Token)
<1>1. tokens[s] \in Seq(Token) /\ Len(tokens[s]) \in Nat
  BY TableTypes
<1>2. i * BlockSize \in Nat
  BY TimesNext, MaxLenAssumption
<1> PICK n \in Nat : n <= Len(tokens[s])
                    /\ n = IF i * BlockSize <= Len(tokens[s]) THEN i * BlockSize ELSE Len(tokens[s])
  BY <1>1, <1>2
<1>3. SubSeq(tokens[s], 1, n) \in Seq(Token)
  BY <1>1
<1> QED BY <1>3 DEF Upto

LEMMA EngineTypesNext == EngineInd /\ [EngineStep]_vars => EngineTypeOK'
<1> SUFFICES ASSUME EngineInd, [EngineStep]_vars PROVE EngineTypeOK'
  OBVIOUS
<1>1. EngineTypeOK /\ BMTypeOK' /\ BMTypeOK
  BY BlockStep DEF EngineInd, EngineTypeOK
<1>2. CASE add_request
  <2> PICK p \in Prompts, m \in MaxTokens : budget' = [budget EXCEPT ![nextId] = Len(p) + m]
    BY <1>2 DEF add_request
  <2>1. Len(p) \in Nat /\ m \in Nat
    BY PromptsAssumption, EngineAssumption
  <2> QED BY <1>1, <1>2, <2>1 DEF add_request, EngineTypeOK
<1>3. CASE Admitted
  <2>1. batched' \in Nat /\ call.seq \in SeqId /\ waiting # << >>
    BY <1>3, AdmittedTokens
  <2> QED BY <1>1, <1>3, <2>1 DEF Admitted, EngineTypeOK
<1>4. CASE DecodeNext
  BY <1>1, <1>4, HeadTail DEF DecodeNext, CanDecode, EngineTypeOK
<1>5. CASE DecodeAppend
  <2>1. cur \in SeqId
    BY <1>5, Callers DEF DecodeAppend, EngineInd
  <2> QED BY <1>1, <1>5, <2>1 DEF DecodeAppend, EngineTypeOK
<1>6. CASE PreemptOther
  <2>1. Front(running) \in Seq(SeqId) /\ Last(running) \in SeqId
    BY <1>1, <1>6, FrontLast DEF PreemptOther, EngineTypeOK
  <2> QED BY <1>1, <1>6, <2>1 DEF PreemptOther, EngineTypeOK
<1>7. CASE PreemptSelf
  BY <1>1, <1>7 DEF PreemptSelf, EngineTypeOK
<1>8. CASE Preempted
  <2>1. call.seq \in SeqId
    BY <1>8, Callers DEF Preempted, EngineInd
  <2>2. <<call.seq>> \o waiting \in Seq(SeqId)
    BY <1>1, <2>1, Concatenation, Single DEF Cat, EngineTypeOK
  <2> QED BY <1>1, <1>8, <2>2 DEF Preempted, EngineTypeOK
<1>9. CASE DecodeEnd
  <2>1. scheduled \o running \in Seq(SeqId)
    BY <1>1, Concatenation DEF Cat, EngineTypeOK
  <2> QED BY <1>1, <1>9, <2>1 DEF DecodeEnd, EngineTypeOK
<1>10. CASE run
  <2>1. kv' \in [Blocks -> Seq(Token)]
    <3>1. \A w \in Writes : Upto(w[1], w[2]) \in Seq(Token)
      <4> SUFFICES ASSUME NEW w \in Writes PROVE Upto(w[1], w[2]) \in Seq(Token)
        OBVIOUS
      <4>1. w[1] \in ToSet(scheduled) /\ w[2] \in 1 .. MaxLen
        BY DEF Writes
      <4>2. w[1] \in SeqId
        BY <1>1, <4>1, Members DEF EngineTypeOK
      <4> QED BY <1>1, <4>1, <4>2, UptoType
    <3>2. ASSUME NEW b \in Blocks
          PROVE  (IF \E w \in Writes : table[w[1]][w[2]] = b
                  THEN LET w == CHOOSE w \in Writes : table[w[1]][w[2]] = b IN Upto(w[1], w[2])
                  ELSE kv[b]) \in Seq(Token)
      BY <1>1, <3>1 DEF EngineTypeOK
    <3> QED BY <1>10, <3>2 DEF run
  <2> QED BY <1>1, <1>10, <2>1 DEF run, EngineTypeOK
<1>11. CASE PostStop
  <2>1. scheduled[done + 1] \in SeqId
    BY <1>11, Callers DEF PostStop, EngineInd
  <2> QED BY <1>1, <1>11, <2>1 DEF PostStop, EngineTypeOK
<1>12. CASE PostFinished
  <2>1. RemoveFromDeque(running, call.seq) \in Seq(SeqId)
    BY <1>1, <1>12, Finisher, Removal DEF PostFinished, EngineTypeOK
  <2> QED BY <1>1, <1>12, <2>1 DEF PostFinished, EngineTypeOK
<1>13. CASE StepBegin \/ Admit \/ PrefillEnd
  <2>0. CASE StepBegin
    <3>1. scheduled' \in Seq(SeqId) /\ batched' \in Nat
      BY <2>0, Empty DEF StepBegin
    <3> QED BY <1>1, <2>0, <3>1 DEF StepBegin, EngineTypeOK
  <2>1. CASE Admit
    BY <1>1, <2>1 DEF Admit, EngineTypeOK, schedVars
  <2>2. CASE PrefillEnd
    <3>1. prefill' \in BOOLEAN
      BY <2>2 DEF PrefillEnd
    <3>2. pc' \in {"run", "decode"}
      BY <2>2 DEF PrefillEnd
    <3>3. UNCHANGED <<waiting, running, scheduled, batched, cur, status, budget, done, nextId, kv>>
      BY <2>2 DEF PrefillEnd
    <3> QED BY <1>1, <3>1, <3>2, <3>3 DEF EngineTypeOK
  <2> QED BY <1>13, <2>0, <2>1, <2>2
<1>14. CASE GenerateEnd \/ PostAppend \/ PostContinue \/ StepEnd
  BY <1>1, <1>14 DEF GenerateEnd, PostAppend, PostContinue, StepEnd, EngineTypeOK, schedVars
<1>15. CASE LoopStep \/ UNCHANGED vars
  BY <1>1, <1>15 DEF LoopStep, EngineTypeOK, engineVars, vars
<1> QED BY <1>2, <1>3, <1>4, <1>5, <1>6, <1>7, <1>8, <1>9, <1>10, <1>11, <1>12, <1>13, <1>14,
           <1>15 DEF EngineStep, Exited

LEMMA ControlNext == EngineInd /\ [EngineStep]_vars => ControlInv'
<1> SUFFICES ASSUME EngineInd, [EngineStep]_vars PROVE ControlInv'
  OBVIOUS
<1>1. /\ EngineTypeOK /\ ControlInv /\ BMTypeOK /\ NoSeq \notin SeqId
      /\ done \in Nat /\ scheduled \in Seq(SeqId) /\ status \in [SeqId -> {"none", "WAITING", "RUNNING", "FINISHED"}]
  BY Ids DEF EngineInd, EngineTypeOK
<1>2. CASE add_request
  BY <1>1, <1>2 DEF add_request, from_prompt, ControlInv
<1>3. CASE Admit
  BY <1>1, <1>3 DEF Admit, CanAdmit, allocate, AllocateFrame, ControlInv, schedVars
<1>4. CASE Admitted
  BY <1>1, <1>4 DEF Admitted, AllocateReturn, NoCall, ControlInv
<1>5. CASE DecodeNext
  <2>1. Head(running) \in SeqId
    BY <1>1, <1>5, HeadTail DEF DecodeNext, CanDecode, EngineTypeOK
  <2> QED BY <1>1, <1>5, <2>1 DEF DecodeNext, ControlInv, bmVars
<1>6. CASE DecodeAppend
  BY <1>1, <1>6 DEF DecodeAppend, may_append, ControlInv
<1>7. CASE PreemptOther
  <2> PICK v : v = Last(running)
    OBVIOUS
  <2>1. /\ v \in ToSet(running) /\ v \in SeqId
    BY <1>1, <1>7, FrontLast DEF PreemptOther, EngineTypeOK
  <2>2. v # cur
    <3>1. cur < v /\ v \in Nat /\ cur \in Nat
      BY <1>1, <1>7, <2>1, LineParts, IndParts, Callers, Ids DEF PreemptOther
    <3> QED BY <3>1
  <2>3. call' = DeallocateFrame(v) /\ status' = [status EXCEPT ![v] = "WAITING"] /\ pc' = "preempt"
        /\ UNCHANGED <<cur, scheduled, done>> /\ pc = "append"
    BY <1>7 DEF PreemptOther, deallocate
  <2> QED BY <1>1, <2>1, <2>2, <2>3 DEF DeallocateFrame, ControlInv
<1>8. CASE PreemptSelf
  <2>1. cur \in SeqId
    BY <1>1, <1>8, Callers DEF PreemptSelf
  <2> QED BY <1>1, <1>8, <2>1 DEF PreemptSelf, deallocate, DeallocateFrame, ControlInv
<1>9. CASE Preempted
  BY <1>1, <1>9 DEF Preempted, DeallocateReturn, NoCall, ControlInv
<1>10. CASE PostAppend
  BY <1>1, <1>10 DEF PostAppend, append_token, ControlInv, schedVars
<1>11. CASE PostStop
  <2>1. scheduled[done + 1] \in SeqId
    BY <1>1, <1>11, Callers DEF PostStop
  <2> QED BY <1>1, <1>11, <2>1 DEF PostStop, deallocate, DeallocateFrame, ControlInv
<1>12. CASE PostFinished
  BY <1>1, <1>12 DEF PostFinished, DeallocateReturn, NoCall, ControlInv
<1>13. CASE GenerateEnd
  BY <1>1, <1>13 DEF GenerateEnd, reset, ControlInv, schedVars
<1>14. CASE StepBegin \/ PrefillEnd \/ DecodeEnd \/ run
  BY <1>1, <1>14 DEF StepBegin, PrefillEnd, DecodeEnd, run, ControlInv, bmVars
<1>15. CASE PostContinue \/ StepEnd \/ UNCHANGED vars
  BY <1>1, <1>15 DEF PostContinue, StepEnd, ControlInv, bmVars, schedVars, vars
<1>16. CASE LoopStep
  <2>1. call'.op = call.op /\ call'.seq = call.seq /\ UNCHANGED engineVars
    BY <1>1, <1>16, CallStepFrame DEF LoopStep
  <2> QED BY <1>1, <2>1 DEF engineVars, ControlInv
<1> QED BY <1>2, <1>3, <1>4, <1>5, <1>6, <1>7, <1>8, <1>9, <1>10, <1>11, <1>12, <1>13, <1>14,
           <1>15, <1>16 DEF EngineStep, Exited

-----------------------------------------------------------------------------
(* Only add_request and the end of a request change the line. *)
LEMMA LinesStep == EngineInd /\ [EngineStep]_vars => Lines /\ Lines'
<1>1. EngineInd => EngineTypeOK /\ ControlInv
  BY DEF EngineInd
<1> QED BY <1>1, LinesHold, EngineTypesNext, ControlNext, PTL

LEMMA AppendCat ==
  ASSUME NEW q \in Seq(SeqId), NEW s \in SeqId
  PROVE  Append(q, s) = Cat(q, <<s>>) /\ <<s>> \in Seq(SeqId)
<1>1. Append(q, s) = q \o <<s>>
  BY AppendIsConcat
<1>2. <<s>> \in Seq(SeqId)
  OBVIOUS
<1> QED BY <1>1, <1>2 DEF Cat

LEMMA LineKept ==
  ASSUME EngineInd, [EngineStep]_vars, ~add_request, ~PostFinished
  PROVE  Line' = Line
<1>1. /\ waiting \in Seq(SeqId) /\ running \in Seq(SeqId) /\ scheduled \in Seq(SeqId)
      /\ EngineTypeOK /\ ControlInv /\ BMTypeOK /\ Lines /\ Lines'
      /\ Cat(running, waiting) \in Seq(SeqId)
  BY IndParts, LinesStep, Concatenation
<1>2. CASE LoopStep \/ UNCHANGED vars
  <2>1. CASE LoopStep
    <3>1. call'.seq = call.seq /\ UNCHANGED engineVars
      BY <1>1, <2>1, CallStepFrame DEF LoopStep
    <3> QED BY <3>1 DEF engineVars, Line, Decoding
  <2>2. CASE UNCHANGED vars
    BY <2>2 DEF vars, Line, Decoding
  <2> QED BY <1>2, <2>1, <2>2
<1>3. ASSUME ~Decoding, ~Decoding', UNCHANGED <<running, waiting>>
      PROVE  Line' = Line
  BY <1>1, <1>3 DEF Lines
<1>4. CASE StepBegin \/ GenerateEnd \/ Admit \/ run
  BY <1>3, <1>4 DEF StepBegin, GenerateEnd, Admit, run, Decoding, schedVars
<1>5. CASE PostAppend \/ PostContinue \/ PostStop \/ StepEnd
  BY <1>3, <1>5 DEF PostAppend, PostContinue, PostStop, StepEnd, Decoding, schedVars
<1>6. CASE PrefillEnd
  <2>1. /\ ~Decoding /\ UNCHANGED <<running, waiting, scheduled>>
        /\ pc' = IF scheduled # << >> THEN "run" ELSE "decode"
    BY <1>6 DEF PrefillEnd, Decoding
  <2>2. CASE scheduled # << >>
    BY <1>3, <2>1, <2>2 DEF Decoding
  <2>3. CASE scheduled = << >>
    <3>1. Line' = Cat(<< >>, Cat(running, waiting))
      BY <1>1, <2>1, <2>3 DEF Lines
    <3> QED BY <1>1, <2>1, <3>1, ConcatEmpty DEF Lines
  <2> QED BY <2>2, <2>3
<1>7. CASE Admitted
  <2> PICK h, T : h = Head(waiting) /\ T = Tail(waiting)
    OBVIOUS
  <2>1. /\ h \in SeqId /\ T \in Seq(SeqId) /\ waiting = Cat(<<h>>, T)
        /\ running' = Append(running, h) /\ waiting' = T /\ pc = "allocate" /\ pc' = "prefill"
    BY <1>1, <1>7, AdmittedTokens, HeadTail DEF Admitted
  <2>2. Line = Cat(running, Cat(<<h>>, T)) /\ Line' = Cat(Cat(running, <<h>>), T)
    BY <1>1, <2>1, AppendCat DEF Lines, Decoding
  <2>3. Cat(Cat(running, <<h>>), T) = Cat(running, Cat(<<h>>, T))
    <3>1. running \in Seq(SeqId) /\ <<h>> \in Seq(SeqId) /\ T \in Seq(SeqId)
      BY <1>1, <2>1, Single
    <3> QED BY ONLY <3>1, ConcatAssoc
  <2> QED BY <2>2, <2>3
<1>8. CASE DecodeNext
  <2> PICK h, T : h = Head(running) /\ T = Tail(running)
    OBVIOUS
  <2>1. /\ h \in SeqId /\ T \in Seq(SeqId) /\ running = Cat(<<h>>, T)
        /\ cur' = h /\ running' = T /\ pc = "decode" /\ pc' = "append"
        /\ UNCHANGED <<waiting, scheduled>>
    BY <1>1, <1>8, HeadTail DEF DecodeNext, CanDecode
  <2>2. /\ Line = Cat(scheduled, Cat(Cat(<<h>>, T), waiting))
        /\ Line' = Cat(scheduled, Cat(<<h>>, Cat(T, waiting)))
    BY <1>1, <2>1 DEF Lines
  <2>3. Cat(Cat(<<h>>, T), waiting) = Cat(<<h>>, Cat(T, waiting))
    <3>1. T \in Seq(SeqId) /\ <<h>> \in Seq(SeqId) /\ waiting \in Seq(SeqId)
      BY <1>1, <2>1, Single
    <3> QED BY ONLY <3>1, ConcatAssoc
  <2> QED BY <2>2, <2>3
<1>9. CASE DecodeAppend
  <2>1. /\ cur \in SeqId /\ pc = "append" /\ pc' = "decode" /\ scheduled' = Append(scheduled, cur)
        /\ UNCHANGED <<waiting, running>>
    BY <1>1, <1>9, Callers DEF DecodeAppend
  <2>2. /\ Line = Cat(scheduled, Cat(<<cur>>, Cat(running, waiting)))
        /\ Line' = Cat(Cat(scheduled, <<cur>>), Cat(running, waiting))
    BY <1>1, <2>1, AppendCat DEF Lines
  <2>3. Cat(Cat(scheduled, <<cur>>), Cat(running, waiting))
          = Cat(scheduled, Cat(<<cur>>, Cat(running, waiting)))
    <3>1. <<cur>> \in Seq(SeqId)
      BY <2>1, Single
    <3> QED BY <1>1, <3>1, ConcatAssoc
  <2> QED BY <2>2, <2>3
<1>10. CASE PreemptOther
  <2> PICK v, F : v = Last(running) /\ F = Front(running)
    OBVIOUS
  <2>1. /\ v \in SeqId /\ F \in Seq(SeqId) /\ running = Cat(F, <<v>>) /\ v \in ToSet(running)
        /\ running' = F /\ call'.seq = v /\ pc = "append" /\ pc' = "preempt"
        /\ UNCHANGED <<waiting, scheduled, cur>>
    BY <1>1, <1>10, FrontLast DEF PreemptOther, deallocate, DeallocateFrame
  <2>2. v # cur'
    <3>1. cur < v /\ v \in Nat /\ cur \in Nat
      BY <1>1, <2>1, LineParts, IndParts, Callers, Ids
    <3> QED BY <2>1, <3>1
  <2>3. /\ Line = Cat(scheduled, Cat(<<cur>>, Cat(Cat(F, <<v>>), waiting)))
        /\ Line' = Cat(scheduled, Cat(<<cur>>, Cat(F, Cat(<<v>>, waiting))))
    BY <1>1, <2>1, <2>2 DEF Lines
  <2>4. Cat(Cat(F, <<v>>), waiting) = Cat(F, Cat(<<v>>, waiting))
    <3>1. F \in Seq(SeqId) /\ <<v>> \in Seq(SeqId) /\ waiting \in Seq(SeqId)
      BY <1>1, <2>1, Single
    <3> QED BY ONLY <3>1, ConcatAssoc
  <2> QED BY <2>3, <2>4
<1>11. CASE PreemptSelf
  BY <1>1, <1>11 DEF PreemptSelf, deallocate, DeallocateFrame, Lines
<1>12. CASE Preempted
  <2> PICK v : v = call.seq
    OBVIOUS
  <2>1. /\ v \in SeqId /\ <<v>> \in Seq(SeqId) /\ pc = "preempt" /\ waiting' = Cat(<<v>>, waiting)
        /\ UNCHANGED <<running, scheduled>> /\ cur \in SeqId
    BY <1>1, <1>12, Callers, Single DEF Preempted, Cat
  <2>2. CASE v # cur
    <3>1. pc' = "append" /\ cur' = cur
      BY <1>12, <2>2 DEF Preempted
    <3> QED BY <1>1, <2>1, <2>2, <3>1 DEF Lines
  <2>3. CASE v = cur
    <3>1. pc' = "decode" /\ running = << >>
      BY <1>1, <1>12, <2>3 DEF Preempted, ControlInv
    <3>2. /\ Line = Cat(scheduled, Cat(<<v>>, Cat(<< >>, waiting)))
          /\ Line' = Cat(scheduled, Cat(<< >>, Cat(<<v>>, waiting)))
      BY <1>1, <2>1, <2>3, <3>1 DEF Lines
    <3>3. Cat(<<v>>, waiting) \in Seq(SeqId)
      BY <1>1, <2>1, Concatenation
    <3> QED BY <1>1, <3>2, <3>3, ConcatEmpty
  <2> QED BY <2>2, <2>3
<1>13. CASE DecodeEnd
  <2>1. /\ pc = "decode" /\ pc' = "run" /\ running' = Cat(scheduled, running) /\ UNCHANGED waiting
    BY <1>13 DEF DecodeEnd, Cat
  <2>2. Line = Cat(scheduled, Cat(running, waiting)) /\ Line' = Cat(Cat(scheduled, running), waiting)
    BY <1>1, <2>1 DEF Lines, Decoding
  <2> QED BY <1>1, <2>2, ConcatAssoc
<1> QED BY <1>2, <1>4, <1>5, <1>6, <1>7, <1>8, <1>9, <1>10, <1>11, <1>12, <1>13
        DEF EngineStep, Exited

-----------------------------------------------------------------------------
(* Who is in the line. *)
LEMMA LineMembers ==
  ASSUME EngineTypeOK, ControlInv
  PROVE  /\ ~Decoding => ToSet(Line) = ToSet(running) \cup ToSet(waiting)
         /\ pc = "decode" => ToSet(Line) = ToSet(scheduled) \cup (ToSet(running) \cup ToSet(waiting))
         /\ pc = "append" \/ (pc = "preempt" /\ call.seq = cur) =>
              ToSet(Line) = ToSet(scheduled) \cup ({cur} \cup (ToSet(running) \cup ToSet(waiting)))
         /\ pc = "preempt" /\ call.seq # cur =>
              ToSet(Line) = ToSet(scheduled) \cup ({cur} \cup (ToSet(running) \cup
                              ({call.seq} \cup ToSet(waiting))))
<1>1. /\ waiting \in Seq(SeqId) /\ running \in Seq(SeqId) /\ scheduled \in Seq(SeqId)
      /\ Lines
  BY LinesHold DEF EngineTypeOK
<1> PICK rw : rw = Cat(running, waiting)
  OBVIOUS
<1>2. rw \in Seq(SeqId) /\ ToSet(rw) = ToSet(running) \cup ToSet(waiting)
  BY <1>1, Concatenation
<1>3. CASE ~Decoding
  BY <1>1, <1>2, <1>3 DEF Lines, Decoding
<1>4. CASE pc = "decode"
  <2>1. ToSet(Cat(scheduled, rw)) = ToSet(scheduled) \cup ToSet(rw)
    BY <1>1, <1>2, Concatenation
  <2> QED BY <1>1, <1>2, <1>4, <2>1 DEF Lines, Decoding
<1>5. CASE pc = "append" \/ (pc = "preempt" /\ call.seq = cur)
  <2> PICK c : c = <<cur>>
    OBVIOUS
  <2>1. c \in Seq(SeqId) /\ ToSet(c) = {cur}
    BY <1>5, Callers, Single
  <2>2. Cat(c, rw) \in Seq(SeqId) /\ ToSet(Cat(c, rw)) = {cur} \cup ToSet(rw)
    BY <1>2, <2>1, Concatenation
  <2>3. ToSet(Cat(scheduled, Cat(c, rw))) = ToSet(scheduled) \cup ToSet(Cat(c, rw))
    BY <1>1, <2>2, Concatenation
  <2> QED BY <1>1, <1>2, <1>5, <2>2, <2>3 DEF Lines, Decoding
<1>6. CASE pc = "preempt" /\ call.seq # cur
  <2> PICK c, v, vw, rvw : /\ c = <<cur>> /\ v = <<call.seq>>
                           /\ vw = Cat(v, waiting) /\ rvw = Cat(running, vw)
    OBVIOUS
  <2>1. c \in Seq(SeqId) /\ ToSet(c) = {cur} /\ v \in Seq(SeqId) /\ ToSet(v) = {call.seq}
    BY <1>6, Callers, Single
  <2>2. vw \in Seq(SeqId) /\ ToSet(vw) = {call.seq} \cup ToSet(waiting)
    <3>1. v \in Seq(SeqId) /\ waiting \in Seq(SeqId) /\ vw = Cat(v, waiting)
      BY <1>1, <2>1
    <3>2. vw \in Seq(SeqId) /\ ToSet(vw) = ToSet(v) \cup ToSet(waiting)
      BY ONLY <3>1, Concatenation
    <3> QED BY <2>1, <3>2
  <2>3. rvw \in Seq(SeqId) /\ ToSet(rvw) = ToSet(running) \cup ToSet(vw)
    BY <1>1, <2>2, Concatenation
  <2>4. Cat(c, rvw) \in Seq(SeqId) /\ ToSet(Cat(c, rvw)) = {cur} \cup ToSet(rvw)
    BY <2>1, <2>3, Concatenation
  <2>5. ToSet(Cat(scheduled, Cat(c, rvw))) = ToSet(scheduled) \cup ToSet(Cat(c, rvw))
    BY <1>1, <2>4, Concatenation
  <2>6. Line = Cat(scheduled, Cat(c, rvw))
    BY <1>1, <1>6 DEF Lines
  <2> QED BY <1>6, <2>2, <2>3, <2>4, <2>5, <2>6 DEF Decoding
<1> QED BY <1>3, <1>4, <1>5, <1>6 DEF Decoding

LEMMA InLine ==
  ASSUME EngineTypeOK, ControlInv
  PROVE  /\ ToSet(running) \cup ToSet(waiting) \subseteq ToSet(Line)
         /\ pc \in {"append", "preempt"} => cur \in ToSet(Line)
         /\ pc = "preempt" => call.seq \in ToSet(Line)
         /\ Decoding => ToSet(scheduled) \subseteq ToSet(Line)
BY LineMembers DEF Decoding

Unfinished(s) == status[s] # "FINISHED" \/ (pc = "finish" /\ call.seq = s)

(* A step that changes the status of one request leaves it unfinished or   *)
(* in the hands of deallocate.                                             *)
LEMMA StatusKept ==
  ASSUME EngineInd, [EngineStep]_vars, ~add_request, ~PostFinished, NEW s \in 1 .. nextId - 1
  PROVE  UNCHANGED nextId /\ (Unfinished(s)' <=> Unfinished(s))
<1>1. /\ EngineTypeOK /\ ControlInv /\ BMTypeOK /\ s \in SeqId
      /\ waiting \in Seq(SeqId) /\ running \in Seq(SeqId) /\ scheduled \in Seq(SeqId)
      /\ status \in [SeqId -> {"none", "WAITING", "RUNNING", "FINISHED"}]
      /\ \A t \in 1 .. nextId - 1 : t \in ToSet(Line) <=> Unfinished(t)
  BY IndParts DEF EngineInd, EngineTypeOK, QueueInv, InOrder, Unfinished
<1>2. ToSet(running) \cup ToSet(waiting) \subseteq ToSet(Line)
  BY <1>1, InLine
<1>3. CASE LoopStep \/ UNCHANGED vars
  <2>1. CASE LoopStep
    <3>1. call'.seq = call.seq /\ UNCHANGED engineVars
      BY <1>1, <2>1, CallStepFrame DEF LoopStep
    <3> QED BY <3>1 DEF engineVars, Unfinished
  <2>2. CASE UNCHANGED vars
    BY <2>2 DEF vars, Unfinished
  <2> QED BY <1>3, <2>1, <2>2
<1>4. ASSUME UNCHANGED <<status, nextId>>, pc # "finish", pc' # "finish"
      PROVE  UNCHANGED nextId /\ (Unfinished(s)' <=> Unfinished(s))
  BY <1>4 DEF Unfinished
<1>5. CASE StepBegin \/ GenerateEnd \/ Admit \/ run \/ PrefillEnd
  BY <1>4, <1>5 DEF StepBegin, GenerateEnd, Admit, run, PrefillEnd, schedVars
<1>6. CASE PostAppend \/ PostContinue \/ StepEnd \/ DecodeNext \/ DecodeAppend
  BY <1>4, <1>6 DEF PostAppend, PostContinue, StepEnd, DecodeNext, DecodeAppend, schedVars
<1>7. CASE Preempted \/ DecodeEnd
  BY <1>4, <1>7 DEF Preempted, DecodeEnd
<1>8. ASSUME NEW v \in SeqId, v \in ToSet(Line), NEW st \in {"WAITING", "RUNNING"},
             status' = [status EXCEPT ![v] = st], UNCHANGED nextId, pc # "finish", pc' # "finish"
      PROVE  UNCHANGED nextId /\ (Unfinished(s)' <=> Unfinished(s))
  BY <1>1, <1>8 DEF Unfinished
<1>9. CASE Admitted
  <2> PICK v : v = call.seq
    OBVIOUS
  <2>1. v \in SeqId /\ v \in ToSet(waiting)
    BY <1>1, <1>9, AdmittedTokens, HeadTail
  <2>2. /\ status' = [status EXCEPT ![v] = "RUNNING"] /\ UNCHANGED nextId
        /\ pc = "allocate" /\ pc' = "prefill"
    BY <1>9 DEF Admitted
  <2> QED BY <1>2, <1>8, <2>1, <2>2
<1>10. CASE PreemptOther
  <2>1. Last(running) \in SeqId /\ Last(running) \in ToSet(running)
    BY <1>1, <1>10, FrontLast DEF PreemptOther
  <2> QED BY <1>2, <1>8, <1>10, <2>1 DEF PreemptOther
<1>11. CASE PreemptSelf
  <2>1. cur \in SeqId /\ cur \in ToSet(Line)
    BY <1>1, <1>11, Callers, InLine DEF PreemptSelf
  <2> QED BY <1>8, <1>11, <2>1 DEF PreemptSelf
<1>12. CASE PostStop
  <2> PICK v : v = scheduled[done + 1]
    OBVIOUS
  <2>1. /\ v \in SeqId /\ v \in ToSet(running)
    <3>1. done + 1 \in DOMAIN scheduled /\ done + 1 > done /\ v \in SeqId
      BY <1>1, <1>12, Callers DEF PostStop, EngineTypeOK
    <3> QED BY <1>12, <3>1 DEF PostStop, EngineInd, BatchInv
  <2>2. /\ pc = "check" /\ pc' = "finish" /\ call'.seq = v /\ UNCHANGED nextId
        /\ status' = [status EXCEPT ![v] = "FINISHED"]
    BY <1>12 DEF PostStop, deallocate, DeallocateFrame
  <2> QED BY <1>1, <1>2, <2>1, <2>2 DEF Unfinished
<1> QED BY <1>3, <1>5, <1>6, <1>7, <1>9, <1>10, <1>11, <1>12 DEF EngineStep, Exited

LEMMA ArrivalNext == EngineInd /\ [EngineStep]_vars => InOrder'
<1> SUFFICES ASSUME EngineInd, [EngineStep]_vars PROVE InOrder'
  OBVIOUS
<1>1. /\ EngineTypeOK /\ ControlInv /\ Sorted(Line) /\ Lines /\ Lines'
      /\ waiting \in Seq(SeqId) /\ running \in Seq(SeqId) /\ nextId \in Nat \ {0}
      /\ status \in [SeqId -> {"none", "WAITING", "RUNNING", "FINISHED"}]
      /\ ToSet(Line) \subseteq 1 .. nextId - 1 /\ 1 .. nextId - 1 \subseteq SeqId
      /\ \A t \in 1 .. nextId - 1 : t \in ToSet(Line) <=> Unfinished(t)
  BY IndParts, LinesStep DEF EngineInd, EngineTypeOK, QueueInv, InOrder, Unfinished
<1>2. SUFFICES /\ Sorted(Line') /\ ToSet(Line') \subseteq 1 .. nextId' - 1
               /\ \A t \in 1 .. nextId' - 1 : t \in ToSet(Line') <=> Unfinished(t)'
  BY DEF InOrder, Sorted, Unfinished
<1>3. CASE ~add_request /\ ~PostFinished
  <2>1. Line' = Line
    BY <1>3, LineKept
  <2>2. UNCHANGED nextId
    <3>1. CASE LoopStep \/ UNCHANGED vars
      BY <3>1 DEF LoopStep, engineVars, vars
    <3>2. CASE StepBegin \/ GenerateEnd \/ Admit \/ run \/ PrefillEnd
      BY <3>2 DEF StepBegin, GenerateEnd, Admit, run, PrefillEnd, schedVars
    <3>3. CASE PostAppend \/ PostContinue \/ PostStop \/ StepEnd \/ DecodeNext \/ DecodeAppend
      BY <3>3 DEF PostAppend, PostContinue, PostStop, StepEnd, DecodeNext, DecodeAppend, schedVars
    <3>4. CASE Preempted \/ DecodeEnd \/ Admitted \/ PreemptOther \/ PreemptSelf
      BY <3>4 DEF Preempted, DecodeEnd, Admitted, PreemptOther, PreemptSelf
    <3> QED BY <1>3, <3>1, <3>2, <3>3, <3>4 DEF EngineStep, Exited
  <2>3. \A t \in 1 .. nextId - 1 : Unfinished(t)' <=> Unfinished(t)
    BY <1>3, StatusKept
  <2> QED BY <1>1, <2>1, <2>2, <2>3
<1>4. CASE add_request
  <2> PICK n, rw : n = nextId /\ rw = Cat(running, waiting)
    OBVIOUS
  <2>1. /\ n \in SeqId /\ n \in Nat /\ <<n>> \in Seq(SeqId) /\ ToSet(<<n>>) = {n} /\ Sorted(<<n>>)
        /\ waiting' = Cat(waiting, <<n>>) /\ running' = running /\ nextId' = n + 1
        /\ status' = [status EXCEPT ![n] = "WAITING"] /\ pc = "add" /\ pc' \in {"step", "add"}
    BY <1>1, <1>4, Single, AppendCat DEF add_request
  <2>2. Line = rw /\ rw \in Seq(SeqId)
    BY <1>1, <2>1, Concatenation DEF Lines, Decoding
  <2>3. Line' = Cat(rw, <<n>>)
    <3>1. Line' = Cat(running, Cat(waiting, <<n>>))
      BY <1>1, <2>1 DEF Lines, Decoding
    <3>2. Cat(Cat(running, waiting), <<n>>) = Cat(running, Cat(waiting, <<n>>))
      BY <1>1, <2>1, ConcatAssoc
    <3> QED BY <3>1, <3>2
  <2> PICK one : one = <<n>>
    OBVIOUS
  <2>4. /\ ToSet(Line') = ToSet(rw) \cup ToSet(one)
        /\ Sorted(Line') <=> /\ Sorted(rw) /\ Sorted(one)
                            /\ \A s \in ToSet(rw), t \in ToSet(one) : s < t
    <3>1. rw \in Seq(SeqId) /\ one \in Seq(SeqId) /\ Line' = Cat(rw, one)
      BY <2>1, <2>2, <2>3
    <3>2. /\ ToSet(Cat(rw, one)) = ToSet(rw) \cup ToSet(one)
          /\ Sorted(Cat(rw, one)) <=> /\ Sorted(rw) /\ Sorted(one)
                                     /\ \A s \in ToSet(rw), t \in ToSet(one) : s < t
      BY ONLY <3>1, Concatenation
    <3> QED BY <3>1, <3>2
  <2>5. /\ ToSet(one) = {n} /\ Sorted(one)
        /\ \A s \in ToSet(rw), t \in ToSet(one) : s < t
    BY <1>1, <2>1, <2>2
  <2>6. \A t \in 1 .. n - 1 : Unfinished(t)' <=> Unfinished(t)
    BY <1>1, <2>1 DEF Unfinished
  <2>7. Unfinished(n)' /\ n \in 1 .. nextId' - 1
    BY <1>1, <2>1 DEF Unfinished
  <2>8. \A t \in 1 .. nextId' - 1 : t \in 1 .. n - 1 \/ t = n
    BY <2>1
  <2>9. ToSet(Line') = ToSet(Line) \cup {n} /\ Sorted(Line')
    BY <1>1, <2>2, <2>4, <2>5
  <2>10. ToSet(Line') \subseteq 1 .. nextId' - 1
    BY <1>1, <2>1, <2>9
  <2>11. ASSUME NEW t \in 1 .. nextId' - 1 PROVE t \in ToSet(Line') <=> Unfinished(t)'
    <3>1. CASE t = n
      BY <2>7, <2>9, <3>1
    <3>2. CASE t # n
      <4>1. t \in 1 .. n - 1
        BY <2>8, <3>2
      <4> QED BY <1>1, <2>1, <2>6, <2>9, <3>2, <4>1
    <3> QED BY <3>1, <3>2
  <2> QED BY <2>9, <2>10, <2>11
<1>5. CASE PostFinished
  <2> PICK v, r : v = call.seq /\ r = RemoveFromDeque(running, v)
    OBVIOUS
  <2>1. /\ v \in ToSet(running) /\ pc = "finish" /\ pc' = "post" /\ running' = r
        /\ UNCHANGED <<waiting, status, nextId>> /\ status[v] = "FINISHED"
    BY <1>1, <1>5, Finisher DEF PostFinished, ControlInv
  <2>2. /\ Sorted(running) /\ Sorted(waiting)
        /\ \A s \in ToSet(running), t \in ToSet(waiting) : s < t
        /\ ToSet(Line) = ToSet(running) \cup ToSet(waiting)
    BY <1>1, <2>1, LineParts, LineMembers DEF Decoding
  <2>3. r \in Seq(SeqId) /\ ToSet(r) = ToSet(running) \ {v} /\ Sorted(r)
    BY <1>1, <2>1, <2>2, SortedRemoval
  <2>4. Line' = Cat(r, waiting)
    BY <1>1, <2>1 DEF Lines, Decoding
  <2>5. Sorted(Line') /\ ToSet(Line') = ToSet(r) \cup ToSet(waiting)
    BY <1>1, <2>2, <2>3, <2>4, Concatenation
  <2>6. v \notin ToSet(waiting)
    <3>1. ASSUME v \in ToSet(waiting) PROVE FALSE
      <4>1. v < v /\ v \in Nat
        BY <1>1, <2>1, <2>2, <3>1
      <4> QED BY <4>1
    <3> QED BY <3>1
  <2>7. ASSUME NEW t \in 1 .. nextId - 1 PROVE Unfinished(t)' <=> Unfinished(t) /\ t # v
    BY <2>1 DEF Unfinished
  <2> QED BY <1>1, <2>1, <2>2, <2>3, <2>5, <2>6, <2>7
<1> QED BY <1>3, <1>4, <1>5

(* A waiting request is not running, and nothing has happened to a request *)
(* that has not arrived.                                                   *)
LEMMA QueueNext == EngineInd /\ [EngineStep]_vars => QueueInv'
<1> SUFFICES ASSUME EngineInd, [EngineStep]_vars PROVE QueueInv'
  OBVIOUS
<1>1. /\ EngineTypeOK /\ ControlInv /\ nextId \in Nat \ {0} /\ 1 .. nextId - 1 \subseteq SeqId
      /\ waiting \in Seq(SeqId) /\ running \in Seq(SeqId) /\ SeqId \subseteq Nat
      /\ status \in [SeqId -> {"none", "WAITING", "RUNNING", "FINISHED"}]
      /\ ToSet(Line) \subseteq 1 .. nextId - 1 /\ Sorted(Line)
      /\ \A s \in ToSet(waiting) : status[s] # "RUNNING"
      /\ \A s \in SeqId : s >= nextId => status[s] = "none"
      /\ ToSet(running) \cup ToSet(waiting) \subseteq ToSet(Line)
  BY IndParts, Ids, InLine DEF EngineInd, EngineTypeOK, QueueInv, InOrder
<1>2. ToSet(waiting) \subseteq SeqId
  BY <1>1, Members
<1>3. ASSUME UNCHANGED <<waiting, status, nextId>> PROVE QueueInv'
  BY <1>1, <1>3 DEF QueueInv
<1>4. ASSUME NEW v \in ToSet(Line), NEW st \in {"WAITING", "FINISHED"},
             status' = [status EXCEPT ![v] = st], UNCHANGED <<waiting, nextId>>
      PROVE  QueueInv'
  <2>1. v \in SeqId /\ ~(v >= nextId)
    BY <1>1
  <2>2. \A s \in ToSet(waiting) : status'[s] # "RUNNING"
    BY <1>1, <1>2, <1>4, <2>1
  <2>3. \A s \in SeqId : s >= nextId => status'[s] = "none"
    BY <1>1, <1>4, <2>1
  <2> QED BY <1>1, <1>4, <2>2, <2>3 DEF QueueInv
<1>5. CASE add_request
  <2> PICK n, one : n = nextId /\ one = <<n>>
    OBVIOUS
  <2>1. /\ n \in SeqId /\ n \in Nat \ {0} /\ one \in Seq(SeqId) /\ ToSet(one) = {n}
        /\ waiting' = Cat(waiting, one) /\ nextId' = n + 1
        /\ status' = [status EXCEPT ![n] = "WAITING"]
    BY <1>1, <1>5, Single, AppendCat DEF add_request
  <2>2. ToSet(Cat(waiting, one)) = ToSet(waiting) \cup {n}
    <3>1. waiting \in Seq(SeqId) /\ one \in Seq(SeqId)
      BY <1>1, <2>1
    <3>2. ToSet(Cat(waiting, one)) = ToSet(waiting) \cup ToSet(one)
      BY ONLY <3>1, Concatenation
    <3> QED BY <2>1, <3>2
  <2>3. \A s \in ToSet(waiting') : status'[s] # "RUNNING"
    BY <1>1, <1>2, <2>1, <2>2
  <2>4. \A s \in SeqId : s >= n + 1 => status'[s] = "none"
    BY <1>1, <2>1
  <2>5. \A t \in 1 .. n : t \in 1 .. n - 1 \/ t = n
    BY <2>1
  <2>6. 1 .. nextId' - 1 \subseteq SeqId
    BY <1>1, <2>1, <2>5
  <2> QED BY <2>1, <2>3, <2>4, <2>6 DEF QueueInv
<1>6. CASE Admitted
  <2> PICK h, T, one : h = Head(waiting) /\ T = Tail(waiting) /\ one = <<h>>
    OBVIOUS
  <2>1. /\ h \in SeqId /\ T \in Seq(SeqId) /\ waiting = Cat(one, T) /\ h \in ToSet(waiting)
        /\ waiting' = T /\ status' = [status EXCEPT ![h] = "RUNNING"] /\ UNCHANGED nextId
        /\ one \in Seq(SeqId) /\ ToSet(one) = {h}
    BY <1>1, <1>6, AdmittedTokens, HeadTail, Single DEF Admitted
  <2>2. Sorted(waiting)
    BY <1>1, LineParts
  <2>3. ToSet(waiting) = ToSet(one) \cup ToSet(T) /\ \A s \in ToSet(one), t \in ToSet(T) : s < t
    <3>1. one \in Seq(SeqId) /\ T \in Seq(SeqId) /\ Sorted(Cat(one, T))
      BY <2>1, <2>2
    <3>2. ToSet(Cat(one, T)) = ToSet(one) \cup ToSet(T) /\ \A s \in ToSet(one), t \in ToSet(T) : s < t
      BY ONLY <3>1, Concatenation
    <3> QED BY <2>1, <3>2
  <2>4. h \notin ToSet(T)
    <3>1. ASSUME h \in ToSet(T) PROVE FALSE
      <4>1. h < h /\ h \in Nat
        BY <1>1, <2>1, <2>3, <3>1
      <4> QED BY <4>1
    <3> QED BY <3>1
  <2>5. \A s \in ToSet(T) : status'[s] # "RUNNING"
    <3> SUFFICES ASSUME NEW s \in ToSet(T) PROVE status'[s] # "RUNNING"
      OBVIOUS
    <3>1. s \in ToSet(waiting) /\ s # h
      BY <2>3, <2>4
    <3>2. s \in SeqId /\ status[s] # "RUNNING"
      BY <1>1, <1>2, <3>1
    <3> QED BY <1>1, <2>1, <3>1, <3>2
  <2>6. ~(h >= nextId)
    <3>1. h \in 1 .. nextId - 1 /\ nextId \in Nat
      BY <1>1, <2>1
    <3> QED BY ONLY <3>1
  <2>7. \A s \in SeqId : s >= nextId => status'[s] = "none"
    <3> SUFFICES ASSUME NEW s \in SeqId, s >= nextId PROVE status'[s] = "none"
      BY <2>1
    <3>1. s # h /\ status[s] = "none"
      BY <1>1, <2>6
    <3> QED BY <1>1, <2>1, <3>1
  <2> QED BY <1>1, <2>1, <2>5, <2>7 DEF QueueInv
<1>7. CASE Preempted
  <2> PICK v, one : v = call.seq /\ one = <<v>>
    OBVIOUS
  <2>1. /\ v \in SeqId /\ one \in Seq(SeqId) /\ ToSet(one) = {v} /\ waiting' = Cat(one, waiting)
        /\ UNCHANGED <<status, nextId>> /\ status[v] = "WAITING"
    BY <1>1, <1>7, Callers, Single DEF Preempted, Cat, ControlInv
  <2>2. ToSet(Cat(one, waiting)) = {v} \cup ToSet(waiting)
    <3>1. one \in Seq(SeqId) /\ waiting \in Seq(SeqId)
      BY <1>1, <2>1
    <3>2. ToSet(Cat(one, waiting)) = ToSet(one) \cup ToSet(waiting)
      BY ONLY <3>1, Concatenation
    <3> QED BY <2>1, <3>2
  <2> QED BY <1>1, <2>1, <2>2 DEF QueueInv
<1>8. CASE PreemptOther
  <2>1. Last(running) \in ToSet(Line)
    BY <1>1, <1>8, FrontLast DEF PreemptOther
  <2> QED BY <1>4, <1>8, <2>1 DEF PreemptOther
<1>9. CASE PreemptSelf
  <2>1. cur \in ToSet(Line)
    BY <1>1, <1>9, InLine DEF PreemptSelf
  <2> QED BY <1>4, <1>9, <2>1 DEF PreemptSelf
<1>10. CASE PostStop
  <2> PICK v : v = scheduled[done + 1]
    OBVIOUS
  <2>1. v \in ToSet(running)
    <3>1. done + 1 \in DOMAIN scheduled /\ done + 1 > done
      BY <1>1, <1>10, Callers DEF PostStop, EngineTypeOK
    <3> QED BY <1>10, <3>1 DEF PostStop, EngineInd, BatchInv
  <2>2. status' = [status EXCEPT ![v] = "FINISHED"] /\ UNCHANGED <<waiting, nextId>> /\ v \in ToSet(Line)
    BY <1>1, <1>10, <2>1 DEF PostStop
  <2> QED BY <1>4, <2>2
<1>11. CASE StepBegin \/ GenerateEnd \/ Admit \/ run \/ PrefillEnd
  BY <1>3, <1>11 DEF StepBegin, GenerateEnd, Admit, run, PrefillEnd, schedVars
<1>12. CASE PostAppend \/ PostContinue \/ StepEnd \/ DecodeNext \/ DecodeAppend
  BY <1>3, <1>12 DEF PostAppend, PostContinue, StepEnd, DecodeNext, DecodeAppend, schedVars
<1>13. CASE PostFinished \/ DecodeEnd \/ LoopStep \/ UNCHANGED vars
  BY <1>3, <1>13 DEF PostFinished, DecodeEnd, LoopStep, engineVars, vars
<1> QED BY <1>5, <1>6, <1>7, <1>8, <1>9, <1>10, <1>11, <1>12, <1>13 DEF EngineStep, Exited

(* The request a call of the block manager works on may be in between;     *)
(* every other one holds blocks exactly while it is running.               *)
LEMMA HoldNext == EngineInd /\ [EngineStep]_vars => OnlyRunningHold'
<1> SUFFICES ASSUME EngineInd, [EngineStep]_vars PROVE OnlyRunningHold'
  OBVIOUS
<1> DEFINE Hold(s) == /\ status[s] = "RUNNING" <=> table[s] # << >>
                      /\ status[s] # "RUNNING" => cached[s] = 0
<1>1. /\ EngineTypeOK /\ ControlInv /\ BMTypeOK /\ nextId \in Nat
      /\ waiting \in Seq(SeqId) /\ running \in Seq(SeqId)
      /\ status \in [SeqId -> {"none", "WAITING", "RUNNING", "FINISHED"}]
      /\ table \in [SeqId -> Seq(Blocks)] /\ cached \in [SeqId -> Nat]
  BY IndParts DEF EngineInd, EngineTypeOK, BMTypeOK
<1>2. \A s \in SeqId : (call.op # "none" => call.seq # s) => Hold(s)
  BY DEF EngineInd, OnlyRunningHold
<1>3. SUFFICES ASSUME NEW s \in SeqId, call'.op # "none" => call'.seq # s PROVE Hold(s)'
  BY DEF OnlyRunningHold
<1>4. ASSUME UNCHANGED <<status, table, cached>>, call.op = "none" \/ UNCHANGED call PROVE Hold(s)'
  BY <1>2, <1>3, <1>4
<1>5. CASE add_request
  <2>1. /\ call.op = "none" /\ tokens[nextId] = << >> /\ UNCHANGED <<table, cached>>
        /\ status' = [status EXCEPT ![nextId] = "WAITING"] /\ nextId \in SeqId
    BY <1>5 DEF add_request, from_prompt
  <2>2. status[nextId] = "none" /\ nextId >= nextId
    BY <1>1, <2>1 DEF EngineInd, QueueInv
  <2>3. Hold(s) /\ Hold(nextId)
    BY <1>2, <2>1
  <2> QED BY <1>1, <2>1, <2>2, <2>3
<1>6. CASE Admitted
  <2> PICK v : v = call.seq
    OBVIOUS
  <2>1. /\ v \in SeqId /\ table[v] # << >> /\ UNCHANGED <<table, cached>>
        /\ status' = [status EXCEPT ![v] = "RUNNING"]
    BY <1>6, AdmittedTokens DEF Admitted, AllocateReturn
  <2>2. CASE s = v
    BY <1>1, <2>1, <2>2
  <2>3. CASE s # v
    BY <1>1, <1>2, <2>1, <2>3
  <2> QED BY <2>2, <2>3
<1>7. CASE DecodeAppend
  <2>1. /\ cur \in SeqId /\ may_append(cur) /\ UNCHANGED status /\ call.op = "none"
    BY <1>1, <1>7, Callers DEF DecodeAppend, ControlInv
  <2>2. /\ UNCHANGED cached /\ table[cur] # << >> /\ table'[cur] # << >>
        /\ \A t \in SeqId \ {cur} : table'[t] = table[t]
    BY <1>1, <2>1, MayAppendFrame
  <2>3. Hold(s)
    BY <1>2, <2>1
  <2> QED BY <2>1, <2>2, <2>3
<1>8. ASSUME NEW v \in SeqId, NEW st, deallocate(v), status' = [status EXCEPT ![v] = st]
      PROVE  Hold(s)'
  <2>1. /\ UNCHANGED <<table, cached>> /\ call.op = "none" /\ call'.op # "none" /\ call'.seq = v
    BY <1>8 DEF deallocate, DeallocateFrame, seqs
  <2>2. s # v /\ Hold(s)
    BY <1>2, <1>3, <2>1
  <2> QED BY <1>1, <1>8, <2>1, <2>2
<1>9. CASE PreemptOther
  <2>1. Last(running) \in SeqId
    BY <1>1, <1>9, FrontLast DEF PreemptOther
  <2> QED BY <1>8, <1>9, <2>1 DEF PreemptOther
<1>10. CASE PreemptSelf
  <2>1. cur \in SeqId
    BY <1>1, <1>10, Callers DEF PreemptSelf
  <2> QED BY <1>8, <1>10, <2>1 DEF PreemptSelf
<1>11. CASE PostStop
  <2>1. scheduled[done + 1] \in SeqId
    BY <1>1, <1>11, Callers DEF PostStop
  <2> QED BY <1>8, <1>11, <2>1 DEF PostStop
<1>12. CASE Preempted \/ PostFinished
  <2> PICK v : v = call.seq
    OBVIOUS
  <2>1. /\ v \in SeqId /\ table[v] = << >> /\ cached' = [cached EXCEPT ![v] = 0]
        /\ UNCHANGED <<table, status>>
    BY <1>1, <1>12, Callers DEF Preempted, PostFinished, DeallocateReturn
  <2>2. status[v] # "RUNNING"
    BY <1>12 DEF Preempted, PostFinished, EngineInd, ControlInv
  <2>3. CASE s = v
    BY <1>1, <2>1, <2>2, <2>3
  <2>4. CASE s # v
    <3>1. Hold(s)
      BY <1>2, <2>4
    <3> QED BY <1>1, <2>1, <2>4, <3>1
  <2> QED BY <2>3, <2>4
<1>13. CASE LoopStep
  <2>1. /\ call'.op = call.op /\ call'.seq = call.seq /\ UNCHANGED status
        /\ s # call.seq => UNCHANGED <<table[s], cached[s]>>
        /\ call.op \in {"allocate", "deallocate"}
    BY <1>1, <1>13, CallStepFrame DEF LoopStep, engineVars
  <2> QED BY <1>2, <1>3, <2>1
<1>14. CASE StepBegin \/ PrefillEnd \/ DecodeNext \/ DecodeEnd \/ run \/ PostContinue \/ StepEnd
  BY <1>4, <1>14 DEF StepBegin, PrefillEnd, DecodeNext, DecodeEnd, run, PostContinue, StepEnd,
     bmVars, schedVars
<1>15. CASE Admit \/ PostAppend \/ GenerateEnd
  BY <1>4, <1>15 DEF Admit, PostAppend, GenerateEnd, allocate, append_token, reset, schedVars, seqs
<1>16. CASE UNCHANGED vars
  BY <1>4, <1>16 DEF vars
<1> QED BY <1>5, <1>6, <1>7, <1>9, <1>10, <1>11, <1>12, <1>13, <1>14, <1>15, <1>16
        DEF EngineStep, Exited

-----------------------------------------------------------------------------
(* The batch a step puts together stays within the limits. *)
LEMMA AppendLen ==
  ASSUME NEW q \in Seq(SeqId), NEW s \in SeqId
  PROVE  /\ Append(q, s) \in Seq(SeqId) /\ Append(q, s) # << >>
         /\ Len(Append(q, s)) = Len(q) + 1 /\ Len(q) \in Nat
         /\ DOMAIN q = 1 .. Len(q) /\ DOMAIN Append(q, s) = 1 .. Len(q) + 1
         /\ Append(q, s)[Len(q) + 1] = s
         /\ \A i \in 1 .. Len(q) : Append(q, s)[i] = q[i]
<1> DEFINE r == Append(q, s)
<1>1. /\ r \in Seq(SeqId) /\ Len(r) = Len(q) + 1 /\ Len(q) \in Nat
      /\ r[Len(q) + 1] = s /\ \A i \in 1 .. Len(q) : r[i] = q[i]
  BY AppendProperties
<1>2. DOMAIN q = 1 .. Len(q) /\ DOMAIN r = 1 .. Len(q) + 1
  BY <1>1
<1>3. r # << >>
  BY <1>1
<1> QED BY <1>1, <1>2, <1>3

LEMMA LimitNext == EngineInd /\ [EngineStep]_vars => LimitInv'
<1> SUFFICES ASSUME EngineInd, [EngineStep]_vars PROVE LimitInv'
  OBVIOUS
<1>1. /\ EngineTypeOK /\ ControlInv /\ BMTypeOK /\ LimitInv /\ scheduled \in Seq(SeqId)
      /\ MaxNumSeqs \in Nat \ {0} /\ MaxNumBatchedTokens \in Nat /\ batched \in Nat
      /\ waiting \in Seq(SeqId) /\ Len(scheduled) \in Nat
  BY IndParts, EngineAssumption DEF EngineInd, EngineTypeOK
<1>2. CASE StepBegin
  <2>1. scheduled' = << >> /\ batched' = 0 /\ pc' = "prefill" /\ Len(<< >>) = 0
    BY <1>2 DEF StepBegin
  <2> QED BY <1>1, <2>1 DEF LimitInv, Scheduling
<1>3. CASE Admit
  <2> PICK h : h = Head(waiting)
    OBVIOUS
  <2>1. /\ Len(scheduled) < MaxNumSeqs /\ batched + Len(tokens[h]) <= MaxNumBatchedTokens
        /\ UNCHANGED <<scheduled, batched, tokens>> /\ call'.seq = h /\ pc = "prefill" /\ pc' = "allocate"
    BY <1>3 DEF Admit, CanAdmit, allocate, AllocateFrame, seqs, schedVars
  <2> QED BY <1>1, <2>1 DEF LimitInv, Scheduling
<1>4. CASE Admitted
  <2> PICK v, n : v = call.seq /\ n = Len(tokens[v])
    OBVIOUS
  <2>1. /\ v \in SeqId /\ batched' \in Nat /\ batched' <= batched + n /\ pc = "allocate"
        /\ scheduled' = Append(scheduled, v) /\ pc' = "prefill"
    BY <1>4, AdmittedTokens DEF Admitted
  <2>2. n \in Nat
    BY <1>1, <2>1, TableTypes
  <2>3. Len(scheduled) < MaxNumSeqs /\ batched + n <= MaxNumBatchedTokens
    BY <1>1, <2>1 DEF LimitInv
  <2>4. Len(scheduled') = Len(scheduled) + 1
    BY <1>1, <2>1, AppendLen
  <2>5. Len(scheduled') <= MaxNumSeqs /\ batched' <= MaxNumBatchedTokens
    BY <1>1, <2>1, <2>2, <2>3, <2>4
  <2> QED BY <2>1, <2>5 DEF LimitInv, Scheduling
<1>5. CASE PrefillEnd
  BY <1>1, <1>5 DEF PrefillEnd, LimitInv, Scheduling
<1>6. CASE DecodeNext
  BY <1>1, <1>6 DEF DecodeNext, CanDecode, LimitInv, Scheduling
<1>7. CASE DecodeAppend
  <2>1. /\ cur \in SeqId /\ scheduled' = Append(scheduled, cur) /\ pc = "append" /\ pc' = "decode"
        /\ UNCHANGED batched
    BY <1>1, <1>7, Callers DEF DecodeAppend
  <2>2. Len(scheduled') = Len(scheduled) + 1
    BY <1>1, <2>1, AppendLen
  <2> QED BY <1>1, <2>1, <2>2 DEF LimitInv, Scheduling
<1>8. CASE PreemptOther \/ PreemptSelf \/ Preempted
  BY <1>1, <1>8 DEF PreemptOther, PreemptSelf, Preempted, LimitInv, Scheduling
<1>9. CASE DecodeEnd
  BY <1>1, <1>9 DEF DecodeEnd, LimitInv, Scheduling
<1>10. CASE LoopStep
  <2>1. UNCHANGED <<pc, scheduled, batched, tokens>> /\ call'.seq = call.seq
    BY <1>1, <1>10, CallStepFrame DEF LoopStep, engineVars
  <2> QED BY <1>1, <2>1 DEF LimitInv, Scheduling
<1>11. CASE add_request \/ GenerateEnd \/ StepEnd \/ run
  BY <1>11 DEF add_request, GenerateEnd, StepEnd, run, LimitInv, Scheduling
<1>12. CASE PostAppend \/ PostContinue \/ PostStop \/ PostFinished
  BY <1>12 DEF PostAppend, PostContinue, PostStop, PostFinished, LimitInv, Scheduling
<1>13. CASE UNCHANGED vars
  BY <1>1, <1>13 DEF vars, LimitInv, Scheduling
<1> QED BY <1>2, <1>3, <1>4, <1>5, <1>6, <1>7, <1>8, <1>9, <1>10, <1>11, <1>12, <1>13
        DEF EngineStep, Exited

(* While a call works on one request, that request is not in the batch.    *)
LEMMA NotScheduled ==
  ASSUME EngineInd, pc \in {"allocate", "preempt"}
  PROVE  call.seq \in SeqId /\ call.seq \notin ToSet(scheduled)
<1>1. /\ EngineTypeOK /\ ControlInv /\ Sorted(Line) /\ waiting \in Seq(SeqId)
      /\ running \in Seq(SeqId) /\ scheduled \in Seq(SeqId) /\ SeqId \subseteq Nat
  BY IndParts, Ids
<1>2. call.seq \in SeqId
  BY <1>1, Callers
<1>3. \A s \in ToSet(scheduled) : s < call.seq
  <2>1. CASE pc = "allocate"
    <3>1. call.seq \in ToSet(waiting)
      BY <1>1, <2>1, HeadTail DEF ControlInv
    <3>2. \A s \in ToSet(scheduled) : s \in ToSet(running)
      BY <2>1 DEF EngineInd, BatchInv, ToSet
    <3> QED BY <1>1, <3>1, <3>2, LineParts
  <2>2. CASE pc = "preempt"
    BY <1>1, <2>2, LineParts
  <2> QED BY <2>1, <2>2
<1>4. ASSUME call.seq \in ToSet(scheduled) PROVE FALSE
  <2>1. call.seq < call.seq /\ call.seq \in Nat
    BY <1>1, <1>2, <1>3, <1>4
  <2> QED BY <2>1
<1> QED BY <1>2, <1>4

LEMMA ReadyNext == EngineInd /\ [EngineStep]_vars => ReadyInv'
<1> SUFFICES ASSUME EngineInd, [EngineStep]_vars PROVE ReadyInv'
  OBVIOUS
<1>1. /\ EngineTypeOK /\ ControlInv /\ BMTypeOK /\ ReadyInv /\ scheduled \in Seq(SeqId)
      /\ pending \in [SeqId -> BOOLEAN] /\ table \in [SeqId -> Seq(Blocks)]
  BY IndParts DEF EngineInd, BMTypeOK
<1>2. \A k \in DOMAIN scheduled : scheduled[k] \in SeqId /\ scheduled[k] \in ToSet(scheduled)
  BY <1>1, Members
<1>3. ASSUME UNCHANGED <<scheduled, pending, table>>, Scheduling \/ ~Scheduling' PROVE ReadyInv'
  BY <1>1, <1>3 DEF ReadyInv
<1>4. ASSUME NEW v \in SeqId, scheduled' = Append(scheduled, v), Scheduling,
             pending' = [pending EXCEPT ![v] = FALSE], table'[v] # << >>,
             \A t \in SeqId \ {v} : table'[t] = table[t]
      PROVE  ReadyInv'
  <2> SUFFICES ASSUME NEW k \in DOMAIN scheduled'
               PROVE  ~pending'[scheduled'[k]] /\ table'[scheduled'[k]] # << >>
    BY DEF ReadyInv
  <2>1. ~pending'[v] /\ \A t \in SeqId : ~pending[t] => ~pending'[t]
    BY <1>1, <1>4
  <2>2. CASE k = Len(scheduled) + 1
    <3>1. scheduled'[k] = v
      BY <1>1, <1>4, <2>2, AppendLen
    <3> QED BY <1>4, <2>1, <3>1
  <2>3. CASE k # Len(scheduled) + 1
    <3>1. k \in DOMAIN scheduled /\ scheduled'[k] = scheduled[k]
      BY <1>1, <1>4, <2>3, AppendLen
    <3>2. scheduled[k] \in SeqId /\ ~pending[scheduled[k]] /\ table[scheduled[k]] # << >>
      BY <1>1, <1>2, <1>4, <3>1 DEF ReadyInv
    <3> QED BY <1>4, <2>1, <3>1, <3>2
  <2> QED BY <2>2, <2>3
<1>5. CASE StepBegin
  <2>1. scheduled' = << >> /\ DOMAIN << >> = {}
    BY <1>5 DEF StepBegin
  <2> QED BY <2>1 DEF ReadyInv
<1>6. CASE Admitted
  <2> PICK v : v = call.seq
    OBVIOUS
  <2>1. /\ v \in SeqId /\ scheduled' = Append(scheduled, v) /\ table[v] # << >> /\ UNCHANGED table
        /\ pending' = [pending EXCEPT ![v] = FALSE] /\ pc = "allocate"
    BY <1>6, AdmittedTokens DEF Admitted, AllocateReturn
  <2> QED BY <1>4, <2>1 DEF Scheduling
<1>7. CASE DecodeAppend
  <2>1. cur \in SeqId /\ may_append(cur) /\ scheduled' = Append(scheduled, cur) /\ pc = "append"
    BY <1>1, <1>7, Callers DEF DecodeAppend
  <2>2. /\ pending' = [pending EXCEPT ![cur] = FALSE] /\ table'[cur] # << >>
        /\ \A t \in SeqId \ {cur} : table'[t] = table[t]
    BY <1>1, <2>1, MayAppendFrame
  <2> QED BY <1>4, <2>1, <2>2 DEF Scheduling
<1>8. CASE Preempted
  <2>1. /\ call.seq \in SeqId /\ pending' = [pending EXCEPT ![call.seq] = FALSE] /\ UNCHANGED <<table, scheduled>>
        /\ pc = "preempt"
    BY <1>1, <1>8, Callers DEF Preempted, DeallocateReturn
  <2>2. \A t \in SeqId : ~pending[t] => ~pending'[t]
    BY <1>1, <2>1
  <2> QED BY <1>1, <1>2, <2>1, <2>2 DEF ReadyInv, Scheduling
<1>9. CASE LoopStep
  <2>1. /\ UNCHANGED <<pc, scheduled, pending>>
        /\ \A s \in SeqId : s # call.seq => UNCHANGED table[s]
    BY <1>1, <1>9, CallStepFrame DEF LoopStep, engineVars
  <2>2. CASE pc = "finish"
    BY <2>1, <2>2 DEF ReadyInv, Scheduling
  <2>3. CASE pc \in {"allocate", "preempt"}
    <3>1. \A k \in DOMAIN scheduled : scheduled[k] # call.seq
      BY <1>2, <2>3, NotScheduled
    <3> QED BY <1>1, <1>2, <2>1, <2>3, <3>1 DEF ReadyInv, Scheduling
  <2> QED BY <1>9, <2>2, <2>3 DEF LoopStep
<1>10. CASE Admit \/ PreemptOther \/ PreemptSelf
  BY <1>3, <1>10 DEF Admit, PreemptOther, PreemptSelf, allocate, deallocate, seqs, schedVars, Scheduling
<1>11. CASE PrefillEnd \/ DecodeNext \/ DecodeEnd
  BY <1>3, <1>11 DEF PrefillEnd, DecodeNext, DecodeEnd, bmVars, Scheduling
<1>12. CASE add_request \/ GenerateEnd \/ StepEnd \/ run
  BY <1>12 DEF add_request, GenerateEnd, StepEnd, run, ReadyInv, Scheduling
<1>13. CASE PostAppend \/ PostContinue \/ PostStop \/ PostFinished
  BY <1>13 DEF PostAppend, PostContinue, PostStop, PostFinished, ReadyInv, Scheduling
<1>14. CASE UNCHANGED vars
  BY <1>1, <1>14 DEF vars, ReadyInv, Scheduling
<1> QED BY <1>5, <1>6, <1>7, <1>8, <1>9, <1>10, <1>11, <1>12, <1>13, <1>14
        DEF EngineStep, Exited

(* Everybody in a batch is running, and nobody is in it twice, until       *)
(* postprocess has handled them.                                           *)
LEMMA BatchNext == EngineInd /\ [EngineStep]_vars => BatchInv'
<1> SUFFICES ASSUME EngineInd, [EngineStep]_vars PROVE BatchInv'
  OBVIOUS
<1> DEFINE Tracked == pc \in {"prefill", "allocate", "run", "post", "check", "finish"}
           Late == pc \in {"post", "check", "finish"}
<1>1. /\ EngineTypeOK /\ ControlInv /\ BMTypeOK /\ BatchInv /\ Sorted(Line)
      /\ scheduled \in Seq(SeqId) /\ running \in Seq(SeqId) /\ waiting \in Seq(SeqId)
      /\ done \in Nat /\ SeqId \subseteq Nat
      /\ \A k \in DOMAIN scheduled : scheduled[k] \in SeqId
      /\ DOMAIN scheduled \subseteq Nat
  BY IndParts, Ids DEF EngineInd, EngineTypeOK
<1>2. Tracked => /\ Sorted(scheduled)
                 /\ \A k \in DOMAIN scheduled : (Late => k > done) => scheduled[k] \in ToSet(running)
  BY <1>1 DEF BatchInv, Sorted
<1>3. SUFFICES ASSUME Tracked'
               PROVE  /\ Sorted(scheduled')
                      /\ \A k \in DOMAIN scheduled' : (Late' => k > done') => scheduled'[k] \in ToSet(running')
  BY DEF BatchInv, Sorted
<1> HIDE DEF Tracked, Late
<1>4. ASSUME Tracked, UNCHANGED <<scheduled, running, done>>, Late <=> Late'
      PROVE  /\ Sorted(scheduled')
             /\ \A k \in DOMAIN scheduled' : (Late' => k > done') => scheduled'[k] \in ToSet(running')
  BY <1>2, <1>4
<1>5. CASE StepBegin
  <2>1. scheduled' = << >> /\ DOMAIN << >> = {}
    BY <1>5 DEF StepBegin
  <2> QED BY <2>1 DEF Sorted
<1>6. CASE Admitted
  <2> PICK h, one : h = call.seq /\ one = <<h>>
    OBVIOUS
  <2>1. /\ h \in SeqId /\ h \in ToSet(waiting) /\ one \in Seq(SeqId) /\ ToSet(one) = {h}
        /\ Sorted(one) /\ pc = "allocate"
        /\ scheduled' = Append(scheduled, h) /\ running' = Append(running, h)
    BY <1>1, <1>6, AdmittedTokens, HeadTail, Single DEF Admitted
  <2>2. /\ scheduled' = Cat(scheduled, one) /\ running' = Cat(running, one)
    BY <1>1, <2>1, AppendCat
  <2>3. Sorted(scheduled) /\ \A k \in DOMAIN scheduled : scheduled[k] \in ToSet(running)
    BY <1>2, <2>1 DEF Tracked, Late
  <2>4. ToSet(scheduled) \subseteq ToSet(running)
    BY <2>3 DEF ToSet
  <2>5. \A s \in ToSet(scheduled), t \in ToSet(one) : s < t
    BY <1>1, <2>1, <2>4, LineParts
  <2>6. /\ scheduled' \in Seq(SeqId) /\ Sorted(scheduled')
        /\ ToSet(scheduled') = ToSet(scheduled) \cup ToSet(one)
    <3>1. scheduled \in Seq(SeqId) /\ one \in Seq(SeqId) /\ scheduled' = Cat(scheduled, one)
      BY <1>1, <2>1, <2>2
    <3>2. Sorted(scheduled) /\ Sorted(one) /\ \A s \in ToSet(scheduled), t \in ToSet(one) : s < t
      BY <2>1, <2>3, <2>5
    <3> QED BY ONLY <3>1, <3>2, Concatenation
  <2>7. ToSet(running') = ToSet(running) \cup ToSet(one)
    <3>1. running \in Seq(SeqId) /\ one \in Seq(SeqId) /\ running' = Cat(running, one)
      BY <1>1, <2>1, <2>2
    <3> QED BY ONLY <3>1, Concatenation
  <2>8. \A k \in DOMAIN scheduled' : scheduled'[k] \in ToSet(scheduled')
    BY <2>6, Members
  <2> QED BY <2>4, <2>6, <2>7, <2>8
<1>7. CASE DecodeEnd
  <2>1. pc = "decode" /\ running' = Cat(scheduled, running) /\ UNCHANGED scheduled
    BY <1>7 DEF DecodeEnd, Cat
  <2>2. Sorted(scheduled) /\ ToSet(running') = ToSet(scheduled) \cup ToSet(running)
    BY <1>1, <2>1, LineParts, Concatenation DEF Decoding
  <2>3. \A k \in DOMAIN scheduled : scheduled[k] \in ToSet(scheduled)
    BY <1>1, Members
  <2> QED BY <2>1, <2>2, <2>3
<1>8. CASE run
  <2>1. UNCHANGED <<scheduled, running>> /\ Tracked /\ ~Late
    BY <1>8 DEF run, Tracked, Late
  <2> QED BY <1>2, <2>1
<1>9. CASE PostContinue
  <2>1. UNCHANGED <<scheduled, running>> /\ Tracked /\ Late /\ Late' /\ done' = done + 1
    BY <1>9 DEF PostContinue, Tracked, Late
  <2>2. \A k \in DOMAIN scheduled : k > done + 1 => k > done
    BY <1>1
  <2> QED BY <1>2, <2>1, <2>2
<1>10. CASE PostFinished
  <2> PICK v, r : v = call.seq /\ r = RemoveFromDeque(running, v)
    OBVIOUS
  <2>1. /\ v \in ToSet(running) /\ v = scheduled[done + 1] /\ running' = r /\ pc = "finish"
        /\ UNCHANGED scheduled /\ done' = done + 1 /\ Tracked /\ Late /\ Late'
    BY <1>10, Finisher DEF PostFinished, Tracked, Late
  <2>2. Sorted(running)
    BY <1>1, LineParts
  <2>3. ToSet(r) = ToSet(running) \ {v}
    BY <1>1, <2>1, <2>2, SortedRemoval
  <2>4. done + 1 \in DOMAIN scheduled
    BY <1>1, <2>1, Callers
  <2>5. ASSUME NEW k \in DOMAIN scheduled, k > done + 1 PROVE scheduled[k] \in ToSet(r)
    <3>1. k > done /\ done + 1 < k
      BY <1>1, <2>5
    <3>2. scheduled[k] \in ToSet(running) /\ v < scheduled[k]
      BY <1>2, <2>1, <2>4, <3>1 DEF Sorted
    <3>3. v \in Nat /\ scheduled[k] \in Nat
      BY <1>1, <2>1, <2>4
    <3>4. scheduled[k] # v
      BY ONLY <3>2, <3>3
    <3> QED BY <2>3, <3>2, <3>4
  <2> QED BY <1>2, <2>1, <2>5
<1>11. CASE Admit \/ PrefillEnd
  <2>1. Tracked /\ ~Late /\ ~Late' /\ UNCHANGED <<scheduled, running, done>>
    BY <1>11 DEF Admit, PrefillEnd, Tracked, Late, schedVars
  <2> QED BY <1>4, <2>1
<1>12. CASE PostAppend \/ PostStop
  <2>1. Tracked /\ Late /\ Late' /\ UNCHANGED <<scheduled, running, done>>
    BY <1>12 DEF PostAppend, PostStop, Tracked, Late, schedVars
  <2> QED BY <1>4, <2>1
<1>13. CASE LoopStep \/ UNCHANGED vars
  <2>1. UNCHANGED <<pc, scheduled, running, done>>
    BY <1>13 DEF LoopStep, engineVars, vars
  <2> QED BY <1>3, <1>4, <2>1 DEF Tracked, Late
<1>14. CASE add_request \/ GenerateEnd \/ StepEnd
  BY <1>3, <1>14 DEF add_request, GenerateEnd, StepEnd, Tracked
<1>15. CASE DecodeNext \/ DecodeAppend \/ PreemptOther \/ PreemptSelf \/ Preempted
  BY <1>3, <1>15 DEF DecodeNext, DecodeAppend, PreemptOther, PreemptSelf, Preempted, Tracked
<1> QED BY <1>5, <1>6, <1>7, <1>8, <1>9, <1>10, <1>11, <1>12, <1>13, <1>14, <1>15
        DEF EngineStep, Exited

(* The tokens allocate counts as cached are in full blocks of the sequence. *)
LEMMA CachedNext == EngineInd /\ [EngineStep]_vars => CachedInv'
<1> SUFFICES ASSUME EngineInd, [EngineStep]_vars, pc' = "allocate"
             PROVE  cached'[call'.seq] <= call'.i * BlockSize /\ cached'[call'.seq] <= Len(tokens'[call'.seq])
  BY DEF CachedInv
<1>1. /\ EngineTypeOK /\ ControlInv /\ BMTypeOK /\ QueueInv /\ waiting \in Seq(SeqId)
      /\ cached \in [SeqId -> Nat] /\ tokens \in [SeqId -> Seq(Token)] /\ NoHash \notin DOMAIN h2b
  BY IndParts DEF EngineInd, BMTypeOK, BlockInv, SizesInv
<1>2. CASE Admit
  <2> PICK h : h = Head(waiting)
    OBVIOUS
  <2>1. /\ h \in SeqId /\ h \in ToSet(waiting) /\ call.op = "none" /\ UNCHANGED <<cached, tokens>>
        /\ call'.seq = h /\ call'.i = 0
    BY <1>1, <1>2, HeadTail DEF Admit, CanAdmit, allocate, AllocateFrame, seqs
  <2>2. cached[h] = 0
    BY <1>1, <2>1 DEF QueueInv, EngineInd, OnlyRunningHold
  <2>3. 0 <= 0 * BlockSize /\ 0 <= Len(tokens[h])
    BY <1>1, <2>1, BlockSizeAssumption
  <2> QED BY <2>1, <2>2, <2>3
<1>3. CASE LoopStep
  <2> PICK s, i : s = call.seq /\ i = call.i
    OBVIOUS
  <2>1. /\ pc = "allocate" /\ call.op = "allocate" /\ CallStep /\ s \in SeqId /\ i \in Nat
        /\ cached[s] <= i * BlockSize /\ cached[s] <= Len(tokens[s])
    BY <1>1, <1>3, CallFields DEF LoopStep, engineVars, ControlInv, EngineInd, CachedInv, BMTypeOK
  <2>2. /\ call'.seq = s /\ UNCHANGED tokens /\ i < num_blocks(s)
        /\ call'.i = i + 1
        /\ \/ cached' = cached
           \/ cached' = [cached EXCEPT ![s] = @ + BlockSize] /\ IterHit
    <3>1. CASE AllocateMiss
      BY <3>1 DEF AllocateMiss, IterEnd, AllocateFrame, InAllocateLoop
    <3>2. CASE AllocateShare
      BY <3>2 DEF AllocateShare, IterEnd, AllocateFrame, InAllocateLoop
    <3>3. CASE AllocateRevive
      BY <3>3 DEF AllocateRevive, IterEnd, AllocateFrame, InAllocateLoop
    <3> QED BY <2>1, <3>1, <3>2, <3>3 DEF CallStep, DeallocateBlock
  <2>3. /\ (i + 1) * BlockSize = i * BlockSize + BlockSize /\ BlockSize \in Nat
        /\ i * BlockSize \in Nat /\ (i + 1) * BlockSize \in Nat
        /\ cached[s] \in Nat /\ Len(tokens[s]) \in Nat
    BY <1>1, <2>1, TimesNext, BlockSizeAssumption
  <2>4. CASE cached' = cached
    BY <2>1, <2>2, <2>3, <2>4
  <2>5. CASE cached' = [cached EXCEPT ![s] = @ + BlockSize] /\ IterHit
    <3>1. cached'[s] = cached[s] + BlockSize
      BY <1>1, <2>1, <2>5
    <3>2. IterHash # NoHash
      BY <1>1, <2>5 DEF IterHit
    <3>3. Len(block(s, i)) = BlockSize
      BY <3>2 DEF IterHash, IterTokens
    <3>4. (i + 1) * BlockSize <= Len(tokens[s])
      BY <1>1, <2>1, <2>2, <3>3, BlockLen
    <3> PICK c, m, n, l : c = cached[s] /\ m = i * BlockSize /\ n = (i + 1) * BlockSize
                          /\ l = Len(tokens[s])
      OBVIOUS
    <3>6. /\ {c, m, n, l, BlockSize} \subseteq Nat /\ n = m + BlockSize
          /\ c <= m /\ n <= l
      BY <2>1, <2>3, <3>4
    <3>7. c + BlockSize <= n /\ c + BlockSize <= l
      BY ONLY <3>6
    <3>5. cached'[s] <= (i + 1) * BlockSize /\ cached'[s] <= Len(tokens[s])
      BY <3>1, <3>7
    <3> QED BY <2>2, <3>5
  <2> QED BY <2>2, <2>4, <2>5
<1>4. CASE UNCHANGED vars
  <2>1. UNCHANGED <<pc, cached, tokens, call>>
    BY <1>4 DEF vars
  <2> QED BY <2>1 DEF EngineInd, CachedInv
<1>5. CASE add_request \/ StepBegin \/ GenerateEnd \/ Admitted \/ PrefillEnd \/ run
  BY <1>5 DEF add_request, StepBegin, GenerateEnd, Admitted, PrefillEnd, run
<1>6. CASE DecodeNext \/ DecodeAppend \/ PreemptOther \/ PreemptSelf \/ Preempted \/ DecodeEnd
  BY <1>6 DEF DecodeNext, DecodeAppend, PreemptOther, PreemptSelf, Preempted, DecodeEnd
<1>7. CASE PostAppend \/ PostContinue \/ PostStop \/ PostFinished \/ StepEnd
  BY <1>7 DEF PostAppend, PostContinue, PostStop, PostFinished, StepEnd
<1> QED BY <1>2, <1>3, <1>4, <1>5, <1>6, <1>7 DEF EngineStep, Exited

-----------------------------------------------------------------------------
(* The invariant of the engine. *)
LEMMA EngineInitInd == EngineInit => EngineInd
<1> SUFFICES ASSUME EngineInit PROVE EngineInd
  OBVIOUS
<1>1. /\ pc = "add" /\ waiting = << >> /\ running = << >> /\ scheduled = << >>
      /\ batched = 0 /\ prefill = FALSE /\ cur = NoSeq /\ done = 0 /\ nextId = 1
      /\ status = [s \in SeqId |-> "none"] /\ budget = [s \in SeqId |-> 0]
      /\ kv = [b \in Blocks |-> << >>] /\ call = NoCall
      /\ table = [s \in SeqId |-> << >>] /\ cached = [s \in SeqId |-> 0]
  BY DEF EngineInit, BMInit
<1>2. BlockInv /\ BMTypeOK /\ call.op = "none"
  BY <1>1, BlockInitInv DEF EngineInit, BlockInv, BMInv, NoCall
<1>3. EngineTypeOK
  <2>1. << >> \in Seq(SeqId) /\ << >> \in Seq(Token)
    OBVIOUS
  <2>2. status \in [SeqId -> {"none", "WAITING", "RUNNING", "FINISHED"}] /\ budget \in [SeqId -> Nat]
    BY <1>1
  <2>3. kv \in [Blocks -> Seq(Token)]
    BY <1>1, <2>1
  <2>4. prefill \in BOOLEAN
    BY <1>1
  <2>5. /\ waiting \in Seq(SeqId) /\ running \in Seq(SeqId) /\ scheduled \in Seq(SeqId)
        /\ batched \in Nat /\ done \in Nat /\ cur \in SeqId \cup {NoSeq} /\ nextId \in Nat \ {0}
    BY <1>1, <2>1
  <2> QED BY <1>1, <1>2, <2>2, <2>3, <2>4, <2>5 DEF EngineTypeOK
<1>4. ControlInv
  BY <1>1, <1>2 DEF ControlInv
<1>5. ToSet(<< >>) = {} /\ 1 .. nextId - 1 = {} /\ DOMAIN << >> = {}
  BY <1>1, Empty
<1>6. QueueInv
  BY <1>1, <1>5 DEF QueueInv
<1>7. InOrder
  <2>1. Line = << >>
    <3>1. Lines
      BY <1>3, <1>4, LinesHold
    <3>2. Line = Cat(<< >>, << >>)
      BY <1>1, <3>1 DEF Lines, Decoding
    <3> QED BY <3>2, Empty, ConcatEmpty
  <2>2. \A s \in 1 .. nextId - 1 : FALSE
    BY <1>5
  <2> QED BY <1>5, <2>1, <2>2 DEF InOrder
<1>8. OnlyRunningHold
  BY <1>1 DEF OnlyRunningHold
<1>9. LimitInv /\ ReadyInv /\ BatchInv /\ CachedInv
  BY <1>1, <1>5 DEF LimitInv, ReadyInv, BatchInv, CachedInv, Scheduling
<1> QED BY <1>2, <1>3, <1>4, <1>6, <1>7, <1>8, <1>9 DEF EngineInd

LEMMA EngineNextInd == EngineInd /\ [EngineStep]_vars => EngineInd'
BY BlockStep, EngineTypesNext, ControlNext, QueueNext, ArrivalNext, HoldNext, LimitNext, ReadyNext,
   BatchNext, CachedNext DEF EngineInd

(* After an exception has left generate() nothing runs any more. *)
Stopped == EngineTypeOK /\ BlockInv /\ OnlyRunningHold
EngineAlways == IF pc = "raised" THEN Stopped ELSE EngineInd

LEMMA StepsReturn == pc # "raised" /\ [EngineStep]_vars => pc' # "raised"
<1>1. CASE add_request \/ StepBegin \/ GenerateEnd \/ Admit \/ Admitted \/ PrefillEnd
  BY <1>1 DEF add_request, StepBegin, GenerateEnd, Admit, Admitted, PrefillEnd
<1>2. CASE DecodeNext \/ DecodeAppend \/ PreemptOther \/ PreemptSelf \/ Preempted \/ DecodeEnd
  BY <1>2 DEF DecodeNext, DecodeAppend, PreemptOther, PreemptSelf, Preempted, DecodeEnd
<1>3. CASE run \/ PostAppend \/ PostContinue \/ PostStop \/ PostFinished \/ StepEnd
  BY <1>3 DEF run, PostAppend, PostContinue, PostStop, PostFinished, StepEnd
<1>4. CASE LoopStep \/ Exited \/ UNCHANGED vars
  BY <1>4 DEF LoopStep, Exited, engineVars, vars
<1> QED BY <1>1, <1>2, <1>3, <1>4 DEF EngineStep

LEMMA NothingRuns == pc = "raised" /\ [EngineNext]_vars => UNCHANGED vars
<1> SUFFICES ASSUME pc = "raised", [EngineNext]_vars PROVE UNCHANGED vars
  OBVIOUS
<1>1. ~(add_request \/ StepBegin \/ GenerateEnd \/ Admit \/ Admitted \/ PrefillEnd)
  BY DEF add_request, StepBegin, GenerateEnd, Admit, Admitted, PrefillEnd
<1>2. ~(DecodeNext \/ DecodeAppend \/ PreemptOther \/ PreemptSelf \/ Preempted \/ DecodeEnd)
  BY DEF DecodeNext, DecodeAppend, PreemptOther, PreemptSelf, Preempted, DecodeEnd
<1>3. ~(run \/ PostAppend \/ PostContinue \/ PostStop \/ PostFinished \/ StepEnd)
  BY DEF run, PostAppend, PostContinue, PostStop, PostFinished, StepEnd
<1>4. ~(LoopStep \/ DecodeRaises \/ RunRaises)
  BY DEF LoopStep, DecodeRaises, RunRaises
<1> QED BY <1>1, <1>2, <1>3, <1>4 DEF EngineNext, EngineStep, Exited

(* schedule() and the model runner raise as the contract of the block      *)
(* manager has it, and leave every table with its owner.                   *)
LEMMA RaiseIsBM ==
  ASSUME EngineTypeOK, ControlInv, DecodeRaises \/ RunRaises
  PROVE  [BMNext]_bmVars
<1>1. pc = "append" => cur \in SeqId
  BY DEF EngineTypeOK, ControlInv, NoSeq
<1>2. CASE DecodeRaises
  BY <1>1, <1>2 DEF DecodeRaises, BMNext
<1>3. CASE RunRaises
  BY <1>3 DEF RunRaises, bmVars
<1> QED BY <1>2, <1>3

LEMMA RaiseStops ==
  ASSUME EngineInd, DecodeRaises \/ RunRaises
  PROVE  pc' = "raised" /\ Stopped'
<1>1. EngineTypeOK /\ ControlInv /\ BlockInv /\ OnlyRunningHold
  BY DEF EngineInd
<1>2. BlockInv'
  BY <1>1, RaiseIsBM, BlockNextInv
<1>3. pc' = "raised" /\ UNCHANGED <<schedVars, kv, table, cached>>
  BY DEF DecodeRaises, RunRaises, MayAppendRaises, seqs, bmVars
<1>4. BMTypeOK'
  BY <1>2 DEF BlockInv, BMInv
<1>5. EngineTypeOK'
  BY <1>1, <1>3, <1>4 DEF EngineTypeOK, schedVars
<1>6. call.op = "none"
  BY <1>1 DEF ControlInv, DecodeRaises, RunRaises
<1>7. OnlyRunningHold'
  BY <1>1, <1>3, <1>6 DEF OnlyRunningHold, schedVars
<1> QED BY <1>2, <1>3, <1>5, <1>7 DEF Stopped

LEMMA VarsKept ==
  ASSUME UNCHANGED vars
  PROVE  /\ UNCHANGED <<pc, status, table, cached, call, prefill, scheduled, tokens>>
         /\ Stopped => Stopped'
<1>1. [EngineStep]_vars /\ UNCHANGED bmVars /\ [BMNext]_bmVars
  BY DEF vars, bmVars
<1>2. /\ UNCHANGED <<pc, status, table, cached, call, prefill, scheduled, tokens>>
      /\ UNCHANGED <<waiting, running, batched, cur, budget, done, nextId, kv>>
  BY DEF vars
<1>3. ASSUME Stopped PROVE Stopped'
  <2>1. BlockInv'
    BY <1>1, <1>3, BlockNextInv DEF Stopped
  <2>2. BMTypeOK'
    BY <2>1 DEF BlockInv, BMInv
  <2>3. EngineTypeOK'
    BY <1>2, <1>3, <2>2 DEF Stopped, EngineTypeOK
  <2>4. OnlyRunningHold'
    BY <1>2, <1>3 DEF Stopped, OnlyRunningHold
  <2> QED BY <2>1, <2>3, <2>4 DEF Stopped
<1> QED BY <1>2, <1>3

LEMMA EngineAlwaysNext == EngineAlways /\ [EngineNext]_vars => EngineAlways'
<1> SUFFICES ASSUME EngineAlways, [EngineNext]_vars PROVE EngineAlways'
  OBVIOUS
<1>1. CASE pc = "raised"
  BY <1>1, NothingRuns, VarsKept DEF EngineAlways
<1>2. CASE pc # "raised" /\ [EngineStep]_vars
  BY <1>2, StepsReturn, EngineNextInd DEF EngineAlways
<1>3. CASE pc # "raised" /\ (DecodeRaises \/ RunRaises)
  BY <1>3, RaiseStops DEF EngineAlways
<1> QED BY <1>1, <1>2, <1>3 DEF EngineNext

LEMMA EngineInvariant == EngineSpec => []EngineAlways
<1>1. EngineInit => EngineAlways
  BY EngineInitInd DEF EngineInit, EngineAlways
<1> QED BY <1>1, EngineAlwaysNext, PTL DEF EngineSpec

-----------------------------------------------------------------------------
(* The engine only calls the block manager as the contract of BlockManager *)
(* allows, so everything proved about the block manager alone holds in the *)
(* engine: add_request, schedule and postprocess implement its callers.    *)
THEOREM EngineUsesTheBlockManager == EngineSpec => BMSpec
<1>1. EngineInit => BMInit
  BY DEF EngineInit
<1>2. ASSUME EngineAlways, [EngineNext]_vars PROVE [BMNext]_bmVars
  <2>1. CASE pc = "raised"
    BY <1>2, <2>1, NothingRuns DEF vars, bmVars
  <2>2. CASE pc # "raised"
    <3>1. EngineTypeOK /\ ControlInv
      BY <1>2, <2>2 DEF EngineAlways, EngineInd
    <3> QED BY <1>2, <3>1, EngineStepIsBM, RaiseIsBM DEF EngineNext
  <2> QED BY <2>1, <2>2
<1> QED BY <1>1, <1>2, EngineInvariant, PTL DEF EngineSpec, BMSpec

(* First come, first served: no admission, preemption, re-admission or     *)
(* completion lets a younger request overtake an older one, loses an       *)
(* unfinished request or queues it twice (schedule, preempt, postprocess). *)
THEOREM RequestsKeepTheirOrder == EngineSpec => []ArrivalOrder
<1>1. EngineAlways => ArrivalOrder
  BY DEF EngineAlways, EngineInd, ArrivalOrder
<1> QED BY <1>1, EngineInvariant, PTL

(* Blocks belong to running requests: one that waits, was preempted or has *)
(* finished holds none and counts no cached token (preempt, postprocess).  *)
THEOREM OnlyRunningRequestsHoldBlocks == EngineSpec => []OnlyRunningHold
<1>1. EngineAlways => OnlyRunningHold
  BY DEF EngineAlways, EngineInd, Stopped
<1> QED BY <1>1, EngineInvariant, PTL

(* The model runner is called with a batch that is not empty, within       *)
(* max_num_seqs and max_num_batched_tokens, names no sequence twice, and   *)
(* has in every block table exactly the blocks its tokens need (schedule). *)
THEOREM BatchesAreWellFormed == EngineSpec => []RunnerContract
<1>1. ASSUME EngineInd PROVE RunnerContract
  <2> SUFFICES ASSUME pc = "run"
               PROVE  /\ scheduled # << >> /\ Len(scheduled) <= MaxNumSeqs
                      /\ batched <= MaxNumBatchedTokens
                      /\ \A j, k \in DOMAIN scheduled : scheduled[j] = scheduled[k] => j = k
                      /\ \A s \in ToSet(scheduled) :
                           s \in ToSet(running) /\ ~pending[s] /\ Len(table[s]) = num_blocks(s)
    BY DEF RunnerContract
  <2>1. scheduled # << >> /\ Len(scheduled) <= MaxNumSeqs /\ batched <= MaxNumBatchedTokens
    BY <1>1 DEF EngineInd, LimitInv, Scheduling
  <2>2. /\ EngineTypeOK /\ ControlInv /\ BMTypeOK /\ scheduled \in Seq(SeqId) /\ call.op = "none"
        /\ SizesInv /\ tokens \in [SeqId -> Seq(Token)] /\ DOMAIN scheduled \subseteq Nat
        /\ \A k \in DOMAIN scheduled : scheduled[k] \in SeqId /\ scheduled[k] \in Nat
    <3>1. EngineTypeOK /\ BMTypeOK /\ BlockInv /\ ControlInv /\ scheduled \in Seq(SeqId)
      BY <1>1, IndParts
    <3>2. SeqId \subseteq Nat
      BY Ids
    <3> QED BY <3>1, <3>2 DEF BlockInv, BMTypeOK, ControlInv
  <2>3. ASSUME NEW j \in DOMAIN scheduled, NEW k \in DOMAIN scheduled, scheduled[j] = scheduled[k]
        PROVE  j = k
    <3>1. /\ j < k => scheduled[j] < scheduled[k]
          /\ k < j => scheduled[k] < scheduled[j]
      BY <1>1 DEF EngineInd, BatchInv
    <3>2. ~(scheduled[j] < scheduled[k]) /\ ~(scheduled[k] < scheduled[j])
      BY <2>2, <2>3
    <3>3. j \in Nat /\ k \in Nat
      BY <2>2
    <3> QED BY <3>1, <3>2, <3>3
  <2>4. ASSUME NEW k \in DOMAIN scheduled, NEW s, s = scheduled[k]
        PROVE  s \in ToSet(running) /\ ~pending[s] /\ Len(table[s]) = num_blocks(s)
    <3>1. s \in SeqId /\ s \in ToSet(running) /\ ~pending[s] /\ table[s] # << >>
      BY <1>1, <2>2, <2>4 DEF EngineInd, BatchInv, ReadyInv, Scheduling
    <3>2. Fits(s, Len(table[s])) /\ Covered(s) = Len(tokens[s]) /\ Len(tokens[s]) \in Nat
      <4>1. SizeInv(s) /\ Holding(s)
        BY <2>2, <3>1 DEF SizesInv, Holding
      <4>2. Len(tokens[s]) \in Nat
        BY <2>2, <3>1, TableTypes
      <4> QED BY <3>1, <4>1, <4>2 DEF SizeInv, Covered
    <3>3. Len(table[s]) \in Nat
      BY <2>2, <3>1, TableTypes
    <3>4. /\ num_blocks(s) \in Nat /\ (num_blocks(s) - 1) * BlockSize < Len(tokens[s])
          /\ Len(tokens[s]) <= num_blocks(s) * BlockSize
      BY <2>2, <3>1, NumBlocksBounds
    <3>5. Len(table[s]) = num_blocks(s)
      BY <3>2, <3>3, <3>4, QuotientUnique DEF Fits
    <3> QED BY <3>1, <3>5
  <2>5. \A s \in ToSet(scheduled) :
          s \in ToSet(running) /\ ~pending[s] /\ Len(table[s]) = num_blocks(s)
    BY <2>4 DEF ToSet
  <2> QED BY <2>1, <2>3, <2>5
<1>2. EngineAlways => RunnerContract
  BY <1>1 DEF EngineAlways, RunnerContract
<1> QED BY <1>2, EngineInvariant, PTL

-----------------------------------------------------------------------------
(* No step is empty, where every request fits the limits. *)
LEMMA Covering ==
  ASSUME NEW q \in Seq(Blocks), \A b \in Blocks : \E i \in DOMAIN q : q[i] = b
  PROVE  NumBlocks <= Len(q) /\ Len(q) \in Nat
<1> PICK n \in Nat : n = Len(q)
  OBVIOUS
<1>1. q \in [1 .. n -> Blocks] /\ DOMAIN q = 1 .. n
  OBVIOUS
<1>2. q \in Surjection(1 .. n, Blocks)
  BY <1>1 DEF Surjection
<1>3. IsFiniteSet(1 .. n) /\ Cardinality(1 .. n) = n
  <2>0. 1 \in Int /\ n \in Int
    OBVIOUS
  <2>1. IsFiniteSet(1 .. n) /\ Cardinality(1 .. n) = IF 1 > n THEN 0 ELSE n - 1 + 1
    BY <2>0, FS_Interval, Zenon
  <2>2. (IF 1 > n THEN 0 ELSE n - 1 + 1) = n
    OBVIOUS
  <2> QED BY <2>1, <2>2
<1>4. Cardinality(Blocks) <= n
  BY <1>2, <1>3, FS_Surjection
<1>5. NumBlocks - 1 \in Int /\ ~(0 > NumBlocks - 1) /\ NumBlocks - 1 - 0 + 1 = NumBlocks
  BY NumBlocksAssumption
<1>6. Cardinality(Blocks) = NumBlocks
  BY <1>5, FS_Interval DEF Blocks
<1> QED BY <1>4, <1>6

LEMMA WholePoolFree ==
  ASSUME BMInv, \A s \in SeqId : table[s] = << >>
  PROVE  NumBlocks <= Len(free) /\ Len(free) \in Nat
<1>1. free \in Seq(Blocks)
  BY DEF BMInv, BMTypeOK
<1>2. ASSUME NEW b \in Blocks PROVE \E i \in DOMAIN free : free[i] = b
  <2>1. Holders(b) = {}
    BY DEF Holders
  <2>2. ref[b] = 0
    BY <2>1, FS_EmptySet DEF BMInv, PoolInv, RefCount
  <2>3. b \in ToSet(free)
    BY <2>2, NumBlocksAssumption DEF BMInv, PoolInv, Partition
  <2> QED BY <2>3 DEF ToSet
<1> QED BY <1>1, <1>2, Covering

LEMMA WholePoolHeld ==
  ASSUME BMInv, Len(free) = 0, NEW c \in SeqId, \A s \in SeqId \ {c} : table[s] = << >>
  PROVE  NumBlocks <= Len(table[c]) /\ Len(table[c]) \in Nat
<1>1. free \in Seq(Blocks) /\ table[c] \in Seq(Blocks) /\ ref \in [Blocks -> Nat]
  BY DEF BMInv, BMTypeOK
<1>2. ASSUME NEW b \in Blocks PROVE \E i \in DOMAIN table[c] : table[c][i] = b
  <2>1. b \notin ToSet(free)
    BY <1>1 DEF ToSet
  <2>2. ref[b] # 0
    BY <1>1, <2>1 DEF BMInv, PoolInv, Partition
  <2>3. Holders(b) # {}
    BY <2>2, FS_EmptySet DEF BMInv, PoolInv, RefCount
  <2> PICK s \in SeqId : \E i \in DOMAIN table[s] : table[s][i] = b
    BY <2>3 DEF Holders
  <2> PICK i \in DOMAIN table[s] : table[s][i] = b
    OBVIOUS
  <2>4. s = c
    <3>1. table[s] # << >>
      <4>1. DOMAIN << >> = {}
        BY Empty
      <4> QED BY <4>1
    <3> QED BY <3>1
  <2> QED BY <2>4
<1> QED BY <1>1, <1>2, Covering

LEMMA InLineStatus ==
  ASSUME EngineInd
  PROVE  /\ \A s \in ToSet(Line) : s \in SeqId /\ s \in 1 .. nextId - 1
         /\ pc # "finish" => \A s \in ToSet(Line) : status[s] # "FINISHED"
         /\ \A s \in SeqId : status[s] = "RUNNING" => s \in ToSet(Line)
<1>1. /\ nextId \in Nat \ {0} /\ 1 .. nextId - 1 \subseteq SeqId /\ SeqId \subseteq Nat \ {0}
      /\ \A s \in SeqId : s >= nextId => status[s] = "none"
      /\ ToSet(Line) \subseteq 1 .. nextId - 1
      /\ \A s \in 1 .. nextId - 1 :
           s \in ToSet(Line) <=> status[s] # "FINISHED" \/ (pc = "finish" /\ call.seq = s)
  BY Ids DEF NoSeq, EngineInd, EngineTypeOK, QueueInv, InOrder
<1>2. ASSUME NEW s \in SeqId, status[s] = "RUNNING" PROVE s \in ToSet(Line)
  <2>1. ~(s >= nextId) /\ s \in Nat \ {0}
    BY <1>1, <1>2
  <2>2. s \in 1 .. nextId - 1
    BY <1>1, <2>1
  <2> QED BY <1>1, <1>2, <2>2
<1> QED BY <1>1, <1>2

(* Nobody comes back from FINISHED. *)
LEMMA FinishedStays ==
  ASSUME EngineInd, [EngineStep]_vars, ~add_request, NEW s \in 1 .. nextId - 1,
         status'[s] # "FINISHED"
  PROVE  UNCHANGED nextId /\ status[s] # "FINISHED"
<1>1. CASE pc = "finish"
  <2>1. UNCHANGED <<status, nextId>>
    <3>1. CASE PostFinished \/ LoopStep \/ UNCHANGED vars
      BY <3>1 DEF PostFinished, LoopStep, engineVars, vars
    <3>2. CASE StepBegin \/ GenerateEnd \/ Admit \/ Admitted \/ PrefillEnd \/ run
      BY <1>1, <3>2 DEF StepBegin, GenerateEnd, Admit, Admitted, PrefillEnd, run
    <3>3. CASE DecodeNext \/ DecodeAppend \/ PreemptOther \/ PreemptSelf \/ Preempted \/ DecodeEnd
      BY <1>1, <3>3 DEF DecodeNext, DecodeAppend, PreemptOther, PreemptSelf, Preempted, DecodeEnd
    <3>4. CASE PostAppend \/ PostContinue \/ PostStop \/ StepEnd
      BY <1>1, <3>4 DEF PostAppend, PostContinue, PostStop, StepEnd
    <3> QED BY <3>1, <3>2, <3>3, <3>4 DEF EngineStep, Exited
  <2> QED BY <2>1
<1>2. CASE pc # "finish"
  <2>1. ~PostFinished
    BY <1>2 DEF PostFinished
  <2> QED BY <1>2, <2>1, StatusKept DEF Unfinished
<1> QED BY <1>1, <1>2

(* The tokens of an unfinished request leave room for one more, except     *)
(* between append_token and the check of the stop condition.               *)
Room(s) == IF pc = "check" /\ s = scheduled[done + 1] THEN budget[s] ELSE budget[s] - 1

LEMMA BudgetNext == EveryRequestFits /\ FitInd /\ [EngineStep]_vars => BudgetInv'
<1> SUFFICES ASSUME EveryRequestFits, FitInd, [EngineStep]_vars PROVE BudgetInv'
  OBVIOUS
<1>1. /\ EngineInd /\ EngineTypeOK /\ ControlInv /\ BMTypeOK /\ nextId \in Nat \ {0}
      /\ 1 .. nextId - 1 \subseteq SeqId /\ scheduled \in Seq(SeqId)
      /\ tokens \in [SeqId -> Seq(Token)] /\ budget \in [SeqId -> Nat]
      /\ status \in [SeqId -> {"none", "WAITING", "RUNNING", "FINISHED"}]
  BY IndParts DEF FitInd, EngineTypeOK, QueueInv, BMTypeOK
<1>2. \A s \in 1 .. nextId - 1 :
        /\ tokens[s] # << >>
        /\ budget[s] <= MaxNumBatchedTokens + 1 /\ budget[s] <= NumBlocks * BlockSize + 1
        /\ status[s] # "FINISHED" => Len(tokens[s]) <= Room(s)
  BY DEF FitInd, BudgetInv, Room
<1>3. CASE add_request
  <2> PICK p \in Prompts, m \in MaxTokens :
         from_prompt(nextId, p) /\ budget' = [budget EXCEPT ![nextId] = Len(p) + m]
    BY <1>3 DEF add_request
  <2> PICK n \in SeqId : n = nextId
    BY <1>3 DEF add_request
  <2>1. /\ Len(p) \in Nat /\ p # << >> /\ m \in Nat \ {0} /\ nextId' = n + 1
        /\ pc = "add" /\ pc' \in {"add", "step"} /\ status' = [status EXCEPT ![n] = "WAITING"]
        /\ tokens' = [tokens EXCEPT ![n] = p] /\ p \in Seq(Token)
    BY <1>3, PromptsAssumption, EngineAssumption DEF add_request, from_prompt
  <2>2. Len(p) + m - 1 <= MaxNumBatchedTokens /\ Len(p) + m - 1 <= NumBlocks * BlockSize
    BY DEF EveryRequestFits
  <2>3. NumBlocks * BlockSize \in Nat /\ MaxNumBatchedTokens \in Nat
    BY NumBlocksAssumption, BlockSizeAssumption, EngineAssumption
  <2> SUFFICES ASSUME NEW s \in 1 .. n
               PROVE  /\ tokens'[s] # << >>
                      /\ budget'[s] <= MaxNumBatchedTokens + 1
                      /\ budget'[s] <= NumBlocks * BlockSize + 1
                      /\ Len(tokens'[s]) <= budget'[s] - 1 \/ status'[s] = "FINISHED"
    BY <1>1, <2>1 DEF BudgetInv
  <2>4. CASE s = n
    <3>1. tokens'[s] = p /\ budget'[s] = Len(p) + m
      BY <1>1, <2>1, <2>4
    <3> QED BY <2>1, <2>2, <2>3, <3>1
  <2>5. CASE s # n
    <3>1. s \in 1 .. nextId - 1 /\ s \in SeqId
      BY <1>1, <2>5
    <3>2. tokens'[s] = tokens[s] /\ budget'[s] = budget[s] /\ status'[s] = status[s]
      BY <1>1, <2>1, <2>5, <3>1
    <3>3. Room(s) = budget[s] - 1
      BY <2>1 DEF Room
    <3> QED BY <1>2, <3>1, <3>2, <3>3
  <2> QED BY <2>4, <2>5
<1>4. SUFFICES ASSUME ~add_request, NEW s \in 1 .. nextId - 1
               PROVE  /\ UNCHANGED <<nextId, budget>> /\ tokens'[s] # << >>
                      /\ status'[s] # "FINISHED" => Len(tokens'[s]) <= Room(s)'
  <2>1. CASE add_request
    BY <1>3, <2>1
  <2>2. CASE ~add_request
    <3>2. UNCHANGED nextId
      <4>1. CASE LoopStep \/ UNCHANGED vars \/ StepBegin \/ GenerateEnd \/ Admit \/ run \/ PrefillEnd
        BY <4>1 DEF LoopStep, engineVars, vars, StepBegin, GenerateEnd, Admit, run, PrefillEnd, schedVars
      <4>2. CASE PostAppend \/ PostContinue \/ PostStop \/ PostFinished \/ StepEnd \/ DecodeNext \/ DecodeAppend
        BY <4>2 DEF PostAppend, PostContinue, PostStop, PostFinished, StepEnd, DecodeNext, DecodeAppend, schedVars
      <4>3. CASE Preempted \/ DecodeEnd \/ Admitted \/ PreemptOther \/ PreemptSelf
        BY <4>3 DEF Preempted, DecodeEnd, Admitted, PreemptOther, PreemptSelf
      <4> QED BY <2>2, <4>1, <4>2, <4>3 DEF EngineStep, Exited
    <3>3. ASSUME NEW t \in 1 .. nextId' - 1
          PROVE  /\ tokens'[t] # << >>
                 /\ budget'[t] <= MaxNumBatchedTokens + 1 /\ budget'[t] <= NumBlocks * BlockSize + 1
                 /\ status'[t] # "FINISHED" => Len(tokens'[t]) <= Room(t)'
      <4>1. t \in 1 .. nextId - 1
        BY <3>2
      <4> QED BY <1>2, <1>4, <2>2, <4>1
    <3> QED BY <3>3 DEF BudgetInv, Room
  <2> QED BY <2>1, <2>2
<1>5. s \in SeqId /\ Len(tokens[s]) \in Nat /\ budget[s] \in Nat
      /\ (status'[s] # "FINISHED" => status[s] # "FINISHED")
  BY <1>1, <1>4, FinishedStays, TableTypes
<1>6. ASSUME UNCHANGED <<tokens, budget, nextId>>, pc # "check", pc' # "check"
      PROVE  /\ UNCHANGED <<nextId, budget>> /\ tokens'[s] # << >>
             /\ status'[s] # "FINISHED" => Len(tokens'[s]) <= Room(s)'
  BY <1>2, <1>5, <1>6 DEF Room
<1>7. CASE PostAppend
  <2> PICK v : v = scheduled[done + 1]
    OBVIOUS
  <2> PICK x \in Token : append_token(v, x)
    BY <1>7 DEF PostAppend
  <2>1. /\ v \in SeqId /\ tokens' = [tokens EXCEPT ![v] = Append(@, x)]
        /\ pc = "post" /\ pc' = "check" /\ UNCHANGED <<nextId, budget, scheduled, done, status>>
    <3>1. done < Len(scheduled) /\ done \in Nat
      BY <1>1, <1>7 DEF PostAppend, EngineTypeOK
    <3>2. scheduled[done + 1] \in SeqId
      BY <1>1, <3>1
    <3> QED BY <1>7, <3>2 DEF PostAppend, append_token, schedVars
  <2>2. CASE s = v
    <3>1. tokens'[s] = Append(tokens[s], x) /\ tokens[s] \in Seq(Token)
      BY <1>1, <2>1, <2>2
    <3>2. tokens'[s] # << >> /\ Len(tokens'[s]) = Len(tokens[s]) + 1
      BY <3>1, AppendNonEmpty, AppendProperties
    <3>3. Room(s) = budget[s] - 1 /\ Room(s)' = budget[s]
      BY <2>1, <2>2 DEF Room
    <3> QED BY <1>2, <1>5, <2>1, <3>2, <3>3
  <2>3. CASE s # v
    <3>1. tokens'[s] = tokens[s] /\ Room(s) = budget[s] - 1 /\ Room(s)' = budget[s] - 1
      BY <1>1, <1>5, <2>1, <2>3 DEF Room
    <3> QED BY <1>2, <2>1, <3>1
  <2> QED BY <2>2, <2>3
<1>8. CASE PostContinue
  <2> PICK v : v = scheduled[done + 1]
    OBVIOUS
  <2>1. /\ UNCHANGED <<nextId, budget, tokens, status>> /\ pc = "check" /\ pc' = "post"
        /\ Len(tokens[v]) # budget[v]
    BY <1>8 DEF PostContinue, bmVars, Stops
  <2>2. Room(s)' = budget[s] - 1
    BY <2>1 DEF Room
  <2>3. CASE s = v
    BY <1>2, <1>5, <2>1, <2>2, <2>3 DEF Room
  <2>4. CASE s # v
    BY <1>2, <2>1, <2>2, <2>4 DEF Room
  <2> QED BY <2>3, <2>4
<1>9. CASE PostStop
  <2> PICK v : v = scheduled[done + 1]
    OBVIOUS
  <2>1. /\ UNCHANGED <<nextId, budget, tokens>> /\ pc = "check" /\ pc' = "finish"
        /\ status' = [status EXCEPT ![v] = "FINISHED"]
    BY <1>9 DEF PostStop, deallocate, seqs
  <2>2. CASE s = v
    BY <1>1, <1>2, <1>5, <2>1, <2>2
  <2>3. CASE s # v
    BY <1>1, <1>2, <1>5, <2>1, <2>3 DEF Room
  <2> QED BY <2>2, <2>3
<1>10. CASE LoopStep \/ UNCHANGED vars
  <2>1. UNCHANGED <<pc, tokens, budget, nextId, status, scheduled, done>>
    <3>1. CASE LoopStep
      BY <1>1, <3>1, CallStepFrame DEF LoopStep, engineVars
    <3>2. CASE UNCHANGED vars
      BY <3>2 DEF vars
    <3> QED BY <1>10, <3>1, <3>2
  <2> QED BY <1>2, <2>1 DEF Room
<1>11. CASE DecodeAppend
  <2>1. UNCHANGED tokens
    BY <1>1, <1>11, MayAppendFrame, Callers DEF DecodeAppend
  <2> QED BY <1>6, <1>11, <2>1 DEF DecodeAppend
<1>12. CASE StepBegin \/ GenerateEnd \/ Admit \/ Admitted \/ PrefillEnd \/ run
  BY <1>6, <1>12 DEF StepBegin, GenerateEnd, Admit, Admitted, PrefillEnd, run, schedVars, bmVars,
     reset, allocate, AllocateReturn, seqs
<1>13. CASE DecodeNext \/ PreemptOther \/ PreemptSelf \/ Preempted \/ DecodeEnd
  BY <1>6, <1>13 DEF DecodeNext, PreemptOther, PreemptSelf, Preempted, DecodeEnd, bmVars, deallocate,
     DeallocateReturn, seqs
<1>14. CASE PostFinished \/ StepEnd
  BY <1>6, <1>14 DEF PostFinished, StepEnd, DeallocateReturn, bmVars, schedVars
<1> QED BY <1>4, <1>7, <1>8, <1>9, <1>10, <1>11, <1>12, <1>13, <1>14 DEF EngineStep, Exited

LEMMA PendingNext == FitInd /\ [EngineStep]_vars => PendingInv'
<1> SUFFICES ASSUME FitInd, [EngineStep]_vars PROVE PendingInv'
  OBVIOUS
<1> DEFINE Ahead(s) == pc \in {"prefill", "allocate", "run"} /\ s \in ToSet(scheduled)
           Left(s) == pc \in {"post", "check", "finish"}
                        /\ \E k \in DOMAIN scheduled :
                             s = scheduled[k] /\ k > (IF pc = "post" THEN done ELSE done + 1)
<1>1. /\ EngineInd /\ EngineTypeOK /\ ControlInv /\ BMTypeOK /\ Sorted(Line) /\ SeqId \subseteq Nat
      /\ scheduled \in Seq(SeqId) /\ running \in Seq(SeqId) /\ waiting \in Seq(SeqId)
      /\ pending \in [SeqId -> BOOLEAN] /\ done \in Nat /\ NoSeq \notin SeqId
      /\ cur # NoSeq => pending[cur]
      /\ ToSet(running) \subseteq SeqId /\ ToSet(waiting) \subseteq SeqId
      /\ DOMAIN scheduled = 1 .. Len(scheduled) /\ Len(scheduled) \in Nat
  BY IndParts, Ids, Members DEF FitInd, EngineTypeOK, BMTypeOK, PendingInv
<1>2. \A s \in ToSet(running) : pending[s] \/ Ahead(s) \/ Left(s)
  BY DEF FitInd, PendingInv
<1>3. SUFFICES /\ cur' # NoSeq => pending'[cur']
               /\ \A s \in ToSet(running') : pending'[s] \/ Ahead(s)' \/ Left(s)'
  BY DEF PendingInv
<1>4. CASE LoopStep \/ UNCHANGED vars
  <2>1. UNCHANGED <<pc, cur, running, scheduled, done, pending>>
    <3>1. CASE LoopStep
      BY <1>1, <3>1, CallStepFrame DEF LoopStep, engineVars
    <3>2. CASE UNCHANGED vars
      BY <3>2 DEF vars
    <3> QED BY <1>4, <3>1, <3>2
  <2> QED BY <1>1, <1>2, <2>1
<1>5. CASE add_request \/ StepBegin
  <2>1. /\ UNCHANGED <<cur, running, pending>> /\ pc \in {"add", "step"}
    BY <1>5 DEF add_request, from_prompt, StepBegin, bmVars
  <2> QED BY <1>1, <1>2, <2>1
<1>6. CASE GenerateEnd
  <2>1. UNCHANGED <<cur, running, pending>> /\ running = << >>
    BY <1>6 DEF GenerateEnd, is_finished, reset, seqs, schedVars
  <2> QED BY <1>1, <2>1, Empty
<1>7. CASE Admit
  <2>1. UNCHANGED <<cur, running, pending, scheduled>> /\ pc = "prefill" /\ pc' = "allocate"
    BY <1>7 DEF Admit, allocate, seqs, schedVars
  <2> QED BY <1>1, <1>2, <2>1
<1>8. CASE Admitted
  <2> PICK h, one : h = call.seq /\ one = <<h>>
    OBVIOUS
  <2>1. /\ h \in SeqId /\ h \in ToSet(waiting) /\ one \in Seq(SeqId) /\ ToSet(one) = {h}
        /\ pending' = [pending EXCEPT ![h] = FALSE] /\ UNCHANGED cur
        /\ scheduled' = Append(scheduled, h) /\ running' = Append(running, h)
        /\ pc = "allocate" /\ pc' = "prefill" /\ cur = NoSeq
    BY <1>1, <1>8, AdmittedTokens, HeadTail, Single, Callers DEF Admitted, AllocateReturn
  <2>2. scheduled' = Cat(scheduled, one) /\ running' = Cat(running, one)
    BY <1>1, <2>1, AppendCat
  <2>3. ToSet(scheduled') = ToSet(scheduled) \cup {h}
    <3>1. scheduled \in Seq(SeqId) /\ one \in Seq(SeqId) /\ scheduled' = Cat(scheduled, one)
      BY <1>1, <2>1, <2>2
    <3>2. ToSet(scheduled') = ToSet(scheduled) \cup ToSet(one)
      BY ONLY <3>1, Concatenation
    <3> QED BY <2>1, <3>2
  <2>4. ToSet(running') = ToSet(running) \cup {h}
    <3>1. running \in Seq(SeqId) /\ one \in Seq(SeqId) /\ running' = Cat(running, one)
      BY <1>1, <2>1, <2>2
    <3>2. ToSet(running') = ToSet(running) \cup ToSet(one)
      BY ONLY <3>1, Concatenation
    <3> QED BY <2>1, <3>2
  <2>5. ASSUME NEW s \in ToSet(running') PROVE pending'[s] \/ s \in ToSet(scheduled')
    <3>1. CASE s = h
      BY <2>3, <3>1
    <3>2. CASE s # h
      <4>1. s \in ToSet(running) /\ s \in SeqId
        BY <1>1, <2>4, <3>2
      <4>2. pending[s] \/ s \in ToSet(scheduled)
        BY <1>2, <2>1, <4>1
      <4> QED BY <1>1, <2>1, <2>3, <3>2, <4>1, <4>2
    <3> QED BY <3>1, <3>2
  <2> QED BY <2>1, <2>5
<1>9. CASE PrefillEnd
  <2>1. /\ UNCHANGED <<cur, running, pending, scheduled>> /\ pc = "prefill"
        /\ pc' = IF scheduled # << >> THEN "run" ELSE "decode"
    BY <1>9 DEF PrefillEnd, bmVars
  <2>2. scheduled = << >> => ToSet(scheduled) = {}
    BY Empty
  <2> QED BY <1>1, <1>2, <2>1, <2>2
<1>10. CASE DecodeNext
  <2>1. /\ running # << >> /\ cur' = Head(running) /\ running' = Tail(running) /\ UNCHANGED pending
        /\ pc = "decode"
    BY <1>10 DEF DecodeNext, CanDecode, bmVars
  <2> PICK h, one, T : h = Head(running) /\ one = <<h>> /\ T = Tail(running)
    OBVIOUS
  <2>2. /\ h \in ToSet(running) /\ T \in Seq(SeqId) /\ one \in Seq(SeqId) /\ running = Cat(one, T)
    BY <1>1, <2>1, HeadTail, Single
  <2>3. ToSet(T) \subseteq ToSet(running)
    <3>1. ToSet(Cat(one, T)) = ToSet(one) \cup ToSet(T)
      BY ONLY <2>2, Concatenation
    <3> QED BY <2>2, <3>1
  <2>4. \A s \in ToSet(running) : pending[s]
    BY <1>2, <2>1
  <2> QED BY <2>1, <2>2, <2>3, <2>4
<1>11. CASE DecodeAppend
  <2>1. /\ cur \in SeqId /\ may_append(cur) /\ cur' = NoSeq /\ UNCHANGED running /\ pc = "append"
    BY <1>1, <1>11, Callers DEF DecodeAppend
  <2>2. pending' = [pending EXCEPT ![cur] = FALSE]
    BY <1>1, <2>1, MayAppendFrame
  <2>3. ASSUME NEW s \in ToSet(running) PROVE pending'[s]
    <3>1. cur < s /\ s \in Nat /\ cur \in Nat /\ s \in SeqId
      BY <1>1, <2>1, LineParts
    <3>2. s # cur
      BY ONLY <3>1
    <3>3. pending[s]
      BY <1>2, <2>1
    <3> QED BY <1>1, <2>2, <3>1, <3>2, <3>3
  <2> QED BY <2>1, <2>3
<1>12. CASE PreemptOther \/ PreemptSelf
  <2>1. /\ UNCHANGED <<cur, pending>> /\ pc = "append"
        /\ running' = running \/ (running # << >> /\ running' = Front(running))
    <3>1. CASE PreemptOther
      BY <3>1 DEF PreemptOther, deallocate, seqs
    <3>2. CASE PreemptSelf
      BY <3>2 DEF PreemptSelf, deallocate, seqs
    <3> QED BY <1>12, <3>1, <3>2
  <2>2. ToSet(running') \subseteq ToSet(running)
    <3>1. CASE running # << >> /\ running' = Front(running)
      <4> PICK F, one : F = Front(running) /\ one = <<Last(running)>>
        OBVIOUS
      <4>1. F \in Seq(SeqId) /\ one \in Seq(SeqId) /\ running = Cat(F, one)
        <5>1. Last(running) \in SeqId /\ F \in Seq(SeqId) /\ running = Cat(F, one)
          BY <1>1, <3>1, FrontLast
        <5> QED BY <5>1, Single
      <4>2. ToSet(Cat(F, one)) = ToSet(F) \cup ToSet(one)
        BY ONLY <4>1, Concatenation
      <4> QED BY <3>1, <4>1, <4>2
    <3> QED BY <2>1, <3>1
  <2> QED BY <1>1, <1>2, <2>1, <2>2
<1>13. CASE Preempted
  <2>1. /\ call.seq \in SeqId /\ pending' = [pending EXCEPT ![call.seq] = FALSE]
        /\ UNCHANGED running /\ pc = "preempt" /\ cur \in SeqId
        /\ cur' = IF call.seq = cur THEN NoSeq ELSE cur
    BY <1>1, <1>13, Callers DEF Preempted, DeallocateReturn
  <2>2. ASSUME NEW s \in ToSet(running) PROVE pending'[s]
    <3>1. s < call.seq \/ call.seq < s
      BY <1>1, <2>1, LineParts
    <3>2. s \in SeqId /\ s \in Nat /\ call.seq \in Nat
      BY <1>1, <2>1
    <3>3. s # call.seq
      BY ONLY <3>1, <3>2
    <3>4. pending[s]
      BY <1>2, <2>1
    <3> QED BY <1>1, <2>1, <3>2, <3>3, <3>4
  <2>3. cur' # NoSeq => pending'[cur']
    BY <1>1, <2>1
  <2> QED BY <2>1, <2>2, <2>3
<1>14. CASE DecodeEnd
  <2>1. /\ UNCHANGED <<cur, pending, scheduled>> /\ running' = Cat(scheduled, running)
        /\ pc = "decode" /\ pc' = "run"
    BY <1>14 DEF DecodeEnd, Cat, bmVars
  <2>2. ToSet(running') = ToSet(scheduled) \cup ToSet(running)
    BY <1>1, <2>1, Concatenation
  <2> QED BY <1>1, <1>2, <2>1, <2>2
<1>15. CASE run
  <2>1. /\ UNCHANGED <<cur, pending, scheduled, running>> /\ pc = "run" /\ pc' = "post" /\ done' = 0
    BY <1>15 DEF run, bmVars
  <2>2. \A s \in ToSet(scheduled) : \E k \in DOMAIN scheduled : s = scheduled[k] /\ k > 0
    BY <1>1 DEF ToSet
  <2> QED BY <1>1, <1>2, <2>1, <2>2
<1>16. CASE PostAppend
  <2> PICK v : v = scheduled[done + 1]
    OBVIOUS
  <2>1. /\ v \in SeqId /\ pending' = [pending EXCEPT ![v] = TRUE]
        /\ UNCHANGED <<cur, scheduled, running, done>> /\ pc = "post" /\ pc' = "check"
    <3>1. done < Len(scheduled)
      BY <1>16 DEF PostAppend
    <3>2. scheduled[done + 1] \in SeqId
      BY <1>1, <3>1
    <3> QED BY <1>16, <3>2 DEF PostAppend, append_token, schedVars
  <2>2. \A s \in SeqId : pending[s] \/ s = v => pending'[s]
    BY <1>1, <2>1
  <2>3. cur = NoSeq
    BY <1>1, <2>1, Callers
  <2>4. ASSUME NEW s \in ToSet(running), ~pending'[s] PROVE Left(s)'
    <3>1. s \in SeqId /\ ~pending[s] /\ s # v
      BY <1>1, <2>2, <2>4
    <3> PICK k \in DOMAIN scheduled : s = scheduled[k] /\ k > done
      BY <1>2, <2>1, <3>1
    <3>2. k # done + 1
      BY <3>1
    <3>3. k > done + 1
      BY <1>1, <3>2
    <3> QED BY <2>1, <3>3
  <2> QED BY <2>1, <2>3, <2>4
<1>17. CASE PostContinue
  <2>1. /\ UNCHANGED <<cur, pending, scheduled, running>> /\ pc = "check" /\ pc' = "post" /\ done' = done + 1
    BY <1>17 DEF PostContinue, bmVars
  <2> QED BY <1>1, <1>2, <2>1
<1>18. CASE PostStop
  <2>1. /\ UNCHANGED <<cur, pending, scheduled, running, done>> /\ pc = "check" /\ pc' = "finish"
    BY <1>18 DEF PostStop, deallocate, seqs
  <2> QED BY <1>1, <1>2, <2>1
<1>19. CASE PostFinished
  <2> PICK v : v = call.seq
    OBVIOUS
  <2>1. /\ v \in ToSet(running) /\ running' = RemoveFromDeque(running, v) /\ UNCHANGED <<scheduled, cur>>
        /\ pending' = [pending EXCEPT ![v] = FALSE] /\ done' = done + 1
        /\ pc = "finish" /\ pc' = "post"
    BY <1>1, <1>19, Finisher DEF PostFinished, DeallocateReturn
  <2>2. ToSet(running') = ToSet(running) \ {v} /\ cur = NoSeq
    BY <1>1, <2>1, LineParts, SortedRemoval, Callers
  <2>3. ASSUME NEW s \in ToSet(running') PROVE pending'[s] \/ Left(s)'
    <3>1. s \in ToSet(running) /\ s \in SeqId /\ s # v
      BY <1>1, <2>2
    <3>2. pending[s] \/ Left(s)
      BY <1>2, <2>1, <3>1
    <3>3. pending[s] => pending'[s]
      BY <1>1, <2>1, <3>1
    <3>4. Left(s) => Left(s)'
      BY <2>1
    <3> QED BY <3>2, <3>3, <3>4
  <2> QED BY <2>1, <2>2, <2>3
<1>20. CASE StepEnd
  <2>1. /\ UNCHANGED <<cur, pending, running>> /\ pc = "post" /\ done = Len(scheduled)
    BY <1>20 DEF StepEnd, bmVars, schedVars
  <2>2. \A k \in DOMAIN scheduled : ~(k > done)
    BY <1>1, <2>1
  <2> QED BY <1>1, <1>2, <2>1, <2>2
<1> QED BY <1>4, <1>5, <1>6, <1>7, <1>8, <1>9, <1>10, <1>11, <1>12, <1>13, <1>14, <1>15, <1>16,
           <1>17, <1>18, <1>19, <1>20 DEF EngineStep, Exited

(* Where nothing runs, nothing holds a block. *)
LEMMA NobodyHolds ==
  ASSUME EngineInd, pc = "prefill", running = << >>
  PROVE  \A s \in SeqId : table[s] = << >>
<1> SUFFICES ASSUME NEW s \in SeqId, table[s] # << >> PROVE FALSE
  OBVIOUS
<1>1. EngineTypeOK /\ ControlInv /\ QueueInv /\ call.op = "none" /\ ToSet(running) = {}
  BY IndParts, Empty DEF ControlInv
<1>2. status[s] = "RUNNING"
  BY <1>1 DEF EngineInd, OnlyRunningHold
<1>3. s \in ToSet(running) \cup ToSet(waiting)
  BY <1>1, <1>2, InLineStatus, LineMembers DEF Decoding
<1> QED BY <1>1, <1>2, <1>3 DEF QueueInv

(* With the whole pool free and an empty batch, the head of waiting is     *)
(* admitted.                                                               *)
LEMMA HeadIsAdmitted ==
  ASSUME FitInd, pc = "prefill", running = << >>, scheduled = << >>
  PROVE  CanAdmit
<1>1. /\ EngineInd /\ EngineTypeOK /\ ControlInv /\ BMTypeOK /\ BMInv /\ waiting \in Seq(SeqId)
      /\ waiting # << >> /\ batched = 0 /\ MaxNumBatchedTokens \in Nat /\ budget \in [SeqId -> Nat]
      /\ MaxNumSeqs \in Nat \ {0} /\ tokens \in [SeqId -> Seq(Token)]
  BY IndParts, EngineAssumption DEF FitInd, ProgressInv, BlockInv, EngineTypeOK, BMTypeOK
<1> PICK h : h = Head(waiting)
  OBVIOUS
<1>2. h \in SeqId /\ h \in ToSet(waiting)
  BY <1>1, HeadTail
<1>3. h \in 1 .. nextId - 1 /\ status[h] # "FINISHED"
  BY <1>1, <1>2, InLine, InLineStatus
<1>4. /\ Len(tokens[h]) <= budget[h] - 1
      /\ budget[h] <= MaxNumBatchedTokens + 1 /\ budget[h] <= NumBlocks * BlockSize + 1
  BY <1>3 DEF FitInd, BudgetInv
<1>5. Len(tokens[h]) \in Nat /\ budget[h] \in Nat /\ NumBlocks * BlockSize \in Nat /\ NumBlocks \in Nat
  BY <1>1, <1>2, TableTypes, NumBlocksAssumption, BlockSizeAssumption
<1>6. batched + Len(tokens[h]) <= MaxNumBatchedTokens
  BY <1>1, <1>4, <1>5
<1>7. can_allocate(h)
  <2>1. NumBlocks <= Len(free) /\ Len(free) \in Nat
    BY <1>1, NobodyHolds, WholePoolFree
  <2>2. /\ num_blocks(h) \in Nat /\ (num_blocks(h) - 1) * BlockSize < Len(tokens[h])
    BY <1>1, <1>2, NumBlocksBounds
  <2>3. num_blocks(h) <= NumBlocks
    <3>1. ASSUME NumBlocks < num_blocks(h) PROVE FALSE
      <4>1. NumBlocks <= num_blocks(h) - 1 /\ num_blocks(h) - 1 \in Int
        BY <1>5, <2>2, <3>1
      <4>2. NumBlocks * BlockSize <= (num_blocks(h) - 1) * BlockSize
        BY <1>5, <4>1, TimesMonotone
      <4>3. (num_blocks(h) - 1) * BlockSize \in Int
        BY <4>1, TimesNext
      <4> QED BY <1>4, <1>5, <2>2, <4>2, <4>3
    <3> QED BY <1>5, <2>2, <3>1
  <2> QED BY <1>5, <2>1, <2>2, <2>3 DEF can_allocate
<1>8. Len(scheduled) < MaxNumSeqs
  <2>1. Len(<< >>) = 0
    OBVIOUS
  <2> QED BY <1>1, <2>1
<1> QED BY <1>1, <1>6, <1>7, <1>8 DEF CanAdmit

(* A sequence that decodes alone never lacks a block: were the pool used up *)
(* by it, its tokens would exceed what a request may have.                  *)
LEMMA LastOneAppends ==
  ASSUME FitInd, pc = "append", running = << >>, scheduled = << >>
  PROVE  can_append(cur)
<1> SUFFICES ASSUME ~can_append(cur) PROVE FALSE
  OBVIOUS
<1>1. /\ EngineInd /\ EngineTypeOK /\ ControlInv /\ BMTypeOK /\ BMInv /\ BlockInv /\ QueueInv
      /\ ToSet(running) = {} /\ ToSet(scheduled) = {} /\ call.op = "none"
      /\ budget \in [SeqId -> Nat]
  BY IndParts, Empty DEF FitInd, BlockInv, ControlInv, EngineTypeOK
<1> PICK c \in SeqId : c = cur
  BY <1>1, Callers
<1>2. pending[c] /\ c \in ToSet(Line)
  BY <1>1, Ids, InLine DEF FitInd, PendingInv
<1>3. c \in 1 .. nextId - 1 /\ status[c] # "FINISHED"
  BY <1>1, <1>2, InLineStatus
<1>4. Len(tokens[c]) <= budget[c] - 1 /\ budget[c] <= NumBlocks * BlockSize + 1
  BY <1>3 DEF FitInd, BudgetInv
<1>5. table[c] # << >>
  BY <1>1, <1>2 DEF BlockInv, SizesInv, SizeInv, Calling
<1>6. ASSUME NEW s \in SeqId \ {c} PROVE table[s] = << >>
  <2>1. status[s] = "RUNNING" => s \in ToSet(waiting)
    BY <1>1, InLineStatus, LineMembers
  <2>2. status[s] # "RUNNING"
    BY <1>1, <2>1 DEF QueueInv
  <2> QED BY <1>1, <2>2 DEF EngineInd, OnlyRunningHold
<1>7. Len(free) \in Nat /\ Len(tokens[c]) \in Nat /\ BlockSize \in Nat \ {0}
  BY <1>1, TableTypes, BlockSizeAssumption DEF BMTypeOK
<1>8. Len(free) = 0 /\ Len(tokens[c]) % BlockSize = 1
  <2> DEFINE Starts == Len(tokens[c]) % BlockSize = 1
  <2>1. ~can_append(c)
    OBVIOUS
  <2>2. ~(Len(free) >= (IF Starts THEN 1 ELSE 0))
    BY <2>1, Zenon DEF can_append
  <2> HIDE DEF Starts
  <2>3. Starts /\ Len(free) = 0
    BY <1>7, <2>2
  <2> QED BY <2>3 DEF Starts
<1>9. BlockSize # 1
  <2>1. ASSUME NEW n \in Nat PROVE n % 1 = 0
    OBVIOUS
  <2>2. ASSUME BlockSize = 1 PROVE FALSE
    BY <1>7, <1>8, <2>1, <2>2
  <2> QED BY <2>2
<1>10. NumBlocks <= Len(table[c]) /\ Len(table[c]) \in Nat
  BY <1>1, <1>6, <1>8, WholePoolHeld
<1> PICK n \in Nat, m \in Nat :
      /\ n = Len(tokens[c]) /\ m = Len(table[c]) /\ n > 0
      /\ (m - 1) * BlockSize < n - 1 /\ n - 1 <= m * BlockSize
  BY <1>1, <1>2, <1>5, Appending
<1>11. n = m * BlockSize + 1
  BY <1>8, <1>9, Remainder
<1>12. NumBlocks * BlockSize <= m * BlockSize /\ m * BlockSize \in Nat /\ NumBlocks * BlockSize \in Nat
  BY <1>10, TimesMonotone, TimesNext, NumBlocksAssumption
<1>13. budget[c] \in Nat
  BY <1>1
<1> QED BY <1>4, <1>11, <1>12, <1>13

LEMMA ProgressNext == FitInd /\ [EngineStep]_vars => ProgressInv'
<1> SUFFICES ASSUME FitInd, [EngineStep]_vars PROVE ProgressInv'
  OBVIOUS
<1>1. /\ EngineInd /\ EngineTypeOK /\ ControlInv /\ BMTypeOK /\ ProgressInv /\ Sorted(Line)
      /\ scheduled \in Seq(SeqId) /\ running \in Seq(SeqId) /\ SeqId \subseteq Nat
  BY IndParts, Ids DEF FitInd
<1>2. CASE StepBegin
  BY <1>2 DEF StepBegin, is_finished, ProgressInv
<1>3. CASE Admitted
  <2>1. call.seq \in SeqId /\ scheduled' = Append(scheduled, call.seq) /\ pc' = "prefill"
    BY <1>1, <1>3, AdmittedTokens DEF Admitted
  <2>2. scheduled' # << >>
    BY <1>1, <2>1, AppendLen
  <2> QED BY <2>1, <2>2 DEF ProgressInv
<1>4. CASE PrefillEnd
  <2>1. /\ pc = "prefill" /\ ~CanAdmit /\ UNCHANGED <<running, scheduled>>
        /\ pc' = IF scheduled # << >> THEN "run" ELSE "decode"
    BY <1>4 DEF PrefillEnd
  <2>2. running = << >> => scheduled # << >>
    BY <2>1, HeadIsAdmitted
  <2> QED BY <2>1, <2>2 DEF ProgressInv
<1>5. CASE DecodeAppend
  <2>1. cur \in SeqId /\ scheduled' = Append(scheduled, cur) /\ pc' = "decode"
    BY <1>1, <1>5, Callers DEF DecodeAppend
  <2>2. scheduled' # << >>
    BY <1>1, <2>1, AppendLen
  <2> QED BY <2>1, <2>2 DEF ProgressInv
<1>6. CASE PreemptOther
  <2> PICK v : v = Last(running)
    OBVIOUS
  <2>1. v \in ToSet(running) /\ pc = "append" /\ pc' = "preempt" /\ call'.seq = v /\ UNCHANGED cur
    BY <1>1, <1>6, FrontLast DEF PreemptOther, deallocate, DeallocateFrame
  <2>2. cur < v /\ v \in SeqId /\ cur \in SeqId
    BY <1>1, <2>1, LineParts, Callers, Members
  <2>3. v # cur
    BY <1>1, <2>2
  <2> QED BY <2>1, <2>3 DEF ProgressInv
<1>7. CASE PreemptSelf
  <2>1. /\ pc = "append" /\ pc' = "preempt" /\ running = << >> /\ ~can_append(cur) /\ UNCHANGED scheduled
    BY <1>7 DEF PreemptSelf
  <2>2. scheduled # << >>
    BY <2>1, LastOneAppends
  <2> QED BY <2>1, <2>2 DEF ProgressInv
<1>8. CASE Preempted
  BY <1>1, <1>8 DEF Preempted, ProgressInv
<1>9. CASE LoopStep
  <2>1. call'.seq = call.seq /\ UNCHANGED engineVars
    BY <1>1, <1>9, CallStepFrame DEF LoopStep
  <2> QED BY <1>1, <2>1 DEF engineVars, ProgressInv
<1>10. CASE UNCHANGED vars
  BY <1>1, <1>10 DEF vars, ProgressInv
<1>11. CASE add_request \/ GenerateEnd \/ Admit \/ DecodeNext \/ DecodeEnd \/ run
  BY <1>11 DEF add_request, GenerateEnd, Admit, DecodeNext, DecodeEnd, run, ProgressInv
<1>12. CASE PostAppend \/ PostContinue \/ PostStop \/ PostFinished \/ StepEnd
  BY <1>12 DEF PostAppend, PostContinue, PostStop, PostFinished, StepEnd, ProgressInv
<1> QED BY <1>2, <1>3, <1>4, <1>5, <1>6, <1>7, <1>8, <1>9, <1>10, <1>11, <1>12 DEF EngineStep, Exited

LEMMA FitInitInd == EngineInit => FitInd
<1> SUFFICES ASSUME EngineInit PROVE FitInd
  OBVIOUS
<1>1. pc = "add" /\ running = << >> /\ cur = NoSeq /\ nextId = 1 /\ ToSet(<< >>) = {}
  BY Empty DEF EngineInit
<1>2. 1 .. nextId - 1 = {}
  BY <1>1
<1> QED BY <1>1, <1>2, EngineInitInd DEF FitInd, PendingInv, BudgetInv, ProgressInv

LEMMA FitNextInd == EveryRequestFits /\ FitInd /\ [EngineStep]_vars => FitInd'
BY EngineNextInd, PendingNext, BudgetNext, ProgressNext DEF FitInd

(* Where every request fits a step and the pool, the head of waiting fits  *)
(* an empty pool, and a sequence that decodes alone finds a block.         *)
FitAlways == IF pc = "raised" THEN Stopped ELSE FitInd
LEMMA FitInvariant ==
  ASSUME EveryRequestFits
  PROVE  EngineSpec => []FitAlways
<1>1. ASSUME FitAlways, [EngineNext]_vars PROVE FitAlways'
  <2>1. CASE pc = "raised"
    BY <1>1, <2>1, NothingRuns, VarsKept DEF FitAlways
  <2>2. CASE pc # "raised" /\ [EngineStep]_vars
    BY <1>1, <2>2, StepsReturn, FitNextInd DEF FitAlways
  <2>3. CASE pc # "raised" /\ (DecodeRaises \/ RunRaises)
    BY <1>1, <2>3, RaiseStops DEF FitInd, FitAlways
  <2> QED BY <1>1, <2>1, <2>2, <2>3 DEF EngineNext
<1>2. EngineInit => FitAlways
  BY FitInitInd DEF EngineInit, FitAlways
<1> QED BY <1>1, <1>2, PTL DEF EngineSpec

-----------------------------------------------------------------------------
(* The KV rows a sequence reads were computed from its own tokens, through *)
(* sharing, revival, preemption and recomputation, for every block size    *)
(* above 1.                                                                *)

(* The entries of the tables that the next call of the model runner fills: *)
(* in a prefill step those behind the cached prefix, the ones allocate is  *)
(* adding included, in a decode step the last one.                         *)
Filling == pc \in {"prefill", "allocate"} \/ (pc = "run" /\ prefill)
Batch == ToSet(scheduled) \cup (IF pc = "allocate" THEN {call.seq} ELSE {})
Written(s) == {i \in DOMAIN table[s] :
                 IF Filling THEN i > cached[s] \div BlockSize ELSE i = Len(table[s])}
ToWrite(b) == Scheduling /\ \E s \in Batch : \E i \in Written(s) : table[s][i] = b

(* A registered block has the tokens of a full block of some sequence, and *)
(* its KV rows were computed from that sequence, or are about to be.       *)
Known(b) ==
  \E x \in FullBlocks :
    /\ content[b] = block(x[1], x[2] - 1)
    /\ kv[b] = Upto(x[1], x[2]) \/ ToWrite(b)
ContentsKnown ==
  BlockSize # 1 /\ Unambiguous => \A b \in Blocks : content[b] # << >> => Known(b)

LengthInv == \A s \in SeqId : cached[s] <= Len(tokens[s]) /\ Len(tokens[s]) <= MaxLen
PhaseInv == pc \in {"decode", "append", "preempt"} => ~prefill
(* Until the first miss every block of the sequence was a hit. *)
PrefixInv == pc = "allocate" /\ ~call.miss => cached[call.seq] = call.i * BlockSize

KVInd ==
  EngineInd /\ LengthInv /\ PhaseInv /\ PrefixInv /\ ContentsKnown /\ KVFaithful

-----------------------------------------------------------------------------
(* Full blocks of tokens stay what they are. *)
LEMMA FullParts ==
  ASSUME BMTypeOK, NEW s \in SeqId, NEW i \in Nat \ {0}, i * BlockSize <= Len(tokens[s])
  PROVE  /\ block(s, i - 1) = SubSeq(tokens[s], (i - 1) * BlockSize + 1, i * BlockSize)
         /\ Upto(s, i) = SubSeq(tokens[s], 1, i * BlockSize)
<1>1. i - 1 + 1 = i
  OBVIOUS
<1>2. Upto(s, i) = SubSeq(tokens[s], 1, i * BlockSize)
  BY DEF Upto
<1>3. block(s, i - 1) = SubSeq(tokens[s], (i - 1) * BlockSize + 1, i * BlockSize)
  BY <1>1 DEF block
<1> QED BY <1>2, <1>3

LEMMA FullBlock ==
  ASSUME EngineInd, NEW x \in FullBlocks
  PROVE  /\ x[1] \in 1 .. nextId - 1 /\ x[1] \in SeqId /\ x[2] \in 1 .. MaxLen /\ x[2] \in Nat \ {0}
         /\ x[2] * BlockSize <= Len(tokens[x[1]]) /\ x = <<x[1], x[2]>>
<1>1. x \in (1 .. nextId - 1) \X (1 .. MaxLen) /\ x[2] * BlockSize <= Len(tokens[x[1]])
  BY DEF FullBlocks
<1>2. 1 .. nextId - 1 \subseteq SeqId
  BY DEF EngineInd, QueueInv
<1> QED BY <1>1, <1>2, MaxLenAssumption

LEMMA TokensGrow ==
  ASSUME EngineInd, [EngineStep]_vars
  PROVE  /\ nextId \in Nat /\ nextId' \in Nat /\ nextId <= nextId'
         /\ \A s \in 1 .. nextId - 1 :
              tokens'[s] = tokens[s] \/ \E t \in Token : tokens'[s] = Append(tokens[s], t)
<1>1. /\ EngineTypeOK /\ BMTypeOK /\ ControlInv /\ 1 .. nextId - 1 \subseteq SeqId
      /\ nextId \in Nat /\ tokens \in [SeqId -> Seq(Token)] /\ scheduled \in Seq(SeqId) /\ done \in Nat
  BY IndParts DEF QueueInv, EngineTypeOK, BMTypeOK
<1>2. CASE add_request
  <2>1. PICK p \in Prompts : tokens' = [tokens EXCEPT ![nextId] = p] /\ nextId' = nextId + 1
    BY <1>2 DEF add_request, from_prompt
  <2>2. nextId \notin 1 .. nextId - 1
    BY <1>1
  <2> QED BY <1>1, <2>1, <2>2
<1>3. CASE PostAppend
  <2> PICK v : v = scheduled[done + 1]
    OBVIOUS
  <2> PICK t \in Token : append_token(v, t)
    BY <1>3 DEF PostAppend
  <2>1. tokens' = [tokens EXCEPT ![v] = Append(@, t)] /\ UNCHANGED nextId
    BY <1>3 DEF PostAppend, append_token, schedVars
  <2>2. ASSUME NEW s \in 1 .. nextId - 1
        PROVE  tokens'[s] = tokens[s] \/ tokens'[s] = Append(tokens[s], t)
    BY <1>1, <2>1
  <2>3. nextId' \in Nat /\ nextId <= nextId' /\ t \in Token
    BY <1>1, <2>1
  <2> QED BY ONLY <1>1, <2>2, <2>3
<1>4. ASSUME UNCHANGED <<tokens, nextId>>
      PROVE  /\ nextId' \in Nat /\ nextId <= nextId'
             /\ \A s \in 1 .. nextId - 1 : tokens'[s] = tokens[s]
  BY <1>1, <1>4
<1>5. CASE LoopStep
  <2>1. UNCHANGED <<tokens, nextId>>
    BY <1>1, <1>5, CallStepFrame DEF LoopStep, engineVars
  <2> QED BY <1>1, <1>4, <2>1
<1>6. CASE DecodeAppend
  <2>1. UNCHANGED <<tokens, nextId>>
    BY <1>6 DEF DecodeAppend, may_append
  <2> QED BY <1>1, <1>4, <2>1
<1>7. CASE StepBegin \/ GenerateEnd \/ Admit \/ Admitted \/ PrefillEnd \/ DecodeNext \/ DecodeEnd \/ run
  <2>1. UNCHANGED <<tokens, nextId>>
    BY <1>7 DEF StepBegin, GenerateEnd, Admit, Admitted, PrefillEnd, DecodeNext, DecodeEnd, run, bmVars,
                seqs, schedVars, allocate, AllocateReturn, reset
  <2> QED BY <1>1, <1>4, <2>1
<1>8. CASE PreemptOther \/ PreemptSelf \/ Preempted \/ PostContinue \/ PostStop \/ PostFinished
             \/ StepEnd \/ UNCHANGED vars
  <2>1. UNCHANGED <<tokens, nextId>>
    BY <1>8 DEF PreemptOther, PreemptSelf, Preempted, PostContinue, PostStop, PostFinished, StepEnd, vars,
                bmVars, seqs, schedVars, deallocate, DeallocateReturn
  <2> QED BY <1>1, <1>4, <2>1
<1> QED BY <1>2, <1>3, <1>5, <1>6, <1>7, <1>8 DEF EngineStep, Exited

LEMMA FullKept ==
  ASSUME EngineInd, [EngineStep]_vars, NEW x \in FullBlocks
  PROVE  /\ x \in FullBlocks'
         /\ block(x[1], x[2] - 1)' = block(x[1], x[2] - 1)
         /\ Upto(x[1], x[2])' = Upto(x[1], x[2])
<1>1. BMTypeOK /\ BMTypeOK'
  BY BlockStep, IndParts
<1> PICK s \in SeqId, i \in Nat \ {0} :
       /\ s = x[1] /\ i = x[2] /\ i * BlockSize <= Len(tokens[s]) /\ i \in 1 .. MaxLen
       /\ x = <<s, i>> /\ s \in 1 .. nextId - 1
  BY FullBlock
<1>2. /\ nextId \in Nat /\ nextId' \in Nat /\ nextId <= nextId'
      /\ tokens'[s] = tokens[s] \/ \E t \in Token : tokens'[s] = Append(tokens[s], t)
  BY TokensGrow
<1>3. /\ tokens[s] \in Seq(Token) /\ Len(tokens[s]) \in Nat /\ i * BlockSize \in Nat
      /\ (i - 1) * BlockSize + 1 \in Nat /\ (i - 1) * BlockSize + 1 >= 1
  <2>1. i - 1 \in Nat /\ i \in Nat /\ i \in Int /\ i - 1 \in Int
    OBVIOUS
  <2>2. i * BlockSize \in Nat /\ (i - 1) * BlockSize \in Nat
    BY ONLY <2>1, TimesNext
  <2>3. tokens[s] \in Seq(Token)
    BY <1>1, TableTypes
  <2> QED BY ONLY <2>2, <2>3
<1>4. /\ i * BlockSize <= Len(tokens'[s])
      /\ SubSeq(tokens'[s], 1, i * BlockSize) = SubSeq(tokens[s], 1, i * BlockSize)
      /\ SubSeq(tokens'[s], (i - 1) * BlockSize + 1, i * BlockSize)
           = SubSeq(tokens[s], (i - 1) * BlockSize + 1, i * BlockSize)
  <2>1. CASE tokens'[s] = tokens[s]
    BY <2>1
  <2>2. ASSUME NEW t \in Token, tokens'[s] = Append(tokens[s], t)
        PROVE  /\ i * BlockSize <= Len(tokens'[s])
               /\ SubSeq(tokens'[s], 1, i * BlockSize) = SubSeq(tokens[s], 1, i * BlockSize)
               /\ SubSeq(tokens'[s], (i - 1) * BlockSize + 1, i * BlockSize)
                    = SubSeq(tokens[s], (i - 1) * BlockSize + 1, i * BlockSize)
    <3> PICK q, r : q = tokens[s] /\ r = tokens'[s]
      OBVIOUS
    <3> PICK lo \in Nat, hi \in Nat : lo = (i - 1) * BlockSize + 1 /\ hi = i * BlockSize
      BY <1>3
    <3>1. /\ q \in Seq(Token) /\ t \in Token /\ r = Append(q, t)
          /\ lo \in Nat /\ hi \in Nat /\ lo >= 1 /\ hi <= Len(q)
      BY <1>3, <2>2
    <3>2. Len(r) = Len(q) + 1 /\ Len(q) \in Nat
      BY ONLY <3>1
    <3>3. SubSeq(r, lo, hi) = SubSeq(q, lo, hi)
      BY ONLY <3>1, AppendedTokens
    <3>4. 1 \in Nat /\ 1 >= 1
      OBVIOUS
    <3>5. SubSeq(r, 1, hi) = SubSeq(q, 1, hi)
      BY ONLY <3>1, <3>4, AppendedTokens
    <3>6. hi <= Len(r)
      BY ONLY <3>1, <3>2
    <3> QED BY <3>3, <3>5, <3>6
  <2> QED BY <1>2, <2>1, <2>2
<1>5. /\ block(s, i - 1) = SubSeq(tokens[s], (i - 1) * BlockSize + 1, i * BlockSize)
      /\ Upto(s, i) = SubSeq(tokens[s], 1, i * BlockSize)
  BY <1>1, FullParts
<1>6. /\ block(s, i - 1)' = SubSeq(tokens'[s], (i - 1) * BlockSize + 1, i * BlockSize)
      /\ Upto(s, i)' = SubSeq(tokens'[s], 1, i * BlockSize)
  <2>1. i - 1 + 1 = i
    OBVIOUS
  <2> QED BY <1>4, <2>1 DEF block, Upto
<1>7. <<s, i>> \in FullBlocks'
  <2>1. s \in 1 .. nextId' - 1
    BY <1>2
  <2> QED BY <1>4, <2>1 DEF FullBlocks
<1> QED BY <1>4, <1>5, <1>6, <1>7

LEMMA UnambiguousBefore ==
  ASSUME EngineInd, [EngineStep]_vars, Unambiguous'
  PROVE  Unambiguous
<1> SUFFICES ASSUME NEW x \in FullBlocks, NEW y \in FullBlocks,
                    block(x[1], x[2] - 1) = block(y[1], y[2] - 1)
             PROVE  Upto(x[1], x[2]) = Upto(y[1], y[2])
  BY DEF Unambiguous
<1>1. /\ x \in FullBlocks' /\ y \in FullBlocks'
      /\ block(x[1], x[2] - 1)' = block(x[1], x[2] - 1) /\ Upto(x[1], x[2])' = Upto(x[1], x[2])
      /\ block(y[1], y[2] - 1)' = block(y[1], y[2] - 1) /\ Upto(y[1], y[2])' = Upto(y[1], y[2])
  BY FullKept
<1> QED BY <1>1 DEF Unambiguous

-----------------------------------------------------------------------------
(* The entries to be written. *)
LEMMA ToWriteKept ==
  ASSUME NEW b, ToWrite(b), Scheduling',
         Batch \subseteq Batch',
         \A s \in Batch : \A i \in Written(s) : i \in Written(s)' /\ table'[s][i] = table[s][i]
  PROVE  ToWrite(b)'
<1> PICK s \in Batch : \E i \in Written(s) : table[s][i] = b
  BY DEF ToWrite
<1> PICK i \in Written(s) : table[s][i] = b
  OBVIOUS
<1>1. s \in Batch' /\ i \in Written(s)' /\ table'[s][i] = b
  OBVIOUS
<1> QED BY <1>1 DEF ToWrite

(* Steps of schedule() outside its calls. *)
LEMMA ToWriteSame ==
  ASSUME Scheduling => Scheduling', Batch \subseteq Batch', Filling' <=> Filling,
         UNCHANGED table, Filling => UNCHANGED cached, NEW b, ToWrite(b)
  PROVE  ToWrite(b)'
<1>1. \A s \in Batch : Written(s) \subseteq Written(s)'
  <2>1. CASE Filling
    BY <2>1 DEF Written
  <2>2. CASE ~Filling
    BY <2>2 DEF Written
  <2> QED BY <2>1, <2>2
<1>2. Scheduling'
  BY DEF ToWrite
<1> QED BY <1>1, <1>2, ToWriteKept

(* What is known of a block stays known while nothing happens to it. *)
LEMMA KnownKept ==
  ASSUME EngineInd, [EngineStep]_vars, NEW b, Known(b),
         content'[b] = content[b], kv'[b] = kv[b], ToWrite(b) => ToWrite(b)'
  PROVE  Known(b)'
<1> PICK x \in FullBlocks :
       content[b] = block(x[1], x[2] - 1) /\ (kv[b] = Upto(x[1], x[2]) \/ ToWrite(b))
  BY DEF Known
<1>1. /\ x \in FullBlocks' /\ block(x[1], x[2] - 1)' = block(x[1], x[2] - 1)
      /\ Upto(x[1], x[2])' = Upto(x[1], x[2])
  BY FullKept
<1>2. content'[b] = block(x[1], x[2] - 1)'
  BY <1>1
<1>3. kv'[b] = Upto(x[1], x[2])' \/ ToWrite(b)'
  BY <1>1
<1> QED BY <1>1, <1>2, <1>3 DEF Known

(* A block registered in this step is one to be written. *)
LEMMA KnownNew ==
  ASSUME NEW b, NEW s, NEW i, <<s, i>> \in FullBlocks', content'[b] = block(s, i - 1)', ToWrite(b)'
  PROVE  Known(b)'
BY DEF Known

LEMMA FullEntry ==
  ASSUME EngineInd, LengthInv, NEW s \in 1 .. nextId - 1, NEW i \in Nat \ {0},
         i * BlockSize <= Len(tokens[s])
  PROVE  <<s, i>> \in FullBlocks /\ i \in 1 .. MaxLen
<1>1. s \in SeqId /\ BMTypeOK
  BY IndParts DEF QueueInv
<1>2. Len(tokens[s]) \in Nat /\ Len(tokens[s]) <= MaxLen /\ MaxLen \in Nat
  BY <1>1, TableTypes, MaxLenAssumption DEF LengthInv
<1>3. i <= i * BlockSize /\ i * BlockSize \in Nat
  BY BlockSizeAssumption
<1>4. i \in 1 .. MaxLen
  BY <1>2, <1>3
<1> QED BY <1>4 DEF FullBlocks

-----------------------------------------------------------------------------
(* The lengths of the sequences, the phase of the step, the cached prefix. *)
LEMMA LengthNext == EngineInd /\ LengthInv /\ [EngineStep]_vars => LengthInv'
<1> SUFFICES ASSUME EngineInd, LengthInv, [EngineStep]_vars, NEW s \in SeqId
             PROVE  cached'[s] <= Len(tokens'[s]) /\ Len(tokens'[s]) <= MaxLen
  BY DEF LengthInv
<1>1. /\ BMTypeOK /\ EngineTypeOK /\ ControlInv /\ MaxLen \in Nat
      /\ tokens \in [SeqId -> Seq(Token)] /\ cached \in [SeqId -> Nat]
      /\ Len(tokens[s]) \in Nat /\ cached[s] \in Nat
      /\ cached[s] <= Len(tokens[s]) /\ Len(tokens[s]) <= MaxLen
      /\ scheduled \in Seq(SeqId) /\ done \in Nat
  <2>1. /\ BMTypeOK /\ EngineTypeOK /\ ControlInv /\ MaxLen \in Nat
        /\ scheduled \in Seq(SeqId)
    BY IndParts, MaxLenAssumption
  <2>2. tokens \in [SeqId -> Seq(Token)] /\ cached \in [SeqId -> Nat] /\ done \in Nat
    BY <2>1 DEF BMTypeOK, EngineTypeOK
  <2>3. Len(tokens[s]) \in Nat /\ cached[s] \in Nat
    BY <2>2
  <2> QED BY <2>1, <2>2, <2>3 DEF LengthInv
<1>2. ASSUME tokens'[s] = tokens[s], cached'[s] = cached[s]
      PROVE  cached'[s] <= Len(tokens'[s]) /\ Len(tokens'[s]) <= MaxLen
  BY <1>1, <1>2
<1>3. ASSUME tokens'[s] = tokens[s], cached'[s] = 0
      PROVE  cached'[s] <= Len(tokens'[s]) /\ Len(tokens'[s]) <= MaxLen
  BY <1>1, <1>3
<1>4. CASE add_request
  <2>1. PICK p \in Prompts : /\ tokens[nextId] = << >> /\ tokens' = [tokens EXCEPT ![nextId] = p]
                             /\ UNCHANGED cached
    BY <1>4 DEF add_request, from_prompt
  <2>2. Len(p) \in Nat /\ Len(p) <= MaxLen /\ Len(<< >>) = 0
    BY PromptsAssumption, MaxLenAssumption
  <2>3. CASE s = nextId
    <3>1. tokens'[s] = p /\ cached'[s] = cached[s] /\ cached[s] <= 0
      BY <1>1, <2>1, <2>2, <2>3
    <3> QED BY <1>1, <2>2, <3>1
  <2>4. CASE s # nextId
    BY <1>1, <1>2, <2>1, <2>4
  <2> QED BY <2>3, <2>4
<1>5. CASE PostAppend
  <2> PICK v : v = scheduled[done + 1]
    OBVIOUS
  <2> PICK t \in Token : append_token(v, t)
    BY <1>5 DEF PostAppend
  <2>1. tokens' = [tokens EXCEPT ![v] = Append(@, t)] /\ UNCHANGED cached /\ Len(tokens[v]) < MaxLen
    BY DEF append_token
  <2>2. CASE s = v
    <3>1. tokens'[s] = Append(tokens[s], t) /\ cached'[s] = cached[s] /\ Len(tokens[s]) < MaxLen
      BY <1>1, <2>1, <2>2
    <3>2. Len(Append(tokens[s], t)) = Len(tokens[s]) + 1
      BY <1>1
    <3> QED BY <1>1, <3>1, <3>2
  <2>3. CASE s # v
    BY <1>1, <1>2, <2>1, <2>3
  <2> QED BY <2>2, <2>3
<1>6. CASE LoopStep
  <2>1. /\ UNCHANGED <<tokens, pc>> /\ call'.seq = call.seq
        /\ s # call.seq => cached'[s] = cached[s]
    BY <1>1, <1>6, CallStepFrame DEF LoopStep, engineVars
  <2>2. CASE s = call.seq /\ pc = "allocate"
    <3>1. cached'[call'.seq] <= Len(tokens'[call'.seq])
      BY <2>1, <2>2, CachedNext DEF CachedInv
    <3> QED BY <1>1, <2>1, <2>2, <3>1
  <2>3. CASE pc # "allocate"
    <3>1. call.op = "deallocate"
      BY <1>1, <1>6, <2>3 DEF LoopStep, ControlInv
    <3>2. UNCHANGED cached
      BY <1>6, <3>1 DEF LoopStep, CallStep, AllocateMiss, AllocateShare, AllocateRevive,
                        InAllocateLoop, DeallocateBlock
    <3> QED BY <1>2, <2>1, <3>2
  <2> QED BY <1>2, <2>1, <2>2, <2>3
<1>7. CASE Preempted \/ PostFinished
  <2>1. UNCHANGED tokens /\ cached' = [cached EXCEPT ![call.seq] = 0]
    BY <1>7 DEF Preempted, PostFinished, DeallocateReturn
  <2> QED BY <1>1, <1>2, <1>3, <2>1
<1>8. CASE DecodeAppend
  <2>1. UNCHANGED <<tokens, cached>>
    BY <1>8 DEF DecodeAppend, may_append
  <2> QED BY <1>2, <2>1
<1>9. CASE StepBegin \/ GenerateEnd \/ Admit \/ Admitted \/ PrefillEnd \/ DecodeNext \/ DecodeEnd \/ run
  <2>1. UNCHANGED <<tokens, cached>>
    BY <1>9 DEF StepBegin, GenerateEnd, Admit, Admitted, PrefillEnd, DecodeNext, DecodeEnd, run, bmVars,
                seqs, allocate, AllocateReturn, reset
  <2> QED BY <1>2, <2>1
<1>10. CASE PreemptOther \/ PreemptSelf \/ PostContinue \/ PostStop \/ StepEnd \/ UNCHANGED vars
  <2>1. UNCHANGED <<tokens, cached>>
    BY <1>10 DEF PreemptOther, PreemptSelf, PostContinue, PostStop, StepEnd, vars, bmVars, seqs, deallocate
  <2> QED BY <1>2, <2>1
<1> QED BY <1>4, <1>5, <1>6, <1>7, <1>8, <1>9, <1>10 DEF EngineStep, Exited

LEMMA PhaseNext == EngineInd /\ PhaseInv /\ [EngineStep]_vars => PhaseInv'
<1> SUFFICES ASSUME EngineInd, PhaseInv, [EngineStep]_vars, pc' \in {"decode", "append", "preempt"}
             PROVE  ~prefill'
  BY DEF PhaseInv
<1>1. CASE PrefillEnd
  BY <1>1 DEF PrefillEnd
<1>2. CASE DecodeNext \/ DecodeAppend \/ PreemptOther \/ PreemptSelf \/ Preempted
  <2>1. pc \in {"decode", "append", "preempt"} /\ UNCHANGED prefill
    BY <1>2 DEF DecodeNext, DecodeAppend, PreemptOther, PreemptSelf, Preempted
  <2> QED BY <2>1 DEF PhaseInv
<1>3. CASE LoopStep \/ UNCHANGED vars
  <2>1. UNCHANGED <<pc, prefill>>
    BY <1>3 DEF LoopStep, engineVars, vars
  <2> QED BY <2>1 DEF PhaseInv
<1>4. CASE add_request \/ StepBegin \/ GenerateEnd \/ Admit \/ Admitted \/ DecodeEnd \/ run
  BY <1>4 DEF add_request, StepBegin, GenerateEnd, Admit, Admitted, DecodeEnd, run
<1>5. CASE PostAppend \/ PostContinue \/ PostStop \/ PostFinished \/ StepEnd
  BY <1>5 DEF PostAppend, PostContinue, PostStop, PostFinished, StepEnd
<1> QED BY <1>1, <1>2, <1>3, <1>4, <1>5 DEF EngineStep, Exited

LEMMA PrefixNext == EngineInd /\ PrefixInv /\ [EngineStep]_vars => PrefixInv'
<1> SUFFICES ASSUME EngineInd, PrefixInv, [EngineStep]_vars, pc' = "allocate", ~call'.miss
             PROVE  cached'[call'.seq] = call'.i * BlockSize
  BY DEF PrefixInv
<1>1. /\ EngineTypeOK /\ ControlInv /\ BMTypeOK /\ QueueInv /\ waiting \in Seq(SeqId)
      /\ cached \in [SeqId -> Nat] /\ BlockSize \in Nat
  BY IndParts, BlockSizeAssumption DEF BMTypeOK
<1>2. CASE Admit
  <2> PICK h : h = Head(waiting)
    OBVIOUS
  <2>1. /\ h \in SeqId /\ h \in ToSet(waiting) /\ call.op = "none" /\ UNCHANGED cached
        /\ call'.seq = h /\ call'.i = 0
    BY <1>1, <1>2, HeadTail DEF Admit, CanAdmit, allocate, AllocateFrame, seqs
  <2>2. cached[h] = 0
    BY <1>1, <2>1 DEF QueueInv, EngineInd, OnlyRunningHold
  <2> QED BY <1>1, <2>1, <2>2
<1>3. CASE LoopStep
  <2> PICK s, i : s = call.seq /\ i = call.i
    OBVIOUS
  <2>1. pc = "allocate" /\ call.op = "allocate" /\ CallStep /\ s \in SeqId /\ i \in Nat
    BY <1>1, <1>3, CallFields DEF LoopStep, engineVars, ControlInv, BMTypeOK
  <2>2. AllocateShare \/ AllocateRevive
    <3>1. CASE AllocateMiss
      BY <3>1 DEF AllocateMiss, IterEnd, AllocateFrame
    <3> QED BY <2>1, <3>1 DEF CallStep, DeallocateBlock
  <2>3. /\ call'.seq = s /\ call'.i = i + 1 /\ IterHit
        /\ cached' = [cached EXCEPT ![s] = @ + BlockSize]
    BY <2>2 DEF AllocateShare, AllocateRevive, IterEnd, AllocateFrame
  <2>4. cached[s] = i * BlockSize
    BY <2>1, <2>3 DEF IterHit, PrefixInv
  <2>5. cached'[s] = cached[s] + BlockSize
    BY <1>1, <2>1, <2>3
  <2>6. (i + 1) * BlockSize = i * BlockSize + BlockSize
    BY <2>1, TimesNext
  <2> QED BY <2>3, <2>4, <2>5, <2>6
<1>4. CASE UNCHANGED vars
  <2>1. UNCHANGED <<pc, cached, call>>
    BY <1>4 DEF vars
  <2> QED BY <2>1 DEF PrefixInv
<1>5. CASE add_request \/ StepBegin \/ GenerateEnd \/ Admitted \/ PrefillEnd \/ run
  BY <1>5 DEF add_request, StepBegin, GenerateEnd, Admitted, PrefillEnd, run
<1>6. CASE DecodeNext \/ DecodeAppend \/ PreemptOther \/ PreemptSelf \/ Preempted \/ DecodeEnd
  BY <1>6 DEF DecodeNext, DecodeAppend, PreemptOther, PreemptSelf, Preempted, DecodeEnd
<1>7. CASE PostAppend \/ PostContinue \/ PostStop \/ PostFinished \/ StepEnd
  BY <1>7 DEF PostAppend, PostContinue, PostStop, PostFinished, StepEnd
<1> QED BY <1>2, <1>3, <1>4, <1>5, <1>6, <1>7 DEF EngineStep, Exited

-----------------------------------------------------------------------------
(* The loops of allocate and deallocate. *)
LEMMA Division ==
  ASSUME NEW c \in Nat, NEW i \in Nat
  PROVE  /\ c \div BlockSize \in Nat
         /\ c <= i * BlockSize => c \div BlockSize <= i
         /\ c < i * BlockSize => c \div BlockSize < i
         /\ c = i * BlockSize => c \div BlockSize = i
<1> PICK q : q = c \div BlockSize
  OBVIOUS
<1>1. q \in Nat /\ q * BlockSize <= c /\ c < q * BlockSize + BlockSize
  BY Quotient
<1>2. /\ i * BlockSize \in Nat /\ q * BlockSize \in Nat /\ BlockSize \in Nat /\ BlockSize >= 1
      /\ (q + 1) * BlockSize = q * BlockSize + BlockSize
      /\ (i + 1) * BlockSize = i * BlockSize + BlockSize
  BY <1>1, TimesNext, BlockSizeAssumption
<1>3. i < q => (i + 1) * BlockSize <= q * BlockSize
  BY <1>1, TimesMonotone
<1>4. q < i => (q + 1) * BlockSize <= i * BlockSize
  BY <1>1, TimesMonotone
<1>5. i = q => i * BlockSize = q * BlockSize
  OBVIOUS
<1> QED BY <1>1, <1>2, <1>3, <1>4, <1>5

LEMMA AppendToBatch ==
  ASSUME NEW q \in Seq(SeqId), NEW s \in SeqId
  PROVE  ToSet(Append(q, s)) = ToSet(q) \cup {s}
<1> PICK one : one = <<s>>
  OBVIOUS
<1>1. one \in Seq(SeqId) /\ ToSet(one) = {s} /\ Append(q, s) = Cat(q, one)
  BY Single, AppendCat
<1> QED BY <1>1, Concatenation

LEMMA AllocatingKnown ==
  ASSUME KVInd, [EngineStep]_vars, LoopStep, pc = "allocate", BlockSize # 1, Unambiguous,
         NEW b \in Blocks, content'[b] # << >>
  PROVE  Known(b)'
<1> PICK s, i : s = call.seq /\ i = call.i
  OBVIOUS
<1>1. /\ EngineInd /\ EngineTypeOK /\ ControlInv /\ BMTypeOK /\ BlockInv /\ LoopInv
      /\ content \in [Blocks -> Seq(Token)] /\ waiting \in Seq(SeqId)
      /\ table \in [SeqId -> Seq(Blocks)] /\ cached \in [SeqId -> Nat] /\ free \in Seq(Blocks)
      /\ tokens \in [SeqId -> Seq(Token)] /\ NoHash \notin DOMAIN h2b /\ hash \in [Blocks -> Seq(Token)]
      /\ LengthInv
  BY IndParts DEF KVInd, BlockInv, SizesInv, BMTypeOK
<1>2. /\ call.op = "allocate" /\ s \in SeqId /\ i \in Nat /\ s = Head(waiting) /\ waiting # << >>
      /\ Len(table[s]) = i /\ pc' = "allocate" /\ UNCHANGED <<kv, scheduled, prefill, nextId>>
  BY <1>1, CallFields DEF ControlInv, LoopInv, BMTypeOK, LoopStep, engineVars
<1>3. s \in 1 .. nextId - 1
  <2>1. s \in ToSet(Line)
    BY <1>1, <1>2, HeadTail, InLine
  <2> QED BY <1>1, <2>1, InLineStatus
<1>4. cached[s] \in Nat /\ cached[s] <= i * BlockSize
  BY <1>1, <1>2 DEF EngineInd, CachedInv
<1>5. PICK c \in Blocks :
        /\ InAllocateLoop /\ IterEnd(c)
        /\ \/ ~IterHit /\ UNCHANGED cached
           \/ IterHit /\ c = h2b[IterHash] /\ cached' = [cached EXCEPT ![s] = @ + BlockSize]
  <2>1. CASE AllocateMiss
    <3>1. Head(free) \in Blocks
      BY <1>1, <2>1 DEF AllocateMiss
    <3> QED BY <2>1, <3>1 DEF AllocateMiss
  <2>2. CASE AllocateShare \/ AllocateRevive
    <3>1. InAllocateLoop /\ IterHit /\ IterEnd(h2b[IterHash])
      BY <2>2 DEF AllocateShare, AllocateRevive
    <3>2. h2b[IterHash] \in Blocks
      BY <1>1, <3>1, IterTypes
    <3>3. cached' = [cached EXCEPT ![s] = @ + BlockSize]
      BY <2>2 DEF AllocateShare, AllocateRevive
    <3> QED BY <3>1, <3>2, <3>3
  <2> QED BY <1>2, <2>1, <2>2 DEF LoopStep, CallStep, DeallocateBlock
<1>6. /\ content' = [content EXCEPT ![c] = IF IterHash # NoHash THEN IterTokens ELSE << >>]
      /\ table' = [table EXCEPT ![s] = Append(@, c)] /\ call'.seq = s
      /\ i < num_blocks(s)
  BY <1>2, <1>5 DEF IterEnd, AllocateFrame, InAllocateLoop
<1>7. /\ DOMAIN table[s] = 1 .. i /\ DOMAIN table'[s] = 1 .. i + 1 /\ table'[s][i + 1] = c
      /\ \A j \in 1 .. i : table'[s][j] = table[s][j]
      /\ \A t \in SeqId \ {s} : table'[t] = table[t]
  <2>1. table \in [SeqId -> Seq(Blocks)] /\ s \in SeqId /\ c \in Blocks
    BY <1>1, <1>2
  <2>2. table' = [table EXCEPT ![s] = Append(@, c)]
    BY <1>6
  <2>3. /\ DOMAIN table[s] = 1 .. Len(table[s]) /\ DOMAIN table'[s] = 1 .. Len(table[s]) + 1
        /\ table'[s][Len(table[s]) + 1] = c
        /\ \A j \in 1 .. Len(table[s]) : table'[s][j] = table[s][j]
        /\ \A t \in SeqId \ {s} : table'[t] = table[t]
    BY ONLY <2>1, <2>2, TableAppend
  <2> QED BY <1>2, <2>3
<1>8. /\ Scheduling' /\ Filling /\ Filling'
      /\ Batch = ToSet(scheduled) \cup {s} /\ Batch' = ToSet(scheduled) \cup {s}
      /\ ToSet(scheduled) \subseteq SeqId
  <2>1. scheduled \in Seq(SeqId)
    BY <1>1, IndParts
  <2> QED BY <1>2, <1>6, <2>1, Members DEF Scheduling, Filling, Batch
<1>9. ASSUME \A j \in Written(s) : j \in Written(s)', ToWrite(b) PROVE ToWrite(b)'
  <2>1. ASSUME NEW t \in Batch, NEW j \in Written(t)
        PROVE  j \in Written(t)' /\ table'[t][j] = table[t][j]
    <3>1. CASE t = s
      <4>1. j \in 1 .. i
        BY <1>7, <2>1, <3>1 DEF Written
      <4> QED BY <1>7, <1>9, <2>1, <3>1, <4>1
    <3>2. CASE t # s
      <4>1. t \in SeqId /\ table'[t] = table[t] /\ cached'[t] = cached[t]
        BY <1>1, <1>2, <1>5, <1>7, <1>8, <3>2
      <4> QED BY <1>8, <2>1, <4>1 DEF Written
    <3> QED BY <3>1, <3>2
  <2> QED BY <1>8, <1>9, <2>1, ToWriteKept
<1>10. content[b] # << >> => Known(b)
  BY DEF KVInd, ContentsKnown
<1>11. CASE IterHit
  <2>1. IterHash # NoHash /\ content[c] = IterTokens /\ ~call.miss
        /\ cached' = [cached EXCEPT ![s] = @ + BlockSize]
    BY <1>1, <1>5, <1>11 DEF IterHit
  <2>2. content' = content
    BY <1>1, <1>6, <2>1
  <2>3. cached[s] \div BlockSize = i
    BY <1>2, <1>4, <2>1, Division DEF KVInd, PrefixInv
  <2>4. \A j \in Written(s) : FALSE
    BY <1>2, <1>7, <1>8, <2>3 DEF Written
  <2>5. ToWrite(b) => ToWrite(b)'
    BY <1>9, <2>4
  <2> QED BY <1>1, <1>2, <1>10, <2>2, <2>5, KnownKept
<1>12. CASE ~IterHit
  <2>1. UNCHANGED cached
    BY <1>5, <1>12
  <2>2. \A j \in Written(s) : j \in Written(s)'
    BY <1>2, <1>7, <1>8, <2>1 DEF Written
  <2>3. CASE b # c
    <3>1. content'[b] = content[b]
      BY <1>1, <1>6, <2>3
    <3> QED BY <1>1, <1>2, <1>9, <1>10, <2>2, <3>1, KnownKept
  <2>4. CASE b = c
    <3>1. IterHash # NoHash /\ content'[b] = IterTokens
      BY <1>1, <1>6, <2>4
    <3>2. Len(block(s, i)) = BlockSize /\ content'[b] = block(s, i)
      BY <1>2, <3>1 DEF IterHash, IterTokens
    <3>3. (i + 1) * BlockSize <= Len(tokens[s])
      BY <1>1, <1>2, <1>6, <3>2, BlockLen
    <3> PICK k \in Nat \ {0} : k = i + 1
      BY <1>2
    <3>4. <<s, k>> \in FullBlocks /\ k - 1 = i
      <4>1. k \in Nat \ {0} /\ k - 1 = i /\ k * BlockSize <= Len(tokens[s])
        BY <1>2, <3>3
      <4> QED BY <1>1, <1>3, <4>1, FullEntry
    <3>5. <<s, k>> \in FullBlocks' /\ block(s, k - 1)' = block(s, k - 1)
      <4>1. <<s, k>>[1] = s /\ <<s, k>>[2] = k
        OBVIOUS
      <4>2. /\ <<s, k>> \in FullBlocks'
            /\ block(<<s, k>>[1], <<s, k>>[2] - 1)' = block(<<s, k>>[1], <<s, k>>[2] - 1)
        BY <1>1, <3>4, FullKept
      <4> QED BY <4>1, <4>2
    <3>6. k \in Written(s)' /\ table'[s][k] = b
      <4>1. cached[s] \div BlockSize \in Nat /\ cached[s] \div BlockSize <= i
        BY <1>2, <1>4, Division
      <4>2. k > cached'[s] \div BlockSize
        BY <1>2, <2>1, <4>1
      <4> QED BY <1>2, <1>7, <1>8, <2>4, <4>2 DEF Written
    <3>7. ToWrite(b)'
      BY <1>8, <3>6 DEF ToWrite
    <3> QED BY <3>2, <3>4, <3>5, <3>7, KnownNew
  <2> QED BY <2>3, <2>4
<1> QED BY <1>11, <1>12

LEMMA ReleasingKnown ==
  ASSUME EngineInd, [EngineStep]_vars, LoopStep, pc # "allocate", NEW b \in Blocks, Known(b)
  PROVE  content' = content /\ Known(b)'
<1>1. /\ EngineTypeOK /\ ControlInv /\ BMTypeOK /\ scheduled \in Seq(SeqId) /\ pc \in {"preempt", "finish"}
      /\ UNCHANGED <<pc, scheduled, prefill, kv>>
  BY IndParts DEF LoopStep, engineVars
<1>2. DeallocateBlock
  BY <1>1 DEF LoopStep, CallStep, ControlInv, AllocateMiss, AllocateShare, AllocateRevive, InAllocateLoop
<1>3. UNCHANGED <<content, cached>> /\ \A s \in SeqId : s # call.seq => table'[s] = table[s]
  BY <1>1, <1>2, CallStepFrame DEF DeallocateBlock, CallStep
<1>4. ASSUME ToWrite(b) PROVE ToWrite(b)'
  <2>1. pc = "preempt" /\ Scheduling'
    BY <1>1, <1>4 DEF ToWrite, Scheduling
  <2>2. /\ Batch = ToSet(scheduled) /\ Batch' = ToSet(scheduled) /\ (Filling <=> FALSE) /\ (Filling' <=> FALSE)
        /\ call.seq \notin ToSet(scheduled) /\ ToSet(scheduled) \subseteq SeqId
    BY <1>1, <2>1, NotScheduled, Members DEF Batch, Filling
  <2>3. ASSUME NEW s \in Batch, NEW i \in Written(s)
        PROVE  i \in Written(s)' /\ table'[s][i] = table[s][i]
    <3>1. table'[s] = table[s]
      BY <1>3, <2>2
    <3> QED BY <2>2, <2>3, <3>1 DEF Written
  <2> QED BY <1>4, <2>1, <2>2, <2>3, ToWriteKept
<1>5. content'[b] = content[b] /\ kv'[b] = kv[b]
  BY <1>1, <1>3
<1>6. Known(b)'
  BY <1>4, <1>5, KnownKept
<1> QED BY <1>3, <1>6

(* A block that a decode step completes is written in that step. *)
LEMMA DecodingKnown ==
  ASSUME KVInd, [EngineStep]_vars, DecodeAppend, BlockSize # 1, Unambiguous,
         NEW b \in Blocks, content'[b] # << >>
  PROVE  Known(b)'
<1> PICK s : s = cur
  OBVIOUS
<1>1. /\ EngineInd /\ EngineTypeOK /\ ControlInv /\ BMTypeOK /\ BlockInv /\ Sorted(Line) /\ LengthInv
      /\ scheduled \in Seq(SeqId) /\ pc = "append" /\ pc' = "decode" /\ SeqId \subseteq Nat
      /\ scheduled' = Append(scheduled, s) /\ kv' = kv /\ may_append(s) /\ call.op = "none"
      /\ tokens \in [SeqId -> Seq(Token)] /\ content \in [Blocks -> Seq(Token)]
  BY IndParts, Ids DEF KVInd, DecodeAppend, may_append, BMTypeOK
<1>2. s \in SeqId /\ s \notin ToSet(scheduled)
  <2>1. s \in SeqId
    BY <1>1, Callers
  <2>2. \A t \in ToSet(scheduled) : t < s
    BY <1>1, LineParts
  <2>3. s < s => FALSE
    BY <1>1, <2>1
  <2> QED BY <2>1, <2>2, <2>3
<1>3. s \in 1 .. nextId - 1
  BY <1>1, InLine, InLineStatus
<1>4. /\ Batch = ToSet(scheduled) /\ Batch' = ToSet(scheduled) \cup {s} /\ Scheduling'
      /\ (Filling <=> FALSE) /\ (Filling' <=> FALSE) /\ ToSet(scheduled) \subseteq SeqId
  BY <1>1, <1>2, AppendToBatch, Members DEF Batch, Filling, Scheduling
<1>5. /\ table[s] # << >> /\ pending[s] /\ UNCHANGED <<tokens, cached>>
      /\ \A t \in SeqId \ {s} : table'[t] = table[t]
  BY <1>1, <1>2, MayAppendFrame DEF may_append
<1>6. ASSUME ToWrite(b) PROVE ToWrite(b)'
  <2>1. ASSUME NEW t \in Batch, NEW i \in Written(t)
        PROVE  i \in Written(t)' /\ table'[t][i] = table[t][i]
    <3>1. table'[t] = table[t]
      BY <1>2, <1>4, <1>5
    <3> QED BY <1>4, <2>1, <3>1 DEF Written
  <2> QED BY <1>4, <1>6, <2>1, ToWriteKept
<1>7. ASSUME content'[b] = content[b] PROVE Known(b)'
  <2>1. Known(b)
    BY <1>7 DEF KVInd, ContentsKnown
  <2> QED BY <1>1, <1>6, <1>7, <2>1, KnownKept
<1>8. CASE MayAppendNew(s)
  <2>1. content' = [content EXCEPT ![Head(free)] = << >>]
    BY <1>8 DEF MayAppendNew
  <2>2. content'[b] = content[b]
    BY <1>1, <2>1
  <2> QED BY <1>7, <2>2
<1>9. CASE MayAppendInside(s)
  BY <1>7, <1>9 DEF MayAppendInside, pool
<1>10. CASE MayAppendFull(s)
  <2> PICK n \in Nat, m \in Nat :
        /\ n = Len(tokens[s]) /\ m = Len(table[s]) /\ n > 0 /\ m > 0
        /\ (m - 1) * BlockSize < n - 1 /\ n - 1 <= m * BlockSize
    BY <1>1, <1>2, <1>5, Appending
  <2>1. n % BlockSize = 0 /\ UNCHANGED table
    BY <1>10 DEF MayAppendFull
  <2>2. n = m * BlockSize
    BY <2>1, Remainder
  <2>3. num_blocks(s) = m
    <3> PICK k : k = num_blocks(s)
      OBVIOUS
    <3>1. k \in Nat /\ (k - 1) * BlockSize < n /\ n <= k * BlockSize
      BY <1>1, <1>2, NumBlocksBounds
    <3>2. n \in Int /\ m \in Int /\ k \in Int
      BY <3>1
    <3>3. (m - 1) * BlockSize < n /\ n <= m * BlockSize
      <4>1. /\ (m - 1) * BlockSize = m * BlockSize - BlockSize /\ m * BlockSize \in Int
            /\ BlockSize \in Int /\ BlockSize >= 1
        BY <3>2, TimesNext, BlockSizeAssumption
      <4> QED BY ONLY <2>2, <4>1
    <3> QED BY <3>1, <3>2, <3>3, QuotientUnique
  <2>4. content' = [content EXCEPT ![Last(table[s])] = LastTokens(s)] /\ Last(table[s]) = table[s][m]
    BY <1>10 DEF MayAppendFull, RegisterLast, Last
  <2>5. CASE b # Last(table[s])
    BY <1>1, <1>7, <2>4, <2>5
  <2>6. CASE b = Last(table[s])
    <3>1. content'[b] = block(s, m - 1)
      BY <1>1, <2>3, <2>4, <2>6 DEF LastTokens
    <3>2. <<s, m>> \in FullBlocks
      <4>1. m \in Nat \ {0} /\ m * BlockSize <= Len(tokens[s])
        BY <2>2
      <4> QED BY <1>1, <1>3, <4>1, FullEntry
    <3>3. <<s, m>> \in FullBlocks' /\ block(s, m - 1)' = block(s, m - 1)
      <4>1. <<s, m>>[1] = s /\ <<s, m>>[2] = m
        OBVIOUS
      <4>2. /\ <<s, m>> \in FullBlocks'
            /\ block(<<s, m>>[1], <<s, m>>[2] - 1)' = block(<<s, m>>[1], <<s, m>>[2] - 1)
        BY <1>1, <3>2, FullKept
      <4> QED BY <4>1, <4>2
    <3>4. m \in Written(s)' /\ table'[s][m] = b
      <4>1. m \in DOMAIN table[s]
        BY <1>1, <1>2, TableTypes
      <4> QED BY <1>4, <2>1, <2>4, <2>6, <4>1 DEF Written
    <3>5. ToWrite(b)'
      BY <1>4, <3>4 DEF ToWrite
    <3> QED BY <3>1, <3>3, <3>5, KnownNew
  <2> QED BY <2>5, <2>6
<1> QED BY <1>1, <1>8, <1>9, <1>10 DEF may_append, MayAppendUnit

-----------------------------------------------------------------------------
(* The call of the model runner. *)
LEMMA RunFacts ==
  ASSUME KVInd, pc = "run", NEW s \in ToSet(scheduled)
  PROVE  /\ s \in SeqId /\ s \in 1 .. nextId - 1 /\ Covered(s) = Len(tokens[s]) /\ Fits(s, Len(table[s]))
         /\ Len(tokens[s]) \in Nat /\ cached[s] \in Nat
         /\ DOMAIN table[s] = 1 .. Len(table[s]) /\ Len(table[s]) \in Nat
         /\ \A i \in DOMAIN table[s] : table[s][i] \in Blocks /\ i \in 1 .. MaxLen
<1>1. /\ EngineInd /\ EngineTypeOK /\ ControlInv /\ BMTypeOK /\ BlockInv /\ LengthInv
      /\ scheduled \in Seq(SeqId) /\ call.op = "none" /\ cached \in [SeqId -> Nat]
  BY IndParts DEF KVInd, ControlInv, BMTypeOK
<1> PICK k \in DOMAIN scheduled : s = scheduled[k]
  BY DEF ToSet
<1>2. s \in SeqId /\ ~pending[s] /\ table[s] # << >> /\ s \in ToSet(running)
  BY <1>1, Members DEF EngineInd, ReadyInv, Scheduling, BatchInv
<1>3. s \in 1 .. nextId - 1
  BY <1>1, <1>2, InLine, InLineStatus
<1>4. /\ Len(tokens[s]) \in Nat /\ cached[s] \in Nat /\ Len(table[s]) \in Nat
      /\ DOMAIN table[s] = 1 .. Len(table[s]) /\ \A i \in DOMAIN table[s] : table[s][i] \in Blocks
  BY <1>1, <1>2, TableTypes
<1>5. Covered(s) = Len(tokens[s])
  BY <1>2, <1>4 DEF Covered
<1>6. Fits(s, Len(table[s]))
  BY <1>1, <1>2 DEF BlockInv, SizesInv, SizeInv, Holding
<1>7. Len(table[s]) <= MaxLen
  <2> PICK m \in Nat : m = Len(table[s])
    BY <1>4
  <2>1. (m - 1) * BlockSize < Len(tokens[s]) /\ Len(tokens[s]) <= MaxLen
    BY <1>1, <1>2, <1>5, <1>6 DEF Fits, LengthInv
  <2>2. m - 1 <= (m - 1) * BlockSize /\ (m - 1) * BlockSize \in Int
    <3> PICK j \in Nat : j = m - 1
      BY <1>2, <1>4
    <3>1. j <= j * BlockSize /\ j * BlockSize \in Int
      BY BlockSizeAssumption
    <3> QED BY <3>1
  <2>3. MaxLen \in Nat
    BY MaxLenAssumption
  <2> QED BY <1>4, <2>1, <2>2, <2>3
<1>8. MaxLen \in Nat
  BY MaxLenAssumption
<1> QED BY <1>2, <1>3, <1>4, <1>5, <1>6, <1>7, <1>8

(* What the model runner writes is what was to be written. *)
LEMMA WritesAre ==
  ASSUME KVInd, pc = "run"
  PROVE  /\ \A w \in Writes : /\ w[1] \in ToSet(scheduled) /\ w[2] \in Written(w[1])
                              /\ w = <<w[1], w[2]>>
         /\ \A s \in ToSet(scheduled) : \A i \in Written(s) : <<s, i>> \in Writes
<1>1. (Filling <=> prefill) /\ EngineTypeOK
  BY DEF Filling, KVInd, EngineInd
<1>2. ASSUME NEW w \in Writes
      PROVE  w[1] \in ToSet(scheduled) /\ w[2] \in Written(w[1]) /\ w = <<w[1], w[2]>>
  BY <1>1 DEF Writes, Written
<1>3. ASSUME NEW s \in ToSet(scheduled), NEW i \in Written(s) PROVE <<s, i>> \in Writes
  <2>1. i \in DOMAIN table[s] /\ i \in 1 .. MaxLen
    BY RunFacts DEF Written
  <2>2. <<s, i>>[1] = s /\ <<s, i>>[2] = i
    OBVIOUS
  <2> QED BY <1>1, <2>1, <2>2 DEF Writes, Written
<1> QED BY <1>2, <1>3

LEMMA RunKnown ==
  ASSUME KVInd, [EngineStep]_vars, run, BlockSize # 1, Unambiguous,
         NEW b \in Blocks, content'[b] # << >>
  PROVE  Known(b)'
<1>1. /\ EngineInd /\ BMTypeOK /\ BlockInv /\ LengthInv /\ pc = "run" /\ UNCHANGED <<content, tokens, nextId>>
      /\ Batch = ToSet(scheduled)
      /\ kv' = [c \in Blocks |->
              IF \E w \in Writes : table[w[1]][w[2]] = c
              THEN LET w == CHOOSE w \in Writes : table[w[1]][w[2]] = c IN Upto(w[1], w[2])
              ELSE kv[c]]
  BY IndParts DEF KVInd, run, bmVars, Batch
<1>2. Known(b)
  BY <1>1 DEF KVInd, ContentsKnown
<1>3. CASE \E w \in Writes : table[w[1]][w[2]] = b
  <2> PICK w \in Writes : table[w[1]][w[2]] = b /\ kv'[b] = Upto(w[1], w[2])
    BY <1>1, <1>3
  <2> PICK s, i : s = w[1] /\ i = w[2]
    OBVIOUS
  <2>1. s \in ToSet(scheduled) /\ i \in DOMAIN table[s]
    BY <1>1, WritesAre DEF Written
  <2>2. s \in SeqId /\ s \in 1 .. nextId - 1 /\ Covered(s) = Len(tokens[s]) /\ i \in Nat \ {0}
    BY <1>1, <2>1, RunFacts
  <2>3. EntryInv(s, i) /\ content[b] # << >>
    BY <1>1, <2>1, <2>2 DEF BlockInv, ContentInv
  <2>4. i * BlockSize <= Len(tokens[s]) /\ content[b] = SubSeq(tokens[s], (i - 1) * BlockSize + 1, i * BlockSize)
    BY <2>2, <2>3 DEF EntryInv, Full
  <2>5. <<s, i>> \in FullBlocks /\ content[b] = block(s, i - 1)
    BY <1>1, <2>2, <2>4, FullEntry, FullParts
  <2> PICK x : x = <<s, i>>
    OBVIOUS
  <2>6. /\ x \in FullBlocks /\ x[1] = s /\ x[2] = i /\ content[b] = block(x[1], x[2] - 1)
        /\ kv'[b] = Upto(x[1], x[2])
    BY <2>5
  <2>7. /\ x \in FullBlocks' /\ block(x[1], x[2] - 1)' = block(x[1], x[2] - 1)
        /\ Upto(x[1], x[2])' = Upto(x[1], x[2])
    BY <1>1, <2>6, FullKept
  <2>8. content'[b] = block(x[1], x[2] - 1)' /\ kv'[b] = Upto(x[1], x[2])'
    BY <1>1, <2>6, <2>7
  <2> QED BY <2>7, <2>8 DEF Known
<1>4. CASE ~ \E w \in Writes : table[w[1]][w[2]] = b
  <2>1. kv'[b] = kv[b]
    BY <1>1, <1>4
  <2>2. ASSUME ToWrite(b) PROVE FALSE
    <3> PICK s \in Batch : \E i \in Written(s) : table[s][i] = b
      BY <2>2 DEF ToWrite
    <3> PICK i \in Written(s) : table[s][i] = b
      OBVIOUS
    <3>1. <<s, i>> \in Writes /\ <<s, i>>[1] = s /\ <<s, i>>[2] = i
      BY <1>1, WritesAre
    <3> QED BY <1>4, <3>1
  <2> QED BY <1>1, <1>2, <2>1, <2>2, KnownKept
<1> QED BY <1>3, <1>4

-----------------------------------------------------------------------------
(* The invariant. *)
LEMMA ContentsNext == KVInd /\ [EngineStep]_vars => ContentsKnown'
<1> SUFFICES ASSUME KVInd, [EngineStep]_vars, BlockSize # 1, Unambiguous',
                    NEW b \in Blocks, content'[b] # << >>
             PROVE  Known(b)'
  BY DEF ContentsKnown, Blocks
<1>1. /\ EngineInd /\ EngineTypeOK /\ ControlInv /\ PhaseInv /\ waiting \in Seq(SeqId)
      /\ scheduled \in Seq(SeqId) /\ prefill \in BOOLEAN
  BY IndParts DEF KVInd, EngineTypeOK
<1>2. Unambiguous
  BY <1>1, UnambiguousBefore
<1>3. content[b] # << >> => Known(b)
  BY <1>2 DEF KVInd, ContentsKnown
<1>4. ASSUME UNCHANGED <<content, kv>>, ToWrite(b) => ToWrite(b)' PROVE Known(b)'
  BY <1>1, <1>3, <1>4, KnownKept
<1>5. CASE LoopStep
  <2>1. CASE pc = "allocate"
    BY <1>2, <1>5, <2>1, AllocatingKnown
  <2>2. CASE pc # "allocate"
    <3>1. content[b] # << >>
      <4>1. ASSUME content[b] = << >> PROVE FALSE
        <5>1. DeallocateBlock
          BY <1>1, <1>5, <2>2 DEF LoopStep, CallStep, ControlInv, AllocateMiss, AllocateShare,
                                  AllocateRevive, InAllocateLoop
        <5> QED BY <4>1, <5>1 DEF DeallocateBlock
      <4> QED BY <4>1
    <3> QED BY <1>1, <1>3, <1>5, <2>2, <3>1, ReleasingKnown
  <2> QED BY <2>1, <2>2
<1>6. CASE DecodeAppend
  BY <1>2, <1>6, DecodingKnown
<1>7. CASE run
  BY <1>2, <1>7, RunKnown
<1>8. CASE add_request \/ StepBegin \/ GenerateEnd \/ PostAppend \/ PostContinue \/ PostStop
             \/ PostFinished \/ StepEnd
  <2>1. UNCHANGED <<content, kv>> /\ ~Scheduling
    BY <1>8 DEF add_request, StepBegin, GenerateEnd, PostAppend, PostContinue, PostStop, PostFinished,
                StepEnd, from_prompt, append_token, deallocate, DeallocateReturn, reset, pool, bmVars,
                Scheduling
  <2> QED BY <1>4, <2>1 DEF ToWrite
<1>9. CASE Admitted
  <2>1. /\ call.seq \in SeqId /\ UNCHANGED <<content, kv, table, cached>> /\ pc = "allocate" /\ pc' = "prefill"
        /\ scheduled' = Append(scheduled, call.seq)
    BY <1>9, AdmittedTokens, <1>1 DEF Admitted, AllocateReturn, pool
  <2>2. Batch \subseteq Batch' /\ Scheduling' /\ Filling /\ Filling'
    BY <1>1, <2>1, AppendToBatch DEF Batch, Scheduling, Filling
  <2> QED BY <1>4, <2>1, <2>2, ToWriteSame
<1>10. CASE PrefillEnd
  <2>1. /\ UNCHANGED <<content, kv, table, cached, scheduled>> /\ pc = "prefill"
        /\ prefill' = (scheduled # << >>) /\ pc' = IF scheduled # << >> THEN "run" ELSE "decode"
    BY <1>10 DEF PrefillEnd, bmVars
  <2>2. CASE scheduled # << >>
    <3>1. Batch \subseteq Batch' /\ Scheduling' /\ Filling /\ Filling'
      BY <2>1, <2>2 DEF Batch, Scheduling, Filling
    <3> QED BY <1>4, <2>1, <3>1, ToWriteSame
  <2>3. CASE scheduled = << >>
    <3>1. Batch = {}
      BY <2>1, <2>3, Empty DEF Batch
    <3> QED BY <1>4, <2>1, <3>1 DEF ToWrite
  <2> QED BY <2>2, <2>3
<1>11. CASE Admit
  <2>1. UNCHANGED <<content, kv, table, cached, scheduled>> /\ pc = "prefill" /\ pc' = "allocate"
    BY <1>11 DEF Admit, allocate, pool, seqs, schedVars
  <2>2. Batch \subseteq Batch' /\ Scheduling' /\ Filling /\ Filling'
    BY <2>1 DEF Batch, Scheduling, Filling
  <2> QED BY <1>4, <2>1, <2>2, ToWriteSame
<1>12. CASE DecodeNext \/ PreemptOther \/ PreemptSelf \/ Preempted \/ DecodeEnd
  <2>1. /\ UNCHANGED <<content, kv, table, scheduled, prefill>>
        /\ pc \in {"decode", "append", "preempt"} /\ pc' \in {"decode", "append", "preempt", "run"}
    BY <1>12 DEF DecodeNext, PreemptOther, PreemptSelf, Preempted, DecodeEnd, bmVars, pool, seqs,
                 deallocate, DeallocateReturn
  <2>2. Batch \subseteq Batch' /\ Scheduling' /\ ~Filling /\ ~Filling'
    BY <1>1, <2>1 DEF Batch, Scheduling, Filling, PhaseInv
  <2> QED BY <1>4, <2>1, <2>2, ToWriteSame
<1>13. CASE UNCHANGED vars
  <2>1. UNCHANGED <<content, kv, table, cached, scheduled, pc, prefill, call>>
    BY <1>13 DEF vars
  <2>2. Batch \subseteq Batch' /\ (Scheduling => Scheduling') /\ (Filling' <=> Filling)
    BY <2>1 DEF Batch, Scheduling, Filling
  <2> QED BY <1>4, <2>1, <2>2, ToWriteSame
<1> QED BY <1>5, <1>6, <1>7, <1>8, <1>9, <1>10, <1>11, <1>12, <1>13 DEF EngineStep, Exited

(* After the call every row a sequence reads is its own. *)
LEMMA RunIsFaithful ==
  ASSUME KVInd, [EngineStep]_vars, run
  PROVE  KVFaithful'
<1> SUFFICES ASSUME BlockSize # 1, Unambiguous', NEW s \in ToSet(scheduled'), NEW i \in DOMAIN table'[s]
             PROVE  kv'[table'[s][i]] = Upto(s, i)'
  BY DEF KVFaithful
<1>1. /\ EngineInd /\ BMTypeOK /\ BMInv /\ BlockInv /\ LengthInv /\ pc = "run" /\ pc' = "post"
      /\ UNCHANGED <<content, tokens, table, nextId, scheduled>>
      /\ kv' = [c \in Blocks |->
              IF \E w \in Writes : table[w[1]][w[2]] = c
              THEN LET w == CHOOSE w \in Writes : table[w[1]][w[2]] = c IN Upto(w[1], w[2])
              ELSE kv[c]]
  BY IndParts DEF KVInd, run, bmVars, BlockInv
<1>2. s \in ToSet(scheduled) /\ i \in DOMAIN table[s] /\ table'[s][i] = table[s][i]
  BY <1>1
<1> PICK b : b = table[s][i]
  OBVIOUS
<1>3. /\ s \in SeqId /\ s \in 1 .. nextId - 1 /\ Covered(s) = Len(tokens[s]) /\ Fits(s, Len(table[s]))
      /\ Len(tokens[s]) \in Nat /\ cached[s] \in Nat /\ Len(table[s]) \in Nat
      /\ b \in Blocks /\ i \in 1 .. Len(table[s]) /\ i \in Nat \ {0}
  BY <1>1, <1>2, RunFacts
<1>4. i \in Int /\ i \in Nat /\ i - 1 \in Int /\ i - 1 \in Nat
  BY <1>3
<1>5. /\ i * BlockSize = (i - 1) * BlockSize + BlockSize /\ BlockSize \in Nat /\ BlockSize >= 1
      /\ i * BlockSize \in Nat /\ (i - 1) * BlockSize \in Nat
  BY ONLY <1>4, TimesNext, BlockSizeAssumption
<1>6. EntryInv(s, i) /\ (Full(s, i) <=> i * BlockSize <= Len(tokens[s]))
  BY <1>1, <1>2, <1>3 DEF BlockInv, ContentInv, Full
<1>7. CASE Full(s, i)
  <2> PICK x : x = <<s, i>>
    OBVIOUS
  <2>1. x \in FullBlocks /\ block(s, i - 1) = content[b] /\ x[1] = s /\ x[2] = i
    BY <1>1, <1>3, <1>6, <1>7, FullEntry, FullParts DEF EntryInv
  <2>2. /\ x \in FullBlocks' /\ block(x[1], x[2] - 1)' = block(x[1], x[2] - 1)
    BY <1>1, <2>1, FullKept
  <2>3. content'[b] # << >>
    <3>1. SubSeq(tokens[s], (i - 1) * BlockSize + 1, i * BlockSize) # << >>
      <4> PICK lo \in Nat, hi \in Nat : lo = (i - 1) * BlockSize + 1 /\ hi = i * BlockSize
        BY <1>5
      <4> PICK q, r : q = tokens[s] /\ r = SubSeq(q, lo, hi)
        OBVIOUS
      <4>1. q \in Seq(Token) /\ hi <= Len(q)
        BY <1>1, <1>3, <1>6, <1>7, TableTypes
      <4> PICK d \in Nat : d = (i - 1) * BlockSize
        BY <1>5
      <4>2. lo = d + 1 /\ hi = d + BlockSize /\ d \in Nat /\ BlockSize \in Nat /\ BlockSize >= 1
        BY <1>5
      <4>3. lo \in Nat /\ hi \in Nat /\ lo >= 1 /\ hi >= lo
        BY ONLY <4>2
      <4>4. Len(r) = hi - lo + 1
        BY ONLY <4>1, <4>3, r = SubSeq(q, lo, hi)
      <4>5. r # << >>
        BY ONLY <4>3, <4>4
      <4> QED BY <4>5
    <3> QED BY <1>1, <1>6, <1>7, <3>1 DEF EntryInv
  <2>4. Known(b)'
    BY <1>1, <1>3, <2>3, RunKnown, UnambiguousBefore
  <2>5. ~ToWrite(b)'
    BY <1>1 DEF ToWrite, Scheduling
  <2> PICK y \in FullBlocks' : content'[b] = block(y[1], y[2] - 1)' /\ kv'[b] = Upto(y[1], y[2])'
    BY <2>4, <2>5 DEF Known
  <2>6. block(y[1], y[2] - 1)' = block(x[1], x[2] - 1)'
    BY <1>1, <2>1, <2>2
  <2>7. Upto(y[1], y[2])' = Upto(x[1], x[2])'
    BY <2>2, <2>6 DEF Unambiguous
  <2>8. Upto(x[1], x[2])' = Upto(s, i)'
    BY <2>1
  <2> QED BY <1>2, <2>7, <2>8
<1>8. CASE ~Full(s, i)
  <2>1. ref[b] = 1 /\ i * BlockSize > Len(tokens[s])
    BY <1>3, <1>6, <1>8, <1>5 DEF EntryInv
  <2>2. i \in Written(s)
    <3>1. i = Len(table[s])
      <4>1. ASSUME i < Len(table[s]) PROVE FALSE
        <5>1. i * BlockSize <= Covered(s)
          BY <1>3, <4>1, BelowLast DEF Fits
        <5> QED BY <1>3, <1>5, <2>1, <5>1
      <4> QED BY <1>3, <4>1
    <3>2. i > cached[s] \div BlockSize
      <4>1. i * BlockSize \in Nat /\ i \in Nat /\ cached[s] <= Len(tokens[s])
        BY <1>1, <1>3, <1>5 DEF LengthInv
      <4>2. cached[s] < i * BlockSize
        BY <1>3, <2>1, <4>1
      <4>3. cached[s] \div BlockSize \in Nat /\ cached[s] \div BlockSize < i
        BY <1>3, <4>1, <4>2, Division
      <4> QED BY <1>3, <4>3
    <3> QED BY <1>2, <3>1, <3>2 DEF Written
  <2>3. <<s, i>> \in Writes /\ <<s, i>>[1] = s /\ <<s, i>>[2] = i
    BY <1>1, <1>2, <2>2, WritesAre
  <2>4. ASSUME NEW w \in Writes, table[w[1]][w[2]] = b PROVE w[1] = s /\ w[2] = i
    <3>1. w[1] \in ToSet(scheduled) /\ w[2] \in DOMAIN table[w[1]]
      BY <1>1, WritesAre DEF Written
    <3>2. w[1] \in SeqId
      BY <1>1, <3>1, RunFacts
    <3> PICK t, j : t = w[1] /\ j = w[2]
      OBVIOUS
    <3>3. /\ BMInv /\ b \in Blocks /\ ref[b] = 1 /\ s \in SeqId /\ i \in DOMAIN table[s] /\ table[s][i] = b
          /\ t \in SeqId /\ j \in DOMAIN table[t] /\ table[t][j] = b
      BY <1>1, <1>2, <1>3, <2>1, <2>4, <3>1, <3>2
    <3>4. s = t /\ i = j
      BY ONLY <3>3, OnlyHolder
    <3> QED BY <3>4
  <2>5. kv'[b] = Upto(s, i)
    <3>1. \E w \in Writes : table[w[1]][w[2]] = b
      BY <2>3
    <3> PICK w \in Writes : table[w[1]][w[2]] = b /\ kv'[b] = Upto(w[1], w[2])
      BY <1>1, <1>3, <3>1
    <3> QED BY <2>4
  <2>6. Upto(s, i)' = Upto(s, i)
    BY <1>1 DEF Upto
  <2> QED BY <1>2, <2>5, <2>6
<1> QED BY <1>7, <1>8

LEMMA FaithfulNext == KVInd /\ [EngineStep]_vars => KVFaithful'
<1> SUFFICES ASSUME KVInd, [EngineStep]_vars, pc' = "post", done' = 0 PROVE KVFaithful'
  BY DEF KVFaithful
<1>1. CASE run
  BY <1>1, RunIsFaithful
<1>2. CASE UNCHANGED vars
  <2>1. UNCHANGED <<pc, done, scheduled, table, kv, tokens, nextId>>
    BY <1>2 DEF vars
  <2>2. KVFaithful' <=> KVFaithful
    <3>1. FullBlocks' = FullBlocks
      BY <2>1 DEF FullBlocks
    <3>2. ASSUME NEW s, NEW i PROVE block(s, i)' = block(s, i) /\ Upto(s, i)' = Upto(s, i)
      BY <2>1 DEF block, Upto
    <3>3. Unambiguous' <=> Unambiguous
      BY <3>1, <3>2 DEF Unambiguous
    <3> QED BY <2>1, <3>2, <3>3 DEF KVFaithful
  <2> QED BY <2>2 DEF KVInd
<1>3. CASE PostContinue \/ PostFinished
  <2>1. done' = done + 1 /\ done \in Nat
    BY <1>3, IndParts DEF KVInd, EngineTypeOK, PostContinue, PostFinished
  <2> QED BY <2>1
<1>4. CASE LoopStep
  BY <1>4 DEF LoopStep, engineVars
<1>5. CASE add_request \/ StepBegin \/ GenerateEnd \/ Admit \/ Admitted \/ PrefillEnd
  BY <1>5 DEF add_request, StepBegin, GenerateEnd, Admit, Admitted, PrefillEnd
<1>6. CASE DecodeNext \/ DecodeAppend \/ PreemptOther \/ PreemptSelf \/ Preempted \/ DecodeEnd
  BY <1>6 DEF DecodeNext, DecodeAppend, PreemptOther, PreemptSelf, Preempted, DecodeEnd
<1>7. CASE PostAppend \/ PostStop \/ StepEnd
  BY <1>7 DEF PostAppend, PostStop, StepEnd
<1> QED BY <1>1, <1>2, <1>3, <1>4, <1>5, <1>6, <1>7 DEF EngineStep, Exited

LEMMA KVInitInd == EngineInit => KVInd
<1> SUFFICES ASSUME EngineInit PROVE KVInd
  OBVIOUS
<1>1. /\ EngineInd /\ pc = "add" /\ content = [b \in Blocks |-> << >>]
      /\ tokens = [s \in SeqId |-> << >>] /\ cached = [s \in SeqId |-> 0]
  BY EngineInitInd DEF EngineInit, BMInit
<1>2. LengthInv
  BY <1>1, MaxLenAssumption DEF LengthInv
<1> QED BY <1>1, <1>2 DEF KVInd, PhaseInv, PrefixInv, ContentsKnown, KVFaithful

LEMMA KVNextInd == KVInd /\ [EngineStep]_vars => KVInd'
BY EngineNextInd, LengthNext, PhaseNext, PrefixNext, ContentsNext, FaithfulNext DEF KVInd

(* The cached tokens of a sequence fill whole blocks. *)
WholeBlocks(n) == \E k \in Nat : n = k * BlockSize
CachedBlocks == \A s \in SeqId : WholeBlocks(cached[s])

LEMMA WholeBlockMore == 0 \in Nat /\ WholeBlocks(0) /\
  \A n \in Nat : WholeBlocks(n) => WholeBlocks(n + BlockSize) /\ n % BlockSize = 0
<1>1. WholeBlocks(0)
  <2>1. 0 = 0 * BlockSize
    BY BlockSizeAssumption
  <2> QED BY <2>1 DEF WholeBlocks
<1>2. ASSUME NEW n \in Nat, NEW k \in Nat, n = k * BlockSize
      PROVE  WholeBlocks(n + BlockSize) /\ n % BlockSize = 0
  <2>1. n + BlockSize = (k + 1) * BlockSize /\ k + 1 \in Nat
    BY <1>2, TimesNext
  <2> PICK q, r : q = n \div BlockSize /\ r = n % BlockSize
    OBVIOUS
  <2>2. /\ q \in Nat /\ r \in Nat /\ r < BlockSize /\ n = q * BlockSize + r
        /\ BlockSize \in Nat
    BY BlockSizeAssumption
  <2>3. /\ q * BlockSize \in Int /\ k * BlockSize \in Int
        /\ (q + 1) * BlockSize = q * BlockSize + BlockSize
        /\ (k + 1) * BlockSize = k * BlockSize + BlockSize
    BY <2>2, TimesNext
  <2>4. ~(q < k)
    <3>1. q < k => (q + 1) * BlockSize <= k * BlockSize
      BY <2>2, TimesMonotone
    <3> QED BY ONLY <1>2, <2>2, <2>3, <3>1
  <2>5. ~(k < q)
    <3>1. k < q => (k + 1) * BlockSize <= q * BlockSize
      BY <2>2, TimesMonotone
    <3> QED BY ONLY <1>2, <2>2, <2>3, <3>1, BlockSizeAssumption
  <2>6. q = k
    BY <2>2, <2>4, <2>5
  <2>7. r = 0
    BY ONLY <1>2, <2>2, <2>3, <2>6
  <2> QED BY <2>1, <2>7 DEF WholeBlocks
<1> QED BY <1>1, <1>2 DEF WholeBlocks

(* allocate adds one block at a time and deallocate sets the count to 0. *)
LEMMA CachedBlocksNext == BMTypeOK /\ CachedBlocks /\ [BMNext]_bmVars => CachedBlocks'
<1> SUFFICES ASSUME BMTypeOK, CachedBlocks, [BMNext]_bmVars PROVE CachedBlocks'
  OBVIOUS
<1>1. ASSUME UNCHANGED cached PROVE CachedBlocks'
  BY <1>1 DEF CachedBlocks
<1>2. ASSUME NEW c, NEW n \in Nat, cached' = [cached EXCEPT ![c] = n],
             c \in SeqId => WholeBlocks(n)
      PROVE  CachedBlocks'
  BY <1>2 DEF CachedBlocks, BMTypeOK
<1>3. CASE AllocateShare \/ AllocateRevive
  <2>1. cached' = [cached EXCEPT ![call.seq] = cached[call.seq] + BlockSize]
    BY <1>3 DEF AllocateShare, AllocateRevive
  <2>2. call.seq \in SeqId
    BY <1>3, CallFields DEF AllocateShare, AllocateRevive, InAllocateLoop, BMTypeOK
  <2>3. cached[call.seq] \in Nat /\ WholeBlocks(cached[call.seq])
    BY <2>2 DEF BMTypeOK, CachedBlocks
  <2>4. cached[call.seq] + BlockSize \in Nat /\ WholeBlocks(cached[call.seq] + BlockSize)
    BY <2>3, WholeBlockMore, BlockSizeAssumption
  <2> QED BY <1>2, <2>1, <2>4
<1>4. CASE DeallocateReturn
  BY <1>2, <1>4, WholeBlockMore DEF DeallocateReturn
<1>5. CASE AllocateMiss \/ DeallocateBlock \/ AllocateReturn \/ reset \/ UNCHANGED bmVars
  BY <1>1, <1>5 DEF AllocateMiss, DeallocateBlock, AllocateReturn, reset, bmVars, seqs
<1>6. ASSUME NEW s \in SeqId,
             \/ \E p \in Prompts : from_prompt(s, p)
             \/ \E t \in Token : append_token(s, t)
             \/ allocate(s) \/ deallocate(s) \/ may_append(s) \/ MayAppendRaises(s)
      PROVE  CachedBlocks'
  BY <1>1, <1>6 DEF from_prompt, append_token, allocate, deallocate, may_append, MayAppendRaises,
     seqs
<1> QED BY <1>3, <1>4, <1>5, <1>6 DEF BMNext, CallStep

(* The KV invariant until an exception, and what the exception leaves. *)
KVAlways ==
  IF pc = "raised" THEN Stopped /\ RaiseReasons ELSE KVInd /\ CachedBlocks

(* schedule() raises where every block is in the table of a running        *)
(* request, the model runner where every sequence is cached to its end.    *)
LEMMA RaiseHasReason ==
  ASSUME KVInd, CachedBlocks, DecodeRaises \/ RunRaises
  PROVE  RaiseReasons'
<1>1. /\ EngineInd /\ LengthInv /\ BlockInv /\ EngineTypeOK /\ ControlInv /\ OnlyRunningHold
  BY DEF KVInd, EngineInd
<1>2. /\ UNCHANGED <<schedVars, table, cached, tokens, ref, free, used>>
  BY DEF DecodeRaises, RunRaises, MayAppendRaises, seqs, pool, bmVars
<1>3. UNCHANGED <<status, scheduled, prefill>>
  BY <1>2 DEF schedVars
<1>4. CASE DecodeRaises
  <2>1. call.op = "none" /\ call'.op = "raised"
    BY <1>4 DEF DecodeRaises, MayAppendRaises, RaisedFrame
  <2>2. BlockInv'
    BY <1>1, <1>4, RaiseIsBM, BlockNextInv
  <2>3. BlockSize = 1 /\ BMInv' /\ free = << >>
    BY <1>2, <2>1, <2>2 DEF BlockInv, RaisedInv
  <2>4. BMInv
    BY <1>1 DEF BlockInv
  <2>5. ASSUME NEW b \in Blocks PROVE \E s \in SeqId : status[s] = "RUNNING" /\ b \in ToSet(table[s])
    <3>1. ref[b] > 0 /\ ref[b] = Cardinality(Holders(b))
      BY <2>3, <2>4 DEF BMInv, PoolInv, Partition, RefCount, ToSet
    <3>2. Holders(b) # {}
      BY <3>1, FS_EmptySet
    <3>3. PICK s \in SeqId : \E i \in DOMAIN table[s] : table[s][i] = b
      BY <3>2 DEF Holders
    <3>4. table[s] \in Seq(Blocks)
      BY <2>4 DEF BMInv, BMTypeOK
    <3>5. b \in ToSet(table[s]) /\ table[s] # << >>
      BY <3>3, <3>4 DEF ToSet
    <3>6. status[s] = "RUNNING"
      BY <1>1, <2>1, <3>5 DEF OnlyRunningHold
    <3> QED BY <3>5, <3>6
  <2> QED BY <1>2, <1>3, <2>3, <2>5 DEF RaiseReasons
<1>5. CASE RunRaises
  <2>1. prefill /\ \A s \in ToSet(scheduled) : ~(cached[s] < Len(tokens[s]))
    BY <1>5 DEF RunRaises, HasQueryRows
  <2>2. ASSUME NEW s \in ToSet(scheduled)
        PROVE  cached[s] = Len(tokens[s]) /\ Len(tokens[s]) % BlockSize = 0
    <3>1. s \in SeqId
      <4>1. scheduled \in Seq(SeqId)
        BY <1>1 DEF EngineTypeOK
      <4> QED BY <4>1, <2>2, Members
    <3>2. cached[s] \in Nat /\ Len(tokens[s]) \in Nat /\ cached[s] <= Len(tokens[s])
      BY <1>1, <3>1 DEF EngineTypeOK, BMTypeOK, LengthInv
    <3>3. cached[s] = Len(tokens[s])
      BY <2>1, <2>2, <3>2
    <3>4. WholeBlocks(cached[s])
      BY <3>1 DEF CachedBlocks
    <3> QED BY <3>2, <3>3, <3>4, WholeBlockMore
  <2> QED BY <1>2, <1>3, <2>1, <2>2 DEF RaiseReasons
<1> QED BY <1>4, <1>5

LEMMA KVAlwaysNext == KVAlways /\ [EngineNext]_vars => KVAlways'
<1> SUFFICES ASSUME KVAlways, [EngineNext]_vars PROVE KVAlways'
  OBVIOUS
<1>1. CASE pc = "raised"
  <2>1. Stopped /\ RaiseReasons /\ UNCHANGED vars
    BY <1>1, NothingRuns DEF KVAlways
  <2>2. /\ UNCHANGED <<pc, status, table, cached, prefill, scheduled, tokens>> /\ Stopped'
    BY <2>1, VarsKept
  <2>3. RaiseReasons'
    BY <2>1, <2>2 DEF RaiseReasons
  <2> QED BY <1>1, <2>2, <2>3 DEF KVAlways
<1>2. CASE pc # "raised" /\ [EngineStep]_vars
  <2>1. KVInd /\ CachedBlocks
    BY <1>2 DEF KVAlways
  <2>2. BMTypeOK /\ EngineTypeOK /\ ControlInv
    BY <2>1 DEF KVInd, EngineInd, EngineTypeOK
  <2>3. CachedBlocks'
    BY <1>2, <2>1, <2>2, EngineStepIsBM, CachedBlocksNext
  <2> QED BY <1>2, <2>1, <2>3, StepsReturn, KVNextInd DEF KVAlways
<1>3. CASE pc # "raised" /\ (DecodeRaises \/ RunRaises)
  <2>1. KVInd /\ CachedBlocks /\ EngineInd
    BY <1>3 DEF KVAlways, KVInd
  <2> QED BY <1>3, <2>1, RaiseStops, RaiseHasReason DEF KVAlways
<1> QED BY <1>1, <1>2, <1>3 DEF EngineNext

LEMMA KVInvariant == EngineSpec => []KVAlways
<1>1. ASSUME EngineInit PROVE KVAlways
  <2>1. cached = [s \in SeqId |-> 0] /\ pc = "add"
    BY <1>1 DEF EngineInit, BMInit
  <2>2. CachedBlocks
    BY <2>1, WholeBlockMore DEF CachedBlocks
  <2> QED BY <1>1, <2>1, <2>2, KVInitInd DEF KVAlways
<1> QED BY <1>1, KVAlwaysNext, PTL DEF EngineSpec

(* An exception leaves generate() only where every block of one token is   *)
(* held by a running request, or where every sequence of a prefill batch   *)
(* is cached to its last token, for every pool, block size and workload.   *)
THEOREM RaisesAreExhaustionOrFullHits == EngineSpec => []RaiseReasons
<1>1. KVAlways => RaiseReasons
  BY DEF KVAlways, RaiseReasons
<1> QED BY <1>1, KVInvariant, PTL

(* The engine stays in its types, keeps the order of the requests, lets    *)
(* only running ones hold blocks, raises for the two reasons above only,   *)
(* and the assertion of schedule() never fails, where every request fits a *)
(* step and the pool: then no step is empty (schedule, preempt,            *)
(* postprocess).                                                           *)
THEOREM NoStepIsEmpty ==
  ASSUME EveryRequestFits
  PROVE  EngineSpec => []EngineInv
<1>1. FitInd => EngineTypeOK /\ ArrivalOrder /\ OnlyRunningHold /\ ScheduleAsserts
  <2> SUFFICES ASSUME FitInd PROVE EngineTypeOK /\ ArrivalOrder /\ OnlyRunningHold /\ ScheduleAsserts
    OBVIOUS
  <2>1. ScheduleAsserts
    <3> SUFFICES ASSUME pc = "decode", ~CanDecode, scheduled = << >> PROVE FALSE
      BY DEF ScheduleAsserts
    <3>1. MaxNumSeqs \in Nat \ {0} /\ Len(<< >>) = 0
      BY EngineAssumption
    <3> QED BY <3>1 DEF CanDecode, FitInd, ProgressInv
  <2> QED BY <2>1 DEF FitInd, EngineInd, ArrivalOrder
<1>2. pc = "raised" /\ Stopped => EngineTypeOK /\ ArrivalOrder /\ OnlyRunningHold /\ ScheduleAsserts
  BY DEF Stopped, ArrivalOrder, ScheduleAsserts
<1>3. FitAlways => EngineTypeOK /\ ArrivalOrder /\ OnlyRunningHold /\ ScheduleAsserts
  BY <1>1, <1>2 DEF FitAlways
<1>4. FitAlways /\ RaiseReasons => EngineInv
  BY <1>3 DEF EngineInv
<1> QED BY <1>4, FitInvariant, RaisesAreExhaustionOrFullHits, PTL

(* Where the workload is unambiguous and a block has more than one token,  *)
(* the KV rows a sequence reads were computed from its own tokens: prefill *)
(* writes what allocate did not find cached, what it found was written     *)
(* from the same tokens under the same prefix, and neither preemption nor  *)
(* reuse of a block disturbs it (allocate, may_append, prepare_prefill,    *)
(* prepare_decode).                                                        *)
THEOREM SequencesReadTheirOwnRows == EngineSpec => []KVFaithful
<1>1. KVAlways => KVFaithful
  BY DEF KVAlways, KVInd, KVFaithful
<1> QED BY <1>1, KVInvariant, PTL

=============================================================================
