--------------------------- MODULE ExpertParallel ---------------------------
(***************************************************************************)
(* Expert parallelism of workshop/nanovllm_moe_orch: every rank of an EP   *)
(* group runs an engine of its own and owns a contiguous slice of the      *)
(* experts; in each call of the layer the ranks dispatch the replicas      *)
(* (t, k) of their tokens to the owners with an all-to-all, run their      *)
(* experts, and get the rows back with a second one.                       *)
(*                                                                         *)
(* Three recipes: "ep_ll_torch" and "ep_ll_triton" exchange one dense      *)
(* buffer [N, E_local, M_max]; "ep_ht" exchanges ragged rows whose counts  *)
(* it exchanges first.                                                     *)
(*                                                                         *)
(* A hidden state is the symbol <<rank, call, token>>, an expert's output  *)
(* <<expert, payload>>, a weighted sum the set of its terms. Ranks, experts *)
(* and slots count from 0 as in the code, tokens and choices from 1.       *)
(***************************************************************************)
EXTENDS Integers, Sequences, FiniteSets, FiniteSetsExt, SequencesExt

CONSTANTS
  Recipes,     \* the recipes a run may be wired with
  N,           \* ranks of the EP group (world_size)
  ELocal,      \* experts of one rank
  K,           \* experts of one token (top_k)
  TCap,        \* tokens of one call at most (max_num_batched_tokens)
  MMax,        \* slots of one bucket of the dense buffer
  Batches,     \* routings a call may have: a sequence of tuples of K experts
  MaxCalls     \* bound: calls of one rank

Ranks == 0 .. N - 1
Locals == 0 .. ELocal - 1
Slots == 0 .. MMax - 1
Pairs == (1 .. TCap) \X (1 .. K)

ASSUME EPAssumption ==
  /\ Recipes \subseteq {"ep_ll_torch", "ep_ll_triton", "ep_ht"}
  /\ {N, ELocal, K, TCap, MMax} \subseteq Nat \ {0}
  /\ \A b \in Batches : /\ b \in Seq([1 .. K -> 0 .. N * ELocal - 1]) /\ Len(b) \in 1 .. TCap
                        /\ \A t \in DOMAIN b : IsInjective(b[t])

VARIABLES
  recipe,
  pc,          \* pc[r]: how far rank r is in its call
  calls,       \* calls[r]: calls it has finished
  batch,       \* batch[r]: topk_ids of its current or last call
  send_buf,    \* [rank][target][local expert][slot]: dense payloads, never cleared
  indices,     \* original_indices, the same shape: a pair (t, k) or Unused
  counts,      \* local_counts: [rank][target][local expert]
  recv_counts, \* ep_ht: rows to come from each source
  rows,        \* rows[r]: recv_buf or recv_hidden, then its experts' output, then
               \* rev_recv or rev: each is overwritten whole before it is read
  out          \* out[r][t]: the terms of the sum for token t

vars == <<recipe, pc, calls, batch, send_buf, indices, counts, recv_counts, rows, out>>

ll == recipe \in {"ep_ll_torch", "ep_ll_triton"}
Unused == <<0, 0>>
Zero == << >>
Dense(v) == [d \in Ranks |-> [e \in Locals |-> [m \in Slots |-> v]]]

(* ---- routing ---------------------------------------------------------- *)

TargetRank(eid) == eid \div ELocal
TargetLocal(eid) == eid % ELocal
Replicas(b) == {p \in Pairs : p[1] <= Len(b)}
Bucket(b, d, e) == {p \in Replicas(b) : b[p[1]][p[2]] = d * ELocal + e}
Before(p, q) == p[1] < q[1] \/ (p[1] = q[1] /\ p[2] < q[2])
Payload(r, t) == <<r, calls[r], t>>

\* The torch loop hands out the slots of a bucket in the order of (t, k); the
\* kernel's atomic adds in any order, one program per token.
LoopOrder(b) ==
  [p \in Replicas(b) |->
    Cardinality({q \in Bucket(b, TargetRank(b[p[1]][p[2]]), TargetLocal(b[p[1]][p[2]])) :
                   Before(q, p)})]

AtomicOrders(b) ==
  {s \in [Replicas(b) -> 0 .. Cardinality(Replicas(b)) - 1] :
     \A d \in Ranks, e \in Locals :
       {s[p] : p \in Bucket(b, d, e)} = 0 .. Cardinality(Bucket(b, d, e)) - 1}

\* The replica that got slot m of a bucket, if one did.
Holder(b, slot, d, e, m) == {p \in Bucket(b, d, e) : slot[p] = m}

Filled(b, slot) ==
  [d \in Ranks |-> [e \in Locals |-> [m \in Slots |->
    IF Holder(b, slot, d, e, m) = {} THEN Unused
    ELSE CHOOSE p \in Holder(b, slot, d, e, m) : TRUE]]]

\* Slots nobody was given keep the payload of an earlier call.
Written(old, r, filled) ==
  [d \in Ranks |-> [e \in Locals |-> [m \in Slots |->
    IF filled[d][e][m] = Unused THEN old[d][e][m] ELSE Payload(r, filled[d][e][m][1])]]]

Counted(b) == [d \in Ranks |-> [e \in Locals |-> Cardinality(Bucket(b, d, e))]]

Overflows(b) == \E d \in Ranks, e \in Locals : Cardinality(Bucket(b, d, e)) > MMax

(* ---- the two dispatchers up to their first collective ----------------- *)

\* Mutant: the marks of the previous call are not cleared.
BucketedOverOldMarks(r, b, slot) ==
  LET new == Filled(b, slot) IN
  /\ indices' = [indices EXCEPT ![r] = [d \in Ranks |-> [e \in Locals |-> [m \in Slots |->
       IF new[d][e][m] = Unused THEN @[d][e][m] ELSE new[d][e][m]]]]]
  /\ send_buf' = [send_buf EXCEPT ![r] = Written(@, r, new)]
  /\ counts' = [counts EXCEPT ![r] = Counted(b)]
  /\ pc' = [pc EXCEPT ![r] = "bucketed"]

Bucketed(r, b, slot) ==
  /\ indices' = [indices EXCEPT ![r] = Filled(b, slot)]
  /\ send_buf' = [send_buf EXCEPT ![r] = Written(@, r, indices'[r])]
  /\ counts' = [counts EXCEPT ![r] = Counted(b)]
  /\ pc' = [pc EXCEPT ![r] = "bucketed"]

Forward(r) ==
  /\ pc[r] = "ready" /\ calls[r] < MaxCalls
  /\ \E b \in Batches :
       /\ batch' = [batch EXCEPT ![r] = b]
       /\ \/ /\ recipe = "ep_ll_torch" /\ ~Overflows(b)
             /\ Bucketed(r, b, LoopOrder(b))
          \/ /\ recipe = "ep_ll_torch" /\ Overflows(b)
             /\ pc' = [pc EXCEPT ![r] = "raised"]
             /\ UNCHANGED <<send_buf, indices, counts>>
          \/ /\ recipe = "ep_ll_triton"
             /\ \E slot \in AtomicOrders(b) : Bucketed(r, b, slot)
          \/ /\ recipe = "ep_ht"
             /\ pc' = [pc EXCEPT ![r] = "sorted"]
             /\ UNCHANGED <<send_buf, indices, counts>>
  /\ UNCHANGED <<recipe, calls, recv_counts, rows, out>>

\* The engine of a rank has no more work, or fails elsewhere: it leaves.
Leave(r) ==
  /\ pc[r] = "ready"
  /\ pc' = [pc EXCEPT ![r] = "left"]
  /\ UNCHANGED <<recipe, calls, batch, send_buf, indices, counts, recv_counts, rows, out>>

\* ep_ht: the stable sort by target rank, and the slice meant for rank d.
SortPerm(b) ==
  SetToSortSeq(Replicas(b), LAMBDA p, q :
    LET dp == TargetRank(b[p[1]][p[2]])  dq == TargetRank(b[q[1]][q[2]]) IN
    dp < dq \/ (dp = dq /\ Before(p, q)))

SendCounts(b) ==
  [d \in Ranks |-> Cardinality({p \in Replicas(b) : TargetRank(b[p[1]][p[2]]) = d})]

\* What rank r receives from s is the slice of s's sorted rows meant for it.
Slice(seq, cnt, d) ==
  LET skip == MapThenSumSet(LAMBDA x : cnt[x], 0 .. d - 1) IN
  SubSeq(seq, skip + 1, skip + cnt[d])

SortedRows(s) ==
  LET perm == SortPerm(batch[s]) IN
  [i \in DOMAIN perm |->
    <<TargetLocal(batch[s][perm[i][1]][perm[i][2]]), Payload(s, perm[i][1])>>]

ByRank(f(_)) == FlattenSeq([i \in 1 .. N |-> f(i - 1)])

(* ---- the collectives: nobody returns before everybody has called ------ *)

All(stage) == \A r \in Ranks : pc[r] = stage
AllGo(stage) == pc' = [r \in Ranks |-> stage]

\* Mutant: the receiver reads the buffer by its own rank.
ExchangeDenseSwapped ==
  /\ All("bucketed") /\ AllGo("received")
  /\ rows' = [r \in Ranks |-> [s \in Ranks |-> send_buf[r][s]]]
  /\ UNCHANGED <<recipe, calls, batch, send_buf, indices, counts, recv_counts, out>>

ExchangeDense ==
  /\ All("bucketed") /\ AllGo("received")
  /\ rows' = [r \in Ranks |-> [s \in Ranks |-> send_buf[s][r]]]
  /\ UNCHANGED <<recipe, calls, batch, send_buf, indices, counts, recv_counts, out>>

ExchangeCounts ==
  /\ All("sorted") /\ AllGo("counted")
  /\ recv_counts' = [r \in Ranks |-> [s \in Ranks |-> SendCounts(batch[s])[r]]]
  /\ UNCHANGED <<recipe, calls, batch, send_buf, indices, counts, rows, out>>

ExchangeRows ==
  /\ All("counted") /\ AllGo("received")
  /\ rows' = [r \in Ranks |->
                   ByRank(LAMBDA s : Slice(SortedRows(s), SendCounts(batch[s]), r))]
  /\ UNCHANGED <<recipe, calls, batch, send_buf, indices, counts, recv_counts, out>>

ReverseExchange ==
  /\ All("computed") /\ AllGo("returned")
  /\ rows' = [r \in Ranks |->
       IF ll THEN [d \in Ranks |-> rows[d][r]]
       ELSE ByRank(LAMBDA d : Slice(rows[d], recv_counts[d], r))]
  /\ UNCHANGED <<recipe, calls, batch, send_buf, indices, counts, recv_counts, out>>

(* ---- experts and combine ---------------------------------------------- *)

Global(r, e) == r * ELocal + e
RecvCap == 2 * TCap * K

\* The dense kernel computes every row, filled or stale; the ragged one the rows
\* that came.
Computed(r) ==
  IF ll
  THEN [s \in Ranks |-> [e \in Locals |-> [m \in Slots |->
         <<Global(r, e), rows[r][s][e][m]>>]]]
  ELSE [i \in DOMAIN rows[r] |-> <<Global(r, rows[r][i][1]), rows[r][i][2]>>]

Overrun(r) == ~ll /\ Len(rows[r]) > RecvCap

\* Mutant: a rank nobody sent a row to does not get past its experts.
ExpertsNeedRows(r) ==
  /\ pc[r] = "received" /\ ~Overrun(r)
  /\ rows[r] # << >>
  /\ rows' = [rows EXCEPT ![r] = Computed(r)]
  /\ pc' = [pc EXCEPT ![r] = "computed"]
  /\ UNCHANGED <<recipe, calls, batch, send_buf, indices, counts, recv_counts, out>>

\* Rows that do not fit the caches of the ragged kernel raise; no row at all is
\* no failure, the rank still joins the reverse exchange.
Experts(r) ==
  /\ pc[r] = "received"
  /\ \/ /\ ~Overrun(r)
        /\ rows' = [rows EXCEPT ![r] = Computed(r)]
        /\ pc' = [pc EXCEPT ![r] = "computed"]
     \/ /\ Overrun(r)
        /\ pc' = [pc EXCEPT ![r] = "raised"]
        /\ UNCHANGED rows
  /\ UNCHANGED <<recipe, calls, batch, send_buf, indices, counts, recv_counts, out>>

\* The terms of token t: the dense rows whose slot is marked with it, or the
\* ragged rows put back where the sort took them from.
Terms(r, t) ==
  IF ll
  THEN {[k |-> indices[r][x[1]][x[2]][x[3]][2], row |-> rows[r][x[1]][x[2]][x[3]]] :
          x \in {y \in Ranks \X Locals \X Slots : indices[r][y[1]][y[2]][y[3]][1] = t}}
  ELSE LET perm == SortPerm(batch[r]) IN
       {[k |-> perm[i][2], row |-> rows[r][i]] : i \in {j \in DOMAIN perm : perm[j][1] = t}}

Combine(r) ==
  /\ pc[r] = "returned"
  /\ out' = [out EXCEPT ![r] = [t \in DOMAIN batch[r] |-> Terms(r, t)]]
  /\ calls' = [calls EXCEPT ![r] = @ + 1]
  /\ pc' = [pc EXCEPT ![r] = "ready"]
  /\ UNCHANGED <<recipe, batch, send_buf, indices, counts, recv_counts, rows>>

Init ==
  /\ recipe \in Recipes
  /\ pc = [r \in Ranks |-> "ready"]
  /\ calls = [r \in Ranks |-> 0]
  /\ batch = [r \in Ranks |-> << >>]
  /\ send_buf = [r \in Ranks |-> Dense(Zero)]
  /\ indices = [r \in Ranks |-> Dense(Unused)]
  /\ counts = [r \in Ranks |-> Counted(<< >>)]
  /\ recv_counts = [r \in Ranks |-> << >>]
  /\ rows = [r \in Ranks |-> << >>]
  /\ out = [r \in Ranks |-> << >>]

Collective == ExchangeDense \/ ExchangeCounts \/ ExchangeRows \/ ReverseExchange
Step(r) == Forward(r) \/ Experts(r) \/ Combine(r)
Next == Collective \/ \E r \in Ranks : Step(r) \/ Leave(r)

\* A rank runs on by itself between collectives, and a collective everybody has
\* called ends. Nothing makes an engine leave, or stay.
Spec == Init /\ [][Next]_vars /\ WF_vars(Collective) /\ \A r \in Ranks : WF_vars(Step(r))

(* ---- properties ------------------------------------------------------- *)

\* Dispatch hands every replica to the rank that owns its expert, once: the rows
\* rank r counts as source s's for its expert e are payloads of s's current call,
\* different tokens of that bucket, as many as the bucket holds; none is left
\* over from an earlier call (dispatch_ep_ll.py:184-185, dispatch_ep_ht.py:143-202).
RowsFor(r, s, e) ==
  IF ll
  THEN [i \in 1 .. Min({MMax, Cardinality(Bucket(batch[s], r, e))}) |->
         rows[r][s][e][i - 1]]
  ELSE LET mine == SelectSeq(rows[r], LAMBDA x : x[1] = e /\ x[2][1] = s)
       IN [i \in DOMAIN mine |-> mine[i][2]]

ReplicasPlacedOnce ==
  \A r, s \in Ranks, e \in Locals : pc[r] = "received" =>
    LET b == Bucket(batch[s], r, e)  got == RowsFor(r, s, e) IN
    /\ ToSet(got) \subseteq {Payload(s, p[1]) : p \in b}
    /\ Cardinality(ToSet(got)) = Len(got)
    /\ Len(got) = IF ll THEN Min({MMax, Cardinality(b)}) ELSE Cardinality(b)

\* An overflow is never silent for who reads the counts: local_counts is the true
\* number of replicas of a bucket, also of those that found no slot, every slot
\* below it is filled, and under the torch loop no rank reaches the exchange with
\* a bucket that overflowed (triton_ep_ll_dispatch.py:70-77, dispatch_ep_ll.py:29-31).
LossIsCounted ==
  \A r \in Ranks : ll /\ pc[r] \in {"bucketed", "received", "computed", "returned"} =>
    \A d \in Ranks, e \in Locals :
      LET sent == {p \in Replicas(batch[r]) : batch[r][p[1]][p[2]] = Global(d, e)}
          kept == {m \in Slots : indices[r][d][e][m] # Unused}
      IN /\ counts[r][d][e] = Cardinality(sent)
         /\ kept = 0 .. Min({MMax, counts[r][d][e]}) - 1
         /\ {indices[r][d][e][m] : m \in kept} \subseteq sent
         /\ recipe = "ep_ll_torch" => counts[r][d][e] <= MMax

\* Every rank finishes every call, unless one of them raised or left before the
\* others were done: then the exchange of the others never ends.
Quit(r) == pc[r] = "raised" \/ (pc[r] = "left" /\ calls[r] < MaxCalls)
LayersComplete ==
  <>(\E r \in Ranks : Quit(r)) \/ <>(\A r \in Ranks : calls[r] = MaxCalls)

\* The exchange, the stale buffers and the racing kernel implement the layer: the
\* output of every call of every rank is the sum over its own tokens' experts, and
\* the kernel that drops loses the excess of an overfull bucket only.
Layer == INSTANCE MoELayer WITH
  cap <- IF recipe = "ep_ll_triton" THEN MMax ELSE TCap * K
RefinesLayer == Layer!Spec
=============================================================================
