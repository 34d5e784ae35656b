------------------------------ MODULE Chunked ------------------------------
(***************************************************************************)
(* The chunked-prefill engine (src/services/nanovllm_chunked/engine):      *)
(* LLMEngine.step, the Scheduler that hands out a budget of tokens and     *)
(* preempts from the tail, and the BlockManager that allocates slots as    *)
(* chunks need them.  One iteration of a loop of schedule or postprocess   *)
(* is one action; allocate_slots and deallocate are recursive functions    *)
(* over the blocks of one sequence.                                        *)
(***************************************************************************)
EXTENDS Integers, FiniteSets, SequencesExt

CONSTANTS
  NumBlocks, BlockSize, SeqId, Token, Prompts,
  MaxNumSeqs,           \* config.max_num_seqs
  MaxNumBatchedTokens,  \* config.max_num_batched_tokens
  Eos,                  \* config.eos
  EosIds,               \* eos_ids of LLMEngine.step: config.eos and two ids of the Qwen family
  MaxTokens,            \* the values sampling_params.max_tokens takes
  IgnoreEos             \* the values sampling_params.ignore_eos takes

ASSUME ChunkedAssumption ==
  /\ NumBlocks \in Nat \ {0} /\ BlockSize \in Nat \ {0}
  /\ IsFiniteSet(SeqId) /\ SeqId # {} /\ SeqId = 1 .. Cardinality(SeqId)
  /\ \A p \in Prompts : p \in Seq(Token) /\ p # << >>
  /\ MaxNumSeqs \in Nat \ {0} /\ MaxNumBatchedTokens \in Nat \ {0}
  /\ MaxTokens \subseteq Nat \ {0} /\ IgnoreEos \subseteq BOOLEAN
  /\ Eos \in EosIds /\ EosIds \subseteq Token

VARIABLES
  pool,       \* the BlockManager: ref, hash, content, h2b, free, used
  tokens,     \* Sequence.token_ids
  table,      \* Sequence.block_table
  last,       \* Sequence._last_hash
  computed,   \* Sequence.num_computed_tokens
  status,     \* Sequence.status
  params,     \* num_prompt_tokens, max_tokens and ignore_eos of a sequence
  waiting, running,
  scheduled,  \* scheduled_seqs: pairs of a sequence and the size of its chunk
  budget,     \* token_budget
  index,      \* req_index
  sampled,    \* how many of scheduled postprocess has handled
  nextId,     \* Sequence.counter
  kv,         \* the tokens the KV row of a slot was computed from
  pc

seqVars == <<tokens, table, last, computed, status, params>>
vars == <<pool, tokens, table, last, computed, status, params, waiting, running, scheduled,
          budget, index, sampled, nextId, kv, pc>>

Blocks == 0 .. NumBlocks - 1
CeilDiv(n) == (n + BlockSize - 1) \div BlockSize
Slice(q, a, z) == SubSeq(q, a + 1, IF z <= Len(q) THEN z ELSE Len(q))
block(s, i) == Slice(tokens[s], i * BlockSize, (i + 1) * BlockSize)

(* As in BlockManager: a hash stands for the tokens it was computed from. *)
NoHash == << >>
compute_hash(toks, prefix) == prefix \o toks
MapTo(m, h, b) == [k \in DOMAIN m \cup {h} |-> IF k = h THEN b ELSE m[k]]

Init ==
  /\ pool = [ref |-> [b \in Blocks |-> 0], hash |-> [b \in Blocks |-> NoHash],
             content |-> [b \in Blocks |-> << >>], h2b |-> [h \in {} |-> 0],
             free |-> [k \in 1 .. NumBlocks |-> k - 1], used |-> {}]
  /\ tokens = [s \in SeqId |-> << >>] /\ table = [s \in SeqId |-> << >>]
  /\ last = [s \in SeqId |-> NoHash] /\ computed = [s \in SeqId |-> 0]
  /\ status = [s \in SeqId |-> "none"]
  /\ params = [s \in SeqId |-> [prompt |-> 0, max |-> 0, ignore |-> FALSE]]
  /\ waiting = << >> /\ running = << >> /\ scheduled = << >>
  /\ budget = 0 /\ index = 1 /\ sampled = 0 /\ nextId = 1
  /\ kv = [b \in Blocks |-> [o \in 0 .. BlockSize - 1 |-> << >>]]
  /\ pc = "add"

-----------------------------------------------------------------------------
(* The operations of the BlockManager on p, the pool together with the     *)
(* block table and the last hash of the sequence at hand.                  *)

(* self.free_block_ids.remove, and running.remove of postprocess. *)
RemoveEntry(q, b) == RemoveAt(q, CHOOSE k \in DOMAIN q : q[k] = b)

(* _allocate_block *)
Take(p, b) == [p EXCEPT !.ref[b] = 1, !.hash[b] = NoHash, !.content[b] = << >>,
                        !.free = RemoveEntry(@, b), !.used = @ \cup {b}]
Update(p, b, h, toks) == [p EXCEPT !.hash[b] = h, !.content[b] = toks]
Register(p, b, h, toks) == [Update(p, b, h, toks) EXCEPT !.h2b = MapTo(@, h, b), !.last = h]
Join(p, b) == [p EXCEPT !.table = Append(@, b)]

(* Step 2 of allocate_slots: the last block may have been filled since. *)
FillLast(p, s) ==
  LET i == Len(p.table) - 1
      prefix == IF i > 0 THEN p.hash[p.table[i]] ELSE NoHash
  IN  IF i >= 0 /\ Len(block(s, i)) = BlockSize /\ p.hash[p.table[i + 1]] = NoHash
      THEN Register(p, p.table[i + 1], compute_hash(block(s, i), prefix), block(s, i))
      ELSE p

Hit(p, toks) ==
  LET h == compute_hash(toks, p.last) IN h \in DOMAIN p.h2b /\ p.content[p.h2b[h]] = toks

(* Mutation: a block that is not full is looked up and shared too. *)
AddBlockPartialHits(p, s, i) ==
  LET toks == block(s, i)  h == compute_hash(toks, p.last) IN
  IF Hit(p, toks)
  THEN IF p.h2b[h] \in p.used
       THEN [Join(p, p.h2b[h]) EXCEPT !.ref[p.h2b[h]] = @ + 1, !.last = h]
       ELSE [Join(Update(Take(p, p.h2b[h]), p.h2b[h], h, toks), p.h2b[h]) EXCEPT !.last = h]
  ELSE Join(Register(Take(p, Head(p.free)), Head(p.free), h, toks), Head(p.free))

(* Step 3, one iteration: a full block may be shared or revived. *)
AddBlock(p, s, i) ==
  LET toks == block(s, i)
      full == Len(toks) = BlockSize
      h == compute_hash(toks, p.last)
  IN  CASE full /\ Hit(p, toks) ->
             LET b == p.h2b[h]
                 q == IF b \in p.used THEN [p EXCEPT !.ref[b] = @ + 1]
                                      ELSE Update(Take(p, b), b, h, toks)
             IN  [Join(q, b) EXCEPT !.last = h]
        [] full /\ ~Hit(p, toks) ->
             Join(Register(Take(p, Head(p.free)), Head(p.free), h, toks), Head(p.free))
        [] OTHER -> Join(Take(p, Head(p.free)), Head(p.free))

WithSeq(s) ==
  [ref |-> pool.ref, hash |-> pool.hash, content |-> pool.content, h2b |-> pool.h2b,
   free |-> pool.free, used |-> pool.used, table |-> table[s], last |-> last[s]]
PoolOf(p) == [ref |-> p.ref, hash |-> p.hash, content |-> p.content, h2b |-> p.h2b,
              free |-> p.free, used |-> p.used]

HasSlots(s, n) == CeilDiv(computed[s] + n) - Len(table[s]) <= Len(pool.free)

(* The pool after each of m iterations of the loop over the new blocks. *)
Slots(s, m) ==
  LET p[k \in 0 .. m] == IF k = 0 THEN FillLast(WithSeq(s), s)
                         ELSE AddBlock(p[k - 1], s, Len(table[s]) + k - 1)
  IN  p
AllocatedSlots(s, n) ==
  LET m == CeilDiv(computed[s] + n) - Len(table[s]) IN Slots(s, m)[m]

allocate_slots(s, n) ==
  /\ HasSlots(s, n)
  /\ pool' = PoolOf(AllocatedSlots(s, n))
  /\ table' = [table EXCEPT ![s] = AllocatedSlots(s, n).table]
  /\ last' = [last EXCEPT ![s] = AllocatedSlots(s, n).last]

(* Mutation: a block goes back to the free blocks while others refer to it. *)
GiveBackAlways(p, b) == [p EXCEPT !.ref[b] = @ - 1, !.used = @ \ {b}, !.free = Append(@, b)]

(* Mutation: a block that is shared keeps its count. *)
GiveBackUnshared(p, b) ==
  IF p.ref[b] = 1 THEN [p EXCEPT !.ref[b] = 0, !.used = @ \ {b}, !.free = Append(@, b)]
                  ELSE p

(* One iteration of deallocate. *)
GiveBack(p, b) ==
  IF p.ref[b] = 1 THEN [p EXCEPT !.ref[b] = 0, !.used = @ \ {b}, !.free = Append(@, b)]
                  ELSE [p EXCEPT !.ref[b] = @ - 1]

(* The pool after each iteration over reversed(tbl). *)
Returned(tbl) ==
  LET p[k \in 0 .. Len(tbl)] == IF k = 0 THEN pool ELSE GiveBack(p[k - 1], tbl[Len(tbl) + 1 - k])
  IN  p

(* deallocate, of a sequence whose block table is now tbl. *)
deallocate(s, tbl) ==
  /\ pool' = Returned(tbl)[Len(tbl)]
  /\ table' = [table EXCEPT ![s] = << >>]
  /\ last' = [last EXCEPT ![s] = NoHash]

-----------------------------------------------------------------------------
(* LLMEngine.add_request, for every prompt before the loop of generate(). *)
add_request ==
  /\ pc = "add"
  /\ \E p \in Prompts, m \in MaxTokens, g \in IgnoreEos :
       /\ tokens' = [tokens EXCEPT ![nextId] = p]
       /\ params' = [params EXCEPT ![nextId] = [prompt |-> Len(p), max |-> m, ignore |-> g]]
  /\ status' = [status EXCEPT ![nextId] = "WAITING"]
  /\ waiting' = Append(waiting, nextId)
  /\ nextId' = nextId + 1
  /\ pc' = IF nextId + 1 \in SeqId THEN "add" ELSE "step"
  /\ UNCHANGED <<pool, table, last, computed, running, scheduled, budget, index, sampled, kv>>

(* Mutation: the loop of generate() looks at running only. *)
is_finished_running_only == running = << >>

is_finished == waiting = << >> /\ running = << >>

StepBegin ==
  /\ pc = "step" /\ ~is_finished
  /\ budget' = MaxNumBatchedTokens /\ scheduled' = << >> /\ index' = 1
  /\ pc' = "running"
  /\ UNCHANGED <<pool, seqVars, waiting, running, sampled, nextId, kv>>

(* Mutation: a chunk is not cut to the budget. *)
NewTokensUncut(s) == Len(tokens[s]) - computed[s]

num_new_tokens(s) ==
  IF Len(tokens[s]) - computed[s] <= budget THEN Len(tokens[s]) - computed[s] ELSE budget

InRunningLoop == pc = "running" /\ index <= Len(running) /\ budget > 0

ScheduleRunning ==
  /\ InRunningLoop
  /\ LET s == running[index] IN
       /\ allocate_slots(s, num_new_tokens(s))
       /\ scheduled' = Append(scheduled, <<s, num_new_tokens(s)>>)
       /\ budget' = budget - num_new_tokens(s)
  /\ index' = index + 1
  /\ UNCHANGED <<tokens, computed, status, params, waiting, running, sampled, nextId, kv, pc>>

(* Mutation: the request at the head is the victim. *)
PreemptHead ==
  /\ InRunningLoop
  /\ ~HasSlots(running[index], num_new_tokens(running[index]))
  /\ LET victim == Head(running) IN
       /\ running' = Tail(running)
       /\ status' = [status EXCEPT ![victim] = "WAITING"]
       /\ computed' = [computed EXCEPT ![victim] = 0]
       /\ deallocate(victim, << >>)
       /\ waiting' = <<victim>> \o waiting
  /\ UNCHANGED <<tokens, params, scheduled, budget, index, sampled, nextId, kv, pc>>

(* The victim is the last of running, at worst the request itself.  Its    *)
(* reset_for_preemption clears the block table, and so the deallocate that *)
(* follows it finds no block to give back.                                 *)
Preempt ==
  /\ InRunningLoop
  /\ ~HasSlots(running[index], num_new_tokens(running[index]))
  /\ LET victim == Last(running) IN
       /\ running' = Front(running)
       /\ status' = [status EXCEPT ![victim] = "WAITING"]
       /\ computed' = [computed EXCEPT ![victim] = 0]
       /\ deallocate(victim, << >>)
       /\ waiting' = <<victim>> \o waiting
  /\ UNCHANGED <<tokens, params, scheduled, budget, index, sampled, nextId, kv, pc>>

RunningEnd ==
  /\ pc = "running" /\ ~InRunningLoop
  /\ pc' = "waiting"
  /\ UNCHANGED <<pool, seqVars, waiting, running, scheduled, budget, index, sampled, nextId, kv>>

CanAdmit ==
  /\ waiting # << >> /\ budget > 0 /\ Len(running) < MaxNumSeqs
  /\ HasSlots(Head(waiting), num_new_tokens(Head(waiting)))

Admit ==
  /\ pc = "waiting" /\ CanAdmit
  /\ LET s == Head(waiting) IN
       /\ allocate_slots(s, num_new_tokens(s))
       /\ status' = [status EXCEPT ![s] = "RUNNING"]
       /\ running' = Append(running, s)
       /\ scheduled' = Append(scheduled, <<s, num_new_tokens(s)>>)
       /\ budget' = budget - num_new_tokens(s)
  /\ waiting' = Tail(waiting)
  /\ UNCHANGED <<tokens, computed, params, index, sampled, nextId, kv, pc>>

(* The end of schedule: the chunks count as computed before they run. *)
Advanced ==
  LET f[k \in 0 .. Len(scheduled)] ==
        IF k = 0 THEN computed ELSE [f[k - 1] EXCEPT ![scheduled[k][1]] = @ + scheduled[k][2]]
  IN  f
ScheduleEnd ==
  /\ pc = "waiting" /\ ~CanAdmit
  /\ computed' = Advanced[Len(scheduled)]
  /\ pc' = "run"
  /\ UNCHANGED <<pool, tokens, table, last, status, params, waiting, running, scheduled,
                 budget, index, sampled, nextId, kv>>

-----------------------------------------------------------------------------
(* The slots the chunks of this step write: block, offset and the tokens   *)
(* up to that position.                                                    *)
Positions(c) == computed[c[1]] - c[2] .. computed[c[1]] - 1
Writes ==
  UNION {{<<table[c[1]][(k \div BlockSize) + 1], k % BlockSize, SubSeq(tokens[c[1]], 1, k + 1)>> :
            k \in Positions(c)} : c \in ToSet(scheduled)}

(* prepare_inputs and run on a batch; a batch without a chunk has no block *)
(* tables and run_model raises.                                            *)
run ==
  /\ pc = "run" /\ scheduled # << >>
  /\ kv' = [b \in Blocks |-> [o \in 0 .. BlockSize - 1 |->
              IF \E w \in Writes : w[1] = b /\ w[2] = o
              THEN (CHOOSE w \in Writes : w[1] = b /\ w[2] = o)[3] ELSE kv[b][o]]]
  /\ sampled' = 0
  /\ pc' = "post"
  /\ UNCHANGED <<pool, seqVars, waiting, running, scheduled, budget, index, nextId>>

RunNothing ==
  /\ pc = "run" /\ scheduled = << >>
  /\ pc' = "raised"
  /\ UNCHANGED <<pool, seqVars, waiting, running, scheduled, budget, index, sampled, nextId, kv>>

(* Mutation: the mask compares with the prompt, not with all tokens. *)
DiscardedOfPrompt(s) == computed[s] < params[s].prompt

(* discard_mask of prepare_inputs: run returns -1 for that sequence. *)
Discarded(s) == computed[s] < Len(tokens[s])

Generated(s, toks) == Len(toks) - params[s].prompt
Stops(s, toks) == \/ ~params[s].ignore /\ Last(toks) = Eos
                  \/ Generated(s, toks) = params[s].max

InHand(s) == sampled < Len(scheduled) /\ s = scheduled[sampled + 1][1]

(* The loop of postprocess, one sequence at a time. *)
PostDiscard ==
  /\ pc = "post"
  /\ \E s \in SeqId : InHand(s) /\ Discarded(s)
  /\ sampled' = sampled + 1
  /\ UNCHANGED <<pool, seqVars, waiting, running, scheduled, budget, index, nextId, kv, pc>>

PostAppend ==
  /\ pc = "post"
  /\ \E s \in SeqId, t \in Token :
       /\ InHand(s) /\ ~Discarded(s)
       /\ ~Stops(s, Append(tokens[s], t))
       /\ tokens' = [tokens EXCEPT ![s] = Append(@, t)]
  /\ sampled' = sampled + 1
  /\ UNCHANGED <<pool, table, last, computed, status, params, waiting, running, scheduled,
                 budget, index, nextId, kv, pc>>

PostFinish ==
  /\ pc = "post"
  /\ \E s \in SeqId, t \in Token :
       /\ InHand(s) /\ ~Discarded(s)
       /\ Stops(s, Append(tokens[s], t))
       /\ tokens' = [tokens EXCEPT ![s] = Append(@, t)]
       /\ status' = [status EXCEPT ![s] = "FINISHED"]
       /\ deallocate(s, table[s])
       /\ running' = RemoveEntry(running, s)
  /\ sampled' = sampled + 1
  /\ UNCHANGED <<computed, params, waiting, scheduled, budget, index, nextId, kv, pc>>

(* The interception in LLMEngine.step: a sequence of the step that is not  *)
(* finished although it ended with one of eos_ids or is long enough.       *)
Intercepted(s) ==
  /\ status[s] # "FINISHED" /\ Generated(s, tokens[s]) > 0
  /\ \/ ~params[s].ignore /\ Last(tokens[s]) \in EosIds
     \/ Generated(s, tokens[s]) >= params[s].max
InterceptedOfStep == \E c \in ToSet(scheduled) : Intercepted(c[1])

StepEnd ==
  /\ pc = "post" /\ sampled = Len(scheduled) /\ ~InterceptedOfStep
  /\ pc' = "step"
  /\ UNCHANGED <<pool, seqVars, waiting, running, scheduled, budget, index, sampled, nextId, kv>>

(* seq.is_finished = True: the property has no setter and step raises. *)
StepRaises ==
  /\ pc = "post" /\ sampled = Len(scheduled) /\ InterceptedOfStep
  /\ pc' = "raised"
  /\ UNCHANGED <<pool, seqVars, waiting, running, scheduled, budget, index, sampled, nextId, kv>>

GenerateEnd == pc = "step" /\ is_finished /\ UNCHANGED vars
Raised == pc = "raised" /\ UNCHANGED vars

Next ==
  \/ add_request \/ StepBegin \/ ScheduleRunning \/ Preempt \/ RunningEnd \/ Admit
  \/ ScheduleEnd \/ run \/ RunNothing \/ PostDiscard \/ PostAppend \/ PostFinish
  \/ StepEnd \/ StepRaises \/ GenerateEnd \/ Raised

(* generate() is a sequential loop: the thread takes its next step. *)
Spec == Init /\ [][Next]_vars /\ WF_vars(Next)

-----------------------------------------------------------------------------
(* Every variable stays in its type. *)
TypeOK ==
  /\ pool.ref \in [Blocks -> Nat] /\ pool.h2b \in [DOMAIN pool.h2b -> Blocks]
  /\ pool.hash \in [Blocks -> Seq(Token)] /\ pool.content \in [Blocks -> Seq(Token)]
  /\ pool.free \in Seq(Blocks) /\ pool.used \subseteq Blocks
  /\ tokens \in [SeqId -> Seq(Token)] /\ table \in [SeqId -> Seq(Blocks)]
  /\ last \in [SeqId -> Seq(Token)] /\ computed \in [SeqId -> Nat]
  /\ status \in [SeqId -> {"none", "WAITING", "RUNNING", "FINISHED"}]
  /\ waiting \in Seq(SeqId) /\ running \in Seq(SeqId)
  /\ scheduled \in Seq(SeqId \X Nat)
  /\ budget \in 0 .. MaxNumBatchedTokens /\ index \in Nat /\ sampled \in Nat
  /\ pc \in {"add", "step", "running", "waiting", "run", "post", "raised"}

(* The places <<s, i>> where the block table tab[s] holds block b. *)
HoldersIn(tab, b) == UNION {{<<s, i>> : i \in {k \in DOMAIN tab[s] : tab[s][k] = b}} : s \in SeqId}
Holders(b) == HoldersIn(table, b)

(* A block is free or used and never both, and a block in a block table is *)
(* used and counts at least its holders: allocate_slots never hands a held *)
(* block to another sequence, whatever was finished or preempted before.   *)
HeldBlocksStay ==
  /\ \A j, k \in DOMAIN pool.free : pool.free[j] = pool.free[k] => j = k
  /\ ToSet(pool.free) = Blocks \ pool.used
  /\ \A b \in Blocks : /\ b \in pool.used <=> pool.ref[b] > 0
                       /\ Cardinality(Holders(b)) <= pool.ref[b]

(* The docstring of deallocate: it gives back every block the sequence     *)
(* occupies, when the request finishes and when it is preempted.  So the   *)
(* references of a block are its holders.                                  *)
NoLeak == \A b \in Blocks : pool.ref[b] = Cardinality(Holders(b))

(* Only full blocks are shared: the block a sequence will still append     *)
(* tokens to has no other holder (allocate_slots).                         *)
GrowingBlocksArePrivate ==
  \A s \in SeqId : \A i \in DOMAIN table[s] :
    Len(block(s, i - 1)) < BlockSize => Cardinality(Holders(table[s][i])) = 1

(* First come, first served: the tail of running is preempted to the head  *)
(* of waiting, so no request overtakes an older one and every unfinished   *)
(* request is queued exactly once (schedule, preempt, postprocess).        *)
ArrivalOrder ==
  LET line == running \o waiting IN
  /\ \A j, k \in DOMAIN line : j < k => line[j] < line[k]
  /\ ToSet(line) = {s \in SeqId : status[s] \in {"WAITING", "RUNNING"}}
  /\ ToSet(running) = {s \in SeqId : status[s] = "RUNNING"}

(* What the model runner is given: chunks that add up to at most the       *)
(* budget, one per running sequence, never of a sequence preempted after   *)
(* it was scheduled, and block tables that cover exactly what is computed. *)
Totals(q) ==
  LET t[k \in 0 .. Len(q)] == IF k = 0 THEN 0 ELSE t[k - 1] + q[k][2] IN t
RunnerContract ==
  pc = "run" =>
    /\ Totals(scheduled)[Len(scheduled)] + budget = MaxNumBatchedTokens
    /\ Len(running) <= MaxNumSeqs
    /\ \A j \in DOMAIN scheduled : LET s == scheduled[j][1] IN
         /\ scheduled[j][2] > 0 /\ s \in ToSet(running)
         /\ \A k \in DOMAIN scheduled : scheduled[k][1] = s => k = j
         /\ computed[s] <= Len(tokens[s]) /\ Len(table[s]) = CeilDiv(computed[s])

FullBlocks ==
  UNION {{<<s, i>> : i \in {j \in 1 .. Len(tokens[s]) : j * BlockSize <= Len(tokens[s])}} :
           s \in SeqId}
Unambiguous ==
  \A x, y \in FullBlocks :
    block(x[1], x[2] - 1) = block(y[1], y[2] - 1) =>
      SubSeq(tokens[x[1]], 1, x[2] * BlockSize) = SubSeq(tokens[y[1]], 1, y[2] * BlockSize)

(* For every running sequence, in this step or not, the KV rows of what    *)
(* counts as computed come from its own tokens, through chunks that end    *)
(* inside a block, sharing of blocks another sequence has not yet filled,  *)
(* and recomputation.  As in Engine this needs an unambiguous workload.    *)
KVFaithful ==
  pc = "post" /\ sampled = 0 /\ Unambiguous =>
    \A s \in ToSet(running) : \A k \in 0 .. computed[s] - 1 :
      kv[table[s][(k \div BlockSize) + 1]][k % BlockSize] = SubSeq(tokens[s], 1, k + 1)

(* A token is sampled only from the logits of the last token a sequence    *)
(* has: never in the middle of a prefill, and not in the middle of the     *)
(* prefill that recomputes a preempted request (discard_mask).             *)
SampleAtTheEnd ==
  [][\A s \in SeqId : tokens[s] # << >> /\ tokens'[s] # tokens[s]
                        => computed[s] = Len(tokens[s])]_vars

(* As long as no block has leaked, every step schedules a chunk: a pool    *)
(* that can hold the longest request never hands the model runner an empty *)
(* batch by itself (schedule, allocate_slots).                             *)
NoEmptyStep == pc = "run" /\ NoLeak => scheduled # << >>

(* What holds in every state of the chunked engine: the types, who owns a  *)
(* block, the order of the requests, and that no step is empty (schedule,  *)
(* preempt, allocate_slots, postprocess).                                  *)
ChunkedInv == TypeOK /\ HeldBlocksStay /\ ArrivalOrder /\ NoEmptyStep

(* A block is lost in a preemption and nowhere else: sharing, revival and  *)
(* the end of a request keep the references equal to the holders.          *)
Lost == {b \in Blocks : pool.ref[b] # Cardinality(Holders(b))}
LostByPreemptionOnly ==
  [][Lost' # Lost => \E s \in SeqId : status[s] = "RUNNING" /\ status'[s] = "WAITING"]_vars

(* Every request finishes, unless blocks leak or the interception raises,  *)
(* under the weak fairness of the engine thread.                           *)
RequestsFinish ==
  [](NoLeak /\ ~(pc = "post" /\ InterceptedOfStep)) =>
    \A s \in SeqId : status[s] = "WAITING" ~> status[s] = "FINISHED"
=============================================================================
