------------------------------- MODULE Swift --------------------------------
(***************************************************************************)
(* The asynchronous engine of src/src/services/swift: clients of the       *)
(* request pool, the tokenizer loop and the main loop are coroutines of    *)
(* one asyncio event loop.  A coroutine runs until it awaits, and the main *)
(* loop awaits only when its batch is empty: from an admission until the   *)
(* batch has drained no other coroutine takes a step, which is what the    *)
(* guard Yielded says.  Swapping is dead code: swapped_q stays empty,      *)
(* because choosing a victim raises before anything is appended to it.     *)
(***************************************************************************)
EXTENDS Integers, SequencesExt

CONSTANTS
  NumRequests,          \* bound: calls of the request pool
  PromptLens,           \* lengths of the tokenized prompts
  OutputLens,           \* the output_len of requests
  NumBlocks,            \* num_gpu_blocks
  BlockSize,            \* block_size
  MaxBatchSize,         \* max_batch_size
  MaxTokensInBatch,     \* max_tokens_in_batch
  MaxSeqsInBlockTable   \* max_seqs_in_block_table

ASSUME SwiftAssumption ==
  /\ {NumRequests, NumBlocks, BlockSize, MaxBatchSize, MaxSeqsInBlockTable} \subseteq Nat \ {0}
  /\ PromptLens \subseteq Nat \ {0} /\ OutputLens \subseteq Nat \ {0}
  /\ MaxTokensInBatch \in Nat

Requests == 1 .. NumRequests
Ids == 0 .. MaxSeqsInBlockTable - 1
Blocks == 0 .. NumBlocks - 1

VARIABLES
  submitted,   \* how many requests were made; a request is its number
  request,     \* prompt_len, output_len and the method that made it
  client,      \* where the coroutine of the caller is
  raw,         \* untokenized_raw_requests
  tokenizing,  \* cur_untokenized_raw_requests while the executor runs
  waiting,     \* waiting_q
  running,     \* running_q
  batch,       \* cur_batch
  mpc,         \* where the main loop is
  claimed,     \* num_decoding_gpu_blocks
  ids,         \* RequestIdManager.available_ids
  id,          \* request_id
  table,       \* the used part of every row of block_table
  free,        \* is_block_free
  num_free,    \* num_free_blocks
  outputs,     \* len(output_token_ids)
  queued,      \* output_q.qsize()
  got          \* tokens the caller of a stream has received

requestVars == <<submitted, request, client, queued, got>>
schedVars == <<waiting, running, batch, claimed, ids, id>>
poolVars == <<table, free, num_free>>
vars == <<submitted, request, client, raw, tokenizing, waiting, running, batch, mpc, claimed,
          ids, id, table, free, num_free, outputs, queued, got>>

SwiftInit ==
  /\ submitted = 0 /\ request = << >> /\ client = << >>
  /\ raw = << >> /\ tokenizing = << >> /\ waiting = << >> /\ running = << >> /\ batch = << >>
  /\ mpc = "sleep" /\ claimed = 0
  /\ ids = [k \in 1 .. MaxSeqsInBlockTable |-> MaxSeqsInBlockTable - k]
  /\ id = [r \in Requests |-> -1]
  /\ table = [i \in Ids |-> << >>] /\ free = Blocks /\ num_free = NumBlocks
  /\ outputs = [r \in Requests |-> 0] /\ queued = [r \in Requests |-> 0]
  /\ got = [r \in Requests |-> 0]

is_finished(r) == outputs[r] >= request[r].output_len
CeilDiv(n) == (n + BlockSize - 1) \div BlockSize
(* The sums of f over the first k requests of q, and over all of them. *)
Sums(f, q) ==
  LET s[k \in 0 .. Len(q)] == IF k = 0 THEN 0 ELSE s[k - 1] + f[q[k]] IN s
SumOver(f, q) == Sums(f, q)[Len(q)]
(* The list comprehension [r for r in q if r in S]. *)
Kept(q, S) ==
  LET t[k \in 0 .. Len(q)] ==
        IF k = 0 THEN << >> ELSE IF q[k] \in S THEN Append(t[k - 1], q[k]) ELSE t[k - 1]
  IN  t[Len(q)]

(* The main loop is in an await (or has ended with an exception). *)
Yielded == mpc \in {"sleep", "raised"}

-----------------------------------------------------------------------------
(* add_request_and_wait and add_request_and_stream, up to their await. *)
add_request ==
  /\ Yielded /\ submitted < NumRequests
  /\ submitted' = submitted + 1
  /\ \E p \in PromptLens, o \in OutputLens, m \in {"wait", "stream"} :
       /\ request' = Append(request, [prompt_len |-> p, output_len |-> o, method |-> m])
       /\ client' = Append(client, m)
  /\ raw' = Append(raw, submitted + 1)
  /\ UNCHANGED <<tokenizing, schedVars, poolVars, mpc, outputs, queued, got>>

(* finished_event is set. *)
Answer(r) ==
  /\ Yielded /\ client[r] = "wait" /\ is_finished(r)
  /\ client' = [client EXCEPT ![r] = "done"]
  /\ UNCHANGED <<submitted, request, raw, tokenizing, schedVars, poolVars, mpc, outputs, queued, got>>

(* output_q.get() and the yield of the generator, *)
StreamGet(r) ==
  /\ Yielded /\ client[r] = "stream" /\ queued[r] > 0
  /\ queued' = [queued EXCEPT ![r] = @ - 1]
  /\ got' = [got EXCEPT ![r] = @ + 1]
  /\ client' = [client EXCEPT ![r] = "yield"]
  /\ UNCHANGED <<submitted, request, raw, tokenizing, schedVars, poolVars, mpc, outputs>>

(* and the test that ends it when the consumer asks for the next token. *)
StreamResume(r) ==
  /\ Yielded /\ client[r] = "yield"
  /\ client' = [client EXCEPT ![r] = IF is_finished(r) THEN "done" ELSE "stream"]
  /\ UNCHANGED <<submitted, request, raw, tokenizing, schedVars, poolVars, mpc, outputs, queued, got>>

Client(r) == Answer(r) \/ StreamGet(r) \/ StreamResume(r)

-----------------------------------------------------------------------------
(* _tokenize_raw_request_event_loop: it takes the whole list and awaits the *)
(* executor.                                                                *)
TokenizeBegin ==
  /\ Yielded /\ tokenizing = << >> /\ raw # << >>
  /\ tokenizing' = raw
  /\ raw' = << >>
  /\ UNCHANGED <<requestVars, schedVars, poolVars, mpc, outputs>>

(* Mutation: the list is emptied only when the tokens are there. *)
TokenizeEndClears ==
  /\ Yielded /\ tokenizing # << >>
  /\ waiting' = waiting \o tokenizing
  /\ tokenizing' = << >> /\ raw' = << >>
  /\ UNCHANGED <<requestVars, running, batch, claimed, ids, id, poolVars, mpc, outputs>>

(* on_request_arrival. *)
TokenizeEnd ==
  /\ Yielded /\ tokenizing # << >>
  /\ waiting' = waiting \o tokenizing
  /\ tokenizing' = << >>
  /\ UNCHANGED <<requestVars, raw, running, batch, claimed, ids, id, poolVars, mpc, outputs>>

Tokenizer == TokenizeBegin \/ TokenizeEnd

-----------------------------------------------------------------------------
(* Mutation: the blocks of the prompt only. *)
block_needed_prompt == [r \in 1 .. submitted |-> CeilDiv(request[r].prompt_len)]

(* _get_block_needed *)
block_needed == [r \in 1 .. submitted |-> CeilDiv(request[r].prompt_len + outputs[r])]
prompt_lens == [r \in 1 .. submitted |-> request[r].prompt_len]

(* The conditions under which the requests q are admitted in one batch. *)
CanAdmit(q) ==
  /\ Len(running) + Len(q) <= MaxBatchSize
  /\ SumOver(block_needed, q) + claimed <= NumBlocks
  /\ SumOver(prompt_lens, q) <= MaxTokensInBatch
(* The loop takes one request after the other while they hold. *)
Admitted ==
  LET First(n) == SubSeq(waiting, 1, n)
  IN  First(CHOOSE n \in 0 .. Len(waiting) :
              /\ \A m \in 1 .. n : CanAdmit(First(m))
              /\ n = Len(waiting) \/ ~CanAdmit(First(n + 1)))

AtGetNextBatch == mpc \in {"sleep", "next"}

(* get_id pops the ids of the first n requests of q from the end. *)
GiveIds(q, n) ==
  /\ id' = [r \in Requests |->
              IF \E j \in 1 .. n : q[j] = r
              THEN ids[Len(ids) + 1 - CHOOSE j \in 1 .. n : q[j] = r] ELSE id[r]]
  /\ ids' = SubSeq(ids, 1, Len(ids) - n)

Admit ==
  /\ AtGetNextBatch
  /\ LET q == Admitted
     IN  /\ q # << >> /\ Len(q) <= Len(ids)
         /\ GiveIds(q, Len(q))
         /\ waiting' = SubSeq(waiting, Len(q) + 1, Len(waiting))
         /\ running' = running \o q
         /\ claimed' = claimed + SumOver(block_needed, q)
         /\ batch' = q
  /\ mpc' = "forward"
  /\ UNCHANGED <<requestVars, raw, tokenizing, poolVars, outputs>>

(* It raises when the batch has more requests than there are ids. *)
AdmitRaises ==
  /\ AtGetNextBatch
  /\ LET q == Admitted
     IN  /\ Len(q) > Len(ids)
         /\ GiveIds(q, Len(ids))
         /\ waiting' = SubSeq(waiting, Len(q) + 1, Len(waiting))
  /\ mpc' = "raised"
  /\ UNCHANGED <<requestVars, raw, tokenizing, running, batch, claimed, poolVars, outputs>>

(* Mutation: the claim is computed again only while something runs. *)
ClaimedNowKept == IF running = << >> THEN claimed ELSE SumOver(block_needed, running)

ClaimedNow == SumOver(block_needed, running)
TooMany == Len(running) > MaxBatchSize \/ ClaimedNow > NumBlocks

(* Nothing is admitted: the running requests decode, or the loop sleeps. *)
Decode ==
  /\ AtGetNextBatch /\ Admitted = << >> /\ ~TooMany
  /\ claimed' = ClaimedNow
  /\ batch' = running
  /\ mpc' = IF running = << >> THEN "sleep" ELSE "forward"
  /\ UNCHANGED <<requestVars, raw, tokenizing, waiting, running, ids, id, poolVars, outputs>>

(* The victim has left running_q when the misspelt attribute is read. *)
VictimRaises ==
  /\ AtGetNextBatch /\ Admitted = << >> /\ TooMany
  /\ claimed' = ClaimedNow
  /\ running' = Front(running)
  /\ mpc' = "raised"
  /\ UNCHANGED <<requestVars, raw, tokenizing, waiting, batch, ids, id, poolVars, outputs>>

-----------------------------------------------------------------------------
(* forward: allocate_blocks_for_seqs takes the lowest free blocks and deals *)
(* them to the rows of the batch; it raises unless CanAllocate.             *)
target_num_blocks == [r \in 1 .. submitted |-> CeilDiv(request[r].prompt_len + outputs[r])]
Missing == [r \in 1 .. submitted |-> target_num_blocks[r] - Len(table[id[r]])]
CanAllocate ==
  /\ \A r \in ToSet(batch) : Missing[r] >= 0
  /\ SumOver(Missing, batch) <= num_free

(* The k-th of torch.nonzero(is_block_free). *)
LowestFree(k) == CHOOSE b \in free : Cardinality({c \in free : c < b}) = k - 1

Forward ==
  /\ mpc = "forward" /\ CanAllocate
  /\ LET n == SumOver(Missing, batch)
         new == [k \in 1 .. n |-> LowestFree(k)]
         RowOf(k) == SubSeq(new, Sums(Missing, batch)[k - 1] + 1, Sums(Missing, batch)[k])
     IN  /\ free' = free \ ToSet(new)
         /\ num_free' = num_free - n
         /\ table' = [i \in Ids |->
              IF \E k \in DOMAIN batch : id[batch[k]] = i
              THEN table[i] \o RowOf(CHOOSE k \in DOMAIN batch : id[batch[k]] = i)
              ELSE table[i]]
  /\ mpc' = "post"
  /\ UNCHANGED <<requestVars, raw, tokenizing, schedVars, outputs>>

(* The rest of the iteration: every request of the batch gets its token;    *)
(* free_seqs_resources and on_batch_finish take the finished ones out.      *)
Produced == [r \in Requests |-> IF r \in ToSet(batch) THEN outputs[r] + 1 ELSE outputs[r]]
Ended == {r \in 1 .. submitted : Produced[r] >= request[r].output_len}
FinishedNow == Kept(batch, Ended)

num_allocated == [r \in 1 .. submitted |-> Len(table[id[r]])]

(* Mutation: num_seq_allocated_blocks is not set to 0. *)
free_blocks_keeping_rows(done) ==
  /\ num_free' = num_free + SumOver(num_allocated, done)
  /\ free' = free \cup UNION {ToSet(table[id[r]]) : r \in ToSet(done)}
  /\ UNCHANGED table

free_blocks_for_seqs(done) ==
  /\ num_free' = num_free + SumOver(num_allocated, done)
  /\ free' = free \cup UNION {ToSet(table[id[r]]) : r \in ToSet(done)}
  /\ table' = [i \in Ids |-> IF \E r \in ToSet(done) : id[r] = i THEN << >> ELSE table[i]]

(* Mutation: the ids of the whole batch are given back. *)
FreedIdsOfBatch(done) == ids \o [j \in DOMAIN batch |-> id[batch[j]]]

FreedIds(done) == ids \o [j \in DOMAIN done |-> id[done[j]]]

Post ==
  /\ mpc = "post"
  /\ outputs' = Produced
  /\ queued' = [r \in Requests |-> IF r \in ToSet(batch) THEN queued[r] + 1 ELSE queued[r]]
  /\ free_blocks_for_seqs(FinishedNow)
  /\ ids' = FreedIds(FinishedNow)
  /\ running' = Kept(running, (1 .. submitted) \ Ended)
  /\ mpc' = "next"
  /\ UNCHANGED <<submitted, request, client, got, raw, tokenizing, waiting, batch, claimed, id>>

Main == Admit \/ AdmitRaises \/ Decode \/ VictimRaises \/ Forward \/ Post

SwiftNext == add_request \/ (\E r \in 1 .. submitted : Client(r)) \/ Tokenizer \/ Main

(* The event loop resumes every coroutine whose await is over; a consumer  *)
(* goes on asking for tokens.                                              *)
SwiftSpec ==
  /\ SwiftInit /\ [][SwiftNext]_vars
  /\ WF_vars(Main) /\ WF_vars(Tokenizer)
  /\ \A r \in Requests : WF_vars(r <= submitted /\ Client(r))

-----------------------------------------------------------------------------
(* Every variable stays in its type. *)
SwiftTypeOK ==
  /\ submitted \in 0 .. NumRequests
  /\ Len(request) = submitted /\ Len(client) = submitted
  /\ request \in Seq([prompt_len : PromptLens, output_len : OutputLens,
                      method : {"wait", "stream"}])
  /\ client \in Seq({"wait", "stream", "yield", "done"})
  /\ {raw, tokenizing, waiting, running, batch} \subseteq Seq(1 .. submitted)
  /\ mpc \in {"sleep", "next", "forward", "post", "raised"}
  /\ claimed \in Nat
  /\ ids \in Seq(Ids) /\ id \in [Requests -> Ids \cup {-1}]
  /\ table \in [Ids -> Seq(Blocks)] /\ free \subseteq Blocks /\ num_free \in 0 .. NumBlocks
  /\ {outputs, queued, got} \subseteq [Requests -> Nat]

(* Blocks and request ids are neither lost nor given out twice, whatever   *)
(* mixture of batches the requests went through: a block is free or in one *)
(* place of one row, a row belongs to a running request, an id is          *)
(* available or that of one running request, and the count of free blocks  *)
(* on the host is that of the flags on the device.                         *)
ResourcesConserved ==
  mpc # "raised" =>
    /\ num_free = Cardinality(free)
    /\ \A b \in Blocks :
         Cardinality({p \in Ids \X (1 .. NumBlocks) :
                        p[2] \in DOMAIN table[p[1]] /\ table[p[1]][p[2]] = b})
           = IF b \in free THEN 0 ELSE 1
    /\ LET held == ids \o [j \in DOMAIN running |-> id[running[j]]]
       IN  Len(held) = MaxSeqsInBlockTable /\ ToSet(held) = Ids
    /\ \A i \in Ids : table[i] # << >> => \E r \in ToSet(running) : id[r] = i

(* What holds in every state of the engine: the types, and that blocks and *)
(* ids are conserved (get_id, free_blocks_for_seqs, forward).              *)
SwiftInv == SwiftTypeOK /\ ResourcesConserved

(* The claim the scheduler admits by is out of date: it is counted when a  *)
(* batch starts and not reduced when a request ends.  Even so the blocks   *)
(* that forward allocates for a batch are always free, so neither the      *)
(* assertion nor the RuntimeError of the block manager is ever raised.     *)
EnoughBlocks == mpc = "forward" => CanAllocate

(* A request is queued in exactly one place until it is finished, and in   *)
(* the order of the calls: none is lost between the append of a client and *)
(* the await of the tokenizer, and none overtakes another.                 *)
NoneLost ==
  mpc # "raised" =>
    LET line == running \o waiting \o tokenizing \o raw IN
    /\ \A j, k \in DOMAIN line : j < k => line[j] < line[k]
    /\ ToSet(line) = {r \in 1 .. submitted : ~is_finished(r)}

(* Every caller is answered, unless an exception ends the main loop or a   *)
(* prompt alone is too long to be admitted: the claim of finished requests *)
(* does not keep the queue waiting for ever.                               *)
Admissible(r) ==
  request[r].prompt_len <= MaxTokensInBatch /\ CeilDiv(request[r].prompt_len) <= NumBlocks
RequestsAnswered ==
  \A r \in Requests : r <= submitted ~>
    \/ r <= submitted /\ client[r] = "done"
    \/ mpc = "raised" \/ \E q \in 1 .. submitted : ~Admissible(q)

(* output_q streams the output of a request back to the user: a stream     *)
(* that has ended has delivered all of it (structs.py).                    *)
StreamComplete ==
  \A r \in 1 .. submitted :
    request[r].method = "stream" /\ client[r] = "done" => got[r] = request[r].output_len
=============================================================================
