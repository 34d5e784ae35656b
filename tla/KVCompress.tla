----------------------------- MODULE KVCompress -----------------------------
(***************************************************************************)
(* The engines that compress the KV cache while they generate:             *)
(* "layerwise" is the recipe bazaar/nanovllm_kvc.py, every head keeps      *)
(* layer_budget entries; "headwise" is bazaar/nanovllm_hard.py, every head *)
(* keeps what its compressor selects, layer_upper_budget entries at most.  *)
(* Blocks hold one token each.                                             *)
(*                                                                         *)
(* An entry of the caches is known by the token it was computed from, a    *)
(* pair <<request, position>>.  The contents of the KV cache are those of  *)
(* the first head of one layer; which entries a compressor scores highest  *)
(* is a choice.  All ranks do the same, so one stands for all.             *)
(***************************************************************************)
EXTENDS Integers, SequencesExt, FiniteSetsExt

CONSTANTS
  Recipes,            \* the recipes checked, a subset of {"layerwise", "headwise"}
  NumRequests,        \* bound: add_request calls
  Prompts,            \* lengths of the prompts, in the order they are added
  MaxTokens,          \* sampling_params.max_tokens
  NumBlocks,          \* config.num_kvcache_blocks
  MaxNumSeqs,         \* config.max_num_seqs, also the query blocks and the pool rows
  MaxBatchedTokens,   \* config.max_num_batched_tokens
  Budget,             \* config.layer_budget
  UpperBudget,        \* config.layer_upper_budget, headwise
  Window,             \* config.query_window_size, layerwise also the entries always kept
  Recent,             \* the headwise compressor's window_size
  Steps,              \* config.steps_between_cache_compressions
  NumHeads            \* key-value heads

ASSUME KVAssumption ==
  /\ Recipes \subseteq {"layerwise", "headwise"}
  /\ {NumRequests, MaxTokens, NumBlocks, MaxNumSeqs, Budget, Steps, NumHeads} \subseteq Nat \ {0}
  /\ Prompts \subseteq [1 .. NumRequests -> Nat \ {0}]
  /\ Window \in 1 .. Budget - 1 /\ Recent \in 1 .. Budget - 2
  /\ UpperBudget \in Nat /\ UpperBudget > Recent

Requests == 1 .. NumRequests
Blocks == 1 .. NumBlocks
Heads == 1 .. NumHeads
Rows == 1 .. MaxNumSeqs
Nothing == <<0, 0>>

VARIABLES
  recipe, plen,       \* chosen once: the recipe, the length of every prompt
  pc,                 \* where generate() is
  added,              \* requests 1 .. added were given to add_request
  waiting, running,   \* the scheduler's deques
  num_tokens,         \* seq.num_tokens
  table,              \* seq.block_table
  free,               \* BlockManager.free_block_ids
  qblock, qindex,     \* seq.query_block_id (0 for -1), seq.last_query_window_index
  qfree,              \* QueryBlockManager.free_block_ids
  todo,               \* the requests of the batch that compress() still rewrites
  batch,              \* what schedule returned, the cu_seqs of the cache manager
  prefill,            \* is_prefill
  curStep,            \* cur_step % steps_between_cache_compressions
  kv,                 \* kv_cache: block -> token
  qcache,             \* q_cache: query block -> slot -> token
  row,                \* seq_to_pool_id (0: none), headwise as all below
  nextRow,            \* cu_seq_pool_id
  pages,              \* seq_to_slot_pool: row -> head -> blocks
  heads,              \* num_blocks_head: request -> head -> entries
  collided            \* history: a row was given away while its request was running

queues == <<added, waiting, running, num_tokens, batch, prefill>>
blocks == <<table, free, qblock, qindex, qfree>>
caches == <<kv, qcache, row, nextRow, pages, heads, collided>>
fixed == <<recipe, plen>>
vars == <<fixed, pc, queues, blocks, caches, curStep, todo>>

BlockSeq == [i \in Blocks |-> i]

Init ==
  /\ recipe \in Recipes /\ plen \in Prompts
  /\ pc = "idle" /\ added = 0 /\ waiting = << >> /\ running = << >>
  /\ num_tokens = plen
  /\ table = [r \in Requests |-> << >>] /\ free = BlockSeq
  /\ qblock = [r \in Requests |-> 0] /\ qindex = [r \in Requests |-> 0]
  /\ qfree = [i \in Rows |-> i]
  /\ batch = << >> /\ todo = << >> /\ prefill = FALSE /\ curStep = 0
  /\ kv = [b \in Blocks |-> Nothing]
  /\ qcache = [q \in Rows |-> [i \in 0 .. Window - 1 |-> Nothing]]
  /\ row = [r \in Requests |-> 0] /\ nextRow = 1
  /\ pages = [p \in Rows |-> [h \in Heads |-> << >>]]
  /\ heads = [r \in Requests |-> [h \in Heads |-> 0]]
  /\ collided = FALSE

-----------------------------------------------------------------------------
(* generate(): the prompts of a call are added, step() runs until all are  *)
(* finished, reset_blocks ends the call.  cur_step, the caches and the     *)
(* query blocks live on from one call to the next.                         *)
Generate ==
  /\ pc = "idle"
  /\ \E n \in added + 1 .. NumRequests :
       /\ waiting' = [i \in 1 .. n - added |-> added + i]
       /\ added' = n
  /\ pc' = "schedule"
  /\ UNCHANGED <<fixed, running, num_tokens, batch, prefill, blocks, caches, curStep, todo>>

Return ==
  /\ pc = "schedule" /\ waiting = << >> /\ running = << >>
  /\ free' = BlockSeq
  /\ pc' = "idle" /\ batch' = << >>
  /\ UNCHANGED <<fixed, added, waiting, running, num_tokens, prefill, table, qblock, qindex,
                 qfree, caches, curStep, todo>>

-----------------------------------------------------------------------------
(* The blocks the first i waiting requests need: a block per token. *)
Needed(i) ==
  LET n[k \in 0 .. Len(waiting)] == IF k = 0 THEN 0 ELSE n[k - 1] + num_tokens[waiting[k]] IN n[i]

(* How many requests the prefill loop admits; requests that are running     *)
(* already are not counted.                                                *)
Admitted ==
  Max({0} \cup {i \in 1 .. Len(waiting) :
                  i <= MaxNumSeqs /\ Needed(i) <= MaxBatchedTokens /\ Needed(i) <= Len(free)})

IndexOf(r, s) == CHOOSE i \in DOMAIN s : s[i] = r
(* The list comprehension [e for e in s if e in S]. *)
Filter(s, S) ==
  LET t[k \in 0 .. Len(s)] ==
        IF k = 0 THEN << >> ELSE IF s[k] \in S THEN Append(t[k - 1], s[k]) ELSE t[k - 1]
  IN  t[Len(s)]

(* schedule(), prefill: allocate and allocate_query for every admitted.    *)
SchedulePrefill ==
  /\ pc = "schedule" /\ Admitted > 0 /\ Admitted <= Len(qfree)
  /\ LET new == SubSeq(waiting, 1, Admitted)
         at(r) == IndexOf(r, new)
     IN /\ table' = [r \in Requests |->
                       IF r \in Range(new)
                       THEN SubSeq(free, Needed(at(r) - 1) + 1, Needed(at(r))) ELSE table[r]]
        /\ qblock' = [r \in Requests |-> IF r \in Range(new) THEN qfree[at(r)] ELSE qblock[r]]
        /\ qindex' = [r \in Requests |-> IF r \in Range(new) THEN 1 % Window ELSE qindex[r]]
        /\ free' = SubSeq(free, Needed(Admitted) + 1, Len(free))
        /\ qfree' = SubSeq(qfree, Admitted + 1, Len(qfree))
        /\ running' = running \o new /\ batch' = new
        /\ waiting' = SubSeq(waiting, Admitted + 1, Len(waiting))
  /\ prefill' = TRUE /\ pc' = "run"
  /\ UNCHANGED <<fixed, added, num_tokens, caches, curStep, todo>>

Decoded == SubSeq(running, 1, Min({Len(running), MaxNumSeqs}))

(* Mutation: the query slot does not move. *)
KeepIndex(r) == qindex[r]

(* may_append_query: the slot the next query goes to. *)
NextIndex(r) == (qindex[r] + 1) % Window

(* Mutation: the assertion that something was scheduled is missing. *)
DecodableEmpty == Len(Decoded) <= Len(free)

Decodable == running # << >> /\ Len(Decoded) <= Len(free)

(* schedule(), decode: may_append and may_append_query; with blocks of one *)
(* token can_append is true whatever the pool holds.                       *)
ScheduleDecode ==
  /\ pc = "schedule" /\ Admitted = 0 /\ Decodable
  /\ table' = [r \in Requests |->
                 IF r \in Range(Decoded) THEN Append(table[r], free[IndexOf(r, Decoded)])
                 ELSE table[r]]
  /\ qindex' = [r \in Requests |-> IF r \in Range(Decoded) THEN NextIndex(r) ELSE qindex[r]]
  /\ free' = SubSeq(free, Len(Decoded) + 1, Len(free))
  /\ batch' = Decoded /\ prefill' = FALSE /\ pc' = "run"
  /\ UNCHANGED <<fixed, added, waiting, running, num_tokens, qblock, qfree, caches, curStep, todo>>

(* The exceptions of schedule(): free_block_ids[0] of an empty deque in    *)
(* allocate_query or may_append, "assert scheduled_seqs".  They leave      *)
(* generate() and end the program; what they leave half done is not        *)
(* followed.                                                               *)
ScheduleRaises ==
  /\ pc = "schedule" /\ waiting \o running # << >>
  /\ \/ Admitted > Len(qfree)
     \/ Admitted = 0 /\ running # << >> /\ Len(Decoded) > Len(free)
     \/ Admitted = 0 /\ running = << >>
  /\ pc' = "raised"
  /\ UNCHANGED <<fixed, queues, blocks, caches, curStep, todo>>

-----------------------------------------------------------------------------
(* The tokens of a prefill batch in the order of the packed tensors. *)
Packed == FlattenSeq([j \in DOMAIN batch |-> [i \in 1 .. plen[batch[j]] |-> <<batch[j], i - 1>>]])

(* prepare_prefill: slot i of the window gets the query at the position i   *)
(* of the window in the sequence, used as an index into the packed tensor.  *)
PrefillQueries(r) ==
  LET w == Min({Window, plen[r]})
  IN [i \in 0 .. Window - 1 |-> IF i < w THEN Packed[plen[r] - w + i + 1] ELSE qcache[qblock[r]][i]]

Overwrite(old, new) == new \o SubSeq(old, Len(new) + 1, Len(old))

(* allocate_page_indices: a new request takes the next row, round robin. *)
RowOf(r) == IF r \in Range(batch) THEN 1 + ((nextRow + IndexOf(r, batch) - 2) % MaxNumSeqs)
            ELSE row[r]
RequestOf(p) == {r \in Range(batch) : RowOf(r) = p}

RunPrefill ==
  /\ pc = "run" /\ prefill
  /\ kv' = [b \in Blocks |->
              LET own == {r \in Range(batch) : b \in Range(table[r])}
              IN IF own = {} THEN kv[b]
                 ELSE LET r == CHOOSE r \in own : TRUE IN <<r, IndexOf(b, table[r]) - 1>>]
  /\ qcache' = [q \in Rows |->
                  LET own == {r \in Range(batch) : qblock[r] = q}
                  IN IF own = {} THEN qcache[q] ELSE PrefillQueries(CHOOSE r \in own : TRUE)]
  /\ IF recipe = "headwise"
     THEN /\ row' = [r \in Requests |-> RowOf(r)]
          /\ nextRow' = 1 + ((nextRow + Len(batch) - 1) % MaxNumSeqs)
          /\ heads' = [r \in Requests |->
                         IF r \in Range(batch) THEN [h \in Heads |-> plen[r]] ELSE heads[r]]
          /\ pages' = [p \in Rows |-> [h \in Heads |->
                         IF RequestOf(p) = {} THEN pages[p][h]
                         ELSE Overwrite(pages[p][h], table[CHOOSE r \in RequestOf(p) : TRUE])]]
          /\ collided' = (collided \/ \E r \in Range(running) \ Range(batch), q \in Range(batch) :
                                        row[r] = RowOf(q))
     ELSE UNCHANGED <<row, nextRow, heads, pages, collided>>
  /\ pc' = "post"
  /\ UNCHANGED <<fixed, queues, blocks, curStep, todo>>

(* prepare_decode and attn: the last token enters the caches; headwise,    *)
(* its block is written to the row of every head behind the head's entries.*)
RunDecode ==
  /\ pc = "run" /\ ~prefill
  /\ LET last(r) == <<r, num_tokens[r] - 1>>
         grown == [r \in Requests |-> [h \in Heads |->
                     IF recipe = "headwise" /\ r \in Range(batch) THEN heads[r][h] + 1
                     ELSE heads[r][h]]]
         put(p, h, s) ==
           LET at(i) == {j \in DOMAIN batch : row[batch[j]] = p /\ grown[batch[j]][h] = i}
               n == Max({Len(s)} \cup {grown[r][h] : r \in {r \in Range(batch) : row[r] = p}})
           IN [i \in 1 .. n |-> IF at(i) = {} THEN s[i] ELSE Last(table[batch[Max(at(i))]])]
     IN /\ kv' = [b \in Blocks |->
                    IF \E r \in Range(batch) : Last(table[r]) = b
                    THEN last(CHOOSE r \in Range(batch) : Last(table[r]) = b) ELSE kv[b]]
        /\ qcache' = [q \in Rows |-> [i \in 0 .. Window - 1 |->
                        IF \E r \in Range(batch) : qblock[r] = q /\ qindex[r] = i
                        THEN last(CHOOSE r \in Range(batch) : qblock[r] = q) ELSE qcache[q][i]]]
        /\ heads' = grown
        /\ pages' = IF recipe = "layerwise" THEN pages
                    ELSE [p \in Rows |-> [h \in Heads |-> put(p, h, pages[p][h])]]
  /\ pc' = "post"
  /\ UNCHANGED <<fixed, queues, blocks, row, nextRow, collided, curStep, todo>>

-----------------------------------------------------------------------------
NextStep == curStep' = (curStep + 1) % Steps

(* deallocate of the finished requests q, in their order. *)
Released(q) ==
  LET t[k \in 0 .. Len(q)] == IF k = 0 THEN << >> ELSE t[k - 1] \o Reverse(table[q[k]]) IN t[Len(q)]

(* postprocess: a token is appended to every request of the batch; any may *)
(* be eos.  Then step() compresses every so many steps if work is left.    *)
Postprocess ==
  /\ pc = "post"
  /\ \E eos \in SUBSET Range(batch) :
       LET done == eos \cup {r \in Range(batch) : num_tokens[r] + 1 - plen[r] = MaxTokens}
           over == Filter(batch, done)
           left == Filter(running, Requests \ done)
       IN /\ free' = free \o Released(over)
          /\ table' = [r \in Requests |-> IF r \in done THEN << >> ELSE table[r]]
          /\ qfree' = qfree \o [k \in DOMAIN over |-> qblock[over[k]]]
          /\ qblock' = [r \in Requests |-> IF r \in done THEN 0 ELSE qblock[r]]
          /\ running' = left
          /\ IF (left # << >> \/ waiting # << >>) /\ curStep = 0
             THEN pc' = "compress" /\ UNCHANGED curStep
             ELSE pc' = "schedule" /\ NextStep
  /\ num_tokens' = [r \in Requests |-> num_tokens[r] + IF r \in Range(batch) THEN 1 ELSE 0]
  /\ UNCHANGED <<fixed, added, waiting, batch, prefill, qindex, caches, todo>>

-----------------------------------------------------------------------------
(* What the first head holds for a request, in the order of its blocks. *)
Entries(r) == Filter([i \in DOMAIN table[r] |-> kv[table[r][i]]], Requests \X Nat)

(* The ways to pick n of the elements a to b of s, in their order. *)
Picks(s, n, a, b) ==
  {[i \in 1 .. n |-> s[f[i]]] :
     f \in {f \in [1 .. n -> a .. b] : \A i, j \in 1 .. n : i < j => f[i] < f[j]}}

(* Mutation: the window is scored as the past is. *)
KeptWithoutWindow(e) == Picks(e, Budget, 1, Len(e))

(* SnapKV.update_kv: the best of the past, then the window; the order of   *)
(* the best, by score, is not told apart.                                  *)
KeptLayerwise(e) ==
  LET past == Len(e) - Window
  IN {p \o SubSeq(e, past + 1, Len(e)) : p \in Picks(e, Budget - Window, 1, past)}

(* VanillaToppKV.update_kv (rewrite), for a head that keeps n entries: the *)
(* sink, the window from its newest entry on, the selected ones.           *)
KeptHeadwise(e, n) ==
  LET past == Len(e) - Recent
  IN {<<e[1]>> \o Reverse(SubSeq(e, past + 1, Len(e))) \o p : p \in Picks(e, n - 1 - Recent, 2, past)}

(* The requests of the batch that are rewritten: a finished one holds no   *)
(* blocks and is below any budget.  Headwise, the loop over the batch      *)
(* returns at the first request below the budget.                          *)
Rewritten ==
  IF recipe = "layerwise" THEN Filter(batch, {r \in Requests : Len(table[r]) >= Budget})
  ELSE SubSeq(batch, 1, Min({Len(batch)} \cup
                            {i - 1 : i \in {j \in DOMAIN batch : Len(table[batch[j]]) < Budget}}))

StartCompress ==
  /\ pc = "compress"
  /\ todo' = Rewritten
  /\ pc' = "store"
  /\ UNCHANGED <<fixed, queues, blocks, caches, curStep>>

(* Mutation: the product is taken per entry; the first head selects fewer. *)
CountsPerHead(r) ==
  [h \in Heads |-> IF recipe = "layerwise" THEN Budget
                   ELSE Min({heads[r][h] - IF h = 1 THEN 1 ELSE 0, UpperBudget})]

(* How many entries every head keeps.  Headwise the product that is taken  *)
(* over the selected mask has no dimension, so it selects every entry and  *)
(* only the upper budget bounds the number.                                *)
Counts(r) ==
  [h \in Heads |-> IF recipe = "layerwise" THEN Budget ELSE Min({heads[r][h], UpperBudget})]

Kept(r, n) == IF recipe = "layerwise" THEN KeptLayerwise(Entries(r)) ELSE KeptHeadwise(Entries(r), n)

(* Mutation: the table is cut, the blocks behind it are not given back. *)
CutWithoutFreeing(r, n) ==
  /\ table' = [table EXCEPT ![r] = SubSeq(@, 1, n)]
  /\ UNCHANGED free

(* update_blocks_post_compression with the budget, or with the largest      *)
(* count of any head.                                                      *)
Cut(r, n) ==
  /\ free' = free \o Reverse(SubSeq(table[r], n + 1, Len(table[r])))
  /\ table' = [table EXCEPT ![r] = SubSeq(@, 1, n)]

(* One request: its entries are read through its table and what is kept is *)
(* stored from the first block on; the pages of its heads stay.            *)
Store ==
  /\ pc = "store" /\ todo # << >>
  /\ LET r == Head(todo)
         count == Counts(r)
         n == Max(Range(count))
     IN \E kept \in Kept(r, count[1]) :
          /\ kv' = [b \in Blocks |->
                      IF b \notin Range(SubSeq(table[r], 1, n)) THEN kv[b]
                      ELSE IF IndexOf(b, table[r]) <= Len(kept) THEN kept[IndexOf(b, table[r])]
                      ELSE Nothing]
          /\ Cut(r, n)
          /\ heads' = IF recipe = "headwise" THEN [heads EXCEPT ![r] = count] ELSE heads
  /\ todo' = Tail(todo)
  /\ UNCHANGED <<fixed, pc, queues, qblock, qindex, qfree, qcache, row, nextRow, pages, collided,
                 curStep>>

EndCompress ==
  /\ pc = "store" /\ todo = << >>
  /\ pc' = "schedule" /\ NextStep
  /\ UNCHANGED <<fixed, queues, blocks, caches, todo>>

Next ==
  \/ Generate \/ Return
  \/ SchedulePrefill \/ ScheduleDecode \/ ScheduleRaises
  \/ RunPrefill \/ RunDecode \/ Postprocess
  \/ StartCompress \/ Store \/ EndCompress

(* One thread runs generate() to its end. *)
Spec == Init /\ [][Next]_vars /\ WF_vars(Next)

-----------------------------------------------------------------------------
Live == Range(running)

(* Every element of B is in exactly one place of the deque f or of one of  *)
(* the tables t.                                                           *)
OnceHeld(B, f, t) ==
  LET held == [r \in 0 .. NumRequests |-> IF r = 0 THEN f ELSE t[r]]
  IN /\ \A b \in B : \E r \in DOMAIN held : b \in Range(held[r])
     /\ \A r, s \in DOMAIN held : \A i \in DOMAIN held[r], j \in DOMAIN held[s] :
          held[r][i] \in B /\ (held[r][i] = held[s][j] => r = s /\ i = j)

(* Every block and every query block is free or held by one request, once: *)
(* over the release of what was compressed away, of a batch that holds     *)
(* finished requests, and of the whole pool at the end of generate.        *)
PoolPartition ==
  /\ num_tokens \in [Requests -> Nat] /\ Range(waiting) \cup Live \subseteq 1 .. added
  /\ OnceHeld(Blocks, free, table)
  /\ OnceHeld(Rows, qfree, [r \in Requests |-> IF qblock[r] = 0 THEN << >> ELSE <<qblock[r]>>])

(* Between two steps the cache of a running request holds tokens of its    *)
(* own, none twice; layerwise the newest of the window in their order,     *)
(* headwise the sink: no compression overwrites an entry before it is      *)
(* read, and none reads another request's blocks.                          *)
CacheFaithful ==
  pc = "schedule" => \A r \in Live :
    LET e == Entries(r)
        stored == num_tokens[r] - 1
        w == Min({Window, stored})
    IN /\ IsInjective(e) /\ \A i \in DOMAIN e : e[i][1] = r /\ e[i][2] \in 0 .. stored - 1
       /\ recipe = "layerwise" => SubSeq(e, Len(e) - w + 1, Len(e)) = [i \in 1 .. w |-> <<r, stored - w + i - 1>>]
       /\ recipe = "headwise" => e[1] = <<r, 0>> /\ <<r, stored - 1>> \in Range(e)

(* Once a request has decoded a whole window, its query block holds the    *)
(* queries of exactly the last window, whatever the prefill or an earlier  *)
(* owner of the block left there (may_append_query, store_q_cache).        *)
QueryWindow ==
  pc = "schedule" => \A r \in Live :
    num_tokens[r] - 1 - plen[r] >= Window =>
      Range(qcache[qblock[r]]) = {<<r, num_tokens[r] - 1 - i>> : i \in 1 .. Window}

(* The pages the attention of a head reads are the blocks of the request,  *)
(* in the order of its table, when no row was given to a second request:   *)
(* compress cuts the table and leaves the rows as they are.                *)
PagesFollowTable ==
  recipe = "headwise" /\ pc = "schedule" /\ ~collided =>
    \A r \in Live, h \in Heads : SubSeq(pages[row[r]][h], 1, heads[r][h]) = table[r]

(* generate() comes to an end: every request is finished, or an exception  *)
(* of schedule() has ended the program.                                    *)
GenerateEnds ==
  <>(pc = "raised" \/ (pc = "idle" /\ added = NumRequests))
=============================================================================
