# A TLA+ model of Artifact-Infer

Artifact-Infer composes LLM inference engines from *artifacts* (block managers, attention
backends, compression, schedulers) that are registered with each other. This directory models
the parts of it that decide *what happens in which order*: who holds which KV-cache block, which
request runs next, what a worker process executes, which graph of components is finalized. The
numerical code (layers, kernels, sampling) is abstracted to what these decisions read.

Paths below are relative to the repository, which is `src/` in `PROJECT.json`.

## 1. The system

### Components, their state and operations

| Component | Source | State | Operations |
|---|---|---|---|
| Block manager with prefix cache | `workshop/nanovllm_base/artifacts/block_mngr/block_manager.py`, `services/engine/sequence.py` | per block: reference count, hash, tokens; `hash_to_block_id`; free deque; used set; per sequence: tokens, block table, cached tokens | `allocate`, `deallocate`, `can_append`, `may_append`, `reset` |
| Scheduler and engine loop | `workshop/nanovllm_base/services/engine/{scheduler,llm_engine}.py` | `waiting`, `running`, the batch of the step, sequence status | `generate`, `add_request`, `step`, `schedule`, `preempt`, `postprocess` |
| Model runner | `workshop/nanovllm_base/services/model_runner/model_runner.py` | KV cache, CUDA graphs | `prepare_prefill`, `prepare_decode`, `run` |
| Chunked-prefill engine | `src/services/nanovllm_chunked/` | the same, with computed tokens per sequence and a token budget per step | `generate`, `step`, `schedule`, `preempt`, `allocate_slots`, `deallocate`, `postprocess` |
| Worker IPC | `src/core/{artifact,orchestrator}.py` | one buffer in shared memory, one Event per worker, the collectives entered | `write_shm`, `read_shm`, `loop`, `sync_registry`, `exit` |
| Registry | `src/core/{orchestrator,artifact}.py` | artifacts and ids, bindings, edges, parents, cells, the compiled graph | `add`, `register`, `connect`, `deploy_distributed_runner`, `compile`, `finalize` |
| Asynchronous engine | `src/services/swift/`, `src/artifacts/swift/` | raw, waiting and running requests, request ids, block table and free flags on the device, output queues | `add_request_and_wait`, `add_request_and_stream`, the tokenizer loop, the main loop |
| Registration of `src/services` | `src/core/{artifact_base,service,service_base}.py` | attributes and methods copied to a service | `_register_method`, `_register_obj` |
| Snapshots | `src/core/snapshot.py` | records of tensor fingerprints | hooks, `compare` |
| KV compression engines | `workshop/nanovllm_kvc` (every head keeps `layer_budget` entries), `workshop/nanovllm_hard` (a head keeps what it selects) | block tables, free blocks, query blocks with a ring index, KV and query caches, page rows and entry counts of the heads | `generate`, `schedule`, `allocate_query`, `may_append_query`, `allocate_page_indices`, `compress`, `update_blocks_post_compression` |
| Expert parallelism | `workshop/nanovllm_moe_orch/artifacts/modeling/layers/moe/`, `artifacts/moe_backend/` | per rank: routing of the call, dense send buffer and marks, counts, received rows | `DispatchEPLL`, `DispatchEPHT`, `ExpertsEP*`, `CombineEP*` and the collectives between them |
| Parallel groups | `workshop/nanovllm_moe_orch/services/utils/parallel.py` | TP and EP process groups of a rank | `init_parallel_groups` |
| Multimodal engines | `src/services/nanovllm_vl*` | LRU cache of encoder results | `get`, `put` |

`src/services/nanovllm` to `nanovllm_v4` are successive copies of the `nanovllm_base` engine, `nanovllm_v5` to
`nanovllm_v8` of the compressing ones. `workshop/nanovllm_pp` is a copy of `nanovllm_base` without code for
pipeline stages.

### Interaction

`LLMEngine.generate` calls the scheduler, the scheduler calls the block manager, the engine calls
the model runner with the batch, the model runner writes KV rows through the block tables, and
`postprocess` appends the sampled tokens. All of this is one thread. In a tensor-parallel run the
call of the model runner is a `DistMethodCell`: rank 0 writes the command to shared memory,
sets the events of the workers and executes the method itself; the ranks meet in collectives. The
registry decides before all this which object provides which method. In the asynchronous engine
clients, tokenizer and main loop are coroutines that share lists. The compressing engines call `compress`
after `postprocess` of every so many steps: it reads the KV entries of a request through its block table,
stores what is kept in the first blocks and gives the rest back. In expert parallelism every rank runs an engine
of its own; what they share are the two exchanges in every call of the layer.

### Hard behaviours, and what makes each component correct

* Prefix sharing, revival of freed blocks, preemption and recomputation over long histories: blocks
  are counted exactly, shared blocks are never written, a sequence reads KV rows of its own tokens.
* Preemption inside a decode step: no request is lost, doubled or overtaken, no victim is scheduled.
* Chunks of a prompt, with accounting that moves before the work is done: budget, discard mask
  and block coverage agree; tokens are sampled only at the end of a sequence.
* One buffer without acknowledgement between processes: commands are executed once and in
  order, ranks enter the same collectives, exit ends everybody.
* Calls of the registry in any order, more than once: ids are unique, graphs current, cycles found,
  cells visible to ancestors.
* Coroutines that keep the event loop: no request falls between lists, every caller is answered.
* Tables that shrink while requests run and finish: both pools stay partitioned, no entry is overwritten before
  it is read, pages and tables name the same blocks.
* Exchanges with buffers that are never cleared, racing writers and buckets that overflow: a token's output is the
  sum over its own experts, losses are counted, nobody waits for a rank that has no row.

`PROJECT.json` lists each hazard at its line with the properties that cover it.

## 2. Modules

| Module | Models | Correspondence |
|---|---|---|
| `BlockManager` | the block manager and the sequence state it reads | One iteration of a loop is one action, `call` is the activation record of the loop. A Python assertion, and the index into the deque in `allocate`, is a guard, and `Assertions` states that it always holds; the index of `may_append` (line 112, 123) raises when the deque is empty (`MayAppendRaises`), and `Assertions` states that this takes blocks of one token and a pool of which every block is in some table. `MCBlockManager` checks it with blocks of three tokens and, beside it, a second instance with blocks of one. |
| `BlockManagerProofs` | theorems about `BlockManager`: who holds which block; what is in a block | section 5 |
| `Engine` | engine loop, scheduler, KV writes; EXTENDS `BlockManager` | `pc` is where the engine thread is; an action runs from one loop head or call to the next. `kv` is a ghost: the tokens a block's rows were computed from. An exception leaves `generate` in `DecodeRaises` and `RunRaises`. `MCEngine` checks it with blocks of two tokens and, beside it, a second instance with blocks of one. |
| `EngineProofs` | theorems about `Engine`: scheduling and the use of the block manager; the KV rows | section 5 |
| `Chunked` | the chunked engine with its own block manager | as `Engine`; `kv` per row, since a chunk may end inside a block; the loops of `allocate_slots`, `deallocate` and at the end of `schedule` are recursive functions of the number of iterations |
| `ChunkedProofs` | theorems about `Chunked` | section 5 |
| `Broadcast` | what rank 0 and workers promise each other | abstract specification: every worker executes every command in order, rank 0 issues one when the previous one was received |
| `WorkerIPC` | the protocol through the buffer | each access to the buffer, each Event operation and each collective is an action of its process |
| `WorkerIPCProofs` | theorems about `WorkerIPC` and its refinement of `Broadcast` | section 5 |
| `Registry` | the orchestrator | a call is an action; the cycle search and the loop of `finalize` are stepwise |
| `RegistryProofs` | theorems about `Registry` | section 5 |
| `Swift` | the asynchronous engine | an action runs from one await or phase of the main loop to the next; the guard `Yielded` says that the other coroutines stand still while the main loop does not await |
| `SwiftProofs` | theorems about `Swift` | section 5 |
| `KVCompress` | both compressing engines; `recipe` chooses one | an action is one part of `step`: `schedule`, `run`, `postprocess`, one request of `compress`; a KV entry is the token it was computed from, which entries score best is a choice |
| `KVCompressProofs` | theorems about `KVCompress` | section 5 |
| `MoELayer` | what an MoE layer promises: the output of a token is the sum over its own experts | abstract specification |
| `ExpertParallel` | the dispatch/experts/combine of `ep_ll` (torch loop or kernel) and `ep_ht` on the ranks of one EP group | what a rank does between two collectives is an action; a collective is an action of all ranks; a hidden state is the symbol (rank, call, token) |
| `ExpertParallelProofs` | theorems about `ExpertParallel` and its refinement of `MoELayer` | section 5 |

`MC*` modules hold the values for TLC. Definitions named in a comment "Mutation" are plausible
wrong versions of the definition after them; they are used to test that a property can fail.

Refinement: `Engine` implements `BMSpec` (every call of the engine respects the contract under which
the block manager is verified on its own); `WorkerIPC` implements `Broadcast`, with the executed
commands as the refinement mapping; `ExpertParallel` implements `MoELayer`, for the torch loop and `ep_ht` without
loss, for the kernel with at most the excess over the bucket lost.

Abstractions: a hash is the sequence of tokens it is computed from (no collisions); a prompt is
one of a few token sequences; a KV row is the prefix it depends on; token positions, sampling
temperatures and logits are left out, a sampled token is any token; a command is its number and
kind, without arguments and size; in `KVCompress` blocks hold one token (both recipes require it), the cache is that
of the first head of one layer, and the other heads keep other entries, as many of them; in `ExpertParallel` a weighted sum is the set of
its terms, and the padding of `moe_align_block_size` is left out; the cycle search takes roots and parents in any order where the
code follows the order in which they were added.

## 3. Runs

| Run | Question | Bounds | States |
|---|---|---|---|
| `block_manager` | every order of legal calls on the block manager | 3 blocks of 3 tokens, 2 sequences, 5 tokens; and the same with blocks of 1 | 418 608 |
| `engine` | preemption, sharing, waiting, exceptions and termination in one call of `generate` | 3 blocks of 2, 3 requests, batches of 2; and 3 blocks of 1, 2 requests | 261 992 |
| `chunked` | chunks smaller than a prompt, two end ids, preemption | 3 blocks of 2, 3 requests, budget 2 | 41 765 |
| `worker_ipc` | commands with and without a collective, synchronisation, and exit | 2 workers, 2 commands and exit, an artifact of 4 cells | 93 087 |
| `registry` | any order of calls on three artifacts | 4 calls | 449 825 |
| `swift` | clients, tokenizer and main loop | 3 requests, 3 blocks of 2, 2 ids, batches of 3 | 37 592 |
| `kv_compress` | both compressing engines, one or more calls of `generate` | 11 blocks, 3 requests, batches of 2, budget 5, cap 6, window 3, compression every 2 steps | 75 014 |
| `expert_parallel` | the exchange of one layer, two calls of each rank | 3 ranks of 2 experts, 2 experts per token, 2 tokens, buckets of 1 | 26 360 |
| `chunked_preempt` | expected violation of `NoLeak` | | |
| `worker_ipc_method` | expected violation of `NoneSkipped` | | |
| `swift_stream` | expected violation of `StreamComplete` | | |
| `worker_ipc_sync` | expected violation of `CollectivesPair` | | |

Why the bounds are enough. Three blocks for two or three sequences make every case of the block
manager occur: a block shared by two tables, a freed block that is revived, a freed block that is
reused while the dictionary still names it, an empty deque. Blocks of three tokens distinguish the
first, an inner and the last token of a block; blocks of two let a request of the engine cross two
boundaries. With blocks of one token, the default of `config.py`, every block is at once first, last and full, which is a path of its own in
`may_append`; in the engine two requests that may grow to three tokens each exhaust three such blocks, and prompts that repeat are
cached to their last token. Three requests with batches of two give a victim, a survivor and a waiting request
at once. Two workers are the first number for which the events are set one after the other; two commands and exit
suffice for one to be overwritten between two others. Four cells is the least that a tensor-parallel recipe of `bazaar`
deploys; the artifact with one cell, where synchronisation is in step, is covered by the proofs. In the registry three artifacts
form a chain, a diamond edge and every cycle up to length three, and two of them share a class, so
that suffixes meet the explicit id `X#2`. In `swift` three requests, of which any two that grow
outgrow the pool, reach both exceptions of the main loop, and admission by a claim that is out of
date. In `kv_compress` prompts lie on both sides of the budget and one is longer than any batch may be; three
requests share two query blocks and two page rows, so that a finished owner is followed by another; answers of
six tokens go through two compressions that cut the table, and requests finish in the batch that is compressed. In `expert_parallel`
three ranks are the first number for which `T_recv_cap` is exceeded and for which a rank
exchanges with two others; the two routings leave ranks without rows and overfill a bucket of one slot, and the
second call meets what the first left in the buffers. TLC fires every action of every next-state relation.

What they show, besides the type invariants:

* `block_manager`: reference counts equal table entries (`RefCount`), the pool is partitioned
  (`Partition`), the block a sequence writes next is its own (`OpenBlocksArePrivate`), full blocks carry
  the tokens of every sequence that names them (`TablesCoverTokens`), no assertion of the file can fail
  (`Assertions`). In a pool whose blocks hold one token (`UnitBlocks`) types, counts, partition and `Assertions` hold too, and
  `may_append` raises exactly where no block is free, which is where every block is in a table. `OpenBlocksArePrivate` and
  `TablesCoverTokens` say nothing of such blocks, and of `Assertions` the part about the hash of the last block neither.
* `engine`: `EngineInv` joins first come first served across preemption (`ArrivalOrder`), that only running
  sequences hold blocks (`OnlyRunningHold`), that `assert scheduled_seqs` holds when the pool holds the
  longest request (`ScheduleAsserts`), and that an exception leaves `generate` for two reasons only (`RaiseReasons`, below); the
  batch the model runner gets is well formed (`RunnerContract`; it does not ask for a query row of every sequence), the KV
  rows it reads are those of the sequence (`KVFaithful`), requests finish unless an exception left `generate` (`RequestsFinish`), the
  engine is a legal client of the block manager (`BMSpec`). `UnitEngine` is `EngineInv` and `RunnerContract` of the engine with blocks of
  one token. A run is one call of `generate`; that `reset` finds no count above 0 is checked by `block_manager`.
* `chunked`: the same questions for chunks: `ChunkedInv` joins `HeldBlocksStay`, `ArrivalOrder` and `NoEmptyStep`;
  `GrowingBlocksArePrivate`, `SampleAtTheEnd`; `LostByPreemptionOnly` locates the leak that `chunked_preempt`
  exhibits: nothing else loses a block. `RequestsFinish` and `NoEmptyStep` are conditional on no block having leaked, so neither
  speaks of most runs with a preemption.
* `worker_ipc`: up to the first command whose collectives are not one for one (`Unpaired`), exactly-once broadcast in order
  (`RefinesBroadcast`), matching collectives (`CollectivesMatch`) and shutdown; behind it, where commands may be lost, a worker still never
  goes back (`NeverBackwards`). Unpaired is a method without a collective, and `__SYNC_REGISTRY__` unless the artifact has exactly one cell. The
  tensor-parallel recipes of `bazaar` synchronise first of all an artifact of four cells or more, so for them the first three
  properties say nothing after that, and disagreement 3 is what happens; they speak of the services `src/services/nanovllm*`, whose
  runners have the same loop without that command.
* `registry`: ids are unique (in `RegistryInv`), `CompiledGraphIsCurrent`, `CyclesAreFound`, `VisibleToAncestors`.
* `swift`: blocks and ids are conserved (in `SwiftInv`), the out-of-date claim never lets `forward`
  ask for more blocks than are free (`EnoughBlocks`), requests are in one list each and in order
  (`NoneLost`), callers are answered (`RequestsAnswered`). After an exception of the main loop the last two and the ids of
  `SwiftInv` say nothing.
* `kv_compress`: blocks and query blocks are free or held once (`PoolPartition`); after any number of
  compressions a cache holds entries of its own request, none twice, with the window that is always kept
  (`CacheFaithful`); a query block holds the last window once a window was decoded (`QueryWindow`, silent before that); the
  heads read the pages of the table (`PagesFollowTable`, until a row is given to a second running request); `generate` ends, with all
  requests finished or with the exception of a pool that is too small (`GenerateEnds`). The cap is above the budget as in the shipped
  headwise configurations (`layer_budget` 1152, `layer_upper_budget` 2048), so that tables beyond the budget are compressed to up to 6
  entries.
* `expert_parallel`: dispatch hands every replica to the owner of its expert once (`ReplicasPlacedOnce`),
  the three recipes implement the layer (`RefinesLayer`), and a call ends on all ranks unless one raised or left
  (`LayersComplete`). With one slot per bucket the dense slots are not told apart; the theorems about the dense recipes hold for
  any number.

Deadlock is not checked where the system may really stop: the calls of `block_manager` and `registry` end
at their bounds, all processes of `WorkerIPC` exit (or a worker has raised or lost a command
and the others wait), `generate` of `KVCompress` returns or raises, the ranks of `ExpertParallel` come to the end of their
calls or wait for one that left, and after an exception the callers of `Swift` wait for ever.

### Disagreements the runs exhibit

1. `chunked_preempt`: `preempt` clears the block table before `deallocate` reads it, so the blocks of
   a victim are never free again.
2. `worker_ipc_method`: a distributed method without a collective can be overwritten before a slow
   worker has read it, or hidden by that worker's `event.clear()`.
3. `worker_ipc_sync`: in `loop` the workers enter one barrier per cell for `__SYNC_REGISTRY__` and rank 0 enters one in
   all. With four cells a worker waits in its second barrier when rank 0 goes on, which the next collective of rank 0 then meets: the
   ranks are in different operations from there on.
4. `swift_stream`: `add_request_and_stream` stops as soon as the request is finished, with tokens still in its
   queue; since the main loop does not await while a batch is running, that is after the first
   token.

Observed while modelling, without a run of their own, first what `RaiseReasons` says of exceptions in the base engine: with
blocks of one token `can_append` asks for no free block, so a decode step that meets an exhausted pool raises `IndexError` at
`block_manager.py:112` where with larger blocks it would preempt; and a sequence that was found in the cache to its last token, a repeated
prompt or a preempted request whose length is a multiple of the block size, has no query row (`model_runner.py:163`), so that the
LM head (`embed_head.py:64`) takes the row before its place, that of another sequence, and has nothing to index if no sequence of the
batch has one. The model raises there (`DecodeRaises`, `RunRaises`); where only some sequences lack a row it lets the runner sample any
token for them, as it does for all.

Then: the compressors take `torch.prod` of the whole mask where one per entry is meant (`vanilla_topp_rewrite.py:134`), so that every entry
is selected and all heads keep as many, the length or the cap (`Counts`); the queries of a prefill are taken at the positions of the sequence
from the packed tensor of the batch, so all requests but the first start with queries of others, which is why
`QueryWindow` speaks of requests that have decoded a whole window; the comment at
`workshop/nanovllm_moe_orch/artifacts/moe_backend/moe_backend.py:310` says that the send buffer is zeroed in every call, it is not
(`dispatch_ep_ll.py:142` says so too, and `RefinesLayer` shows that it need not be); `T_recv_cap` holds the worst case of
two ranks only, and `moe_align_block_size` works on a buffer of that size before `triton_fused_moe` asserts it, so that an
overrun may write behind the buffer before it raises; a request that outgrows the whole pool makes
`schedule` preempt the only running sequence and fail its assertion (`ScheduleAsserts` is violated with two
blocks in place of three); the interception in `LLMEngine.step` of the chunked engine assigns `is_finished`,
a property without setter (`StepRaises`); `finalize` propagates an inherited state or distributed method again
under the class of the artifact that inherited it, against the comment at `src/core/orchestrator.py:212`; cells
attached by `connect` and `deploy_distributed_runner` are bound by `finalize` but not listed in the compiled
graph; a stale entry of `hash_to_block_id` whose block was reused for the same tokens under another prefix is
taken for a hit (the reason for the premise `Unambiguous` of `KVFaithful`); the main loop of swift ends with an
`AttributeError` when the running requests outgrow the pool (`VictimRaises`).

## 4. Fairness

`Engine` and `Chunked` have weak fairness of the whole next-state relation: `generate()` is a
sequential loop on one thread, so some step is taken as long as there is one; which token is sampled or
which branch is taken is not assumed fair. Termination therefore does not rest on sampling the
end-of-sequence token but on the length limit. `WorkerIPC` has weak fairness for rank 0
and for every worker: the operating system runs each process; nothing is assumed about the order.
`KVCompress` has weak fairness of the next-state relation as `Engine` has. In `ExpertParallel` a rank runs on between
collectives and a collective ends once every rank has called it (weak fairness of each rank's step and of the
collectives); nothing makes an engine leave or stay.
`Swift` has weak fairness of the main loop, the tokenizer loop and each caller: asyncio resumes a coroutine
whose await is over, and the main loop keeps the event loop only for the finitely many steps of a
batch. That a consumer of a stream goes on asking is an assumption about the caller.

## 5. Proofs

TLAPS proves the theorems below for every value of the constants that satisfies the assumptions the
modules state (`PromptsAssumption`, `MaxLenAssumption` and so on), and the hypotheses named here, where there are any.

| Theorem | States | Hypothesis |
|---|---|---|
| `BMTypeCorrect`, `BMRefCount`, `BMPartition` | `BMSpec => []BMTypeOK`, `[]RefCount`, `[]Partition` | |
| `SharedBlocksAreNotWritten` | `BMSpec => []OpenBlocksArePrivate` | |
| `TablesHoldTheTokens` | `BMSpec => []TablesCoverTokens` | |
| `NoAssertionFails` | `BMSpec => []Assertions` | |
| `EngineUsesTheBlockManager` | `EngineSpec => BMSpec` | |
| `RequestsKeepTheirOrder`, `OnlyRunningRequestsHoldBlocks` | `EngineSpec => []ArrivalOrder`, `[]OnlyRunningHold` | |
| `BatchesAreWellFormed` | `EngineSpec => []RunnerContract` | |
| `RaisesAreExhaustionOrFullHits` | `EngineSpec => []RaiseReasons` | |
| `NoStepIsEmpty` | `EngineSpec => []EngineInv` | `EveryRequestFits` |
| `SequencesReadTheirOwnRows` | `EngineSpec => []KVFaithful` | |
| `BlocksAndOrder` | `Spec => [](TypeOK /\ HeldBlocksStay /\ ArrivalOrder)` of `Chunked` | |
| `ChunkedInvHolds` | `Spec => []ChunkedInv` | `LongestFits` |
| `RunnerContractHolds`, `GrowingBlocksPrivate` | `Spec => []RunnerContract`, `[]GrowingBlocksArePrivate` of `Chunked` | |
| `OnlyPreemptionLoses`, `SamplesAtTheEnd` | `Spec => LostByPreemptionOnly`, `Spec => SampleAtTheEnd` | |
| `RowsAreFaithful` | `Spec => []KVFaithful` of `Chunked` | |
| `ResourcesAreConserved`, `ForwardNeverRunsOut`, `NoRequestIsLost` | `SwiftSpec => []SwiftInv`, `[]EnoughBlocks`, `[]NoneLost` | |
| `PoolIsPartitioned`, `WindowsAreExact`, `PagesAreTheTable`, `CacheIsFaithful` | `Spec => []PoolPartition`, `[]QueryWindow`, `[]PagesFollowTable`, `[]CacheFaithful` of `KVCompress` | |
| `NothingOlderIsRead` | `Spec => []NeverBackwards` of `WorkerIPC` | |
| `CollectivesAgree` | `Spec => []CollectivesMatch` | |
| `DelegatesInOrder` | `Spec => B!Init /\ [][B!Next]_(B!vars)` | |
| `IdsStayUnique`, `GraphIsNeverStale`, `CyclesAreFoundExactly`, `CellsReachAllAncestors` | `Spec => []RegistryInv`, `[]CompiledGraphIsCurrent`, `[]CyclesAreFound`, `[]VisibleToAncestors` of `Registry` | |
| `CountersAreTrue` | `Spec => []LossIsCounted` of `ExpertParallel` | |
| `DenseDispatchIsExact` | `Spec => []ReplicasPlacedOnce` | `DenseOnly` |
| `DenseLayerIsTheSum` | `Spec => Layer!Init /\ [][Layer!Next]_(Layer!vars)` | `DenseOnly` |

**Who holds a block** (`BlockManagerProofs`). The inductive invariant `BMInv` has the types, `RefCount`,
`Partition`, finiteness of the set of holders of each block, and that a sequence with a block table has tokens.
`RefCount` alone is not inductive: to give a block to a sequence the step needs that the block at the head of the
deque has no holder, which is `Partition` (free means count 0) with `RefCount` (count 0 means no holder), and
conversely `Partition` survives a release only because the count that reaches 0 counts every holder. Finiteness is
needed because the cardinality of an infinite set is unspecified. The lemmas are about what a step does to the deque
and to the holders of one block when a table grows or shrinks by one entry; `BMNextInv` puts together one lemma per
action or call.

**What is in a block** (the second part of `BlockManagerProofs`). `BlockInv` adds three parts. `LoopInv` says where `allocate` and
`deallocate` are: how long the table is for the counter of the loop, and that the remaining blocks suffice, from the check of
`can_allocate`. `SizesInv` bounds a table by the blocks of its sequence, which is where the cases of `may_append` come
from. `RaisedInv` says that the deque is empty where `may_append` has raised, and by `Partition` and `RefCount` every block is then in a
table. `ContentInv` says that a block which is full in a table has a hash and the tokens of its place in the sequence, and
that the block a sequence grows in has neither hash nor tokens and is named once. The last part is what makes the
other inductive: a block may be written because nobody else names it, and nobody else comes to name it because only blocks
with a hash are found. These properties, like the code's `may_append`, treat blocks of one token apart; for them there are the first
three theorems and, of `Assertions`, all parts but the one about the hash of the last block, which hold for every block size; `UnitBlocks` is their instance for blocks of one token
in the run of `MCBlockManager`, and as a statement about that module only model-checked.

**The engine** (`EngineProofs`). The refinement `EngineSpec => BMSpec` is the substance: at every call the guard of the block
manager's client must follow from where the engine is. `EngineInd` therefore contains `BlockInv` and what the
queues say about the tables: that the scheduled ones have their slot for this step (`ReadyInv`), that the batch is a part of
`running` in its order (`BatchInv`), the limits of the batch (`LimitInv`), and `ArrivalOrder` and `OnlyRunningHold` themselves. `RunnerContract`
follows from it. After an exception `ArrivalOrder` is silent, because `schedule` has then taken sequences
from `running` that it never puts back (`StepsReturn` separates the steps that return); `RaisesAreExhaustionOrFullHits` says when
one may come. Its second case is arithmetic on `PrefixInv` below: a sequence cached to the end of its tokens consists of whole blocks
(`CachedBlocks`). `NoStepIsEmpty` needs the hypothesis `EveryRequestFits`: the longest sequence that is ever
scheduled fits the token budget of a batch and the pool. The first is the assertion of
`nanovllm_base/services/config.py` (`max_num_batched_tokens >= max_model_len`), the second is how a deployment sizes
its pool; without the first the head of `waiting` can be passed over for ever, without the second the only running
sequence preempts itself, and in both cases `assert scheduled_seqs` fails. `FitInd` adds that an
unfinished sequence has room for one more token, and which running sequences still lack a slot in this step (`PendingInv`); a sequence
that is alone can then always be appended to. `MCEngine` takes a batch budget one below the hypothesis, so that admission by tokens is also refused to requests that come
back after preemption.

**The KV rows** (the second part of `EngineProofs`). `KVFaithful` is not inductive because between two runs a block may be unreferenced, and is revived
with the rows it has. `ContentsKnown` closes the gap: a registered block, referenced or not, carries the tokens of a full
block of some sequence, and its rows were computed from that prefix or are about to be by the runner call that comes
next (`ToWrite`). With the premise of `KVFaithful` that equal blocks have equal prefixes (`Unambiguous`; without it the
code itself reads rows of another prefix, see section 3), a hit finds the rows of the prefix that was
looked up. `PrefixInv` ties the count of cached tokens to the blocks before the first miss, `LengthInv` and `PhaseInv` tell which
sequences a call of the runner may see.

**The chunked engine** (`ChunkedProofs`). Because `preempt` loses references, counts do not equal holders, and `RefCount` of the
base engine is false here. What is inductive is that there is *some* count `e[b]` of lost references with
`ref_count` = holders + `e[b]` (`CountOK`), and the proofs show of every iteration of the loops that it keeps whatever `e` fits, except that
a preemption raises it by the entries of the victim's table. That gives `HeldBlocksStay` at once (a count below the holders would
free a held block), and `OnlyPreemptionLoses` as the step version of it. `NamesOK` is the content part: a block with a hash is full and has the
tokens of every holder's place, a block without one has one holder, so that a block may grow. It rests on `FillLast`
giving a block its hash only once it is full, and on hits being possible on hashed blocks only. `Control` says where `schedule` and
`postprocess` are: the chunks scheduled so far are those of the first sequences of `running` in their order, with the
blocks they need (`Scheduling`, `Places`), so that preempting the tail never takes a scheduled one; the chunks and the remaining budget add
up (`Budget`); at the call of the runner each running sequence is covered by its blocks, and is either still behind or in the step (`OfStep`), which is
why `Discarded` and `num_computed_tokens`, advanced before the work is done, agree. `LongestFits` (`NoEmptyStep` only): prompt plus
`max_tokens`, less the token that is sampled last and never computed, fits the pool. Without it a request whose first chunk needs more blocks than there are is
never admitted and the steps stay empty, while no block is lost;
the instance of `MCChunked` satisfies it with 5 of 6 rows.

`RowsAreFaithful` adds `RowsInv` to that invariant: outside of a step, the rows of what a running sequence has computed hold its own
tokens. Within one the table may only grow at its end (`Prolonged`), because a preemption sets `num_computed_tokens` to 0 and
takes the sequence out of `running`; so the rows to be shown are those of the step before or are written by the runner now, the
rows of the chunks (`ToWrite`). What is left is that no other chunk writes them: a row belongs to two sequences only if the block is full
and its tokens are equal (`TwoHolders`, from `NamesOK`), and then, in an unambiguous workload, what both write or have
there is the same (`SharedRow`). The premise `Unambiguous` is about the tokens of now; tokens are only appended, so it
held before as well (`UnambiguousBefore`).

**The asynchronous engine** (`SwiftProofs`). `SInv` is the inductive invariant. Its heart is `ClaimInv`: the claim of the scheduler is at
least the blocks in use plus those the next forward pass will take (`Owed`), and at most the pool. It is kept although
the claim is never reduced when a request ends, because an ending only frees blocks and a request that goes on needs no more than
the claim is computed from at the next decode; at an admission the claim grows by the need of the new requests, which hold nothing.
That argument needs that a request never has more blocks than it needs (`RowInv`), that the blocks in use are the sum of the rows of the running requests
(`InUse`, from `PlaceInv`: each block is free or in one place of one row), that an id belongs to one running request (`IdInv`), since two
requests with one id would share a row, and that a batch is an increasing part of `running` (`BatchInv`). `QueueInv` says
that the queues in a line are the unfinished requests in the order of the calls; after an exception it says nothing, as the code then loses
requests. The sums and list comprehensions of the code are recursive functions; `SumsLoop` and `KeptLoop` prove that they exist and satisfy
their recursion, and the facts about them (monotone, additive, which members remain) follow by induction on a set of indices. `DealtRows` is the
kernel that deals the blocks to the rows: every new block goes to one place.

**The compressing engines** (`KVCompressProofs`). `Base` is what both recipes share: types, the queues (`Queues`: a running request holds
blocks and a query block, one that waits or has ended holds none), the batch of the phase (`Batches`; a request that is about to be
rewritten still has its `Budget` blocks), and `Pool`, which is `PoolPartition` in the form that steps preserve: the deque and
the tables are sequences without repetitions, apart from each other, that cover the pool. Each way a step moves blocks is one lemma
about `Pool` (`DealApart`, `ReturnApart`, `CutAt`): dealing runs of the head of the deque to the new requests, giving back whole tables, giving back the end of
one. `WindowInv` is needed because `QueryWindow` speaks only of requests with a whole window of decode steps: it says how many of the slots,
counted back from the last one written, hold the last tokens, namely as many as were decoded, so that a slot that the prefill filled with
queries of another request is always the next to be overwritten. `PagesInv` is about the row of a request outside of the
steps that write it (`Settled`, `Body`): each head counts as many entries as the table has, reads the table, and no other running request has the row.
A decode step writes behind the count of each head, which is behind the table it had; a compression shortens tables and counts alike,
because all heads keep equally many entries: `Counts` takes the least of the length and the cap for each. The theorems assume of the cap
only that it exceeds what is kept always.
`CacheInv` extends `CacheFaithful` from the ends of steps to every phase (`Good`, over the same `Settled` and `Body`), with three facts that make it
inductive. Layerwise no block of a table is empty, so that a table of `Budget` blocks has `Budget` entries to keep. Headwise
the first head counts its entries, so that what it selects is there. And a request of the batch that is not yet rewritten (`Due`) has its newest
token last, which the reversed window of the compressor then puts behind the sink; without this the newest entry could be
dropped. What a compressor may choose is any rising selection (`Picks`), and both choices keep tokens of the request, each once
(`LayerwiseFacts`, `HeadwiseFacts`).

**Worker IPC** (`WorkerIPCProofs`). `IPCInv` says, for each position of rank 0 in `write_shm` and `exit` and each position of a
worker in `loop`, what the buffer holds, whose event is set, and which commands were read (`BufferInv`); while no command can be lost, that a
worker is at most one command behind, and that a rank's list of collectives is the one its log prescribes (`LosslessInv`);
afterwards, that it never reads an older one (`LossyInv`). "Can be lost" is from the first `Unpaired` command on: a method without a
collective, because nothing makes rank 0 wait for it, and a `sync` of an artifact with other than one cell, because it leaves ranks in
different collectives. The theorems have no hypothesis on the number of cells, and say nothing behind such a command;
`CollectivesPair`, which does, is false. `DelegatesInOrder` is the step simulation of `Broadcast`: setting up maps to its
initial state, the write of a command to `Issue`, the read to `Execute`, everything else to a stutter.

**The registry** (`RegistryProofs`). `RegistryInd` joins types, unique ids, the current graph, which cells may be
in the tables of an artifact (`CellsInv`), the search (`SearchInv`) and the loop of `finalize` (`BindInv`). `SearchInv` is the
correctness of depth-first search with a set of finished nodes, for every graph: everything reachable from a finished
node is finished, the stack is a path, a node not yet finished can only be reached from there through the stack; so the search ends
without having raised only on a graph without a cycle. `BindInv` is that of a topological sweep: for the
artifacts bound so far, all their cells have arrived at all ancestors, and no later step takes one away.

**Expert parallelism** (`ExpertParallelProofs`). What makes the buckets work is counted, not assumed: that the torch loop's order and any
order of atomic adds give the replicas of a bucket the slots 0 to n - 1, each once (`RanksFill`, `DealtOnce`, from the cardinality of
finite sets). `EPInv` says that a rank that has dispatched keeps such a dealing in `indices` with the payloads of this call under
every mark (`DispatchInv`), and that between the two exchanges all ranks are in one call, so that what one has received is what the
other still holds (`ExchangeInv`). `DenseOnly` leaves `ep_ht` out: its ragged exchange is written with a library sort whose definition the
proof system does not have; there TLC alone checks `ReplicasPlacedOnce` and `RefinesLayer`.

Only model-checked: the instances `UnitBlocks` and `UnitEngine` (the theorems are about the modules, for every block size), and `ep_ht` in `ExpertParallel`. Liveness under fairness (`RequestsFinish`, `AllExit`, the fairness of `RefinesBroadcast` and
`RefinesLayer`, and so on) stays with TLC in any case: the proof system reasons neither about `ENABLED` nor about
leads-to under fairness.

## 6. Not modelled

Rendering of registry graphs, the registration layer of `src/services`, snapshots, the multimodal cache and the construction of
parallel groups (planned, below); the copies `nanovllm` to `nanovllm_v8` and `nanovllm_pp`; layers, kernels and models
(numerical); recipes, evaluation scripts and docs (read as documentation). In `KVCompress` fake compression and the compressors
other than SnapKV and the top-p rewrite are left out, in `ExpertParallel` the single-rank path and the scores of the router. In `Swift` the swap path and the CPU pool are left
out, because choosing a victim raises before they are used, and rows of the block table are taken
to be wide enough (`max_blocks_per_seq`). `PROJECT.json` has the reason for each part.

## 7. Plan

Done, in the order of importance: block manager with proofs, engine, chunked engine, worker IPC with its
abstract specification, registry, asynchronous engine, compressing engines, expert parallelism with the layer it
implements.

Proved: every invariant of `BlockManager`, every safety property that holds of `Engine`, `Chunked`, `WorkerIPC`, `Registry`, `Swift`
and `KVCompress`. Next theorems, in this order: the exchange of `ep_ht`;
that the TP group and the EP group of a rank meet in that rank alone (`parallel.py`), for every size of the groups.

Next modules: the parallel groups; the snapshot recorder (records with equal keys collapse); the multimodal cache
(`put` of an existing hash counts its size twice).
