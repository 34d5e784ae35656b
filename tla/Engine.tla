------------------------------- MODULE Engine -------------------------------
(***************************************************************************)
(* The continuous-batching engine of workshop/nanovllm_base: LLMEngine     *)
(* (services/engine/llm_engine.py), Scheduler (services/engine/            *)
(* scheduler.py) and what the model runner does to the KV cache            *)
(* (services/model_runner/model_runner.py), composed with the block        *)
(* manager.  The engine is one thread: pc is where generate() is, and each *)
(* action runs from one loop head or call to the next.  At "raised" an     *)
(* exception has left generate(); nothing catches it.                      *)
(***************************************************************************)
EXTENDS BlockManager

CONSTANTS
  MaxNumSeqs,           \* config.max_num_seqs
  MaxNumBatchedTokens,  \* config.max_num_batched_tokens
  Eos,                  \* config.eos, a token
  MaxTokens,            \* the values sampling_params.max_tokens takes
  IgnoreEos,            \* the requests whose sampling_params.ignore_eos is set
  BatchSize,            \* prompts per call of generate()
  MaxRounds             \* bound: calls of generate()

ASSUME EngineAssumption ==
  /\ SeqId = 1 .. BatchSize * MaxRounds
  /\ BatchSize \in Nat \ {0} /\ MaxRounds \in Nat \ {0}
  /\ MaxNumSeqs \in Nat \ {0} /\ MaxNumBatchedTokens \in Nat
  /\ MaxTokens \subseteq Nat \ {0}
  /\ Eos \in Token /\ IgnoreEos \subseteq SeqId

VARIABLES
  pc,         \* where the engine thread is
  waiting,    \* Scheduler.waiting, a deque
  running,    \* Scheduler.running, a deque
  scheduled,  \* scheduled_seqs of this step
  batched,    \* num_batched_tokens of this step
  prefill,    \* is_prefill of this step
  cur,        \* the sequence decode took from running, or 0
  status,     \* Sequence.status
  budget,     \* Sequence.num_prompt_tokens and max_tokens: the final length
  done,       \* how many of scheduled postprocess has handled
  nextId,     \* Sequence.counter
  kv          \* what the KV rows of a block were computed from

schedVars == <<waiting, running, scheduled, batched, prefill, cur, status, budget, done, nextId>>
engineVars == <<pc, waiting, running, scheduled, batched, prefill, cur, status, budget,
                done, nextId, kv>>
vars == <<ref, hash, content, h2b, free, used, tokens, table, cached, pending, call,
          pc, waiting, running, scheduled, batched, prefill, cur, status, budget,
          done, nextId, kv>>

NoSeq == 0

EngineInit ==
  /\ BMInit
  /\ pc = "add"
  /\ waiting = << >> /\ running = << >> /\ scheduled = << >>
  /\ batched = 0 /\ prefill = FALSE /\ cur = NoSeq /\ done = 0
  /\ status = [s \in SeqId |-> "none"]
  /\ budget = [s \in SeqId |-> 0]
  /\ nextId = 1
  /\ kv = [b \in Blocks |-> << >>]

-----------------------------------------------------------------------------
(* LLMEngine.add_request: Sequence.from_prompt, then Scheduler.add. *)
add_request ==
  /\ pc = "add" /\ nextId \in SeqId
  /\ \E p \in Prompts, m \in MaxTokens :
       /\ from_prompt(nextId, p)
       /\ budget' = [budget EXCEPT ![nextId] = Len(p) + m]
  /\ status' = [status EXCEPT ![nextId] = "WAITING"]
  /\ waiting' = Append(waiting, nextId)
  /\ nextId' = nextId + 1
  /\ pc' = IF nextId % BatchSize = 0 THEN "step" ELSE "add"
  /\ UNCHANGED <<running, scheduled, batched, prefill, cur, done, kv>>

(* Mutation: the loop of generate() looks at running only. *)
is_finished_running_only == running = << >>

is_finished == waiting = << >> /\ running = << >>

(* The head of the loop of generate(), down to the loop of schedule(). *)
StepBegin ==
  /\ pc = "step" /\ ~is_finished
  /\ scheduled' = << >> /\ batched' = 0
  /\ pc' = "prefill"
  /\ UNCHANGED <<bmVars, waiting, running, prefill, cur, status, budget, done, nextId, kv>>

(* generate() leaves its loop and resets the block manager. *)
GenerateEnd ==
  /\ pc = "step" /\ is_finished
  /\ reset
  /\ pc' = IF nextId \in SeqId THEN "add" ELSE "exit"
  /\ UNCHANGED <<schedVars, kv>>

-----------------------------------------------------------------------------
(* Mutation: the number of sequences in a batch is not bounded. *)
CanAdmitAnyNumber ==
  /\ waiting # << >>
  /\ batched + Len(tokens[Head(waiting)]) <= MaxNumBatchedTokens
  /\ can_allocate(Head(waiting))

(* The condition of the prefill loop and of its break. *)
CanAdmit ==
  /\ waiting # << >> /\ Len(scheduled) < MaxNumSeqs
  /\ batched + Len(tokens[Head(waiting)]) <= MaxNumBatchedTokens
  /\ can_allocate(Head(waiting))

Admit ==
  /\ pc = "prefill" /\ CanAdmit
  /\ allocate(Head(waiting))
  /\ pc' = "allocate"
  /\ UNCHANGED <<schedVars, kv>>

Admitted ==
  /\ pc = "allocate"
  /\ AllocateReturn
  /\ LET s == call.seq
     IN  /\ batched' = batched + Len(tokens[s]) - cached[s]
         /\ status' = [status EXCEPT ![s] = "RUNNING"]
         /\ waiting' = Tail(waiting)
         /\ running' = Append(running, s)
         /\ scheduled' = Append(scheduled, s)
  /\ pc' = "prefill"
  /\ UNCHANGED <<prefill, cur, budget, done, nextId, kv>>

PrefillEnd ==
  /\ pc = "prefill" /\ ~CanAdmit
  /\ pc' = IF scheduled # << >> THEN "run" ELSE "decode"
  /\ prefill' = (scheduled # << >>)
  /\ UNCHANGED <<bmVars, waiting, running, scheduled, batched, cur, status, budget, done,
                 nextId, kv>>

-----------------------------------------------------------------------------
CanDecode == running # << >> /\ Len(scheduled) < MaxNumSeqs

DecodeNext ==
  /\ pc = "decode" /\ CanDecode
  /\ cur' = Head(running)
  /\ running' = Tail(running)
  /\ pc' = "append"
  /\ UNCHANGED <<bmVars, waiting, scheduled, batched, prefill, status, budget, done, nextId, kv>>

DecodeAppend ==
  /\ pc = "append" /\ can_append(cur)
  /\ may_append(cur)
  /\ scheduled' = Append(scheduled, cur)
  /\ cur' = NoSeq
  /\ pc' = "decode"
  /\ UNCHANGED <<waiting, running, batched, prefill, status, budget, done, nextId, kv>>

(* With one token per block can_append is never a no: instead of preempting *)
(* somebody, schedule() raises.                                             *)
DecodeRaises ==
  /\ pc = "append" /\ can_append(cur)
  /\ MayAppendRaises(cur)
  /\ pc' = "raised"
  /\ UNCHANGED <<schedVars, kv>>

(* Mutations: the victim's table is cleared and its blocks are not released; *)
(* the victim goes to the end of waiting; the victim is not queued again.    *)
PreemptOtherDropsTable ==
  /\ pc = "append" /\ ~can_append(cur) /\ running # << >>
  /\ call.op = "none"
  /\ table' = [table EXCEPT ![Last(running)] = << >>]
  /\ call' = DeallocateFrame(Last(running))
  /\ running' = Front(running)
  /\ status' = [status EXCEPT ![Last(running)] = "WAITING"]
  /\ pc' = "preempt"
  /\ UNCHANGED <<pool, tokens, cached, pending, waiting, scheduled, batched, prefill, cur,
                 budget, done, nextId, kv>>
PreemptedToEnd ==
  /\ pc = "preempt"
  /\ DeallocateReturn
  /\ waiting' = Append(waiting, call.seq)
  /\ pc' = IF call.seq = cur THEN "decode" ELSE "append"
  /\ cur' = IF call.seq = cur THEN NoSeq ELSE cur
  /\ UNCHANGED <<running, scheduled, batched, prefill, status, budget, done, nextId, kv>>
PreemptedAndLost ==
  /\ pc = "preempt"
  /\ DeallocateReturn
  /\ pc' = IF call.seq = cur THEN "decode" ELSE "append"
  /\ cur' = IF call.seq = cur THEN NoSeq ELSE cur
  /\ UNCHANGED <<waiting, running, scheduled, batched, prefill, status, budget, done, nextId, kv>>

(* preempt(): the status, then deallocate; Preempted is its last line. *)
PreemptOther ==
  /\ pc = "append" /\ ~can_append(cur) /\ running # << >>
  /\ deallocate(Last(running))
  /\ running' = Front(running)
  /\ status' = [status EXCEPT ![Last(running)] = "WAITING"]
  /\ pc' = "preempt"
  /\ UNCHANGED <<waiting, scheduled, batched, prefill, cur, budget, done, nextId, kv>>

PreemptSelf ==
  /\ pc = "append" /\ ~can_append(cur) /\ running = << >>
  /\ deallocate(cur)
  /\ status' = [status EXCEPT ![cur] = "WAITING"]
  /\ pc' = "preempt"
  /\ UNCHANGED <<waiting, running, scheduled, batched, prefill, cur, budget, done, nextId, kv>>

Preempted ==
  /\ pc = "preempt"
  /\ DeallocateReturn
  /\ waiting' = <<call.seq>> \o waiting
  /\ pc' = IF call.seq = cur THEN "decode" ELSE "append"
  /\ cur' = IF call.seq = cur THEN NoSeq ELSE cur
  /\ UNCHANGED <<running, scheduled, batched, prefill, status, budget, done, nextId, kv>>

(* assert scheduled_seqs, then extendleft(reversed(scheduled_seqs)) *)
DecodeEnd ==
  /\ pc = "decode" /\ ~CanDecode
  /\ scheduled # << >>
  /\ running' = scheduled \o running
  /\ pc' = "run"
  /\ UNCHANGED <<bmVars, waiting, scheduled, batched, prefill, cur, status, budget, done,
                 nextId, kv>>

-----------------------------------------------------------------------------
(* The first i blocks' worth of tokens of s. *)
Upto(s, i) == SubSeq(tokens[s], 1, IF i * BlockSize <= Len(tokens[s]) THEN i * BlockSize
                                                                    ELSE Len(tokens[s]))

(* prepare_prefill fills the blocks after the cached ones, prepare_decode  *)
(* the slot of the last token: the block then holds KV rows computed from  *)
(* the tokens of that sequence up to there.                                *)
Writes == {w \in ToSet(scheduled) \X (1 .. MaxLen) :
             /\ w[2] \in DOMAIN table[w[1]]
             /\ IF prefill THEN w[2] > cached[w[1]] \div BlockSize ELSE w[2] = Len(table[w[1]])}

(* The query rows of a prefill are the tokens after the cached ones.  A    *)
(* sequence that is cached to its last token has none, and the LM head     *)
(* takes the row before its place, that of another sequence; in a batch    *)
(* without any row it has nothing to index (embed_head.py:64-65).          *)
HasQueryRows == prefill => \E s \in ToSet(scheduled) : cached[s] < Len(tokens[s])

(* A prefill of fully cached sequences writes nothing and raises. *)
RunRaises ==
  /\ pc = "run" /\ ~HasQueryRows
  /\ pc' = "raised"
  /\ UNCHANGED <<bmVars, schedVars, kv>>

run ==
  /\ pc = "run" /\ HasQueryRows
  /\ kv' = [b \in Blocks |->
              IF \E w \in Writes : table[w[1]][w[2]] = b
              THEN LET w == CHOOSE w \in Writes : table[w[1]][w[2]] = b IN Upto(w[1], w[2])
              ELSE kv[b]]
  /\ done' = 0
  /\ pc' = "post"
  /\ UNCHANGED <<bmVars, waiting, running, scheduled, batched, prefill, cur, status, budget,
                 nextId>>

-----------------------------------------------------------------------------
(* The loop of postprocess(): the sampled token is any token, that of a    *)
(* sequence without a query row too, which is sampled from a foreign row.  *)
PostAppend ==
  /\ pc = "post" /\ done < Len(scheduled)
  /\ \E t \in Token : append_token(scheduled[done + 1], t)
  /\ pc' = "check"
  /\ UNCHANGED <<schedVars, kv>>

Stops(s) == \/ s \notin IgnoreEos /\ Last(tokens[s]) = Eos
            \/ Len(tokens[s]) = budget[s]

PostContinue ==
  /\ pc = "check" /\ ~Stops(scheduled[done + 1])
  /\ done' = done + 1
  /\ pc' = "post"
  /\ UNCHANGED <<bmVars, waiting, running, scheduled, batched, prefill, cur, status, budget,
                 nextId, kv>>

PostStop ==
  /\ pc = "check" /\ Stops(scheduled[done + 1])
  /\ deallocate(scheduled[done + 1])
  /\ status' = [status EXCEPT ![scheduled[done + 1]] = "FINISHED"]
  /\ pc' = "finish"
  /\ UNCHANGED <<waiting, running, scheduled, batched, prefill, cur, budget, done, nextId, kv>>

PostFinished ==
  /\ pc = "finish"
  /\ DeallocateReturn
  /\ running' = RemoveFromDeque(running, call.seq)
  /\ done' = done + 1
  /\ pc' = "post"
  /\ UNCHANGED <<waiting, scheduled, batched, prefill, cur, status, budget, nextId, kv>>

StepEnd ==
  /\ pc = "post" /\ done = Len(scheduled)
  /\ pc' = "step"
  /\ UNCHANGED <<bmVars, schedVars, kv>>

(* One iteration of the loop of allocate or deallocate. *)
LoopStep ==
  /\ pc \in {"allocate", "preempt", "finish"}
  /\ CallStep
  /\ UNCHANGED engineVars

(* generate() has returned for good, or an exception has left it. *)
Exited == pc \in {"exit", "raised"} /\ UNCHANGED vars

EngineStep ==
  \/ add_request \/ StepBegin \/ GenerateEnd
  \/ Admit \/ Admitted \/ PrefillEnd
  \/ DecodeNext \/ DecodeAppend \/ PreemptOther \/ PreemptSelf \/ Preempted \/ DecodeEnd
  \/ run \/ PostAppend \/ PostContinue \/ PostStop \/ PostFinished \/ StepEnd
  \/ LoopStep \/ Exited

EngineNext == EngineStep \/ DecodeRaises \/ RunRaises

(* generate() is a sequential loop: the thread takes its next step. *)
EngineSpec == EngineInit /\ [][EngineNext]_vars /\ WF_vars(EngineNext)

-----------------------------------------------------------------------------
(* Every variable of the engine stays in its type. *)
EngineTypeOK ==
  /\ BMTypeOK
  /\ pc \in {"add", "step", "prefill", "allocate", "decode", "append", "preempt", "run",
             "post", "check", "finish", "exit", "raised"}
  /\ waiting \in Seq(SeqId) /\ running \in Seq(SeqId) /\ scheduled \in Seq(SeqId)
  /\ batched \in Nat /\ done \in Nat /\ prefill \in BOOLEAN
  /\ cur \in SeqId \cup {NoSeq}
  /\ status \in [SeqId -> {"none", "WAITING", "RUNNING", "FINISHED"}]
  /\ budget \in [SeqId -> Nat]
  /\ nextId \in Nat \ {0}
  /\ kv \in [Blocks -> Seq(Token)]

(* The unfinished sequences in the order the scheduler serves them: those  *)
(* decode has scheduled, the one it is looking at, running, the victim of  *)
(* a preemption under way, waiting.                                        *)
Decoding == pc \in {"decode", "append", "preempt"}
Line ==
  (IF Decoding THEN scheduled ELSE << >>)
    \o (IF cur # NoSeq THEN <<cur>> ELSE << >>)
    \o running
    \o (IF pc = "preempt" /\ call.seq # cur THEN <<call.seq>> ELSE << >>)
    \o waiting

(* First come, first served: no admission, preemption or re-admission lets *)
(* a younger request overtake an older one, and no unfinished request is   *)
(* ever lost or queued twice (schedule, preempt, postprocess), as long as  *)
(* no exception leaves schedule() with the sequences it took from running. *)
InOrder ==
  /\ \A j, k \in DOMAIN Line : j < k => Line[j] < Line[k]
  /\ ToSet(Line) \subseteq 1 .. nextId - 1
  /\ \A s \in 1 .. nextId - 1 :
       s \in ToSet(Line) <=> status[s] # "FINISHED" \/ (pc = "finish" /\ call.seq = s)
ArrivalOrder == pc # "raised" => InOrder

(* A sequence that waits, was preempted or has finished holds no block and *)
(* counts no cached token, except while its deallocate is under way; a     *)
(* running one has blocks (preempt, postprocess).                          *)
OnlyRunningHold ==
  \A s \in SeqId : (call.op # "none" => call.seq # s) =>
    /\ status[s] = "RUNNING" <=> table[s] # << >>
    /\ status[s] # "RUNNING" => cached[s] = 0

(* What the model runner relies on when it is called: a batch that is not  *)
(* empty, within the limits, without a sequence twice, and in which the    *)
(* block table of every sequence covers all its tokens (schedule).         *)
RunnerContract ==
  pc = "run" =>
    /\ scheduled # << >> /\ Len(scheduled) <= MaxNumSeqs
    /\ prefill => batched <= MaxNumBatchedTokens
    /\ \A j, k \in DOMAIN scheduled : scheduled[j] = scheduled[k] => j = k
    /\ \A s \in ToSet(scheduled) :
         /\ s \in ToSet(running)
         /\ ~pending[s] /\ Len(table[s]) = num_blocks(s)

(* No full block of tokens occurs in the sequences seen so far under two   *)
(* different prefixes.                                                     *)
FullBlocks ==
  {x \in (1 .. nextId - 1) \X (1 .. MaxLen) : x[2] * BlockSize <= Len(tokens[x[1]])}
Unambiguous ==
  \A x, y \in FullBlocks :
    block(x[1], x[2] - 1) = block(y[1], y[2] - 1) => Upto(x[1], x[2]) = Upto(y[1], y[2])

(* Where the workload is unambiguous, the KV rows a sequence reads were    *)
(* computed from its own tokens, through sharing, revival, preemption and  *)
(* recomputation.  (For an ambiguous one this is false: a stale entry of   *)
(* hash_to_block_id whose block was reused for the same tokens under       *)
(* another prefix is taken for a hit, because allocate compares the tokens *)
(* of the block and not its hash.)                                         *)
KVFaithful ==
  BlockSize # 1 /\ pc = "post" /\ done = 0 /\ Unambiguous =>
    \A s \in ToSet(scheduled) : \A i \in DOMAIN table[s] : kv[table[s][i]] = Upto(s, i)

(* The assertion of schedule(): a step schedules at least one sequence. *)
ScheduleAsserts == pc = "decode" /\ ~CanDecode => scheduled # << >>

(* An exception leaves generate() in two situations only: every block of a *)
(* pool of one-token blocks is in the table of a running request, where a  *)
(* pool of larger blocks would preempt; or every sequence of a prefill     *)
(* batch consists of full blocks that were all found in the cache          *)
(* (block_manager.py:112, model_runner.py:163, embed_head.py:65).          *)
RaiseReasons ==
  pc = "raised" =>
    \/ /\ BlockSize = 1
       /\ \A b \in Blocks : \E s \in SeqId : status[s] = "RUNNING" /\ b \in ToSet(table[s])
    \/ /\ prefill
       /\ \A s \in ToSet(scheduled) : cached[s] = Len(tokens[s]) /\ Len(tokens[s]) % BlockSize = 0

(* What holds in every state of the engine: the types, the order of the    *)
(* requests, who holds blocks, that no step is empty, and where an         *)
(* exception may come from (schedule, preempt, postprocess, run).          *)
EngineInv ==
  EngineTypeOK /\ ArrivalOrder /\ OnlyRunningHold /\ ScheduleAsserts /\ RaiseReasons

(* Every request that is added finishes (generate() loops until            *)
(* is_finished) unless an exception leaves generate(), under the weak      *)
(* fairness of the engine thread.                                          *)
RequestsFinish ==
  \A s \in SeqId : status[s] = "WAITING" ~> status[s] = "FINISHED" \/ pc = "raised"
=============================================================================
