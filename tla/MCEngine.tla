------------------------------ MODULE MCEngine ------------------------------
(* Small instances of the engine: a pool that is too small for all requests *)
(* at once, so that prefill waits and decode preempts, and prompts that     *)
(* share a prefix.                                                          *)
(*                                                                          *)
(* Unit is a second engine with one token per block, the default of         *)
(* config.py, and a pool that two requests exhaust; an execution is one of  *)
(* either.                                                                  *)
EXTENDS Engine

CONSTANTS x, y

VARIABLES
  unit, uref, uhash, ucontent, uh2b, ufree, uused, utokens, utable, ucached, upending, ucall,
  upc, uwaiting, urunning, uscheduled, ubatched, uprefill, ucur, ustatus, ubudget, udone,
  unextId, ukv

MCToken == {x, y}
MCPrompts == {<<x, x>>, <<x, x, y>>, <<y, x>>}

Unit == INSTANCE Engine WITH
  BlockSize <- 1, SeqId <- {1, 2}, BatchSize <- 2,
  Prompts <- {<<x>>, <<x, y>>}, MaxTokens <- {1, 3}, MaxNumBatchedTokens <- 4,
  ref <- uref, hash <- uhash, content <- ucontent, h2b <- uh2b, free <- ufree, used <- uused,
  tokens <- utokens, table <- utable, cached <- ucached, pending <- upending, call <- ucall,
  pc <- upc, waiting <- uwaiting, running <- urunning, scheduled <- uscheduled,
  batched <- ubatched, prefill <- uprefill, cur <- ucur, status <- ustatus, budget <- ubudget,
  done <- udone, nextId <- unextId, kv <- ukv

unitVars == <<uref, uhash, ucontent, uh2b, ufree, uused, utokens, utable, ucached, upending,
              ucall, upc, uwaiting, urunning, uscheduled, ubatched, uprefill, ucur, ustatus,
              ubudget, udone, unextId, ukv>>

MCInit == EngineInit /\ Unit!EngineInit /\ unit \in BOOLEAN
MCNext ==
  \/ ~unit /\ EngineNext /\ UNCHANGED <<unit, unitVars>>
  \/ unit /\ Unit!EngineNext /\ UNCHANGED <<unit, vars>>

MCSpec == MCInit /\ [][MCNext]_<<unit, vars, unitVars>> /\ WF_<<unit, vars, unitVars>>(MCNext)

(* With one token per block, too, requests keep their order, only running  *)
(* ones hold blocks and the runner gets a complete batch, until schedule() *)
(* takes a block of a pool in which every block is held by a running       *)
(* request: there it raises where it would preempt with larger blocks      *)
(* (scheduler.py:50-60, block_manager.py:111-113).                         *)
UnitEngine == Unit!EngineInv /\ Unit!RunnerContract
=============================================================================
