-------------------------- MODULE MCBlockManager --------------------------
(* A small instance of the block manager under every legal order of calls:  *)
(* three tokens per block, so that a token can start a block, fall inside   *)
(* one and complete one, and prompts that share a full first block.         *)
(*                                                                          *)
(* With one token per block may_append takes another path: Unit is a second *)
(* block manager with its own variables, and an execution is one of either. *)
EXTENDS BlockManager

CONSTANTS ta, tb

VARIABLES unit, uref, uhash, ucontent, uh2b, ufree, uused, utokens, utable, ucached, upending, ucall

MCToken == {ta, tb}
MCPrompts == {<<ta, ta>>, <<ta, ta, ta>>, <<ta, ta, ta, tb>>}

Unit == INSTANCE BlockManager WITH
  BlockSize <- 1, ref <- uref, hash <- uhash, content <- ucontent, h2b <- uh2b, free <- ufree,
  used <- uused, tokens <- utokens, table <- utable, cached <- ucached, pending <- upending,
  call <- ucall

unitVars == <<uref, uhash, ucontent, uh2b, ufree, uused, utokens, utable, ucached, upending, ucall>>

MCInit == BMInit /\ Unit!BMInit /\ unit \in BOOLEAN
MCNext ==
  \/ ~unit /\ BMNext /\ UNCHANGED <<unit, unitVars>>
  \/ unit /\ Unit!BMNext /\ UNCHANGED <<unit, bmVars>>

(* With one token per block may_append takes a block without asking        *)
(* can_append and raises on an empty deque (block_manager.py:111-119).     *)
(* Even so, references are counted exactly, no block is lost or doubled,   *)
(* no assertion fails, and may_append raises only when every block of the  *)
(* pool is in some table, with nothing done by half.                       *)
UnitBlocks == Unit!BMTypeOK /\ Unit!RefCount /\ Unit!Partition /\ Unit!Assertions
=============================================================================
