---------------------------- MODULE BlockManager ----------------------------
(***************************************************************************)
(* The paged KV-cache block manager with prefix caching                    *)
(* (workshop/nanovllm_base/artifacts/block_mngr/block_manager.py) together *)
(* with the part of Sequence it reads and writes (services/engine/         *)
(* sequence.py).                                                           *)
(*                                                                         *)
(* allocate and deallocate are loops over the blocks of one sequence: one  *)
(* iteration is one action and the variable "call" is the activation       *)
(* record of the loop, so no other operation runs before it returns.  A    *)
(* Python assertion, or the index into the deque in the loop of allocate,  *)
(* is a guard: the action is disabled where the program would raise, and   *)
(* the Assertions invariant says that this never happens.  The index in    *)
(* may_append does raise, with one token per block: it leaves a frame      *)
(* nothing returns from.                                                   *)
(***************************************************************************)
EXTENDS Integers, FiniteSets, SequencesExt

CONSTANTS
  NumBlocks,   \* len(self.blocks)
  BlockSize,   \* self.block_size
  SeqId,       \* the sequences of an execution
  Token,       \* token ids
  Prompts,     \* the prompts requests are made of
  MaxLen       \* bound: the longest sequence an execution grows

ASSUME NumBlocksAssumption == NumBlocks \in Nat \ {0}
ASSUME BlockSizeAssumption == BlockSize \in Nat \ {0}
ASSUME PromptsAssumption == \A p \in Prompts : p \in Seq(Token) /\ p # << >>
ASSUME MaxLenAssumption == MaxLen \in Nat /\ \A p \in Prompts : Len(p) <= MaxLen

VARIABLES
  ref,      \* Block.ref_count
  hash,     \* Block.hash
  content,  \* Block.token_ids
  h2b,      \* hash_to_block_id
  free,     \* free_block_ids, a deque
  used,     \* used_block_ids, a set
  tokens,   \* Sequence.token_ids
  table,    \* Sequence.block_table
  cached,   \* Sequence.num_cached_tokens
  pending,  \* the caller appended a token that the block table may not cover yet
  call      \* the activation record of allocate or deallocate

pool    == <<ref, hash, content, h2b, free, used>>
seqs    == <<tokens, table, cached, pending>>
bmVars  == <<ref, hash, content, h2b, free, used, tokens, table, cached, pending, call>>

Blocks == 0 .. NumBlocks - 1

(***************************************************************************)
(* xxhash over the token bytes and the hash of the previous block.  It is  *)
(* taken to be free of collisions: a hash is the sequence of the tokens it *)
(* was computed from, and -1 is the empty sequence.                        *)
(***************************************************************************)
NoHash == << >>
compute_hash(toks, prefix) == prefix \o toks

(* Sequence.num_blocks and Sequence.block; blocks count from 0. *)
num_blocks(s) == (Len(tokens[s]) + BlockSize - 1) \div BlockSize
block(s, i) ==
  SubSeq(tokens[s], i * BlockSize + 1,
         IF (i + 1) * BlockSize <= Len(tokens[s]) THEN (i + 1) * BlockSize
                                                  ELSE Len(tokens[s]))

EmptyMap == [h \in {} |-> 0]
NoCall == [op |-> "none"]
AllocateFrame(s, i, h, miss) == [op |-> "allocate", seq |-> s, i |-> i, h |-> h, miss |-> miss]
DeallocateFrame(s) == [op |-> "deallocate", seq |-> s]
RaisedFrame(s) == [op |-> "raised", seq |-> s]

-----------------------------------------------------------------------------
(* BlockManager.__init__ *)
BMInit ==
  /\ ref = [b \in Blocks |-> 0]
  /\ hash = [b \in Blocks |-> NoHash]
  /\ content = [b \in Blocks |-> << >>]
  /\ h2b = EmptyMap
  /\ free = [k \in 1 .. NumBlocks |-> k - 1]
  /\ used = {}
  /\ tokens = [s \in SeqId |-> << >>]
  /\ table = [s \in SeqId |-> << >>]
  /\ cached = [s \in SeqId |-> 0]
  /\ pending = [s \in SeqId |-> FALSE]
  /\ call = NoCall

(* Sequence.from_prompt *)
from_prompt(s, prompt) ==
  /\ call.op = "none"
  /\ tokens[s] = << >>
  /\ tokens' = [tokens EXCEPT ![s] = prompt]
  /\ UNCHANGED <<pool, table, cached, pending, call>>

(* Sequence.append_token; the caller appends to a sequence that holds its blocks. *)
append_token(s, t) ==
  /\ call.op = "none"
  /\ table[s] # << >> /\ ~pending[s]
  /\ Len(tokens[s]) < MaxLen
  /\ tokens' = [tokens EXCEPT ![s] = Append(@, t)]
  /\ pending' = [pending EXCEPT ![s] = TRUE]
  /\ UNCHANGED <<pool, table, cached, call>>

-----------------------------------------------------------------------------
(* self.free_block_ids.remove(block_id) *)
RemoveFromDeque(q, b) == RemoveAt(q, CHOOSE k \in DOMAIN q : q[k] = b)

(* dict item assignment *)
MapTo(m, h, b) == [k \in DOMAIN m \cup {h} |-> IF k = h THEN b ELSE m[k]]

can_allocate(s) == Len(free) >= num_blocks(s)

allocate(s) ==
  /\ call.op = "none"
  /\ tokens[s] # << >> /\ table[s] = << >>
  /\ can_allocate(s)
  /\ call' = AllocateFrame(s, 0, NoHash, FALSE)
  /\ UNCHANGED <<pool, seqs>>

(* Mutations of this loop: partial blocks get a hash too; the tokens of the *)
(* block that is hit are not compared.                                      *)
IterHashOfPartial == compute_hash(block(call.seq, call.i), call.h)
IterHitByHash == ~call.miss
  /\ (IF Len(block(call.seq, call.i)) = BlockSize
      THEN compute_hash(block(call.seq, call.i), call.h) ELSE NoHash) \in DOMAIN h2b

(* The values of one iteration of the loop of allocate. *)
IterTokens == block(call.seq, call.i)
IterHash == IF Len(IterTokens) = BlockSize THEN compute_hash(IterTokens, call.h) ELSE NoHash
IterHit == ~call.miss /\ IterHash \in DOMAIN h2b /\ content[h2b[IterHash]] = IterTokens

InAllocateLoop == call.op = "allocate" /\ call.i < num_blocks(call.seq)

(* _allocate_block: the two assertions, then the reset and the move from free to used. *)
_allocate_block(b) ==
  /\ ref[b] = 0 /\ b \in ToSet(free)
  /\ ref' = [ref EXCEPT ![b] = 1]
  /\ free' = RemoveFromDeque(free, b)
  /\ used' = used \cup {b}

(* The end of an iteration: block.update and the dict entry for a full     *)
(* block (a block that was just reset keeps hash -1 and no tokens), then   *)
(* the block joins the table.                                              *)
IterEnd(b) ==
  /\ hash' = [hash EXCEPT ![b] = IterHash]
  /\ content' = [content EXCEPT ![b] = IF IterHash # NoHash THEN IterTokens ELSE << >>]
  /\ h2b' = IF IterHash # NoHash THEN MapTo(h2b, IterHash, b) ELSE h2b
  /\ table' = [table EXCEPT ![call.seq] = Append(@, b)]
  /\ call' = AllocateFrame(call.seq, call.i + 1, IterHash, ~IterHit)
  /\ UNCHANGED <<tokens, pending>>

AllocateMiss ==
  /\ InAllocateLoop /\ ~IterHit
  /\ free # << >>
  /\ _allocate_block(Head(free))
  /\ IterEnd(Head(free))
  /\ UNCHANGED cached

(* Mutation: the reference count of a shared block is not raised. *)
AllocateShareUncounted ==
  /\ InAllocateLoop /\ IterHit
  /\ h2b[IterHash] \in used
  /\ IterEnd(h2b[IterHash])
  /\ cached' = [cached EXCEPT ![call.seq] = @ + BlockSize]
  /\ UNCHANGED <<ref, free, used>>

(* A hit on a block some sequence holds: the block is shared. *)
AllocateShare ==
  /\ InAllocateLoop /\ IterHit
  /\ h2b[IterHash] \in used
  /\ ref' = [ref EXCEPT ![h2b[IterHash]] = @ + 1]
  /\ IterEnd(h2b[IterHash])
  /\ cached' = [cached EXCEPT ![call.seq] = @ + BlockSize]
  /\ UNCHANGED <<free, used>>

(* A hit on a block that was freed and not reused since: it is revived. *)
AllocateRevive ==
  /\ InAllocateLoop /\ IterHit
  /\ h2b[IterHash] \notin used
  /\ _allocate_block(h2b[IterHash])
  /\ IterEnd(h2b[IterHash])
  /\ cached' = [cached EXCEPT ![call.seq] = @ + BlockSize]

AllocateReturn ==
  /\ call.op = "allocate" /\ call.i >= num_blocks(call.seq)
  /\ call' = NoCall
  /\ pending' = [pending EXCEPT ![call.seq] = FALSE]
  /\ UNCHANGED <<pool, tokens, table, cached>>

-----------------------------------------------------------------------------
deallocate(s) ==
  /\ call.op = "none"
  /\ table[s] # << >>
  /\ call' = DeallocateFrame(s)
  /\ UNCHANGED <<pool, seqs>>

(* Mutation: the released block does not go back to the deque. *)
DeallocateBlockLeaks ==
  /\ call.op = "deallocate" /\ table[call.seq] # << >>
  /\ ref' = [ref EXCEPT ![Last(table[call.seq])] = @ - 1]
  /\ used' = IF ref[Last(table[call.seq])] = 1 THEN used \ {Last(table[call.seq])} ELSE used
  /\ table' = [table EXCEPT ![call.seq] = Front(@)]
  /\ UNCHANGED <<hash, content, h2b, free, tokens, cached, pending, call>>

(* One iteration over reversed(seq.block_table).  An entry leaves the      *)
(* table as it is released; the code clears the whole table after the      *)
(* loop, which nothing can observe earlier.                                *)
DeallocateBlock ==
  /\ call.op = "deallocate" /\ table[call.seq] # << >>
  /\ LET b == Last(table[call.seq])
     IN  /\ ref' = [ref EXCEPT ![b] = @ - 1]
         /\ used' = IF ref[b] = 1 THEN used \ {b} ELSE used
         /\ free' = IF ref[b] = 1 THEN Append(free, b) ELSE free
  /\ table' = [table EXCEPT ![call.seq] = Front(@)]
  /\ UNCHANGED <<hash, content, h2b, tokens, cached, pending, call>>

(* Mutation: num_cached_tokens survives. *)
DeallocateReturnKeepsCached ==
  /\ call.op = "deallocate" /\ table[call.seq] = << >>
  /\ pending' = [pending EXCEPT ![call.seq] = FALSE]
  /\ call' = NoCall
  /\ UNCHANGED <<pool, tokens, table, cached>>

DeallocateReturn ==
  /\ call.op = "deallocate" /\ table[call.seq] = << >>
  /\ cached' = [cached EXCEPT ![call.seq] = 0]
  /\ pending' = [pending EXCEPT ![call.seq] = FALSE]
  /\ call' = NoCall
  /\ UNCHANGED <<pool, tokens, table>>

-----------------------------------------------------------------------------
(* Mutation: a free block is asked for with every token. *)
can_append_always_one(s) == Len(free) >= 1

can_append(s) == Len(free) >= (IF Len(tokens[s]) % BlockSize = 1 THEN 1 ELSE 0)

(* The tokens of the last block and the hash they get: the prefix is the   *)
(* hash of the second last entry of the (already extended) table.          *)
LastTokens(s) == block(s, num_blocks(s) - 1)
LastHash(s, tab, hashes) ==
  compute_hash(LastTokens(s), IF Len(tab) > 1 THEN hashes[tab[Len(tab) - 1]] ELSE NoHash)

(* Mutation: the dict entry without the update of the block. *)
RegisterLastInDictOnly(b, toks, h, hashes, contents) ==
  /\ hash' = hashes
  /\ content' = [contents EXCEPT ![b] = toks]
  /\ h2b' = MapTo(h2b, h, b)

(* last_block.update(h, token_ids) and the dict entry *)
RegisterLast(b, toks, h, hashes, contents) ==
  /\ hash' = [hashes EXCEPT ![b] = h]
  /\ content' = [contents EXCEPT ![b] = toks]
  /\ h2b' = MapTo(h2b, h, b)

(* may_append, block_size # 1: the last token starts a block. *)
MayAppendNew(s) ==
  /\ BlockSize # 1 /\ Len(tokens[s]) % BlockSize = 1
  /\ hash[Last(table[s])] # NoHash
  /\ free # << >>
  /\ _allocate_block(Head(free))
  /\ hash' = [hash EXCEPT ![Head(free)] = NoHash]
  /\ content' = [content EXCEPT ![Head(free)] = << >>]
  /\ table' = [table EXCEPT ![s] = Append(@, Head(free))]
  /\ UNCHANGED h2b

(* may_append, block_size # 1: the last token completes a block. *)
MayAppendFull(s) ==
  /\ BlockSize # 1 /\ Len(tokens[s]) % BlockSize = 0
  /\ hash[Last(table[s])] = NoHash
  /\ RegisterLast(Last(table[s]), LastTokens(s), LastHash(s, table[s], hash), hash, content)
  /\ UNCHANGED <<ref, free, used, table>>

(* may_append, block_size # 1: the last token is inside a block. *)
MayAppendInside(s) ==
  /\ BlockSize # 1 /\ Len(tokens[s]) % BlockSize \notin {0, 1}
  /\ hash[Last(table[s])] = NoHash
  /\ UNCHANGED <<pool, table>>

(* Mutation: the block is popped from the deque and not marked as used. *)
MayAppendUnitUnmarked(s) ==
  /\ BlockSize = 1
  /\ free # << >>
  /\ free' = Tail(free)
  /\ table' = [table EXCEPT ![s] = Append(@, Head(free))]
  /\ RegisterLast(Last(table[s]), LastTokens(s), LastHash(s, table'[s], hash), hash, content)
  /\ UNCHANGED <<ref, used>>

(* may_append, block_size = 1: a block is taken without asking whether one *)
(* is free, and the hash of the new token is written to the block that was *)
(* last before, not to the new one.                                        *)
MayAppendUnit(s) ==
  /\ BlockSize = 1
  /\ free # << >>
  /\ _allocate_block(Head(free))
  /\ table' = [table EXCEPT ![s] = Append(@, Head(free))]
  /\ RegisterLast(Last(table[s]), LastTokens(s),
                  LastHash(s, table'[s], [hash EXCEPT ![Head(free)] = NoHash]),
                  [hash EXCEPT ![Head(free)] = NoHash], [content EXCEPT ![Head(free)] = << >>])

may_append(s) ==
  /\ call.op = "none"
  /\ table[s] # << >> /\ pending[s]
  /\ MayAppendNew(s) \/ MayAppendFull(s) \/ MayAppendInside(s) \/ MayAppendUnit(s)
  /\ pending' = [pending EXCEPT ![s] = FALSE]
  /\ UNCHANGED <<tokens, cached, call>>

(* may_append where the branch that takes a block finds the deque empty:    *)
(* free_block_ids[0] raises before anything has changed.                    *)
MayAppendRaises(s) ==
  /\ call.op = "none"
  /\ table[s] # << >> /\ pending[s]
  /\ BlockSize = 1 \/ Len(tokens[s]) % BlockSize = 1
  /\ free = << >>
  /\ call' = RaisedFrame(s)
  /\ UNCHANGED <<pool, seqs>>

(* reset: the list of new Block objects is built and dropped, so ref_count, *)
(* hash and token_ids of the blocks survive.  The engine calls it when no   *)
(* sequence is left.                                                        *)
reset ==
  /\ call.op = "none"
  /\ \A s \in SeqId : table[s] = << >>
  /\ h2b' = EmptyMap
  /\ free' = [k \in 1 .. NumBlocks |-> k - 1]
  /\ used' = {}
  /\ UNCHANGED <<ref, hash, content, seqs, call>>

(* The body of the two loops. *)
CallStep == AllocateMiss \/ AllocateShare \/ AllocateRevive \/ DeallocateBlock

(***************************************************************************)
(* The block manager under every order of calls its contract allows: a     *)
(* sequence is allocated once, a token is appended to a sequence whose     *)
(* blocks cover it, may_append follows each appended token and is called   *)
(* where can_append holds (block_size 1 excepted, where the question is    *)
(* never a no), and a sequence may be deallocated at any time.             *)
(***************************************************************************)
BMNext ==
  \/ \E s \in SeqId :
       \/ \E p \in Prompts : from_prompt(s, p)
       \/ \E t \in Token : append_token(s, t)
       \/ allocate(s)
       \/ deallocate(s)
       \/ can_append(s) /\ (may_append(s) \/ MayAppendRaises(s))
  \/ CallStep
  \/ AllocateReturn
  \/ DeallocateReturn
  \/ reset

BMSpec == BMInit /\ [][BMNext]_bmVars

-----------------------------------------------------------------------------
CallType ==
  {NoCall} \cup [op : {"deallocate", "raised"}, seq : SeqId]
    \cup [op : {"allocate"}, seq : SeqId, i : Nat, h : Seq(Token), miss : BOOLEAN]

(* Every variable of the block manager stays in the type its code gives it. *)
BMTypeOK ==
  /\ ref \in [Blocks -> Nat]
  /\ hash \in [Blocks -> Seq(Token)]
  /\ content \in [Blocks -> Seq(Token)]
  /\ h2b \in [DOMAIN h2b -> Blocks]
  /\ free \in Seq(Blocks)
  /\ used \in SUBSET Blocks
  /\ tokens \in [SeqId -> Seq(Token)]
  /\ table \in [SeqId -> Seq(Blocks)]
  /\ cached \in [SeqId -> Nat]
  /\ pending \in [SeqId -> BOOLEAN]
  /\ call \in CallType

(* The places <<s, i>> where the block table of s holds block b. *)
Holders(b) == UNION {{<<s, i>> : i \in {k \in DOMAIN table[s] : table[s][k] = b}} : s \in SeqId}

(* The reference count of a block is the number of block-table entries that *)
(* name it, in the middle of allocate and deallocate too: a block that is   *)
(* released once too often, or never, breaks it (allocate, deallocate).     *)
RefCount == \A b \in Blocks : ref[b] = Cardinality(Holders(b))

(* Every block is on exactly one side: once in the free deque with no      *)
(* reference, or in used_block_ids with at least one (_allocate_block,     *)
(* _deallocate_block, reset).                                              *)
Partition ==
  /\ \A j, k \in DOMAIN free : free[j] = free[k] => j = k
  /\ \A b \in Blocks : b \in ToSet(free) <=> b \notin used
  /\ \A b \in Blocks : b \in used <=> ref[b] > 0

(* The tokens of s its block table must cover outside a call. *)
Covered(s) == Len(tokens[s]) - (IF pending[s] THEN 1 ELSE 0)
Holding(s) == table[s] # << >> /\ (call.op # "none" => call.seq # s)

(* The block a sequence will write its next KV row into, the last one of   *)
(* its table while it is not full, belongs to no other table entry: what   *)
(* prefix caching shares is never written again (allocate, may_append).    *)
OpenBlocksArePrivate ==
  BlockSize # 1 =>
    \A s \in SeqId : Holding(s) /\ Covered(s) < Len(table[s]) * BlockSize =>
      ref[Last(table[s])] = 1

(* The block table of a sequence has exactly the blocks its tokens need,   *)
(* and its full blocks carry this sequence's own tokens, whoever shares or *)
(* registers them (allocate, may_append).                                  *)
TablesCoverTokens ==
  BlockSize # 1 =>
    \A s \in SeqId : Holding(s) =>
      /\ (Len(table[s]) - 1) * BlockSize < Covered(s)
      /\ Covered(s) <= Len(table[s]) * BlockSize
      /\ \A i \in DOMAIN table[s] :
           i * BlockSize <= Covered(s) =>
             content[table[s][i]] = SubSeq(tokens[s], (i - 1) * BlockSize + 1, i * BlockSize)

(* No assertion of block_manager.py fails (lines 54, 56 and 80 in the loop *)
(* of allocate, 62 and 63 in the one of deallocate, 54, 122, 127 and 134   *)
(* in may_append), and an empty deque is indexed in one place only: in     *)
(* may_append with one token per block (line 112), where can_append never  *)
(* answers no.  It happens only when every block is in the table of some   *)
(* sequence, so never for a block that was lost.                           *)
Assertions ==
  /\ InAllocateLoop /\ ~IterHit => free # << >> /\ ref[Head(free)] = 0
  /\ InAllocateLoop /\ IterHit /\ h2b[IterHash] \notin used =>
       ref[h2b[IterHash]] = 0 /\ h2b[IterHash] \in ToSet(free)
  /\ call.op = "deallocate" /\ table[call.seq] # << >> =>
       ref[Last(table[call.seq])] > 0 /\ Last(table[call.seq]) \in used
  /\ BlockSize # 1 /\ call.op = "none" =>
       \A s \in SeqId : table[s] # << >> /\ pending[s] =>
         (Len(tokens[s]) % BlockSize = 1) <=> (hash[Last(table[s])] # NoHash)
  /\ free # << >> => ref[Head(free)] = 0
  /\ call.op = "raised" => BlockSize = 1 /\ \A b \in Blocks : Holders(b) # {}

=============================================================================
