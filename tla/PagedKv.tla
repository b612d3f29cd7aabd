------------------------------ MODULE PagedKv ------------------------------
(***************************************************************************)
(* The paged KV cache of cellm-cache: one BlockAllocator shared by every   *)
(* session (allocator.rs), a PageTable per session (pagetable.rs), and the *)
(* physical slab the blocks index (kvcache.rs).  The tables are grown by   *)
(* the model runners, truncated by the engine's cache hits and resets, and *)
(* freed by cancel_session.                                                *)
(*                                                                         *)
(* A K/V entry stands for the K and V vectors of one token in every layer. *)
(* A call that returns OutOfBlocks or InvalidTokenPos changes nothing, and *)
(* is not a step.                                                          *)
(***************************************************************************)
EXTENDS Integers, Sequences

CONSTANTS
  Session,         \* owners of page tables
  Entry,           \* K/V entries a runner may write
  Blank,           \* what the slab holds before anything is written
  TotalBlocks,     \* EngineConfig::total_blocks
  TokensPerBlock   \* EngineConfig::tokens_per_block

\* BlockAllocator::new asserts that the ids fit u32; PageTable::new refuses 0.
ASSUME SizeAssumption ==
  /\ TotalBlocks \in Nat
  /\ TokensPerBlock \in Nat \ {0}

VARIABLES
  free_list,       \* BlockAllocator::free_list, oldest free id first
  is_free,         \* BlockAllocator::is_free
  in_use,          \* BlockAllocator::in_use
  blocks,          \* blocks[s]: PageTable::blocks of session s
  token_count,     \* token_count[s]: PageTable::token_count of session s
  slab,            \* slab[b][o]: entry stored at offset o of block b
  fault            \* a free() has answered DoubleFree or InvalidBlockId

vars == <<free_list, is_free, in_use, blocks, token_count, slab, fault>>

Block  == 0..(TotalBlocks - 1)
Offset == 0..(TokensPerBlock - 1)

TypeOK ==
  /\ free_list \in Seq(Block)
  /\ is_free \in [Block -> BOOLEAN]
  /\ in_use \in Nat
  /\ blocks \in [Session -> Seq(Block)]
  /\ token_count \in [Session -> Nat]
  /\ slab \in [Block -> [Offset -> Entry \cup {Blank}]]
  /\ fault \in BOOLEAN

-----------------------------------------------------------------------------
(* BlockAllocator                                                          *)

(* Mutant: ids numbered from 1.                                            *)
AllocatorInitFromOne ==
  /\ free_list = [i \in 1..TotalBlocks |-> i]
  /\ is_free = [b \in Block |-> TRUE]
  /\ in_use = 0

(* BlockAllocator::new: every id is free, in increasing order.             *)
AllocatorInit ==
  /\ free_list = [i \in 1..TotalBlocks |-> i - 1]
  /\ is_free = [b \in Block |-> TRUE]
  /\ in_use = 0

(* Mutant: front() where pop_front() is meant.                             *)
AllocPeeks ==
  /\ free_list # << >>
  /\ is_free' = [is_free EXCEPT ![Head(free_list)] = FALSE]
  /\ in_use' = in_use + 1
  /\ UNCHANGED free_list

(* BlockAllocator::alloc: the oldest free id, if there is one.             *)
Alloc ==
  /\ free_list # << >>
  /\ free_list' = Tail(free_list)
  /\ is_free' = [is_free EXCEPT ![Head(free_list)] = FALSE]
  /\ in_use' = in_use + 1

(* The ids a sequence of free() calls accepts: allocated, and no repeats.  *)
Freeable(ids) ==
  /\ \A i \in DOMAIN ids : ids[i] \in Block /\ ~is_free[ids[i]]
  /\ \A i, j \in DOMAIN ids : ids[i] = ids[j] => i = j

(* Mutant: in_use is not decremented.                                      *)
FreeKeepsInUse(ids) ==
  /\ free_list' = free_list \o ids
  /\ is_free' = [b \in Block |-> is_free[b] \/ \E i \in DOMAIN ids : ids[i] = b]
  /\ fault' = (fault \/ ~Freeable(ids))
  /\ UNCHANGED in_use

(***************************************************************************)
(* BlockAllocator::free called for each id of ids in turn.  A refused id   *)
(* (DoubleFree, InvalidBlockId) is latched in fault; the rest of the step  *)
(* then no longer matters, since NoFault says that it never happens.       *)
(***************************************************************************)
FreeAllOf(ids) ==
  /\ free_list' = free_list \o ids
  /\ is_free' = [b \in Block |-> is_free[b] \/ \E i \in DOMAIN ids : ids[i] = b]
  /\ in_use' = IF Len(ids) <= in_use THEN in_use - Len(ids) ELSE 0
  /\ fault' = (fault \/ ~Freeable(ids))

-----------------------------------------------------------------------------
(* PageTable                                                               *)

(* PageTable::append_token asks for a block when the last one is full.     *)
NeedNewBlock(s) == token_count[s] = Len(blocks[s]) * TokensPerBlock

(* PageTable::block_for_token and offset_in_block.                         *)
BlockForToken(s, pos) == blocks[s][(pos \div TokensPerBlock) + 1]
OffsetInBlock(pos) == pos % TokensPerBlock

(* append_token inside the last block.                                     *)
AppendInPlace(s) ==
  /\ ~NeedNewBlock(s)
  /\ token_count' = [token_count EXCEPT ![s] = @ + 1]
  /\ UNCHANGED <<free_list, is_free, in_use, blocks, slab, fault>>

(* Mutant: the new block is pushed to the front of the table.              *)
AppendAtFront(s) ==
  /\ NeedNewBlock(s)
  /\ Alloc
  /\ blocks' = [blocks EXCEPT ![s] = << Head(free_list) >> \o @]
  /\ token_count' = [token_count EXCEPT ![s] = @ + 1]
  /\ UNCHANGED <<slab, fault>>

(* append_token across a block boundary; OutOfBlocks if no id is free.     *)
AppendNewBlock(s) ==
  /\ NeedNewBlock(s)
  /\ Alloc
  /\ blocks' = [blocks EXCEPT ![s] = Append(@, Head(free_list))]
  /\ token_count' = [token_count EXCEPT ![s] = @ + 1]
  /\ UNCHANGED <<slab, fault>>

(* KvCacheView::write_token at the block and offset of position pos.       *)
WriteToken(s, pos, e) ==
  /\ slab' = [slab EXCEPT ![BlockForToken(s, pos)][OffsetInBlock(pos)] = e]
  /\ UNCHANGED <<free_list, is_free, in_use, blocks, token_count, fault>>

(* Mutant: floor + 1 where a ceiling is meant.                             *)
KeepBlocksOffByOne(n) == IF n = 0 THEN 0 ELSE n \div TokensPerBlock + 1

(* The blocks truncate_tokens keeps for n positions.                       *)
KeepBlocks(n) == IF n = 0 THEN 0 ELSE (n - 1) \div TokensPerBlock + 1

(* Mutants: one block is popped and not freed; the prefix is freed.        *)
PoppedOneShort(s, keep) ==
  [i \in 1..(Len(blocks[s]) - keep - 1) |-> blocks[s][Len(blocks[s]) - i + 1]]
PoppedFromFront(s, keep) ==
  [i \in 1..(Len(blocks[s]) - keep) |-> blocks[s][i]]

(* The blocks truncate_tokens pops, in the order it pops them.             *)
Popped(s, keep) ==
  [i \in 1..(Len(blocks[s]) - keep) |-> blocks[s][Len(blocks[s]) - i + 1]]

(* PageTable::truncate_tokens; a count at or above the present one is a no-op. *)
TruncateTokens(s, n) ==
  /\ n < token_count[s]
  /\ FreeAllOf(Popped(s, KeepBlocks(n)))
  /\ blocks' = [blocks EXCEPT ![s] = SubSeq(@, 1, KeepBlocks(n))]
  /\ token_count' = [token_count EXCEPT ![s] = n]
  /\ UNCHANGED slab

(* Mutant: free_all forgets blocks.clear().                                *)
FreeAllKeepsTable(s) ==
  /\ FreeAllOf(blocks[s])
  /\ token_count' = [token_count EXCEPT ![s] = 0]
  /\ UNCHANGED <<blocks, slab>>

(* PageTable::free_all, called when the session is cancelled.              *)
FreeAll(s) ==
  /\ FreeAllOf(blocks[s])
  /\ blocks' = [blocks EXCEPT ![s] = << >>]
  /\ token_count' = [token_count EXCEPT ![s] = 0]
  /\ UNCHANGED slab

-----------------------------------------------------------------------------
Init ==
  /\ AllocatorInit
  /\ blocks = [s \in Session |-> << >>]
  /\ token_count = [s \in Session |-> 0]
  /\ slab = [b \in Block |-> [o \in Offset |-> Blank]]
  /\ fault = FALSE

Next ==
  \E s \in Session :
    \/ AppendInPlace(s)
    \/ AppendNewBlock(s)
    \/ \E pos \in 0..(token_count[s] - 1), e \in Entry : WriteToken(s, pos, e)
    \/ \E n \in 0..(token_count[s] - 1) : TruncateTokens(s, n)
    \/ FreeAll(s)

Spec == Init /\ [][Next]_vars

-----------------------------------------------------------------------------
(* The free list holds every free id once and nothing else, and the        *)
(* counters that Engine::stats reports (in_use_count, free_count) add up.  *)
FreeListExact ==
  /\ \A i, j \in DOMAIN free_list : free_list[i] = free_list[j] => i = j
  /\ \A b \in Block : is_free[b] <=> \E i \in DOMAIN free_list : free_list[i] = b
  /\ in_use + Len(free_list) = TotalBlocks

(* No block sits in two places of the page tables: two sessions never      *)
(* write to the same slot, and a session never to one slot for two tokens. *)
NoSharing ==
  \A s, t \in Session : \A i \in DOMAIN blocks[s], j \in DOMAIN blocks[t] :
    blocks[s][i] = blocks[t][j] => s = t /\ i = j

(* A block is in a page table exactly while it is allocated: none dangles  *)
(* after a free, and none is lost by a truncation or a cancelled session.  *)
OwnedIffAllocated ==
  \A b \in Block :
    ~is_free[b] <=> \E s \in Session : \E i \in DOMAIN blocks[s] : blocks[s][i] = b

(* A table has the blocks its tokens need and not one more: token_count    *)
(* reaches into the last block and not beyond it.                          *)
TablesFit ==
  \A s \in Session :
    /\ token_count[s] <= Len(blocks[s]) * TokensPerBlock
    /\ Len(blocks[s]) * TokensPerBlock < token_count[s] + TokensPerBlock

(* free() never answers DoubleFree or InvalidBlockId to a page table, so   *)
(* truncate_tokens and free_all never stop half way.                       *)
NoFault == ~fault

(* The entries a session's positions map to: what attention would gather.  *)
Logical(s) ==
  [p \in 1..token_count[s] |-> slab[BlockForToken(s, p - 1)][OffsetInBlock(p - 1)]]

Store == INSTANCE KvStore
  WITH kv <- [s \in Session |-> Logical(s)], free <- Len(free_list)

(* The cache keeps the contract of KvStore: sessions are isolated from     *)
(* each other and every block is accounted for.                            *)
KeepsStoreContract == Store!Spec

(* Moving blocks around (append, truncate, free) never alters the entry of *)
(* a position that the session has both before and after the step.         *)
KeptPositionsKeepEntries ==
  [][slab' = slab =>
       \A s \in Session : \A p \in DOMAIN Logical(s) \cap DOMAIN Logical(s)' :
         Logical(s)'[p] = Logical(s)[p]]_vars
=============================================================================
