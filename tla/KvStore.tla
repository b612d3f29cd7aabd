------------------------------ MODULE KvStore ------------------------------
(***************************************************************************)
(* What the paged KV cache promises to the engine, with no blocks in it:   *)
(* every session has a sequence of K/V entries of its own, a step changes  *)
(* the sequence of one session at a time, and the free-block counter the   *)
(* engine reports (Engine::num_free_blocks) pays exactly for the positions *)
(* the sequences hold, TokensPerBlock positions to a block.                *)
(*                                                                         *)
(* PagedKv implements this contract with an allocator and page tables; the *)
(* engine is written against it.                                           *)
(***************************************************************************)
EXTENDS Integers, Sequences

CONSTANTS
  Session,         \* the sessions that may own K/V entries
  TotalBlocks,     \* blocks in the cache
  TokensPerBlock   \* token positions in a block

VARIABLES
  kv,              \* kv[s]: the entries of session s, by token position
  free             \* blocks not in use

vars == <<kv, free>>

(* The number of blocks a session of n token positions occupies.           *)
BlocksFor(n) == (n + TokensPerBlock - 1) \div TokensPerBlock

Init ==
  /\ kv = [s \in Session |-> << >>]
  /\ free = TotalBlocks

(***************************************************************************)
(* Session s gets another sequence of entries (longer, shorter, or         *)
(* rewritten in place); nobody else's changes, and the blocks gained or    *)
(* given back are accounted for.                                           *)
(***************************************************************************)
Update(s) ==
  /\ \A t \in Session \ {s} : kv'[t] = kv[t]
  /\ DOMAIN kv' = Session
  /\ free' = free + BlocksFor(Len(kv[s])) - BlocksFor(Len(kv'[s]))
  /\ free' \in 0..TotalBlocks

Next == \E s \in Session : Update(s)

Spec == Init /\ [][Next]_vars
=============================================================================
