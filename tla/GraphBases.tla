----------------------------- MODULE GraphBases -----------------------------
(***************************************************************************)
(* The fused Metal graphs of the model runners read the K/V slab through a *)
(* buffer of slot addresses ("bases"), one per position, that they keep    *)
(* from one step to the next: llama_graph.rs and gemma_graph.rs with the   *)
(* session and length it was last built for, QwenGraphState with a single  *)
(* count of populated entries.  The page tables it caches are PagedKv's,   *)
(* and change under it: sessions take turns, are rewound and cancelled.    *)
(*                                                                         *)
(* A step is a whole call of the runner, except that a prefill which first *)
(* appends all its positions takes a step per position.  A slot is a block *)
(* and an offset; the layers' copies of an address differ by a constant    *)
(* and are one here.                                                       *)
(***************************************************************************)
EXTENDS PagedKv

CONSTANTS
  Watermark,       \* TRUE: QwenGraphState; FALSE: the Llama and Gemma graphs
  BatchAppend,     \* TRUE: the caller prefills by prefill_fused_hidden, or Qwen's prefill
  MinStride,       \* the smallest stride: 64 in the code
  MaxStride,       \* bound: the largest stride
  None             \* no session; no call; an address never written

MaxSeq == TotalBlocks * TokensPerBlock

(* The lengths a buffer may have: the smallest, doubled any number of times. *)
Strides == {k \in MinStride..MaxStride : \E i \in 0..k : k = MinStride * 2^i}

GraphAssumption ==
  /\ {Watermark, BatchAppend} \subseteq BOOLEAN
  /\ MinStride \in Nat \ {0}
  /\ MaxStride \in Strides /\ MaxStride >= MaxSeq
  /\ None \notin Session

VARIABLES
  alive,           \* sessions neither cancelled nor given up by their caller
  next_pos,        \* where the driver puts the session's next token
  bases,           \* bases[t]: the slot address kept for position t
  stride,          \* bases_stride
  last_session,    \* bases_last_session
  last_seq,        \* bases_last_seq, or bases_populated
  graph,           \* graph_state.is_some()
  call,            \* the prefill under way, or None
  misread          \* positions the last attention read from another slot than their own

graphVars == <<bases, stride, last_session, last_seq>>
allVars == <<vars, alive, next_pos, graphVars, graph, call, misread>>

Slot == Block \X Offset

(* The slot a page table gives to position t.                              *)
SlotAt(table, t) == <<table[(t \div TokensPerBlock) + 1], t % TokensPerBlock>>

GraphTypeOK ==
  /\ TypeOK
  /\ alive \subseteq Session
  /\ next_pos \in [Session -> 0..MaxSeq]
  /\ DOMAIN bases = 0..(stride - 1)
  /\ \A t \in DOMAIN bases : bases[t] \in Slot \cup {None}
  /\ last_session \in Session \cup {None}
  /\ last_seq \in 0..MaxSeq
  /\ graph \in BOOLEAN
  /\ misread \subseteq 0..(MaxSeq - 1)
  /\ call \in [session : Session, from : 0..MaxSeq, tokens : 1..(MaxSeq + 1)] \cup {None}

GraphInit ==
  /\ Init
  /\ alive = Session
  /\ next_pos = [s \in Session |-> 0]
  /\ bases = [t \in {} |-> None]
  /\ stride = 0
  /\ last_session = None
  /\ last_seq = 0
  /\ graph = TRUE
  /\ call = None
  /\ misread = {}

-----------------------------------------------------------------------------
(* The buffer                                                              *)

(* next_power_of_two().max(64), and the growth by doubling of Qwen.        *)
PowerOfTwoFrom(n) ==
  CHOOSE k \in Strides : k >= n /\ \A m \in Strides : m >= n => k <= m
Doubled(n) ==
  LET k == IF n > 2 * stride THEN n ELSE 2 * stride
  IN  IF k > MinStride THEN k ELSE MinStride

(* A Llama or Gemma graph drops the old buffer when it grows.              *)
Blanked(n) == [t \in 0..(PowerOfTwoFrom(n) - 1) |-> None]

(* Qwen copies the old buffer into the new one.                            *)
Widened(n) ==
  [t \in 0..(Doubled(n) - 1) |-> IF t \in DOMAIN bases THEN bases[t] ELSE None]

(* Mutants: the session is not compared; the length is not.                *)
AnySession(s, seq, fresh) == stride >= seq /\ last_seq + fresh = seq
AnyLength(s, seq, fresh) == stride >= seq /\ last_session = s

(* The test of the fast path: only the `fresh` last entries are missing.   *)
Incremental(s, seq, fresh) ==
  /\ stride >= seq
  /\ last_session = s
  /\ last_seq + fresh = seq

(***************************************************************************)
(* step_fused (fresh = 1, writing the entry of pos) and prefill_fused of   *)
(* the Llama graph, step_fused of the Gemma graph, for the table as it is  *)
(* after the call's appends.                                               *)
(***************************************************************************)
RefreshBySession(s, writes, fresh) ==
  LET seq == token_count'[s]
      keep == Incremental(s, seq, fresh)
      old == IF stride < seq THEN Blanked(seq) ELSE bases
  IN  /\ bases' = [t \in DOMAIN old |->
                     IF t < seq /\ (keep => t \in writes) THEN SlotAt(blocks'[s], t)
                     ELSE old[t]]
      /\ stride' = IF stride < seq THEN PowerOfTwoFrom(seq) ELSE stride
      /\ last_session' = s
      /\ last_seq' = seq

(* QwenGraphState::step_fused: entries from bases_populated on are written. *)
RefreshByWatermark(s, pos) ==
  LET old == IF stride < pos + 1 THEN Widened(pos + 1) ELSE bases
  IN  /\ bases' = [t \in DOMAIN old |->
                     IF t \in last_seq..pos THEN SlotAt(blocks'[s], t) ELSE old[t]]
      /\ stride' = IF stride < pos + 1 THEN Doubled(pos + 1) ELSE stride
      /\ last_seq' = pos + 1
      /\ UNCHANGED last_session

(* Attention goes through n entries of the buffer, or through the table.   *)
ReadBases(s, n) ==
  misread' = {t \in 0..(n - 1) : bases'[t] # SlotAt(blocks'[s], t)}
ReadTable == misread' = {}

-----------------------------------------------------------------------------
(* The runner's calls                                                      *)

AppendOne(s) == AppendInPlace(s) \/ AppendNewBlock(s)

(* step_inner appends when pos is the token count; OutOfBlocks ends it.    *)
Covered(s, pos) ==
  \/ pos = token_count[s] /\ AppendOne(s)
  \/ pos < token_count[s] /\ UNCHANGED vars

(* A step on the graph; ok is FALSE when the graph answers an error or a   *)
(* logit that is not finite: the Llama and Gemma runners then drop the     *)
(* graph for good and run the step on the layer loop, Qwen returns the     *)
(* error and keeps the graph.                                              *)
GraphStep(s, ok) ==
  LET pos == next_pos[s]
  IN  /\ call = None /\ graph /\ s \in alive
      /\ Covered(s, pos)
      /\ IF Watermark
         THEN RefreshByWatermark(s, pos) /\ ReadBases(s, pos + 1) /\ UNCHANGED graph
         ELSE /\ RefreshBySession(s, {pos}, 1)
              /\ graph' = ok
              /\ IF ok THEN ReadBases(s, token_count'[s]) ELSE ReadTable
      /\ next_pos' = IF Watermark /\ ~ok THEN next_pos ELSE [next_pos EXCEPT ![s] = pos + 1]
      /\ UNCHANGED <<alive, call>>

(* A step on the layer loop, which gathers through the page table.         *)
LoopStep(s) ==
  /\ call = None /\ ~graph /\ s \in alive
  /\ Covered(s, next_pos[s])
  /\ ReadTable
  /\ next_pos' = [next_pos EXCEPT ![s] = @ + 1]
  /\ UNCHANGED <<alive, graphVars, graph, call>>

(* A position is appended, and the step ends with an error before the      *)
(* graph: the token has no embedding, or the sampler fails.                *)
FailedStep(s) ==
  /\ call = None /\ s \in alive
  /\ next_pos[s] = token_count[s]
  /\ AppendOne(s)
  /\ UNCHANGED <<alive, next_pos, graphVars, graph, call, misread>>

(* prefill_fused_hidden, or Qwen's prefill: the loop over the positions ... *)
PrefillBegins(s, n) ==
  /\ BatchAppend /\ call = None /\ s \in alive
  /\ next_pos[s] + n <= MaxSeq + 1
  /\ call' = [session |-> s, from |-> next_pos[s], tokens |-> n]
  /\ UNCHANGED <<vars, alive, next_pos, graphVars, graph, misread>>

PrefillAppends ==
  /\ call # None
  /\ token_count[call.session] < call.from + call.tokens
  /\ AppendOne(call.session)
  /\ UNCHANGED <<alive, next_pos, graphVars, graph, call, misread>>

(* ... ends with OutOfBlocks, the positions appended so far staying.  The  *)
(* caller of prefill_fused_hidden (vlm.rs) then gives up, the engine, which *)
(* is the caller of Qwen's prefill, keeps the session ...                  *)
PrefillOutOfBlocks ==
  /\ call # None
  /\ token_count[call.session] < call.from + call.tokens
  /\ NeedNewBlock(call.session) /\ free_list = << >>
  /\ call' = None
  /\ alive' = IF Watermark THEN alive ELSE alive \ {call.session}
  /\ UNCHANGED <<vars, next_pos, graphVars, graph, misread>>

(* ... or goes on to the graph.  Qwen's builds a buffer of its own.        *)
PrefillRuns ==
  /\ call # None
  /\ token_count[call.session] >= call.from + call.tokens
  /\ LET s == call.session
         n == call.from + call.tokens
     IN  /\ UNCHANGED vars
         /\ IF graph /\ ~Watermark
            THEN /\ RefreshBySession(s, (token_count[s] - call.tokens)..(token_count[s] - 1),
                                     call.tokens)
                 /\ ReadBases(s, n)
            ELSE UNCHANGED graphVars /\ ReadTable
         /\ next_pos' = [next_pos EXCEPT ![s] = n]
  /\ call' = None
  /\ UNCHANGED <<alive, graph>>

(* reserve_sequence_capacity: a larger, blank buffer.                      *)
Reserve(n) ==
  /\ call = None /\ graph /\ ~Watermark
  /\ PowerOfTwoFrom(n) > stride
  /\ bases' = Blanked(n)
  /\ stride' = PowerOfTwoFrom(n)
  /\ last_seq' = 0
  /\ UNCHANGED <<vars, alive, next_pos, last_session, graph, call, misread>>

(* A cache hit or reset_session: the table is cut to n positions, and the  *)
(* session goes on from there.                                             *)
Rewind(s, n) ==
  /\ call = None /\ s \in alive
  /\ n <= next_pos[s]
  /\ TruncateTokens(s, n)
  /\ next_pos' = [next_pos EXCEPT ![s] = n]
  /\ UNCHANGED <<alive, graphVars, graph, call, misread>>

(* cancel_session: its blocks go to whoever allocates next.                *)
Cancel(s) ==
  /\ call = None /\ s \in alive
  /\ FreeAll(s)
  /\ alive' = alive \ {s}
  /\ next_pos' = [next_pos EXCEPT ![s] = 0]
  /\ UNCHANGED <<graphVars, graph, call, misread>>

GraphNext ==
  \/ \E s \in Session :
       \/ \E ok \in BOOLEAN : GraphStep(s, ok)
       \/ LoopStep(s)
       \/ FailedStep(s)
       \/ \E n \in 1..(MaxSeq + 1) : PrefillBegins(s, n)
       \/ \E n \in 0..MaxSeq : Rewind(s, n)
       \/ Cancel(s)
  \/ PrefillAppends
  \/ PrefillOutOfBlocks
  \/ PrefillRuns
  \/ \E n \in 1..MaxSeq : Reserve(n)

GraphSpec == GraphInit /\ [][GraphNext]_allVars

-----------------------------------------------------------------------------
(* Attention reads, for every position, the slot that the session's own    *)
(* page table gives it at that moment, whatever was rewound, cancelled or  *)
(* run for another session since the buffer was built.                     *)
AttendsOwnSlots == misread = {}
=============================================================================
