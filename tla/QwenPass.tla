----------------------------- MODULE QwenPass ------------------------------
(***************************************************************************)
(* Forward passes of QwenRunner: a call feeds one token (step_topk) or     *)
(* several (prefill) of a session, on the Metal graph or by the loop over  *)
(* the layers.  Qwen 3.5 mixes full attention, whose history is the paged  *)
(* K/V, with linear attention, whose history is one recurrent state per    *)
(* session and layer that the page table knows nothing of.                 *)
(*                                                                         *)
(* Full-attention layers of Qwen 3 rotate adjacent pairs, those of Qwen 2  *)
(* halves; Qwen 3.5 rotates a part of the head and gates the output.       *)
(***************************************************************************)
EXTENDS Terms, FiniteSets

CONSTANTS
  Sessions,
  NumLayers,       \* cfg.num_hidden_layers, and max_layers
  MaxSeq,          \* bound: positions of a session
  MaxPrefill,      \* bound: tokens of one prefill
  Kinds,           \* "qwen2", "qwen3", "qwen35"
  Dtypes,          \* dtypes of the weight matrices: "f16", "i8", "i4"
  Backends,        \* "cpu", "linear", "full"
  LinearLayers,    \* layers of Qwen 3.5 with linear attention
  PartialRotary,   \* partial_rotary_factor < 1 in Qwen 3.5
  HasHead,         \* the file has lm_head.weight beside the embedding
  MaxFaults,       \* bound: kernels that fail in a layer for one session
  Resets,          \* TRUE: the engine rewinds sessions
  Cancels,         \* TRUE: the engine cancels sessions, and makes new ones
  Idle             \* no call; no answer

QwenAssumption ==
  /\ {NumLayers, MaxSeq, MaxPrefill} \subseteq Nat \ {0} /\ MaxFaults \in Nat
  /\ Kinds \subseteq {"qwen2", "qwen3", "qwen35"}
  /\ Dtypes \subseteq {"f16", "i8", "i4"} /\ Backends \subseteq {"cpu", "linear", "full"}
  /\ LinearLayers \subseteq 0..(NumLayers - 1)
  /\ {PartialRotary, HasHead, Resets, Cancels} \subseteq BOOLEAN

VARIABLES
  conf,            \* family, dtype, metal_ops.is_some() and graph_state.is_some()
  bases,           \* the graph's bases buffer up to bases_populated: per position, whose
                   \* slot it names
  count,           \* per session: page_table.token_count()
  cache,           \* per session: paged K/V of a layer and a position
  recurrent,       \* sessions: linear-attention state per session and layer
  fed,             \* per session: how many positions its caller has finished
  faults,          \* per session: kernels that failed so far
  call,            \* the call under way, or Idle
  answer           \* what the last step_topk returned, or Idle

vars == <<conf, bases, count, cache, recurrent, fed, faults, call, answer>>

Layer == 0..(NumLayers - 1)
Position == 0..(MaxSeq - 1)
Stale == <<"stale">>
Nobody == <<"nobody">>
Zero == <<"zero">>
HeadNorms == conf.kind # "qwen2"
IsLinear(l) == conf.kind = "qwen35" /\ l \in LinearLayers
Gate == conf.kind = "qwen35"

-----------------------------------------------------------------------------
(* The model                                                               *)

W(role, l) == Weight(role, l, "exact")
HiddenName(s, l, p) == <<"hidden", s, l, p>>
Embed(s, p) == HiddenName(s, 0, p)
KvName(s, l, p) == <<"kv", s, l, p>>
StateName(s, l, p) == IF p < 0 THEN Zero ELSE <<"state", s, l, p>>

Rotary == IF conf.kind = "qwen35" /\ PartialRotary THEN "part" ELSE "head"
RopeStyle == IF HeadNorms THEN <<"adjacent", Rotary>> ELSE <<"half", Rotary>>

HeadNorm(role, l, y) == IF HeadNorms THEN Norm(W(role, l), y) ELSE y
Biased(role, l, y) == IF conf.kind = "qwen2" THEN Plus(y, W(role, l)) ELSE y
KeyValue(style, l, p, h, read) ==
  <<Rope(style, p, HeadNorm("k_norm", l, Biased("k_bias", l, MatVec(Weight("k", l, read), h)))),
    Biased("v_bias", l, MatVec(Weight("v", l, read), h))>>
Query(style, l, p, h, read) ==
  Rope(style, p, HeadNorm("q_norm", l, Biased("q_bias", l, MatVec(Weight("q", l, read), h))))
Mlp(l, x, read) ==
  LET m == Norm(W("post_norm", l), x)
  IN  Plus(x, MatVec(Weight("down", l, read),
                     Gated("silu", MatVec(Weight("gate", l, read), m), MatVec(Weight("up", l, read), m))))

(* The output gate of Qwen 3.5, the upper half of each head of q_proj.      *)
OutputGate(l, h, attn) == IF Gate THEN Gated("sigmoid", MatVec(W("q_gate", l), h), attn) ELSE attn

(* The gated delta rule: the state absorbs the token's q, k, v, decay and  *)
(* strength, and the output is read from the state it leaves.               *)
Absorbed(l, state, h) == <<"delta", W("conv", l), state, MatVec(W("qkv", l), h), MatVec(W("ab", l), h)>>
ReadOut(l, state, h) ==
  MatVec(W("out", l), Gated("silu", MatVec(W("z", l), h), Norm(W("lin_norm", l), state)))

Decoder(s, l, p) ==
  LET x == HiddenName(s, l, p)
      h == Norm(W("in_norm", l), x)
      kvs == [t \in 0..p |-> KvName(s, l, t)]
      attn == OutputGate(l, h, Attend(Query(RopeStyle, l, p, h, "exact"), kvs))
  IN  IF IsLinear(l) THEN Mlp(l, Plus(x, ReadOut(l, StateName(s, l, p), h)), "exact")
      ELSE Mlp(l, Plus(x, MatVec(W("o", l), attn)), "exact")
Logits(s, p) ==
  MatVec(IF HasHead THEN "lm_head" ELSE "embed_tokens", Norm("norm", HiddenName(s, NumLayers, p)))

(* Names for what a path computed, where it is the model's.                 *)
NamedKv(s, l, p, kv) ==
  Abbreviate(kv, KeyValue(RopeStyle, l, p, Norm(W("in_norm", l), HiddenName(s, l, p)), "exact"),
             KvName(s, l, p))
NamedX(s, l, p, x) == Abbreviate(x, Decoder(s, l, p), HiddenName(s, l + 1, p))
NamedState(s, l, p, state) ==
  Abbreviate(state, Absorbed(l, StateName(s, l, p - 1), Norm(W("in_norm", l), HiddenName(s, l, p))),
             StateName(s, l, p))

-----------------------------------------------------------------------------
(* enable_metal_linear_backend makes a context that no product uses;       *)
(* enable_metal_full_backend takes the operations, and the graph unless a  *)
(* layer is linear or gated.                                                *)
Enabled(kind) ==
  (IF Backends \cap {"cpu", "linear"} # {} THEN {[ops |-> FALSE, graph |-> FALSE]} ELSE {})
    \cup (IF "full" \in Backends THEN {[ops |-> TRUE, graph |-> kind # "qwen35"]} ELSE {})

Init ==
  /\ \E kind \in Kinds, dtype \in Dtypes : \E e \in Enabled(kind) :
        conf = [kind |-> kind, dtype |-> dtype, ops |-> e.ops, graph |-> e.graph]
  /\ bases = <<>>
  /\ count = [s \in Sessions |-> 0]
  /\ cache = [s \in Sessions |-> [l \in Layer |-> [p \in Position |-> Stale]]]
  /\ recurrent = [s \in Sessions |-> [l \in Layer |-> Zero]]
  /\ fed = [s \in Sessions |-> 0]
  /\ faults = [s \in Sessions |-> 0]
  /\ call = Idle
  /\ answer = Idle

(* Both entries append the positions that the page table does not have.     *)
Appended(s, upto) == [count EXCEPT ![s] = IF @ < upto THEN upto ELSE @]

(* A call for n tokens from the position its caller is at; step_topk wants *)
(* logits and feeds one token.                                              *)
Begin(s, n, logits) ==
  /\ call = Idle
  /\ fed[s] + n <= MaxSeq
  /\ logits => n = 1
  /\ count' = Appended(s, fed[s] + n)
  /\ call' = [s |-> s, start |-> fed[s], n |-> n, i |-> 0, layer |-> 0,
              x |-> Embed(s, fed[s]), logits |-> logits]
  /\ answer' = Idle
  /\ UNCHANGED <<conf, bases, cache, recurrent, fed, faults>>

Return(logits) ==
  /\ call' = Idle
  /\ fed' = [fed EXCEPT ![call.s] = call.start + call.n]
  /\ answer' = IF call.logits THEN [s |-> call.s, p |-> call.start, logits |-> logits] ELSE Idle

-----------------------------------------------------------------------------
(* The graph                                                               *)

(***************************************************************************)
(* A row of bases is the address of a slot.  It is represented by the      *)
(* session whose slot for that position this is, or by Nobody.  Nothing    *)
(* writes a row again that is populated: what it names changes when the    *)
(* slot is given back.                                                      *)
(***************************************************************************)

(* step_fused fills in the rows of the positions from bases_populated on,  *)
(* whichever session has filled in those before.                            *)
Populated == bases \o [t \in 1..(call.start + 1 - Len(bases)) |-> call.s]

(* What is read through a row: an entry, or what is in a slot of no use.   *)
Entry(kv, row, l, t) == IF row \in Sessions THEN kv[row][l][t] ELSE Stale

(* prefill_fused makes a buffer of its own.                                 *)
PrefillBases == [t \in 1..(call.start + call.n) |-> call.s]

(* The kernels of the graph know i8 with scales, q1 and f16: other bytes   *)
(* are taken for f16, or for i8 where there are scales.                     *)
GraphRead == IF conf.dtype = "i4" THEN "misread" ELSE "exact"

(* Mutant: the row of the token is looked up one position too late.         *)
GraphLayerOffByOne(l, st, p, rows) ==
  LET h == Norm(W("in_norm", l), st.x)
      kv == [st.kv EXCEPT ![call.s][l][p] =
               NamedKv(call.s, l, p, KeyValue(RopeStyle, l, p, h, GraphRead))]
      kvs == [t \in 0..p |-> Entry(kv, rows[t + 1], l, IF t = 0 THEN 0 ELSE t - 1)]
      x1 == Plus(st.x, MatVec(Weight("o", l, GraphRead), Attend(Query(RopeStyle, l, p, h, GraphRead), kvs)))
  IN  [x |-> NamedX(call.s, l, p, Mlp(l, x1, GraphRead)), kv |-> kv]

(* encode_single_layer_on_encoder: the commands of one layer and position. *)
GraphLayer(l, st, p, rows) ==
  LET h == Norm(W("in_norm", l), st.x)
      style == IF HeadNorms THEN <<"adjacent", "head">> ELSE <<"half", Rotary>>
      kv == [st.kv EXCEPT ![call.s][l][p] =
               NamedKv(call.s, l, p, KeyValue(style, l, p, h, GraphRead))]
      kvs == [t \in 0..p |-> Entry(kv, rows[t + 1], l, t)]
      x1 == Plus(st.x, MatVec(Weight("o", l, GraphRead), Attend(Query(style, l, p, h, GraphRead), kvs)))
  IN  [x |-> NamedX(call.s, l, p, Mlp(l, x1, GraphRead)), kv |-> kv]

(* The layers of one position, on x_buf and the paged store.                *)
GraphPosition(p, kv, rows) ==
  LET Run[l \in 0..NumLayers] ==
        IF l = 0 THEN [x |-> Embed(call.s, p), kv |-> kv] ELSE GraphLayer(l - 1, Run[l - 1], p, rows)
  IN  Run[NumLayers]

(* The tokens of a prefill, in the order of one command buffer.             *)
GraphTokens(rows) ==
  LET Run[i \in 0..call.n] ==
        IF i = 0 THEN [x |-> Stale, kv |-> cache]
        ELSE GraphPosition(call.start + i - 1, Run[i - 1].kv, rows)
  IN  Run[call.n]

(* The graph looks for an lm_head under the prefix of the layers, where    *)
(* there is none, and falls back to the embedding.                          *)
GraphLogits(x) == MatVec("embed_tokens", Norm("norm", x))

(* prefill on the graph: no logits are read.                               *)
GraphPrefill ==
  /\ call # Idle /\ conf.graph /\ ~call.logits
  /\ cache' = GraphTokens(PrefillBases).kv
  /\ Return(Stale)
  /\ UNCHANGED <<conf, bases, count, recurrent, faults>>

(* step_topk on the graph, over the buffer it keeps, whose count becomes   *)
(* that of this session, also when it was more.                             *)
GraphStep ==
  /\ call # Idle /\ conf.graph /\ call.logits
  /\ LET rows == IF Len(bases) >= call.start + 1 THEN bases ELSE Populated
         st == GraphTokens(rows) IN
       /\ bases' = SubSeq(rows, 1, call.start + 1)
       /\ cache' = st.kv
       /\ Return(GraphLogits(st.x))
  /\ UNCHANGED <<conf, count, recurrent, faults>>

-----------------------------------------------------------------------------
(* The loop of step_inner, a layer a step                                  *)

Pos == call.start + call.i
LoopStyle ==
  IF conf.ops THEN (IF HeadNorms THEN <<"adjacent", "head">> ELSE <<"half", Rotary>>)
  ELSE <<"adjacent", Rotary>>

(* The three projections: one f16 command buffer, or one by one.            *)
Projections(l, h) ==
  <<Query(LoopStyle, l, Pos, h, "exact"), KeyValue(LoopStyle, l, Pos, h, "exact")>>

(* The feed-forward block: one f16 command buffer, or norm, products and   *)
(* residual one by one.                                                     *)
FfnBatch(l, x) ==
  LET m == Norm(W("post_norm", l), x)
      g == Gated("silu", MatVec(W("gate", l), m), MatVec(W("up", l), m))
  IN  Plus(x, MatVec(W("down", l), g))
Ffn(l, x) == IF conf.ops /\ conf.dtype = "f16" THEN FfnBatch(l, x) ELSE Mlp(l, x, "exact")

(* Attention over every position of the page table, the gate, o_proj.       *)
FullAttention(l, h, kv) ==
  LET q == Projections(l, h)[1]
  IN  MatVec(W("o", l), OutputGate(l, h, Attend(q, [t \in 0..(count[call.s] - 1) |-> kv[call.s][l][t]])))

(* The layer's K/V of this position, in the paged store.                    *)
WithKv(l, h) ==
  [cache EXCEPT ![call.s][l][Pos] = NamedKv(call.s, l, Pos, Projections(l, h)[2])]

(* linear_attention_step takes the session's state out, and puts back what *)
(* the token made of it before the output projection.                       *)
WithState(l, h) ==
  [recurrent EXCEPT ![call.s][l] = NamedState(call.s, l, Pos, Absorbed(l, @, h))]

(* A layer of the loop.                                                     *)
LoopLayer ==
  /\ call # Idle /\ ~conf.graph /\ call.layer < NumLayers
  /\ LET l == call.layer
         h == Norm(W("in_norm", l), call.x)
         out == IF IsLinear(l) THEN ReadOut(l, recurrent'[call.s][l], h) ELSE FullAttention(l, h, cache')
     IN  /\ cache' = IF IsLinear(l) THEN cache ELSE WithKv(l, h)
         /\ recurrent' = IF IsLinear(l) THEN WithState(l, h) ELSE recurrent
         /\ call' = [call EXCEPT !.layer = l + 1,
                                 !.x = NamedX(call.s, l, Pos, Ffn(l, Plus(call.x, out)))]
  /\ UNCHANGED <<conf, bases, count, fed, faults, answer>>

(* The last layer of a token that is not the last of its prefill.           *)
NextToken ==
  /\ call # Idle /\ call.layer = NumLayers /\ call.i + 1 < call.n
  /\ call' = [call EXCEPT !.i = @ + 1, !.layer = 0, !.x = Embed(call.s, Pos + 1)]
  /\ UNCHANGED <<conf, bases, count, cache, recurrent, fed, faults, answer>>

LoopLogits == MatVec(IF HasHead THEN "lm_head" ELSE "embed_tokens", Norm("norm", call.x))
Finish ==
  /\ call # Idle /\ call.layer = NumLayers /\ call.i + 1 = call.n
  /\ Return(LoopLogits)
  /\ UNCHANGED <<conf, bases, count, cache, recurrent, faults>>

(* A kernel of the layer fails, before or after the layer's history was    *)
(* written; the caller gets an error and may ask for the position again.    *)
LoopFails ==
  /\ call # Idle /\ faults[call.s] < MaxFaults
  /\ faults' = [faults EXCEPT ![call.s] = @ + 1]
  /\ conf.ops /\ ~conf.graph /\ call.layer < NumLayers
  /\ LET l == call.layer
         h == Norm(W("in_norm", l), call.x)
     IN  \/ UNCHANGED <<cache, recurrent>>
         \/ /\ ~IsLinear(l) /\ cache' = WithKv(l, h) /\ UNCHANGED recurrent
         \/ /\ IsLinear(l) /\ recurrent' = WithState(l, h) /\ UNCHANGED cache
  /\ call' = Idle
  /\ UNCHANGED <<conf, bases, count, fed, answer>>

-----------------------------------------------------------------------------
(* The engine between the calls                                            *)

(* The blocks behind the first keep positions go back to the free list,    *)
(* which hands them out again: a slot may become that of the same position *)
(* of a session that has none yet, of this one too, or serve for something *)
(* else.                                                                    *)
GiveBack(s, keep) ==
  \E owner \in [{t \in DOMAIN bases : t > keep /\ bases[t] = s} -> Sessions \cup {Nobody}] :
    /\ \A t \in DOMAIN owner : owner[t] # Nobody => count'[owner[t]] < t
    /\ bases' = [t \in DOMAIN bases |-> IF t \in DOMAIN owner THEN owner[t] ELSE bases[t]]

(* Engine::reset_session and submit_tokens_cached truncate the page table  *)
(* to a prefix and go on from there.                                        *)
Rewind(s, keep) ==
  /\ Resets /\ call = Idle /\ keep < fed[s]
  /\ count' = [count EXCEPT ![s] = keep]
  /\ fed' = [fed EXCEPT ![s] = keep]
  /\ GiveBack(s, keep)
  /\ answer' = Idle
  /\ UNCHANGED <<conf, cache, recurrent, faults, call>>

(* cancel_session frees the blocks and removes the recurrent states; the   *)
(* name goes to the next session.                                           *)
CancelSession(s) ==
  /\ Cancels /\ call = Idle /\ count[s] > 0
  /\ count' = [count EXCEPT ![s] = 0]
  /\ fed' = [fed EXCEPT ![s] = 0]
  /\ cache' = [cache EXCEPT ![s] = [l \in Layer |-> [p \in Position |-> Stale]]]
  /\ recurrent' = [recurrent EXCEPT ![s] = [l \in Layer |-> Zero]]
  /\ GiveBack(s, 0)
  /\ answer' = Idle
  /\ UNCHANGED <<conf, faults, call>>

Next ==
  \/ \E s \in Sessions, n \in 1..MaxPrefill, logits \in BOOLEAN : Begin(s, n, logits)
  \/ \E s \in Sessions, keep \in 0..(MaxSeq - 1) : Rewind(s, keep)
  \/ \E s \in Sessions : CancelSession(s)
  \/ GraphPrefill \/ GraphStep
  \/ LoopLayer \/ NextToken \/ Finish \/ LoopFails

Spec == Init /\ [][Next]_vars

-----------------------------------------------------------------------------
TypeOK ==
  /\ conf.kind \in Kinds /\ conf.dtype \in Dtypes
  /\ \A s \in Sessions : count[s] \in 0..MaxSeq /\ fed[s] <= count[s]
  /\ Len(bases) <= MaxSeq
  /\ call # Idle => call.layer \in 0..NumLayers /\ Pos < count[call.s]

KvOf(s) == \A l \in Layer : \A p \in 0..(fed[s] - 1) : ~IsLinear(l) => cache[s][l][p] = KvName(s, l, p)
StatesOf(s) == \A l \in Layer : IsLinear(l) => recurrent[s][l] = StateName(s, l, fed[s] - 1)

(* The K/V of the finished positions, in every layer with full attention,  *)
(* are the model's for that session, on every path.                         *)
CacheIsTheModels == \A s \in Sessions : KvOf(s)

(* Between two calls the recurrent state of a session is the summary of    *)
(* exactly the positions it is at: none skipped, none twice, none of       *)
(* another session and none that was taken back.                            *)
StateIsThePast == call = Idle => \A s \in Sessions : StatesOf(s)

(* A kernel that fails for one session leaves the K/V and the recurrent    *)
(* states of the other ones to their own pasts, whatever order they step   *)
(* in.                                                                      *)
FaultsStayInTheirSession ==
  \A s \in Sessions : faults[s] = 0 => KvOf(s) /\ (call = Idle => StatesOf(s))

(* A step's logits are the model's for its session and position.            *)
AnswerIsTheModels == answer # Idle => answer.logits = Logits(answer.s, answer.p)
=============================================================================
