----------------------------- MODULE GemmaPass -----------------------------
(***************************************************************************)
(* Forward passes of GemmaRunner for several sessions.  A step is computed *)
(* by one of three paths: the batched command buffer, which keeps K/V in   *)
(* buffers of its own, the fused graph, or the loop over the layers, whose *)
(* attention runs on the GPU when o_proj is i4.  A path that gives up      *)
(* hands the step to the next one.  Whatever path ran, K/V and logits must *)
(* be those of the model.                                                  *)
(*                                                                         *)
(* The model is the loop on the CPU: Gemma 3 and 4 alternate sliding and   *)
(* full attention, Gemma 4 shares the K/V of its last layers with earlier  *)
(* ones, mixes per-layer inputs in and scales every layer's output.        *)
(***************************************************************************)
EXTENDS Terms, FiniteSets, FiniteSetsExt

CONSTANTS
  Sessions,
  NumLayers,       \* cfg.num_hidden_layers, and max_layers
  MaxSeq,          \* bound: positions of a session
  BlockSize,       \* tokens per block
  Kinds,           \* families: "plain" (Gemma 1, 2), "gemma3", "gemma4"
  Dtypes,          \* dtypes of the weight matrices: "f16", "i8", "i4", "i2"
  Backends,        \* "cpu", "linear", "full"
  SlidingMask,     \* layers of Gemma 4 with sliding attention
  SharedLayers,    \* gemma4_shared_kv_layers
  HasPle,          \* Gemma 4 only: the file has per-layer inputs
  Scaled,          \* layers of Gemma 4 that have an output scale
  Pattern, Window, \* sliding_window_pattern and sliding_window
  PathFaults,      \* TRUE: batched and fused steps may fail
  Idle             \* no call; no answer

GemmaAssumption ==
  /\ {NumLayers, MaxSeq, BlockSize, Pattern, Window} \subseteq Nat \ {0}
  /\ Kinds \subseteq {"plain", "gemma3", "gemma4"}
  /\ Dtypes \subseteq {"f16", "i8", "i4", "i2"} /\ Backends \subseteq {"cpu", "linear", "full"}
  /\ SlidingMask \subseteq 0..(NumLayers - 1) /\ Scaled \subseteq 0..(NumLayers - 1)
  /\ SharedLayers \in 0..NumLayers
  /\ HasPle \in BOOLEAN /\ PathFaults \in BOOLEAN

VARIABLES
  conf,            \* family, dtype, and metal_ops.is_some()
  graph,           \* graph_state.is_some()
  count,           \* per session: page_table.token_count()
  cache,           \* per session: paged K/V of a layer and a position
  gpu,             \* persistent K/V buffers, one pair per layer of the runner
  fed,             \* per session: the entry each position came through
  call,            \* the step under way, or Idle
  answer           \* what the last step returned, or Idle

vars == <<conf, graph, count, cache, gpu, fed, call, answer>>

Layer == 0..(NumLayers - 1)
Position == 0..(MaxSeq - 1)
Stale == <<"stale">>
Gemma3 == conf.kind = "gemma3"
Gemma4 == conf.kind = "gemma4"
Ple == Gemma4 /\ HasPle

-----------------------------------------------------------------------------
(* What the loop and the graph know of a layer                             *)

(* The layers with full attention.                                         *)
IsFull(l) == CASE Gemma3 -> (l + 1) % Pattern = 0
               [] Gemma4 -> l \notin SlidingMask
               [] OTHER -> TRUE
Theta(l) == IF IsFull(l) THEN "rope_theta" ELSE "rope_theta_sliding"
StartTpos(l, seq) == IF IsFull(l) \/ seq <= Window THEN 0 ELSE seq - Window
FirstKvShared == NumLayers - SharedLayers
Shares == Gemma4 /\ SharedLayers > 0 /\ SharedLayers < NumLayers
IsKvShared(l) == Shares /\ l >= FirstKvShared

(* The last layer of the same kind that has K/V of its own.                 *)
Sources(l) == {i \in 0..(FirstKvShared - 1) : (i \in SlidingMask) = (l \in SlidingMask)}
KvSource(l) == IF IsKvShared(l) THEN Max(Sources(l)) ELSE l

(* Gemma 4 applies no 1/sqrt(head_dim): the loop multiplies q by its       *)
(* inverse first.                                                          *)
AttnScale == IF Gemma4 THEN "one" ELSE "rsqrt"
GqaAttend(q, cap, kvs) == Attend(<<AttnScale, cap, q>>, kvs)

-----------------------------------------------------------------------------
(* The model                                                               *)

W(role, l) == Weight(role, l, "exact")
HiddenName(s, l, p) == <<"hidden", s, l, p>>
Embed(s, p) == HiddenName(s, 0, p)
KvName(s, l, p) == <<"kv", s, l, p>>
UnitNorm(x) == Norm("unit", x)

(* Per-layer inputs: a token adds its own embedding to the projection of   *)
(* the hidden state; an image position has only the projection.            *)
PerLayerInput(s, p) ==
  LET projected == Norm("proj_norm", MatVec("model_proj", Embed(s, p)))
  IN  IF fed[s][p] = "token" THEN Plus(<<"token_embd", s, p>>, projected) ELSE projected

(* The model's K/V of a layer, from the hidden state x before it.           *)
HeadNorm(role, l, y) == IF conf.kind = "plain" THEN y ELSE Norm(W(role, l), y)
KeyValue(l, p, x) ==
  LET h == Norm(W("in_norm", l), x)
      v == MatVec(W("v", l), h)
  IN  <<Rope(Theta(l), p, HeadNorm("k_norm", l, MatVec(W("k", l), h))),
        IF Gemma4 THEN UnitNorm(v) ELSE v>>
Query(l, p, x) ==
  Rope(Theta(l), p, HeadNorm("q_norm", l, MatVec(W("q", l), Norm(W("in_norm", l), x))))
MlpIn(l, x) == Norm(W("pre_ffn", l), x)
Mlp(l, m) ==
  MatVec(W("down", l), Gated("gelu", MatVec(W("gate", l), m), MatVec(W("up", l), m)))
PleAdd(l, x, ple) ==
  Plus(x, Norm(W("post_ple", l), MatVec(W("ple_proj", l),
                                   Gated("gelu", MatVec(W("ple_gate", l), x), <<"chunk", l, ple>>))))
Decoder(s, l, p) ==
  LET x == HiddenName(s, l, p)
      kvs == [t \in StartTpos(l, p + 1)..p |-> KvName(s, KvSource(l), t)]
      x1 == Plus(Norm(W("post_attn", l), MatVec(W("o", l), GqaAttend(Query(l, p, x), "none", kvs))),
                 x)
      x2 == Plus(Norm(W("post_ffn", l), Mlp(l, MlpIn(l, x1))), x1)
      x3 == IF Ple THEN PleAdd(l, x2, PerLayerInput(s, p)) ELSE x2
  IN  IF Gemma4 /\ l \in Scaled THEN Times(W("scale", l), x3) ELSE x3
Softcap(x) == <<"softcap", x>>
Logits(s, p) ==
  LET raw == MatVec("lm_head", Norm("norm", HiddenName(s, NumLayers, p)))
  IN  IF Gemma4 THEN Softcap(raw) ELSE raw

(* Names for what a path computed, where it is the model's.                 *)
NamedKv(s, l, p, kv) == Abbreviate(kv, KeyValue(l, p, HiddenName(s, l, p)), KvName(s, l, p))
NamedX(s, l, p, x) == Abbreviate(x, Decoder(s, l, p), HiddenName(s, l + 1, p))

-----------------------------------------------------------------------------
(* enable_metal_linear_backend takes the operations; enable_metal_full     *)
(* adds the graph for Gemma 3 and 4 unless a tensor is i2.                  *)
Enabled(kind, dtype) ==
  {[ops |-> o, graph |-> g] : o \in BOOLEAN, g \in BOOLEAN} \cap
    ((IF "cpu" \in Backends THEN {[ops |-> FALSE, graph |-> FALSE]} ELSE {})
       \cup (IF "linear" \in Backends THEN {[ops |-> TRUE, graph |-> FALSE]} ELSE {})
       \cup (IF "full" \in Backends
             THEN {[ops |-> TRUE, graph |-> kind # "plain" /\ dtype # "i2"]} ELSE {}))

Init ==
  /\ \E kind \in Kinds, dtype \in Dtypes : \E e \in Enabled(kind, dtype) :
        /\ conf = [kind |-> kind, dtype |-> dtype, ops |-> e.ops]
        /\ graph = e.graph
  /\ count = [s \in Sessions |-> 0]
  /\ cache = [s \in Sessions |-> [l \in Layer |-> [p \in Position |-> Stale]]]
  /\ gpu = [l \in Layer |-> [p \in Position |-> Stale]]
  /\ fed = [s \in Sessions |-> <<>>]
  /\ call = Idle
  /\ answer = Idle

(* step_topk and step_topk_from_hidden_with_token, for a token;             *)
(* step_topk_from_hidden, for an image position.                            *)
Begin(s, entry) ==
  /\ call = Idle
  /\ Cardinality(DOMAIN fed[s]) < MaxSeq
  /\ LET pos == Cardinality(DOMAIN fed[s]) IN
       /\ fed' = [fed EXCEPT ![s] = [p \in 0..pos |-> IF p = pos THEN entry ELSE fed[s][p]]]
       /\ call' = [s |-> s, pos |-> pos, at |-> "batched", layer |-> 0,
                   x |-> Embed(s, pos)]
  /\ answer' = Idle
  /\ UNCHANGED <<conf, graph, count, cache, gpu>>

(* The position is appended unless an earlier path or attempt did it.       *)
Appended == [count EXCEPT ![call.s] = IF call.pos = @ THEN @ + 1 ELSE @]
At(place) == call # Idle /\ call.at = place
Return(logits) == call' = Idle /\ answer' = [s |-> call.s, p |-> call.pos, logits |-> logits]

(* The step returns an error: it takes the position's input back, and the  *)
(* caller asks again for the same position.                                *)
Fail ==
  /\ call' = Idle
  /\ fed' = [fed EXCEPT ![call.s] = [p \in 0..(call.pos - 1) |-> fed[call.s][p]]]
  /\ UNCHANGED <<conf, graph, gpu, answer>>

-----------------------------------------------------------------------------
(* step_topk_batched                                                       *)

BatchedAllowed == conf.ops /\ ~Gemma3 /\ ~(Gemma4 /\ SharedLayers > 0) /\ ~Ple

(* One layer of the command buffer, on batched_x and the layer's buffers.  *)
BatchedLayer(l, st, pos) ==
  LET h == Norm(W("in_norm", l), st.x)
      q == Rope("rope_theta", pos, HeadNorm("q_norm", l, MatVec(W("q", l), h)))
      k == Rope("rope_theta", pos, HeadNorm("k_norm", l, MatVec(W("k", l), h)))
      kv == [st.kv EXCEPT ![l][pos] = NamedKv(call.s, l, pos, <<k, MatVec(W("v", l), h)>>)]
      attn == GqaAttend(q, "none", [t \in 0..pos |-> kv[l][t]])
      x1 == Plus(Norm(W("post_attn", l), MatVec(W("o", l), attn)), st.x)
      x2 == Plus(Norm(W("post_ffn", l), Mlp(l, MlpIn(l, x1))), x1)
  IN  [x |-> NamedX(call.s, l, pos, x2), kv |-> kv]
BatchedLayers(pos) ==
  LET Run[l \in 0..NumLayers] ==
        IF l = 0 THEN [x |-> call.x, kv |-> gpu] ELSE BatchedLayer(l - 1, Run[l - 1], pos)
  IN  Run[NumLayers]

(* The head, soft-capped by the caller of the batch for Gemma 4.            *)
CappedLogits(x) ==
  LET raw == MatVec("lm_head", Norm("norm", x)) IN IF Gemma4 THEN Softcap(raw) ELSE raw

(* Mutant: what the batch wrote stays on the GPU.                           *)
SyncBackNothing(s, pos, kv) == cache

(* K/V of the position, copied back for the regular path.                   *)
SyncBack(s, pos, kv) ==
  [cache EXCEPT ![s] = [l \in Layer |-> [@[l] EXCEPT ![pos] = kv[l][pos]]]]

(* The batch is not for this configuration: the position is not touched.    *)
BatchedDeclines ==
  /\ At("batched") /\ ~BatchedAllowed
  /\ call' = [call EXCEPT !.at = "graph"]
  /\ UNCHANGED <<conf, graph, count, cache, gpu, fed, answer>>

(* A matrix that is not i4, or a buffer that could not be made: the        *)
(* position is appended, the rest is left to the regular path.             *)
BatchedFallsBack ==
  /\ At("batched") /\ BatchedAllowed
  /\ conf.dtype # "i4" \/ PathFaults
  /\ count' = Appended
  /\ call' = [call EXCEPT !.at = "graph"]
  /\ UNCHANGED <<conf, graph, cache, gpu, fed, answer>>

BatchedStep ==
  /\ At("batched") /\ BatchedAllowed /\ conf.dtype = "i4"
  /\ count' = Appended
  /\ LET st == BatchedLayers(call.pos) IN
       /\ gpu' = st.kv
       /\ cache' = SyncBack(call.s, call.pos, st.kv)
       /\ Return(CappedLogits(st.x))
  /\ UNCHANGED <<conf, graph, fed>>

-----------------------------------------------------------------------------
(* GemmaGraphState.step_fused                                              *)

(* gemma4_kv_source_layer: a layer without a source keeps its own K/V.      *)
GraphSource(l) ==
  IF Gemma4 /\ SharedLayers > 0 /\ l >= FirstKvShared /\ Sources(l) # {} THEN Max(Sources(l))
  ELSE l

(* layer_scale_buf is one buffer, filled by the CPU while it encodes a     *)
(* layer; the commands of all layers run after that and find the values of *)
(* the last layer that has a scale.                                        *)
LayerScaleBuf ==
  IF Scaled = {} THEN <<"unset">> ELSE W("scale", Max(Scaled))

(* After the attention: norms, residuals, MLP, per-layer input and scale.   *)
GraphTail(l, proj, x, ple) ==
  LET x1 == Plus(Norm(W("post_attn", l), proj), x)
      x2 == Plus(Norm(W("post_ffn", l), Mlp(l, MlpIn(l, x1))), x1)
  IN  IF Ple THEN Times(LayerScaleBuf, PleAdd(l, x2, ple)) ELSE x2

(* The commands of a layer, on x_buf and the paged store.  The scale of the*)
(* output belongs to the per-layer input's commands.                       *)
GraphLayer(l, st, s, pos, seq) ==
  LET h == Norm(W("in_norm", l), st.x)
      q == Rope(Theta(l), pos, Norm(W("q_norm", l), MatVec(W("q", l), h)))
      v == MatVec(W("v", l), h)
      own == <<Rope(Theta(l), pos, Norm(W("k_norm", l), MatVec(W("k", l), h))),
               IF Gemma4 THEN UnitNorm(v) ELSE v>>
      kv == IF GraphSource(l) # l THEN st.kv
            ELSE [st.kv EXCEPT ![l][pos] = NamedKv(s, l, pos, own)]
      attn == GqaAttend(q, "none",
                [t \in StartTpos(l, seq)..(seq - 1) |-> kv[GraphSource(l)][t]])
  IN  [x |-> NamedX(s, l, pos, GraphTail(l, MatVec(W("o", l), attn), st.x, PerLayerInput(s, pos))),
       kv |-> kv]
StepFused(s, pos, seq) ==
  LET Run[l \in 0..NumLayers] ==
        IF l = 0 THEN [x |-> call.x, kv |-> cache[s]]
        ELSE GraphLayer(l - 1, Run[l - 1], s, pos, seq)
  IN  Run[NumLayers]

(* The graph caps the logits of Gemma 4, and its caller caps them again.    *)
GraphLogits(x) ==
  LET raw == MatVec("lm_head", Norm("norm", x)) IN IF Gemma4 THEN Softcap(Softcap(raw)) ELSE raw

(* No graph: the layers follow.                                             *)
GraphSkipped ==
  /\ At("graph") /\ ~graph
  /\ count' = Appended
  /\ call' = [call EXCEPT !.at = "layers"]
  /\ UNCHANGED <<conf, graph, cache, gpu, fed, answer>>

(* The graph's step, or its failure: logits that are not finite, or an     *)
(* error, put it away and leave the step to the loop.                      *)
GraphStep ==
  /\ At("graph") /\ graph
  /\ count' = Appended
  /\ LET st == StepFused(call.s, call.pos, count'[call.s]) IN
       \/ /\ cache' = [cache EXCEPT ![call.s] = st.kv]
          /\ Return(GraphLogits(st.x))
          /\ UNCHANGED <<conf, graph, gpu, fed>>
       \/ /\ PathFaults
          /\ cache' \in {cache, [cache EXCEPT ![call.s] = st.kv]}
          /\ graph' = FALSE
          /\ call' = [call EXCEPT !.at = "layers"]
          /\ UNCHANGED <<conf, gpu, fed, answer>>

-----------------------------------------------------------------------------
(* The loop of step_topk_from_hidden_inner, a layer a step                 *)

(* Attention and o_proj: on the GPU when o_proj is i4, and then with the   *)
(* final soft cap; otherwise by the CPU, without any.                      *)
LoopCap == IF conf.ops /\ conf.dtype = "i4" /\ Gemma4 THEN "final_softcap" ELSE "none"

(* The projections of a layer: one f16 kernel or one i4 batch for the      *)
(* three, or three products.                                                *)
QkvProjection(l, h) == <<MatVec(W("q", l), h), MatVec(W("k", l), h), MatVec(W("v", l), h)>>

(* The tail of a layer, after o_proj: everything in one i4 command buffer; *)
(* or norm and residual, the MLP (up to its last product in one f16 batch, *)
(* or operation by operation), norm and residual.                          *)
FusedTail(l, proj, x) ==
  LET x1 == Plus(Norm(W("post_attn", l), proj), x)
      m == Norm(W("pre_ffn", l), x1)
      gate == Gated("gelu", MatVec(W("gate", l), m), MatVec(W("up", l), m))
  IN  Plus(Norm(W("post_ffn", l), MatVec(W("down", l), gate)), x1)
PostAttnNorm(l, proj, x) == Plus(Norm(W("post_attn", l), proj), x)
FfnBatch(l, x) ==
  LET m == Norm(W("pre_ffn", l), x)
  IN  MatVec(W("down", l), Gated("gelu", MatVec(W("gate", l), m), MatVec(W("up", l), m)))
PostFfnNorm(l, down, x) == Plus(Norm(W("post_ffn", l), down), x)
LayerTail(l, proj, x) ==
  IF conf.ops /\ conf.dtype = "i4" THEN FusedTail(l, proj, x)
  ELSE LET x1 == PostAttnNorm(l, proj, x)
       IN  PostFfnNorm(l, IF conf.ops /\ conf.dtype = "f16" THEN FfnBatch(l, x1)
                          ELSE Mlp(l, MlpIn(l, x1)), x1)

(* The per-layer input, and the scale of a layer's output.                 *)
LayerOutput(l, x) ==
  LET y == IF Ple THEN PleAdd(l, x, PerLayerInput(call.s, call.pos)) ELSE x
  IN  IF Gemma4 /\ l \in Scaled THEN Times(W("scale", l), y) ELSE y

(* write_kv_token takes the offset within the block for the position.       *)
GpuWrite(l, kv) ==
  IF conf.ops THEN [gpu EXCEPT ![l][call.pos % BlockSize] = kv] ELSE gpu

(* A layer: projections, head norms, rotation, the write of K/V unless it  *)
(* shares another layer's, attention over the window, and the tail.        *)
LoopLayer(l) ==
  LET s == call.s
      h == Norm(W("in_norm", l), call.x)
      qkv == QkvProjection(l, h)
      q == Rope(Theta(l), call.pos, Norm(W("q_norm", l), qkv[1]))
      k == Rope(Theta(l), call.pos, Norm(W("k_norm", l), qkv[2]))
      v == IF Gemma4 THEN UnitNorm(qkv[3]) ELSE qkv[3]
      kv == NamedKv(s, l, call.pos, <<k, v>>)
      written == IF IsKvShared(l) THEN cache ELSE [cache EXCEPT ![s][l][call.pos] = kv]
      kvs == [t \in StartTpos(l, count[s])..(count[s] - 1) |-> written[s][KvSource(l)][t]]
      proj == MatVec(W("o", l), GqaAttend(q, LoopCap, kvs))
  IN  /\ cache' = written
      /\ gpu' = IF IsKvShared(l) THEN gpu ELSE GpuWrite(l, kv)
      /\ call' = [call EXCEPT !.x = NamedX(s, l, call.pos, LayerOutput(l, LayerTail(l, proj, call.x))),
                              !.layer = l + 1]

(* The loop needs the head norms, and a source for a layer that shares.     *)
LoopWorks(l) == conf.kind # "plain" /\ (IsKvShared(l) => Sources(l) # {})

LoopStep ==
  /\ At("layers") /\ call.layer < NumLayers
  /\ LoopWorks(call.layer)
  /\ LoopLayer(call.layer)
  /\ UNCHANGED <<conf, graph, count, fed, answer>>

(* An operation of the layer fails; the K/V it wrote before are those of   *)
(* LoopStep, and are written once more when the step is repeated.          *)
LoopFails ==
  /\ At("layers") /\ call.layer < NumLayers
  /\ conf.ops \/ ~LoopWorks(call.layer)
  /\ UNCHANGED <<count, cache>>
  /\ Fail

Finish ==
  /\ At("layers") /\ call.layer = NumLayers
  /\ Return(CappedLogits(call.x))
  /\ UNCHANGED <<conf, graph, count, cache, gpu, fed>>

(* The session is closed and its blocks are freed; another of the same name*)
(* may start.                                                              *)
CloseSession(s) ==
  /\ call = Idle /\ count[s] > 0
  /\ count' = [count EXCEPT ![s] = 0]
  /\ cache' = [cache EXCEPT ![s] = [l \in Layer |-> [p \in Position |-> Stale]]]
  /\ fed' = [fed EXCEPT ![s] = <<>>]
  /\ answer' = Idle
  /\ UNCHANGED <<conf, graph, gpu, call>>

Next ==
  \/ \E s \in Sessions : \E entry \in {"token", "hidden"} : Begin(s, entry)
  \/ \E s \in Sessions : CloseSession(s)
  \/ BatchedDeclines \/ BatchedFallsBack \/ BatchedStep
  \/ GraphSkipped \/ GraphStep
  \/ LoopStep \/ LoopFails \/ Finish

Spec == Init /\ [][Next]_vars

-----------------------------------------------------------------------------
Fed(s) == Cardinality(DOMAIN fed[s])
Done(s) == IF call # Idle /\ call.s = s THEN call.pos ELSE Fed(s)

TypeOK ==
  /\ conf.kind \in Kinds /\ conf.dtype \in Dtypes /\ graph \in BOOLEAN
  /\ \A s \in Sessions : count[s] \in 0..MaxSeq /\ Fed(s) <= MaxSeq /\ Done(s) <= count[s]
  /\ call # Idle => call.layer \in 0..NumLayers

(* The K/V of every finished position, in every layer that keeps its own,  *)
(* are the model's for that session, whichever of the three paths wrote    *)
(* them and whatever failed and was repeated in between.                   *)
CacheIsTheModels ==
  \A s \in Sessions : \A l \in Layer : \A p \in 0..(Done(s) - 1) :
    ~IsKvShared(l) => cache[s][l][p] = KvName(s, l, p)

(* A step's logits are the model's for its session and position: windows,  *)
(* shared layers, per-layer inputs, scales and caps included.              *)
AnswerIsTheModels == answer # Idle => answer.logits = Logits(answer.s, answer.p)
=============================================================================
