----------------------------- MODULE LlamaPass -----------------------------
(***************************************************************************)
(* A forward pass of LlamaRunner.  The same step can be computed by the    *)
(* fused Metal graph, by per-operation Metal kernels, by the CPU, or, for  *)
(* a prefill, by a batched graph or the WebGPU batch, and a failing path   *)
(* hands over to the next one in the middle of the work, with the K/V      *)
(* cache already written.  Whatever path ran, the cache and the logits     *)
(* must be those of the model.                                             *)
(*                                                                         *)
(* One session; PagedKv and GraphBases say which slot a position has, here *)
(* a slot is its position.                                                 *)
(***************************************************************************)
EXTENDS Terms, FiniteSets

CONSTANTS
  NumLayers,       \* cfg.num_hidden_layers
  MaxLayers,       \* max_layers
  MaxSeq,          \* bound: positions
  Backends,        \* backends to enable: "cpu", "linear", "full", "graph", "webgpu"
  Dtypes,          \* dtypes of the weight matrices
  NormDtype,       \* dtype of the norm weights
  MaxFused,        \* bound: tokens of one prefill_fused
  GraphFaults,     \* TRUE: step_fused may fail, or give logits that are not finite
  Calls,           \* entry points the caller uses: "step", "prefill", "fused"
  Idle             \* no call; no logits

Dtype == {"f16", "i8", "i4", "f32"}
Layer == 0..(MaxLayers - 1)
Position == 0..(MaxSeq - 1)

(* A call under way: its kind, its tokens n from a position on, the token i *)
(* it has come to, and the place and layer in the loop of that token.       *)
CallRecord ==
  [kind : {"step", "prefill", "fused"}, from : Position, n : 1..MaxSeq, i : Position,
   at : {"enter", "norm", "qkv", "rope", "write", "attend", "o_proj", "ffn_metal", "ffn", "logits"},
   layer : Layer, logits : BOOLEAN]

LlamaAssumption ==
  /\ {NumLayers, MaxLayers, MaxSeq, MaxFused} \subseteq Nat \ {0} /\ MaxLayers <= NumLayers
  /\ Backends \subseteq {"cpu", "linear", "full", "graph", "webgpu"}
  /\ Dtypes \subseteq Dtype /\ NormDtype \in Dtype
  /\ GraphFaults \in BOOLEAN
  /\ Calls \subseteq {"step", "prefill", "fused"}
  /\ Idle \notin CallRecord

VARIABLES
  conf,            \* backends, switches and weight formats of the runner
  graph,           \* graph_state.is_some()
  count,           \* page_table.token_count()
  cache,           \* K/V written for a layer and a position, or Stale
  next_pos,        \* the position of the caller's next token
  call,            \* the call under way, or Idle
  buf,             \* x, x_norm, q, k, v, attn_out of the CPU loop
  answer           \* logits the last call returned, or Idle

vars == <<conf, graph, count, cache, next_pos, call, buf, answer>>

Stale == <<"stale">>
Blank == [x |-> Stale, x_norm |-> Stale, q |-> Stale, k |-> Stale, v |-> Stale,
          attn_out |-> Stale]

-----------------------------------------------------------------------------
(* The model: what Llama's layers are, whatever the path.                  *)

Style == IF conf.interleaved THEN "adjacent" ELSE "half"
True(role, l) == Weight(role, l, "exact")
KeyValue(l, p, x) ==
  LET h == Norm(True("in_norm", l), x)
  IN  <<Rope(Style, p, MatVec(True("k", l), h)), MatVec(True("v", l), h)>>
Decoder(l, p, xs) ==
  LET h == Norm(True("in_norm", l), xs[p])
      q == Rope(Style, p, MatVec(True("q", l), h))
      y == Plus(xs[p], MatVec(True("o", l), Attend(q, [t \in 0..p |-> KeyValue(l, t, xs[t])])))
      m == Norm(True("post_norm", l), y)
  IN  Plus(y, MatVec(True("down", l),
                Gated("silu", MatVec(True("gate", l), m), MatVec(True("up", l), m))))
Hidden ==
  LET H[l \in 0..MaxLayers] ==
        [p \in Position |-> IF l = 0 THEN Embedded(p) ELSE Decoder(l - 1, p, H[l - 1])]
  IN  H
Logits(p) == MatVec(True("lm_head", MaxLayers), Norm(True("norm", MaxLayers), Hidden[MaxLayers][p]))

-----------------------------------------------------------------------------
(* Configuration                                                           *)

Parts(linear, ops, strict, fused) ==
  [linear |-> linear, ops |-> ops, strict |-> strict, fused |-> fused]

(* enable_metal_linear_backend: the matmul context, or the CPU.            *)
EnableMetalLinear == {Parts(b, FALSE, FALSE, FALSE) : b \in {"Metal", "Cpu"}}

(* enable_metal_full_backend: the graph with whatever else could be made;  *)
(* without a graph both contexts, or neither.                              *)
EnableMetalFull ==
  {Parts(b, o, TRUE, TRUE) : b \in {"Metal", "Cpu"}, o \in BOOLEAN}
    \cup {Parts("Metal", TRUE, TRUE, FALSE), Parts("Cpu", FALSE, FALSE, FALSE)}

EnabledParts ==
  UNION {CASE b = "cpu" -> {Parts("Cpu", FALSE, FALSE, FALSE)}
           [] b = "linear" -> EnableMetalLinear
           [] b = "full" -> EnableMetalFull
           [] b = "graph" -> {parts \in EnableMetalFull : parts.fused}
           [] b = "webgpu" -> {Parts("WebGpu", FALSE, FALSE, FALSE)} : b \in Backends}

(* from_file reads the switches from the environment.                      *)
Init ==
  /\ \E parts \in EnabledParts, d \in Dtypes, norm, rope, interleaved, mv \in BOOLEAN :
        /\ (norm \/ rope \/ mv) => parts.ops
        /\ conf = [linear |-> parts.linear, ops |-> parts.ops, strict |-> parts.strict,
                   dtype |-> d, norm |-> norm, rope |-> rope, mv |-> mv,
                   interleaved |-> interleaved]
        /\ graph = parts.fused
  /\ count = 0
  /\ cache = [l \in 0..(NumLayers - 1) |-> [p \in Position |-> Stale]]
  /\ next_pos = 0
  /\ call = Idle
  /\ buf = Blank
  /\ answer = Idle

-----------------------------------------------------------------------------
(* The fused graph                                                         *)

(* What preloading leaves of a weight: i8 rows are dequantized, i4 rows    *)
(* only as far as the number of packed bytes, other bytes are taken as f16.*)
Preloaded(dtype) ==
  CASE dtype \in {"f16", "i8"} -> "exact"
    [] dtype = "i4" -> "half_row"
    [] OTHER -> "as_f16"

(* get_weight.                                                              *)
GraphWeight(role, l) ==
  Weight(role, l, Preloaded(IF role \in {"in_norm", "post_norm", "norm"} THEN NormDtype
                            ELSE conf.dtype))

(* The commands step_fused encodes for a layer, on x_buf and the K/V store.*)
GraphLayer(l, s, pos, seq) ==
  LET x_norm == Norm(GraphWeight("in_norm", l), s.x)
      q == Rope(Style, pos, MatVec(GraphWeight("q", l), x_norm))
      k == Rope(Style, pos, MatVec(GraphWeight("k", l), x_norm))
      kv == [s.kv EXCEPT ![l][pos] = <<k, MatVec(GraphWeight("v", l), x_norm)>>]
      attn_out == Attend(q, [t \in 0..(seq - 1) |-> kv[l][t]])
      x1 == Plus(s.x, MatVec(GraphWeight("o", l), attn_out))
      x_norm2 == Norm(GraphWeight("post_norm", l), x1)
      gate == Gated("silu", MatVec(GraphWeight("gate", l), x_norm2),
                    MatVec(GraphWeight("up", l), x_norm2))
  IN  [x |-> Plus(x1, MatVec(GraphWeight("down", l), gate)), kv |-> kv]

(* step_fused runs every layer of the model.                               *)
StepFused(pos, seq) ==
  LET Run[l \in 0..NumLayers] ==
        IF l = 0 THEN [x |-> Embedded(pos), kv |-> cache]
        ELSE GraphLayer(l - 1, Run[l - 1], pos, seq)
  IN  Run[NumLayers]

(* The head of the graph, over x_buf.                                      *)
GraphLogits(x) == MatVec(GraphWeight("lm_head", NumLayers), Norm(GraphWeight("norm", NumLayers), x))

(***************************************************************************)
(* prefill_fused of the graph: all_x holds every token's x; a layer norms, *)
(* projects, rotates and writes all tokens, then attends each of them up   *)
(* to its own position; phases 5 and 7 pass the tokens through x_buf.      *)
(***************************************************************************)
PrefillLayer(l, s, from, n) ==
  LET I == 0..(n - 1)
      x_norm_all == [i \in I |-> Norm(GraphWeight("in_norm", l), s.all_x[i])]
      q_all == [i \in I |-> Rope(Style, from + i, MatVec(GraphWeight("q", l), x_norm_all[i]))]
      k_all == [i \in I |-> Rope(Style, from + i, MatVec(GraphWeight("k", l), x_norm_all[i]))]
      v_all == [i \in I |-> MatVec(GraphWeight("v", l), x_norm_all[i])]
      kv == [s.kv EXCEPT ![l] = [p \in Position |->
               IF p - from \in I THEN <<k_all[p - from], v_all[p - from]>> ELSE @[p]]]
      o_out == [i \in I |-> MatVec(GraphWeight("o", l),
                              Attend(q_all[i], [t \in 0..(from + i) |-> kv[l][t]]))]
      post == [i \in I |-> Norm(GraphWeight("post_norm", l), Plus(s.all_x[i], o_out[i]))]
      gate == [i \in I |-> Gated("silu", MatVec(GraphWeight("gate", l), post[i]),
                                 MatVec(GraphWeight("up", l), post[i]))]
      all_x == [i \in I |-> Plus(Plus(s.all_x[i], o_out[i]),
                                 MatVec(GraphWeight("down", l), gate[i]))]
  IN  [all_x |-> all_x, kv |-> kv]
GraphPrefill(from, n) ==
  LET Run[l \in 0..NumLayers] ==
        IF l = 0 THEN [all_x |-> [i \in 0..(n - 1) |-> Embedded(from + i)], kv |-> cache]
        ELSE PrefillLayer(l - 1, Run[l - 1], from, n)
  IN  Run[NumLayers]

-----------------------------------------------------------------------------
(* The WebGPU batch: weights come straight from the file, norms as f32 and *)
(* matrices as f16, whatever they are stored as.                           *)

(* The weight as it is uploaded on first use and kept by its own name.      *)
WebGpuWeight(role, l) ==
  IF role \in {"in_norm", "post_norm"}
  THEN Weight(role, l, IF NormDtype = "f32" THEN "exact" ELSE "as_f32")
  ELSE Weight(role, l, IF conf.dtype = "f16" THEN "exact" ELSE "as_f16")
WebGpuLayer(l, s, from, n) ==
  LET I == 0..(n - 1)
      x_norm == [i \in I |-> Norm(WebGpuWeight("in_norm", l), s.x[i])]
      q == [i \in I |-> Rope(Style, from + i, MatVec(WebGpuWeight("q", l), x_norm[i]))]
      k == [i \in I |-> Rope(Style, from + i, MatVec(WebGpuWeight("k", l), x_norm[i]))]
      kv == [s.kv EXCEPT ![l] = [p \in Position |->
               IF p - from \in I
               THEN <<k[p - from], MatVec(WebGpuWeight("v", l), x_norm[p - from])>>
               ELSE @[p]]]
      attn_out == [i \in I |-> Attend(q[i], [t \in 0..(from + i) |-> kv[l][t]])]
      x1 == [i \in I |-> Plus(s.x[i], MatVec(WebGpuWeight("o", l), attn_out[i]))]
      m == [i \in I |-> Norm(WebGpuWeight("post_norm", l), x1[i])]
      gate == [i \in I |-> Gated("silu", MatVec(WebGpuWeight("gate", l), m[i]),
                                 MatVec(WebGpuWeight("up", l), m[i]))]
  IN  [x |-> [i \in I |-> Plus(x1[i], MatVec(WebGpuWeight("down", l), gate[i]))], kv |-> kv]
WebGpuPrefill(from, n) ==
  LET Run[l \in 0..MaxLayers] ==
        IF l = 0 THEN [x |-> [i \in 0..(n - 1) |-> Embedded(from + i)], kv |-> cache]
        ELSE WebGpuLayer(l - 1, Run[l - 1], from, n)
  IN  Run[MaxLayers]

-----------------------------------------------------------------------------
(* One operation of the loop: a set of possible results, Failed for the    *)
(* error that ends the call.                                               *)

Failed == <<"failed">>

(* The Metal norm takes the weight's bytes as f16; the CPU checks their    *)
(* number.                                                                 *)
NormResults(role, l, x) ==
  IF conf.norm
  THEN {Norm(Weight(role, l, IF NormDtype = "f16" THEN "exact" ELSE "as_f16"), x), Failed}
  ELSE {IF NormDtype = "f16" THEN Norm(True(role, l), x) ELSE Failed}

(* The CPU kernels know f16, i8 and i4.                                     *)
OnCpu(role, l, x) ==
  {IF conf.dtype \in {"f16", "i8", "i4"} THEN MatVec(True(role, l), x) ELSE Failed}

(***************************************************************************)
(* linear_f16_out_in: the Metal matrix-vector kernels, which may fail; the *)
(* chunked Metal matmul, for f16 only, which in full Metal may not hand    *)
(* over; the CPU, for f16, i8 and i4.                                      *)
(***************************************************************************)
LinearResults(role, l, x) ==
  LET exact == MatVec(True(role, l), x)
      mv == conf.ops /\ (conf.dtype = "i8" \/ (conf.mv /\ conf.dtype \in {"f16", "i4"}))
  IN  IF mv THEN {exact, Failed}
      ELSE IF conf.linear # "Metal" THEN OnCpu(role, l, x)
      ELSE (IF conf.dtype = "f16" THEN {exact} ELSE {})
             \cup (IF conf.strict THEN {Failed} ELSE OnCpu(role, l, x))

(* linear_qkv_f16_out_in: one kernel for the three, for f16 with Metal     *)
(* operations; otherwise three calls of linear.                            *)
QkvResults(l, x) ==
  IF conf.ops /\ conf.dtype = "f16"
  THEN {<<MatVec(True("q", l), x), MatVec(True("k", l), x), MatVec(True("v", l), x)>>, Failed}
  ELSE {IF Failed \in {q, k, v} THEN Failed ELSE <<q, k, v>> :
          q \in LinearResults("q", l, x), k \in LinearResults("k", l, x),
          v \in LinearResults("v", l, x)}

-----------------------------------------------------------------------------
(* Calls                                                                   *)

Pos == call.from + call.i
At(place) == call # Idle /\ call.at = place
Goto(place) == call' = [call EXCEPT !.at = place]
UnchangedBut == UNCHANGED <<conf, graph, count, cache, next_pos, answer>>

(* The call returns an error.  A failed step is repeated (the position is   *)
(* appended by then); after a failed prefill the client resets the session, *)
(* as Engine's careful client does, and what it wrote is of no use.         *)
Return_Err ==
  /\ call' = Idle
  /\ answer' = Idle
  /\ IF call.kind = "step" THEN UNCHANGED <<count, cache, next_pos>>
     ELSE /\ count' = 0 /\ next_pos' = 0
          /\ cache' = [l \in DOMAIN cache |-> [p \in Position |-> Stale]]
  /\ UNCHANGED <<conf, graph, buf>>

(* The position is finished: the next one of a prefill, or Ok.             *)
Return_Ok(logits) ==
  IF call.i + 1 < call.n
  THEN /\ call' = [call EXCEPT !.i = @ + 1, !.at = "enter"]
       /\ UNCHANGED <<next_pos, answer>>
  ELSE /\ call' = Idle
       /\ next_pos' = call.from + call.n
       /\ answer' = logits

(* step_topk, prefill and prefill_fused(_hidden) with the caller's tokens. *)
Begin(kind, n, logits) ==
  /\ call = Idle
  /\ kind \in Calls
  /\ next_pos + n <= MaxSeq
  /\ call' = [kind |-> kind, from |-> next_pos, n |-> n, i |-> 0, at |-> "enter",
              layer |-> 0, logits |-> logits]
  /\ answer' = Idle
  /\ UNCHANGED <<conf, graph, count, cache, next_pos, buf>>

(* The whole prefill is appended before anything is computed.              *)
Appended(from, n) == IF count < from + n THEN from + n ELSE count

(* prefill_fused_hidden on the batched graph.                              *)
FusedOnGraph ==
  /\ At("enter") /\ call.kind = "fused" /\ call.i = 0 /\ conf.linear # "WebGpu" /\ graph
  /\ count' = Appended(call.from, call.n)
  /\ LET s == GraphPrefill(call.from, call.n) IN
       /\ cache' = s.kv
       /\ answer' = IF call.logits THEN GraphLogits(s.all_x[call.n - 1]) ELSE Idle
  /\ call' = Idle
  /\ next_pos' = call.from + call.n
  /\ UNCHANGED <<conf, graph, buf>>

(* prefill_fused_hidden on WebGPU: the logits are computed by the CPU.     *)
FusedOnWebGpu ==
  /\ At("enter") /\ call.kind = "fused" /\ call.i = 0 /\ conf.linear = "WebGpu"
  /\ count' = Appended(call.from, call.n)
  /\ LET s == WebGpuPrefill(call.from, call.n) IN
       /\ cache' = [l \in DOMAIN cache |-> IF l \in Layer THEN s.kv[l] ELSE cache[l]]
       /\ IF call.logits
          THEN /\ buf' = [Blank EXCEPT !.x = s.x[call.n - 1]]
               /\ call' = [call EXCEPT !.i = call.n - 1, !.at = "logits"]
               /\ UNCHANGED <<next_pos, answer>>
          ELSE /\ call' = Idle
               /\ next_pos' = call.from + call.n
               /\ UNCHANGED <<buf, answer>>
  /\ UNCHANGED <<conf, graph>>

(* prefill_fused_hidden without either: everything is appended, then every *)
(* token takes a step.                                                     *)
FusedPerToken ==
  /\ At("enter") /\ call.kind = "fused" /\ call.i = 0 /\ conf.linear # "WebGpu" /\ ~graph
  /\ count < call.from + call.n
  /\ count' = call.from + call.n
  /\ UNCHANGED <<conf, graph, cache, next_pos, call, buf, answer>>

WantsLogits == call.logits /\ (call.kind # "prefill") /\ call.i = call.n - 1
Entering ==
  /\ At("enter")
  /\ call.kind # "fused" \/ call.i > 0
       \/ (conf.linear # "WebGpu" /\ ~graph /\ count >= call.from + call.n)

(***************************************************************************)
(* step_inner on the fused graph: its result is the answer; logits that    *)
(* are not finite, or an error, disable the graph for good and the loop    *)
(* below does the same step over again.                                    *)
(***************************************************************************)
EnterGraph ==
  /\ Entering /\ graph
  /\ count' = IF Pos = count THEN count + 1 ELSE count
  /\ LET s == StepFused(Pos, count') IN
       \/ /\ cache' = s.kv
          /\ Return_Ok(IF WantsLogits THEN GraphLogits(s.x) ELSE Idle)
          /\ UNCHANGED <<conf, graph, buf>>
       \/ /\ GraphFaults
          /\ cache' \in {s.kv, cache}
          /\ graph' = FALSE
          /\ UNCHANGED <<conf, next_pos, call, buf, answer>>

(* The loop starts: the position is appended unless the graph did it.      *)
EnterLoop ==
  /\ Entering /\ ~graph
  /\ count' = IF Pos = count THEN count + 1 ELSE count
  /\ buf' = [Blank EXCEPT !.x = Embedded(Pos)]
  /\ call' = [call EXCEPT !.at = "norm", !.layer = 0]
  /\ UNCHANGED <<conf, graph, cache, next_pos, answer>>

(* A result r of an operation, or the error that ends the call.            *)
Result(results, Use(_)) ==
  \E r \in results :
    IF r = Failed THEN Return_Err ELSE Use(r)

AttnNorm ==
  /\ At("norm")
  /\ LET Use(r) == buf' = [buf EXCEPT !.x_norm = r] /\ Goto("qkv") /\ UnchangedBut
     IN  Result(NormResults("in_norm", call.layer, buf.x), Use)

Qkv ==
  /\ At("qkv")
  /\ LET Use(r) == /\ buf' = [buf EXCEPT !.q = r[1], !.k = r[2], !.v = r[3]]
                   /\ Goto("rope") /\ UnchangedBut
     IN  Result(QkvResults(call.layer, buf.x_norm), Use)

(* The Metal rotation only exists for adjacent pairs, and may fail.        *)
RopeQK ==
  /\ At("rope")
  /\ \/ /\ buf' = [buf EXCEPT !.q = Rope(Style, Pos, @), !.k = Rope(Style, Pos, @)]
        /\ Goto("write") /\ UnchangedBut
     \/ conf.rope /\ conf.interleaved /\ Return_Err

WriteToken ==
  /\ At("write")
  /\ cache' = [cache EXCEPT ![call.layer][Pos] = <<buf.k, buf.v>>]
  /\ Goto("attend")
  /\ UNCHANGED <<conf, graph, count, next_pos, buf, answer>>

(* The attention reads every position of the page table.                   *)
Attention ==
  /\ At("attend")
  /\ buf' = [buf EXCEPT !.attn_out =
               Attend(buf.q, [t \in 0..(count - 1) |-> cache[call.layer][t]])]
  /\ Goto("o_proj")
  /\ UnchangedBut

OProj ==
  /\ At("o_proj")
  /\ LET Use(r) == buf' = [buf EXCEPT !.x = Plus(@, r)] /\ Goto("ffn_metal") /\ UnchangedBut
     IN  Result(LinearResults("o", call.layer, buf.attn_out), Use)

NextLayer == IF call.layer + 1 < MaxLayers
             THEN call' = [call EXCEPT !.layer = @ + 1, !.at = "norm"]
             ELSE Goto("logits")
FeedForward(l, x) ==
  LET nb == Norm(True("post_norm", l), x)
  IN  Plus(x, MatVec(True("down", l),
                Gated("silu", MatVec(True("gate", l), nb), MatVec(True("up", l), nb))))

(***************************************************************************)
(* The feed-forward as one Metal batch, when the gate weight is f16: x is  *)
(* only replaced once the batch has run and been read back; any failure    *)
(* leaves the layer to the code below.                                     *)
(***************************************************************************)
FfnMetal ==
  /\ At("ffn_metal")
  /\ \/ /\ conf.ops /\ conf.dtype = "f16" /\ NormDtype = "f16"
        /\ buf' = [buf EXCEPT !.x = FeedForward(call.layer, @)]
        /\ NextLayer
     \/ Goto("ffn") /\ UNCHANGED buf
  /\ UnchangedBut

Ffn ==
  /\ At("ffn")
  /\ \E m \in NormResults("post_norm", call.layer, buf.x) :
     \E g \in LinearResults("gate", call.layer, m), u \in LinearResults("up", call.layer, m) :
     \E d \in LinearResults("down", call.layer, Gated("silu", g, u)) :
        IF Failed \in {m, g, u, d} THEN Return_Err
        ELSE buf' = [buf EXCEPT !.x = Plus(@, d)] /\ NextLayer /\ UnchangedBut

(* compute_logits: a Metal kernel for f16 and i8, the CPU for i4 too.      *)
HeadResults(x) ==
  (IF conf.dtype \in {"f16", "i8", "i4"} THEN {MatVec(True("lm_head", MaxLayers), x)} ELSE {})
    \cup (IF conf.ops \/ conf.dtype = "f32" THEN {Failed} ELSE {})

Finish ==
  /\ At("logits")
  /\ IF ~WantsLogits
     THEN Return_Ok(Idle) /\ UNCHANGED <<conf, graph, count, cache, buf>>
     ELSE \E xf \in NormResults("norm", MaxLayers, buf.x) : \E r \in HeadResults(xf) :
            IF Failed \in {xf, r} THEN Return_Err
            ELSE Return_Ok(r) /\ UNCHANGED <<conf, graph, count, cache, buf>>

Next ==
  \/ \E kind \in {"step", "fused"}, logits \in BOOLEAN, n \in 1..MaxSeq :
       n <= (IF kind = "step" THEN 1 ELSE MaxFused) /\ Begin(kind, n, logits)
  \/ \E n \in 1..MaxSeq : Begin("prefill", n, FALSE)
  \/ FusedOnGraph \/ FusedOnWebGpu \/ FusedPerToken
  \/ EnterGraph \/ EnterLoop
  \/ AttnNorm \/ Qkv \/ RopeQK \/ WriteToken \/ Attention \/ OProj
  \/ FfnMetal \/ Ffn \/ Finish

Spec == Init /\ [][Next]_vars

-----------------------------------------------------------------------------
TypeOK ==
  /\ conf.linear \in {"Cpu", "Metal", "WebGpu"} /\ conf.dtype \in Dtypes
  /\ graph \in BOOLEAN
  /\ count \in 0..MaxSeq /\ next_pos \in 0..count
  /\ call # Idle => /\ call \in CallRecord
                    /\ call.from = next_pos /\ call.i \in 0..(call.n - 1)

(* Once a position has been answered, its K/V in every layer of the model  *)
(* that is run are those of the model, whichever path wrote them and       *)
(* however often a failed call was repeated.                               *)
CacheIsTheModels ==
  \A l \in Layer, p \in 0..(next_pos - 1) : cache[l][p] = KeyValue(l, p, Hidden[l][p])

(* The logits a call returns are the model's for its last position: no     *)
(* mixture of paths, retries or hand-overs shows in them.                  *)
AnswerIsTheModels == answer # Idle => answer = Logits(next_pos - 1)
=============================================================================
