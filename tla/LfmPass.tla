------------------------------ MODULE LfmPass ------------------------------
(***************************************************************************)
(* Forward passes of LfmRunner: a call feeds one token (step_topk) or      *)
(* several (prefill) through layers that either attend, with the paged K/V *)
(* of the session as their history, or convolve the last few gated inputs, *)
(* with a window that belongs to the runner as theirs.                      *)
(*                                                                         *)
(* The fused graph is built and dropped by enable_metal_full_backend: what *)
(* runs is the loop over the layers, with or without the Metal operations.  *)
(***************************************************************************)
EXTENDS Terms, FiniteSets

CONSTANTS
  Sessions,
  NumLayers,       \* cfg.num_hidden_layers, and max_layers
  ConvLayers,      \* the layers of type "conv"
  KernelSize,      \* conv_kernel_size
  MaxSeq,          \* bound: positions of a session
  MaxPrefill,      \* bound: tokens of one prefill
  Dtypes,          \* dtypes of the weight matrices: "f16", "u32"
  Backends,        \* "cpu", "metal"
  MaxFaults,       \* bound: kernels that fail in a layer
  Resets,          \* TRUE: the engine rewinds and cancels sessions
  Idle             \* no call; no answer

LfmAssumption ==
  /\ {NumLayers, KernelSize, MaxSeq, MaxPrefill} \subseteq Nat \ {0} /\ MaxFaults \in Nat
  /\ ConvLayers \subseteq 0..(NumLayers - 1)
  /\ Dtypes \subseteq {"f16", "u32"} /\ Backends \subseteq {"cpu", "metal"} /\ Resets \in BOOLEAN

VARIABLES
  conf,            \* dtype of the matrices, and metal_ops.is_some()
  count,           \* per session: page_table.token_count()
  cache,           \* per session: paged K/V of a layer and a position
  conv_states,     \* per conv layer: the last KernelSize products B * x
  fed,             \* per session: how many positions its caller has finished
  faults,          \* kernels that failed so far
  call,            \* the call under way, or Idle
  answer           \* what the last step_topk returned, or Idle

vars == <<conf, count, cache, conv_states, fed, faults, call, answer>>

Layer == 0..(NumLayers - 1)
Position == 0..(MaxSeq - 1)
Stale == <<"stale">>
Zero == <<"zero">>
IsConv(l) == l \in ConvLayers
NewWindow == [k \in 1..KernelSize |-> Zero]

-----------------------------------------------------------------------------
(* The model                                                               *)

W(role, l) == Weight(role, l, "exact")
HiddenName(s, l, p) == <<"hidden", s, l, p>>
Embed(s, p) == HiddenName(s, 0, p)
KvName(s, l, p) == <<"kv", s, l, p>>
BxName(s, l, p) == IF p < 0 THEN Zero ELSE <<"bx", s, l, p>>
WindowName(s, l, p) == [k \in 1..KernelSize |-> BxName(s, l, p - KernelSize + k)]

KeyValue(l, p, h) ==
  <<Rope("half", p, Norm(W("k_layernorm", l), MatVec(W("k", l), h))), MatVec(W("v", l), h)>>
Query(l, p, h) == Rope("half", p, Norm(W("q_layernorm", l), MatVec(W("q", l), h)))
Bx(l, h) == Gated("times", MatVec(W("in_proj_b", l), h), MatVec(W("in_proj_x", l), h))

(* The kernel over the window, gated by C, and the output projection.       *)
Convolved(l, h, window) ==
  MatVec(W("out_proj", l),
         Gated("times", MatVec(W("in_proj_c", l), h), <<"conv", W("conv", l), window>>))
Attended(l, p, h, kvs) == MatVec(W("o", l), Attend(Query(l, p, h), kvs))
FeedForward(l, x) ==
  LET m == Norm(W("ffn_norm", l), x)
  IN  Plus(x, MatVec(W("w2", l), Gated("silu", MatVec(W("w1", l), m), MatVec(W("w3", l), m))))

Decoder(s, l, p) ==
  LET x == HiddenName(s, l, p)
      h == Norm(W("operator_norm", l), x)
      out == IF IsConv(l) THEN Convolved(l, h, WindowName(s, l, p))
             ELSE Attended(l, p, h, [t \in 0..p |-> KvName(s, l, t)])
  IN  FeedForward(l, Plus(x, out))
Logits(s, p) == MatVec("embed_tokens", Norm("embedding_norm", HiddenName(s, NumLayers, p)))

(* Names for what the loop computed, where it is the model's.               *)
NamedKv(s, l, p, kv) ==
  Abbreviate(kv, KeyValue(l, p, Norm(W("operator_norm", l), HiddenName(s, l, p))), KvName(s, l, p))
NamedBx(s, l, p, bx) ==
  Abbreviate(bx, Bx(l, Norm(W("operator_norm", l), HiddenName(s, l, p))), BxName(s, l, p))
NamedX(s, l, p, x) == Abbreviate(x, Decoder(s, l, p), HiddenName(s, l + 1, p))

-----------------------------------------------------------------------------
(* from_file makes one window per conv layer; enable_metal_full_backend    *)
(* only takes the operations.                                               *)
Init ==
  /\ \E dtype \in Dtypes, b \in Backends : conf = [dtype |-> dtype, ops |-> b = "metal"]
  /\ count = [s \in Sessions |-> 0]
  /\ cache = [s \in Sessions |-> [l \in Layer |-> [p \in Position |-> Stale]]]
  /\ conv_states = [l \in ConvLayers |-> NewWindow]
  /\ fed = [s \in Sessions |-> 0]
  /\ faults = 0
  /\ call = Idle
  /\ answer = Idle

(* Both entries append the position at hand if the page table ends there.   *)
AppendedAt(s, p) == [count EXCEPT ![s] = IF @ = p THEN p + 1 ELSE @]

(* A call for n tokens from the position its caller is at; step_topk wants *)
(* logits and feeds one token.                                              *)
Begin(s, n, logits) ==
  /\ call = Idle
  /\ fed[s] + n <= MaxSeq
  /\ logits => n = 1
  /\ count' = AppendedAt(s, fed[s])
  /\ call' = [s |-> s, start |-> fed[s], n |-> n, i |-> 0, layer |-> 0,
              x |-> Embed(s, fed[s]), logits |-> logits]
  /\ answer' = Idle
  /\ UNCHANGED <<conf, cache, conv_states, fed, faults>>

Pos == call.start + call.i

-----------------------------------------------------------------------------
(* The loop of step_inner, a layer a step                                  *)

(* Mutant: the newest product is written before the window is shifted.      *)
PushedBeforeShift(l, h) ==
  [conv_states EXCEPT ![l] = [k \in 1..KernelSize |->
     IF k < KernelSize - 1 THEN @[k + 1] ELSE NamedBx(call.s, l, Pos, Bx(l, h))]]

(* The window moves up by one and takes the newest product at its end.      *)
Pushed(l, h) ==
  [conv_states EXCEPT ![l] = [k \in 1..KernelSize |->
     IF k < KernelSize THEN @[k + 1] ELSE NamedBx(call.s, l, Pos, Bx(l, h))]]

WithKv(l, h) == [cache EXCEPT ![call.s][l][Pos] = NamedKv(call.s, l, Pos, KeyValue(l, Pos, h))]

(* Attention over every position of the page table.                         *)
Gathered(l, kv) == [t \in 0..(count[call.s] - 1) |-> kv[call.s][l][t]]

(* The feed-forward block: one command buffer on Metal, or one by one.      *)
FfnBatch(l, x) ==
  LET m == Norm(W("ffn_norm", l), x)
      gate == Gated("silu", MatVec(W("w1", l), m), MatVec(W("w3", l), m))
  IN  Plus(x, MatVec(W("w2", l), gate))
Ffn(l, x) == IF conf.ops THEN FfnBatch(l, x) ELSE FeedForward(l, x)

(* A layer writes its history, then reads all of it.                        *)
LoopLayer ==
  /\ call # Idle /\ call.layer < NumLayers
  /\ LET l == call.layer
         h == Norm(W("operator_norm", l), call.x)
         out == IF IsConv(l) THEN Convolved(l, h, conv_states'[l])
                ELSE Attended(l, Pos, h, Gathered(l, cache'))
     IN  /\ cache' = IF IsConv(l) THEN cache ELSE WithKv(l, h)
         /\ conv_states' = IF IsConv(l) THEN Pushed(l, h) ELSE conv_states
         /\ call' = [call EXCEPT !.layer = l + 1,
                                 !.x = NamedX(call.s, l, Pos, Ffn(l, Plus(call.x, out)))]
  /\ UNCHANGED <<conf, count, fed, faults, answer>>

(* A token that is not the last of its prefill: the next one is appended.   *)
NextToken ==
  /\ call # Idle /\ call.layer = NumLayers /\ call.i + 1 < call.n
  /\ count' = AppendedAt(call.s, Pos + 1)
  /\ call' = [call EXCEPT !.i = @ + 1, !.layer = 0, !.x = Embed(call.s, Pos + 1)]
  /\ UNCHANGED <<conf, cache, conv_states, fed, faults, answer>>

LoopLogits == MatVec("embed_tokens", Norm("embedding_norm", call.x))
Finish ==
  /\ call # Idle /\ call.layer = NumLayers /\ call.i + 1 = call.n
  /\ call' = Idle
  /\ fed' = [fed EXCEPT ![call.s] = call.start + call.n]
  /\ answer' = IF call.logits THEN [s |-> call.s, p |-> call.start, logits |-> LoopLogits] ELSE Idle
  /\ UNCHANGED <<conf, count, cache, conv_states, faults>>

(* A Metal operation of the layer fails, before or after the layer's       *)
(* history was written; the caller gets an error and may ask again.         *)
LoopFails ==
  /\ call # Idle /\ call.layer < NumLayers /\ conf.ops /\ faults < MaxFaults
  /\ faults' = faults + 1
  /\ LET l == call.layer
         h == Norm(W("operator_norm", l), call.x)
     IN  \/ UNCHANGED <<cache, conv_states>>
         \/ /\ ~IsConv(l) /\ cache' = WithKv(l, h) /\ UNCHANGED conv_states
         \/ /\ IsConv(l) /\ conv_states' = Pushed(l, h) /\ UNCHANGED cache
  /\ call' = Idle
  /\ UNCHANGED <<conf, count, fed, answer>>

-----------------------------------------------------------------------------
(* The engine between the calls: neither touches the runner's windows.      *)

Rewind(s, keep) ==
  /\ Resets /\ call = Idle /\ keep < fed[s]
  /\ count' = [count EXCEPT ![s] = keep]
  /\ fed' = [fed EXCEPT ![s] = keep]
  /\ answer' = Idle
  /\ UNCHANGED <<conf, cache, conv_states, faults, call>>

Next ==
  \/ \E s \in Sessions, n \in 1..MaxPrefill, logits \in BOOLEAN : Begin(s, n, logits)
  \/ \E s \in Sessions, keep \in 0..(MaxSeq - 1) : Rewind(s, keep)
  \/ LoopLayer \/ NextToken \/ Finish \/ LoopFails

Spec == Init /\ [][Next]_vars

-----------------------------------------------------------------------------
TypeOK ==
  /\ conf.dtype \in Dtypes /\ conf.ops \in BOOLEAN
  /\ \A s \in Sessions : count[s] \in 0..MaxSeq /\ fed[s] <= count[s]
  /\ \A l \in ConvLayers : DOMAIN conv_states[l] = 1..KernelSize
  /\ call # Idle => call.layer \in 0..NumLayers /\ Pos < count[call.s]

(* The K/V of the finished positions, in every layer that attends, are the *)
(* model's for that session.                                                *)
CacheIsTheModels ==
  \A s \in Sessions : \A l \in Layer \ ConvLayers : \A p \in 0..(fed[s] - 1) :
     cache[s][l][p] = KvName(s, l, p)

(* While a token runs, a window holds the products of exactly the last     *)
(* positions of the session that runs: up to the token in the layers it    *)
(* has passed, up to the one before in the others.                          *)
WindowIsThePast ==
  call # Idle => \A l \in ConvLayers :
     conv_states[l] = WindowName(call.s, l, IF l < call.layer THEN Pos ELSE Pos - 1)

(* A step's logits are the model's for its session and position.            *)
AnswerIsTheModels == answer # Idle => answer.logits = Logits(answer.s, answer.p)
=============================================================================
