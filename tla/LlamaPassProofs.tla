-------------------------- MODULE LlamaPassProofs ---------------------------
(***************************************************************************)
(* Whatever path LlamaRunner takes, the K/V it leaves and the logits it    *)
(* returns are those of the model: for every number of layers and          *)
(* positions, every mixture of graph, Metal, WebGPU and CPU, and every     *)
(* failure and retry, in the weight formats whose bytes the paths read as  *)
(* they are stored.                                                        *)
(***************************************************************************)
EXTENDS LlamaPass, Induction

(* Each path is given weights it decodes exactly: the graph and the Metal  *)
(* norm take norms as f16, and the graph i4 for half a row; the WebGPU     *)
(* batch takes matrices as f16 and norms as f32.  The graph runs every     *)
(* layer of the model, whatever set_max_layers was told.                   *)
ExactFormats ==
  /\ Backends \cap {"full", "graph"} # {} =>
       /\ NormDtype = "f16" /\ Dtypes \subseteq {"f16", "i8"}
       /\ MaxLayers = NumLayers
  /\ "webgpu" \in Backends => NormDtype = "f32" /\ Dtypes \subseteq {"f16"}

(* A batched prefill that falls back to one step per token has appended    *)
(* all of them, and lets the first attend to positions not written yet:    *)
(* it is exact for one token.                                              *)
OneTokenLoops ==
  "fused" \in Calls =>
    \/ MaxFused = 1
    \/ Backends \subseteq {"webgpu"}
    \/ Backends \subseteq {"graph"} /\ ~GraphFaults

-----------------------------------------------------------------------------
(* The model, for a style of rotation: what the layers compute does not    *)
(* depend on the state.                                                    *)

KV(st, l, p, x) ==
  LET h == Norm(True("in_norm", l), x)
  IN  <<Rope(st, p, MatVec(True("k", l), h)), MatVec(True("v", l), h)>>
Dec(st, l, p, xs) ==
  LET h == Norm(True("in_norm", l), xs[p])
      q == Rope(st, p, MatVec(True("q", l), h))
      y == Plus(xs[p], MatVec(True("o", l), Attend(q, [t \in 0..p |-> KV(st, l, t, xs[t])])))
      m == Norm(True("post_norm", l), y)
  IN  Plus(y, MatVec(True("down", l),
                Gated("silu", MatVec(True("gate", l), m), MatVec(True("up", l), m))))
Row(st, l, xs) ==
  [p \in Position |-> IF l = 0 THEN Embedded(p) ELSE Dec(st, l - 1, p, xs)]
Layered(st, n, g) == g = [l \in 0..n |-> Row(st, l, g[l - 1])]
H(st) == CHOOSE g : Layered(st, MaxLayers, g)

(* The model of LlamaPass is this one, for the runner's style.             *)
LEMMA SameModel ==
  /\ Hidden = H(Style)
  /\ \A l, p, x : KeyValue(l, p, x) = KV(Style, l, p, x)
<1>1. \A l, p, x : KeyValue(l, p, x) = KV(Style, l, p, x)
  BY DEF KeyValue, KV
<1>2. Hidden = H(Style)
  BY DEF Hidden, H, Layered, Row, Decoder, Dec, KeyValue, KV
<1> QED
  BY <1>1, <1>2

(* There are layers 0 to n, for every n.                                   *)
LEMMA LayersExist ==
  ASSUME NEW st, NEW n \in Nat
  PROVE  \E g : Layered(st, n, g)
<1> DEFINE S == {m \in 0..n : \E g : Layered(st, m, g)}
<1>1. 0 \in S
  <2> DEFINE g == [l \in 0..0 |-> Row(st, 0, Idle)]
  <2>1. Row(st, 0, Idle) = Row(st, 0, g[-1])
    BY DEF Row
  <2>2. g = [l \in 0..0 |-> Row(st, l, g[l - 1])]
    BY <2>1
  <2>3. Layered(st, 0, g)
    BY <2>2 DEF Layered
  <2> QED
    BY <2>3
<1>2. ASSUME NEW m \in 0..(n - 1), m \in S
      PROVE  m + 1 \in S
  <2>1. PICK g : Layered(st, m, g)
    BY <1>2
  <2> DEFINE new == [l \in 0..(m + 1) |-> IF l <= m THEN g[l] ELSE Row(st, l, g[l - 1])]
  <2>2. \A l \in 0..m : g[l] = Row(st, l, g[l - 1])
    BY <2>1 DEF Layered
  <2>3. \A l \in 0..(m + 1) : new[l] = Row(st, l, g[l - 1])
    BY <2>2
  <2>4. \A l \in 0..(m + 1) : l # 0 => new[l - 1] = g[l - 1]
    OBVIOUS
  <2>5. Row(st, 0, g[0 - 1]) = Row(st, 0, new[0 - 1])
    BY DEF Row
  <2>6. new = [l \in 0..(m + 1) |-> new[l]]
    OBVIOUS
  <2> HIDE DEF new
  <2>7. \A l \in 0..(m + 1) : new[l] = Row(st, l, new[l - 1])
    BY <2>3, <2>4, <2>5
  <2>8. Layered(st, m + 1, new)
    BY <2>6, <2>7 DEF Layered
  <2> QED
    BY <2>8
<1>3. 0..n \subseteq S
  <2> HIDE DEF S
  <2> QED
    BY <1>1, <1>2, Climb
<1> QED
  BY <1>3

(* What a layer is made of.                                                *)
LEMMA HiddenFacts ==
  ASSUME LlamaAssumption, NEW st
  PROVE  /\ \A p \in Position : H(st)[0][p] = Embedded(p)
         /\ \A l \in Layer, p \in Position : H(st)[l + 1][p] = Dec(st, l, p, H(st)[l])
<1>1. MaxLayers \in Nat /\ MaxLayers > 0
  BY DEF LlamaAssumption
<1>2. Layered(st, MaxLayers, H(st))
  BY <1>1, LayersExist DEF H
<1>3. \A l \in 0..MaxLayers : H(st)[l] = Row(st, l, H(st)[l - 1])
  BY <1>2 DEF Layered
<1>4. H(st)[0] = Row(st, 0, H(st)[0 - 1])
  BY <1>1, <1>3
<1>5. \A p \in Position : H(st)[0][p] = Embedded(p)
  BY <1>4 DEF Row
<1>6. ASSUME NEW l \in Layer, NEW p \in Position
      PROVE  H(st)[l + 1][p] = Dec(st, l, p, H(st)[l])
  <2>1. l + 1 \in 0..MaxLayers /\ l + 1 # 0 /\ (l + 1) - 1 = l
    BY <1>1 DEF Layer
  <2>2. H(st)[l + 1] = Row(st, l + 1, H(st)[l])
    BY <1>3, <2>1
  <2> HIDE DEF Dec
  <2> QED
    BY <2>1, <2>2 DEF Row
<1> QED
  BY <1>5, <1>6

(* What the loop computes on its way through layer l.                      *)
NormX(st, l, p) == Norm(True("in_norm", l), H(st)[l][p])
Query(st, l, p) == Rope(st, p, MatVec(True("q", l), NormX(st, l, p)))
Attended(st, l, p) == Attend(Query(st, l, p), [t \in 0..p |-> KV(st, l, t, H(st)[l][t])])
Residual(st, l, p) == Plus(H(st)[l][p], MatVec(True("o", l), Attended(st, l, p)))
Said(st, p) ==
  MatVec(True("lm_head", MaxLayers), Norm(True("norm", MaxLayers), H(st)[MaxLayers][p]))

(* A layer is its attention and its feed-forward.                          *)
LEMMA NextLayerFacts ==
  ASSUME LlamaAssumption, NEW st, NEW l \in Layer, NEW p \in Position
  PROVE  H(st)[l + 1][p] = FeedForward(l, Residual(st, l, p))
<1>1. H(st)[l + 1][p] = Dec(st, l, p, H(st)[l])
  BY HiddenFacts
<1> QED
  BY <1>1 DEF Dec, FeedForward, Residual, Attended, Query, NormX

(* What a layer writes for a position.                                     *)
LEMMA KeyValueFacts ==
  ASSUME NEW st, NEW l, NEW p
  PROVE  KV(st, l, p, H(st)[l][p]) =
           <<Rope(st, p, MatVec(True("k", l), NormX(st, l, p))),
             MatVec(True("v", l), NormX(st, l, p))>>
  BY DEF KV, NormX

-----------------------------------------------------------------------------
(* The inductive invariant                                                 *)

(* The cache c has the model's K/V for layer l and position p.             *)
Right(c, st, l, p) == c[l][p] = KV(st, l, p, H(st)[l][p])

(* Positions below Here are finished: the caller's, or those of the call.  *)
Here == IF call = Idle THEN next_pos ELSE Pos
Finished == \A l \in Layer, p \in 0..(Here - 1) : Right(cache, Style, l, p)

(* A call computes one position at a time: its position is appended, the   *)
(* layers below have written, and the buffers have what the model has at   *)
(* that place.                                                             *)
LoopState(at, l, p, c, b, st) ==
  /\ \A m \in 0..(l - 1) : Right(c, st, m, p)
  /\ at \in {"norm", "qkv", "rope", "write", "attend", "o_proj"} => b.x = H(st)[l][p]
  /\ at = "qkv" => b.x_norm = NormX(st, l, p)
  /\ at = "rope" => /\ b.q = MatVec(True("q", l), NormX(st, l, p))
                    /\ b.k = MatVec(True("k", l), NormX(st, l, p))
                    /\ b.v = MatVec(True("v", l), NormX(st, l, p))
  /\ at \in {"write", "attend"} => b.q = Query(st, l, p)
  /\ at = "write" => <<b.k, b.v>> = KV(st, l, p, H(st)[l][p])
  /\ at \in {"attend", "o_proj", "ffn_metal", "ffn"} => Right(c, st, l, p)
  /\ at = "o_proj" => b.attn_out = Attended(st, l, p)
  /\ at \in {"ffn_metal", "ffn"} => b.x = Residual(st, l, p)
  /\ at = "logits" => /\ b.x = H(st)[MaxLayers][p]
                      /\ \A m \in Layer : Right(c, st, m, p)
InLoop ==
  call # Idle /\ call.at # "enter" =>
    count = Pos + 1 /\ LoopState(call.at, call.layer, Pos, cache, buf, Style)

(* A failed step leaves its position appended, and nothing else is ahead.  *)
Counted ==
  /\ next_pos \in 0..MaxSeq /\ count \in 0..MaxSeq
  /\ Here <= count /\ count <= Here + 1

CallOK ==
  call # Idle =>
    /\ call \in CallRecord
    /\ call.from = next_pos /\ call.i < call.n /\ call.from + call.n <= MaxSeq
    /\ call.kind = "step" => call.n = 1
    /\ call.kind = "fused" => call.n <= MaxFused /\ "fused" \in Calls
    /\ answer = Idle

(* What the runner was built with.                                         *)
ConfOK ==
  /\ conf.linear \in {"Cpu", "Metal", "WebGpu"} /\ conf.dtype \in Dtypes
  /\ conf.norm => conf.ops
  /\ conf.ops \/ graph => Backends \cap {"full", "graph"} # {}
  /\ conf.linear = "WebGpu" => "webgpu" \in Backends /\ ~graph
  /\ Backends \subseteq {"webgpu"} => conf.linear = "WebGpu"
  /\ Backends \subseteq {"graph"} /\ ~GraphFaults => graph

CacheShape(c) ==
  DOMAIN c = 0..(NumLayers - 1) /\ \A l \in 0..(NumLayers - 1) : DOMAIN c[l] = Position
BufShape == DOMAIN buf = {"x", "x_norm", "q", "k", "v", "attn_out"}

Answered == answer # Idle => answer = Said(Style, next_pos - 1)

LInv ==
  /\ ConfOK
  /\ CallOK
  /\ Counted
  /\ CacheShape(cache)
  /\ BufShape
  /\ Finished
  /\ InLoop
  /\ Answered

(* The types and bounds the steps below rest on.                           *)
LEMMA Sizes ==
  ASSUME LlamaAssumption
  PROVE  /\ NumLayers \in Nat /\ MaxLayers \in Nat /\ MaxSeq \in Nat
         /\ NumLayers > 0 /\ MaxLayers > 0 /\ MaxSeq > 0 /\ MaxLayers <= NumLayers
         /\ Layer \subseteq 0..(NumLayers - 1)
         /\ Idle \notin CallRecord
  BY DEF LlamaAssumption, Layer

(* A call's position lies in its span, and the span in the cache.          *)
LEMMA CallTypes ==
  ASSUME LlamaAssumption, LInv, call # Idle
  PROVE  /\ call \in CallRecord
         /\ call.from \in Nat /\ call.n \in Nat /\ call.i \in Nat /\ call.layer \in Layer
         /\ call.layer \in Nat /\ Pos \in Position /\ Pos \in Nat /\ Pos < MaxSeq
         /\ call.from = next_pos /\ call.i < call.n /\ call.from + call.n <= MaxSeq
         /\ Here = Pos /\ answer = Idle
  BY Sizes DEF LInv, CallOK, CallRecord, Position, Layer, Pos, Here

-----------------------------------------------------------------------------
(* How calls go on and end                                                 *)

(* The loop goes to another place of the same position.                    *)
LEMMA MovesOn ==
  ASSUME LlamaAssumption, LInv, call # Idle, NEW place, NEW m \in Layer,
         call' = [call EXCEPT !.at = place, !.layer = m],
         place \in {"norm", "qkv", "rope", "write", "attend", "o_proj", "ffn_metal", "ffn",
                   "logits"},
         UNCHANGED <<conf, graph, next_pos, answer>>, count' = Pos + 1,
         CacheShape(cache'), BufShape',
         \A l \in Layer, p \in 0..(Pos - 1) : cache'[l][p] = cache[l][p],
         LoopState(place, m, Pos, cache', buf', Style)
  PROVE  LInv'
<1>1. /\ call' \in CallRecord /\ call' # Idle
      /\ call'.from = call.from /\ call'.i = call.i /\ call'.n = call.n /\ call'.kind = call.kind
      /\ call'.at = place /\ call'.layer = m
  BY CallTypes, Sizes DEF CallRecord
<1>2. Pos' = Pos /\ Style' = Style /\ Here = Pos /\ Here' = Pos
  BY <1>1 DEF Pos, Style, Here
<1>3. CallOK' /\ ConfOK'
  BY <1>1 DEF CallOK, ConfOK, LInv, CallRecord, Layer, Position
<1>4. Counted'
  BY <1>2, CallTypes, Sizes DEF Counted, LInv
<1>5. Finished'
  BY <1>2 DEF Finished, LInv, Right, Layer
<1>6. InLoop'
  BY <1>1, <1>2 DEF InLoop
<1>7. Answered'
  BY <1>2 DEF Answered, LInv
<1> QED
  BY <1>3, <1>4, <1>5, <1>6, <1>7 DEF LInv, CacheShape, Position

(* An error ends the call.                                                 *)
LEMMA ErrorInv ==
  ASSUME LlamaAssumption, LInv, call # Idle, Return_Err
  PROVE  LInv'
<1>1. call' = Idle /\ answer' = Idle /\ UNCHANGED <<conf, graph, buf>>
  BY DEF Return_Err
<1>2. Style' = Style /\ Here' = next_pos'
  BY <1>1 DEF Style, Here
<1>3. ConfOK' /\ CallOK' /\ InLoop' /\ Answered' /\ BufShape'
  BY <1>1 DEF ConfOK, CallOK, InLoop, Answered, BufShape, LInv
<1>4. CASE call.kind = "step"
  <2>1. UNCHANGED <<count, cache, next_pos>>
    BY <1>4 DEF Return_Err
  <2>2. Pos = next_pos
    BY <1>4, CallTypes DEF LInv, CallOK, Pos
  <2>3. Here = next_pos /\ Here' = next_pos
    BY <1>2, <2>1, <2>2, CallTypes
  <2>4. Counted' /\ Finished'
    BY <1>2, <2>1, <2>3 DEF Counted, Finished, Layer, LInv
  <2> QED
    BY <1>3, <2>1, <2>4 DEF LInv, CacheShape, Position
<1>5. CASE call.kind # "step"
  <2>1. /\ count' = 0 /\ next_pos' = 0
        /\ cache' = [l \in DOMAIN cache |-> [p \in Position |-> Stale]]
    BY <1>5 DEF Return_Err
  <2>2. Counted' /\ Finished'
    BY <1>2, <2>1, Sizes DEF Counted, Finished
  <2>3. CacheShape(cache')
    BY <2>1 DEF LInv, CacheShape
  <2> QED
    BY <1>3, <2>2, <2>3 DEF LInv, CacheShape, Position
<1> QED
  BY <1>4, <1>5

(* A position is finished in every layer, and with it perhaps the call.    *)
LEMMA OkInv ==
  ASSUME LlamaAssumption, LInv, call # Idle, NEW r, Return_Ok(r),
         UNCHANGED <<conf, graph, buf>>, count' = Pos + 1, CacheShape(cache'),
         \A l \in Layer, p \in 0..Pos : Right(cache', Style, l, p),
         r = Idle \/ (r = Said(Style, Pos) /\ call.i = call.n - 1)
  PROVE  LInv'
<1>1. Style' = Style
  BY DEF Style
<1>2. ConfOK' /\ BufShape'
  BY DEF ConfOK, BufShape, LInv
<1>3. CASE call.i + 1 < call.n
  <2>1. /\ call' = [call EXCEPT !.i = @ + 1, !.at = "enter"]
        /\ UNCHANGED <<next_pos, answer>>
    BY <1>3 DEF Return_Ok
  <2>2. /\ call' \in CallRecord /\ call' # Idle
        /\ call'.from = call.from /\ call'.i = call.i + 1 /\ call'.n = call.n
        /\ call'.kind = call.kind /\ call'.at = "enter"
    <3>1. call.i + 1 \in Position
      BY <1>3, CallTypes, Sizes DEF Position
    <3> QED
      BY <2>1, <3>1, CallTypes, Sizes DEF CallRecord
  <2>3. Here' = Pos + 1
    BY <2>2, CallTypes DEF Here, Pos
  <2>4. CallOK'
    BY <1>3, <2>1, <2>2 DEF CallOK, LInv, CallRecord, Position, Layer
  <2>5. Counted'
    BY <2>1, <2>3, CallTypes, Sizes DEF Counted, LInv
  <2>6. Finished'
    BY <1>1, <2>3, CallTypes DEF Finished, Layer
  <2>7. InLoop' /\ Answered'
    BY <1>1, <2>1, <2>2 DEF InLoop, Answered, LInv
  <2> QED
    BY <1>2, <2>4, <2>5, <2>6, <2>7 DEF LInv, CacheShape, Position
<1>4. CASE ~ (call.i + 1 < call.n)
  <2>1. call' = Idle /\ next_pos' = call.from + call.n /\ answer' = r
    BY <1>4 DEF Return_Ok
  <2>2. call.from + call.n = Pos + 1
    BY <1>4, CallTypes DEF Pos
  <2>3. Here' = Pos + 1
    BY <2>1, <2>2 DEF Here
  <2>4. Counted'
    BY <2>1, <2>2, <2>3, CallTypes, Sizes DEF Counted
  <2>5. Finished'
    BY <1>1, <2>3, CallTypes DEF Finished, Layer
  <2>6. CallOK' /\ InLoop'
    BY <2>1 DEF CallOK, InLoop
  <2>7. Answered'
    BY <1>1, <2>1, <2>2, CallTypes DEF Answered
  <2> QED
    BY <1>2, <2>4, <2>5, <2>6, <2>7 DEF LInv, CacheShape, Position
<1> QED
  BY <1>3, <1>4

-----------------------------------------------------------------------------
(* The operations: what they answer is exact, or an error                  *)

(* A norm that answers is exact: Metal takes f16, the CPU f16 or nothing.  *)
LEMMA NormExact ==
  ASSUME ExactFormats, ConfOK, NEW role, NEW l, NEW x,
         NEW r \in NormResults(role, l, x), r # Failed
  PROVE  r = Norm(True(role, l), x)
<1>1. conf.norm => NormDtype = "f16"
  BY DEF ExactFormats, ConfOK
<1> QED
  BY <1>1 DEF NormResults, True

(* A matrix product: Metal in any of its forms, or the CPU.                *)
LEMMA LinearExact ==
  ASSUME NEW role, NEW l, NEW x, NEW r \in LinearResults(role, l, x), r # Failed
  PROVE  r = MatVec(True(role, l), x)
  BY DEF LinearResults, OnCpu

(* The three projections, in one kernel or one after the other.            *)
LEMMA QkvExact ==
  ASSUME NEW l, NEW x, NEW r \in QkvResults(l, x), r # Failed
  PROVE  /\ r[1] = MatVec(True("q", l), x)
         /\ r[2] = MatVec(True("k", l), x)
         /\ r[3] = MatVec(True("v", l), x)
<1>1. CASE conf.ops /\ conf.dtype = "f16"
  BY <1>1 DEF QkvResults
<1>2. CASE ~ (conf.ops /\ conf.dtype = "f16")
  <2>1. PICK q \in LinearResults("q", l, x), k \in LinearResults("k", l, x),
             v \in LinearResults("v", l, x) :
          r = IF Failed \in {q, k, v} THEN Failed ELSE <<q, k, v>>
    BY <1>2 DEF QkvResults
  <2>2. q # Failed /\ k # Failed /\ v # Failed /\ r = <<q, k, v>>
    BY <2>1
  <2>3. /\ q = MatVec(True("q", l), x) /\ k = MatVec(True("k", l), x)
        /\ v = MatVec(True("v", l), x)
    BY <2>2, LinearExact
  <2> QED
    BY <2>2, <2>3
<1> QED
  BY <1>1, <1>2

(* The head's product.                                                     *)
LEMMA HeadExact ==
  ASSUME NEW x, NEW r \in HeadResults(x), r # Failed
  PROVE  r = MatVec(True("lm_head", MaxLayers), x)
  BY DEF HeadResults

-----------------------------------------------------------------------------
(* The loop over the layers                                                *)

(* The next place of the same layer.                                       *)
LEMMA NextPlace ==
  ASSUME LlamaAssumption, LInv, call # Idle, call.at # "enter", NEW place, Goto(place),
         place \in {"norm", "qkv", "rope", "write", "attend", "o_proj", "ffn_metal", "ffn",
                   "logits"},
         UNCHANGED <<conf, graph, count, next_pos, answer>>, CacheShape(cache'), BufShape',
         \A l \in Layer, p \in 0..(Pos - 1) : cache'[l][p] = cache[l][p],
         LoopState(place, call.layer, Pos, cache', buf', Style)
  PROVE  LInv'
<1>1. call' = [call EXCEPT !.at = place, !.layer = call.layer]
  BY CallTypes DEF Goto, CallRecord
<1>2. count' = Pos + 1
  BY DEF LInv, InLoop
<1> QED
  BY <1>1, <1>2, CallTypes, MovesOn

(* The attention norm.                                                     *)
LEMMA AttnNormInv ==
  ASSUME LlamaAssumption, ExactFormats, LInv, AttnNorm
  PROVE  LInv'
<1>1. /\ call # Idle /\ call.at = "norm"
      /\ \E r \in NormResults("in_norm", call.layer, buf.x) :
           IF r = Failed THEN Return_Err
           ELSE buf' = [buf EXCEPT !.x_norm = r] /\ Goto("qkv") /\ UnchangedBut
  BY DEF AttnNorm, At, Result
<1>2. PICK r \in NormResults("in_norm", call.layer, buf.x) :
           IF r = Failed THEN Return_Err
           ELSE buf' = [buf EXCEPT !.x_norm = r] /\ Goto("qkv") /\ UnchangedBut
  BY <1>1
<1>3. CASE r = Failed
  BY <1>1, <1>2, <1>3, ErrorInv
<1>4. CASE r # Failed
  <2>1. r = Norm(True("in_norm", call.layer), buf.x)
    BY <1>4, NormExact DEF LInv
  <2>2. LoopState("norm", call.layer, Pos, cache, buf, Style)
    BY <1>1 DEF LInv, InLoop
  <2>3. /\ buf' = [buf EXCEPT !.x_norm = r] /\ Goto("qkv")
        /\ UNCHANGED <<conf, graph, count, cache, next_pos, answer>>
    BY <1>2, <1>4 DEF UnchangedBut
  <2>4. BufShape' /\ buf'.x = buf.x /\ buf'.x_norm = r
    BY <2>3 DEF LInv, BufShape
  <2>5. LoopState("qkv", call.layer, Pos, cache', buf', Style)
    BY <2>1, <2>2, <2>3, <2>4 DEF LoopState, NormX
  <2> QED
    BY <1>1, <2>3, <2>4, <2>5, NextPlace DEF LInv
<1> QED
  BY <1>3, <1>4

(* The three projections.                                                  *)
LEMMA QkvInv ==
  ASSUME LlamaAssumption, LInv, Qkv
  PROVE  LInv'
<1>1. /\ call # Idle /\ call.at = "qkv"
      /\ \E r \in QkvResults(call.layer, buf.x_norm) :
           IF r = Failed THEN Return_Err
           ELSE /\ buf' = [buf EXCEPT !.q = r[1], !.k = r[2], !.v = r[3]]
                /\ Goto("rope") /\ UnchangedBut
  BY DEF Qkv, At, Result
<1>2. PICK r \in QkvResults(call.layer, buf.x_norm) :
           IF r = Failed THEN Return_Err
           ELSE /\ buf' = [buf EXCEPT !.q = r[1], !.k = r[2], !.v = r[3]]
                /\ Goto("rope") /\ UnchangedBut
  BY <1>1
<1>3. CASE r = Failed
  BY <1>1, <1>2, <1>3, ErrorInv
<1>4. CASE r # Failed
  <2>1. /\ r[1] = MatVec(True("q", call.layer), buf.x_norm)
        /\ r[2] = MatVec(True("k", call.layer), buf.x_norm)
        /\ r[3] = MatVec(True("v", call.layer), buf.x_norm)
    BY <1>4, QkvExact
  <2>2. LoopState("qkv", call.layer, Pos, cache, buf, Style)
    BY <1>1 DEF LInv, InLoop
  <2>3. /\ buf' = [buf EXCEPT !.q = r[1], !.k = r[2], !.v = r[3]] /\ Goto("rope")
        /\ UNCHANGED <<conf, graph, count, cache, next_pos, answer>>
    BY <1>2, <1>4 DEF UnchangedBut
  <2>4. BufShape' /\ buf'.x = buf.x /\ buf'.q = r[1] /\ buf'.k = r[2] /\ buf'.v = r[3]
    BY <2>3 DEF LInv, BufShape
  <2>5. LoopState("rope", call.layer, Pos, cache', buf', Style)
    BY <2>1, <2>2, <2>3, <2>4 DEF LoopState
  <2> QED
    BY <1>1, <2>3, <2>4, <2>5, NextPlace DEF LInv
<1> QED
  BY <1>3, <1>4

(* The rotation.                                                           *)
LEMMA RopeInv ==
  ASSUME LlamaAssumption, LInv, RopeQK
  PROVE  LInv'
<1>1. call # Idle /\ call.at = "rope"
  BY DEF RopeQK, At
<1>2. CASE Return_Err
  BY <1>1, <1>2, ErrorInv
<1>3. CASE /\ buf' = [buf EXCEPT !.q = Rope(Style, Pos, @), !.k = Rope(Style, Pos, @)]
           /\ Goto("write") /\ UnchangedBut
  <2>1. LoopState("rope", call.layer, Pos, cache, buf, Style)
    BY <1>1 DEF LInv, InLoop
  <2>2. UNCHANGED <<conf, graph, count, cache, next_pos, answer>>
    BY <1>3 DEF UnchangedBut
  <2>3. /\ BufShape' /\ buf'.x = buf.x /\ buf'.v = buf.v
        /\ buf'.q = Rope(Style, Pos, buf.q) /\ buf'.k = Rope(Style, Pos, buf.k)
    BY <1>3 DEF LInv, BufShape
  <2>4. LoopState("write", call.layer, Pos, cache', buf', Style)
    BY <2>1, <2>2, <2>3, KeyValueFacts DEF LoopState, Query
  <2> QED
    BY <1>1, <1>3, <2>2, <2>3, <2>4, NextPlace DEF LInv
<1> QED
  BY <1>2, <1>3 DEF RopeQK

(* The write replaces one entry of the cache.                              *)
LEMMA WriteTokenInv ==
  ASSUME LlamaAssumption, LInv, WriteToken
  PROVE  LInv'
<1> DEFINE l == call.layer
<1>1. /\ call # Idle /\ call.at = "write" /\ Goto("attend")
      /\ cache' = [cache EXCEPT ![l][Pos] = <<buf.k, buf.v>>]
      /\ UNCHANGED <<conf, graph, count, next_pos, buf, answer>>
  BY DEF WriteToken, At
<1>2. LoopState("write", l, Pos, cache, buf, Style)
  BY <1>1 DEF LInv, InLoop
<1>3. l \in Layer /\ l \in 0..(NumLayers - 1) /\ Pos \in Position /\ Pos \in Nat
  BY <1>1, CallTypes, Sizes
<1>4. CacheShape(cache)
  BY DEF LInv
<1>5. cache'[l][Pos] = <<buf.k, buf.v>> /\ CacheShape(cache')
  BY <1>1, <1>3, <1>4 DEF CacheShape
<1>6. \A m \in 0..(NumLayers - 1), p \in Position :
        m # l \/ p # Pos => cache'[m][p] = cache[m][p]
  BY <1>1, <1>3, <1>4 DEF CacheShape
<1>7. \A m \in Layer, p \in 0..(Pos - 1) : cache'[m][p] = cache[m][p]
  BY <1>3, <1>6, Sizes DEF Position
<1>8. \A m \in 0..(l - 1) : cache'[m][Pos] = cache[m][Pos]
  BY <1>3, <1>6, Sizes DEF Layer
<1>9. LoopState("attend", l, Pos, cache', buf', Style)
  BY <1>1, <1>2, <1>5, <1>8 DEF LoopState, Right
<1>10. BufShape'
  BY <1>1 DEF LInv, BufShape
<1> QED
  BY <1>1, <1>5, <1>7, <1>9, <1>10, NextPlace

(* The attention reads what the layer has for the positions so far: those  *)
(* finished before, and the one just written.                              *)
LEMMA AttentionInv ==
  ASSUME LlamaAssumption, LInv, Attention
  PROVE  LInv'
<1> DEFINE l == call.layer
<1>1. /\ call # Idle /\ call.at = "attend" /\ Goto("o_proj")
      /\ buf' = [buf EXCEPT !.attn_out = Attend(buf.q, [t \in 0..(count - 1) |-> cache[l][t]])]
      /\ UNCHANGED <<conf, graph, count, cache, next_pos, answer>>
  BY DEF Attention, At, UnchangedBut
<1>2. LoopState("attend", l, Pos, cache, buf, Style) /\ count = Pos + 1
  BY <1>1 DEF LInv, InLoop
<1>3. l \in Layer /\ Pos \in Nat /\ Here = Pos
  BY <1>1, CallTypes
<1>4. \A t \in 0..Pos : cache[l][t] = KV(Style, l, t, H(Style)[l][t])
  <2>1. \A t \in 0..(Pos - 1) : Right(cache, Style, l, t)
    BY <1>3 DEF LInv, Finished
  <2>2. Right(cache, Style, l, Pos)
    BY <1>2 DEF LoopState
  <2> QED
    BY <1>3, <2>1, <2>2 DEF Right
<1>5. count - 1 = Pos
  BY <1>2, <1>3
<1>6. [t \in 0..(count - 1) |-> cache[l][t]] = [t \in 0..Pos |-> KV(Style, l, t, H(Style)[l][t])]
  BY <1>4, <1>5
<1>7. buf.q = Query(Style, l, Pos)
  BY <1>2 DEF LoopState
<1>8. BufShape' /\ buf'.x = buf.x /\ buf'.attn_out = Attended(Style, l, Pos)
  BY <1>1, <1>6, <1>7 DEF LInv, BufShape, Attended
<1>9. LoopState("o_proj", l, Pos, cache', buf', Style)
  BY <1>1, <1>2, <1>8 DEF LoopState
<1> QED
  BY <1>1, <1>8, <1>9, NextPlace DEF LInv

(* The output projection, added to x.                                      *)
LEMMA OProjInv ==
  ASSUME LlamaAssumption, LInv, OProj
  PROVE  LInv'
<1> DEFINE l == call.layer
<1>1. /\ call # Idle /\ call.at = "o_proj"
      /\ \E r \in LinearResults("o", l, buf.attn_out) :
           IF r = Failed THEN Return_Err
           ELSE buf' = [buf EXCEPT !.x = Plus(@, r)] /\ Goto("ffn_metal") /\ UnchangedBut
  BY DEF OProj, At, Result
<1>2. PICK r \in LinearResults("o", l, buf.attn_out) :
           IF r = Failed THEN Return_Err
           ELSE buf' = [buf EXCEPT !.x = Plus(@, r)] /\ Goto("ffn_metal") /\ UnchangedBut
  BY <1>1
<1>3. CASE r = Failed
  BY <1>1, <1>2, <1>3, ErrorInv
<1>4. CASE r # Failed
  <2>1. r = MatVec(True("o", l), buf.attn_out)
    BY <1>4, LinearExact
  <2>2. LoopState("o_proj", l, Pos, cache, buf, Style)
    BY <1>1 DEF LInv, InLoop
  <2>3. /\ buf' = [buf EXCEPT !.x = Plus(@, r)] /\ Goto("ffn_metal")
        /\ UNCHANGED <<conf, graph, count, cache, next_pos, answer>>
    BY <1>2, <1>4 DEF UnchangedBut
  <2>4. BufShape' /\ buf'.x = Plus(buf.x, r)
    BY <2>3 DEF LInv, BufShape
  <2>5. buf.x = H(Style)[l][Pos] /\ buf.attn_out = Attended(Style, l, Pos)
    BY <2>2 DEF LoopState
  <2>6. buf'.x = Residual(Style, l, Pos)
    BY <2>1, <2>4, <2>5 DEF Residual
  <2>7. LoopState("ffn_metal", l, Pos, cache', buf', Style)
    BY <2>2, <2>3, <2>6 DEF LoopState
  <2> QED
    BY <1>1, <2>3, <2>4, <2>7, NextPlace DEF LInv
<1> QED
  BY <1>3, <1>4

(* The feed-forward ends a layer, and the last layer the loop.             *)
LEMMA LayerDone ==
  ASSUME LlamaAssumption, LInv, call # Idle, call.at \in {"ffn_metal", "ffn"},
         buf' = [buf EXCEPT !.x = FeedForward(call.layer, @)], NextLayer, UnchangedBut
  PROVE  LInv'
<1> DEFINE l == call.layer
<1>1. l \in Layer /\ l \in Nat /\ l < MaxLayers /\ Pos \in Position /\ Here = Pos
  BY CallTypes, Sizes DEF Layer
<1>2. LoopState(call.at, l, Pos, cache, buf, Style) /\ count = Pos + 1
  BY DEF LInv, InLoop
<1>3. /\ buf.x = Residual(Style, l, Pos) /\ Right(cache, Style, l, Pos)
      /\ \A m \in 0..(l - 1) : Right(cache, Style, m, Pos)
  BY <1>2 DEF LoopState
<1>4. BufShape' /\ buf'.x = H(Style)[l + 1][Pos]
  BY <1>1, <1>3, NextLayerFacts DEF LInv, BufShape
<1>5. \A m \in 0..l : Right(cache, Style, m, Pos)
  BY <1>1, <1>3
<1>6. UNCHANGED <<conf, graph, count, cache, next_pos, answer>>
  BY DEF UnchangedBut
<1>7. CASE l + 1 < MaxLayers
  <2>1. call' = [call EXCEPT !.at = "norm", !.layer = l + 1]
    BY <1>7, CallTypes DEF NextLayer, CallRecord
  <2>2. l + 1 \in Layer /\ (l + 1) - 1 = l
    BY <1>1, <1>7, Sizes DEF Layer
  <2>3. LoopState("norm", l + 1, Pos, cache', buf', Style)
    BY <1>4, <1>5, <1>6, <2>2 DEF LoopState
  <2> QED
    BY <1>2, <1>4, <1>6, <2>1, <2>2, <2>3, MovesOn DEF LInv
<1>8. CASE ~ (l + 1 < MaxLayers)
  <2>1. Goto("logits") /\ l + 1 = MaxLayers /\ Layer = 0..l
    BY <1>1, <1>8, Sizes DEF NextLayer, Layer
  <2>2. LoopState("logits", l, Pos, cache', buf', Style)
    BY <1>1, <1>3, <1>4, <1>5, <1>6, <2>1 DEF LoopState
  <2> QED
    BY <1>4, <1>6, <2>1, <2>2, NextPlace DEF LInv
<1> QED
  BY <1>7, <1>8

(* The feed-forward as one Metal batch, or left to the CPU.                *)
LEMMA FfnMetalInv ==
  ASSUME LlamaAssumption, LInv, FfnMetal
  PROVE  LInv'
<1>1. call # Idle /\ call.at = "ffn_metal" /\ UnchangedBut
  BY DEF FfnMetal, At
<1>2. CASE buf' = [buf EXCEPT !.x = FeedForward(call.layer, @)] /\ NextLayer
  BY <1>1, <1>2, LayerDone
<1>3. CASE Goto("ffn") /\ UNCHANGED buf
  <2>1. LoopState("ffn_metal", call.layer, Pos, cache, buf, Style)
    BY <1>1 DEF LInv, InLoop
  <2>2. LoopState("ffn", call.layer, Pos, cache, buf, Style)
    BY <2>1 DEF LoopState
  <2>3. UNCHANGED <<conf, graph, count, cache, next_pos, answer>>
    BY <1>1 DEF UnchangedBut
  <2>4. BufShape'
    BY <1>3 DEF LInv, BufShape
  <2> QED
    BY <1>1, <1>3, <2>2, <2>3, <2>4, NextPlace DEF LInv
<1> QED
  BY <1>2, <1>3 DEF FfnMetal

(* The feed-forward, operation by operation.                               *)
LEMMA FfnInv ==
  ASSUME LlamaAssumption, ExactFormats, LInv, Ffn
  PROVE  LInv'
<1> DEFINE l == call.layer
<1>1. call # Idle /\ call.at = "ffn"
  BY DEF Ffn, At
<1>2. PICK m \in NormResults("post_norm", l, buf.x) :
        \E g \in LinearResults("gate", l, m), u \in LinearResults("up", l, m) :
        \E d \in LinearResults("down", l, Gated("silu", g, u)) :
          IF Failed \in {m, g, u, d} THEN Return_Err
          ELSE buf' = [buf EXCEPT !.x = Plus(@, d)] /\ NextLayer /\ UnchangedBut
  BY DEF Ffn
<1>3. PICK g \in LinearResults("gate", l, m), u \in LinearResults("up", l, m) :
        \E d \in LinearResults("down", l, Gated("silu", g, u)) :
          IF Failed \in {m, g, u, d} THEN Return_Err
          ELSE buf' = [buf EXCEPT !.x = Plus(@, d)] /\ NextLayer /\ UnchangedBut
  BY <1>2
<1>4. PICK d \in LinearResults("down", l, Gated("silu", g, u)) :
          IF Failed \in {m, g, u, d} THEN Return_Err
          ELSE buf' = [buf EXCEPT !.x = Plus(@, d)] /\ NextLayer /\ UnchangedBut
  BY <1>3
<1>5. CASE Failed \in {m, g, u, d}
  BY <1>1, <1>4, <1>5, ErrorInv
<1>6. CASE Failed \notin {m, g, u, d}
  <2>1. m # Failed /\ g # Failed /\ u # Failed /\ d # Failed
    BY <1>6
  <2>2. m = Norm(True("post_norm", l), buf.x)
    BY <2>1, NormExact DEF LInv
  <2>3. /\ g = MatVec(True("gate", l), m) /\ u = MatVec(True("up", l), m)
        /\ d = MatVec(True("down", l), Gated("silu", g, u))
    BY <2>1, LinearExact
  <2>4. Plus(buf.x, d) = FeedForward(l, buf.x)
    BY <2>2, <2>3 DEF FeedForward
  <2>5. buf' = [buf EXCEPT !.x = Plus(@, d)] /\ NextLayer /\ UnchangedBut
    BY <1>4, <1>6
  <2>6. buf' = [buf EXCEPT !.x = FeedForward(l, @)]
    BY <2>4, <2>5
  <2> QED
    BY <1>1, <2>5, <2>6, LayerDone
<1> QED
  BY <1>5, <1>6

(* The head, or the end of a position without it.                          *)
LEMMA FinishInv ==
  ASSUME LlamaAssumption, ExactFormats, LInv, Finish
  PROVE  LInv'
<1>1. call # Idle /\ call.at = "logits"
  BY DEF Finish, At
<1>2. LoopState("logits", call.layer, Pos, cache, buf, Style) /\ count = Pos + 1
  BY <1>1 DEF LInv, InLoop
<1>3. Pos \in Nat /\ Here = Pos
  BY <1>1, CallTypes
<1>4. \A l \in Layer, p \in 0..Pos : Right(cache, Style, l, p)
  <2>1. \A l \in Layer, p \in 0..(Pos - 1) : Right(cache, Style, l, p)
    BY <1>3 DEF LInv, Finished
  <2>2. \A l \in Layer : Right(cache, Style, l, Pos)
    BY <1>2 DEF LoopState
  <2> QED
    BY <1>3, <2>1, <2>2
<1>5. buf.x = H(Style)[MaxLayers][Pos]
  BY <1>2 DEF LoopState
<1>6. CASE ~WantsLogits
  <2>1. Return_Ok(Idle) /\ UNCHANGED <<conf, graph, count, cache, buf>>
    BY <1>6 DEF Finish
  <2>2. \A l \in Layer, p \in 0..Pos : Right(cache', Style, l, p)
    BY <1>4, <2>1
  <2> QED
    BY <1>1, <1>2, <2>1, <2>2, OkInv DEF LInv
<1>7. CASE WantsLogits
  <2>1. PICK xf \in NormResults("norm", MaxLayers, buf.x) : \E r \in HeadResults(xf) :
          IF Failed \in {xf, r} THEN Return_Err
          ELSE Return_Ok(r) /\ UNCHANGED <<conf, graph, count, cache, buf>>
    BY <1>7 DEF Finish
  <2>2. PICK r \in HeadResults(xf) :
          IF Failed \in {xf, r} THEN Return_Err
          ELSE Return_Ok(r) /\ UNCHANGED <<conf, graph, count, cache, buf>>
    BY <2>1
  <2>3. CASE Failed \in {xf, r}
    BY <1>1, <2>2, <2>3, ErrorInv
  <2>4. CASE Failed \notin {xf, r}
    <3>1. xf # Failed /\ r # Failed
      BY <2>4
    <3>2. xf = Norm(True("norm", MaxLayers), buf.x)
      BY <3>1, NormExact DEF LInv
    <3>3. r = Said(Style, Pos)
      BY <1>5, <3>1, <3>2, HeadExact DEF Said
    <3>4. call.i = call.n - 1
      BY <1>1, <1>7, CallTypes DEF WantsLogits
    <3>5. Return_Ok(r) /\ UNCHANGED <<conf, graph, count, cache, buf>>
      BY <2>2, <2>4
    <3>6. \A l \in Layer, p \in 0..Pos : Right(cache', Style, l, p)
      BY <1>4, <3>5
    <3> QED
      BY <1>1, <1>2, <3>3, <3>4, <3>5, <3>6, OkInv DEF LInv
  <2> QED
    BY <2>3, <2>4
<1> QED
  BY <1>6, <1>7

-----------------------------------------------------------------------------
(* How a call begins                                                       *)

(* A call starts with the position after the answered ones.                *)
LEMMA BeginInv ==
  ASSUME LlamaAssumption, LInv, NEW kind \in {"step", "prefill", "fused"}, NEW n \in 1..MaxSeq,
         NEW logits \in BOOLEAN, Begin(kind, n, logits),
         kind = "step" => n <= 1, kind = "fused" => n <= MaxFused
  PROVE  LInv'
<1>1. /\ call = Idle /\ kind \in Calls /\ next_pos + n <= MaxSeq
      /\ call' = [kind |-> kind, from |-> next_pos, n |-> n, i |-> 0, at |-> "enter",
                  layer |-> 0, logits |-> logits]
      /\ answer' = Idle
      /\ UNCHANGED <<conf, graph, count, cache, next_pos, buf>>
  BY DEF Begin
<1>2. /\ MaxSeq \in Nat /\ MaxSeq > 0 /\ MaxLayers > 0 /\ MaxLayers \in Nat
      /\ next_pos \in Nat /\ n \in Nat /\ n > 0
  BY Sizes DEF LInv, Counted
<1>3. call' \in CallRecord /\ call' # Idle
  <2>1. next_pos \in Position /\ 0 \in Position /\ 0 \in Layer
    BY <1>1, <1>2 DEF Position, Layer
  <2> QED
    BY <1>1, <2>1, Sizes DEF CallRecord
<1>4. Here = next_pos /\ Here' = next_pos /\ Style' = Style
  BY <1>1, <1>2, <1>3 DEF Here, Pos, Style
<1>5. CallOK'
  BY <1>1, <1>2, <1>3 DEF CallOK, CallRecord, Position, Layer
<1>6. ConfOK' /\ Counted' /\ CacheShape(cache)' /\ BufShape' /\ Finished'
  BY <1>1, <1>4 DEF LInv, ConfOK, Counted, CacheShape, Position, BufShape, Finished, Layer
<1>7. InLoop' /\ Answered'
  BY <1>1 DEF InLoop, Answered
<1> QED
  BY <1>5, <1>6, <1>7 DEF LInv

(* The position is appended, and x embedded.                               *)
LEMMA EnterLoopInv ==
  ASSUME LlamaAssumption, LInv, EnterLoop
  PROVE  LInv'
<1>1. /\ call # Idle /\ call.at = "enter"
      /\ count' = IF Pos = count THEN count + 1 ELSE count
      /\ buf' = [Blank EXCEPT !.x = Embedded(Pos)]
      /\ call' = [call EXCEPT !.at = "norm", !.layer = 0]
      /\ UNCHANGED <<conf, graph, cache, next_pos, answer>>
  BY DEF EnterLoop, Entering, At
<1>2. Pos \in Position /\ Pos \in Nat /\ Here = Pos /\ 0 \in Layer
  BY <1>1, CallTypes, Sizes DEF Layer
<1>3. count' = Pos + 1
  BY <1>1, <1>2 DEF LInv, Counted
<1>4. BufShape' /\ buf'.x = Embedded(Pos)
  BY <1>1 DEF BufShape, Blank
<1>5. LoopState("norm", 0, Pos, cache', buf', Style)
  BY <1>1, <1>2, <1>4, HiddenFacts DEF LoopState
<1> QED
  BY <1>1, <1>2, <1>3, <1>4, <1>5, MovesOn DEF LInv

(* Without a graph a batch of one is appended, and takes a step.           *)
LEMMA FusedPerTokenInv ==
  ASSUME LlamaAssumption, OneTokenLoops, LInv, FusedPerToken
  PROVE  LInv'
<1>1. /\ call # Idle /\ call.at = "enter" /\ call.kind = "fused" /\ call.i = 0
      /\ conf.linear # "WebGpu" /\ ~graph
      /\ count < call.from + call.n /\ count' = call.from + call.n
      /\ UNCHANGED <<conf, graph, cache, next_pos, call, buf, answer>>
  BY DEF FusedPerToken, At
<1>2. MaxFused = 1 /\ call.n = 1
  BY <1>1, CallTypes DEF OneTokenLoops, LInv, CallOK, ConfOK
<1>3. Pos = call.from /\ Pos \in Nat /\ Pos < MaxSeq /\ Here = Pos /\ count' = Pos + 1
  BY <1>1, <1>2, CallTypes DEF Pos
<1>4. Here' = Here /\ Style' = Style
  BY <1>1 DEF Here, Pos, Style
<1>5. Counted'
  BY <1>1, <1>3, <1>4, Sizes DEF Counted, LInv
<1>6. ConfOK' /\ CallOK' /\ CacheShape(cache)' /\ BufShape' /\ Finished' /\ InLoop' /\ Answered'
  BY <1>1, <1>4
  DEF LInv, ConfOK, CallOK, CallRecord, Layer, Position, CacheShape, BufShape, Finished, InLoop,
      Answered
<1> QED
  BY <1>5, <1>6 DEF LInv
-----------------------------------------------------------------------------
(* The graph and the WebGPU batch run all layers in one piece              *)

(* What a layer l of a path gives, from what the one before it gave.       *)
PathRow(path, l, s, from, n) ==
  CASE path = "step" -> IF l = 0 THEN [x |-> Embedded(from), kv |-> cache]
                        ELSE GraphLayer(l - 1, s, from, n)
    [] path = "graph" ->
         IF l = 0 THEN [all_x |-> [i \in 0..(n - 1) |-> Embedded(from + i)], kv |-> cache]
         ELSE PrefillLayer(l - 1, s, from, n)
    [] path = "webgpu" ->
         IF l = 0 THEN [x |-> [i \in 0..(n - 1) |-> Embedded(from + i)], kv |-> cache]
         ELSE WebGpuLayer(l - 1, s, from, n)
Path(path, m, from, n, g) == g = [l \in 0..m |-> PathRow(path, l, g[l - 1], from, n)]

(* Nothing comes before layer 0.                                           *)
LEMMA PathStart ==
  ASSUME NEW path \in {"step", "graph", "webgpu"}, NEW from, NEW n, NEW s, NEW r
  PROVE  PathRow(path, 0, s, from, n) = PathRow(path, 0, r, from, n)
  BY DEF PathRow

(* Each path has a run over m layers, for every m.                         *)
LEMMA PathsExist ==
  ASSUME NEW path \in {"step", "graph", "webgpu"}, NEW from, NEW n, NEW top \in Nat
  PROVE  \E g : Path(path, top, from, n, g)
<1> DEFINE S == {m \in 0..top : \E g : Path(path, m, from, n, g)}
<1>1. 0 \in S
  <2> DEFINE g == [l \in 0..0 |-> PathRow(path, 0, Idle, from, n)]
  <2>1. PathRow(path, 0, Idle, from, n) = PathRow(path, 0, g[-1], from, n)
    BY PathStart
  <2>2. g = [l \in 0..0 |-> PathRow(path, l, g[l - 1], from, n)]
    BY <2>1
  <2>3. Path(path, 0, from, n, g)
    BY <2>2 DEF Path
  <2> QED
    BY <2>3
<1>2. ASSUME NEW m \in 0..(top - 1), m \in S
      PROVE  m + 1 \in S
  <2>1. PICK g : Path(path, m, from, n, g)
    BY <1>2
  <2> DEFINE new == [l \in 0..(m + 1) |->
                       IF l <= m THEN g[l] ELSE PathRow(path, l, g[l - 1], from, n)]
  <2>2. \A l \in 0..m : g[l] = PathRow(path, l, g[l - 1], from, n)
    BY <2>1 DEF Path
  <2>3. \A l \in 0..(m + 1) : new[l] = PathRow(path, l, g[l - 1], from, n)
    BY <2>2
  <2>4. \A l \in 0..(m + 1) : l # 0 => new[l - 1] = g[l - 1]
    OBVIOUS
  <2>5. PathRow(path, 0, g[0 - 1], from, n) = PathRow(path, 0, new[0 - 1], from, n)
    BY PathStart
  <2>6. new = [l \in 0..(m + 1) |-> new[l]]
    OBVIOUS
  <2> HIDE DEF new
  <2>7. \A l \in 0..(m + 1) : new[l] = PathRow(path, l, new[l - 1], from, n)
    BY <2>3, <2>4, <2>5
  <2>8. Path(path, m + 1, from, n, new)
    BY <2>6, <2>7 DEF Path
  <2> QED
    BY <2>8
<1>3. 0..top \subseteq S
  <2> HIDE DEF S
  <2> QED
    BY <1>1, <1>2, Climb
<1> QED
  BY <1>3

(* The weights as the graph reads them.                                    *)
LEMMA GraphWeightsExact ==
  ASSUME ExactFormats, ConfOK, graph
  PROVE  /\ \A role, l : GraphWeight(role, l) = True(role, l)
         /\ MaxLayers = NumLayers
<1>1. NormDtype = "f16" /\ conf.dtype \in {"f16", "i8"} /\ MaxLayers = NumLayers
  BY DEF ExactFormats, ConfOK
<1> QED
  BY <1>1 DEF GraphWeight, Preloaded, True

(* The weights as the WebGPU batch reads them.                             *)
LEMMA WebGpuWeightsExact ==
  ASSUME ExactFormats, ConfOK, conf.linear = "WebGpu"
  PROVE  \A role, l : WebGpuWeight(role, l) = True(role, l)
<1>1. NormDtype = "f32" /\ conf.dtype = "f16"
  BY DEF ExactFormats, ConfOK
<1> QED
  BY <1>1 DEF WebGpuWeight, True

(* The cache c has everything before from, and the layers below l have     *)
(* written the n tokens from there on.                                     *)
Held(c, l, from, n) ==
  /\ CacheShape(c)
  /\ \A m \in Layer, p \in 0..(from - 1) : Right(c, Style, m, p)
  /\ \A m \in 0..(l - 1), p \in from..(from + n - 1) : Right(c, Style, m, p)

(* A layer of step_fused.                                                  *)
LEMMA GraphLayerExact ==
  ASSUME LlamaAssumption, \A role, k : GraphWeight(role, k) = True(role, k),
         NEW l \in Layer, NEW s, NEW pos \in Position,
         s.x = H(Style)[l][pos], Held(s.kv, l, pos, 1)
  PROVE  /\ GraphLayer(l, s, pos, pos + 1).x = H(Style)[l + 1][pos]
         /\ Held(GraphLayer(l, s, pos, pos + 1).kv, l + 1, pos, 1)
<1> DEFINE x_norm == Norm(True("in_norm", l), s.x)
           wrote == <<Rope(Style, pos, MatVec(True("k", l), x_norm)), MatVec(True("v", l), x_norm)>>
           kv == [s.kv EXCEPT ![l][pos] = wrote]
           q == Rope(Style, pos, MatVec(True("q", l), x_norm))
           past == [t \in 0..((pos + 1) - 1) |-> kv[l][t]]
           y == Plus(s.x, MatVec(True("o", l), Attend(q, past)))
<1>1. /\ GraphLayer(l, s, pos, pos + 1).x = FeedForward(l, y)
      /\ GraphLayer(l, s, pos, pos + 1).kv = kv
  <2> DEFINE W(role) == GraphWeight(role, l)
             g_norm == Norm(W("in_norm"), s.x)
             g_kv == [s.kv EXCEPT ![l][pos] =
                        <<Rope(Style, pos, MatVec(W("k"), g_norm)), MatVec(W("v"), g_norm)>>]
             g_past == [t \in 0..((pos + 1) - 1) |-> g_kv[l][t]]
             g_q == Rope(Style, pos, MatVec(W("q"), g_norm))
             g_y == Plus(s.x, MatVec(W("o"), Attend(g_q, g_past)))
             g_m == Norm(W("post_norm"), g_y)
  <2>1. GraphLayer(l, s, pos, pos + 1) =
          [x |-> Plus(g_y, MatVec(W("down"),
                        Gated("silu", MatVec(W("gate"), g_m), MatVec(W("up"), g_m)))),
           kv |-> g_kv]
    BY DEF GraphLayer
  <2>2. \A role : W(role) = True(role, l)
    OBVIOUS
  <2> HIDE DEF W
  <2>3. g_kv = kv
    BY <2>2
  <2> HIDE DEF g_kv, kv
  <2>4. g_past = past
    BY <2>3
  <2> HIDE DEF g_past, past
  <2>5. g_y = y
    BY <2>2, <2>4
  <2> HIDE DEF g_y, y
  <2> QED
    BY <2>1, <2>2, <2>3, <2>5 DEF FeedForward
<1>2. x_norm = NormX(Style, l, pos)
  BY DEF NormX
<1>3. wrote = KV(Style, l, pos, H(Style)[l][pos])
  BY <1>2, KeyValueFacts
<1>4. q = Query(Style, l, pos)
  BY <1>2 DEF Query
<1> HIDE DEF wrote, q
<1>5. l \in 0..(NumLayers - 1) /\ l \in Nat /\ pos \in Nat /\ NumLayers \in Nat /\ MaxLayers \in Nat
  BY Sizes DEF Layer, Position
<1>6. CacheShape(s.kv)
  BY DEF Held
<1>7. CacheShape(kv) /\ kv[l][pos] = wrote
  BY <1>5, <1>6 DEF CacheShape
<1>8. \A m \in 0..(NumLayers - 1), p \in Position :
        m # l \/ p # pos => kv[m][p] = s.kv[m][p]
  BY <1>5, <1>6 DEF CacheShape
<1> HIDE DEF kv
<1>9. Right(kv, Style, l, pos)
  BY <1>3, <1>7 DEF Right
<1>10. \A m \in Layer, p \in 0..(pos - 1) : Right(kv, Style, m, p)
  BY <1>5, <1>8, Sizes DEF Held, Right, Position
<1>11. \A m \in 0..l : Right(kv, Style, m, pos)
  <2>1. \A m \in 0..(l - 1) : Right(s.kv, Style, m, pos)
    BY <1>5 DEF Held
  <2>2. \A m \in 0..(l - 1) : m \in 0..(NumLayers - 1) /\ m # l
    BY <1>5
  <2>3. \A m \in 0..(l - 1) : kv[m][pos] = s.kv[m][pos]
    BY <2>2, <1>8
  <2>4. \A m \in 0..(l - 1) : Right(kv, Style, m, pos)
    BY <2>1, <2>3 DEF Right
  <2> QED
    BY <1>5, <1>9, <2>4
<1>12. Held(kv, l + 1, pos, 1)
  <2>1. (l + 1) - 1 = l /\ pos..(pos + 1 - 1) = {pos}
    BY <1>5
  <2> QED
    BY <1>7, <1>10, <1>11, <2>1 DEF Held
<1>13. past = [t \in 0..pos |-> KV(Style, l, t, H(Style)[l][t])]
  <2>1. \A t \in 0..pos : kv[l][t] = KV(Style, l, t, H(Style)[l][t])
    BY <1>5, <1>9, <1>10 DEF Right
  <2>2. (pos + 1) - 1 = pos
    BY <1>5
  <2> QED
    BY <2>1, <2>2
<1>14. y = Residual(Style, l, pos)
  BY <1>4, <1>13 DEF Residual, Attended
<1> QED
  BY <1>1, <1>12, <1>14, NextLayerFacts

(* step_fused, over all layers.                                            *)
LEMMA StepFusedExact ==
  ASSUME LlamaAssumption, ExactFormats, ConfOK, graph, NEW pos \in Position,
         Held(cache, 0, pos, 1)
  PROVE  /\ StepFused(pos, pos + 1).x = H(Style)[MaxLayers][pos]
         /\ Held(StepFused(pos, pos + 1).kv, MaxLayers, pos, 1)
<1>1. /\ \A role, k : GraphWeight(role, k) = True(role, k)
      /\ MaxLayers = NumLayers /\ NumLayers \in Nat /\ pos \in Nat
  BY GraphWeightsExact, Sizes DEF Position
<1> DEFINE Run == CHOOSE g : g = [l \in 0..NumLayers |->
                     IF l = 0 THEN [x |-> Embedded(pos), kv |-> cache]
                     ELSE GraphLayer(l - 1, g[l - 1], pos, pos + 1)]
<1>2. StepFused(pos, pos + 1) = Run[NumLayers]
  BY DEF StepFused
<1>3. \E g : g = [l \in 0..NumLayers |->
                     IF l = 0 THEN [x |-> Embedded(pos), kv |-> cache]
                     ELSE GraphLayer(l - 1, g[l - 1], pos, pos + 1)]
  <2>1. PICK g : Path("step", NumLayers, pos, pos + 1, g)
    BY <1>1, PathsExist
  <2>2. \A l, s : PathRow("step", l, s, pos, pos + 1) =
                    IF l = 0 THEN [x |-> Embedded(pos), kv |-> cache]
                    ELSE GraphLayer(l - 1, s, pos, pos + 1)
    BY DEF PathRow
  <2>3. g = [l \in 0..NumLayers |-> PathRow("step", l, g[l - 1], pos, pos + 1)]
    BY <2>1 DEF Path
  <2>4. g = [l \in 0..NumLayers |->
               IF l = 0 THEN [x |-> Embedded(pos), kv |-> cache]
               ELSE GraphLayer(l - 1, g[l - 1], pos, pos + 1)]
    BY <2>2, <2>3
  <2> QED
    BY <2>4
<1>4. Run = [l \in 0..NumLayers |->
               IF l = 0 THEN [x |-> Embedded(pos), kv |-> cache]
               ELSE GraphLayer(l - 1, Run[l - 1], pos, pos + 1)]
  BY <1>3
<1> HIDE DEF Run
<1>5. Run[0] = [x |-> Embedded(pos), kv |-> cache]
  BY <1>1, <1>4
<1>6. \A l \in 0..(NumLayers - 1) : Run[l + 1] = GraphLayer(l, Run[l], pos, pos + 1)
  BY <1>1, <1>4
<1> DEFINE S == {l \in 0..NumLayers :
                   Run[l].x = H(Style)[l][pos] /\ Held(Run[l].kv, l, pos, 1)}
<1>7. 0 \in S
  <2>1. H(Style)[0][pos] = Embedded(pos)
    BY HiddenFacts
  <2> QED
    BY <1>1, <1>5, <2>1
<1>8. \A l \in 0..(NumLayers - 1) : l \in S => l + 1 \in S
  <2> SUFFICES ASSUME NEW l \in 0..(NumLayers - 1), l \in S
               PROVE  l + 1 \in S
    OBVIOUS
  <2>1. l \in Layer
    BY <1>1 DEF Layer
  <2>2. Run[l].x = H(Style)[l][pos] /\ Held(Run[l].kv, l, pos, 1)
    OBVIOUS
  <2>3. /\ GraphLayer(l, Run[l], pos, pos + 1).x = H(Style)[l + 1][pos]
        /\ Held(GraphLayer(l, Run[l], pos, pos + 1).kv, l + 1, pos, 1)
    BY <1>1, <2>1, <2>2, GraphLayerExact
  <2> QED
    BY <1>1, <1>6, <2>3
<1>9. 0..NumLayers \subseteq S
  <2> HIDE DEF S
  <2> QED
    BY <1>1, <1>7, <1>8, Climb
<1>10. NumLayers \in S
  <2> HIDE DEF S
  <2> QED
    BY <1>1, <1>9
<1> QED
  BY <1>1, <1>2, <1>10

(* A layer of a batch writes its tokens, and leaves everything else.       *)
LEMMA BatchWrites ==
  ASSUME LlamaAssumption, NEW l \in Layer, NEW from \in Nat, NEW n \in Nat, n > 0,
         from + n <= MaxSeq, NEW c, NEW d, Held(c, l, from, n),
         DOMAIN d = 0..(NumLayers - 1), \A m \in 0..(NumLayers - 1) : m # l => d[m] = c[m],
         DOMAIN d[l] = Position,
         \A p \in Position : d[l][p] = IF p - from \in 0..(n - 1)
                                       THEN KV(Style, l, p, H(Style)[l][p]) ELSE c[l][p]
  PROVE  /\ Held(d, l + 1, from, n)
         /\ \A p \in 0..(from + n - 1) : Right(d, Style, l, p)
<1>1. /\ l \in 0..(NumLayers - 1) /\ l \in Nat
      /\ NumLayers \in Nat /\ MaxSeq \in Nat /\ MaxLayers \in Nat
  BY Sizes DEF Layer
<1>2. CacheShape(d)
  BY DEF CacheShape, Held
<1>3. \A m \in 0..(NumLayers - 1) : \A p : m # l => (Right(c, Style, m, p) => Right(d, Style, m, p))
  BY DEF Right
<1>4. \A p \in from..(from + n - 1) : Right(d, Style, l, p)
  BY <1>1 DEF Right, Position
<1>5. \A p \in 0..(from - 1) : Right(d, Style, l, p)
  <2>1. \A p \in 0..(from - 1) : p \in Position /\ p - from \notin 0..(n - 1)
    BY <1>1 DEF Position
  <2>2. \A p \in 0..(from - 1) : d[l][p] = c[l][p] /\ Right(c, Style, l, p)
    BY <2>1 DEF Held
  <2> QED
    BY <2>2 DEF Right
<1>6. \A m \in Layer, p \in 0..(from - 1) : Right(d, Style, m, p)
  BY <1>3, <1>5, Sizes DEF Held
<1>7. \A m \in 0..l, p \in from..(from + n - 1) : Right(d, Style, m, p)
  <2>1. \A m \in 0..(l - 1) : m \in 0..(NumLayers - 1) /\ m # l
    BY <1>1
  <2>2. \A m \in 0..(l - 1), p \in from..(from + n - 1) : Right(d, Style, m, p)
    BY <1>3, <2>1 DEF Held
  <2> QED
    BY <1>1, <1>4, <2>2
<1>8. (l + 1) - 1 = l
  BY <1>1
<1> QED
  BY <1>2, <1>4, <1>5, <1>6, <1>7, <1>8 DEF Held

(* A layer of prefill_fused.                                                *)
LEMMA PrefillLayerExact ==
  ASSUME LlamaAssumption, \A role, k : GraphWeight(role, k) = True(role, k),
         NEW l \in Layer, NEW s, NEW from \in Nat, NEW n \in Nat, n > 0, from + n <= MaxSeq,
         \A i \in 0..(n - 1) : s.all_x[i] = H(Style)[l][from + i], Held(s.kv, l, from, n)
  PROVE  /\ \A i \in 0..(n - 1) : PrefillLayer(l, s, from, n).all_x[i] = H(Style)[l + 1][from + i]
         /\ Held(PrefillLayer(l, s, from, n).kv, l + 1, from, n)
<1> DEFINE I == 0..(n - 1)
           W(role) == GraphWeight(role, l)
           x_norm == [i \in I |-> Norm(W("in_norm"), s.all_x[i])]
           q_all == [i \in I |-> Rope(Style, from + i, MatVec(W("q"), x_norm[i]))]
           k_all == [i \in I |-> Rope(Style, from + i, MatVec(W("k"), x_norm[i]))]
           v_all == [i \in I |-> MatVec(W("v"), x_norm[i])]
           kv == [s.kv EXCEPT ![l] = [p \in Position |->
                    IF p - from \in I THEN <<k_all[p - from], v_all[p - from]>> ELSE @[p]]]
           o_out == [i \in I |-> MatVec(W("o"),
                                   Attend(q_all[i], [t \in 0..(from + i) |-> kv[l][t]]))]
           post == [i \in I |-> Norm(W("post_norm"), Plus(s.all_x[i], o_out[i]))]
           gate == [i \in I |-> Gated("silu", MatVec(W("gate"), post[i]), MatVec(W("up"), post[i]))]
           all_x == [i \in I |-> Plus(Plus(s.all_x[i], o_out[i]), MatVec(W("down"), gate[i]))]
<1>1. PrefillLayer(l, s, from, n) = [all_x |-> all_x, kv |-> kv]
  BY DEF PrefillLayer
<1>2. \A role : W(role) = True(role, l)
  OBVIOUS
<1>3. /\ I = 0..(n - 1) /\ l \in 0..(NumLayers - 1) /\ l \in Nat /\ MaxSeq \in Nat
      /\ \A i \in I : from + i \in Position
  BY Sizes DEF Layer, Position
<1> HIDE DEF W, I
<1>4. \A i \in I : x_norm[i] = NormX(Style, l, from + i)
  BY <1>2, <1>3 DEF NormX
<1> HIDE DEF x_norm
<1>5. \A i \in I : /\ q_all[i] = Query(Style, l, from + i)
                   /\ <<k_all[i], v_all[i]>> = KV(Style, l, from + i, H(Style)[l][from + i])
  BY <1>2, <1>4, KeyValueFacts DEF Query
<1> HIDE DEF q_all, k_all, v_all
<1>6. /\ DOMAIN kv = 0..(NumLayers - 1) /\ DOMAIN kv[l] = Position
      /\ \A m \in 0..(NumLayers - 1) : m # l => kv[m] = s.kv[m]
      /\ \A p \in Position : kv[l][p] = IF p - from \in I THEN <<k_all[p - from], v_all[p - from]>>
                                        ELSE s.kv[l][p]
  BY <1>3 DEF Held, CacheShape
<1> HIDE DEF kv
<1>7. \A p \in Position : p - from \in I => p = from + (p - from)
  BY DEF Position
<1>8. \A p \in Position : kv[l][p] = IF p - from \in I THEN KV(Style, l, p, H(Style)[l][p])
                                    ELSE s.kv[l][p]
  BY <1>5, <1>6, <1>7
<1>9. /\ Held(kv, l + 1, from, n)
      /\ \A p \in 0..(from + n - 1) : Right(kv, Style, l, p)
  BY <1>3, <1>6, <1>8, BatchWrites
<1>10. ASSUME NEW i \in I
       PROVE  [t \in 0..(from + i) |-> kv[l][t]] =
                [t \in 0..(from + i) |-> KV(Style, l, t, H(Style)[l][t])]
  <2>1. \A t \in 0..(from + i) : t \in 0..(from + n - 1)
    BY <1>3
  <2>2. \A t \in 0..(from + i) : kv[l][t] = KV(Style, l, t, H(Style)[l][t])
    BY <1>9, <2>1 DEF Right
  <2> QED
    BY <2>2
<1>11. \A i \in I : Plus(s.all_x[i], o_out[i]) = Residual(Style, l, from + i)
  BY <1>2, <1>3, <1>5, <1>10 DEF Residual, Attended
<1> HIDE DEF o_out
<1>12. \A i \in I : all_x[i] = FeedForward(l, Residual(Style, l, from + i))
  BY <1>2, <1>11 DEF FeedForward
<1> HIDE DEF all_x
<1>13. \A i \in I : all_x[i] = H(Style)[l + 1][from + i]
  BY <1>3, <1>12, NextLayerFacts
<1> QED
  BY <1>1, <1>3, <1>9, <1>13

(* A layer of the WebGPU batch.                                             *)
LEMMA WebGpuLayerExact ==
  ASSUME LlamaAssumption, \A role, j : WebGpuWeight(role, j) = True(role, j),
         NEW l \in Layer, NEW s, NEW from \in Nat, NEW n \in Nat, n > 0, from + n <= MaxSeq,
         \A i \in 0..(n - 1) : s.x[i] = H(Style)[l][from + i], Held(s.kv, l, from, n)
  PROVE  /\ \A i \in 0..(n - 1) : WebGpuLayer(l, s, from, n).x[i] = H(Style)[l + 1][from + i]
         /\ Held(WebGpuLayer(l, s, from, n).kv, l + 1, from, n)
<1> DEFINE I == 0..(n - 1)
           W(role) == WebGpuWeight(role, l)
           x_norm == [i \in I |-> Norm(W("in_norm"), s.x[i])]
           q == [i \in I |-> Rope(Style, from + i, MatVec(W("q"), x_norm[i]))]
           k == [i \in I |-> Rope(Style, from + i, MatVec(W("k"), x_norm[i]))]
           kv == [s.kv EXCEPT ![l] = [p \in Position |->
                    IF p - from \in I THEN <<k[p - from], MatVec(W("v"), x_norm[p - from])>>
                    ELSE @[p]]]
           attn_out == [i \in I |-> Attend(q[i], [t \in 0..(from + i) |-> kv[l][t]])]
           x1 == [i \in I |-> Plus(s.x[i], MatVec(W("o"), attn_out[i]))]
           m == [i \in I |-> Norm(W("post_norm"), x1[i])]
           gate == [i \in I |-> Gated("silu", MatVec(W("gate"), m[i]), MatVec(W("up"), m[i]))]
           all_x == [i \in I |-> Plus(x1[i], MatVec(W("down"), gate[i]))]
<1>1. WebGpuLayer(l, s, from, n) = [x |-> all_x, kv |-> kv]
  BY DEF WebGpuLayer
<1>2. \A role : W(role) = True(role, l)
  OBVIOUS
<1>3. /\ I = 0..(n - 1) /\ l \in 0..(NumLayers - 1) /\ l \in Nat /\ MaxSeq \in Nat
      /\ \A i \in I : from + i \in Position
  BY Sizes DEF Layer, Position
<1> HIDE DEF W, I
<1>4. \A i \in I : x_norm[i] = NormX(Style, l, from + i)
  BY <1>2, <1>3 DEF NormX
<1> HIDE DEF x_norm
<1>5. \A i \in I : /\ q[i] = Query(Style, l, from + i)
                   /\ <<k[i], MatVec(W("v"), x_norm[i])>> =
                        KV(Style, l, from + i, H(Style)[l][from + i])
  BY <1>2, <1>4, KeyValueFacts DEF Query
<1> HIDE DEF q, k
<1>6. /\ DOMAIN kv = 0..(NumLayers - 1) /\ DOMAIN kv[l] = Position
      /\ \A j \in 0..(NumLayers - 1) : j # l => kv[j] = s.kv[j]
      /\ \A p \in Position :
           kv[l][p] = IF p - from \in I THEN <<k[p - from], MatVec(W("v"), x_norm[p - from])>>
                      ELSE s.kv[l][p]
  BY <1>3 DEF Held, CacheShape
<1> HIDE DEF kv
<1>7. \A p \in Position : p - from \in I => p = from + (p - from)
  BY DEF Position
<1>8. \A p \in Position : kv[l][p] = IF p - from \in I THEN KV(Style, l, p, H(Style)[l][p])
                                    ELSE s.kv[l][p]
  BY <1>5, <1>6, <1>7
<1>9. /\ Held(kv, l + 1, from, n)
      /\ \A p \in 0..(from + n - 1) : Right(kv, Style, l, p)
  BY <1>3, <1>6, <1>8, BatchWrites
<1>10. ASSUME NEW i \in I
       PROVE  [t \in 0..(from + i) |-> kv[l][t]] =
                [t \in 0..(from + i) |-> KV(Style, l, t, H(Style)[l][t])]
  <2>1. \A t \in 0..(from + i) : t \in 0..(from + n - 1)
    BY <1>3
  <2>2. \A t \in 0..(from + i) : kv[l][t] = KV(Style, l, t, H(Style)[l][t])
    BY <1>9, <2>1 DEF Right
  <2> QED
    BY <2>2
<1>11. \A i \in I : x1[i] = Residual(Style, l, from + i)
  BY <1>2, <1>3, <1>5, <1>10 DEF Residual, Attended
<1> HIDE DEF x1
<1>12. \A i \in I : all_x[i] = FeedForward(l, Residual(Style, l, from + i))
  BY <1>2, <1>11 DEF FeedForward
<1> HIDE DEF all_x
<1>13. \A i \in I : all_x[i] = H(Style)[l + 1][from + i]
  BY <1>3, <1>12, NextLayerFacts
<1> QED
  BY <1>1, <1>3, <1>9, <1>13

(* prefill_fused on the graph, over all layers.                             *)
LEMMA GraphPrefillExact ==
  ASSUME LlamaAssumption, ExactFormats, ConfOK, graph, NEW from \in Nat, NEW n \in Nat, n > 0,
         from + n <= MaxSeq, Held(cache, 0, from, n)
  PROVE  /\ \A i \in 0..(n - 1) : GraphPrefill(from, n).all_x[i] = H(Style)[MaxLayers][from + i]
         /\ Held(GraphPrefill(from, n).kv, MaxLayers, from, n)
<1>1. /\ \A role, k : GraphWeight(role, k) = True(role, k)
      /\ NumLayers = MaxLayers /\ NumLayers \in Nat /\ MaxSeq \in Nat
  BY GraphWeightsExact, Sizes
<1> DEFINE start == [i \in 0..(n - 1) |-> Embedded(from + i)]
           Run == CHOOSE g : g = [l \in 0..NumLayers |->
                     IF l = 0 THEN [all_x |-> start, kv |-> cache]
                     ELSE PrefillLayer(l - 1, g[l - 1], from, n)]
<1>2. GraphPrefill(from, n) = Run[NumLayers]
  BY DEF GraphPrefill
<1>3. \E g : g = [l \in 0..NumLayers |->
                     IF l = 0 THEN [all_x |-> start, kv |-> cache]
                     ELSE PrefillLayer(l - 1, g[l - 1], from, n)]
  <2>1. PICK g : Path("graph", NumLayers, from, n, g)
    BY <1>1, PathsExist
  <2>2. \A l, s : PathRow("graph", l, s, from, n) =
                    IF l = 0 THEN [all_x |-> start, kv |-> cache]
                    ELSE PrefillLayer(l - 1, s, from, n)
    BY DEF PathRow
  <2>3. g = [l \in 0..NumLayers |-> PathRow("graph", l, g[l - 1], from, n)]
    BY <2>1 DEF Path
  <2> HIDE DEF start
  <2>4. g = [l \in 0..NumLayers |->
               IF l = 0 THEN [all_x |-> start, kv |-> cache]
               ELSE PrefillLayer(l - 1, g[l - 1], from, n)]
    BY <2>2, <2>3
  <2> QED
    BY <2>4
<1>4. Run = [l \in 0..NumLayers |->
               IF l = 0 THEN [all_x |-> start, kv |-> cache]
               ELSE PrefillLayer(l - 1, Run[l - 1], from, n)]
  <2> HIDE DEF start
  <2> QED
    BY <1>3
<1> HIDE DEF Run
<1>5. Run[0] = [all_x |-> start, kv |-> cache]
  <2> HIDE DEF start
  <2> QED
    BY <1>1, <1>4
<1>6. \A l \in 0..(NumLayers - 1) : Run[l + 1] = PrefillLayer(l, Run[l], from, n)
  <2> HIDE DEF start
  <2> QED
    BY <1>1, <1>4
<1> DEFINE Sound(l) == /\ \A i \in 0..(n - 1) : Run[l].all_x[i] = H(Style)[l][from + i]
                       /\ Held(Run[l].kv, l, from, n)
           S == {l \in 0..NumLayers : Sound(l)}
<1>7. Sound(0)
  <2>1. \A i \in 0..(n - 1) : from + i \in Position
    BY <1>1 DEF Position
  <2>2. \A i \in 0..(n - 1) : H(Style)[0][from + i] = Embedded(from + i)
    BY <2>1, HiddenFacts
  <2>3. \A i \in 0..(n - 1) : start[i] = Embedded(from + i)
    OBVIOUS
  <2> HIDE DEF start
  <2>4. Run[0].all_x = start /\ Run[0].kv = cache
    BY <1>5
  <2> QED
    BY <2>2, <2>3, <2>4
<1>8. \A l \in 0..(NumLayers - 1) : Sound(l) => Sound(l + 1)
  <2> SUFFICES ASSUME NEW l \in 0..(NumLayers - 1), Sound(l)
               PROVE  Sound(l + 1)
    OBVIOUS
  <2>1. l \in Layer
    BY <1>1 DEF Layer
  <2>2. /\ \A i \in 0..(n - 1) : Run[l].all_x[i] = H(Style)[l][from + i]
        /\ Held(Run[l].kv, l, from, n)
    OBVIOUS
  <2>3. /\ \A i \in 0..(n - 1) :
             PrefillLayer(l, Run[l], from, n).all_x[i] = H(Style)[l + 1][from + i]
        /\ Held(PrefillLayer(l, Run[l], from, n).kv, l + 1, from, n)
    BY <1>1, <2>1, <2>2, PrefillLayerExact
  <2> QED
    BY <1>1, <1>6, <2>3
<1> HIDE DEF Sound
<1>9. 0 \in S /\ \A l \in 0..(NumLayers - 1) : l \in S => l + 1 \in S
  BY <1>1, <1>7, <1>8
<1>10. 0..NumLayers \subseteq S
  <2> HIDE DEF S
  <2> QED
    BY <1>1, <1>9, Climb
<1>11. Sound(NumLayers)
  BY <1>1, <1>10
<1> QED
  BY <1>1, <1>2, <1>11 DEF Sound

(* The WebGPU batch, over the layers that are run.                          *)
LEMMA WebGpuPrefillExact ==
  ASSUME LlamaAssumption, ExactFormats, ConfOK, conf.linear = "WebGpu",
         NEW from \in Nat, NEW n \in Nat, n > 0, from + n <= MaxSeq, Held(cache, 0, from, n)
  PROVE  /\ \A i \in 0..(n - 1) : WebGpuPrefill(from, n).x[i] = H(Style)[MaxLayers][from + i]
         /\ Held(WebGpuPrefill(from, n).kv, MaxLayers, from, n)
<1>1. /\ \A role, k : WebGpuWeight(role, k) = True(role, k)
      /\ MaxLayers = MaxLayers /\ MaxLayers \in Nat /\ MaxSeq \in Nat
  BY WebGpuWeightsExact, Sizes
<1> DEFINE start == [i \in 0..(n - 1) |-> Embedded(from + i)]
           Run == CHOOSE g : g = [l \in 0..MaxLayers |->
                     IF l = 0 THEN [x |-> start, kv |-> cache]
                     ELSE WebGpuLayer(l - 1, g[l - 1], from, n)]
<1>2. WebGpuPrefill(from, n) = Run[MaxLayers]
  BY DEF WebGpuPrefill
<1>3. \E g : g = [l \in 0..MaxLayers |->
                     IF l = 0 THEN [x |-> start, kv |-> cache]
                     ELSE WebGpuLayer(l - 1, g[l - 1], from, n)]
  <2>1. PICK g : Path("webgpu", MaxLayers, from, n, g)
    BY <1>1, PathsExist
  <2>2. \A l, s : PathRow("webgpu", l, s, from, n) =
                    IF l = 0 THEN [x |-> start, kv |-> cache]
                    ELSE WebGpuLayer(l - 1, s, from, n)
    BY DEF PathRow
  <2>3. g = [l \in 0..MaxLayers |-> PathRow("webgpu", l, g[l - 1], from, n)]
    BY <2>1 DEF Path
  <2> HIDE DEF start
  <2>4. g = [l \in 0..MaxLayers |->
               IF l = 0 THEN [x |-> start, kv |-> cache]
               ELSE WebGpuLayer(l - 1, g[l - 1], from, n)]
    BY <2>2, <2>3
  <2> QED
    BY <2>4
<1>4. Run = [l \in 0..MaxLayers |->
               IF l = 0 THEN [x |-> start, kv |-> cache]
               ELSE WebGpuLayer(l - 1, Run[l - 1], from, n)]
  <2> HIDE DEF start
  <2> QED
    BY <1>3
<1> HIDE DEF Run
<1>5. Run[0] = [x |-> start, kv |-> cache]
  <2> HIDE DEF start
  <2> QED
    BY <1>1, <1>4
<1>6. \A l \in 0..(MaxLayers - 1) : Run[l + 1] = WebGpuLayer(l, Run[l], from, n)
  <2> HIDE DEF start
  <2> QED
    BY <1>1, <1>4
<1> DEFINE Sound(l) == /\ \A i \in 0..(n - 1) : Run[l].x[i] = H(Style)[l][from + i]
                       /\ Held(Run[l].kv, l, from, n)
           S == {l \in 0..MaxLayers : Sound(l)}
<1>7. Sound(0)
  <2>1. \A i \in 0..(n - 1) : from + i \in Position
    BY <1>1 DEF Position
  <2>2. \A i \in 0..(n - 1) : H(Style)[0][from + i] = Embedded(from + i)
    BY <2>1, HiddenFacts
  <2>3. \A i \in 0..(n - 1) : start[i] = Embedded(from + i)
    OBVIOUS
  <2> HIDE DEF start
  <2>4. Run[0].x = start /\ Run[0].kv = cache
    BY <1>5
  <2> QED
    BY <2>2, <2>3, <2>4
<1>8. \A l \in 0..(MaxLayers - 1) : Sound(l) => Sound(l + 1)
  <2> SUFFICES ASSUME NEW l \in 0..(MaxLayers - 1), Sound(l)
               PROVE  Sound(l + 1)
    OBVIOUS
  <2>1. l \in Layer
    BY <1>1 DEF Layer
  <2>2. /\ \A i \in 0..(n - 1) : Run[l].x[i] = H(Style)[l][from + i]
        /\ Held(Run[l].kv, l, from, n)
    OBVIOUS
  <2>3. /\ \A i \in 0..(n - 1) : WebGpuLayer(l, Run[l], from, n).x[i] = H(Style)[l + 1][from + i]
        /\ Held(WebGpuLayer(l, Run[l], from, n).kv, l + 1, from, n)
    BY <1>1, <2>1, <2>2, WebGpuLayerExact
  <2> QED
    BY <1>1, <1>6, <2>3
<1> HIDE DEF Sound
<1>9. 0 \in S /\ \A l \in 0..(MaxLayers - 1) : l \in S => l + 1 \in S
  BY <1>1, <1>7, <1>8
<1>10. 0..MaxLayers \subseteq S
  <2> HIDE DEF S
  <2> QED
    BY <1>1, <1>9, Climb
<1>11. Sound(MaxLayers)
  BY <1>1, <1>10
<1> QED
  BY <1>1, <1>2, <1>11 DEF Sound

(* At the start of a position everything before it is written.             *)
LEMMA HeldAtStart ==
  ASSUME LlamaAssumption, LInv, call # Idle
  PROVE  \A n \in Nat : Held(cache, 0, Pos, n)
<1>1. Here = Pos /\ CacheShape(cache) /\ Finished
  BY CallTypes DEF LInv
<1>2. \A m \in Layer, p \in 0..(Pos - 1) : Right(cache, Style, m, p)
  BY <1>1 DEF Finished
<1> QED
  BY <1>1, <1>2 DEF Held

(* What every layer holds of a span is what the model has up to its end.   *)
LEMMA HeldToEnd ==
  ASSUME LlamaAssumption, NEW c, NEW from \in Nat, NEW n \in Nat, n > 0,
         Held(c, MaxLayers, from, n)
  PROVE  \A m \in Layer, p \in 0..(from + n - 1) : Right(c, Style, m, p)
<1> SUFFICES ASSUME NEW m \in Layer, NEW p \in 0..(from + n - 1)
             PROVE  Right(c, Style, m, p)
  OBVIOUS
<1>1. m \in 0..(MaxLayers - 1)
  BY DEF Layer
<1>2. CASE p < from
  BY <1>2 DEF Held
<1>3. CASE ~ (p < from)
  <2>1. p \in from..(from + n - 1)
    BY <1>3
  <2> QED
    BY <1>1, <2>1 DEF Held
<1> QED
  BY <1>2, <1>3

(* The head of the graph.                                                  *)
LEMMA GraphLogitsExact ==
  ASSUME ExactFormats, ConfOK, graph, NEW p, NEW x, x = H(Style)[MaxLayers][p]
  PROVE  GraphLogits(x) = Said(Style, p)
  BY GraphWeightsExact DEF GraphLogits, Said

(* A step on the graph is done with the position, or leaves it, perhaps    *)
(* written, to the loop.                                                   *)
LEMMA EnterGraphInv ==
  ASSUME LlamaAssumption, ExactFormats, LInv, EnterGraph
  PROVE  LInv'
<1> DEFINE s == StepFused(Pos, count')
<1>1. /\ call # Idle /\ call.at = "enter" /\ graph
      /\ count' = IF Pos = count THEN count + 1 ELSE count
  BY DEF EnterGraph, Entering, At
<1>2. Pos \in Position /\ Pos \in Nat /\ Here = Pos /\ MaxSeq \in Nat /\ Pos < MaxSeq
  BY <1>1, CallTypes, Sizes
<1>3. count' = Pos + 1
  BY <1>1, <1>2 DEF LInv, Counted
<1>4. Held(cache, 0, Pos, 1) /\ ConfOK
  BY <1>1, HeldAtStart DEF LInv
<1>5. s.x = H(Style)[MaxLayers][Pos] /\ Held(s.kv, MaxLayers, Pos, 1)
  BY <1>1, <1>2, <1>3, <1>4, StepFusedExact
<1>6. CacheShape(s.kv)
  BY <1>5 DEF Held
<1>7. \A m \in Layer, p \in 0..Pos : Right(s.kv, Style, m, p)
  <2>1. \A m \in Layer, p \in 0..(Pos + 1 - 1) : Right(s.kv, Style, m, p)
    BY <1>2, <1>5, HeldToEnd
  <2> QED
    BY <1>2, <2>1
<1>8. GraphLogits(s.x) = Said(Style, Pos)
  BY <1>1, <1>4, <1>5, GraphLogitsExact
<1>9. CASE /\ cache' = s.kv
           /\ Return_Ok(IF WantsLogits THEN GraphLogits(s.x) ELSE Idle)
           /\ UNCHANGED <<conf, graph, buf>>
  <2> HIDE DEF s
  <2> DEFINE r == IF WantsLogits THEN GraphLogits(s.x) ELSE Idle
  <2>1. r = Idle \/ (r = Said(Style, Pos) /\ call.i = call.n - 1)
    BY <1>1, <1>8, CallTypes DEF WantsLogits
  <2>2. Return_Ok(r) /\ UNCHANGED <<conf, graph, buf>>
    BY <1>9
  <2>3. CacheShape(cache') /\ \A l \in Layer, p \in 0..Pos : Right(cache', Style, l, p)
    BY <1>6, <1>7, <1>9
  <2> HIDE DEF r
  <2> QED
    BY <1>1, <1>3, <2>1, <2>2, <2>3, OkInv
<1>10. CASE /\ GraphFaults
            /\ cache' \in {s.kv, cache}
            /\ graph' = FALSE
            /\ UNCHANGED <<conf, next_pos, call, buf, answer>>
  <2> HIDE DEF s
  <2>1. Here' = Here /\ Pos' = Pos /\ Style' = Style
    BY <1>10 DEF Here, Pos, Style
  <2>2. CacheShape(cache')
    BY <1>6, <1>10 DEF LInv
  <2>3. Finished'
    <3>1. \A l \in Layer, p \in 0..(Pos - 1) : Right(cache, Style, l, p)
      BY <1>2 DEF LInv, Finished
    <3>2. \A l \in Layer, p \in 0..(Pos - 1) : Right(s.kv, Style, l, p)
      BY <1>2, <1>7
    <3>3. \A l \in Layer, p \in 0..(Pos - 1) : Right(cache', Style, l, p)
      BY <1>10, <3>1, <3>2
    <3> QED
      BY <1>2, <2>1, <3>3 DEF Finished, Layer
  <2>4. Counted'
    BY <1>2, <1>3, <1>10, <2>1 DEF LInv, Counted
  <2>5. ConfOK' /\ CallOK' /\ BufShape' /\ InLoop' /\ Answered'
    BY <1>1, <1>10, <2>1
    DEF LInv, ConfOK, CallOK, CallRecord, Layer, Position, BufShape, InLoop, Answered
  <2> QED
    BY <2>2, <2>3, <2>4, <2>5 DEF LInv, CacheShape, Position
<1> QED
  BY <1>9, <1>10 DEF EnterGraph

(* A batch on the graph is done with all its tokens.                       *)
LEMMA FusedOnGraphInv ==
  ASSUME LlamaAssumption, ExactFormats, LInv, FusedOnGraph
  PROVE  LInv'
<1> DEFINE s == GraphPrefill(call.from, call.n)
<1>1. /\ call # Idle /\ call.i = 0 /\ graph
      /\ count' = Appended(call.from, call.n)
      /\ cache' = s.kv
      /\ answer' = IF call.logits THEN GraphLogits(s.all_x[call.n - 1]) ELSE Idle
      /\ call' = Idle /\ next_pos' = call.from + call.n
      /\ UNCHANGED <<conf, graph, buf>>
  BY DEF FusedOnGraph, At
<1>2. /\ call.from \in Nat /\ call.n \in Nat /\ call.n > 0 /\ call.from + call.n <= MaxSeq
      /\ Pos = call.from /\ Here = call.from /\ MaxSeq \in Nat
  BY <1>1, CallTypes, Sizes DEF Pos
<1>3. count' = call.from + call.n
  BY <1>1, <1>2 DEF LInv, Counted, Appended
<1>4. Held(cache, 0, call.from, call.n) /\ ConfOK
  BY <1>1, <1>2, HeldAtStart DEF LInv
<1>5. /\ \A i \in 0..(call.n - 1) : s.all_x[i] = H(Style)[MaxLayers][call.from + i]
      /\ Held(s.kv, MaxLayers, call.from, call.n)
  BY <1>1, <1>2, <1>4, GraphPrefillExact
<1>6. CacheShape(s.kv)
  BY <1>5 DEF Held
<1>7. \A m \in Layer, p \in 0..(call.from + call.n - 1) : Right(s.kv, Style, m, p)
  BY <1>2, <1>5, HeldToEnd
<1>8. GraphLogits(s.all_x[call.n - 1]) = Said(Style, call.from + call.n - 1)
  <2>1. s.all_x[call.n - 1] = H(Style)[MaxLayers][call.from + (call.n - 1)]
    BY <1>2, <1>5
  <2>2. call.from + (call.n - 1) = call.from + call.n - 1
    BY <1>2
  <2> QED
    BY <1>1, <1>4, <2>1, <2>2, GraphLogitsExact
<1> HIDE DEF s
<1>9. Here' = call.from + call.n /\ Style' = Style
  BY <1>1 DEF Here, Style
<1>10. Finished'
  <2>1. \A m \in Layer, p \in 0..(call.from + call.n - 1) : Right(cache', Style, m, p)
    BY <1>1, <1>7
  <2> QED
    BY <1>2, <1>9, <2>1 DEF Finished, Layer
<1>11. Counted'
  BY <1>1, <1>2, <1>3, <1>9 DEF Counted
<1>12. Answered'
  <2>1. answer' # Idle => answer' = Said(Style, call.from + call.n - 1)
    BY <1>1, <1>8
  <2> QED
    BY <1>1, <1>2, <1>9, <2>1 DEF Answered
<1>13. ConfOK' /\ CallOK' /\ BufShape' /\ InLoop'
  BY <1>1 DEF LInv, ConfOK, CallOK, BufShape, InLoop
<1> QED
  BY <1>1, <1>6, <1>10, <1>11, <1>12, <1>13 DEF LInv, CacheShape, Position

(* A batch on WebGPU leaves only the head of its last token to the CPU.    *)
LEMMA FusedOnWebGpuInv ==
  ASSUME LlamaAssumption, ExactFormats, LInv, FusedOnWebGpu
  PROVE  LInv'
<1> DEFINE s == WebGpuPrefill(call.from, call.n)
<1>1. /\ call # Idle /\ call.i = 0 /\ conf.linear = "WebGpu" /\ call.at = "enter"
      /\ count' = Appended(call.from, call.n)
      /\ cache' = [l \in DOMAIN cache |-> IF l \in Layer THEN s.kv[l] ELSE cache[l]]
      /\ UNCHANGED <<conf, graph>>
  BY DEF FusedOnWebGpu, At
<1>2. /\ call.from \in Nat /\ call.n \in Nat /\ call.n > 0 /\ call.from + call.n <= MaxSeq
      /\ Pos = call.from /\ Here = call.from /\ MaxSeq \in Nat
      /\ call.from = next_pos /\ answer = Idle /\ call \in CallRecord
  BY <1>1, CallTypes, Sizes DEF Pos
<1>3. count' = call.from + call.n
  BY <1>1, <1>2 DEF LInv, Counted, Appended
<1>4. Held(cache, 0, call.from, call.n) /\ ConfOK
  BY <1>1, <1>2, HeldAtStart DEF LInv
<1>5. /\ \A i \in 0..(call.n - 1) : s.x[i] = H(Style)[MaxLayers][call.from + i]
      /\ Held(s.kv, MaxLayers, call.from, call.n)
  BY <1>1, <1>2, <1>4, WebGpuPrefillExact
<1>6. CacheShape(s.kv) /\ CacheShape(cache)
  BY <1>5 DEF Held, LInv
<1>7. \A m \in Layer, p \in 0..(call.from + call.n - 1) : Right(s.kv, Style, m, p)
  BY <1>2, <1>5, HeldToEnd
<1>8. s.x[call.n - 1] = H(Style)[MaxLayers][call.from + (call.n - 1)]
  BY <1>2, <1>5
<1>9. CASE ~call.logits
  <2>1. call' = Idle /\ next_pos' = call.from + call.n /\ UNCHANGED <<buf, answer>>
    BY <1>9 DEF FusedOnWebGpu
  <2> HIDE DEF s
  <2>2. CacheShape(cache') /\ \A m \in Layer : cache'[m] = s.kv[m]
    BY <1>1, <1>6, Sizes DEF CacheShape
  <2>3. Here' = call.from + call.n /\ Style' = Style
    BY <1>1, <2>1 DEF Here, Style
  <2>4. Finished'
    <3>1. \A m \in Layer, p \in 0..(call.from + call.n - 1) : Right(cache', Style, m, p)
      BY <1>7, <2>2 DEF Right
    <3> QED
      BY <1>2, <2>3, <3>1 DEF Finished, Layer
  <2>5. Counted'
    BY <1>2, <1>3, <2>1, <2>3 DEF Counted
  <2>6. ConfOK' /\ CallOK' /\ BufShape' /\ InLoop' /\ Answered'
    BY <1>1, <1>2, <2>1 DEF LInv, ConfOK, CallOK, BufShape, InLoop, Answered
  <2> QED
    BY <2>2, <2>4, <2>5, <2>6 DEF LInv, CacheShape, Position
<1>10. CASE call.logits
  <2>1. /\ buf' = [Blank EXCEPT !.x = s.x[call.n - 1]]
        /\ call' = [call EXCEPT !.i = call.n - 1, !.at = "logits"]
        /\ UNCHANGED <<next_pos, answer>>
    BY <1>10 DEF FusedOnWebGpu
  <2> HIDE DEF s
  <2>2. CacheShape(cache') /\ \A m \in Layer : cache'[m] = s.kv[m]
    BY <1>1, <1>6, Sizes DEF CacheShape
  <2>3. /\ call' \in CallRecord /\ call' # Idle
        /\ call'.from = call.from /\ call'.n = call.n /\ call'.i = call.n - 1
        /\ call'.kind = call.kind /\ call'.at = "logits"
    <3>1. call.n - 1 \in Position
      BY <1>2 DEF Position
    <3> QED
      BY <1>2, <2>1, <3>1, Sizes DEF CallRecord
  <2>4. /\ Pos' = call.from + (call.n - 1) /\ Here' = call.from + (call.n - 1)
        /\ Style' = Style
    BY <1>1, <2>3 DEF Pos, Here, Style
  <2>5. BufShape' /\ buf'.x = s.x[call.n - 1]
    BY <2>1 DEF BufShape, Blank
  <2>6. \A m \in Layer, p \in 0..(call.from + call.n - 1) : Right(cache', Style, m, p)
    BY <1>7, <2>2 DEF Right
  <2>7. Finished'
    <3>1. \A p \in 0..(Here' - 1) : p \in 0..(call.from + call.n - 1)
      BY <1>2, <2>4
    <3> QED
      BY <2>4, <2>6, <3>1 DEF Finished, Layer
  <2>8. Counted'
    BY <1>2, <1>3, <2>1, <2>4 DEF Counted
  <2>9. InLoop'
    <3>1. Pos' \in 0..(call.from + call.n - 1) /\ count' = Pos' + 1
      BY <1>2, <1>3, <2>4
    <3>2. \A m \in Layer : Right(cache', Style, m, Pos')
      BY <2>6, <3>1
    <3>3. \A m \in 0..(call'.layer - 1) : m \in Layer
      BY <2>3, Sizes DEF CallRecord, Layer
    <3>4. LoopState("logits", call'.layer, Pos', cache', buf', Style)
      BY <1>8, <2>4, <2>5, <3>2, <3>3 DEF LoopState
    <3> QED
      BY <2>3, <2>4, <3>1, <3>4 DEF InLoop
  <2>10. CallOK'
    BY <1>1, <1>2, <2>1, <2>3 DEF LInv, CallOK, CallRecord, Layer, Position
  <2>11. ConfOK' /\ Answered'
    BY <1>1, <1>2, <2>1 DEF LInv, ConfOK, Answered
  <2> QED
    BY <2>2, <2>5, <2>7, <2>8, <2>9, <2>10, <2>11 DEF LInv, CacheShape, Position
<1> QED
  BY <1>9, <1>10

-----------------------------------------------------------------------------
(* The invariant of the specification                                      *)

(* A new runner has nothing in its cache that counts.                      *)
LEMMA LInvInit ==
  ASSUME LlamaAssumption, Init
  PROVE  LInv
<1>1. /\ count = 0 /\ next_pos = 0 /\ call = Idle /\ buf = Blank /\ answer = Idle
      /\ cache = [l \in 0..(NumLayers - 1) |-> [p \in Position |-> Stale]]
  BY DEF Init
<1>2. PICK parts \in EnabledParts, d \in Dtypes, norm \in BOOLEAN, rope \in BOOLEAN,
           interleaved \in BOOLEAN, mv \in BOOLEAN :
        /\ (norm \/ rope \/ mv) => parts.ops
        /\ conf = [linear |-> parts.linear, ops |-> parts.ops, strict |-> parts.strict,
                   dtype |-> d, norm |-> norm, rope |-> rope, mv |-> mv,
                   interleaved |-> interleaved]
        /\ graph = parts.fused
  BY DEF Init
<1>3. /\ parts.linear \in {"Cpu", "Metal", "WebGpu"}
      /\ parts.ops \/ parts.fused => Backends \cap {"full", "graph"} # {}
      /\ parts.linear = "WebGpu" => "webgpu" \in Backends /\ ~parts.fused
      /\ Backends \subseteq {"webgpu"} => parts.linear = "WebGpu"
      /\ Backends \subseteq {"graph"} => parts.fused
  <2>1. PICK b \in Backends :
          parts \in CASE b = "cpu" -> {Parts("Cpu", FALSE, FALSE, FALSE)}
                     [] b = "linear" -> EnableMetalLinear
                     [] b = "full" -> EnableMetalFull
                     [] b = "graph" -> {made \in EnableMetalFull : made.fused}
                     [] b = "webgpu" -> {Parts("WebGpu", FALSE, FALSE, FALSE)}
    BY DEF EnabledParts
  <2>2. b \in {"cpu", "linear", "full", "graph", "webgpu"}
    BY DEF LlamaAssumption
  <2>3. CASE b = "cpu"
    <3>1. parts = Parts("Cpu", FALSE, FALSE, FALSE)
      BY <2>1, <2>3
    <3> QED
      BY <2>3, <3>1 DEF Parts
  <2>4. CASE b = "linear"
    <3>1. \E c \in {"Metal", "Cpu"} : parts = Parts(c, FALSE, FALSE, FALSE)
      BY <2>1, <2>4 DEF EnableMetalLinear
    <3> QED
      BY <2>4, <3>1 DEF Parts
  <2>5. parts \in EnableMetalFull => parts.linear \in {"Metal", "Cpu"}
    BY DEF EnableMetalFull, Parts
  <2>6. CASE b = "full"
    <3>1. parts \in EnableMetalFull
      BY <2>1, <2>6
    <3> QED
      BY <2>5, <2>6, <3>1
  <2>7. CASE b = "graph"
    <3>1. parts \in EnableMetalFull /\ parts.fused
      BY <2>1, <2>7
    <3> QED
      BY <2>5, <2>7, <3>1
  <2>8. CASE b = "webgpu"
    <3>1. parts = Parts("WebGpu", FALSE, FALSE, FALSE)
      BY <2>1, <2>8
    <3> QED
      BY <2>8, <3>1 DEF Parts
  <2> QED
    BY <2>2, <2>3, <2>4, <2>6, <2>7, <2>8
<1>4. ConfOK
  BY <1>2, <1>3 DEF ConfOK
<1>5. Here = 0 /\ MaxSeq \in Nat
  BY <1>1, Sizes DEF Here
<1>6. CallOK /\ Counted /\ CacheShape(cache) /\ BufShape /\ Finished /\ InLoop /\ Answered
  BY <1>1, <1>5 DEF CallOK, Counted, CacheShape, BufShape, Blank, Finished, InLoop, Answered
<1> QED
  BY <1>4, <1>6 DEF LInv

(* One step of any operation.                                              *)
LEMMA LInvNext ==
  ASSUME LlamaAssumption, ExactFormats, OneTokenLoops, LInv, [Next]_vars
  PROVE  LInv'
<1>1. CASE \E kind \in {"step", "fused"}, logits \in BOOLEAN, n \in 1..MaxSeq :
             n <= (IF kind = "step" THEN 1 ELSE MaxFused) /\ Begin(kind, n, logits)
  <2>1. PICK kind \in {"step", "fused"}, logits \in BOOLEAN, n \in 1..MaxSeq :
          n <= (IF kind = "step" THEN 1 ELSE MaxFused) /\ Begin(kind, n, logits)
    BY <1>1
  <2> QED
    BY <2>1, BeginInv
<1>2. CASE \E n \in 1..MaxSeq : Begin("prefill", n, FALSE)
  BY <1>2, BeginInv
<1>3. CASE UNCHANGED vars
  BY <1>3 DEF vars, LInv, ConfOK, CallOK, CallRecord, Layer, Position, Counted, Here, Pos,
              CacheShape, BufShape, Finished, InLoop, Answered, Style
<1>4. CASE FusedOnGraph
  BY <1>4, FusedOnGraphInv
<1>5. CASE FusedOnWebGpu
  BY <1>5, FusedOnWebGpuInv
<1>6. CASE FusedPerToken
  BY <1>6, FusedPerTokenInv
<1>7. CASE EnterGraph
  BY <1>7, EnterGraphInv
<1>8. CASE EnterLoop
  BY <1>8, EnterLoopInv
<1>9. CASE AttnNorm
  BY <1>9, AttnNormInv
<1>10. CASE Qkv
  BY <1>10, QkvInv
<1>11. CASE RopeQK
  BY <1>11, RopeInv
<1>12. CASE WriteToken
  BY <1>12, WriteTokenInv
<1>13. CASE Attention
  BY <1>13, AttentionInv
<1>14. CASE OProj
  BY <1>14, OProjInv
<1>15. CASE FfnMetal
  BY <1>15, FfnMetalInv
<1>16. CASE Ffn
  BY <1>16, FfnInv
<1>17. CASE Finish
  BY <1>17, FinishInv
<1> QED
  BY <1>1, <1>2, <1>3, <1>4, <1>5, <1>6, <1>7, <1>8, <1>9, <1>10, <1>11, <1>12, <1>13, <1>14,
     <1>15, <1>16, <1>17 DEF Next

(* The invariant holds of every behaviour.                                 *)
LEMMA LInvAlways ==
  ASSUME LlamaAssumption, ExactFormats, OneTokenLoops
  PROVE  Spec => []LInv
<1>1. Init => LInv
  BY LInvInit
<1>2. LInv /\ [Next]_vars => LInv'
  BY LInvNext
<1> QED
  BY <1>1, <1>2, PTL DEF Spec

(* Whichever path wrote it, and however often a call failed and was        *)
(* repeated, the cache of an answered position is the model's.             *)
THEOREM CacheExact ==
  ASSUME LlamaAssumption, ExactFormats, OneTokenLoops
  PROVE  Spec => []CacheIsTheModels
<1>1. LInv => CacheIsTheModels
  <2> SUFFICES ASSUME LInv PROVE CacheIsTheModels
    OBVIOUS
  <2>1. \A l \in Layer, p \in 0..(next_pos - 1) : Right(cache, Style, l, p)
    <3>1. next_pos \in Nat /\ Here \in Int /\ next_pos <= Here
      BY CallTypes DEF LInv, Counted, Here, Pos
    <3> QED
      BY <3>1 DEF LInv, Finished
  <2> QED
    BY <2>1, SameModel DEF CacheIsTheModels, Right
<1> QED
  BY <1>1, LInvAlways, PTL

(* The logits of an answer are the model's, for its last position.         *)
THEOREM AnswerExact ==
  ASSUME LlamaAssumption, ExactFormats, OneTokenLoops
  PROVE  Spec => []AnswerIsTheModels
<1>1. LInv => AnswerIsTheModels
  BY SameModel DEF LInv, Answered, AnswerIsTheModels, Logits, Said
<1> QED
  BY <1>1, LInvAlways, PTL
=============================================================================
