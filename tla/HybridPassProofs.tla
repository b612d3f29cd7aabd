-------------------------- MODULE HybridPassProofs --------------------------
(***************************************************************************)
(* The passes of the two runners whose models mix attention with layers of *)
(* another history are the model's: QwenRunner (QwenPass), whose linear    *)
(* attention keeps one recurrent state per session and layer, and          *)
(* LfmRunner (LfmPass), whose convolutions keep a window of the last       *)
(* products.  For every number of layers, sessions and positions, every    *)
(* arrangement of the layers and every width of the window; on the graph   *)
(* and by the loop, token by token or prefilled, and with kernels that     *)
(* fail.  LfmRunner keeps its decoded weights besides (LruWeights): none   *)
(* that a layer has made sure of is evicted before it is unwrapped.        *)
(* LfmPass and LruWeights are instances: the three specifications are      *)
(* about states of their own.                                              *)
(***************************************************************************)
EXTENDS QwenPass, Induction

CONSTANTS
  ConvLayers,      \* LfmRunner: the layers that convolve
  KernelSize       \* LfmRunner: the width of their windows

VARIABLE
  conv_states      \* LfmRunner: the windows

Lfm == INSTANCE LfmPass

CONSTANTS
  Mixer,           \* LruWeights: per layer, the matrices before its feed-forward block
  MaxCacheEntries, MaxPasses, Failures

VARIABLES metal, weight_cache, lru_order, layer, at, passes, used

Lru == INSTANCE LruWeights

-----------------------------------------------------------------------------
(* QwenRunner                                                              *)

(* The graph is taken for some model.                                      *)
OnGraph == "full" \in Backends /\ \E kind \in Kinds : kind # "qwen35"

(* The graph writes a row once, for whoever comes first, and reads no       *)
(* weights in four bits: it serves one session, which is neither taken     *)
(* back nor cancelled.                                                      *)
GraphOfOne ==
  OnGraph => "i4" \notin Dtypes /\ ~Resets /\ ~Cancels /\ \A s, t \in Sessions : s = t

(* The graph takes the embedding for the head, whether there is one or not. *)
HeadIsTied == OnGraph => ~HasHead

(* The loop rotates adjacent pairs of the whole head on Metal, and on the  *)
(* CPU of the part that the model names.                                    *)
LoopRotates ==
  /\ "qwen2" \in Kinds => Backends \subseteq {"full"}
  /\ "qwen35" \in Kinds /\ "full" \in Backends => ~PartialRotary

(* A prefill of several tokens by the loop: the page table names positions *)
(* that are not written yet, and a layer that attends reads them.  Its     *)
(* output is then of no consequence only in the last layer.                 *)
LoopPrefills ==
  \/ MaxPrefill = 1
  \/ /\ Backends \cap {"cpu", "linear"} # {} => Kinds \subseteq {"qwen35"}
     /\ "qwen35" \in Kinds => \A l \in Layer : l + 1 < NumLayers => l \in LinearLayers

(* The recurrent states know no way back: no session of a model that has   *)
(* some is taken back.                                                      *)
StatesGoOn == Resets => "qwen35" \notin Kinds \/ LinearLayers = {}

-----------------------------------------------------------------------------
(* The invariant: types and shapes, without those hypotheses               *)

QwenConf ==
  /\ conf.kind \in Kinds /\ conf.dtype \in Dtypes
  /\ conf.ops \in BOOLEAN /\ conf.graph \in BOOLEAN
  /\ conf.graph => conf.ops /\ conf.kind # "qwen35"
  /\ conf.ops => "full" \in Backends /\ (conf.graph \/ conf.kind = "qwen35")
  /\ ~conf.ops => Backends \cap {"cpu", "linear"} # {}

QwenCounted ==
  /\ count \in [Sessions -> 0..MaxSeq] /\ fed \in [Sessions -> 0..MaxSeq]
  /\ \A s \in Sessions : fed[s] <= count[s]
  /\ faults \in [Sessions -> 0..MaxFaults]

QwenBases == bases \in Seq(Sessions \cup {Nobody}) /\ Len(bases) <= MaxSeq

QwenCache(c) ==
  /\ DOMAIN c = Sessions
  /\ \A s \in Sessions : DOMAIN c[s] = Layer
  /\ \A s \in Sessions, l \in Layer : DOMAIN c[s][l] = Position
QwenStates(r) == DOMAIN r = Sessions /\ \A s \in Sessions : DOMAIN r[s] = Layer

(* A call is of a session, at one of its tokens.                           *)
QwenCallShape(c) ==
  /\ c = [s |-> c.s, start |-> c.start, n |-> c.n, i |-> c.i, layer |-> c.layer, x |-> c.x,
          logits |-> c.logits]
  /\ c.s \in Sessions /\ c.n \in 1..MaxPrefill /\ c.i \in 0..(c.n - 1)
  /\ c.layer \in 0..NumLayers /\ c.logits \in BOOLEAN /\ (c.logits => c.n = 1)
(* What stands for no call is none.                                        *)
IdleIsNoQwenCall == ~ QwenCallShape(Idle)

(* Its tokens are in the page table before it begins.                      *)
QwenCall ==
  call # Idle =>
    /\ QwenCallShape(call)
    /\ call.start = fed[call.s] /\ call.start + call.n <= MaxSeq
    /\ call.start + call.n <= count[call.s]

QwenTyped ==
  QwenConf /\ QwenCounted /\ QwenBases /\ QwenCache(cache) /\ QwenStates(recurrent) /\ QwenCall

(* The types and bounds the steps below rest on.                           *)
LEMMA QwenSizes ==
  ASSUME QwenAssumption
  PROVE  /\ NumLayers \in Nat /\ MaxSeq \in Nat /\ MaxPrefill \in Nat /\ MaxFaults \in Nat
         /\ NumLayers > 0 /\ MaxSeq > 0 /\ MaxPrefill > 0
         /\ LinearLayers \subseteq Layer
         /\ {Resets, Cancels} \subseteq BOOLEAN /\ PartialRotary \in BOOLEAN /\ HasHead \in BOOLEAN
         /\ Kinds \subseteq {"qwen2", "qwen3", "qwen35"}
         /\ Dtypes \subseteq {"f16", "i8", "i4"} /\ Backends \subseteq {"cpu", "linear", "full"}
  BY DEF QwenAssumption, Layer

(* A call's numbers, and where it is.                                      *)
LEMMA QwenCallTypes ==
  ASSUME QwenAssumption, QwenTyped, call # Idle
  PROVE  /\ call.s \in Sessions /\ call.start \in Nat /\ call.n \in Nat /\ call.i \in Nat
         /\ call.n > 0 /\ call.n <= MaxPrefill
         /\ call.layer \in Nat /\ call.layer <= NumLayers /\ call.i < call.n
         /\ Pos \in Nat /\ Pos \in Position /\ call.start = fed[call.s]
         /\ Pos = call.start + call.i
         /\ call.start + call.n <= MaxSeq /\ call.start + call.n <= count[call.s]
         /\ count[call.s] \in Nat /\ Pos < count[call.s]
         /\ call.logits \in BOOLEAN /\ (call.logits => call.n = 1)
  BY QwenSizes DEF QwenTyped, QwenCall, QwenCallShape, QwenCounted, Pos, Position

(* What is put into the cache changes one entry of it.                     *)
LEMMA QwenPut ==
  ASSUME NEW s \in Sessions, NEW l \in Layer, NEW p \in Position, NEW v, NEW c, NEW d,
         QwenCache(c), d = [c EXCEPT ![s][l][p] = v]
  PROVE  /\ QwenCache(d)
         /\ d[s][l][p] = v
         /\ \A t \in Sessions, m \in Layer, q \in Position :
              (t # s \/ m # l \/ q # p) => d[t][m][q] = c[t][m][q]
  BY DEF QwenCache

(* WithState, with the state that it replaces written out.                 *)
LEMMA StateGoesOn ==
  ASSUME NEW l \in Layer, NEW h, call.s \in Sessions, QwenStates(recurrent),
         recurrent' = WithState(l, h)
  PROVE  /\ QwenStates(recurrent')
         /\ recurrent'[call.s][l] =
              NamedState(call.s, l, Pos, Absorbed(l, recurrent[call.s][l], h))
         /\ \A t \in Sessions, m \in Layer :
              (t # call.s \/ m # l) => recurrent'[t][m] = recurrent[t][m]
<1> DEFINE v == NamedState(call.s, l, Pos, Absorbed(l, recurrent[call.s][l], h))
<1>1. recurrent' = [recurrent EXCEPT ![call.s][l] = v]
  BY DEF WithState, QwenStates
<1> DEFINE s == call.s
<1> HIDE DEF v, s
<1>2. s \in Sessions /\ recurrent' = [recurrent EXCEPT ![s][l] = v]
  BY <1>1 DEF s
<1>3. /\ QwenStates(recurrent') /\ recurrent'[s][l] = v
      /\ \A t \in Sessions, m \in Layer :
           (t # s \/ m # l) => recurrent'[t][m] = recurrent[t][m]
  BY <1>2 DEF QwenStates
<1> QED
  BY <1>3 DEF v, s

(* The first state is well formed.                                         *)
LEMMA QwenTypeInit == ASSUME QwenAssumption, Init PROVE QwenTyped
<1>1. QwenConf
  <2>0. PICK kind \in Kinds, dtype \in Dtypes : \E e \in Enabled(kind) :
          conf = [kind |-> kind, dtype |-> dtype, ops |-> e.ops, graph |-> e.graph]
    BY DEF Init
  <2>1. PICK e \in Enabled(kind) :
          conf = [kind |-> kind, dtype |-> dtype, ops |-> e.ops, graph |-> e.graph]
    BY <2>0
  <2>2. CASE e = [ops |-> FALSE, graph |-> FALSE] /\ Backends \cap {"cpu", "linear"} # {}
    <3>1. conf = [kind |-> kind, dtype |-> dtype, ops |-> FALSE, graph |-> FALSE]
      BY <2>1, <2>2
    <3> QED
      BY <2>2, <3>1 DEF QwenConf
  <2>3. CASE e = [ops |-> TRUE, graph |-> kind # "qwen35"] /\ "full" \in Backends
    <3> DEFINE g == kind # "qwen35"
    <3>1. g \in BOOLEAN /\ (g => kind # "qwen35") /\ (g \/ kind = "qwen35")
      OBVIOUS
    <3>2. conf = [kind |-> kind, dtype |-> dtype, ops |-> TRUE, graph |-> g]
      BY <2>1, <2>3
    <3> HIDE DEF g
    <3> QED
      BY <2>3, <3>1, <3>2 DEF QwenConf
  <2> QED
    BY <2>1, <2>2, <2>3 DEF Enabled
<1>2. QwenCounted
  BY QwenSizes DEF Init, QwenCounted
<1>3. QwenCache(cache) /\ QwenStates(recurrent)
  BY DEF Init, QwenCache, QwenStates
<1>4. QwenBases
  BY QwenSizes DEF Init, QwenBases
<1>5. QwenCall
  BY DEF Init, QwenCall
<1> QED
  BY <1>1, <1>2, <1>3, <1>4, <1>5 DEF QwenTyped

-----------------------------------------------------------------------------
(* The graph's recursion                                                   *)

(* What the graph has after a layer of a position, and after a token.      *)
LayerRow(l, st, p, kv, rows) ==
  IF l = 0 THEN [x |-> Embed(call.s, p), kv |-> kv] ELSE GraphLayer(l - 1, st, p, rows)
TokenRow(i, st, rows) ==
  IF i = 0 THEN [x |-> Stale, kv |-> cache] ELSE GraphPosition(call.start + i - 1, st.kv, rows)
Row(of, k, st, p, kv, rows) ==
  IF of = "layer" THEN LayerRow(k, st, p, kv, rows) ELSE TokenRow(k, st, rows)
Rows(of, top, p, kv, rows, g) ==
  g = [k \in 0..top |-> Row(of, k, g[k - 1], p, kv, rows)]

LEMMA FirstRow ==
  ASSUME NEW of, NEW p, NEW kv, NEW rows, NEW a, NEW b
  PROVE  Row(of, 0, a, p, kv, rows) = Row(of, 0, b, p, kv, rows)
  BY DEF Row, LayerRow, TokenRow

(* Each recursion has a value, for every number of layers or tokens.       *)
LEMMA RowsExist ==
  ASSUME NEW of, NEW p, NEW kv, NEW rows, NEW top \in Nat
  PROVE  \E g : Rows(of, top, p, kv, rows, g)
<1> DEFINE S == {m \in 0..top : \E g : Rows(of, m, p, kv, rows, g)}
<1>1. 0 \in S
  <2> DEFINE g == [k \in 0..0 |-> Row(of, 0, Idle, p, kv, rows)]
  <2>1. Row(of, 0, Idle, p, kv, rows) = Row(of, 0, g[-1], p, kv, rows)
    BY FirstRow
  <2>2. g = [k \in 0..0 |-> Row(of, k, g[k - 1], p, kv, rows)]
    BY <2>1
  <2>3. Rows(of, 0, p, kv, rows, g)
    BY <2>2 DEF Rows
  <2> QED
    BY <2>3
<1>2. ASSUME NEW m \in 0..(top - 1), m \in S
      PROVE  m + 1 \in S
  <2>1. PICK g : Rows(of, m, p, kv, rows, g)
    BY <1>2
  <2> DEFINE new == [k \in 0..(m + 1) |->
                       IF k <= m THEN g[k] ELSE Row(of, k, g[k - 1], p, kv, rows)]
  <2>2. \A k \in 0..m : g[k] = Row(of, k, g[k - 1], p, kv, rows)
    BY <2>1 DEF Rows
  <2>3. \A k \in 0..(m + 1) : new[k] = Row(of, k, g[k - 1], p, kv, rows)
    BY <2>2
  <2>4. \A k \in 0..(m + 1) : k # 0 => new[k - 1] = g[k - 1]
    OBVIOUS
  <2>5. Row(of, 0, g[0 - 1], p, kv, rows) = Row(of, 0, new[0 - 1], p, kv, rows)
    BY FirstRow
  <2>6. new = [k \in 0..(m + 1) |-> new[k]]
    OBVIOUS
  <2> HIDE DEF new
  <2>7. \A k \in 0..(m + 1) : new[k] = Row(of, k, new[k - 1], p, kv, rows)
    BY <2>3, <2>4, <2>5
  <2>8. Rows(of, m + 1, p, kv, rows, new)
    BY <2>6, <2>7 DEF Rows
  <2> QED
    BY <2>8
<1>3. 0..top \subseteq S
  <2> HIDE DEF S
  <2> QED
    BY <1>1, <1>2, Climb
<1> QED
  BY <1>3

(* A position, layer by layer.                                              *)
LEMMA PositionUnfolds ==
  ASSUME NumLayers \in Nat, NEW p, NEW kv, NEW rows
  PROVE  \E run : /\ GraphPosition(p, kv, rows) = run[NumLayers]
                  /\ run[0] = [x |-> Embed(call.s, p), kv |-> kv]
                  /\ \A l \in 0..(NumLayers - 1) : run[l + 1] = GraphLayer(l, run[l], p, rows)
<1> DEFINE Run == CHOOSE g : g = [l \in 0..NumLayers |->
                     IF l = 0 THEN [x |-> Embed(call.s, p), kv |-> kv]
                     ELSE GraphLayer(l - 1, g[l - 1], p, rows)]
<1>1. GraphPosition(p, kv, rows) = Run[NumLayers]
  BY DEF GraphPosition
<1>2. \E g : g = [l \in 0..NumLayers |->
                    IF l = 0 THEN [x |-> Embed(call.s, p), kv |-> kv]
                    ELSE GraphLayer(l - 1, g[l - 1], p, rows)]
  <2>1. PICK g : Rows("layer", NumLayers, p, kv, rows, g)
    BY RowsExist
  <2>2. \A l, st : Row("layer", l, st, p, kv, rows) =
                     IF l = 0 THEN [x |-> Embed(call.s, p), kv |-> kv]
                     ELSE GraphLayer(l - 1, st, p, rows)
    BY DEF Row, LayerRow
  <2>3. g = [l \in 0..NumLayers |-> Row("layer", l, g[l - 1], p, kv, rows)]
    BY <2>1 DEF Rows
  <2>4. g = [l \in 0..NumLayers |->
               IF l = 0 THEN [x |-> Embed(call.s, p), kv |-> kv]
               ELSE GraphLayer(l - 1, g[l - 1], p, rows)]
    BY <2>2, <2>3
  <2> QED
    BY <2>4
<1>3. Run = [l \in 0..NumLayers |->
               IF l = 0 THEN [x |-> Embed(call.s, p), kv |-> kv]
               ELSE GraphLayer(l - 1, Run[l - 1], p, rows)]
  BY <1>2
<1> HIDE DEF Run
<1>4. Run[0] = [x |-> Embed(call.s, p), kv |-> kv]
  BY <1>3
<1>5. \A l \in 0..(NumLayers - 1) : Run[l + 1] = GraphLayer(l, Run[l], p, rows)
  BY <1>3
<1> QED
  BY <1>1, <1>4, <1>5

(* The tokens of a call, one by one.                                        *)
LEMMA TokensUnfold ==
  ASSUME call.n \in Nat, NEW rows
  PROVE  \E run : /\ GraphTokens(rows) = run[call.n]
                  /\ run[0] = [x |-> Stale, kv |-> cache]
                  /\ \A i \in 0..(call.n - 1) :
                       run[i + 1] = GraphPosition(call.start + (i + 1) - 1, run[i].kv, rows)
<1> DEFINE Run == CHOOSE g : g = [i \in 0..call.n |->
                     IF i = 0 THEN [x |-> Stale, kv |-> cache]
                     ELSE GraphPosition(call.start + i - 1, g[i - 1].kv, rows)]
<1>1. GraphTokens(rows) = Run[call.n]
  BY DEF GraphTokens
<1>2. \E g : g = [i \in 0..call.n |->
                    IF i = 0 THEN [x |-> Stale, kv |-> cache]
                    ELSE GraphPosition(call.start + i - 1, g[i - 1].kv, rows)]
  <2>1. PICK g : Rows("token", call.n, 0, 0, rows, g)
    BY RowsExist
  <2>2. \A i, st : Row("token", i, st, 0, 0, rows) =
                     IF i = 0 THEN [x |-> Stale, kv |-> cache]
                     ELSE GraphPosition(call.start + i - 1, st.kv, rows)
    BY DEF Row, TokenRow
  <2>3. g = [i \in 0..call.n |-> Row("token", i, g[i - 1], 0, 0, rows)]
    BY <2>1 DEF Rows
  <2>4. g = [i \in 0..call.n |->
               IF i = 0 THEN [x |-> Stale, kv |-> cache]
               ELSE GraphPosition(call.start + i - 1, g[i - 1].kv, rows)]
    BY <2>2, <2>3
  <2> QED
    BY <2>4
<1>3. Run = [i \in 0..call.n |->
               IF i = 0 THEN [x |-> Stale, kv |-> cache]
               ELSE GraphPosition(call.start + i - 1, Run[i - 1].kv, rows)]
  BY <1>2
<1> HIDE DEF Run
<1>4. Run[0] = [x |-> Stale, kv |-> cache]
  BY <1>3
<1>5. \A i \in 0..(call.n - 1) :
        Run[i + 1] = GraphPosition(call.start + (i + 1) - 1, Run[i].kv, rows)
  BY <1>3
<1> QED
  BY <1>1, <1>4, <1>5

-----------------------------------------------------------------------------
(* The graph's layers                                                      *)

(* The rows of the first positions name the session of the call.           *)
RowsOf(rows, top) == \A t \in 1..top : rows[t] = call.s

(* The K/V of the session of the call, below layer top of position p.      *)
HeldBelow(kv, top, p) ==
  \A l \in Layer, q \in Position :
     q < p \/ (q = p /\ l < top) => kv[call.s][l][q] = KvName(call.s, l, q)

(* A layer of the graph writes one entry, whatever it computes.            *)
LEMMA GraphLayerShape ==
  ASSUME call.s \in Sessions, NEW l \in Layer, NEW p \in Position, NEW st, NEW rows,
         QwenCache(st.kv)
  PROVE  QwenCache(GraphLayer(l, st, p, rows).kv)
<1> DEFINE h == Norm(W("in_norm", l), st.x)
           style == IF HeadNorms THEN <<"adjacent", "head">> ELSE <<"half", Rotary>>
           v == NamedKv(call.s, l, p, KeyValue(style, l, p, h, GraphRead))
           s == call.s
           c == st.kv
           d == GraphLayer(l, st, p, rows).kv
<1>1. d = [c EXCEPT ![s][l][p] = v]
  BY DEF GraphLayer
<1>2. s \in Sessions /\ QwenCache(c)
  OBVIOUS
<1> HIDE DEF v, s, c, d
<1>3. QwenCache(d)
  BY <1>1, <1>2 DEF QwenCache
<1> QED
  BY <1>3 DEF d

(* Where the weights are read as they were written and the rows are of the *)
(* session, a layer of the graph is the model's.                            *)
LEMMA GraphLayerExact ==
  ASSUME QwenAssumption, QwenConf, conf.graph, GraphRead = "exact", call.s \in Sessions,
         NEW l \in Layer, NEW p \in Position, NEW st, NEW rows,
         QwenCache(st.kv), st.x = HiddenName(call.s, l, p), HeldBelow(st.kv, l, p),
         RowsOf(rows, p + 1)
  PROVE  /\ GraphLayer(l, st, p, rows).x = HiddenName(call.s, l + 1, p)
         /\ HeldBelow(GraphLayer(l, st, p, rows).kv, l + 1, p)
<1> DEFINE h == Norm(W("in_norm", l), st.x)
           style == IF HeadNorms THEN <<"adjacent", "head">> ELSE <<"half", Rotary>>
           v == NamedKv(call.s, l, p, KeyValue(style, l, p, h, GraphRead))
           s == call.s
           c == st.kv
           d == [c EXCEPT ![s][l][p] = v]
           kvs == [t \in 0..p |-> Entry(d, rows[t + 1], l, t)]
           x1 == Plus(st.x, MatVec(Weight("o", l, GraphRead),
                                   Attend(Query(style, l, p, h, GraphRead), kvs)))
<1>1. /\ GraphLayer(l, st, p, rows).kv = d
      /\ GraphLayer(l, st, p, rows).x = NamedX(s, l, p, Mlp(l, x1, GraphRead))
  BY DEF GraphLayer
<1>2. conf.kind # "qwen35"
  BY DEF QwenConf
<1>3. style = RopeStyle
  BY <1>2 DEF RopeStyle, Rotary
<1>4. h = Norm(W("in_norm", l), HiddenName(s, l, p))
  OBVIOUS
<1>5. v = KvName(s, l, p)
  <2> HIDE DEF h, style
  <2>1. KeyValue(style, l, p, h, GraphRead) =
          KeyValue(RopeStyle, l, p, Norm(W("in_norm", l), HiddenName(s, l, p)), "exact")
    BY <1>3, <1>4
  <2> QED
    BY <2>1 DEF NamedKv, Abbreviate
<1>6. l \in Nat /\ p \in Nat
  BY DEF Layer, Position
<1>7. \A q \in 0..p : q \in Position
  BY QwenSizes DEF Position
<1>8. s \in Sessions /\ QwenCache(c) /\ HeldBelow(c, l, p)
  OBVIOUS
<1> HIDE DEF h, style, v, c
<1>9. /\ d[s][l][p] = v
      /\ \A t \in Sessions, m \in Layer, q \in Position :
           (t # s \/ m # l \/ q # p) => d[t][m][q] = c[t][m][q]
  BY <1>8 DEF QwenCache
<1> HIDE DEF d
<1>10. HeldBelow(d, l + 1, p)
  <2> SUFFICES ASSUME NEW m \in Layer, NEW q \in Position, q < p \/ (q = p /\ m < l + 1)
               PROVE  d[s][m][q] = KvName(s, m, q)
    BY DEF HeldBelow
  <2>1. m \in Nat /\ q \in Nat
    BY DEF Layer, Position
  <2>2. CASE m = l /\ q = p
    BY <1>5, <1>9, <2>2
  <2>3. CASE ~ (m = l /\ q = p)
    <3>1. d[s][m][q] = c[s][m][q]
      BY <1>8, <1>9, <2>3
    <3>2. q < p \/ (q = p /\ m < l)
      BY <1>6, <2>1, <2>3
    <3> QED
      BY <1>8, <3>1, <3>2 DEF HeldBelow
  <2> QED
    BY <2>2, <2>3
<1>11. kvs = [t \in 0..p |-> KvName(s, l, t)]
  <2> SUFFICES ASSUME NEW t \in 0..p PROVE Entry(d, rows[t + 1], l, t) = KvName(s, l, t)
    OBVIOUS
  <2>1. rows[t + 1] = s
    BY <1>6 DEF RowsOf
  <2>2. d[s][l][t] = KvName(s, l, t)
    BY <1>6, <1>7, <1>10 DEF HeldBelow
  <2> QED
    BY <1>8, <2>1, <2>2 DEF Entry
<1> HIDE DEF kvs
<1>12. Decoder(s, l, p) = Mlp(l, x1, GraphRead)
  <2>1. ~ IsLinear(l) /\ ~ Gate
    BY <1>2 DEF IsLinear, Gate
  <2>2. Query(style, l, p, h, GraphRead) =
          Query(RopeStyle, l, p, Norm(W("in_norm", l), HiddenName(s, l, p)), "exact")
    BY <1>3, <1>4
  <2>3. x1 = Plus(HiddenName(s, l, p), MatVec(W("o", l),
              Attend(Query(RopeStyle, l, p, Norm(W("in_norm", l), HiddenName(s, l, p)), "exact"),
                     [t \in 0..p |-> KvName(s, l, t)])))
    BY <1>11, <2>2 DEF W
  <2> HIDE DEF x1
  <2> QED
    BY <2>1, <2>3 DEF Decoder, OutputGate
<1> QED
  BY <1>1, <1>10, <1>12 DEF NamedX, Abbreviate

(* The layers of a position.                                               *)
LEMMA GraphPositionExact ==
  ASSUME QwenAssumption, QwenConf, call.s \in Sessions, NEW p \in Position, NEW kv, NEW rows,
         QwenCache(kv)
  PROVE  /\ QwenCache(GraphPosition(p, kv, rows).kv)
         /\ conf.graph /\ GraphRead = "exact" /\ HeldBelow(kv, 0, p) /\ RowsOf(rows, p + 1) =>
              /\ GraphPosition(p, kv, rows).x = HiddenName(call.s, NumLayers, p)
              /\ HeldBelow(GraphPosition(p, kv, rows).kv, NumLayers, p)
<1> DEFINE Good == /\ conf.graph /\ GraphRead = "exact" /\ HeldBelow(kv, 0, p)
                   /\ RowsOf(rows, p + 1)
<1>1. NumLayers \in Nat
  BY QwenSizes
<1>2. PICK run : /\ GraphPosition(p, kv, rows) = run[NumLayers]
                 /\ run[0] = [x |-> Embed(call.s, p), kv |-> kv]
                 /\ \A l \in 0..(NumLayers - 1) : run[l + 1] = GraphLayer(l, run[l], p, rows)
  BY <1>1, PositionUnfolds
<1> DEFINE S == {l \in 0..NumLayers :
                   /\ QwenCache(run[l].kv)
                   /\ Good => /\ run[l].x = HiddenName(call.s, l, p)
                              /\ HeldBelow(run[l].kv, l, p)}
<1>3. 0 \in S
  BY <1>1, <1>2 DEF Embed
<1>4. \A l \in 0..(NumLayers - 1) : l \in S => l + 1 \in S
  <2> SUFFICES ASSUME NEW l \in 0..(NumLayers - 1), l \in S
               PROVE  l + 1 \in S
    OBVIOUS
  <2>1. l \in Layer /\ l + 1 \in 0..NumLayers
    BY <1>1 DEF Layer
  <2>2. run[l + 1] = GraphLayer(l, run[l], p, rows)
    BY <1>2
  <2>3. QwenCache(run[l].kv)
    OBVIOUS
  <2>4. QwenCache(run[l + 1].kv)
    BY <2>1, <2>2, <2>3, GraphLayerShape
  <2>5. ASSUME Good
        PROVE  /\ run[l + 1].x = HiddenName(call.s, l + 1, p)
               /\ HeldBelow(run[l + 1].kv, l + 1, p)
    <3>1. run[l].x = HiddenName(call.s, l, p) /\ HeldBelow(run[l].kv, l, p)
      BY <2>5
    <3> QED
      BY <2>1, <2>2, <2>3, <2>5, <3>1, GraphLayerExact
  <2> QED
    BY <2>1, <2>4, <2>5
<1>5. NumLayers \in S
  <2> HIDE DEF S
  <2>1. 0..NumLayers \subseteq S
    BY <1>1, <1>3, <1>4, Climb
  <2> QED
    BY <1>1, <2>1
<1> QED
  BY <1>2, <1>5

(* The tokens of a call: shapes whatever the rows, the model's where the   *)
(* rows are of the session.                                                 *)
LEMMA GraphTokensExact ==
  ASSUME QwenAssumption, QwenTyped, call # Idle, NEW rows
  PROVE  /\ QwenCache(GraphTokens(rows).kv)
         /\ conf.graph /\ GraphRead = "exact" /\ HeldBelow(cache, 0, call.start)
              /\ RowsOf(rows, call.start + call.n) =>
              /\ GraphTokens(rows).x = HiddenName(call.s, NumLayers, call.start + call.n - 1)
              /\ HeldBelow(GraphTokens(rows).kv, 0, call.start + call.n)
<1> DEFINE Good == /\ conf.graph /\ GraphRead = "exact" /\ HeldBelow(cache, 0, call.start)
                   /\ RowsOf(rows, call.start + call.n)
<1>1. /\ call.s \in Sessions /\ call.start \in Nat /\ call.n \in Nat /\ call.n > 0
      /\ call.start + call.n <= MaxSeq /\ MaxSeq \in Nat /\ NumLayers \in Nat
  BY QwenCallTypes, QwenSizes
<1>2. PICK run : /\ GraphTokens(rows) = run[call.n]
                 /\ run[0] = [x |-> Stale, kv |-> cache]
                 /\ \A i \in 0..(call.n - 1) :
                      run[i + 1] = GraphPosition(call.start + (i + 1) - 1, run[i].kv, rows)
  BY <1>1, TokensUnfold
<1> DEFINE n == call.n
           S == {i \in 0..n :
                   /\ QwenCache(run[i].kv)
                   /\ Good =>
                        /\ i > 0 =>
                             run[i].x = HiddenName(call.s, NumLayers, call.start + i - 1)
                        /\ HeldBelow(run[i].kv, 0, call.start + i)}
<1>3. 0 \in S
  <2>1. QwenCache(cache) /\ call.start + 0 = call.start
    BY <1>1 DEF QwenTyped
  <2> QED
    BY <1>1, <1>2, <2>1
<1>4. \A i \in 0..(n - 1) : i \in S => i + 1 \in S
  <2> SUFFICES ASSUME NEW i \in 0..(n - 1), i \in S
               PROVE  i + 1 \in S
    OBVIOUS
  <2> DEFINE p == call.start + i
  <2>1. /\ i + 1 \in 0..n /\ p \in Position /\ p \in Nat /\ call.start + (i + 1) - 1 = p
        /\ call.start + (i + 1) = p + 1 /\ p + 1 <= call.start + call.n
    BY <1>1 DEF Position
  <2>2. run[i + 1] = GraphPosition(p, run[i].kv, rows)
    BY <1>2, <2>1
  <2>3. QwenCache(run[i].kv) /\ QwenConf
    BY DEF QwenTyped
  <2> HIDE DEF p
  <2>4. QwenCache(run[i + 1].kv)
    BY <1>1, <2>1, <2>2, <2>3, GraphPositionExact
  <2>5. ASSUME Good
        PROVE  /\ run[i + 1].x = HiddenName(call.s, NumLayers, p)
               /\ HeldBelow(run[i + 1].kv, 0, p + 1)
    <3>1. HeldBelow(run[i].kv, 0, p)
      BY <2>5 DEF p
    <3>2. RowsOf(rows, p + 1)
      BY <1>1, <2>1, <2>5 DEF RowsOf
    <3>3. /\ run[i + 1].x = HiddenName(call.s, NumLayers, p)
          /\ HeldBelow(run[i + 1].kv, NumLayers, p)
      BY <1>1, <2>1, <2>2, <2>3, <2>5, <3>1, <3>2, GraphPositionExact
    <3>4. HeldBelow(run[i + 1].kv, 0, p + 1)
      <4> SUFFICES ASSUME NEW l \in Layer, NEW q \in Position, q < p + 1 \/ (q = p + 1 /\ l < 0)
                   PROVE  run[i + 1].kv[call.s][l][q] = KvName(call.s, l, q)
        BY DEF HeldBelow
      <4>1. q < p \/ (q = p /\ l < NumLayers)
        BY <1>1, <2>1 DEF Layer, Position
      <4> QED
        BY <3>3, <4>1 DEF HeldBelow
    <3> QED
      BY <3>3, <3>4
  <2> QED
    BY <2>1, <2>4, <2>5
<1>5. n \in S
  <2> HIDE DEF S
  <2>1. 0..n \subseteq S
    BY <1>1, <1>3, <1>4, Climb
  <2> QED
    BY <1>1, <2>1
<1> QED
  BY <1>1, <1>2, <1>5

(* Slots that are given back leave the buffer as long as it was.           *)
LEMMA GiveBackShape ==
  ASSUME QwenBases, NEW s \in Sessions, NEW keep, GiveBack(s, keep)
  PROVE  QwenBases'
<1> DEFINE Given == {t \in DOMAIN bases : t > keep /\ bases[t] = s}
<1>1. PICK owner \in [Given -> Sessions \cup {Nobody}] :
         bases' = [t \in DOMAIN bases |-> IF t \in DOMAIN owner THEN owner[t] ELSE bases[t]]
  BY DEF GiveBack
<1>2. Len(bases) \in Nat /\ DOMAIN bases = 1..Len(bases)
  BY DEF QwenBases
<1>3. \A t \in 1..Len(bases) :
        (IF t \in DOMAIN owner THEN owner[t] ELSE bases[t]) \in Sessions \cup {Nobody}
  BY <1>1, <1>2 DEF QwenBases
<1>4. bases' \in Seq(Sessions \cup {Nobody}) /\ Len(bases') = Len(bases)
  BY <1>1, <1>2, <1>3
<1> QED
  BY <1>4 DEF QwenBases

(* Every step keeps the shapes.                                            *)
LEMMA QwenTypeStep == ASSUME QwenAssumption, QwenTyped, [Next]_vars PROVE QwenTyped'
<1> USE QwenSizes
<1>1. ASSUME NEW s \in Sessions, NEW n \in 1..MaxPrefill, NEW logits \in BOOLEAN,
             Begin(s, n, logits)
      PROVE  QwenTyped'
  <2>1. /\ fed[s] + n <= MaxSeq /\ (logits => n = 1)
        /\ count' = Appended(s, fed[s] + n)
        /\ call' = [s |-> s, start |-> fed[s], n |-> n, i |-> 0, layer |-> 0,
                    x |-> Embed(s, fed[s]), logits |-> logits]
        /\ UNCHANGED <<conf, bases, cache, recurrent, fed, faults>>
    BY <1>1 DEF Begin
  <2>2. fed[s] \in Nat /\ count[s] \in Nat /\ fed[s] <= count[s]
    BY DEF QwenTyped, QwenCounted
  <2>3. /\ count' \in [Sessions -> 0..MaxSeq] /\ count'[s] >= fed[s] + n
        /\ \A t \in Sessions : count[t] <= count'[t]
    BY <2>1, <2>2 DEF QwenTyped, QwenCounted, Appended
  <2>4. QwenCounted'
    BY <2>1, <2>3 DEF QwenTyped, QwenCounted
  <2>5. QwenCallShape(call')
    BY <2>1, <2>2 DEF QwenCallShape
  <2>6. QwenCall'
    BY <2>1, <2>3, <2>5 DEF QwenCall
  <2> QED
    BY <2>1, <2>4, <2>6 DEF QwenTyped, QwenConf, QwenBases, QwenCache, QwenStates, Layer, Position
<1>2. ASSUME NEW s \in Sessions, NEW keep \in 0..(MaxSeq - 1), Rewind(s, keep)
      PROVE  QwenTyped'
  <2>1. QwenCounted'
    BY <1>2 DEF Rewind, QwenTyped, QwenCounted
  <2>2. QwenCall'
    BY <1>2 DEF Rewind, QwenCall
  <2>3. QwenBases'
    BY <1>2, GiveBackShape DEF Rewind, QwenTyped
  <2> QED
    BY <1>2, <2>1, <2>2, <2>3
       DEF Rewind, QwenTyped, QwenConf, QwenCache, QwenStates, Layer, Position
<1>3. ASSUME NEW s \in Sessions, CancelSession(s) PROVE QwenTyped'
  <2>1. QwenCounted'
    BY <1>3 DEF CancelSession, QwenTyped, QwenCounted
  <2>2. QwenCall'
    BY <1>3 DEF CancelSession, QwenCall
  <2>3. QwenCache(cache') /\ QwenStates(recurrent')
    BY <1>3 DEF CancelSession, QwenTyped, QwenCache, QwenStates
  <2>4. QwenBases'
    BY <1>3, GiveBackShape DEF CancelSession, QwenTyped
  <2> QED
    BY <1>3, <2>1, <2>2, <2>3, <2>4
       DEF CancelSession, QwenTyped, QwenConf, QwenCache, QwenStates, Layer, Position
<1>4. ASSUME call # Idle, call' = Idle, fed' = [fed EXCEPT ![call.s] = call.start + call.n],
             UNCHANGED <<count, faults>>
      PROVE  QwenCounted' /\ QwenCall'
  <2>1. QwenCounted'
    BY <1>4, QwenCallTypes DEF QwenTyped, QwenCounted
  <2> QED
    BY <1>4, <2>1 DEF QwenCall
<1>5. ASSUME GraphPrefill PROVE QwenTyped'
  <2>1. /\ call # Idle /\ call' = Idle /\ fed' = [fed EXCEPT ![call.s] = call.start + call.n]
        /\ cache' = GraphTokens(PrefillBases).kv
        /\ UNCHANGED <<conf, bases, count, recurrent, faults>>
    BY <1>5 DEF GraphPrefill, Return
  <2>2. QwenCache(cache')
    BY <2>1, GraphTokensExact
  <2>3. QwenCounted' /\ QwenCall'
    BY <1>4, <2>1
  <2> QED
    BY <2>1, <2>2, <2>3 DEF QwenTyped, QwenConf, QwenBases, QwenCache, QwenStates, Layer, Position
<1>6. ASSUME GraphStep PROVE QwenTyped'
  <2> DEFINE rows == IF Len(bases) >= call.start + 1 THEN bases ELSE Populated
  <2>1. /\ call # Idle /\ call' = Idle /\ fed' = [fed EXCEPT ![call.s] = call.start + call.n]
        /\ cache' = GraphTokens(rows).kv
        /\ bases' = SubSeq(rows, 1, call.start + 1)
        /\ UNCHANGED <<conf, count, recurrent, faults>>
    BY <1>6 DEF GraphStep, Return
  <2>2. QwenCache(cache')
    <3> HIDE DEF rows
    <3> QED
      BY <2>1, GraphTokensExact
  <2>3. QwenCounted' /\ QwenCall'
    BY <1>4, <2>1
  <2>4. QwenBases'
    <3>1. /\ call.s \in Sessions /\ call.start \in Nat /\ call.start + 1 <= MaxSeq
          /\ bases \in Seq(Sessions \cup {Nobody}) /\ Len(bases) \in Nat
      BY <2>1, QwenCallTypes DEF QwenTyped, QwenBases
    <3>2. rows \in Seq(Sessions \cup {Nobody}) /\ Len(rows) >= call.start + 1
      <4>1. CASE Len(bases) >= call.start + 1
        BY <3>1, <4>1
      <4>2. CASE ~ (Len(bases) >= call.start + 1)
        <5> DEFINE m == call.start + 1 - Len(bases)
                   more == [t \in 1..m |-> call.s]
        <5>1. m \in Nat /\ Len(bases) + m = call.start + 1
          BY <3>1, <4>2
        <5>2. more \in Seq(Sessions \cup {Nobody}) /\ Len(more) = m
          BY <3>1, <5>1
        <5>3. rows = bases \o more
          BY <4>2 DEF Populated
        <5> HIDE DEF more, m, rows
        <5>4. rows \in Seq(Sessions \cup {Nobody}) /\ Len(rows) = Len(bases) + m
          BY <3>1, <5>1, <5>2, <5>3
        <5> QED
          BY <3>1, <5>1, <5>4
      <4> QED
        BY <4>1, <4>2
    <3> HIDE DEF rows
    <3>3. SubSeq(rows, 1, call.start + 1) \in Seq(Sessions \cup {Nobody})
      BY <3>1, <3>2
    <3>4. Len(SubSeq(rows, 1, call.start + 1)) = call.start + 1
      BY <3>1, <3>2
    <3> QED
      BY <2>1, <3>1, <3>3, <3>4 DEF QwenBases
  <2> QED
    BY <2>1, <2>2, <2>3, <2>4 DEF QwenTyped, QwenConf, QwenCache, QwenStates, Layer, Position
<1>7. ASSUME NEW l \in Layer, NEW h, call # Idle, cache' = WithKv(l, h)
      PROVE  QwenCache(cache')
  <2> DEFINE s == call.s
             p == Pos
             v == NamedKv(call.s, l, Pos, Projections(l, h)[2])
  <2>1. s \in Sessions /\ p \in Position /\ cache' = [cache EXCEPT ![s][l][p] = v]
    BY <1>7, QwenCallTypes DEF WithKv
  <2>2. QwenCache(cache)
    BY DEF QwenTyped
  <2> HIDE DEF s, p, v
  <2> QED
    BY <1>7, <2>1, <2>2 DEF QwenCache
<1>8. ASSUME LoopLayer PROVE QwenTyped'
  <2> DEFINE l == call.layer
             h == Norm(W("in_norm", l), call.x)
  <2>1. /\ call # Idle /\ l < NumLayers
        /\ UNCHANGED <<conf, bases, count, fed, faults>>
    BY <1>8 DEF LoopLayer
  <2>2. l \in Layer /\ call.s \in Sessions
    BY <2>1, QwenCallTypes DEF Layer
  <2>3. /\ cache' = IF IsLinear(l) THEN cache ELSE WithKv(l, h)
        /\ recurrent' = IF IsLinear(l) THEN WithState(l, h) ELSE recurrent
    BY <1>8 DEF LoopLayer
  <2>4. PICK x : call' = [call EXCEPT !.layer = l + 1, !.x = x]
    BY <1>8 DEF LoopLayer
  <2>5. QwenCallShape(call)
    BY <2>1 DEF QwenTyped, QwenCall
  <2>6. /\ QwenCallShape(call') /\ call'.s = call.s /\ call'.start = call.start
        /\ call'.n = call.n
    <3>1. call' = [s |-> call.s, start |-> call.start, n |-> call.n, i |-> call.i,
                   layer |-> l + 1, x |-> x, logits |-> call.logits]
      BY <2>4, <2>5 DEF QwenCallShape
    <3>2. l + 1 \in 0..NumLayers
      BY <2>1, QwenCallTypes
    <3> QED
      BY <2>5, <3>1, <3>2 DEF QwenCallShape
  <2>7. QwenCall'
    BY <2>1, <2>6 DEF QwenTyped, QwenCall
  <2> HIDE DEF h
  <2>8. QwenCache(cache')
    <3>1. CASE IsLinear(l)
      BY <2>3, <3>1 DEF QwenTyped, QwenCache, Layer, Position
    <3>2. CASE ~ IsLinear(l)
      BY <1>7, <2>1, <2>2, <2>3, <3>2
    <3> QED
      BY <3>1, <3>2
  <2>9. QwenStates(recurrent')
    <3>1. CASE IsLinear(l)
      BY <2>2, <2>3, <3>1, StateGoesOn DEF QwenTyped
    <3>2. CASE ~ IsLinear(l)
      BY <2>3, <3>2 DEF QwenTyped, QwenStates
    <3> QED
      BY <3>1, <3>2
  <2> QED
    BY <2>1, <2>7, <2>8, <2>9 DEF QwenTyped, QwenConf, QwenCounted, QwenBases, QwenCache,
       QwenStates, Layer, Position
<1>9. ASSUME NextToken PROVE QwenTyped'
  <2>1. /\ call # Idle /\ call.i + 1 < call.n
        /\ call' = [call EXCEPT !.i = @ + 1, !.layer = 0, !.x = Embed(call.s, Pos + 1)]
        /\ UNCHANGED <<conf, bases, count, cache, recurrent, fed, faults>>
    BY <1>9 DEF NextToken
  <2>2. QwenCallShape(call)
    BY <2>1 DEF QwenTyped, QwenCall
  <2>3. /\ QwenCallShape(call') /\ call'.s = call.s /\ call'.start = call.start
        /\ call'.n = call.n
    <3>1. call' = [s |-> call.s, start |-> call.start, n |-> call.n, i |-> call.i + 1,
                   layer |-> 0, x |-> Embed(call.s, Pos + 1), logits |-> call.logits]
      BY <2>1, <2>2 DEF QwenCallShape
    <3>2. call.i + 1 \in 0..(call.n - 1) /\ 0 \in 0..NumLayers
      BY <2>1, QwenCallTypes
    <3> HIDE DEF Embed
    <3> QED
      BY <2>2, <3>1, <3>2 DEF QwenCallShape
  <2>4. QwenCall'
    BY <2>1, <2>3 DEF QwenTyped, QwenCall
  <2> QED
    BY <2>1, <2>4 DEF QwenTyped, QwenConf, QwenCounted, QwenBases, QwenCache, QwenStates,
       Layer, Position
<1>10. ASSUME Finish PROVE QwenTyped'
  <2>1. /\ call # Idle /\ call' = Idle /\ fed' = [fed EXCEPT ![call.s] = call.start + call.n]
        /\ UNCHANGED <<conf, bases, count, cache, recurrent, faults>>
    BY <1>10 DEF Finish, Return
  <2>2. QwenCounted' /\ QwenCall'
    BY <1>4, <2>1
  <2> QED
    BY <2>1, <2>2 DEF QwenTyped, QwenConf, QwenBases, QwenCache, QwenStates, Layer, Position
<1>11. ASSUME LoopFails PROVE QwenTyped'
  <2> DEFINE l == call.layer
             h == Norm(W("in_norm", l), call.x)
  <2>1. /\ call # Idle /\ l < NumLayers /\ call' = Idle
        /\ faults[call.s] < MaxFaults /\ faults' = [faults EXCEPT ![call.s] = @ + 1]
        /\ UNCHANGED <<conf, bases, count, fed>>
        /\ \/ UNCHANGED <<cache, recurrent>>
           \/ ~ IsLinear(l) /\ cache' = WithKv(l, h) /\ UNCHANGED recurrent
           \/ IsLinear(l) /\ recurrent' = WithState(l, h) /\ UNCHANGED cache
    BY <1>11 DEF LoopFails
  <2>2. l \in Layer /\ call.s \in Sessions
    BY <2>1, QwenCallTypes DEF Layer
  <2> HIDE DEF h
  <2>3. QwenCache(cache') /\ QwenStates(recurrent')
    <3>1. CASE UNCHANGED <<cache, recurrent>>
      BY <3>1 DEF QwenTyped, QwenCache, QwenStates, Layer, Position
    <3>2. CASE ~ IsLinear(l) /\ cache' = WithKv(l, h) /\ UNCHANGED recurrent
      <4>1. QwenCache(cache')
        BY <1>7, <2>1, <2>2, <3>2
      <4> QED
        BY <3>2, <4>1 DEF QwenTyped, QwenStates
    <3>3. CASE IsLinear(l) /\ recurrent' = WithState(l, h) /\ UNCHANGED cache
      <4>1. QwenStates(recurrent')
        BY <2>2, <3>3, StateGoesOn DEF QwenTyped
      <4> QED
        BY <3>3, <4>1 DEF QwenTyped, QwenCache, Layer, Position
    <3> QED
      BY <2>1, <3>1, <3>2, <3>3
  <2>4. QwenCounted'
    BY <2>1, <2>2 DEF QwenTyped, QwenCounted
  <2>5. QwenCall'
    BY <2>1 DEF QwenCall
  <2> QED
    BY <2>1, <2>3, <2>4, <2>5 DEF QwenTyped, QwenConf, QwenBases
<1>12. CASE UNCHANGED vars
  BY <1>12 DEF vars, QwenTyped, QwenConf, QwenCounted, QwenBases, QwenCache, QwenStates,
       QwenCall, QwenCallShape, Layer, Position
<1> QED
  BY <1>1, <1>2, <1>3, <1>5, <1>6, <1>8, <1>9, <1>10, <1>11, <1>12 DEF Next

(* Whatever fails, whoever is rewound or cancelled and however many        *)
(* sessions share the graph, the runner's state is well formed: the tokens *)
(* of a call are in the page table, no table is shorter than what its      *)
(* session has finished, and the graph's rows fit their buffer.             *)
THEOREM QwenTypeCorrect == ASSUME QwenAssumption PROVE Spec => []TypeOK
<1>1. Init => QwenTyped
  BY QwenTypeInit
<1>2. QwenTyped /\ [Next]_vars => QwenTyped'
  BY QwenTypeStep
<1>3. QwenTyped => TypeOK
  BY QwenSizes, QwenCallTypes DEF QwenTyped, QwenConf, QwenCounted, QwenBases, TypeOK
<1> QED
  BY <1>1, <1>2, <1>3, PTL DEF Spec

-----------------------------------------------------------------------------
(* The invariant: what is held is the model's                              *)

Healthy(s) == faults[s] = 0

(* The page table of a session without faults is exactly where the session *)
(* is, with the tokens of its call appended.                                *)
InStep ==
  \A s \in Sessions : Healthy(s) =>
    count[s] = IF call # Idle /\ s = call.s THEN call.start + call.n ELSE fed[s]

(* The layers a session has passed: all of its finished positions, and of  *)
(* the call's positions those below the layer at hand.                      *)
Beyond(s, l, p) ==
  \/ p < fed[s]
  \/ call # Idle /\ s = call.s /\ (p < Pos \/ (p = Pos /\ l < call.layer))
KvIsHeld ==
  \A s \in Sessions, l \in Layer, p \in Position :
     Healthy(s) /\ ~IsLinear(l) /\ Beyond(s, l, p) => cache[s][l][p] = KvName(s, l, p)

(* The last layer's output is of no consequence in a prefill.              *)
XIsHeld ==
  call # Idle /\ Healthy(call.s) /\ (call.layer < NumLayers \/ call.n = 1) =>
    call.x = HiddenName(call.s, call.layer, Pos)

(* The last position that a layer's state has absorbed.                    *)
Absorbs(s, l) ==
  IF call # Idle /\ s = call.s
  THEN IF l < call.layer THEN Pos ELSE Pos - 1
  ELSE fed[s] - 1
StatesAreHeld ==
  \A s \in Sessions, l \in Layer :
     Healthy(s) /\ IsLinear(l) => recurrent[s][l] = StateName(s, l, Absorbs(s, l))

AnswerHeld ==
  answer # Idle =>
    /\ call = Idle /\ answer.s \in Sessions
    /\ HeadIsTied /\ Healthy(answer.s) => answer.logits = Logits(answer.s, answer.p)

QwenHeld == InStep /\ KvIsHeld /\ XIsHeld /\ StatesAreHeld /\ AnswerHeld

(* At first nothing is held.                                               *)
LEMMA QwenHeldInit == ASSUME QwenAssumption, Init PROVE QwenHeld
<1>1. /\ call = Idle /\ answer = Idle /\ \A s \in Sessions : fed[s] = 0 /\ count[s] = 0
      /\ \A s \in Sessions, l \in Layer : recurrent[s][l] = Zero
  BY DEF Init
<1>2. InStep /\ XIsHeld /\ AnswerHeld
  BY <1>1 DEF InStep, XIsHeld, AnswerHeld
<1>3. KvIsHeld
  BY <1>1 DEF KvIsHeld, Beyond, Position
<1>4. StatesAreHeld
  BY <1>1 DEF StatesAreHeld, Absorbs, StateName
<1> QED
  BY <1>2, <1>3, <1>4 DEF QwenHeld

(* On the loop the keys and queries are rotated as the model's.            *)
LEMMA LoopStyleExact ==
  ASSUME QwenAssumption, QwenConf, ~conf.graph, LoopRotates
  PROVE  LoopStyle = RopeStyle
<1>1. CASE conf.ops
  <2>1. conf.kind = "qwen35" /\ ~PartialRotary
    BY <1>1 DEF QwenConf, LoopRotates
  <2> QED
    BY <1>1, <2>1 DEF LoopStyle, RopeStyle, HeadNorms, Rotary
<1>2. CASE ~ conf.ops
  <2>1. conf.kind # "qwen2"
    BY <1>2 DEF QwenConf, LoopRotates
  <2> QED
    BY <1>2, <2>1 DEF LoopStyle, RopeStyle, HeadNorms
<1> QED
  BY <1>1, <1>2 DEF QwenConf

(* On the loop a layer that attends reads no further than its token, or it *)
(* is the last one of a prefill.                                            *)
LEMMA LoopReads ==
  ASSUME QwenAssumption, QwenTyped, LoopPrefills, call # Idle, ~conf.graph,
         NEW l \in Layer, ~IsLinear(l)
  PROVE  call.n = 1 \/ l + 1 = NumLayers
<1>1. CASE MaxPrefill = 1
  BY <1>1, QwenCallTypes
<1>2. CASE MaxPrefill # 1
  <2>1. conf.kind = "qwen35" /\ conf.kind \in Kinds
    BY <1>2 DEF QwenTyped, QwenConf, LoopPrefills
  <2>2. l \notin LinearLayers
    BY <2>1 DEF IsLinear
  <2>3. ~ (l + 1 < NumLayers)
    BY <1>2, <2>1, <2>2 DEF LoopPrefills
  <2> QED
    BY <2>3, QwenSizes DEF Layer
<1> QED
  BY <1>1, <1>2

(* What a layer of the loop makes of the model's input and of the model's  *)
(* history is the model's.                                                  *)
LEMMA LoopLayerExact ==
  ASSUME NEW s, NEW l, NEW p, NEW out,
         out = IF IsLinear(l)
               THEN ReadOut(l, StateName(s, l, p), Norm(W("in_norm", l), HiddenName(s, l, p)))
               ELSE MatVec(W("o", l),
                      OutputGate(l, Norm(W("in_norm", l), HiddenName(s, l, p)),
                        Attend(Query(RopeStyle, l, p, Norm(W("in_norm", l), HiddenName(s, l, p)),
                                     "exact"),
                               [t \in 0..p |-> KvName(s, l, t)])))
  PROVE  NamedX(s, l, p, Ffn(l, Plus(HiddenName(s, l, p), out))) = HiddenName(s, l + 1, p)
<1>1. Decoder(s, l, p) = Mlp(l, Plus(HiddenName(s, l, p), out), "exact")
  BY DEF Decoder
<1>2. Ffn(l, Plus(HiddenName(s, l, p), out)) = Mlp(l, Plus(HiddenName(s, l, p), out), "exact")
  BY DEF Ffn, FfnBatch, Mlp, W
<1> QED
  BY <1>1, <1>2 DEF NamedX, Abbreviate

(* What a layer of the loop leaves of the K/V: one entry is written, and   *)
(* for a session without faults it is the model's.                          *)
LEMMA LoopWrites ==
  ASSUME QwenAssumption, QwenTyped, QwenHeld, LoopRotates, ~conf.graph, call # Idle,
         call.layer < NumLayers,
         cache' = WithKv(call.layer, Norm(W("in_norm", call.layer), call.x))
  PROVE  /\ Healthy(call.s) => cache'[call.s][call.layer][Pos] = KvName(call.s, call.layer, Pos)
         /\ \A t \in Sessions, m \in Layer, q \in Position :
              (t # call.s \/ m # call.layer \/ q # Pos) => cache'[t][m][q] = cache[t][m][q]
<1> DEFINE h == Norm(W("in_norm", call.layer), call.x)
           kv == KeyValue(LoopStyle, call.layer, Pos, h, "exact")
           v == NamedKv(call.s, call.layer, Pos, kv)
           s == call.s
           l == call.layer
           p == Pos
<1>1. cache' = [cache EXCEPT ![s][l][p] = v]
  BY DEF WithKv, Projections
<1>2. Healthy(s) => v = KvName(s, l, p)
  <2> SUFFICES ASSUME Healthy(s) PROVE v = KvName(s, l, p)
    OBVIOUS
  <2>1. call.x = HiddenName(s, l, p)
    BY DEF QwenHeld, XIsHeld
  <2>2. LoopStyle = RopeStyle
    BY LoopStyleExact DEF QwenTyped
  <2>3. kv = KeyValue(RopeStyle, l, p, Norm(W("in_norm", l), HiddenName(s, l, p)), "exact")
    BY <2>1, <2>2
  <2> HIDE DEF kv
  <2> QED
    BY <2>3 DEF NamedKv, Abbreviate
<1>3. s \in Sessions /\ l \in Layer /\ p \in Position /\ QwenCache(cache)
  BY QwenCallTypes, QwenSizes DEF QwenTyped, Layer
<1> HIDE DEF v, s, l, p
<1>4. /\ cache'[s][l][p] = v
      /\ \A t \in Sessions, m \in Layer, q \in Position :
           (t # s \/ m # l \/ q # p) => cache'[t][m][q] = cache[t][m][q]
  BY <1>1, <1>3 DEF QwenCache
<1>5. Healthy(s) => cache'[s][l][p] = KvName(s, l, p)
  BY <1>2, <1>4
<1> QED
  BY <1>4, <1>5 DEF s, l, p

(* A layer with linear attention absorbs the token into the model's state. *)
LEMMA LoopAbsorbs ==
  ASSUME QwenAssumption, QwenTyped, QwenHeld, call # Idle, call.layer < NumLayers,
         IsLinear(call.layer),
         recurrent' = WithState(call.layer, Norm(W("in_norm", call.layer), call.x))
  PROVE  /\ Healthy(call.s) => recurrent'[call.s][call.layer] = StateName(call.s, call.layer, Pos)
         /\ \A t \in Sessions, m \in Layer :
              (t # call.s \/ m # call.layer) => recurrent'[t][m] = recurrent[t][m]
<1> DEFINE s == call.s
           l == call.layer
           h == Norm(W("in_norm", l), call.x)
<1>1. s \in Sessions /\ l \in Layer /\ l \in Nat /\ Pos \in Nat
  BY QwenCallTypes, QwenSizes DEF Layer
<1>2. QwenStates(recurrent)
  BY DEF QwenTyped
<1>3. /\ recurrent'[s][l] = NamedState(s, l, Pos, Absorbed(l, recurrent[s][l], h))
      /\ \A t \in Sessions, m \in Layer :
           (t # s \/ m # l) => recurrent'[t][m] = recurrent[t][m]
  BY <1>1, <1>2, StateGoesOn
<1>4. ASSUME Healthy(s)
      PROVE  recurrent'[s][l] = StateName(s, l, Pos)
  <2>1. call.x = HiddenName(s, l, Pos)
    BY <1>4 DEF QwenHeld, XIsHeld
  <2>2. Absorbs(s, l) = Pos - 1
    BY <1>1 DEF Absorbs
  <2>3. recurrent[s][l] = StateName(s, l, Pos - 1)
    BY <1>1, <1>4, <2>2 DEF QwenHeld, StatesAreHeld
  <2>4. Absorbed(l, recurrent[s][l], h) =
          Absorbed(l, StateName(s, l, Pos - 1), Norm(W("in_norm", l), HiddenName(s, l, Pos)))
    BY <2>1, <2>3
  <2> HIDE DEF h
  <2> QED
    BY <1>3, <2>4 DEF NamedState, Abbreviate
<1> QED
  BY <1>3, <1>4

(* The loop passes a layer.                                                *)
LEMMA QwenLayerStep ==
  ASSUME QwenAssumption, IdleIsNoQwenCall, LoopRotates, LoopPrefills,
         QwenTyped, QwenHeld, LoopLayer
  PROVE  QwenHeld'
<1> DEFINE s == call.s
           l == call.layer
           h == Norm(W("in_norm", l), call.x)
           out == IF IsLinear(l) THEN ReadOut(l, recurrent'[s][l], h)
                  ELSE FullAttention(l, h, cache')
<1>1. /\ call # Idle /\ ~conf.graph /\ l < NumLayers
      /\ UNCHANGED <<conf, bases, count, fed, faults, answer>>
      /\ cache' = IF IsLinear(l) THEN cache ELSE WithKv(l, h)
      /\ recurrent' = IF IsLinear(l) THEN WithState(l, h) ELSE recurrent
      /\ call' = [call EXCEPT !.layer = l + 1,
                              !.x = NamedX(s, l, Pos, Ffn(l, Plus(call.x, out)))]
  BY DEF LoopLayer
<1>2. /\ s \in Sessions /\ l \in Layer /\ l \in Nat /\ Pos \in Nat /\ Pos \in Position
      /\ NumLayers \in Nat /\ MaxSeq \in Nat
  <2>1. s \in Sessions /\ l \in Nat /\ Pos \in Nat /\ Pos \in Position
    BY <1>1, QwenCallTypes
  <2> QED
    BY <1>1, <2>1, QwenSizes DEF Layer
<1>3. ~IsLinear(l) =>
        /\ Healthy(s) => cache'[s][l][Pos] = KvName(s, l, Pos)
        /\ \A t \in Sessions, m \in Layer, q \in Position :
             (t # s \/ m # l \/ q # Pos) => cache'[t][m][q] = cache[t][m][q]
  BY <1>1, LoopWrites
<1>4. IsLinear(l) =>
        /\ Healthy(s) => recurrent'[s][l] = StateName(s, l, Pos)
        /\ \A t \in Sessions, m \in Layer :
             (t # s \/ m # l) => recurrent'[t][m] = recurrent[t][m]
  BY <1>1, LoopAbsorbs
<1>5. Healthy(s) => call.x = HiddenName(s, l, Pos)
  BY <1>1 DEF QwenHeld, XIsHeld
<1>6. ASSUME Healthy(s), ~IsLinear(l), call.n = 1
      PROVE  [t \in 0..(count[s] - 1) |-> cache'[s][l][t]] = [t \in 0..Pos |-> KvName(s, l, t)]
  <2>1. count[s] - 1 = Pos
    BY <1>1, <1>2, <1>6, QwenCallTypes DEF QwenHeld, InStep
  <2> SUFFICES ASSUME NEW t \in 0..Pos
               PROVE  cache'[s][l][t] = KvName(s, l, t)
    BY <2>1
  <2>2. t \in Position
    BY <1>2 DEF Position
  <2>3. CASE t = Pos
    BY <1>3, <1>6, <2>3
  <2>4. CASE t # Pos
    <3>1. cache'[s][l][t] = cache[s][l][t]
      BY <1>2, <1>3, <1>6, <2>2, <2>4
    <3>2. Beyond(s, l, t)
      BY <1>1, <1>2, <2>4 DEF Beyond
    <3> QED
      BY <1>2, <1>6, <2>2, <3>1, <3>2 DEF QwenHeld, KvIsHeld
  <2> QED
    BY <2>3, <2>4
<1>7. ASSUME Healthy(s), l + 1 < NumLayers \/ call.n = 1
      PROVE  out = IF IsLinear(l)
               THEN ReadOut(l, StateName(s, l, Pos), Norm(W("in_norm", l), HiddenName(s, l, Pos)))
               ELSE MatVec(W("o", l),
                      OutputGate(l, Norm(W("in_norm", l), HiddenName(s, l, Pos)),
                        Attend(Query(RopeStyle, l, Pos,
                                     Norm(W("in_norm", l), HiddenName(s, l, Pos)), "exact"),
                               [t \in 0..Pos |-> KvName(s, l, t)])))
  <2>1. h = Norm(W("in_norm", l), HiddenName(s, l, Pos))
    BY <1>5, <1>7
  <2> HIDE DEF h
  <2>2. CASE IsLinear(l)
    BY <1>4, <1>7, <2>1, <2>2
  <2>3. CASE ~ IsLinear(l)
    <3>1. call.n = 1
      <4>1. call.n = 1 \/ l + 1 = NumLayers
        BY <1>1, <1>2, <2>3, LoopReads
      <4> QED
        BY <1>2, <1>7, <4>1
    <3>2. LoopStyle = RopeStyle
      BY <1>1, LoopStyleExact DEF QwenTyped
    <3>3. Projections(l, h)[1] = Query(RopeStyle, l, Pos, h, "exact")
      BY <3>2 DEF Projections
    <3>4. FullAttention(l, h, cache') =
            MatVec(W("o", l), OutputGate(l, h, Attend(Query(RopeStyle, l, Pos, h, "exact"),
                                           [t \in 0..(count[s] - 1) |-> cache'[s][l][t]])))
      BY <3>3 DEF FullAttention
    <3> QED
      BY <1>6, <1>7, <2>1, <2>3, <3>1, <3>4
  <2> QED
    BY <2>2, <2>3
<1> HIDE DEF out
<1>8. ASSUME Healthy(s), l + 1 < NumLayers \/ call.n = 1
      PROVE  NamedX(s, l, Pos, Ffn(l, Plus(call.x, out))) = HiddenName(s, l + 1, Pos)
  <2> DEFINE p == Pos
  <2> HIDE DEF s, l, p
  <2>1. out = IF IsLinear(l)
              THEN ReadOut(l, StateName(s, l, p), Norm(W("in_norm", l), HiddenName(s, l, p)))
              ELSE MatVec(W("o", l),
                     OutputGate(l, Norm(W("in_norm", l), HiddenName(s, l, p)),
                       Attend(Query(RopeStyle, l, p, Norm(W("in_norm", l), HiddenName(s, l, p)),
                                    "exact"),
                              [t \in 0..p |-> KvName(s, l, t)])))
    BY <1>7, <1>8 DEF p
  <2>2. NamedX(s, l, p, Ffn(l, Plus(HiddenName(s, l, p), out))) = HiddenName(s, l + 1, p)
    BY ONLY <2>1, LoopLayerExact
  <2> QED
    BY <1>5, <1>8, <2>2 DEF p
<1>9. /\ call' # Idle /\ call'.s = s /\ call'.start = call.start /\ call'.i = call.i
      /\ call'.n = call.n /\ call'.layer = l + 1
      /\ call'.x = NamedX(s, l, Pos, Ffn(l, Plus(call.x, out)))
  <2> DEFINE x == NamedX(s, l, Pos, Ffn(l, Plus(call.x, out)))
  <2>1. call' = [call EXCEPT !.layer = l + 1, !.x = x]
    BY <1>1
  <2>2. QwenCallShape(call)
    BY <1>1 DEF QwenTyped, QwenCall
  <2> HIDE DEF x
  <2>3. call' = [s |-> call.s, start |-> call.start, n |-> call.n, i |-> call.i,
                 layer |-> l + 1, x |-> x, logits |-> call.logits]
    BY <2>1, <2>2 DEF QwenCallShape
  <2>4. call' # Idle
    <3>1. l + 1 \in 0..NumLayers
      BY <1>1, <1>2
    <3>2. QwenCallShape(call')
      BY <2>2, <2>3, <3>1 DEF QwenCallShape
    <3> QED
      BY <3>2 DEF IdleIsNoQwenCall
  <2> QED
    BY <2>3, <2>4 DEF x
<1>10. Pos' = Pos
  BY <1>9 DEF Pos
<1>11. InStep'
  BY <1>1, <1>9 DEF QwenHeld, InStep, Healthy
<1>12. AnswerHeld'
  BY <1>1 DEF QwenHeld, AnswerHeld
<1>13. XIsHeld'
  <2> SUFFICES ASSUME Healthy(s), l + 1 < NumLayers \/ call.n = 1
               PROVE  call'.x = HiddenName(s, l + 1, Pos)
    BY <1>1, <1>9, <1>10 DEF XIsHeld, Healthy
  <2> QED
    BY <1>8, <1>9
<1>14. KvIsHeld'
  <2> SUFFICES ASSUME NEW t \in Sessions, NEW m \in Layer, NEW q \in Position,
                      Healthy(t), ~IsLinear(m), Beyond(t, m, q)'
               PROVE  cache'[t][m][q] = KvName(t, m, q)
    BY <1>1 DEF KvIsHeld, Healthy, IsLinear, Layer, Position
  <2>1. m \in Nat /\ q \in Nat
    BY DEF Layer, Position
  <2>2. CASE t = s /\ m = l /\ q = Pos
    BY <1>3, <2>2
  <2>3. CASE ~ (t = s /\ m = l /\ q = Pos)
    <3>1. Beyond(t, m, q)
      BY <1>1, <1>2, <1>9, <1>10, <2>1, <2>3 DEF Beyond
    <3>2. cache'[t][m][q] = cache[t][m][q]
      BY <1>1, <1>3, <2>3
    <3> QED
      BY <3>1, <3>2 DEF QwenHeld, KvIsHeld
  <2> QED
    BY <2>2, <2>3
<1>15. StatesAreHeld'
  <2> SUFFICES ASSUME NEW t \in Sessions, NEW m \in Layer, Healthy(t), IsLinear(m)
               PROVE  recurrent'[t][m] = StateName(t, m, Absorbs(t, m)')
    BY <1>1 DEF StatesAreHeld, Healthy, IsLinear, Layer
  <2>1. m \in Nat
    BY DEF Layer
  <2>2. CASE t = s /\ m = l
    <3>1. Absorbs(t, m)' = Pos
      BY <1>2, <1>9, <1>10, <2>2 DEF Absorbs
    <3> QED
      BY <1>4, <2>2, <3>1
  <2>3. CASE ~ (t = s /\ m = l)
    <3>1. recurrent'[t][m] = recurrent[t][m]
      BY <1>1, <1>4, <2>3
    <3>2. Absorbs(t, m)' = Absorbs(t, m)
      BY <1>1, <1>2, <1>9, <1>10, <2>1, <2>3 DEF Absorbs
    <3> QED
      BY <3>1, <3>2 DEF QwenHeld, StatesAreHeld
  <2> QED
    BY <2>2, <2>3
<1> QED
  BY <1>11, <1>12, <1>13, <1>14, <1>15 DEF QwenHeld

(* A call on the graph leaves the model's K/V, and the model's last vector. *)
LEMMA GraphCallExact ==
  ASSUME QwenAssumption, GraphOfOne, QwenTyped, QwenHeld, call # Idle, conf.graph,
         Healthy(call.s), NEW rows, RowsOf(rows, call.start + call.n)
  PROVE  /\ GraphTokens(rows).x = HiddenName(call.s, NumLayers, call.start + call.n - 1)
         /\ HeldBelow(GraphTokens(rows).kv, 0, call.start + call.n)
<1>1. conf.dtype # "i4" /\ conf.kind # "qwen35"
  BY DEF QwenTyped, QwenConf, GraphOfOne, OnGraph
<1>2. GraphRead = "exact"
  BY <1>1 DEF GraphRead
<1>3. HeldBelow(cache, 0, call.start)
  <2> SUFFICES ASSUME NEW l \in Layer, NEW q \in Position,
                      q < call.start \/ (q = call.start /\ l < 0)
               PROVE  cache[call.s][l][q] = KvName(call.s, l, q)
    BY DEF HeldBelow
  <2>1. q < fed[call.s] /\ call.s \in Sessions
    BY QwenCallTypes, QwenSizes DEF Layer
  <2>2. Beyond(call.s, l, q) /\ ~IsLinear(l)
    BY <1>1, <2>1 DEF Beyond, IsLinear
  <2> QED
    BY <2>1, <2>2 DEF QwenHeld, KvIsHeld
<1> QED
  BY <1>2, <1>3, GraphTokensExact

(* The slots that the graph's buffer names are in use.                     *)
OwnRows == conf.graph => bases \in Seq(Sessions)

(* They stay so: on the graph nothing is given back.                       *)
LEMMA OwnRowsStep ==
  ASSUME QwenAssumption, GraphOfOne, QwenTyped, OwnRows, [Next]_vars
  PROVE  OwnRows'
<1> SUFFICES ASSUME conf'.graph PROVE bases' \in Seq(Sessions)
  BY DEF OwnRows
<1>1. conf' = conf
  BY DEF Next, vars, Begin, Rewind, CancelSession, GraphPrefill, GraphStep, LoopLayer, NextToken,
         Finish, LoopFails
<1>2. conf.graph /\ bases \in Seq(Sessions) /\ ~Resets /\ ~Cancels
  BY <1>1 DEF OwnRows, GraphOfOne, OnGraph, QwenTyped, QwenConf
<1>3. CASE UNCHANGED bases
  BY <1>2, <1>3
<1>4. CASE GraphStep
  <2> DEFINE m == call.start + 1 - Len(bases)
             more == [t \in 1..m |-> call.s]
             rows == IF Len(bases) >= call.start + 1 THEN bases ELSE Populated
  <2>1. bases' = SubSeq(rows, 1, call.start + 1) /\ call # Idle
    BY <1>4 DEF GraphStep
  <2>2. call.s \in Sessions /\ call.start \in Nat /\ Len(bases) \in Nat
    BY <1>2, <2>1, QwenCallTypes
  <2>3. CASE Len(bases) >= call.start + 1
    BY <1>2, <2>1, <2>2, <2>3
  <2>4. CASE ~ (Len(bases) >= call.start + 1)
    <3>1. rows = bases \o more /\ m \in Nat /\ Len(bases) + m = call.start + 1
      BY <2>2, <2>4 DEF Populated
    <3>2. more \in Seq(Sessions) /\ Len(more) = m
      BY <2>2, <3>1
    <3> HIDE DEF more, m, rows
    <3>3. rows \in Seq(Sessions) /\ Len(rows) = Len(bases) + m
      BY <1>2, <2>2, <3>1, <3>2
    <3> QED
      BY <2>1, <2>2, <3>1, <3>3
  <2> QED
    BY <2>3, <2>4
<1> QED
  BY <1>2, <1>3, <1>4
     DEF Next, vars, Begin, Rewind, CancelSession, GraphPrefill, LoopLayer, NextToken, Finish,
         LoopFails

(* The graph's buffer, filled up, names the one session.                   *)
LEMMA RowsAreOwn ==
  ASSUME QwenAssumption, GraphOfOne, QwenTyped, OwnRows, call # Idle, conf.graph
  PROVE  RowsOf(IF Len(bases) >= call.start + 1 THEN bases ELSE Populated, call.start + 1)
<1> DEFINE top == call.start + 1
           m == call.start + 1 - Len(bases)
           more == [t \in 1..m |-> call.s]
<1>1. /\ call.start \in Nat /\ top \in Nat /\ call.s \in Sessions
      /\ bases \in Seq(Sessions) /\ Len(bases) \in Nat
      /\ \A s, t \in Sessions : s = t
  BY QwenCallTypes DEF QwenTyped, QwenConf, OwnRows, GraphOfOne, OnGraph
<1>2. \A t \in 1..Len(bases) : bases[t] = call.s
  BY <1>1
<1>3. CASE Len(bases) >= top
  BY <1>1, <1>2, <1>3 DEF RowsOf
<1>4. CASE ~ (Len(bases) >= top)
  <2>1. Populated = bases \o more
    BY DEF Populated
  <2>2. m \in Nat /\ Len(bases) + m = top
    BY <1>1, <1>4
  <2>6. more \in Seq(Sessions) /\ Len(more) = m
    BY <1>1, <2>2
  <2>3. \A t \in 1..m : more[t] = call.s
    OBVIOUS
  <2> HIDE DEF more, m, top
  <2>4. \A t \in 1..top : (bases \o more)[t] = call.s
    BY <1>1, <1>2, <2>2, <2>3, <2>6
  <2>5. RowsOf(Populated, top)
    BY <2>1, <2>4 DEF RowsOf
  <2> QED
    BY <1>4, <2>5 DEF top
<1> QED
  BY <1>3, <1>4

(* A call on the graph is over.                                            *)
LEMMA GraphReturns ==
  ASSUME QwenAssumption, GraphOfOne, QwenTyped, QwenHeld, call # Idle, conf.graph,
         NEW rows, RowsOf(rows, call.start + call.n), cache' = GraphTokens(rows).kv,
         call' = Idle, fed' = [fed EXCEPT ![call.s] = call.start + call.n],
         UNCHANGED <<conf, count, recurrent, faults>>
  PROVE  InStep' /\ KvIsHeld' /\ XIsHeld' /\ StatesAreHeld'
<1>1. /\ call.s \in Sessions /\ conf.kind # "qwen35" /\ fed'[call.s] = call.start + call.n
      /\ \A s, t \in Sessions : s = t
  BY QwenCallTypes DEF QwenTyped, QwenConf, QwenCounted, GraphOfOne, OnGraph
<1>2. InStep'
  BY <1>1 DEF QwenHeld, InStep, Healthy
<1>3. XIsHeld' /\ StatesAreHeld'
  BY <1>1 DEF XIsHeld, StatesAreHeld, IsLinear
<1>4. KvIsHeld'
  <2> SUFFICES ASSUME NEW t \in Sessions, NEW l \in Layer, NEW q \in Position, Healthy(t),
                      q < fed'[t]
               PROVE  cache'[t][l][q] = KvName(t, l, q)
    BY DEF KvIsHeld, Beyond, Healthy, Layer, Position
  <2>1. t = call.s /\ q < call.start + call.n
    BY <1>1
  <2>2. HeldBelow(GraphTokens(rows).kv, 0, call.start + call.n)
    BY <2>1, GraphCallExact
  <2> QED
    BY <2>1, <2>2 DEF HeldBelow
<1> QED
  BY <1>2, <1>3, <1>4

(* Every step keeps what is held the model's.                              *)
LEMMA QwenHeldStep ==
  ASSUME QwenAssumption, IdleIsNoQwenCall, GraphOfOne, LoopRotates, LoopPrefills, StatesGoOn,
         QwenTyped, OwnRows, QwenHeld, [Next]_vars
  PROVE  QwenHeld'
<1> USE QwenSizes
<1>1. ASSUME NEW s \in Sessions, NEW n \in 1..MaxPrefill, NEW logits \in BOOLEAN,
             Begin(s, n, logits)
      PROVE  QwenHeld'
  <2>1. /\ call = Idle /\ fed[s] + n <= MaxSeq
        /\ count' = Appended(s, fed[s] + n)
        /\ call' = [s |-> s, start |-> fed[s], n |-> n, i |-> 0, layer |-> 0,
                    x |-> Embed(s, fed[s]), logits |-> logits]
        /\ answer' = Idle
        /\ UNCHANGED <<conf, bases, cache, recurrent, fed, faults>>
    BY <1>1 DEF Begin
  <2>2. fed[s] \in Nat /\ count[s] \in Nat /\ (Healthy(s) => count[s] = fed[s])
    BY <2>1 DEF QwenTyped, QwenCounted, QwenHeld, InStep
  <2>3. /\ call'.s = s /\ call'.start = fed[s] /\ call'.n = n /\ call'.layer = 0
        /\ Pos' = fed[s] /\ call'.x = HiddenName(s, 0, fed[s])
    BY <2>1, <2>2 DEF Pos, Embed
  <2>4. call' # Idle
    <3>1. QwenCallShape(call')
      <4> HIDE DEF Embed
      <4> QED
        BY <1>1, <2>1 DEF QwenCallShape, Begin
    <3> QED
      BY <3>1 DEF IdleIsNoQwenCall
  <2>5. InStep'
    <3> SUFFICES ASSUME NEW t \in Sessions, Healthy(t)
                 PROVE  count'[t] = IF t = s THEN fed[s] + n ELSE fed[t]
      BY <2>1, <2>3, <2>4 DEF InStep, Healthy
    <3>1. count[t] = fed[t]
      BY <2>1 DEF QwenHeld, InStep
    <3> QED
      BY <2>1, <2>2, <3>1 DEF Appended, QwenTyped, QwenCounted
  <2>6. XIsHeld' /\ AnswerHeld'
    BY <2>1, <2>3 DEF XIsHeld, AnswerHeld
  <2>7. \A t \in Sessions, l \in Layer, p \in Position : Beyond(t, l, p)' => Beyond(t, l, p)
    BY <2>1, <2>2, <2>3 DEF Beyond, Layer, Position
  <2>8. KvIsHeld'
    BY <2>1, <2>7 DEF QwenHeld, KvIsHeld, Healthy, IsLinear, Layer, Position
  <2>9. \A t \in Sessions, l \in Layer : Absorbs(t, l)' = Absorbs(t, l)
    BY <2>1, <2>2, <2>3 DEF Absorbs, Layer
  <2>10. StatesAreHeld'
    BY <2>1, <2>9 DEF QwenHeld, StatesAreHeld, Healthy, IsLinear, Layer
  <2> QED
    BY <2>5, <2>6, <2>8, <2>10 DEF QwenHeld
<1>2. ASSUME NEW s \in Sessions, NEW keep \in 0..(MaxSeq - 1), Rewind(s, keep)
      PROVE  QwenHeld'
  <2>1. /\ Resets /\ call = Idle /\ keep < fed[s] /\ call' = Idle /\ answer' = Idle
        /\ count' = [count EXCEPT ![s] = keep] /\ fed' = [fed EXCEPT ![s] = keep]
        /\ UNCHANGED <<conf, cache, recurrent, faults>>
    BY <1>2 DEF Rewind
  <2>2. \A l \in Layer : ~ IsLinear(l)
    BY <2>1 DEF StatesGoOn, IsLinear, QwenTyped, QwenConf
  <2>3. InStep'
    BY <2>1 DEF QwenTyped, QwenCounted, QwenHeld, InStep, Healthy
  <2>4. XIsHeld' /\ AnswerHeld'
    BY <2>1 DEF XIsHeld, AnswerHeld
  <2>5. StatesAreHeld'
    BY <2>1, <2>2 DEF StatesAreHeld, IsLinear, Layer
  <2>6. \A t \in Sessions, l \in Layer, p \in Position : Beyond(t, l, p)' => Beyond(t, l, p)
    BY <2>1 DEF Beyond, Layer, Position, QwenTyped, QwenCounted
  <2>7. KvIsHeld'
    BY <2>1, <2>6 DEF QwenHeld, KvIsHeld, Healthy, IsLinear, Layer, Position
  <2> QED
    BY <2>3, <2>4, <2>5, <2>7 DEF QwenHeld
<1>3. ASSUME NEW s \in Sessions, CancelSession(s) PROVE QwenHeld'
  <2>1. /\ call = Idle /\ call' = Idle /\ answer' = Idle
        /\ count' = [count EXCEPT ![s] = 0] /\ fed' = [fed EXCEPT ![s] = 0]
        /\ cache' = [cache EXCEPT ![s] = [l \in Layer |-> [p \in Position |-> Stale]]]
        /\ recurrent' = [recurrent EXCEPT ![s] = [l \in Layer |-> Zero]]
        /\ UNCHANGED <<conf, faults>>
    BY <1>3 DEF CancelSession
  <2>2. fed'[s] = 0 /\ count'[s] = 0 /\ \A t \in Sessions : t # s => fed'[t] = fed[t]
    BY <2>1 DEF QwenTyped, QwenCounted
  <2>3. InStep'
    BY <2>1 DEF QwenTyped, QwenCounted, QwenHeld, InStep, Healthy
  <2>4. XIsHeld' /\ AnswerHeld'
    BY <2>1 DEF XIsHeld, AnswerHeld
  <2>5. KvIsHeld'
    <3> SUFFICES ASSUME NEW t \in Sessions, NEW l \in Layer, NEW q \in Position, Healthy(t),
                        ~IsLinear(l), q < fed'[t]
                 PROVE  cache'[t][l][q] = KvName(t, l, q)
      BY <2>1 DEF KvIsHeld, Beyond, Healthy, IsLinear, Layer, Position
    <3>1. t # s
      BY <2>2 DEF Position
    <3>2. cache'[t] = cache[t] /\ q < fed[t]
      BY <2>1, <2>2, <3>1 DEF QwenTyped, QwenCache
    <3> QED
      BY <3>2 DEF QwenHeld, KvIsHeld, Beyond
  <2>6. StatesAreHeld'
    <3> SUFFICES ASSUME NEW t \in Sessions, NEW l \in Layer, Healthy(t), IsLinear(l)
                 PROVE  recurrent'[t][l] = StateName(t, l, fed'[t] - 1)
      BY <2>1 DEF StatesAreHeld, Absorbs, Healthy, IsLinear, Layer
    <3>1. CASE t = s
      BY <2>1, <2>2, <3>1 DEF StateName, QwenTyped, QwenStates
    <3>2. CASE t # s
      <4>1. recurrent'[t] = recurrent[t] /\ fed'[t] = fed[t]
        BY <2>1, <2>2, <3>2 DEF QwenTyped, QwenStates
      <4> QED
        BY <2>1, <4>1 DEF QwenHeld, StatesAreHeld, Absorbs
    <3> QED
      BY <3>1, <3>2
  <2> QED
    BY <2>3, <2>4, <2>5, <2>6 DEF QwenHeld
<1>4. ASSUME GraphPrefill PROVE QwenHeld'
  <2>1. /\ call # Idle /\ conf.graph /\ ~call.logits /\ call' = Idle
        /\ cache' = GraphTokens(PrefillBases).kv
        /\ fed' = [fed EXCEPT ![call.s] = call.start + call.n]
        /\ answer' = Idle
        /\ UNCHANGED <<conf, count, recurrent, faults>>
    BY <1>4 DEF GraphPrefill, Return
  <2>2. RowsOf(PrefillBases, call.start + call.n)
    BY DEF RowsOf, PrefillBases
  <2>3. InStep' /\ KvIsHeld' /\ XIsHeld' /\ StatesAreHeld'
    <3> DEFINE rows == PrefillBases
    <3> HIDE DEF rows
    <3>1. RowsOf(rows, call.start + call.n) /\ cache' = GraphTokens(rows).kv
      BY <2>1, <2>2 DEF rows
    <3> QED
      BY <2>1, <3>1, GraphReturns
  <2> QED
    BY <2>1, <2>3 DEF QwenHeld, AnswerHeld
<1>5. ASSUME GraphStep PROVE QwenHeld'
  <2> DEFINE rows == IF Len(bases) >= call.start + 1 THEN bases ELSE Populated
  <2>1. /\ call # Idle /\ conf.graph /\ call.logits /\ call' = Idle
        /\ cache' = GraphTokens(rows).kv
        /\ fed' = [fed EXCEPT ![call.s] = call.start + call.n]
        /\ answer' = [s |-> call.s, p |-> call.start, logits |-> GraphLogits(GraphTokens(rows).x)]
        /\ UNCHANGED <<conf, count, recurrent, faults>>
    BY <1>5 DEF GraphStep, Return
  <2>2. call.n = 1 /\ call.start \in Nat /\ call.s \in Sessions
    BY <2>1, QwenCallTypes
  <2>3. RowsOf(rows, call.start + call.n)
    BY <2>1, <2>2, RowsAreOwn
  <2> HIDE DEF rows
  <2>4. InStep' /\ KvIsHeld' /\ XIsHeld' /\ StatesAreHeld'
    BY <2>1, <2>3, GraphReturns
  <2>5. ASSUME HeadIsTied, Healthy(call.s)
        PROVE  GraphLogits(GraphTokens(rows).x) = Logits(call.s, call.start)
    <3>1. ~HasHead
      BY <2>1, <2>5 DEF HeadIsTied, OnGraph, QwenTyped, QwenConf
    <3>2. GraphTokens(rows).x = HiddenName(call.s, NumLayers, call.start + call.n - 1)
      BY <2>1, <2>3, <2>5, GraphCallExact
    <3>3. call.start + call.n - 1 = call.start
      BY <2>2
    <3> QED
      BY <3>1, <3>2, <3>3 DEF GraphLogits, Logits
  <2>6. AnswerHeld'
    <3>1. answer'.s = call.s /\ answer'.p = call.start
          /\ answer'.logits = GraphLogits(GraphTokens(rows).x)
      BY <2>1
    <3> HIDE DEF GraphLogits, Logits
    <3> QED
      BY <2>1, <2>2, <2>5, <3>1 DEF AnswerHeld, Healthy, Logits
  <2> QED
    BY <2>4, <2>6 DEF QwenHeld
<1>6. ASSUME LoopLayer PROVE QwenHeld'
  BY <1>6, QwenLayerStep
<1>7. ASSUME NextToken PROVE QwenHeld'
  <2>1. /\ call # Idle /\ call.layer = NumLayers /\ call.i + 1 < call.n
        /\ call' = [call EXCEPT !.i = @ + 1, !.layer = 0, !.x = Embed(call.s, Pos + 1)]
        /\ UNCHANGED <<conf, bases, count, cache, recurrent, fed, faults, answer>>
    BY <1>7 DEF NextToken
  <2>2. QwenCallShape(call)
    BY <2>1 DEF QwenTyped, QwenCall
  <2>3. /\ call' # Idle
        /\ call'.s = call.s /\ call'.start = call.start /\ call'.n = call.n
        /\ call'.i = call.i + 1 /\ call'.layer = 0 /\ call'.x = HiddenName(call.s, 0, Pos + 1)
    <3> HIDE DEF HiddenName
    <3>1. call' = [s |-> call.s, start |-> call.start, n |-> call.n, i |-> call.i + 1,
                   layer |-> 0, x |-> HiddenName(call.s, 0, Pos + 1), logits |-> call.logits]
      BY <2>1, <2>2 DEF QwenCallShape, Embed
    <3>2. call.i + 1 \in 0..(call.n - 1) /\ 0 \in 0..NumLayers
      BY <2>1, QwenCallTypes
    <3>3. QwenCallShape(call')
      BY <2>2, <3>1, <3>2 DEF QwenCallShape
    <3> QED
      BY <3>1, <3>3 DEF IdleIsNoQwenCall
  <2>4. Pos' = Pos + 1 /\ Pos \in Nat
    BY <2>1, <2>3, QwenCallTypes DEF Pos
  <2>5. InStep'
    BY <2>1, <2>3 DEF QwenHeld, InStep, Healthy
  <2>6. XIsHeld' /\ AnswerHeld'
    BY <2>1, <2>3, <2>4 DEF XIsHeld, QwenHeld, AnswerHeld
  <2>7. \A t \in Sessions, l \in Layer, p \in Position : Beyond(t, l, p)' => Beyond(t, l, p)
    BY <2>1, <2>3, <2>4 DEF Beyond, Layer, Position
  <2>8. KvIsHeld'
    BY <2>1, <2>7 DEF QwenHeld, KvIsHeld, Healthy, IsLinear, Layer, Position
  <2>9. \A t \in Sessions, l \in Layer : Absorbs(t, l)' = Absorbs(t, l)
    BY <2>1, <2>3, <2>4 DEF Absorbs, Layer
  <2>10. StatesAreHeld'
    BY <2>1, <2>9 DEF QwenHeld, StatesAreHeld, Healthy, IsLinear, Layer
  <2> QED
    BY <2>5, <2>6, <2>8, <2>10 DEF QwenHeld
<1>8. ASSUME Finish PROVE QwenHeld'
  <2>1. /\ call # Idle /\ call.layer = NumLayers /\ call.i + 1 = call.n /\ call' = Idle
        /\ fed' = [fed EXCEPT ![call.s] = call.start + call.n]
        /\ answer' = IF call.logits
                     THEN [s |-> call.s, p |-> call.start, logits |-> LoopLogits] ELSE Idle
        /\ UNCHANGED <<conf, bases, count, cache, recurrent, faults>>
    BY <1>8 DEF Finish, Return
  <2>2. /\ call.start + call.n = Pos + 1 /\ Pos \in Nat /\ call.s \in Sessions
        /\ fed'[call.s] = Pos + 1 /\ \A t \in Sessions : t # call.s => fed'[t] = fed[t]
    BY <2>1, QwenCallTypes DEF QwenTyped, QwenCounted
  <2>3. InStep'
    BY <2>1, <2>2 DEF QwenHeld, InStep, Healthy
  <2>4. XIsHeld'
    BY <2>1 DEF XIsHeld
  <2>5. AnswerHeld'
    <3>1. CASE call.logits
      <4>1. call.n = 1 /\ call.start = Pos
        BY <2>1, <2>2, <3>1, QwenCallTypes
      <4>2. Healthy(call.s) => LoopLogits = Logits(call.s, call.start)
        BY <2>1, <4>1 DEF QwenHeld, XIsHeld, LoopLogits, Logits
      <4>3. answer' = [s |-> call.s, p |-> call.start, logits |-> LoopLogits]
        BY <2>1, <3>1
      <4>4. answer'.s = call.s /\ answer'.p = call.start /\ answer'.logits = LoopLogits
        BY <4>3
      <4> QED
        BY <2>1, <2>2, <4>2, <4>4 DEF AnswerHeld, Healthy, Logits
    <3>2. CASE ~ call.logits
      BY <2>1, <3>2 DEF AnswerHeld
    <3> QED
      BY <3>1, <3>2
  <2>6. \A t \in Sessions, l \in Layer, p \in Position : Beyond(t, l, p)' => Beyond(t, l, p)
    <3> SUFFICES ASSUME NEW t \in Sessions, NEW l \in Layer, NEW p \in Position,
                        Beyond(t, l, p)'
                 PROVE  Beyond(t, l, p)
      OBVIOUS
    <3>1. p \in Nat /\ l \in Nat /\ l < NumLayers /\ p < fed'[t]
      BY <2>1 DEF Beyond, Layer, Position
    <3> QED
      BY <2>1, <2>2, <3>1 DEF Beyond
  <2>7. KvIsHeld'
    BY <2>1, <2>6 DEF QwenHeld, KvIsHeld, Healthy, IsLinear, Layer, Position
  <2>8. \A t \in Sessions, l \in Layer : Absorbs(t, l)' = Absorbs(t, l)
    BY <2>1, <2>2 DEF Absorbs, Layer
  <2>9. StatesAreHeld'
    BY <2>1, <2>8 DEF QwenHeld, StatesAreHeld, Healthy, IsLinear, Layer
  <2> QED
    BY <2>3, <2>4, <2>5, <2>7, <2>9 DEF QwenHeld
<1>9. ASSUME LoopFails PROVE QwenHeld'
  <2> DEFINE l == call.layer
             h == Norm(W("in_norm", l), call.x)
  <2>1. /\ call # Idle /\ l < NumLayers /\ ~conf.graph /\ call' = Idle
        /\ faults' = [faults EXCEPT ![call.s] = @ + 1]
        /\ UNCHANGED <<conf, bases, count, fed, answer>>
        /\ \/ UNCHANGED <<cache, recurrent>>
           \/ ~ IsLinear(l) /\ cache' = WithKv(l, h) /\ UNCHANGED recurrent
           \/ IsLinear(l) /\ recurrent' = WithState(l, h) /\ UNCHANGED cache
    BY <1>9 DEF LoopFails
  <2>2. call.s \in Sessions /\ answer = Idle
    BY <2>1, QwenCallTypes DEF QwenHeld, AnswerHeld
  <2>3. \A t \in Sessions : Healthy(t)' => t # call.s /\ Healthy(t)
    BY <2>1, <2>2 DEF Healthy, QwenTyped, QwenCounted
  <2>4. InStep' /\ XIsHeld' /\ AnswerHeld'
    BY <2>1, <2>2, <2>3 DEF QwenHeld, InStep, XIsHeld, AnswerHeld
  <2>5. \A t \in Sessions, m \in Layer, q \in Position :
          t # call.s => cache'[t][m][q] = cache[t][m][q]
    BY <2>1, LoopWrites
  <2>6. \A t \in Sessions, m \in Layer : t # call.s => recurrent'[t][m] = recurrent[t][m]
    BY <2>1, LoopAbsorbs
  <2>7. KvIsHeld'
    <3> SUFFICES ASSUME NEW t \in Sessions, NEW m \in Layer, NEW q \in Position,
                        Healthy(t)', ~IsLinear(m), q < fed[t]
                 PROVE  cache'[t][m][q] = KvName(t, m, q)
      BY <2>1 DEF KvIsHeld, Beyond, IsLinear, Layer, Position
    <3> QED
      BY <2>3, <2>5 DEF QwenHeld, KvIsHeld, Beyond
  <2>8. StatesAreHeld'
    <3> SUFFICES ASSUME NEW t \in Sessions, NEW m \in Layer, Healthy(t)', IsLinear(m)
                 PROVE  recurrent'[t][m] = StateName(t, m, fed[t] - 1)
      BY <2>1 DEF StatesAreHeld, Absorbs, IsLinear, Layer
    <3> QED
      BY <2>3, <2>6 DEF QwenHeld, StatesAreHeld, Absorbs
  <2> QED
    BY <2>4, <2>7, <2>8 DEF QwenHeld
<1>10. CASE UNCHANGED vars
  <2>1. \A s \in Sessions, l \in Layer, p \in Position : Beyond(s, l, p)' = Beyond(s, l, p)
    BY <1>10 DEF vars, Beyond, Pos
  <2>2. KvIsHeld'
    BY <1>10, <2>1 DEF vars, QwenHeld, KvIsHeld, Healthy, IsLinear, Layer, Position
  <2>3. \A s \in Sessions, l \in Layer : Absorbs(s, l)' = Absorbs(s, l)
    BY <1>10 DEF vars, Absorbs, Pos
  <2>4. StatesAreHeld'
    BY <1>10, <2>3 DEF vars, QwenHeld, StatesAreHeld, Healthy, IsLinear, Layer
  <2>5. InStep' /\ XIsHeld' /\ AnswerHeld'
    BY <1>10 DEF vars, QwenHeld, InStep, XIsHeld, AnswerHeld, Healthy, Pos, Logits
  <2> QED
    BY <2>2, <2>4, <2>5 DEF QwenHeld
<1> QED
  BY <1>1, <1>2, <1>3, <1>4, <1>5, <1>6, <1>7, <1>8, <1>9, <1>10 DEF Next

LEMMA QwenInvariant ==
  ASSUME QwenAssumption, IdleIsNoQwenCall, GraphOfOne, LoopRotates, LoopPrefills, StatesGoOn
  PROVE  Spec => [](QwenTyped /\ QwenHeld)
<1>1. Init => QwenTyped /\ OwnRows /\ QwenHeld
  <2>1. Init => OwnRows
    BY DEF Init, OwnRows
  <2> QED
    BY <2>1, QwenTypeInit, QwenHeldInit
<1>2. (QwenTyped /\ OwnRows /\ QwenHeld) /\ [Next]_vars
        => (QwenTyped /\ OwnRows /\ QwenHeld)'
  BY QwenTypeStep, OwnRowsStep, QwenHeldStep
<1> QED
  BY <1>1, <1>2, PTL DEF Spec

(* What the invariant says between the calls, and of the finished tokens.  *)
LEMMA HeldMeans ==
  ASSUME QwenAssumption, QwenTyped, QwenHeld
  PROVE  \A s \in Sessions : Healthy(s) => KvOf(s) /\ (call = Idle => StatesOf(s))
<1> SUFFICES ASSUME NEW s \in Sessions, Healthy(s)
             PROVE  KvOf(s) /\ (call = Idle => StatesOf(s))
  OBVIOUS
<1>1. KvOf(s)
  <2> SUFFICES ASSUME NEW l \in Layer, NEW p \in 0..(fed[s] - 1), ~IsLinear(l)
               PROVE  cache[s][l][p] = KvName(s, l, p)
    BY DEF KvOf
  <2>1. p \in Position /\ p < fed[s]
    BY QwenSizes DEF QwenTyped, QwenCounted, Position
  <2> QED
    BY <2>1 DEF QwenHeld, KvIsHeld, Beyond
<1>2. call = Idle => StatesOf(s)
  BY DEF QwenHeld, StatesAreHeld, Absorbs, StatesOf
<1> QED
  BY <1>1, <1>2

(* A kernel that fails for one session leaves every other session's K/V    *)
(* and recurrent states to its own past, whatever order they step in, for  *)
(* any number of sessions of the loop and of failures: the layer that      *)
(* failed wrote only what belongs to the session it was run for.  No       *)
(* session of a model with recurrent states is taken back, and the graph   *)
(* has one session.                                                         *)
THEOREM FaultsStayApart ==
  ASSUME QwenAssumption, IdleIsNoQwenCall, GraphOfOne, LoopRotates, LoopPrefills, StatesGoOn
  PROVE  Spec => []FaultsStayInTheirSession
<1>1. QwenTyped /\ QwenHeld => FaultsStayInTheirSession
  BY HeldMeans DEF Healthy, FaultsStayInTheirSession
<1> QED
  BY <1>1, QwenInvariant, PTL

(* Without faults the K/V of the finished tokens of every session are the  *)
(* model's in every layer that attends: by the loop after cancellations,   *)
(* and after rewinds where the model has no recurrent states, by prefills  *)
(* only where no layer but the last attends; on the graph for one session  *)
(* that only goes on.                                                       *)
THEOREM QwenCacheExact ==
  ASSUME QwenAssumption, IdleIsNoQwenCall, GraphOfOne, LoopRotates, LoopPrefills, StatesGoOn,
         MaxFaults = 0
  PROVE  Spec => []CacheIsTheModels
<1>1. QwenTyped /\ QwenHeld => CacheIsTheModels
  BY HeldMeans DEF QwenTyped, QwenCounted, Healthy, CacheIsTheModels
<1> QED
  BY <1>1, QwenInvariant, PTL

(* Without faults the recurrent state of every layer with linear attention *)
(* is, between the calls, the summary of exactly the tokens its session    *)
(* has finished: none skipped, none absorbed twice, none of another        *)
(* session.                                                                 *)
THEOREM RecurrentExact ==
  ASSUME QwenAssumption, IdleIsNoQwenCall, GraphOfOne, LoopRotates, LoopPrefills, StatesGoOn,
         MaxFaults = 0
  PROVE  Spec => []StateIsThePast
<1>1. QwenTyped /\ QwenHeld => StateIsThePast
  BY HeldMeans DEF QwenTyped, QwenCounted, Healthy, StateIsThePast
<1> QED
  BY <1>1, QwenInvariant, PTL

(* Without faults the logits of a step are the model's for its session and *)
(* position: on the graph where the model has no head of its own, and for  *)
(* one session that only goes on.                                           *)
THEOREM QwenAnswerExact ==
  ASSUME QwenAssumption, IdleIsNoQwenCall, GraphOfOne, LoopRotates, LoopPrefills, StatesGoOn,
         HeadIsTied, MaxFaults = 0
  PROVE  Spec => []AnswerIsTheModels
<1>1. QwenTyped /\ QwenHeld => AnswerIsTheModels
  BY DEF QwenTyped, QwenCounted, QwenHeld, AnswerHeld, Healthy, AnswerIsTheModels
<1> QED
  BY <1>1, QwenInvariant, PTL

-----------------------------------------------------------------------------
(* LfmRunner                                                               *)

(* No kernel fails: the runner is on the CPU, or Metal has no faults.      *)
Faultless == MaxFaults = 0 \/ "metal" \notin Backends

(* The windows belong to the runner: a second session, a rewind, or a      *)
(* token asked again after a failure finds those of the token before it.   *)
OwnWindows ==
  ConvLayers # {} => Faultless /\ ~Resets /\ \A s, t \in Sessions : s = t

(* A prefill that failed half-way has appended tokens its caller does not  *)
(* know of; one of a single token has appended that token.                 *)
RetryByToken == Faultless \/ MaxPrefill = 1

-----------------------------------------------------------------------------
(* The invariant: types and shapes, without those hypotheses               *)

LfmConf ==
  /\ conf.dtype \in Dtypes /\ conf.ops \in BOOLEAN
  /\ conf.ops => "metal" \in Backends

LfmCounted ==
  /\ count \in [Sessions -> 0..MaxSeq] /\ fed \in [Sessions -> 0..MaxSeq]
  /\ \A s \in Sessions : fed[s] <= count[s]
  /\ faults \in Nat

LfmCache(c) ==
  /\ DOMAIN c = Sessions
  /\ \A s \in Sessions : DOMAIN c[s] = Lfm!Layer
  /\ \A s \in Sessions, l \in Lfm!Layer : DOMAIN c[s][l] = Lfm!Position
WindowShape(w) ==
  DOMAIN w = ConvLayers /\ \A l \in ConvLayers : DOMAIN w[l] = 1..KernelSize

(* A call is of a session, at one of its tokens, and has appended it.      *)
LfmCallShape(c) ==
  /\ c = [s |-> c.s, start |-> c.start, n |-> c.n, i |-> c.i, layer |-> c.layer, x |-> c.x,
          logits |-> c.logits]
  /\ c.s \in Sessions /\ c.n \in 1..MaxPrefill /\ c.i \in 0..(c.n - 1)
  /\ c.layer \in 0..NumLayers /\ c.logits \in BOOLEAN /\ (c.logits => c.n = 1)
(* What stands for no call is none.                                        *)
IdleIsNoLfmCall == ~ LfmCallShape(Idle)

LfmCall ==
  call # Idle =>
    /\ LfmCallShape(call)
    /\ call.start = fed[call.s] /\ call.start + call.n <= MaxSeq
    /\ Lfm!Pos < count[call.s]

LfmTyped == LfmConf /\ LfmCounted /\ LfmCache(cache) /\ WindowShape(conv_states) /\ LfmCall

(* The types and bounds the steps below rest on.                           *)
LEMMA LfmSizes ==
  ASSUME Lfm!LfmAssumption
  PROVE  /\ NumLayers \in Nat /\ KernelSize \in Nat /\ MaxSeq \in Nat /\ MaxPrefill \in Nat
         /\ MaxFaults \in Nat
         /\ NumLayers > 0 /\ KernelSize > 0 /\ MaxSeq > 0 /\ MaxPrefill > 0
         /\ ConvLayers \subseteq Lfm!Layer /\ Resets \in BOOLEAN
  BY DEF Lfm!LfmAssumption, Lfm!Layer

(* A call's numbers, and where it is.                                      *)
LEMMA LfmCallTypes ==
  ASSUME Lfm!LfmAssumption, LfmTyped, call # Idle
  PROVE  /\ call.s \in Sessions /\ call.start \in Nat /\ call.n \in Nat /\ call.i \in Nat
         /\ call.n > 0 /\ call.n <= MaxPrefill
         /\ call.layer \in Nat /\ call.layer <= NumLayers /\ call.i < call.n
         /\ Lfm!Pos \in Nat /\ Lfm!Pos \in Lfm!Position /\ call.start = fed[call.s]
         /\ call.start + call.n <= MaxSeq /\ Lfm!Pos < count[call.s] /\ count[call.s] \in Nat
         /\ call.logits \in BOOLEAN
  BY LfmSizes DEF LfmTyped, LfmCall, LfmCallShape, LfmCounted, Lfm!Pos, Lfm!Position

(* What is put into the cache changes one entry of it.                     *)
LEMMA LfmPut ==
  ASSUME NEW s \in Sessions, NEW l \in Lfm!Layer, NEW p \in Lfm!Position, NEW v,
         LfmCache(cache), cache' = [cache EXCEPT ![s][l][p] = v]
  PROVE  /\ LfmCache(cache')
         /\ cache'[s][l][p] = v
         /\ \A t \in Sessions, m \in Lfm!Layer, q \in Lfm!Position :
              (t # s \/ m # l \/ q # p) => cache'[t][m][q] = cache[t][m][q]
  BY DEF LfmCache

(* A window that is pushed is as wide as before.                           *)
LEMMA WindowPut ==
  ASSUME NEW l \in ConvLayers, NEW h, WindowShape(conv_states), conv_states' = Lfm!Pushed(l, h)
  PROVE  /\ WindowShape(conv_states')
         /\ \A m \in ConvLayers : m # l => conv_states'[m] = conv_states[m]
         /\ conv_states'[l] =
              [k \in 1..KernelSize |->
                 IF k < KernelSize THEN conv_states[l][k + 1]
                 ELSE Lfm!NamedBx(call.s, l, Lfm!Pos, Lfm!Bx(l, h))]
<1> DEFINE new == [k \in 1..KernelSize |->
                     IF k < KernelSize THEN conv_states[l][k + 1]
                     ELSE Lfm!NamedBx(call.s, l, Lfm!Pos, Lfm!Bx(l, h))]
<1>1. conv_states' = [conv_states EXCEPT ![l] = new]
  BY DEF Lfm!Pushed
<1>2. DOMAIN new = 1..KernelSize
  OBVIOUS
<1> HIDE DEF new
<1>3. /\ DOMAIN conv_states' = ConvLayers /\ conv_states'[l] = new
      /\ \A m \in ConvLayers : m # l => conv_states'[m] = conv_states[m]
  BY <1>1 DEF WindowShape
<1>4. WindowShape(conv_states')
  BY <1>2, <1>3 DEF WindowShape
<1> QED
  BY <1>3, <1>4 DEF new

(* The first state is well formed.                                         *)
LEMMA LfmTypeInit == ASSUME Lfm!LfmAssumption, Lfm!Init PROVE LfmTyped
<1>1. LfmConf
  <2>1. PICK dtype \in Dtypes, b \in Backends : conf = [dtype |-> dtype, ops |-> b = "metal"]
    BY DEF Lfm!Init
  <2> DEFINE ops == b = "metal"
  <2>2. ops \in BOOLEAN /\ (ops => "metal" \in Backends)
    OBVIOUS
  <2>3. conf = [dtype |-> dtype, ops |-> ops]
    BY <2>1
  <2> HIDE DEF ops
  <2> QED
    BY <2>2, <2>3 DEF LfmConf
<1>2. LfmCounted
  BY LfmSizes DEF Lfm!Init, LfmCounted
<1>3. LfmCache(cache) /\ WindowShape(conv_states)
  BY DEF Lfm!Init, LfmCache, WindowShape, Lfm!NewWindow
<1>4. LfmCall
  BY DEF Lfm!Init, LfmCall
<1> QED
  BY <1>1, <1>2, <1>3, <1>4 DEF LfmTyped

(* Every step keeps the shapes.                                            *)
LEMMA LfmTypeStep == ASSUME Lfm!LfmAssumption, LfmTyped, [Lfm!Next]_(Lfm!vars) PROVE LfmTyped'
<1> USE LfmSizes
<1>1. ASSUME NEW s \in Sessions, NEW n \in 1..MaxPrefill, NEW logits \in BOOLEAN,
             Lfm!Begin(s, n, logits)
      PROVE  LfmTyped'
  <2>1. /\ fed[s] + n <= MaxSeq /\ (logits => n = 1)
        /\ count' = Lfm!AppendedAt(s, fed[s])
        /\ call' = [s |-> s, start |-> fed[s], n |-> n, i |-> 0, layer |-> 0,
                    x |-> Lfm!Embed(s, fed[s]), logits |-> logits]
        /\ UNCHANGED <<conf, cache, conv_states, fed, faults>>
    BY <1>1 DEF Lfm!Begin
  <2>2. fed[s] \in Nat /\ count[s] \in Nat /\ fed[s] <= count[s]
    BY DEF LfmTyped, LfmCounted
  <2>3. /\ count' \in [Sessions -> 0..MaxSeq] /\ count'[s] > fed[s]
        /\ \A t \in Sessions : count[t] <= count'[t]
    BY <2>1, <2>2 DEF LfmTyped, LfmCounted, Lfm!AppendedAt
  <2>4. LfmCounted'
    BY <2>1, <2>3 DEF LfmTyped, LfmCounted
  <2>5. LfmCallShape(call') /\ Lfm!Pos' = fed[s]
    BY <2>1, <2>2 DEF LfmCallShape, Lfm!Pos
  <2>6. LfmCall'
    BY <2>1, <2>3, <2>5 DEF LfmCall
  <2> QED
    BY <2>1, <2>4, <2>6 DEF LfmTyped, LfmConf, LfmCache, WindowShape, Lfm!Layer, Lfm!Position
<1>2. ASSUME NEW s \in Sessions, NEW keep \in 0..(MaxSeq - 1), Lfm!Rewind(s, keep)
      PROVE  LfmTyped'
  <2>1. LfmCounted'
    BY <1>2 DEF Lfm!Rewind, LfmTyped, LfmCounted
  <2>2. LfmCall'
    BY <1>2 DEF Lfm!Rewind, LfmCall
  <2> QED
    BY <1>2, <2>1, <2>2
       DEF Lfm!Rewind, LfmTyped, LfmConf, LfmCache, WindowShape, Lfm!Layer, Lfm!Position
<1>3. ASSUME Lfm!LoopLayer PROVE LfmTyped'
  <2>1. /\ call # Idle /\ call.layer < NumLayers
        /\ UNCHANGED <<conf, count, fed, faults>>
    BY <1>3 DEF Lfm!LoopLayer
  <2> DEFINE l == call.layer
             h == Lfm!Norm(Lfm!W("operator_norm", l), call.x)
  <2>2. l \in Lfm!Layer
    BY <2>1, LfmCallTypes DEF Lfm!Layer
  <2>3. /\ cache' = IF Lfm!IsConv(l) THEN cache ELSE Lfm!WithKv(l, h)
        /\ conv_states' = IF Lfm!IsConv(l) THEN Lfm!Pushed(l, h) ELSE conv_states
    BY <1>3 DEF Lfm!LoopLayer
  <2>4. PICK x : call' = [call EXCEPT !.layer = l + 1, !.x = x]
    BY <1>3 DEF Lfm!LoopLayer
  <2>5. LfmCallShape(call)
    BY <2>1 DEF LfmTyped, LfmCall
  <2>6. /\ LfmCallShape(call') /\ call'.s = call.s /\ call'.start = call.start
        /\ call'.n = call.n /\ call'.i = call.i
    <3>1. call' = [s |-> call.s, start |-> call.start, n |-> call.n, i |-> call.i,
                   layer |-> l + 1, x |-> x, logits |-> call.logits]
      BY <2>4, <2>5 DEF LfmCallShape
    <3>2. l + 1 \in 0..NumLayers
      BY <2>1, LfmCallTypes
    <3> QED
      BY <2>5, <3>1, <3>2 DEF LfmCallShape
  <2>7. Lfm!Pos' = Lfm!Pos
    BY <2>6 DEF Lfm!Pos
  <2>8. LfmCall'
    BY <2>1, <2>6, <2>7 DEF LfmTyped, LfmCall
  <2> HIDE DEF h
  <2>9. LfmCache(cache')
    <3>1. CASE Lfm!IsConv(l)
      BY <2>3, <3>1 DEF LfmTyped, LfmCache, Lfm!Layer, Lfm!Position
    <3>2. CASE ~ Lfm!IsConv(l)
      <4>1. cache' = [cache EXCEPT ![call.s][l][Lfm!Pos] =
                        Lfm!NamedKv(call.s, l, Lfm!Pos, Lfm!KeyValue(l, Lfm!Pos, h))]
        BY <2>3, <3>2 DEF Lfm!WithKv
      <4> QED
        BY <2>1, <2>2, <4>1, LfmPut, LfmCallTypes DEF LfmTyped
    <3> QED
      BY <3>1, <3>2
  <2>10. WindowShape(conv_states')
    <3>1. CASE Lfm!IsConv(l)
      BY <2>3, <3>1, WindowPut DEF LfmTyped, Lfm!IsConv
    <3>2. CASE ~ Lfm!IsConv(l)
      BY <2>3, <3>2 DEF LfmTyped, WindowShape
    <3> QED
      BY <3>1, <3>2
  <2> QED
    BY <2>1, <2>8, <2>9, <2>10
       DEF LfmTyped, LfmConf, LfmCounted, LfmCache, WindowShape, Lfm!Layer, Lfm!Position
<1>4. ASSUME Lfm!NextToken PROVE LfmTyped'
  <2>1. /\ call # Idle /\ call.i + 1 < call.n
        /\ count' = Lfm!AppendedAt(call.s, Lfm!Pos + 1)
        /\ call' = [call EXCEPT !.i = @ + 1, !.layer = 0, !.x = Lfm!Embed(call.s, Lfm!Pos + 1)]
        /\ UNCHANGED <<conf, cache, conv_states, fed, faults>>
    BY <1>4 DEF Lfm!NextToken
  <2>2. LfmCallShape(call)
    BY <2>1 DEF LfmTyped, LfmCall
  <2>3. /\ LfmCallShape(call') /\ call'.s = call.s /\ call'.start = call.start
        /\ call'.n = call.n /\ call'.i = call.i + 1
    <3>1. call' = [s |-> call.s, start |-> call.start, n |-> call.n, i |-> call.i + 1,
                   layer |-> 0, x |-> Lfm!Embed(call.s, Lfm!Pos + 1), logits |-> call.logits]
      BY <2>1, <2>2 DEF LfmCallShape
    <3>2. call.i + 1 \in 0..(call.n - 1) /\ 0 \in 0..NumLayers
      BY <2>1, LfmCallTypes
    <3> HIDE DEF Lfm!Embed
    <3> QED
      BY <2>2, <3>1, <3>2 DEF LfmCallShape
  <2>4. Lfm!Pos' = Lfm!Pos + 1 /\ Lfm!Pos + 1 < MaxSeq
    BY <2>1, <2>3, LfmCallTypes DEF Lfm!Pos
  <2>5. /\ count' \in [Sessions -> 0..MaxSeq] /\ count'[call.s] > Lfm!Pos + 1
        /\ \A t \in Sessions : count[t] <= count'[t]
    BY <2>1, <2>4, LfmCallTypes DEF LfmTyped, LfmCounted, Lfm!AppendedAt
  <2>6. LfmCounted'
    BY <2>1, <2>5 DEF LfmTyped, LfmCounted
  <2>7. LfmCall'
    BY <2>1, <2>3, <2>4, <2>5, LfmCallTypes DEF LfmCall
  <2> QED
    BY <2>1, <2>6, <2>7 DEF LfmTyped, LfmConf, LfmCache, WindowShape, Lfm!Layer, Lfm!Position
<1>5. ASSUME Lfm!Finish PROVE LfmTyped'
  <2>1. /\ call # Idle /\ call.i + 1 = call.n /\ call' = Idle
        /\ fed' = [fed EXCEPT ![call.s] = call.start + call.n]
        /\ UNCHANGED <<conf, count, cache, conv_states, faults>>
    BY <1>5 DEF Lfm!Finish
  <2>2. call.start + call.n = Lfm!Pos + 1 /\ Lfm!Pos < count[call.s]
    BY <2>1, LfmCallTypes DEF Lfm!Pos
  <2>3. LfmCounted'
    BY <2>1, <2>2, LfmCallTypes DEF LfmTyped, LfmCounted
  <2>4. LfmCall'
    BY <2>1 DEF LfmCall
  <2> QED
    BY <2>1, <2>3, <2>4 DEF LfmTyped, LfmConf, LfmCache, WindowShape, Lfm!Layer, Lfm!Position
<1>6. ASSUME Lfm!LoopFails PROVE LfmTyped'
  <2> DEFINE l == call.layer
             h == Lfm!Norm(Lfm!W("operator_norm", l), call.x)
  <2>1. /\ call # Idle /\ l < NumLayers /\ faults' = faults + 1 /\ call' = Idle
        /\ UNCHANGED <<conf, count, fed>>
        /\ \/ UNCHANGED <<cache, conv_states>>
           \/ ~ Lfm!IsConv(l) /\ cache' = Lfm!WithKv(l, h) /\ UNCHANGED conv_states
           \/ Lfm!IsConv(l) /\ conv_states' = Lfm!Pushed(l, h) /\ UNCHANGED cache
    BY <1>6 DEF Lfm!LoopFails
  <2>2. l \in Lfm!Layer
    BY <2>1, LfmCallTypes DEF Lfm!Layer
  <2> HIDE DEF h
  <2>3. LfmCache(cache') /\ WindowShape(conv_states')
    <3>1. CASE UNCHANGED <<cache, conv_states>>
      BY <3>1 DEF LfmTyped, LfmCache, WindowShape, Lfm!Layer, Lfm!Position
    <3>2. CASE ~ Lfm!IsConv(l) /\ cache' = Lfm!WithKv(l, h) /\ UNCHANGED conv_states
      <4>1. cache' = [cache EXCEPT ![call.s][l][Lfm!Pos] =
                        Lfm!NamedKv(call.s, l, Lfm!Pos, Lfm!KeyValue(l, Lfm!Pos, h))]
        BY <3>2 DEF Lfm!WithKv
      <4>2. LfmCache(cache')
        BY <2>1, <2>2, <4>1, LfmPut, LfmCallTypes DEF LfmTyped
      <4> QED
        BY <3>2, <4>2 DEF LfmTyped, WindowShape
    <3>3. CASE Lfm!IsConv(l) /\ conv_states' = Lfm!Pushed(l, h) /\ UNCHANGED cache
      BY <3>3, WindowPut DEF LfmTyped, Lfm!IsConv, LfmCache, Lfm!Layer, Lfm!Position
    <3> QED
      BY <2>1, <3>1, <3>2, <3>3
  <2>4. LfmCounted'
    BY <2>1 DEF LfmTyped, LfmCounted
  <2>5. LfmCall'
    BY <2>1 DEF LfmCall
  <2> QED
    BY <2>1, <2>3, <2>4, <2>5 DEF LfmTyped, LfmConf
<1>7. CASE UNCHANGED Lfm!vars
  BY <1>7 DEF Lfm!vars, LfmTyped, LfmConf, LfmCounted, LfmCache, WindowShape, LfmCall,
       LfmCallShape, Lfm!Pos,
       Lfm!Layer, Lfm!Position
<1> QED
  BY <1>1, <1>2, <1>3, <1>4, <1>5, <1>6, <1>7 DEF Lfm!Next

(* Whatever fails, whoever is rewound and however many sessions share the  *)
(* runner, its state is well formed: the token at hand is in the page      *)
(* table, and no table is shorter than what its session has finished.      *)
THEOREM LfmTypeCorrect == ASSUME Lfm!LfmAssumption PROVE Lfm!Spec => []Lfm!TypeOK
<1>1. Lfm!Init => LfmTyped
  BY LfmTypeInit
<1>2. LfmTyped /\ [Lfm!Next]_(Lfm!vars) => LfmTyped'
  BY LfmTypeStep
<1>3. LfmTyped => Lfm!TypeOK
  BY LfmSizes, LfmCallTypes DEF LfmTyped, LfmConf, LfmCounted, WindowShape, Lfm!TypeOK
<1> QED
  BY <1>1, <1>2, <1>3, PTL DEF Lfm!Spec

-----------------------------------------------------------------------------
(* The invariant: what is held is the model's                              *)

(* No page table is ahead of its session by more than the token at hand.   *)
Ahead ==
  \A s \in Sessions : count[s] <= IF call # Idle /\ s = call.s THEN Lfm!Pos + 1 ELSE fed[s] + 1

(* The layers a session has passed: all of its finished tokens, and of the *)
(* call's token those below the layer at hand.                             *)
Passed(s, l, p) ==
  \/ p < fed[s]
  \/ call # Idle /\ s = call.s /\ (p < Lfm!Pos \/ (p = Lfm!Pos /\ l < call.layer))
KvHeld ==
  \A s \in Sessions, l \in Lfm!Layer, p \in Lfm!Position :
     l \notin ConvLayers /\ Passed(s, l, p) => cache[s][l][p] = Lfm!KvName(s, l, p)

LfmXHeld == call # Idle => call.x = Lfm!HiddenName(call.s, call.layer, Lfm!Pos)

(* The last token whose product is in the window of a layer.               *)
Newest(s, l) ==
  IF call = Idle THEN fed[s] - 1 ELSE IF l < call.layer THEN Lfm!Pos ELSE Lfm!Pos - 1
WindowsHeld ==
  \A s \in Sessions, l \in ConvLayers : conv_states[l] = Lfm!WindowName(s, l, Newest(s, l))

LfmHeld == Ahead /\ KvHeld /\ LfmXHeld /\ WindowsHeld /\ Lfm!AnswerIsTheModels

(* A layer that convolves pushes the model's product.                      *)
LEMMA PushHeld ==
  ASSUME Lfm!LfmAssumption, LfmTyped, LfmHeld, call # Idle, call.layer < NumLayers,
         Lfm!IsConv(call.layer),
         conv_states' = Lfm!Pushed(call.layer, Lfm!Norm(Lfm!W("operator_norm", call.layer), call.x))
  PROVE  conv_states'[call.layer] = Lfm!WindowName(call.s, call.layer, Lfm!Pos)
<1> DEFINE s == call.s
           l == call.layer
           h == Lfm!Norm(Lfm!W("operator_norm", l), call.x)
<1>1. /\ s \in Sessions /\ l \in ConvLayers /\ KernelSize \in Nat /\ KernelSize > 0
      /\ Lfm!Pos \in Nat
  BY LfmCallTypes, LfmSizes DEF Lfm!IsConv
<1>2. Lfm!NamedBx(s, l, Lfm!Pos, Lfm!Bx(l, h)) = Lfm!BxName(s, l, Lfm!Pos)
  BY DEF LfmHeld, LfmXHeld, Lfm!NamedBx, Lfm!Abbreviate
<1>3. conv_states'[l] =
        [k \in 1..KernelSize |->
           IF k < KernelSize THEN conv_states[l][k + 1]
           ELSE Lfm!NamedBx(s, l, Lfm!Pos, Lfm!Bx(l, h))]
  <2>1. WindowShape(conv_states)
    BY DEF LfmTyped
  <2> HIDE DEF h
  <2>2. conv_states' = Lfm!Pushed(l, h)
    BY DEF h
  <2> QED
    BY <1>1, <2>1, <2>2, WindowPut
<1>4. conv_states[l] = Lfm!WindowName(s, l, Lfm!Pos - 1)
  <2>1. call.layer \in Nat
    BY LfmCallTypes
  <2>2. Newest(s, l) = Lfm!Pos - 1
    BY <2>1 DEF Newest
  <2>3. conv_states[l] = Lfm!WindowName(s, l, Newest(s, l))
    BY <1>1 DEF LfmHeld, WindowsHeld
  <2> QED
    BY <2>2, <2>3
<1>5. ASSUME NEW k \in 1..KernelSize
      PROVE  (IF k < KernelSize THEN conv_states[l][k + 1]
              ELSE Lfm!NamedBx(s, l, Lfm!Pos, Lfm!Bx(l, h)))
               = Lfm!BxName(s, l, Lfm!Pos - KernelSize + k)
  <2>1. CASE k < KernelSize
    <3>1. k + 1 \in 1..KernelSize
      BY <1>1, <2>1
    <3>2. conv_states[l][k + 1] = Lfm!BxName(s, l, (Lfm!Pos - 1) - KernelSize + (k + 1))
      BY <1>4, <3>1 DEF Lfm!WindowName
    <3>3. (Lfm!Pos - 1) - KernelSize + (k + 1) = Lfm!Pos - KernelSize + k
      BY <1>1
    <3> QED
      BY <2>1, <3>2, <3>3
  <2>2. CASE ~ (k < KernelSize)
    <3>1. Lfm!Pos - KernelSize + k = Lfm!Pos
      BY <1>1, <2>2
    <3> QED
      BY <1>2, <2>2, <3>1
  <2> QED
    BY <2>1, <2>2
<1> HIDE DEF s, l, h
<1>6. conv_states'[l] = Lfm!WindowName(s, l, Lfm!Pos)
  BY <1>3, <1>5 DEF Lfm!WindowName
<1> QED
  BY <1>6 DEF s, l

(* A layer that attends writes the model's K/V.                            *)
LEMMA KvWritten ==
  ASSUME Lfm!LfmAssumption, LfmTyped, LfmHeld, call # Idle, call.layer < NumLayers,
         cache' = Lfm!WithKv(call.layer, Lfm!Norm(Lfm!W("operator_norm", call.layer), call.x))
  PROVE  /\ LfmCache(cache')
         /\ cache'[call.s][call.layer][Lfm!Pos] = Lfm!KvName(call.s, call.layer, Lfm!Pos)
         /\ \A t \in Sessions, m \in Lfm!Layer, q \in Lfm!Position :
              (t # call.s \/ m # call.layer \/ q # Lfm!Pos) => cache'[t][m][q] = cache[t][m][q]
<1> DEFINE h == Lfm!Norm(Lfm!W("operator_norm", call.layer), call.x)
           v == Lfm!NamedKv(call.s, call.layer, Lfm!Pos, Lfm!KeyValue(call.layer, Lfm!Pos, h))
           s == call.s
           l == call.layer
           p == Lfm!Pos
<1>1. cache' = [cache EXCEPT ![call.s][call.layer][Lfm!Pos] = v]
  BY DEF Lfm!WithKv
<1>2. v = Lfm!KvName(call.s, call.layer, Lfm!Pos)
  BY DEF LfmHeld, LfmXHeld, Lfm!NamedKv, Lfm!Abbreviate
<1>3. s \in Sessions /\ l \in Lfm!Layer /\ p \in Lfm!Position /\ LfmCache(cache)
  BY LfmCallTypes, LfmSizes DEF LfmTyped, Lfm!Layer
<1>4. cache' = [cache EXCEPT ![s][l][p] = v] /\ v = Lfm!KvName(s, l, p)
  BY <1>1, <1>2
<1> HIDE DEF v, s, l, p
<1>5. LfmCache(cache')
  BY ONLY <1>3, <1>4, LfmPut
<1>6. cache'[s][l][p] = v
  BY ONLY <1>3, <1>4 DEF LfmCache
<1>7. \A t \in Sessions, m \in Lfm!Layer, q \in Lfm!Position :
        (t # s \/ m # l \/ q # p) => cache'[t][m][q] = cache[t][m][q]
  BY ONLY <1>3, <1>4, LfmPut
<1> QED
  BY <1>4, <1>5, <1>6, <1>7 DEF s, l, p

(* What a layer makes of the model's input and the model's history is the  *)
(* model's, in one command buffer or operation by operation.               *)
LEMMA LfmLayerExact ==
  ASSUME NEW s, NEW l, NEW p, NEW out,
         out = IF Lfm!IsConv(l)
               THEN Lfm!Convolved(l, Lfm!Norm(Lfm!W("operator_norm", l), Lfm!HiddenName(s, l, p)),
                              Lfm!WindowName(s, l, p))
               ELSE Lfm!Attended(l, p, Lfm!Norm(Lfm!W("operator_norm", l), Lfm!HiddenName(s, l, p)),
                             [t \in 0..p |-> Lfm!KvName(s, l, t)])
  PROVE  Lfm!NamedX(s, l, p, Lfm!Ffn(l, Lfm!Plus(Lfm!HiddenName(s, l, p), out)))
           = Lfm!HiddenName(s, l + 1, p)
<1>1. Lfm!Decoder(s, l, p) = Lfm!FeedForward(l, Lfm!Plus(Lfm!HiddenName(s, l, p), out))
  BY DEF Lfm!Decoder
<1>2. Lfm!Ffn(l, Lfm!Plus(Lfm!HiddenName(s, l, p), out))
        = Lfm!FeedForward(l, Lfm!Plus(Lfm!HiddenName(s, l, p), out))
  BY DEF Lfm!Ffn, Lfm!FfnBatch, Lfm!FeedForward
<1> QED
  BY <1>1, <1>2 DEF Lfm!NamedX, Lfm!Abbreviate

(* At first nothing is held.                                               *)
LEMMA LfmHeldInit == ASSUME Lfm!LfmAssumption, Lfm!Init PROVE LfmHeld
<1>1. call = Idle /\ answer = Idle /\ \A s \in Sessions : fed[s] = 0 /\ count[s] = 0
  BY DEF Lfm!Init
<1>2. Ahead /\ LfmXHeld /\ Lfm!AnswerIsTheModels
  BY <1>1 DEF Ahead, LfmXHeld, Lfm!AnswerIsTheModels
<1>3. KvHeld
  BY <1>1 DEF KvHeld, Passed, Lfm!Position
<1>4. WindowsHeld
  <2> SUFFICES ASSUME NEW s \in Sessions, NEW l \in ConvLayers
               PROVE  conv_states[l] = Lfm!WindowName(s, l, -1)
    BY <1>1 DEF WindowsHeld, Newest
  <2>1. conv_states[l] = [k \in 1..KernelSize |-> Lfm!Zero]
    BY DEF Lfm!Init, Lfm!NewWindow
  <2>2. \A k \in 1..KernelSize : Lfm!BxName(s, l, -1 - KernelSize + k) = Lfm!Zero
    BY LfmSizes DEF Lfm!BxName
  <2> QED
    BY <2>1, <2>2 DEF Lfm!WindowName
<1> QED
  BY <1>2, <1>3, <1>4 DEF LfmHeld

(* The loop passes a layer.                                                *)
LEMMA LfmLayerStep ==
  ASSUME Lfm!LfmAssumption, IdleIsNoLfmCall, OwnWindows, LfmTyped, LfmHeld, LfmTyped', Lfm!LoopLayer
  PROVE  LfmHeld'
<1> DEFINE s == call.s
           l == call.layer
           h == Lfm!Norm(Lfm!W("operator_norm", l), call.x)
           out == IF Lfm!IsConv(l) THEN Lfm!Convolved(l, h, conv_states'[l])
                  ELSE Lfm!Attended(l, Lfm!Pos, h, Lfm!Gathered(l, cache'))
<1>1. /\ call # Idle /\ l < NumLayers
      /\ UNCHANGED <<conf, count, fed, faults, answer>>
      /\ cache' = IF Lfm!IsConv(l) THEN cache ELSE Lfm!WithKv(l, h)
      /\ conv_states' = IF Lfm!IsConv(l) THEN Lfm!Pushed(l, h) ELSE conv_states
      /\ call' = [call EXCEPT !.layer = l + 1,
                              !.x = Lfm!NamedX(s, l, Lfm!Pos, Lfm!Ffn(l, Lfm!Plus(call.x, out)))]
  BY DEF Lfm!LoopLayer
<1>2. /\ s \in Sessions /\ l \in Lfm!Layer /\ l \in Nat
      /\ Lfm!Pos \in Nat /\ Lfm!Pos \in Lfm!Position
      /\ call.x = Lfm!HiddenName(s, l, Lfm!Pos)
  <2>1. s \in Sessions /\ l \in Nat /\ Lfm!Pos \in Nat /\ Lfm!Pos \in Lfm!Position
    BY <1>1, LfmCallTypes
  <2>2. l \in Lfm!Layer
    BY <1>1, <2>1, LfmSizes DEF Lfm!Layer
  <2>3. call.x = Lfm!HiddenName(s, l, Lfm!Pos)
    BY <1>1 DEF LfmHeld, LfmXHeld
  <2> QED
    BY <2>1, <2>2, <2>3
<1>3. count[s] = Lfm!Pos + 1
  BY <1>1, <1>2, LfmCallTypes DEF LfmHeld, Ahead
<1>4. ~ Lfm!IsConv(l) =>
        /\ LfmCache(cache')
        /\ cache'[s][l][Lfm!Pos] = Lfm!KvName(s, l, Lfm!Pos)
        /\ \A t \in Sessions, m \in Lfm!Layer, q \in Lfm!Position :
             (t # s \/ m # l \/ q # Lfm!Pos) => cache'[t][m][q] = cache[t][m][q]
  BY <1>1, KvWritten
<1>5. Lfm!IsConv(l) => conv_states'[l] = Lfm!WindowName(s, l, Lfm!Pos)
  BY <1>1, PushHeld
<1>6. ~ Lfm!IsConv(l) => Lfm!Gathered(l, cache') = [t \in 0..Lfm!Pos |-> Lfm!KvName(s, l, t)]
  <2> SUFFICES ASSUME ~ Lfm!IsConv(l), NEW t \in 0..Lfm!Pos
               PROVE  cache'[s][l][t] = Lfm!KvName(s, l, t)
    BY <1>2, <1>3 DEF Lfm!Gathered
  <2>1. t \in Lfm!Position
    BY <1>2, LfmSizes DEF Lfm!Position
  <2>2. CASE t = Lfm!Pos
    BY <1>4, <2>2
  <2>3. CASE t # Lfm!Pos
    <3>1. cache'[s][l][t] = cache[s][l][t]
      BY <1>2, <1>4, <2>1, <2>3
    <3>2. Passed(s, l, t)
      BY <1>1, <1>2, <2>3 DEF Passed
    <3> QED
      BY <1>2, <2>1, <3>1, <3>2 DEF LfmHeld, KvHeld, Lfm!IsConv
  <2> QED
    BY <2>2, <2>3
<1>7. out = IF Lfm!IsConv(l)
            THEN Lfm!Convolved(l,
                   Lfm!Norm(Lfm!W("operator_norm", l), Lfm!HiddenName(s, l, Lfm!Pos)),
                           Lfm!WindowName(s, l, Lfm!Pos))
            ELSE Lfm!Attended(l, Lfm!Pos,
                   Lfm!Norm(Lfm!W("operator_norm", l), Lfm!HiddenName(s, l, Lfm!Pos)),
                          [t \in 0..Lfm!Pos |-> Lfm!KvName(s, l, t)])
  <2>1. h = Lfm!Norm(Lfm!W("operator_norm", l), Lfm!HiddenName(s, l, Lfm!Pos))
    BY <1>2
  <2> HIDE DEF h
  <2> QED
    BY <1>5, <1>6, <2>1
<1> HIDE DEF out
<1>8. Lfm!NamedX(s, l, Lfm!Pos, Lfm!Ffn(l, Lfm!Plus(call.x, out)))
        = Lfm!HiddenName(s, l + 1, Lfm!Pos)
  <2>1. Lfm!NamedX(s, l, Lfm!Pos, Lfm!Ffn(l, Lfm!Plus(Lfm!HiddenName(s, l, Lfm!Pos), out)))
          = Lfm!HiddenName(s, l + 1, Lfm!Pos)
    BY ONLY <1>7, LfmLayerExact
  <2> QED
    BY <1>2, <2>1
<1>9. /\ call' # Idle /\ call'.s = s /\ call'.start = call.start /\ call'.i = call.i
      /\ call'.layer = l + 1 /\ call'.x = Lfm!HiddenName(s, l + 1, Lfm!Pos)
  <2>1. call' = [call EXCEPT !.layer = l + 1, !.x = Lfm!HiddenName(s, l + 1, Lfm!Pos)]
    BY <1>1, <1>8
  <2>2. LfmCallShape(call)
    BY <1>1 DEF LfmTyped, LfmCall
  <2> HIDE DEF Lfm!HiddenName
  <2>3. call' = [s |-> call.s, start |-> call.start, n |-> call.n, i |-> call.i,
                 layer |-> l + 1, x |-> Lfm!HiddenName(s, l + 1, Lfm!Pos), logits |-> call.logits]
    BY <2>1, <2>2 DEF LfmCallShape
  <2>4. call' # Idle
    <3>1. l + 1 \in 0..NumLayers
      BY <1>1, <1>2, LfmSizes
    <3>2. LfmCallShape(call')
      BY <2>2, <2>3, <3>1 DEF LfmCallShape
    <3> QED
      BY <3>2 DEF IdleIsNoLfmCall
  <2> QED
    BY <2>3, <2>4
<1>10. Lfm!Pos' = Lfm!Pos
  BY <1>9 DEF Lfm!Pos
<1>11. Ahead'
  BY <1>1, <1>3, <1>9, <1>10 DEF LfmHeld, Ahead
<1>12. LfmXHeld' /\ Lfm!AnswerIsTheModels'
  BY <1>1, <1>9, <1>10 DEF LfmXHeld, LfmHeld, Lfm!AnswerIsTheModels
<1>13. KvHeld'
  <2> SUFFICES ASSUME NEW t \in Sessions, NEW m \in Lfm!Layer, NEW q \in Lfm!Position,
                      m \notin ConvLayers, Passed(t, m, q)'
               PROVE  cache'[t][m][q] = Lfm!KvName(t, m, q)
    BY DEF KvHeld
  <2>1. m \in Nat /\ q \in Nat
    BY DEF Lfm!Layer, Lfm!Position
  <2>2. CASE t = s /\ m = l /\ q = Lfm!Pos
    BY <1>4, <2>2 DEF Lfm!IsConv
  <2>3. CASE ~ (t = s /\ m = l /\ q = Lfm!Pos)
    <3>1. Passed(t, m, q)
      BY <1>1, <1>2, <1>9, <1>10, <2>1, <2>3 DEF Passed
    <3>2. cache'[t][m][q] = cache[t][m][q]
      BY <1>1, <1>4, <2>3
    <3> QED
      BY <3>1, <3>2 DEF LfmHeld, KvHeld
  <2> QED
    BY <2>2, <2>3
<1>14. WindowsHeld'
  <2> SUFFICES ASSUME NEW t \in Sessions, NEW m \in ConvLayers
               PROVE  conv_states'[m] = Lfm!WindowName(t, m, Newest(t, m)')
    BY DEF WindowsHeld
  <2>1. t = s
    BY <1>2 DEF OwnWindows
  <2>2. m \in Nat
    BY LfmSizes DEF Lfm!Layer
  <2>3. CASE m = l
    <3>1. Newest(t, m)' = Lfm!Pos
      BY <1>1, <1>2, <1>9, <1>10, <2>1, <2>3 DEF Newest
    <3> QED
      BY <1>5, <2>1, <2>3, <3>1 DEF Lfm!IsConv
  <2>4. CASE m # l
    <3>1. conv_states'[m] = conv_states[m]
      BY <1>1, <1>2, <2>4, WindowPut DEF Lfm!IsConv, LfmTyped
    <3>2. conv_states[m] = Lfm!WindowName(t, m, Newest(t, m))
      BY DEF LfmHeld, WindowsHeld
    <3>3. Newest(t, m)' = Newest(t, m)
      BY <1>1, <1>2, <1>9, <1>10, <2>2, <2>4 DEF Newest
    <3> QED
      BY <3>1, <3>2, <3>3
  <2> QED
    BY <2>3, <2>4
<1> QED
  BY <1>11, <1>12, <1>13, <1>14 DEF LfmHeld

(* Every step keeps what is held the model's.                              *)
LEMMA LfmHeldStep ==
  ASSUME Lfm!LfmAssumption, IdleIsNoLfmCall, OwnWindows, RetryByToken, LfmTyped, LfmHeld,
         LfmTyped', [Lfm!Next]_(Lfm!vars)
  PROVE  LfmHeld'
<1> USE LfmSizes
<1>1. ASSUME NEW s \in Sessions, NEW n \in 1..MaxPrefill, NEW logits \in BOOLEAN,
             Lfm!Begin(s, n, logits)
      PROVE  LfmHeld'
  <2>1. /\ call = Idle /\ fed[s] + n <= MaxSeq
        /\ count' = Lfm!AppendedAt(s, fed[s])
        /\ call' = [s |-> s, start |-> fed[s], n |-> n, i |-> 0, layer |-> 0,
                    x |-> Lfm!Embed(s, fed[s]), logits |-> logits]
        /\ answer' = Idle
        /\ UNCHANGED <<conf, cache, conv_states, fed, faults>>
    BY <1>1 DEF Lfm!Begin
  <2>2. fed[s] \in Nat /\ count[s] \in Nat /\ fed[s] <= count[s] /\ count[s] <= fed[s] + 1
    BY <2>1 DEF LfmTyped, LfmCounted, LfmHeld, Ahead
  <2>3. /\ call'.s = s /\ call'.layer = 0 /\ Lfm!Pos' = fed[s]
        /\ call'.x = Lfm!HiddenName(s, 0, fed[s])
    BY <2>1, <2>2 DEF Lfm!Pos, Lfm!Embed
  <2>4. Ahead'
    BY <2>1, <2>2, <2>3 DEF LfmTyped, LfmCounted, LfmHeld, Ahead, Lfm!AppendedAt
  <2>5. LfmXHeld' /\ Lfm!AnswerIsTheModels'
    BY <2>1, <2>3 DEF LfmXHeld, Lfm!AnswerIsTheModels
  <2>6. \A t \in Sessions, l \in Lfm!Layer, p \in Lfm!Position : Passed(t, l, p)' => Passed(t, l, p)
    BY <2>1, <2>2, <2>3 DEF Passed, Lfm!Layer, Lfm!Position
  <2>7. KvHeld'
    BY <2>1, <2>6 DEF LfmHeld, KvHeld, Lfm!Layer, Lfm!Position
  <2>8. WindowsHeld'
    <3> SUFFICES ASSUME NEW t \in Sessions, NEW l \in ConvLayers
                 PROVE  conv_states'[l] = Lfm!WindowName(t, l, Newest(t, l)')
      BY DEF WindowsHeld
    <3>1. t = s
      BY DEF OwnWindows
    <3>2. l \in Nat
      BY DEF Lfm!Layer
    <3>3. Newest(t, l) = fed[s] - 1 /\ Newest(t, l)' = fed[s] - 1
      BY <2>1, <2>2, <2>3, <3>1, <3>2 DEF Newest
    <3>4. conv_states[l] = Lfm!WindowName(t, l, Newest(t, l))
      BY DEF LfmHeld, WindowsHeld
    <3> QED
      BY <2>1, <3>3, <3>4
  <2> QED
    BY <2>4, <2>5, <2>7, <2>8 DEF LfmHeld
<1>2. ASSUME NEW s \in Sessions, NEW keep \in 0..(MaxSeq - 1), Lfm!Rewind(s, keep)
      PROVE  LfmHeld'
  <2>1. /\ Resets /\ call = Idle /\ keep < fed[s] /\ call' = Idle /\ answer' = Idle
        /\ count' = [count EXCEPT ![s] = keep] /\ fed' = [fed EXCEPT ![s] = keep]
        /\ UNCHANGED <<conf, cache, conv_states, faults>>
    BY <1>2 DEF Lfm!Rewind
  <2>2. Ahead'
    BY <2>1 DEF LfmTyped, LfmCounted, LfmHeld, Ahead
  <2>3. LfmXHeld' /\ Lfm!AnswerIsTheModels'
    BY <2>1 DEF LfmXHeld, Lfm!AnswerIsTheModels
  <2>4. \A t \in Sessions, l \in Lfm!Layer, p \in Lfm!Position : Passed(t, l, p)' => Passed(t, l, p)
    BY <2>1 DEF Passed, Lfm!Layer, Lfm!Position, LfmTyped, LfmCounted
  <2>5. KvHeld'
    BY <2>1, <2>4 DEF LfmHeld, KvHeld, Lfm!Layer, Lfm!Position
  <2>6. WindowsHeld'
    BY <2>1 DEF OwnWindows, WindowsHeld
  <2> QED
    BY <2>2, <2>3, <2>5, <2>6 DEF LfmHeld
<1>3. ASSUME Lfm!LoopLayer PROVE LfmHeld'
  BY <1>3, LfmLayerStep
<1>4. ASSUME Lfm!NextToken PROVE LfmHeld'
  <2>1. /\ call # Idle /\ call.layer = NumLayers /\ call.i + 1 < call.n
        /\ count' = Lfm!AppendedAt(call.s, Lfm!Pos + 1)
        /\ call' = [call EXCEPT !.i = @ + 1, !.layer = 0, !.x = Lfm!Embed(call.s, Lfm!Pos + 1)]
        /\ UNCHANGED <<conf, cache, conv_states, fed, faults, answer>>
    BY <1>4 DEF Lfm!NextToken
  <2>2. LfmCallShape(call)
    BY <2>1 DEF LfmTyped, LfmCall
  <2>3. /\ call' # Idle
        /\ call'.s = call.s /\ call'.start = call.start /\ call'.n = call.n
        /\ call'.i = call.i + 1 /\ call'.layer = 0
        /\ call'.x = Lfm!HiddenName(call.s, 0, Lfm!Pos + 1)
    <3> HIDE DEF Lfm!HiddenName
    <3>1. call' = [s |-> call.s, start |-> call.start, n |-> call.n, i |-> call.i + 1,
                   layer |-> 0, x |-> Lfm!HiddenName(call.s, 0, Lfm!Pos + 1),
                   logits |-> call.logits]
      BY <2>1, <2>2 DEF LfmCallShape, Lfm!Embed
    <3>2. call.i + 1 \in 0..(call.n - 1) /\ 0 \in 0..NumLayers
      BY <2>1, LfmCallTypes
    <3>3. LfmCallShape(call')
      BY <2>2, <3>1, <3>2 DEF LfmCallShape
    <3> QED
      BY <3>1, <3>3 DEF IdleIsNoLfmCall
  <2>4. Lfm!Pos' = Lfm!Pos + 1
    BY <2>1, <2>3, LfmCallTypes DEF Lfm!Pos
  <2>5. count[call.s] = Lfm!Pos + 1
    BY <2>1, LfmCallTypes DEF LfmHeld, Ahead
  <2>6. Ahead'
    <3> SUFFICES ASSUME NEW t \in Sessions
                 PROVE  count'[t] <= IF call' # Idle /\ t = call'.s THEN Lfm!Pos' + 1
                                     ELSE fed'[t] + 1
      BY DEF Ahead
    <3>1. CASE t = call.s
      <4>1. count'[t] = Lfm!Pos + 2
        BY <2>1, <2>5, <3>1, LfmCallTypes DEF Lfm!AppendedAt, LfmTyped, LfmCounted
      <4> QED
        BY <2>1, <2>3, <2>4, <3>1, <4>1, LfmCallTypes
    <3>2. CASE t # call.s
      BY <2>1, <2>3, <3>2, LfmCallTypes DEF Lfm!AppendedAt, LfmHeld, Ahead, LfmTyped, LfmCounted
    <3> QED
      BY <3>1, <3>2
  <2>7. LfmXHeld' /\ Lfm!AnswerIsTheModels'
    BY <2>1, <2>3, <2>4 DEF LfmXHeld, LfmHeld, Lfm!AnswerIsTheModels
  <2>8. \A t \in Sessions, l \in Lfm!Layer, p \in Lfm!Position : Passed(t, l, p)' => Passed(t, l, p)
    BY <2>1, <2>3, <2>4, LfmCallTypes DEF Passed, Lfm!Layer, Lfm!Position
  <2>9. KvHeld'
    BY <2>1, <2>8 DEF LfmHeld, KvHeld, Lfm!Layer, Lfm!Position
  <2>10. WindowsHeld'
    <3> SUFFICES ASSUME NEW t \in Sessions, NEW l \in ConvLayers
                 PROVE  conv_states'[l] = Lfm!WindowName(t, l, Newest(t, l)')
      BY DEF WindowsHeld
    <3>1. t = call.s
      BY <2>1, LfmCallTypes DEF OwnWindows
    <3>2. l \in Nat /\ l < NumLayers
      BY DEF Lfm!Layer
    <3>3. Newest(t, l)' = Lfm!Pos
      BY <2>1, <2>3, <2>4, <3>2, LfmCallTypes DEF Newest
    <3>4. Newest(t, l) = Lfm!Pos
      BY <2>1, <3>2 DEF Newest
    <3>5. conv_states[l] = Lfm!WindowName(t, l, Newest(t, l))
      BY DEF LfmHeld, WindowsHeld
    <3> QED
      BY <2>1, <3>3, <3>4, <3>5
  <2> QED
    BY <2>6, <2>7, <2>9, <2>10 DEF LfmHeld
<1>5. ASSUME Lfm!Finish PROVE LfmHeld'
  <2>1. /\ call # Idle /\ call.layer = NumLayers /\ call.i + 1 = call.n /\ call' = Idle
        /\ fed' = [fed EXCEPT ![call.s] = call.start + call.n]
        /\ answer' = IF call.logits
                     THEN [s |-> call.s, p |-> call.start, logits |-> Lfm!LoopLogits] ELSE Idle
        /\ UNCHANGED <<conf, count, cache, conv_states, faults>>
    BY <1>5 DEF Lfm!Finish
  <2>2. /\ call.start + call.n = Lfm!Pos + 1 /\ Lfm!Pos \in Nat /\ call.s \in Sessions
        /\ count[call.s] <= Lfm!Pos + 1 /\ call.x = Lfm!HiddenName(call.s, NumLayers, Lfm!Pos)
        /\ fed'[call.s] = Lfm!Pos + 1
    BY <2>1, LfmCallTypes DEF Lfm!Pos, LfmHeld, Ahead, LfmXHeld, LfmTyped, LfmCounted
  <2>3. Ahead'
    BY <2>1, <2>2, LfmCallTypes DEF LfmHeld, Ahead, LfmTyped, LfmCounted
  <2>4. LfmXHeld'
    BY <2>1 DEF LfmXHeld
  <2>5. Lfm!AnswerIsTheModels'
    <3>1. CASE call.logits
      <4>1. call.start = Lfm!Pos
        BY <2>1, <3>1, LfmCallTypes DEF LfmTyped, LfmCall, LfmCallShape, Lfm!Pos
      <4>2. Lfm!LoopLogits = Lfm!Logits(call.s, call.start)
        BY <2>2, <4>1 DEF Lfm!LoopLogits, Lfm!Logits
      <4> QED
        BY <2>1, <3>1, <4>2 DEF Lfm!AnswerIsTheModels, Lfm!Logits, Lfm!HiddenName
    <3>2. CASE ~ call.logits
      BY <2>1, <3>2 DEF Lfm!AnswerIsTheModels
    <3> QED
      BY <3>1, <3>2
  <2>6. \A t \in Sessions, l \in Lfm!Layer, p \in Lfm!Position : Passed(t, l, p)' => Passed(t, l, p)
    <3> SUFFICES ASSUME NEW t \in Sessions, NEW l \in Lfm!Layer, NEW p \in Lfm!Position,
                        Passed(t, l, p)'
                 PROVE  Passed(t, l, p)
      OBVIOUS
    <3>1. p \in Nat /\ l \in Nat /\ l < NumLayers /\ p < fed'[t]
      BY <2>1 DEF Passed, Lfm!Layer, Lfm!Position
    <3>2. CASE t = call.s
      BY <2>1, <2>2, <3>1, <3>2 DEF Passed
    <3>3. CASE t # call.s
      BY <2>1, <3>1, <3>3 DEF Passed, LfmTyped, LfmCounted
    <3> QED
      BY <3>2, <3>3
  <2>7. KvHeld'
    BY <2>1, <2>6 DEF LfmHeld, KvHeld, Lfm!Layer, Lfm!Position
  <2>8. WindowsHeld'
    <3> SUFFICES ASSUME NEW t \in Sessions, NEW l \in ConvLayers
                 PROVE  conv_states'[l] = Lfm!WindowName(t, l, Newest(t, l)')
      BY DEF WindowsHeld
    <3>1. t = call.s
      BY <2>2 DEF OwnWindows
    <3>2. l \in Nat /\ l < NumLayers
      BY DEF Lfm!Layer
    <3>3. Newest(t, l)' = Lfm!Pos /\ Newest(t, l) = Lfm!Pos
      BY <2>1, <2>2, <3>1, <3>2 DEF Newest
    <3>4. conv_states[l] = Lfm!WindowName(t, l, Newest(t, l))
      BY DEF LfmHeld, WindowsHeld
    <3> QED
      BY <2>1, <3>3, <3>4
  <2> QED
    BY <2>3, <2>4, <2>5, <2>7, <2>8 DEF LfmHeld
<1>6. ASSUME Lfm!LoopFails PROVE LfmHeld'
  <2> DEFINE l == call.layer
             h == Lfm!Norm(Lfm!W("operator_norm", l), call.x)
  <2>1. /\ call # Idle /\ l < NumLayers /\ conf.ops /\ faults < MaxFaults /\ call' = Idle
        /\ UNCHANGED <<conf, count, fed, answer>>
        /\ \/ UNCHANGED <<cache, conv_states>>
           \/ ~ Lfm!IsConv(l) /\ cache' = Lfm!WithKv(l, h) /\ UNCHANGED conv_states
           \/ Lfm!IsConv(l) /\ conv_states' = Lfm!Pushed(l, h) /\ UNCHANGED cache
    BY <1>6 DEF Lfm!LoopFails
  <2>2. ~ Faultless
    BY <2>1 DEF Faultless, LfmTyped, LfmConf, LfmCounted
  <2>3. ConvLayers = {} /\ MaxPrefill = 1
    BY <2>2 DEF OwnWindows, RetryByToken
  <2>4. Lfm!Pos = fed[call.s] /\ call.s \in Sessions /\ call.layer \in Lfm!Layer
    BY <2>1, <2>3, LfmCallTypes DEF Lfm!Pos, Lfm!Layer
  <2>5. Ahead'
    BY <2>1, <2>4 DEF LfmHeld, Ahead
  <2>6. LfmXHeld' /\ Lfm!AnswerIsTheModels' /\ WindowsHeld'
    BY <2>1, <2>3 DEF LfmXHeld, LfmHeld, Lfm!AnswerIsTheModels, WindowsHeld
  <2>7. KvHeld'
    <3> SUFFICES ASSUME NEW t \in Sessions, NEW m \in Lfm!Layer, NEW q \in Lfm!Position, q < fed[t]
                 PROVE  cache'[t][m][q] = Lfm!KvName(t, m, q)
      BY <2>1 DEF KvHeld, Passed
    <3>1. cache[t][m][q] = Lfm!KvName(t, m, q)
      BY <2>3 DEF LfmHeld, KvHeld, Passed
    <3>2. cache'[t][m][q] = cache[t][m][q]
      <4>1. CASE UNCHANGED <<cache, conv_states>>
        BY <4>1
      <4>2. CASE ~ Lfm!IsConv(l) /\ cache' = Lfm!WithKv(l, h) /\ UNCHANGED conv_states
        <5>1. (t # call.s \/ m # l \/ q # Lfm!Pos) => cache'[t][m][q] = cache[t][m][q]
          BY <2>1, <4>2, KvWritten
        <5>2. t # call.s \/ q # Lfm!Pos
          BY <2>4 DEF LfmTyped, LfmCounted, Lfm!Position
        <5> QED
          BY <5>1, <5>2
      <4>3. CASE Lfm!IsConv(l) /\ conv_states' = Lfm!Pushed(l, h) /\ UNCHANGED cache
        BY <4>3
      <4> QED
        BY <2>1, <4>1, <4>2, <4>3
    <3> QED
      BY <3>1, <3>2
  <2> QED
    BY <2>5, <2>6, <2>7 DEF LfmHeld
<1>7. CASE UNCHANGED Lfm!vars
  <2>1. \A s \in Sessions, l \in Lfm!Layer, p \in Lfm!Position : Passed(s, l, p)' = Passed(s, l, p)
    BY <1>7 DEF Lfm!vars, Passed, Lfm!Pos
  <2>2. KvHeld'
    BY <1>7, <2>1 DEF Lfm!vars, LfmHeld, KvHeld, Lfm!Layer, Lfm!Position
  <2> QED
    BY <1>7, <2>2 DEF Lfm!vars, LfmHeld, Ahead, LfmXHeld, WindowsHeld, Newest,
       Lfm!AnswerIsTheModels, Lfm!Pos
<1> QED
  BY <1>1, <1>2, <1>3, <1>4, <1>5, <1>6, <1>7 DEF Lfm!Next

LEMMA LfmInvariant ==
  ASSUME Lfm!LfmAssumption, IdleIsNoLfmCall, OwnWindows, RetryByToken
  PROVE  Lfm!Spec => [](LfmTyped /\ LfmHeld)
<1>1. Lfm!Init => LfmTyped /\ LfmHeld
  BY LfmTypeInit, LfmHeldInit
<1>2. (LfmTyped /\ LfmHeld) /\ [Lfm!Next]_(Lfm!vars) => (LfmTyped /\ LfmHeld)'
  BY LfmTypeStep, LfmHeldStep
<1> QED
  BY <1>1, <1>2, PTL DEF Lfm!Spec

(* The K/V of the finished tokens are the model's in every layer that      *)
(* attends, on either backend, with prefills and steps mixed.  By          *)
(* OwnWindows this is said of an LFM, whose layers convolve, with one      *)
(* session only, none of whose steps fail and which is never rewound: the  *)
(* runner has one window for all.  Only without a layer that convolves, as *)
(* no real LFM is, does it say it of more sessions, rewinds and failures.  *)
THEOREM LfmCacheExact ==
  ASSUME Lfm!LfmAssumption, IdleIsNoLfmCall, OwnWindows, RetryByToken
  PROVE  Lfm!Spec => []Lfm!CacheIsTheModels
<1>1. LfmTyped /\ LfmHeld => Lfm!CacheIsTheModels
  BY LfmSizes DEF LfmTyped, LfmCounted, LfmHeld, KvHeld, Passed, Lfm!CacheIsTheModels, Lfm!Position
<1> QED
  BY <1>1, LfmInvariant, PTL

(* While a token runs, the window of a layer holds the products of exactly *)
(* the last tokens of the session, whatever the width of the window and    *)
(* however the tokens came, one by one or in prefills: none is skipped,    *)
(* none is there twice.  OwnWindows: the runner has one session, none of   *)
(* whose steps fail and which is never rewound.                            *)
THEOREM WindowExact ==
  ASSUME Lfm!LfmAssumption, IdleIsNoLfmCall, OwnWindows, RetryByToken
  PROVE  Lfm!Spec => []Lfm!WindowIsThePast
<1>1. LfmTyped /\ LfmHeld => Lfm!WindowIsThePast
  BY LfmCallTypes DEF LfmHeld, WindowsHeld, Newest, Lfm!WindowIsThePast
<1> QED
  BY <1>1, LfmInvariant, PTL

(* The logits of a step are the model's for its position, for an LFM with  *)
(* one session, none of whose steps fail and which is never rewound        *)
(* (OwnWindows, as above).                                                 *)
THEOREM LfmAnswerExact ==
  ASSUME Lfm!LfmAssumption, IdleIsNoLfmCall, OwnWindows, RetryByToken
  PROVE  Lfm!Spec => []Lfm!AnswerIsTheModels
<1>1. LfmHeld => Lfm!AnswerIsTheModels
  BY DEF LfmHeld
<1> QED
  BY <1>1, LfmInvariant, PTL

-----------------------------------------------------------------------------
(* LfmRunner's decoded weights: the places of a pass, and their order       *)

(* The matrices of a layer are as many as these.                           *)
Size(l) == Len(Lru!LayerWeights(l))

(* There is room for the matrices of any one layer.                        *)
RoomForALayer == \A l \in Lru!Layer : Size(l) <= MaxCacheEntries

(* The places of a pass: layer and number; and which comes first.          *)
Places == UNION {{l} \X (1..Size(l)) : l \in Lru!Layer}
Less(p, q) == p[1] < q[1] \/ (p[1] = q[1] /\ p[2] < q[2])

(* The key a place asks for; whether it is one of a feed-forward block.    *)
KeyOf(p) == Lru!KeyAt(p[1], p[2])
InFfn(p) == Lru!IsFfn(KeyOf(p))

(* The places whose key is in the map; the pairs of places whose keys      *)
(* stand in the list in that order; and the place that comes.              *)
Held(map) == {p \in Places : KeyOf(p) \in map}
Order(list) == {d \in Places \X Places : Lru!Precedes(list, KeyOf(d[1]), KeyOf(d[2]))}
Here == <<layer, at>>

-----------------------------------------------------------------------------
(* The invariant, on Metal: of the places U that are held, the order B of  *)
(* their keys, the place a that comes and the number n of keys.             *)

(* A key is missing before the place that comes, or before one that is     *)
(* held, only when keys have been evicted.                                  *)
MissingIsEvicted(U, a, n) ==
  \A m \in Places : m \notin U /\ (Less(m, a) \/ \E u \in U : Less(m, u)) => n = MaxCacheEntries

(* While a key of a former pass is held for a place to come, all that this *)
(* pass has been at is held.                                                *)
PastIsHeld(U, a) ==
  \A u \in U, m \in Places : ~Less(u, a) /\ Less(m, a) => m \in U

(* A projection that this pass has used is younger than a key whose place  *)
(* is still to come.                                                        *)
ComingIsOlder(U, B, a) ==
  \A f, u \in U : ~InFfn(f) /\ Less(f, a) /\ ~Less(u, a) => <<u, f>> \in B

(* The projections this pass has used stand in their order.                *)
ProjectionsInOrder(U, B, a) ==
  \A f, u \in U : ~InFfn(f) /\ ~InFfn(u) /\ Less(f, u) /\ Less(u, a) => <<f, u>> \in B

(* Between a feed-forward key and a younger one of a later place nothing   *)
(* is missing.                                                              *)
NoGapAfterFfn(U, B) ==
  \A f, u \in U, m \in Places : InFfn(f) /\ <<f, u>> \in B /\ Less(f, m) /\ Less(m, u) => m \in U

(* If something is missing before a feed-forward key, no key of a later    *)
(* place is older than it.                                                  *)
GapBeforeFfn(U, B) ==
  \A g, u \in U, m \in Places : InFfn(g) /\ m \notin U /\ Less(m, g) /\ Less(g, u) =>
    <<u, g>> \notin B

(* From a feed-forward key that is held to the place that comes nothing is *)
(* missing, and nothing is older than it.                                   *)
NoGapSinceFfn(U, a) ==
  \A f \in U, m \in Places : InFfn(f) /\ Less(f, m) /\ Less(m, a) => m \in U
SinceFfnIsYounger(U, B, a) ==
  \A g, u \in U : InFfn(g) /\ Less(g, u) /\ Less(u, a) => <<g, u>> \in B

(* Two feed-forward keys that stand against their places have a gap        *)
(* between them.                                                            *)
GapWhereTurned(U, B) ==
  \A g, u \in U : InFfn(g) /\ InFfn(u) /\ Less(g, u) /\ <<u, g>> \in B =>
    \E m \in Places : m \notin U /\ Less(g, m) /\ Less(m, u)

(* What the layer has been at is held; at the end of a layer, all of it.   *)
LayerIsHeld(U, a) ==
  \A p \in Places : (p[1] = a[1] \/ (a[2] = 1 /\ p[1] = a[1] - 1)) /\ Less(p, a) => p \in U

(* The first matrices of the first feed-forward block are held while       *)
(* they may be needed as older than what is left of a later one: when a    *)
(* feed-forward key of this layer stands before a projection that this     *)
(* pass used earlier.                                                       *)
FirstFfn == <<0, Len(Mixer[0]) + 1>>
SecondFfn == <<0, Len(Mixer[0]) + 2>>
FirstBlockIsHeld(U, B, a) ==
  \A e, f \in U :
    a[1] > 0 /\ InFfn(e) /\ e[1] = a[1] /\ Less(e, a) /\ ~InFfn(f) /\ Less(f, e)
      /\ <<e, f>> \in B =>
      /\ a[2] <= e[2] + 2 => SecondFfn \in U
      /\ a[2] <= e[2] + 1 => FirstFfn \in U

(* All of it.                                                              *)
Shape(U, B, a, n) ==
  /\ MissingIsEvicted(U, a, n) /\ PastIsHeld(U, a) /\ ComingIsOlder(U, B, a)
  /\ ProjectionsInOrder(U, B, a) /\ NoGapAfterFfn(U, B) /\ GapBeforeFfn(U, B)
  /\ NoGapSinceFfn(U, a) /\ SinceFfnIsYounger(U, B, a) /\ GapWhereTurned(U, B)

(* With room for a layer.                                                   *)
Layered(U, B, a) == LayerIsHeld(U, a) /\ FirstBlockIsHeld(U, B, a)

(* The invariant of the places, and its part for a cache with room for a   *)
(* layer, of the state.                                                    *)
Shaped == Shape(Held(weight_cache), Order(lru_order), Here, Cardinality(weight_cache))
Roomy == RoomForALayer => Layered(Held(weight_cache), Order(lru_order), Here)

-----------------------------------------------------------------------------
(* Places and keys                                                         *)

(* The matrices of a feed-forward block are three.                         *)
LEMMA FfnNames == Lru!Range(Lru!FfnWeights) = {"w1", "w3", "w2"}
<1>1. DOMAIN Lru!FfnWeights = 1..3 /\ Lru!FfnWeights[1] = "w1" /\ Lru!FfnWeights[2] = "w3"
        /\ Lru!FfnWeights[3] = "w2"
  BY DEF Lru!FfnWeights
<1>2. 1..3 = {1, 2, 3}
  OBVIOUS
<1> QED
  BY <1>1, <1>2 DEF Lru!Range

(* What is at the places of a concatenation.                               *)
LEMMA ConcatFacts ==
  ASSUME NEW S, NEW T, NEW s \in Seq(S), NEW t \in Seq(T)
  PROVE  /\ Len(s) \in Nat /\ Len(s \o t) = Len(s) + Len(t)
         /\ \A i \in 1..Len(s) : (s \o t)[i] = s[i]
         /\ \A i \in 1..Len(t) : (s \o t)[Len(s) + i] = t[i]
<1>1. \A i \in 1..Len(t) : /\ Len(s) + i \in 1..(Len(s) + Len(t))
                           /\ Len(s) + i > Len(s) /\ Len(s) + i - Len(s) = i
  OBVIOUS
<1> QED
  BY <1>1

(* The matrices of a layer: the projections, then the three.               *)
LEMMA LayerFacts ==
  ASSUME Lru!LruAssumption, NEW l \in Lru!Layer
  PROVE  /\ Len(Mixer[l]) \in Nat
         /\ Size(l) = Len(Mixer[l]) + 3
         /\ \A i \in 1..Len(Mixer[l]) :
              /\ Lru!LayerWeights(l)[i] = Mixer[l][i]
              /\ Lru!LayerWeights(l)[i] \notin Lru!Range(Lru!FfnWeights)
         /\ Lru!LayerWeights(l)[Len(Mixer[l]) + 1] = "w1"
         /\ Lru!LayerWeights(l)[Len(Mixer[l]) + 2] = "w3"
         /\ Lru!LayerWeights(l)[Len(Mixer[l]) + 3] = "w2"
<1>1. Mixer[l] \in Seq(STRING) /\ Lru!Range(Mixer[l]) \cap Lru!Range(Lru!FfnWeights) = {}
  BY DEF Lru!LruAssumption
<1>2. Lru!FfnWeights \in Seq({"w1", "w3", "w2"}) /\ Len(Lru!FfnWeights) = 3
  BY DEF Lru!FfnWeights
<1>3. Lru!FfnWeights[1] = "w1" /\ Lru!FfnWeights[2] = "w3" /\ Lru!FfnWeights[3] = "w2"
  BY DEF Lru!FfnWeights
<1> DEFINE S == STRING  T == {"w1", "w3", "w2"}
<1>a. Mixer[l] \in Seq(S) /\ Lru!FfnWeights \in Seq(T)
  BY <1>1, <1>2
<1> HIDE DEF S, T
<1>b. /\ Len(Mixer[l]) \in Nat
      /\ Len(Mixer[l] \o Lru!FfnWeights) = Len(Mixer[l]) + Len(Lru!FfnWeights)
      /\ \A i \in 1..Len(Mixer[l]) : (Mixer[l] \o Lru!FfnWeights)[i] = Mixer[l][i]
      /\ \A i \in 1..Len(Lru!FfnWeights) :
           (Mixer[l] \o Lru!FfnWeights)[Len(Mixer[l]) + i] = Lru!FfnWeights[i]
  BY <1>a, ConcatFacts
<1>4. Len(Mixer[l]) \in Nat /\ Size(l) = Len(Mixer[l]) + 3
  BY <1>2, <1>b DEF Size, Lru!LayerWeights
<1>5. \A i \in 1..Len(Mixer[l]) : Lru!LayerWeights(l)[i] = Mixer[l][i]
  BY <1>2, <1>b DEF Lru!LayerWeights
<1>6. \A i \in 1..Len(Mixer[l]) : Mixer[l][i] \in Lru!Range(Mixer[l])
  BY <1>1 DEF Lru!Range
<1>7. \A i \in 1..3 : Lru!LayerWeights(l)[Len(Mixer[l]) + i] = Lru!FfnWeights[i]
  BY <1>2, <1>b DEF Lru!LayerWeights
<1> QED
  BY <1>1, <1>3, <1>4, <1>5, <1>6, <1>7

(* A place is a layer of the model and the number of one of its matrices.  *)
LEMMA PlaceFacts ==
  ASSUME Lru!LruAssumption
  PROVE  /\ \A p \in Places : /\ p = <<p[1], p[2]>> /\ p \in Nat \X Nat
                              /\ p[1] \in Lru!Layer /\ p[1] < NumLayers
                              /\ p[2] \in 1..Size(p[1])
         /\ \A l \in Lru!Layer : \A i \in 1..Size(l) : <<l, i>> \in Places
<1>1. NumLayers \in Nat /\ Lru!Layer = 0..(NumLayers - 1)
  BY DEF Lru!LruAssumption, Lru!Layer
<1> QED
  BY <1>1 DEF Places

(* A feed-forward place is one of the last three of its layer.             *)
LEMMA FfnPlaces ==
  ASSUME Lru!LruAssumption, NEW p \in Places
  PROVE  /\ Len(Mixer[p[1]]) \in Nat /\ Size(p[1]) = Len(Mixer[p[1]]) + 3
         /\ InFfn(p) <=> p[2] > Len(Mixer[p[1]])
<1>1. p[1] \in Lru!Layer /\ p[2] \in 1..Size(p[1])
  BY PlaceFacts
<1> DEFINE l == p[1]  n == Len(Mixer[l])
<1>2. n \in Nat /\ Size(l) = n + 3
  BY <1>1, LayerFacts
<1>3. InFfn(p) <=> Lru!LayerWeights(l)[p[2]] \in Lru!Range(Lru!FfnWeights)
  BY DEF InFfn, Lru!IsFfn, KeyOf, Lru!KeyAt
<1>4. CASE p[2] <= n
  BY <1>1, <1>2, <1>3, <1>4, LayerFacts
<1>5. CASE p[2] > n
  <2>1. p[2] = n + 1 \/ p[2] = n + 2 \/ p[2] = n + 3
    BY <1>1, <1>2, <1>5
  <2>2. Lru!LayerWeights(l)[p[2]] \in {"w1", "w3", "w2"}
    BY <1>1, <2>1, LayerFacts
  <2> QED
    BY <1>2, <1>3, <1>5, <2>2, FfnNames
<1> QED
  BY <1>1, <1>2, <1>4, <1>5

(* No two places ask for the same key.                                     *)
LEMMA KeysDiffer ==
  ASSUME Lru!LruAssumption, NEW p \in Places, NEW q \in Places, KeyOf(p) = KeyOf(q)
  PROVE  p = q
<1> DEFINE l == p[1]  n == Len(Mixer[l])
<1>1. p[1] = q[1] /\ Lru!LayerWeights(l)[p[2]] = Lru!LayerWeights(l)[q[2]]
  BY DEF KeyOf, Lru!KeyAt
<1>2. l \in Lru!Layer /\ p[2] \in 1..Size(l) /\ q[2] \in 1..Size(l) /\ p = <<p[1], p[2]>>
        /\ q = <<q[1], q[2]>>
  BY <1>1, PlaceFacts
<1>3. InFfn(p) <=> InFfn(q)
  BY DEF InFfn
<1>4. n \in Nat /\ Size(l) = n + 3 /\ (p[2] > n <=> q[2] > n)
  BY <1>1, <1>3, FfnPlaces
<1>5. CASE p[2] <= n
  <2>1. p[2] \in 1..n /\ q[2] \in 1..n
    BY <1>2, <1>4, <1>5
  <2>2. Mixer[l][p[2]] = Mixer[l][q[2]]
    BY <1>1, <1>2, <2>1, LayerFacts
  <2>3. Lru!IsInjective(Mixer[l]) /\ DOMAIN Mixer[l] = 1..n
    BY <1>2 DEF Lru!LruAssumption
  <2>4. p[2] = q[2]
    BY <2>1, <2>2, <2>3 DEF Lru!IsInjective
  <2> QED
    BY <1>1, <1>2, <2>4
<1>6. CASE p[2] > n
  <2>1. /\ p[2] = n + 1 \/ p[2] = n + 2 \/ p[2] = n + 3
        /\ q[2] = n + 1 \/ q[2] = n + 2 \/ q[2] = n + 3
    BY <1>2, <1>4, <1>6
  <2>2. /\ Lru!LayerWeights(l)[n + 1] = "w1" /\ Lru!LayerWeights(l)[n + 2] = "w3"
        /\ Lru!LayerWeights(l)[n + 3] = "w2"
    BY <1>2, LayerFacts
  <2>3. p[2] = q[2]
    BY <1>1, <2>1, <2>2
  <2> QED
    BY <1>1, <1>2, <2>3
<1> QED
  BY <1>2, <1>4, <1>5, <1>6

(* Less is a total order.                                                  *)
LEMMA LessIsOrder ==
  ASSUME NEW p \in Nat \X Nat, NEW q \in Nat \X Nat
  PROVE  /\ ~Less(p, p)
         /\ Less(p, q) => ~Less(q, p)
         /\ p # q => Less(p, q) \/ Less(q, p)
         /\ \A r \in Nat \X Nat : Less(p, q) /\ Less(q, r) => Less(p, r)
<1>1. p = <<p[1], p[2]>> /\ q = <<q[1], q[2]>> /\ {p[1], p[2], q[1], q[2]} \subseteq Nat
  OBVIOUS
<1>2. ASSUME NEW r \in Nat \X Nat, Less(p, q), Less(q, r)
      PROVE  Less(p, r)
  <2>1. r[1] \in Nat /\ r[2] \in Nat
    OBVIOUS
  <2> QED
    BY <1>1, <1>2, <2>1 DEF Less
<1>3. p # q => p[1] # q[1] \/ p[2] # q[2]
  BY <1>1
<1> QED
  BY <1>1, <1>2, <1>3 DEF Less

(* The place after a.                                                      *)
After(a) == IF a[2] < Size(a[1]) THEN <<a[1], a[2] + 1>> ELSE <<a[1] + 1, 1>>

(* What is before the place after a is a and what is before a.             *)
LEMMA AfterFacts ==
  ASSUME Lru!LruAssumption, NEW a \in Places
  PROVE  /\ After(a) \in Nat \X Nat
         /\ \A p \in Places : Less(p, After(a)) <=> (Less(p, a) \/ p = a)
<1>1. a = <<a[1], a[2]>> /\ a[1] \in Nat /\ a[2] \in 1..Size(a[1]) /\ Size(a[1]) \in Nat
  BY PlaceFacts, FfnPlaces
<1>2. After(a) \in Nat \X Nat
  BY <1>1 DEF After
<1>3. ASSUME NEW p \in Places
      PROVE  Less(p, After(a)) <=> (Less(p, a) \/ p = a)
  <2>1. p = <<p[1], p[2]>> /\ p[1] \in Nat /\ p[2] \in 1..Size(p[1]) /\ Size(p[1]) \in Nat
    BY PlaceFacts, FfnPlaces
  <2>2. p = a <=> p[1] = a[1] /\ p[2] = a[2]
    BY <1>1, <2>1
  <2>3. CASE a[2] < Size(a[1])
    <3>1. After(a)[1] = a[1] /\ After(a)[2] = a[2] + 1
      BY <2>3 DEF After
    <3> QED
      BY <1>1, <2>1, <2>2, <3>1 DEF Less
  <2>4. CASE ~(a[2] < Size(a[1]))
    <3>1. After(a)[1] = a[1] + 1 /\ After(a)[2] = 1 /\ a[2] = Size(a[1])
      BY <1>1, <2>4 DEF After
    <3>2. p[1] = a[1] => p[2] <= a[2]
      BY <2>1, <3>1
    <3> QED
      BY <1>1, <2>1, <2>2, <3>1, <3>2 DEF Less
  <2> QED
    BY <2>3, <2>4
<1> QED
  BY <1>2, <1>3

-----------------------------------------------------------------------------
(* Lists of keys                                                           *)

(* What is at the places of a list with one thing more.                    *)
LEMMA AppendedFacts ==
  ASSUME NEW K, NEW s \in Seq(K), NEW e \in K
  PROVE  /\ Append(s, e) \in Seq(K) /\ Len(Append(s, e)) = Len(s) + 1
         /\ \A i \in 1..Len(s) : Append(s, e)[i] = s[i]
         /\ Append(s, e)[Len(s) + 1] = e
  OBVIOUS

(* The last place of a list, or one before it.                             *)
LEMMA LastOrBefore ==
  ASSUME NEW n \in Nat, NEW i \in 1..n
  PROVE  i = n \/ i < n
  OBVIOUS

(* A list of keys that names none twice.                                   *)
LEMMA ListFacts ==
  ASSUME NEW K, NEW list \in Seq(K), Lru!IsInjective(list), NEW x, NEW y
  PROVE  /\ Lru!Precedes(list, x, y) => x # y /\ x \in Lru!Range(list) /\ y \in Lru!Range(list)
         /\ Lru!Precedes(list, x, y) => ~Lru!Precedes(list, y, x)
         /\ x \in Lru!Range(list) /\ y \in Lru!Range(list) /\ x # y =>
              Lru!Precedes(list, x, y) \/ Lru!Precedes(list, y, x)
<1>1. DOMAIN list = 1..Len(list) /\ Len(list) \in Nat
  OBVIOUS
<1>2. Lru!Precedes(list, x, y) => x # y /\ x \in Lru!Range(list) /\ y \in Lru!Range(list)
  BY <1>1 DEF Lru!Precedes, Lru!IsInjective, Lru!Range
<1>3. Lru!Precedes(list, x, y) => ~Lru!Precedes(list, y, x)
  <2> SUFFICES ASSUME Lru!Precedes(list, x, y), Lru!Precedes(list, y, x) PROVE FALSE
    OBVIOUS
  <2>1. PICK i, j \in 1..Len(list) : i < j /\ list[i] = x /\ list[j] = y
    BY <1>1 DEF Lru!Precedes
  <2>2. PICK i2, j2 \in 1..Len(list) : i2 < j2 /\ list[i2] = y /\ list[j2] = x
    BY <1>1 DEF Lru!Precedes
  <2>3. i = j2 /\ j = i2
    BY <1>1, <2>1, <2>2 DEF Lru!IsInjective
  <2> QED
    BY <1>1, <2>1, <2>2, <2>3
<1>4. ASSUME x \in Lru!Range(list), y \in Lru!Range(list), x # y
      PROVE  Lru!Precedes(list, x, y) \/ Lru!Precedes(list, y, x)
  <2>1. PICK i \in 1..Len(list) : list[i] = x
    BY <1>1, <1>4 DEF Lru!Range
  <2>2. PICK j \in 1..Len(list) : list[j] = y
    BY <1>1, <1>4 DEF Lru!Range
  <2>3. i < j \/ j < i
    BY <1>1, <1>4, <2>1, <2>2
  <2> QED
    BY <1>1, <2>1, <2>2, <2>3 DEF Lru!Precedes
<1> QED
  BY <1>2, <1>3, <1>4

(* A key that is taken out and pushed is the last; the others stay.        *)
LEMMA MovedIs ==
  ASSUME NEW K, NEW list \in Seq(K), NEW p \in DOMAIN list
  PROVE  LET new == Append(Lru!RemoveAt(list, p), list[p]) IN
         /\ new \in Seq(K) /\ Len(new) = Len(list)
         /\ \A i \in 1..Len(list) :
              new[i] = IF i < p THEN list[i] ELSE IF i < Len(list) THEN list[i + 1] ELSE list[p]
<1> DEFINE n == Len(list)  left == SubSeq(list, 1, p - 1)  right == SubSeq(list, p + 1, n)
<1>1. n \in Nat /\ p \in 1..n /\ DOMAIN list = 1..n /\ \A i \in 1..n : list[i] \in K
  OBVIOUS
<1>2. /\ left \in Seq(K) /\ Len(left) = p - 1
      /\ \A i \in 1..(p - 1) : left[i] = list[i]
  BY <1>1
<1>3. /\ right \in Seq(K) /\ Len(right) = n - p
      /\ \A i \in 1..(n - p) : right[i] = list[p + i]
  <2>1. right \in Seq(K) /\ Len(right) = n - p
    BY <1>1
  <2>2. ASSUME NEW i \in 1..(n - p)
        PROVE  right[i] = list[p + i]
    <3>1. right[i] = list[(p + 1) + i - 1] /\ (p + 1) + i - 1 = p + i
      BY <1>1
    <3> QED
      BY <3>1
  <2> QED
    BY <2>1, <2>2
<1> HIDE DEF left, right
<1>4. /\ left \o right \in Seq(K) /\ Len(left \o right) = n - 1
      /\ \A i \in 1..(p - 1) : (left \o right)[i] = list[i]
      /\ \A i \in 1..(n - p) : (left \o right)[(p - 1) + i] = list[p + i]
  <2>1. left \o right \in Seq(K)
    BY <1>2, <1>3
  <2>2. /\ Len(left \o right) = Len(left) + Len(right)
        /\ \A i \in 1..Len(left) : (left \o right)[i] = left[i]
        /\ \A i \in 1..Len(right) : (left \o right)[Len(left) + i] = right[i]
    <3>1. left \in Seq(K) /\ right \in Seq(K)
      BY <1>2, <1>3
    <3> QED
      BY <3>1, ConcatFacts
  <2>3. Len(left) + Len(right) = n - 1
    BY <1>1, <1>2, <1>3
  <2> QED
    BY <1>2, <1>3, <2>1, <2>2, <2>3
<1>5. \A i \in p..(n - 1) : (left \o right)[i] = list[i + 1]
  <2> SUFFICES ASSUME NEW i \in p..(n - 1) PROVE (left \o right)[i] = list[i + 1]
    OBVIOUS
  <2>1. i - p + 1 \in 1..(n - p) /\ (p - 1) + (i - p + 1) = i /\ p + (i - p + 1) = i + 1
    BY <1>1
  <2>2. (left \o right)[(p - 1) + (i - p + 1)] = list[p + (i - p + 1)]
    BY <1>4, <2>1
  <2> QED
    BY <2>1, <2>2
<1> DEFINE rest == left \o right
<1>6. Lru!RemoveAt(list, p) = rest
  BY DEF Lru!RemoveAt, left, right
<1> HIDE DEF rest
<1>7. rest \in Seq(K) /\ Len(rest) = n - 1 /\ list[p] \in K
  BY <1>1, <1>4 DEF rest
<1>8. /\ Append(rest, list[p]) \in Seq(K) /\ Len(Append(rest, list[p])) = n
      /\ \A i \in 1..(n - 1) : Append(rest, list[p])[i] = rest[i]
      /\ Append(rest, list[p])[n] = list[p]
  <2> DEFINE e == list[p]
  <2> HIDE DEF e
  <2>1. e \in K
    BY <1>7 DEF e
  <2>2. /\ Append(rest, e) \in Seq(K) /\ Len(Append(rest, e)) = Len(rest) + 1
        /\ \A i \in 1..Len(rest) : Append(rest, e)[i] = rest[i]
        /\ Append(rest, e)[Len(rest) + 1] = e
    BY <1>7, <2>1, AppendedFacts
  <2>3. Len(rest) + 1 = n
    BY <1>1, <1>7
  <2> QED
    BY <1>7, <2>2, <2>3 DEF e
<1>9. ASSUME NEW i \in 1..n
      PROVE  Append(rest, list[p])[i] =
               IF i < p THEN list[i] ELSE IF i < Len(list) THEN list[i + 1] ELSE list[p]
  <2>1. CASE i < p
    <3>1. i \in 1..(n - 1) /\ i \in 1..(p - 1)
      BY <1>1, <2>1
    <3>2. Append(rest, list[p])[i] = list[i]
      BY <1>4, <1>8, <3>1 DEF rest
    <3> QED
      BY <2>1, <3>2
  <2>2. CASE ~(i < p) /\ i < n
    <3>1. i \in 1..(n - 1) /\ i \in p..(n - 1)
      BY <1>1, <2>2
    <3>2. Append(rest, list[p])[i] = list[i + 1]
      BY <1>5, <1>8, <3>1 DEF rest
    <3> QED
      BY <2>2, <3>2
  <2>3. CASE i = n
    <3>1. ~(i < p) /\ ~(i < n)
      BY <1>1, <2>3
    <3> QED
      BY <1>8, <2>3, <3>1
  <2>4. i < n \/ i = n
    BY <1>1, LastOrBefore
  <2> QED
    BY <2>1, <2>2, <2>3, <2>4
<1> QED
  BY <1>6, <1>8, <1>9

(* A list with a key moved to its end holds the same keys, each once; the  *)
(* key comes after all others, which keep their order.                     *)
LEMMA MovedFacts ==
  ASSUME NEW K, NEW list \in Seq(K), Lru!IsInjective(list), NEW key \in Lru!Range(list)
  PROVE  /\ Lru!MovedToEnd(list, key) \in Seq(K) /\ Lru!IsInjective(Lru!MovedToEnd(list, key))
         /\ Lru!Range(Lru!MovedToEnd(list, key)) = Lru!Range(list)
         /\ \A x, y : Lru!Precedes(Lru!MovedToEnd(list, key), x, y) <=>
              (x # key /\ ((y = key /\ x \in Lru!Range(list))
                \/ (y # key /\ Lru!Precedes(list, x, y))))
<1> DEFINE n == Len(list)  p == Lru!Position(list, key)  new == Lru!MovedToEnd(list, key)
<1>1. n \in Nat /\ DOMAIN list = 1..n
  OBVIOUS
<1>2. p \in 1..n /\ list[p] = key
  <2>1. PICK i \in 1..n : list[i] = key
    BY <1>1 DEF Lru!Range
  <2>2. \A j \in 1..(i - 1) : list[j] # key
    BY <1>1, <2>1 DEF Lru!IsInjective
  <2> QED
    BY <1>1, <2>1, <2>2 DEF Lru!Position
<1>3. /\ new \in Seq(K) /\ Len(new) = n
      /\ \A i \in 1..n :
           new[i] = IF i < p THEN list[i] ELSE IF i < n THEN list[i + 1] ELSE key
  <2>1. new = Append(Lru!RemoveAt(list, p), list[p])
    BY <1>2 DEF Lru!MovedToEnd
  <2> HIDE DEF p, new
  <2> QED
    BY <1>1, <1>2, <2>1, MovedIs
<1>4. DOMAIN new = 1..n
  BY <1>3
<1> HIDE DEF p, new
<1>5. \A i, j \in 1..n : list[i] = list[j] => i = j
  BY <1>1 DEF Lru!IsInjective
<1>6. \A i, j \in 1..n : new[i] = new[j] => i = j
  <2> SUFFICES ASSUME NEW i \in 1..n, NEW j \in 1..n, new[i] = new[j] PROVE i = j
    OBVIOUS
  <2> DEFINE from(k) == IF k < p THEN k ELSE IF k < n THEN k + 1 ELSE p
  <2>1. from(i) \in 1..n /\ new[i] = list[from(i)] /\ from(j) \in 1..n /\ new[j] = list[from(j)]
    BY <1>1, <1>2, <1>3
  <2>2. from(i) = from(j)
    BY <1>5, <2>1
  <2> QED
    BY <1>1, <1>2, <2>2
<1>7. Lru!Range(new) = Lru!Range(list)
  <2>1. \A i \in 1..n : \E k \in 1..n : new[i] = list[k]
    <3> SUFFICES ASSUME NEW i \in 1..n PROVE \E k \in 1..n : new[i] = list[k]
      OBVIOUS
    <3> DEFINE k == IF i < p THEN i ELSE IF i < n THEN i + 1 ELSE p
    <3>1. k \in 1..n /\ new[i] = list[k]
      BY <1>1, <1>2, <1>3
    <3> QED
      BY <3>1
  <2>2. \A k \in 1..n : \E i \in 1..n : new[i] = list[k]
    <3> SUFFICES ASSUME NEW k \in 1..n PROVE \E i \in 1..n : new[i] = list[k]
      OBVIOUS
    <3> DEFINE i == IF k < p THEN k ELSE IF k = p THEN n ELSE k - 1
    <3>1. i \in 1..n /\ new[i] = list[k]
      BY <1>1, <1>2, <1>3
    <3> QED
      BY <3>1
  <2>3. \A x : x \in Lru!Range(new) <=> \E i \in 1..n : x = new[i]
    BY <1>4 DEF Lru!Range
  <2>4. \A x : x \in Lru!Range(list) <=> \E i \in 1..n : x = list[i]
    BY <1>1 DEF Lru!Range
  <2> QED
    BY <2>1, <2>2, <2>3, <2>4
<1>8. ASSUME NEW x, NEW y
      PROVE  Lru!Precedes(new, x, y) <=>
               (x # key /\ ((y = key /\ x \in Lru!Range(list))
                 \/ (y # key /\ Lru!Precedes(list, x, y))))
  <2>1. ASSUME Lru!Precedes(new, x, y)
        PROVE  x # key /\ ((y = key /\ x \in Lru!Range(list))
                 \/ (y # key /\ Lru!Precedes(list, x, y)))
    <3>1. PICK i, j \in 1..n : i < j /\ new[i] = x /\ new[j] = y
      BY <1>4, <2>1 DEF Lru!Precedes
    <3> DEFINE k == IF i < p THEN i ELSE i + 1
    <3>2. k \in 1..n /\ k # p /\ x = list[k]
      BY <1>1, <1>2, <1>3, <3>1
    <3>3. x # key /\ x \in Lru!Range(list)
      BY <1>1, <1>2, <1>5, <3>2 DEF Lru!Range
    <3>4. CASE j = n
      <4>1. y = key
        BY <1>1, <1>2, <1>3, <3>1, <3>4
      <4> QED
        BY <3>3, <4>1
    <3>5. CASE j < n
      <4> DEFINE m == IF j < p THEN j ELSE j + 1
      <4>1. m \in 1..n /\ k < m /\ y = list[m] /\ m # p
        BY <1>1, <1>2, <1>3, <3>1, <3>5
      <4>2. y # key
        BY <1>2, <1>5, <4>1
      <4> QED
        BY <1>1, <3>2, <3>3, <4>1, <4>2 DEF Lru!Precedes
    <3>6. j = n \/ j < n
      BY <1>1, LastOrBefore
    <3> QED
      BY <3>4, <3>5, <3>6
  <2>2. ASSUME x # key, y = key, x \in Lru!Range(list)
        PROVE  Lru!Precedes(new, x, y)
    <3>1. PICK k \in 1..n : list[k] = x
      BY <1>1, <2>2 DEF Lru!Range
    <3> DEFINE i == IF k < p THEN k ELSE k - 1
    <3>2. i \in 1..n /\ n \in 1..n /\ i < n /\ new[i] = x /\ new[n] = y
      BY <1>1, <1>2, <1>3, <2>2, <3>1
    <3> QED
      BY <1>4, <3>2 DEF Lru!Precedes
  <2>3. ASSUME x # key, y # key, Lru!Precedes(list, x, y)
        PROVE  Lru!Precedes(new, x, y)
    <3>1. PICK k, m \in 1..n : k < m /\ list[k] = x /\ list[m] = y
      BY <1>1, <2>3 DEF Lru!Precedes
    <3> DEFINE i == IF k < p THEN k ELSE k - 1
               j == IF m < p THEN m ELSE m - 1
    <3>2. k # p /\ m # p
      BY <1>2, <2>3, <3>1
    <3>3. i \in 1..n /\ j \in 1..n /\ i < j
      BY <1>1, <1>2, <3>1, <3>2
    <3>4. new[i] = x /\ new[j] = y
      BY <1>1, <1>2, <1>3, <3>1, <3>2
    <3> QED
      BY <1>4, <3>3, <3>4 DEF Lru!Precedes
  <2> QED
    BY <2>1, <2>2, <2>3
<1> QED
  BY <1>3, <1>4, <1>6, <1>7, <1>8 DEF new, Lru!IsInjective

(* Without its head.                                                       *)
LEMMA TailFacts ==
  ASSUME NEW K, NEW list \in Seq(K), Lru!IsInjective(list), list # <<>>
  PROVE  /\ Head(list) \in Lru!Range(list)
         /\ Tail(list) \in Seq(K) /\ Lru!IsInjective(Tail(list))
         /\ Lru!Range(Tail(list)) = Lru!Range(list) \ {Head(list)}
         /\ \A x \in Lru!Range(list) : x # Head(list) => Lru!Precedes(list, Head(list), x)
         /\ \A x, y : Lru!Precedes(Tail(list), x, y) <=>
              (x # Head(list) /\ Lru!Precedes(list, x, y))
<1> DEFINE n == Len(list)  new == Tail(list)  h == Head(list)
<1>1. n \in Nat \ {0} /\ DOMAIN list = 1..n /\ h = list[1]
  OBVIOUS
<1>2. new \in Seq(K) /\ DOMAIN new = 1..(n - 1) /\ \A i \in 1..(n - 1) : new[i] = list[i + 1]
  OBVIOUS
<1> HIDE DEF new, h
<1>3. \A i, j \in 1..n : list[i] = list[j] => i = j
  BY <1>1 DEF Lru!IsInjective
<1>4. \A i, j \in 1..(n - 1) : new[i] = new[j] => i = j
  BY <1>1, <1>2, <1>3
<1>5. h \in Lru!Range(list)
  BY <1>1 DEF Lru!Range
<1>6. Lru!Range(new) = Lru!Range(list) \ {h}
  <2>1. \A i \in 1..(n - 1) : \E k \in 1..n : k # 1 /\ new[i] = list[k]
    BY <1>1, <1>2
  <2>2. \A k \in 1..n : k # 1 => k - 1 \in 1..(n - 1) /\ new[k - 1] = list[k]
    BY <1>1, <1>2
  <2>3. \A x : x \in Lru!Range(new) <=> \E i \in 1..(n - 1) : x = new[i]
    BY <1>2 DEF Lru!Range
  <2>4. \A x : x \in Lru!Range(list) <=> \E i \in 1..n : x = list[i]
    BY <1>1 DEF Lru!Range
  <2>5. 1 \in 1..n /\ list[1] = h
    BY <1>1
  <2>6. ASSUME NEW x \in Lru!Range(new)
        PROVE  x \in Lru!Range(list) /\ x # h
    <3>1. PICK i \in 1..(n - 1) : x = new[i]
      BY <2>3
    <3>2. PICK k \in 1..n : k # 1 /\ x = list[k]
      BY <2>1, <3>1
    <3> QED
      BY <1>3, <2>4, <2>5, <3>2
  <2>7. ASSUME NEW x \in Lru!Range(list), x # h
        PROVE  x \in Lru!Range(new)
    <3>1. PICK k \in 1..n : x = list[k]
      BY <2>4
    <3> QED
      BY <2>2, <2>3, <2>5, <2>7, <3>1
  <2> QED
    BY <2>6, <2>7
<1>7. \A x \in Lru!Range(list) : x # h => Lru!Precedes(list, h, x)
  <2> SUFFICES ASSUME NEW x \in Lru!Range(list), x # h PROVE Lru!Precedes(list, h, x)
    OBVIOUS
  <2>1. PICK k \in 1..n : list[k] = x
    BY <1>1 DEF Lru!Range
  <2>2. k > 1 /\ 1 \in 1..n
    BY <1>1, <2>1
  <2> QED
    BY <1>1, <2>1, <2>2 DEF Lru!Precedes
<1>8. ASSUME NEW x, NEW y
      PROVE  Lru!Precedes(new, x, y) <=> (x # h /\ Lru!Precedes(list, x, y))
  <2>1. ASSUME Lru!Precedes(new, x, y)
        PROVE  x # h /\ Lru!Precedes(list, x, y)
    <3>1. PICK i, j \in 1..(n - 1) : i < j /\ new[i] = x /\ new[j] = y
      BY <1>2, <2>1 DEF Lru!Precedes
    <3>2. /\ i + 1 \in 1..n /\ j + 1 \in 1..n /\ i + 1 < j + 1 /\ i + 1 # 1
          /\ list[i + 1] = x /\ list[j + 1] = y
      BY <1>1, <1>2, <3>1
    <3> QED
      BY <1>1, <1>3, <3>2 DEF Lru!Precedes
  <2>2. ASSUME x # h, Lru!Precedes(list, x, y)
        PROVE  Lru!Precedes(new, x, y)
    <3>1. PICK k, m \in 1..n : k < m /\ list[k] = x /\ list[m] = y
      BY <1>1, <2>2 DEF Lru!Precedes
    <3>2. k > 1 /\ m > 1
      BY <1>1, <2>2, <3>1
    <3>3. /\ k - 1 \in 1..(n - 1) /\ m - 1 \in 1..(n - 1) /\ k - 1 < m - 1
          /\ new[k - 1] = x /\ new[m - 1] = y
      BY <1>1, <1>2, <3>1, <3>2
    <3> QED
      BY <1>2, <3>3 DEF Lru!Precedes
  <2> QED
    BY <2>1, <2>2
<1> QED
  BY <1>2, <1>4, <1>5, <1>6, <1>7, <1>8 DEF new, h, Lru!IsInjective

(* With another key at its end.                                            *)
LEMMA PushFacts ==
  ASSUME NEW K, NEW list \in Seq(K), Lru!IsInjective(list),
         NEW key \in K, key \notin Lru!Range(list)
  PROVE  /\ Append(list, key) \in Seq(K) /\ Lru!IsInjective(Append(list, key))
         /\ Lru!Range(Append(list, key)) = Lru!Range(list) \cup {key}
         /\ \A x, y : Lru!Precedes(Append(list, key), x, y) <=>
              (Lru!Precedes(list, x, y) \/ (y = key /\ x \in Lru!Range(list)))
<1> DEFINE n == Len(list)  new == Append(list, key)
<1>1. n \in Nat /\ DOMAIN list = 1..n
  OBVIOUS
<1>2. /\ new \in Seq(K) /\ DOMAIN new = 1..(n + 1) /\ new[n + 1] = key
      /\ \A i \in 1..n : new[i] = list[i]
  OBVIOUS
<1> HIDE DEF new
<1>3. \A i \in 1..n : list[i] # key
  BY <1>1 DEF Lru!Range
<1>4. \A i, j \in 1..n : list[i] = list[j] => i = j
  BY <1>1 DEF Lru!IsInjective
<1>5. \A i, j \in 1..(n + 1) : new[i] = new[j] => i = j
  <2>1. \A i \in 1..(n + 1) : i \in 1..n \/ i = n + 1
    BY <1>1
  <2> QED
    BY <1>1, <1>2, <1>3, <1>4, <2>1
<1>6. Lru!Range(new) = Lru!Range(list) \cup {key}
  <2>1. \A i \in 1..(n + 1) : i \in 1..n \/ i = n + 1
    BY <1>1
  <2>2. 1..n \subseteq 1..(n + 1) /\ n + 1 \in 1..(n + 1)
    BY <1>1
  <2> QED
    BY <1>1, <1>2, <2>1, <2>2 DEF Lru!Range
<1>7. ASSUME NEW x, NEW y
      PROVE  Lru!Precedes(new, x, y) <=>
               (Lru!Precedes(list, x, y) \/ (y = key /\ x \in Lru!Range(list)))
  <2>1. ASSUME Lru!Precedes(new, x, y)
        PROVE  Lru!Precedes(list, x, y) \/ (y = key /\ x \in Lru!Range(list))
    <3>1. PICK i, j \in 1..(n + 1) : i < j /\ new[i] = x /\ new[j] = y
      BY <1>2, <2>1 DEF Lru!Precedes
    <3>2. i \in 1..n /\ (j \in 1..n \/ j = n + 1)
      BY <1>1, <3>1
    <3> QED
      BY <1>1, <1>2, <3>1, <3>2 DEF Lru!Precedes, Lru!Range
  <2>2. ASSUME Lru!Precedes(list, x, y)
        PROVE  Lru!Precedes(new, x, y)
    <3>1. PICK i, j \in 1..n : i < j /\ list[i] = x /\ list[j] = y
      BY <1>1, <2>2 DEF Lru!Precedes
    <3>2. i \in 1..(n + 1) /\ j \in 1..(n + 1)
      BY <1>1
    <3> QED
      BY <1>2, <3>1, <3>2 DEF Lru!Precedes
  <2>3. ASSUME y = key, x \in Lru!Range(list)
        PROVE  Lru!Precedes(new, x, y)
    <3>1. PICK i \in 1..n : list[i] = x
      BY <1>1, <2>3 DEF Lru!Range
    <3>2. i \in 1..(n + 1) /\ n + 1 \in 1..(n + 1) /\ i < n + 1
      BY <1>1
    <3> QED
      BY <1>2, <2>3, <3>1, <3>2 DEF Lru!Precedes
  <2> QED
    BY <2>1, <2>2, <2>3
<1> QED
  BY <1>2, <1>5, <1>6, <1>7 DEF new, Lru!IsInjective

-----------------------------------------------------------------------------
(* What a step does to the shape of the list                               *)

(* B is an order of the places U.                                          *)
Ordered(U, B) ==
  /\ \A p, q \in Places : <<p, q>> \in B => p \in U /\ q \in U /\ <<q, p>> \notin B
  /\ \A p, q \in U : p # q => <<p, q>> \in B \/ <<q, p>> \in B

(* The places are in a strict total order.                                 *)
LEMMA PlacesOrdered ==
  ASSUME Lru!LruAssumption
  PROVE  \A p, q \in Places :
           /\ ~Less(p, p) /\ (Less(p, q) => ~Less(q, p)) /\ (p # q => Less(p, q) \/ Less(q, p))
           /\ \A r \in Places : Less(p, q) /\ Less(q, r) => Less(p, r)
<1>1. Places \subseteq Nat \X Nat
  BY PlaceFacts
<1> QED
  BY <1>1, LessIsOrder

(* In a layer the feed-forward matrices come last; and what a place of the *)
(* layer of After(a) is.                                                    *)
LEMMA FfnComeLast ==
  ASSUME Lru!LruAssumption, NEW e \in Places, NEW a \in Places, e[1] = a[1], InFfn(e), Less(e, a)
  PROVE  InFfn(a) /\ a[2] <= e[2] + 2
<1>1. e[2] \in Nat /\ a[2] \in 1..Size(a[1]) /\ a[2] \in Nat /\ e[1] \in Nat
  BY PlaceFacts
<1>2. e[2] < a[2]
  BY <1>1 DEF Less
<1> DEFINE n == Len(Mixer[a[1]])
<1>3. n \in Nat /\ Size(a[1]) = n + 3 /\ (InFfn(a) <=> a[2] > n) /\ e[2] > n
  BY FfnPlaces
<1> QED
  BY <1>1, <1>2, <1>3

(* What is before the place after a, and of its layer or of the one just   *)
(* ended, is of the layer of a.                                            *)
LEMMA AfterInLayer ==
  ASSUME Lru!LruAssumption, NEW a \in Places, NEW p \in Places, Less(p, After(a))
  PROVE  /\ p[1] = After(a)[1] => p[1] = a[1] /\ After(a) = <<a[1], a[2] + 1>>
         /\ After(a)[2] = 1 /\ p[1] = After(a)[1] - 1 => p[1] = a[1]
<1>1. /\ a[1] \in Nat /\ a[2] \in Nat \ {0} /\ p[1] \in Nat /\ p[2] \in Nat \ {0}
  BY PlaceFacts, FfnPlaces
<1>2. CASE a[2] < Size(a[1])
  <2>1. After(a) = <<a[1], a[2] + 1>> /\ After(a)[1] = a[1] /\ After(a)[2] = a[2] + 1
    BY <1>2 DEF After
  <2> QED
    BY <1>1, <2>1
<1>3. CASE ~(a[2] < Size(a[1]))
  <2>1. After(a)[1] = a[1] + 1 /\ After(a)[2] = 1
    BY <1>3 DEF After
  <2>2. ~(p[1] = After(a)[1])
    BY <1>1, <2>1 DEF Less
  <2> QED
    BY <1>1, <2>1, <2>2
<1> QED
  BY <1>2, <1>3

(* The layer after a step: what it had, and a.                             *)
LEMMA LayerGoesOn ==
  ASSUME Lru!LruAssumption, NEW U \in SUBSET Places, NEW V \in SUBSET Places, NEW a \in Places,
         a \in V, \A p \in Places : p[1] = a[1] /\ Less(p, a) => p \in V
  PROVE  LayerIsHeld(V, After(a))
<1> SUFFICES ASSUME NEW p \in Places, Less(p, After(a)),
                    p[1] = After(a)[1] \/ (After(a)[2] = 1 /\ p[1] = After(a)[1] - 1)
             PROVE  p \in V
  BY DEF LayerIsHeld
<1>1. p[1] = a[1]
  BY AfterInLayer
<1>2. Less(p, a) \/ p = a
  BY AfterFacts
<1> QED
  BY <1>1, <1>2

(* The places of the first feed-forward block.                             *)
LEMMA FirstPlaces ==
  ASSUME Lru!LruAssumption
  PROVE  /\ FirstFfn \in Places /\ SecondFfn \in Places /\ InFfn(FirstFfn) /\ InFfn(SecondFfn)
         /\ Less(FirstFfn, SecondFfn)
         /\ \A p \in Places : p[1] > 0 => Less(FirstFfn, p) /\ Less(SecondFfn, p)
<1>1. 0 \in Lru!Layer
  BY DEF Lru!LruAssumption, Lru!Layer
<1> DEFINE n == Len(Mixer[0])
<1>2. n \in Nat /\ Size(0) = n + 3
  BY <1>1, LayerFacts
<1>3. n + 1 \in 1..Size(0) /\ n + 2 \in 1..Size(0)
  BY <1>2
<1>4. FirstFfn \in Places /\ SecondFfn \in Places
  BY <1>1, <1>3, PlaceFacts DEF FirstFfn, SecondFfn
<1>5. FirstFfn[1] = 0 /\ FirstFfn[2] = n + 1 /\ SecondFfn[1] = 0 /\ SecondFfn[2] = n + 2
  BY DEF FirstFfn, SecondFfn
<1>6. InFfn(FirstFfn) /\ InFfn(SecondFfn)
  BY <1>2, <1>4, <1>5, FfnPlaces
<1>7. Less(FirstFfn, SecondFfn)
  BY <1>2, <1>5 DEF Less
<1>8. \A p \in Places : p[1] > 0 => Less(FirstFfn, p) /\ Less(SecondFfn, p)
  BY <1>5 DEF Less
<1> QED
  BY <1>4, <1>6, <1>7, <1>8

(* A hit of a projection: its key is moved to the end.                     *)
Moves(U, B, D, a) ==
  \A p, q \in Places :
    <<p, q>> \in D <=> (p # a /\ ((q = a /\ p \in U) \/ (q # a /\ <<p, q>> \in B)))

(* A projection that is held is used: its key goes to the end of the list. *)
LEMMA ShapeMoved ==
  ASSUME Lru!LruAssumption, NEW U \in SUBSET Places, NEW B, NEW D, NEW a \in Places, NEW n,
         Shape(U, B, a, n), a \in U, ~InFfn(a), Moves(U, B, D, a)
  PROVE  Shape(U, D, After(a), n)
<1> DEFINE b == After(a)
<1>1. \A p \in Places : Less(p, b) <=> (Less(p, a) \/ p = a)
  BY AfterFacts
<1> HIDE DEF b
<1>2. MissingIsEvicted(U, b, n)
  BY <1>1 DEF Shape, MissingIsEvicted
<1>3. PastIsHeld(U, b)
  BY <1>1 DEF Shape, PastIsHeld
<1>4. ComingIsOlder(U, D, b)
  BY <1>1 DEF Shape, ComingIsOlder, Moves
<1>5. ProjectionsInOrder(U, D, b)
  BY <1>1, PlacesOrdered DEF Shape, ProjectionsInOrder, Moves
<1>6. NoGapAfterFfn(U, D)
  BY DEF Shape, NoGapAfterFfn, NoGapSinceFfn, Moves
<1>7. GapBeforeFfn(U, D)
  BY DEF Shape, GapBeforeFfn, Moves
<1>8. NoGapSinceFfn(U, b)
  BY <1>1 DEF Shape, NoGapSinceFfn
<1>9. SinceFfnIsYounger(U, D, b)
  BY <1>1, PlacesOrdered DEF Shape, SinceFfnIsYounger, Moves
<1>10. GapWhereTurned(U, D)
  BY DEF Shape, GapWhereTurned, Moves
<1> QED
  BY <1>2, <1>3, <1>4, <1>5, <1>6, <1>7, <1>8, <1>9, <1>10 DEF Shape, b

(* The same step, with room for a layer.                                   *)
LEMMA LayeredMoved ==
  ASSUME Lru!LruAssumption, NEW U \in SUBSET Places, NEW B, NEW D, NEW a \in Places,
         Layered(U, B, a), a \in U, ~InFfn(a)
  PROVE  Layered(U, D, After(a))
<1>1. LayerIsHeld(U, After(a))
  <2>1. \A p \in Places : p[1] = a[1] /\ Less(p, a) => p \in U
    BY DEF Layered, LayerIsHeld
  <2> QED
    BY <2>1, LayerGoesOn
<1>2. FirstBlockIsHeld(U, D, After(a))
  <2> SUFFICES ASSUME NEW e \in U, InFfn(e), e[1] = After(a)[1], Less(e, After(a)) PROVE FALSE
    BY DEF FirstBlockIsHeld
  <2>1. e[1] = a[1]
    BY AfterInLayer
  <2>2. Less(e, a) \/ e = a
    BY AfterFacts
  <2> QED
    BY <2>1, <2>2, FfnComeLast
<1> QED
  BY <1>1, <1>2 DEF Layered

(* A feed-forward matrix that is held: nothing moves.                      *)
LEMMA ShapeStays ==
  ASSUME Lru!LruAssumption, NEW U \in SUBSET Places, NEW B, NEW a \in Places, NEW n,
         Shape(U, B, a, n), Ordered(U, B), a \in U, InFfn(a)
  PROVE  Shape(U, B, After(a), n)
<1> DEFINE b == After(a)
<1>1. \A p \in Places : Less(p, b) <=> (Less(p, a) \/ p = a)
  BY AfterFacts
<1> HIDE DEF b
<1>2. MissingIsEvicted(U, b, n)
  BY <1>1 DEF Shape, MissingIsEvicted
<1>3. PastIsHeld(U, b)
  BY <1>1 DEF Shape, PastIsHeld
<1>4. ComingIsOlder(U, B, b)
  BY <1>1 DEF Shape, ComingIsOlder
<1>5. ProjectionsInOrder(U, B, b)
  BY <1>1 DEF Shape, ProjectionsInOrder
<1>6. NoGapSinceFfn(U, b)
  BY <1>1 DEF Shape, NoGapSinceFfn
<1>7. SinceFfnIsYounger(U, B, b)
  <2> SUFFICES ASSUME NEW g \in U, NEW u \in U, InFfn(g), Less(g, u), Less(u, b)
               PROVE  <<g, u>> \in B
    BY DEF SinceFfnIsYounger
  <2>1. CASE Less(u, a)
    BY <2>1 DEF Shape, SinceFfnIsYounger
  <2>2. CASE u = a
    <3>1. <<a, g>> \notin B
      BY <2>2 DEF Shape, GapWhereTurned, NoGapSinceFfn
    <3>2. g # a
      BY <2>2, PlacesOrdered
    <3> QED
      BY <2>2, <3>1, <3>2 DEF Ordered
  <2> QED
    BY <1>1, <2>1, <2>2
<1> QED
  BY <1>2, <1>3, <1>4, <1>5, <1>6, <1>7 DEF Shape, b

(* A feed-forward matrix that is held is made sure of: the list stays as   *)
(* it is. With room for a layer.                                           *)
LEMMA LayeredStays ==
  ASSUME Lru!LruAssumption, NEW U \in SUBSET Places, NEW B, NEW a \in Places, NEW n,
         Shape(U, B, a, n), Layered(U, B, a), a \in U
  PROVE  Layered(U, B, After(a))
<1>1. LayerIsHeld(U, After(a))
  <2>1. \A p \in Places : p[1] = a[1] /\ Less(p, a) => p \in U
    BY DEF Layered, LayerIsHeld
  <2> QED
    BY <2>1, LayerGoesOn
<1>2. ASSUME NEW e \in U, NEW f \in U, After(a)[1] > 0, InFfn(e), e[1] = After(a)[1],
             Less(e, After(a)), ~InFfn(f), Less(f, e), <<e, f>> \in B
      PROVE  /\ After(a)[2] <= e[2] + 2 => SecondFfn \in U
             /\ After(a)[2] <= e[2] + 1 => FirstFfn \in U
  <2>1. e[1] = a[1] /\ After(a)[1] = a[1] /\ After(a)[2] = a[2] + 1
    BY <1>2, AfterInLayer
  <2>2. a[2] \in Nat /\ e[2] \in Nat /\ a[1] \in Nat
    BY PlaceFacts
  <2>3. Less(e, a) \/ e = a
    BY <1>2, AfterFacts
  <2>4. CASE Less(e, a)
    <3>1. /\ a[2] <= e[2] + 2 => SecondFfn \in U
          /\ a[2] <= e[2] + 1 => FirstFfn \in U
      BY <1>2, <2>1, <2>4 DEF Layered, FirstBlockIsHeld
    <3> QED
      BY <2>1, <2>2, <3>1
  <2>5. CASE e = a
    <3>1. FirstFfn \in Places /\ SecondFfn \in Places /\ Less(FirstFfn, a) /\ Less(SecondFfn, a)
      BY <1>2, <2>1, FirstPlaces
    <3>2. ~Less(a, a)
      BY PlacesOrdered
    <3> QED
      BY <3>1, <3>2 DEF Shape, PastIsHeld
  <2> QED
    BY <2>3, <2>4, <2>5
<1>3. FirstBlockIsHeld(U, B, After(a))
  BY <1>2 DEF FirstBlockIsHeld
<1> QED
  BY <1>1, <1>3 DEF Layered

(* A matrix that is missing, with room left: it is the youngest.           *)
Adds(U, B, V, D, a) ==
  \A p \in Places :
    /\ p \in V <=> (p \in U \/ p = a)
    /\ \A q \in Places : <<p, q>> \in D <=> (<<p, q>> \in B \/ (q = a /\ p \in U))

(* A matrix that is missing comes in while there is room: nothing has ever *)
(* gone.                                                                   *)
LEMMA ShapeAdded ==
  ASSUME Lru!LruAssumption, NEW U \in SUBSET Places, NEW V \in SUBSET Places, NEW B, NEW D,
         NEW a \in Places, NEW n, NEW m,
         Shape(U, B, a, n), Ordered(U, B), a \notin U, n # MaxCacheEntries, Adds(U, B, V, D, a)
  PROVE  Shape(V, D, After(a), m)
<1> DEFINE b == After(a)
<1>1. \A p \in Places : Less(p, b) <=> (Less(p, a) \/ p = a)
  BY AfterFacts
<1> HIDE DEF b
<1>2. /\ \A p \in Places : Less(p, a) => p \in U
      /\ \A u \in U : ~Less(a, u)
      /\ \A u \in U, p \in Places : Less(p, u) => p \in U
  BY DEF Shape, MissingIsEvicted
<1>3. \A u \in U : Less(u, a)
  BY <1>2, PlacesOrdered
<1>4. /\ \A p \in Places : p \in V <=> (p \in U \/ p = a)
      /\ \A p \in V : Less(p, b) /\ (p = a \/ (p \in U /\ Less(p, a)))
      /\ \A p \in U : <<p, a>> \in D /\ <<a, p>> \notin D
      /\ \A p, q \in U : <<p, q>> \in D <=> <<p, q>> \in B
      /\ <<a, a>> \notin D
      /\ a \in V /\ U \subseteq V
  BY <1>1, <1>3, PlacesOrdered DEF Adds, Ordered
<1>5. MissingIsEvicted(V, b, m)
  BY <1>1, <1>2, <1>4 DEF MissingIsEvicted
<1>6. PastIsHeld(V, b)
  BY <1>4 DEF PastIsHeld
<1>7. ComingIsOlder(V, D, b)
  BY <1>4 DEF ComingIsOlder
<1>8. ProjectionsInOrder(V, D, b)
  BY <1>3, <1>4, PlacesOrdered DEF Shape, ProjectionsInOrder
<1>9. NoGapAfterFfn(V, D)
  BY <1>2, <1>4 DEF NoGapAfterFfn
<1>10. GapBeforeFfn(V, D)
  BY <1>2, <1>4 DEF GapBeforeFfn
<1>11. NoGapSinceFfn(V, b)
  BY <1>1, <1>2, <1>4 DEF NoGapSinceFfn
<1>12. SinceFfnIsYounger(V, D, b)
  <2> SUFFICES ASSUME NEW g \in V, NEW u \in V, InFfn(g), Less(g, u) PROVE <<g, u>> \in D
    BY DEF SinceFfnIsYounger
  <2>1. CASE u = a
    BY <1>4, <2>1, PlacesOrdered
  <2>2. CASE u # a
    <3>1. u \in U /\ Less(u, a) /\ g \in U
      BY <1>4, <2>2, PlacesOrdered
    <3> QED
      BY <1>4, <3>1 DEF Shape, SinceFfnIsYounger
  <2> QED
    BY <2>1, <2>2
<1>13. GapWhereTurned(V, D)
  <2> SUFFICES ASSUME NEW g \in V, NEW u \in V, InFfn(g), InFfn(u), Less(g, u), <<u, g>> \in D
               PROVE  FALSE
    BY DEF GapWhereTurned
  <2>1. u # a /\ g # a
    BY <1>2, <1>4
  <2>2. u \in U /\ g \in U /\ <<u, g>> \in B /\ Less(u, a)
    BY <1>4, <2>1
  <2> QED
    BY <1>2, <2>2 DEF Shape, GapWhereTurned
<1> QED
  BY <1>5, <1>6, <1>7, <1>8, <1>9, <1>10, <1>11, <1>12, <1>13 DEF Shape, b

(* What Layered makes of a step that brings a in, whatever goes, when what *)
(* the layer has been at stays, and SecondFfn too as long as it matters.    *)
LEMMA LayeredBrought ==
  ASSUME Lru!LruAssumption, NEW U \in SUBSET Places, NEW V \in SUBSET Places, NEW B, NEW D,
         NEW a \in Places, Layered(U, B, a), a \in V, a \notin U, V \subseteq U \cup {a},
         \A p \in Places : p[1] = a[1] /\ Less(p, a) => p \in V,
         \A p, q \in V : <<p, q>> \in D => p # a /\ (q = a \/ <<p, q>> \in B),
         a[1] > 0 /\ FirstFfn \in U /\ SecondFfn \in U => SecondFfn \in V
  PROVE  Layered(V, D, After(a))
<1>1. LayerIsHeld(V, After(a))
  BY LayerGoesOn
<1>2. ASSUME NEW e \in V, NEW f \in V, After(a)[1] > 0, InFfn(e), e[1] = After(a)[1],
             Less(e, After(a)), ~InFfn(f), Less(f, e), <<e, f>> \in D
      PROVE  /\ After(a)[2] <= e[2] + 2 => SecondFfn \in V
             /\ After(a)[2] <= e[2] + 1 => FirstFfn \in V
  <2>1. e[1] = a[1] /\ After(a)[1] = a[1] /\ After(a)[2] = a[2] + 1
    BY <1>2, AfterInLayer
  <2>2. a[2] \in Nat /\ e[2] \in Nat /\ a[1] \in Nat
    BY PlaceFacts
  <2>3. Less(e, a) \/ e = a
    BY <1>2, AfterFacts
  <2>4. e # a /\ Less(e, a)
    BY <1>2, <2>3
  <2>5. f # a
    BY <1>2, <2>4, PlacesOrdered
  <2>6. <<e, f>> \in B /\ e \in U /\ f \in U
    BY <1>2, <2>4, <2>5
  <2>7. /\ a[2] <= e[2] + 2 => SecondFfn \in U
        /\ a[2] <= e[2] + 1 => FirstFfn \in U
    BY <1>2, <2>1, <2>4, <2>6 DEF Layered, FirstBlockIsHeld
  <2>8. e[2] < a[2]
    BY <2>1, <2>2, <2>4 DEF Less
  <2>9. ~(After(a)[2] <= e[2] + 1)
    BY <2>1, <2>2, <2>8
  <2>10. After(a)[2] <= e[2] + 2 => a[2] <= e[2] + 1 /\ a[2] <= e[2] + 2
    BY <2>1, <2>2
  <2> QED
    BY <1>2, <2>1, <2>7, <2>9, <2>10
<1>3. FirstBlockIsHeld(V, D, After(a))
  BY <1>2 DEF FirstBlockIsHeld
<1> QED
  BY <1>1, <1>3 DEF Layered

(* A matrix that is missing, with no room: the oldest key h goes.          *)
Replaces(U, B, V, D, h, a) ==
  /\ h \in U /\ \A u \in U : u # h => <<h, u>> \in B
  /\ \A p \in Places :
       /\ p \in V <=> (p = a \/ (p \in U /\ p # h))
       /\ \A q \in Places :
            <<p, q>> \in D <=> (p # h /\ (<<p, q>> \in B \/ (q = a /\ p \in U)))

(* As long as a key of a former pass is held for a place to come, it is    *)
(* such a key that goes.                                                    *)
LEMMA OldestIsComing ==
  ASSUME Lru!LruAssumption, NEW U \in SUBSET Places, NEW B, NEW V, NEW D, NEW a \in Places, NEW n,
         NEW h, Shape(U, B, a, n), Ordered(U, B), a \notin U, Replaces(U, B, V, D, h, a),
         NEW u \in U, Less(a, u)
  PROVE  Less(a, h)
<1>1. h \in U /\ h # a /\ \A v \in U : <<v, h>> \notin B
  BY DEF Replaces, Ordered
<1> SUFFICES ASSUME Less(h, a) PROVE FALSE
  BY <1>1, PlacesOrdered
<1>2. ~Less(u, a) /\ u # h /\ Less(h, u)
  BY <1>1, PlacesOrdered
<1>3. CASE ~InFfn(h)
  BY <1>1, <1>2, <1>3 DEF Shape, ComingIsOlder
<1>4. CASE InFfn(h)
  BY <1>1, <1>2, <1>4 DEF Shape, NoGapAfterFfn, Replaces
<1> QED
  BY <1>3, <1>4

(* A matrix that is missing comes in for the oldest key.                   *)
LEMMA ShapeReplaced ==
  ASSUME Lru!LruAssumption, NEW U \in SUBSET Places, NEW V \in SUBSET Places, NEW B, NEW D,
         NEW a \in Places, NEW n, NEW h,
         Shape(U, B, a, n), Ordered(U, B), a \notin U, Replaces(U, B, V, D, h, a)
  PROVE  Shape(V, D, After(a), MaxCacheEntries)
<1> DEFINE b == After(a)
<1>1. \A p \in Places : Less(p, b) <=> (Less(p, a) \/ p = a)
  BY AfterFacts
<1> HIDE DEF b
<1>2. /\ h \in U /\ h # a /\ h \in Places
      /\ \A u \in U : <<u, h>> \notin B
      /\ \A u \in U : u # h => <<h, u>> \in B
  BY DEF Replaces, Ordered
<1>3. \A u \in U : Less(a, u) => Less(a, h)
  BY OldestIsComing
<1>4. /\ \A p \in Places : p \in V <=> (p = a \/ (p \in U /\ p # h))
      /\ \A p \in V : <<a, p>> \notin D
      /\ \A p \in V : p # a => <<p, a>> \in D
      /\ \A p, q \in V : p # a /\ q # a => (<<p, q>> \in D <=> <<p, q>> \in B)
      /\ a \in V /\ h \notin V
  BY <1>2 DEF Replaces, Ordered
<1>5. MissingIsEvicted(V, b, MaxCacheEntries)
  BY DEF MissingIsEvicted
<1>6. PastIsHeld(V, b)
  <2> SUFFICES ASSUME NEW u \in V, NEW m \in Places, ~Less(u, b), Less(m, b) PROVE m \in V
    BY DEF PastIsHeld
  <2>1. u \in U /\ ~Less(u, a) /\ u # a /\ Less(a, u)
    BY <1>1, <1>4, PlacesOrdered
  <2>2. Less(a, h)
    BY <1>3, <2>1
  <2>3. CASE m = a
    BY <1>4, <2>3
  <2>4. CASE Less(m, a)
    <3>1. m \in U /\ m # h
      BY <2>1, <2>2, <2>4, PlacesOrdered DEF Shape, PastIsHeld
    <3> QED
      BY <1>4, <3>1
  <2> QED
    BY <1>1, <2>3, <2>4
<1>7. ComingIsOlder(V, D, b)
  <2> SUFFICES ASSUME NEW f \in V, NEW u \in V, ~InFfn(f), Less(f, b), ~Less(u, b)
               PROVE  <<u, f>> \in D
    BY DEF ComingIsOlder
  <2>1. u \in U /\ ~Less(u, a) /\ u # a
    BY <1>1, <1>4
  <2> QED
    BY <1>1, <1>4, <2>1 DEF Shape, ComingIsOlder
<1>8. ProjectionsInOrder(V, D, b)
  <2> SUFFICES ASSUME NEW f \in V, NEW u \in V, ~InFfn(f), ~InFfn(u), Less(f, u), Less(u, b)
               PROVE  <<f, u>> \in D
    BY DEF ProjectionsInOrder
  <2>1. f # a
    BY <1>1, PlacesOrdered
  <2> QED
    BY <1>1, <1>4, <2>1 DEF Shape, ProjectionsInOrder
<1>9. ASSUME NEW f \in U, f # h, InFfn(f), Less(f, h), Less(h, a)
      PROVE  FALSE
  BY <1>2, <1>9 DEF Shape, SinceFfnIsYounger
<1>10. NoGapAfterFfn(V, D)
  <2> SUFFICES ASSUME NEW f \in V, NEW u \in V, NEW m \in Places, InFfn(f), <<f, u>> \in D,
                      Less(f, m), Less(m, u)
               PROVE  m \in V
    BY DEF NoGapAfterFfn
  <2>1. f # a /\ f \in U /\ f # h
    BY <1>4
  <2>2. CASE u = a
    <3>1. m \in U
      BY <2>1, <2>2 DEF Shape, NoGapSinceFfn
    <3>2. m # h
      BY <1>9, <2>1, <2>2
    <3> QED
      BY <1>4, <3>1, <3>2
  <2>3. CASE u # a
    <3>1. u \in U /\ u # h /\ <<f, u>> \in B
      BY <1>4, <2>1, <2>3
    <3>2. m \in U
      BY <2>1, <3>1 DEF Shape, NoGapAfterFfn
    <3>3. m # h
      <4> SUFFICES ASSUME m = h PROVE FALSE
        OBVIOUS
      <4>1. CASE Less(h, a)
        BY <1>9, <2>1, <4>1
      <4>2. CASE Less(a, h)
        <5>1. Less(a, u)
          BY <1>2, <4>2, PlacesOrdered
        <5>2. ~Less(f, a)
          BY <2>1, <3>1, <5>1 DEF Shape, NoGapAfterFfn
        <5>3. Less(a, f)
          BY <2>1, <5>2, PlacesOrdered
        <5>4. <<h, f>> \notin B
          BY <1>2, <2>1, <5>3 DEF Shape, GapBeforeFfn
        <5> QED
          BY <1>2, <2>1, <5>4
      <4> QED
        BY <1>2, <4>1, <4>2, PlacesOrdered
    <3> QED
      BY <1>4, <3>2, <3>3
  <2> QED
    BY <2>2, <2>3
<1>11. GapBeforeFfn(V, D)
  <2> SUFFICES ASSUME NEW g \in V, NEW u \in V, NEW m \in Places, InFfn(g), m \notin V,
                      Less(m, g), Less(g, u), <<u, g>> \in D
               PROVE  FALSE
    BY DEF GapBeforeFfn
  <2>1. u # a /\ u \in U /\ u # h /\ m # a
    BY <1>4
  <2>2. CASE g = a
    <3>1. Less(a, h) /\ ~Less(u, a)
      BY <1>3, <2>1, <2>2, PlacesOrdered
    <3>2. m \in U
      BY <2>1, <2>2, <3>1 DEF Shape, PastIsHeld
    <3>3. m # h
      BY <2>2, <3>1, PlacesOrdered
    <3> QED
      BY <1>4, <3>2, <3>3
  <2>3. CASE g # a
    <3>1. g \in U /\ g # h /\ <<u, g>> \in B
      BY <1>4, <2>1, <2>3
    <3>2. m \in U /\ m = h
      BY <1>4, <2>1, <3>1 DEF Shape, GapBeforeFfn
    <3>3. CASE Less(a, g)
      BY <2>1, <3>1, <3>3 DEF Shape, GapBeforeFfn
    <3>4. CASE Less(g, a)
      <4>1. ~Less(a, h)
        BY <1>2, <3>2, <3>4, PlacesOrdered
      <4>2. Less(u, a)
        BY <1>3, <2>1, <4>1, PlacesOrdered
      <4>3. <<g, u>> \in B
        BY <2>1, <3>1, <4>2 DEF Shape, SinceFfnIsYounger
      <4> QED
        BY <3>1, <4>3 DEF Ordered
    <3> QED
      BY <2>3, <3>3, <3>4, PlacesOrdered
  <2> QED
    BY <2>2, <2>3
<1>12. NoGapSinceFfn(V, b)
  <2> SUFFICES ASSUME NEW f \in V, NEW m \in Places, InFfn(f), Less(f, m), Less(m, b)
               PROVE  m \in V
    BY DEF NoGapSinceFfn
  <2>1. CASE m = a
    BY <1>4, <2>1
  <2>2. CASE Less(m, a)
    <3>1. f # a /\ f \in U /\ f # h
      BY <1>4, <2>2, PlacesOrdered
    <3>2. m \in U /\ m # h
      BY <1>9, <2>2, <3>1 DEF Shape, NoGapSinceFfn
    <3> QED
      BY <1>4, <3>2
  <2> QED
    BY <1>1, <2>1, <2>2
<1>13. SinceFfnIsYounger(V, D, b)
  <2> SUFFICES ASSUME NEW g \in V, NEW u \in V, InFfn(g), Less(g, u), Less(u, b)
               PROVE  <<g, u>> \in D
    BY DEF SinceFfnIsYounger
  <2>1. g # a
    BY <1>1, PlacesOrdered
  <2> QED
    BY <1>1, <1>4, <2>1 DEF Shape, SinceFfnIsYounger
<1>14. GapWhereTurned(V, D)
  <2> SUFFICES ASSUME NEW g \in V, NEW u \in V, InFfn(g), InFfn(u), Less(g, u), <<u, g>> \in D
               PROVE  \E m \in Places : m \notin V /\ Less(g, m) /\ Less(m, u)
    BY DEF GapWhereTurned
  <2>1. u # a /\ u \in U /\ u # h
    BY <1>4
  <2>2. ASSUME Less(a, u), Less(g, a) \/ g = a
        PROVE  h \in Places /\ h \notin V /\ Less(g, h) /\ Less(h, u)
    <3>1. Less(a, h)
      BY <1>3, <2>1, <2>2
    <3>2. ~Less(u, h)
      <4> SUFFICES ASSUME Less(u, h) PROVE FALSE
        OBVIOUS
      <4>1. <<h, u>> \notin B
        BY <1>2, <2>1, <2>2 DEF Shape, GapBeforeFfn
      <4> QED
        BY <1>2, <2>1, <4>1
    <3> QED
      BY <1>2, <1>4, <2>1, <2>2, <3>1, <3>2, PlacesOrdered
  <2>3. CASE g = a
    BY <2>2, <2>3
  <2>4. CASE g # a
    <3>1. g \in U /\ <<u, g>> \in B
      BY <1>4, <2>1, <2>4
    <3>2. PICK m \in Places : m \notin U /\ Less(g, m) /\ Less(m, u)
      BY <2>1, <3>1 DEF Shape, GapWhereTurned
    <3>3. CASE m = a
      BY <2>2, <3>2, <3>3
    <3>4. CASE m # a
      BY <1>4, <3>2, <3>4
    <3> QED
      BY <3>3, <3>4
  <2> QED
    BY <2>3, <2>4
<1> QED
  BY <1>5, <1>6, <1>7, <1>8, <1>10, <1>11, <1>12, <1>13, <1>14 DEF Shape, b

(* The oldest key is none that the layer has been at, if not all the keys  *)
(* are of this layer; and SecondFfn outlives FirstFfn.                      *)
LEMMA LayeredReplaced ==
  ASSUME Lru!LruAssumption, NEW U \in SUBSET Places, NEW V \in SUBSET Places, NEW B, NEW D,
         NEW a \in Places, NEW n, NEW h,
         Shape(U, B, a, n), Ordered(U, B), Layered(U, B, a), a \notin U,
         Replaces(U, B, V, D, h, a),
         \E j \in U : j[1] # a[1] \/ Less(a, j)
  PROVE  Layered(V, D, After(a))
<1>1. /\ h \in U /\ h # a /\ h \in Places
      /\ \A u \in U : <<u, h>> \notin B
      /\ \A u \in U : u # h => <<h, u>> \in B
  BY DEF Replaces, Ordered
<1>2. \A u \in U : Less(a, u) => Less(a, h)
  BY OldestIsComing
<1>3. /\ \A p \in Places : p \in V <=> (p = a \/ (p \in U /\ p # h))
      /\ \A p, q \in V : <<p, q>> \in D => p # a /\ (q = a \/ <<p, q>> \in B)
  BY <1>1 DEF Replaces, Ordered
<1>4. \A p \in Places : p[1] = a[1] /\ Less(p, a) => p \in U
  BY DEF Layered, LayerIsHeld
<1>5. ASSUME h[1] = a[1], Less(h, a)
      PROVE  FALSE
  <2>1. PICK j \in U : j[1] # a[1] \/ Less(a, j)
    OBVIOUS
  <2>2. ~Less(a, h)
    BY <1>1, <1>5, PlacesOrdered
  <2>3. ~Less(a, j) /\ j[1] # a[1] /\ j # a
    BY <1>2, <2>1, <2>2
  <2>4. Less(j, a)
    BY <2>3, PlacesOrdered
  <2>5. /\ j[1] \in Nat /\ h[1] \in Nat /\ a[1] \in Nat
        /\ j[2] \in Nat /\ h[2] \in Nat /\ a[2] \in Nat
    BY <1>1, PlaceFacts
  <2>6. j[1] < h[1] /\ a[1] > 0 /\ Less(j, h) /\ j # h
    BY <1>5, <2>3, <2>4, <2>5 DEF Less
  <2>7. ~InFfn(j)
    BY <1>1, <1>5, <2>6 DEF Shape, SinceFfnIsYounger
  <2>8. InFfn(h)
    BY <1>1, <1>5, <2>6, <2>7 DEF Shape, ProjectionsInOrder
  <2>9. <<h, j>> \in B
    BY <1>1, <2>6
  <2>10. a[2] <= h[2] + 2
    BY <1>1, <1>5, <2>8, FfnComeLast
  <2>11. SecondFfn \in U
    BY <1>1, <1>5, <2>6, <2>7, <2>8, <2>9, <2>10 DEF Layered, FirstBlockIsHeld
  <2>12. InFfn(SecondFfn) /\ Less(SecondFfn, h) /\ SecondFfn # h
    BY <1>1, <2>5, <2>6, FirstPlaces, PlacesOrdered
  <2> QED
    BY <1>1, <1>5, <2>11, <2>12 DEF Shape, SinceFfnIsYounger
<1>6. \A p \in Places : p[1] = a[1] /\ Less(p, a) => p \in V
  BY <1>3, <1>4, <1>5
<1>7. ASSUME a[1] > 0, FirstFfn \in U, SecondFfn \in U
      PROVE  SecondFfn \in V
  <2>1. Less(SecondFfn, a) /\ Less(FirstFfn, SecondFfn) /\ InFfn(FirstFfn) /\ FirstFfn # SecondFfn
    BY <1>7, FirstPlaces, PlacesOrdered
  <2>2. SecondFfn # h
    BY <1>1, <1>7, <2>1 DEF Shape, SinceFfnIsYounger
  <2> QED
    BY <1>3, <1>7, <2>2
<1>8. a \in V /\ V \subseteq U \cup {a}
  BY <1>3
<1> QED
  BY <1>3, <1>6, <1>7, <1>8, LayeredBrought

-----------------------------------------------------------------------------
(* The invariant: types, and the list and the map                          *)

(* What may be in the map: the matrices of the model.                      *)
AllKeys == {KeyOf(p) : p \in Places}

(* The list of the map: it is one, without its place in the loop.          *)
KeysOf(map, list) ==
  /\ map \subseteq AllKeys /\ IsFiniteSet(map)
  /\ list \in Seq(AllKeys) /\ Lru!IsInjective(list) /\ Lru!Range(list) = map

(* Types: the place that comes is one of the pass, and the list names the  *)
(* keys of the map.                                                        *)
LruTyped ==
  /\ metal \in BOOLEAN /\ (metal => "metal" \in Backends)
  /\ layer \in 0..NumLayers /\ (layer < NumLayers => Here \in Places)
  /\ layer = NumLayers => at = 1
  /\ at \in Nat \ {0}
  /\ KeysOf(weight_cache, lru_order) /\ Cardinality(weight_cache) <= MaxCacheEntries
  /\ used \in Seq(AllKeys) /\ Lru!IsInjective(used)

(* On the CPU.                                                             *)
ByUse == ~metal => weight_cache \subseteq Lru!Range(used) /\ Lru!OrderIsByUse

(* The invariant.                                                          *)
LruInv == LruTyped /\ ByUse /\ (metal => Shaped /\ Roomy)

(* The instance counts as everybody does.                                   *)
LEMMA SameCount == \A S : Lru!Cardinality(S) = Cardinality(S)
  BY DEF Lru!Cardinality, Cardinality

(* Which places are held, and in which order, said of their keys.          *)
LEMMA HeldIs ==
  /\ \A map : \A p \in Places : p \in Held(map) <=> KeyOf(p) \in map
  /\ \A list : \A p, q \in Places : <<p, q>> \in Order(list) <=>
       Lru!Precedes(list, KeyOf(p), KeyOf(q))
  /\ \A map : Held(map) \in SUBSET Places
<1>1. \A list : \A p, q \in Places : <<p, q>> \in Order(list) <=>
        Lru!Precedes(list, KeyOf(p), KeyOf(q))
  BY DEF Order
<1> QED
  BY <1>1 DEF Held

(* The places that are held are in a strict total order, that of the list. *)
LEMMA HeldOrdered ==
  ASSUME Lru!LruAssumption, NEW map, NEW list, KeysOf(map, list)
  PROVE  Ordered(Held(map), Order(list))
<1>1. list \in Seq(AllKeys) /\ Lru!IsInjective(list) /\ Lru!Range(list) = map
  BY DEF KeysOf
<1>2. \A x, y : /\ Lru!Precedes(list, x, y) => x # y /\ x \in map /\ y \in map
                /\ Lru!Precedes(list, x, y) => ~Lru!Precedes(list, y, x)
                /\ x \in map /\ y \in map /\ x # y =>
                     Lru!Precedes(list, x, y) \/ Lru!Precedes(list, y, x)
  BY <1>1, ListFacts
<1>3. \A p, q \in Places : <<p, q>> \in Order(list) =>
        p \in Held(map) /\ q \in Held(map) /\ <<q, p>> \notin Order(list)
  BY <1>2, HeldIs
<1>4. \A p, q \in Held(map) : p # q => <<p, q>> \in Order(list) \/ <<q, p>> \in Order(list)
  BY <1>2, HeldIs, KeysDiffer
<1> QED
  BY <1>3, <1>4 DEF Ordered

(* The place goes on.                                                      *)
LEMMA HereGoesOn ==
  ASSUME Lru!LruAssumption, LruTyped, layer < NumLayers, NEW key, Lru!Use(key)
  PROVE  /\ Here' = After(Here)
         /\ layer' \in 0..NumLayers /\ (layer' < NumLayers => Here' \in Places)
         /\ (layer' = NumLayers => at' = 1) /\ at' \in Nat \ {0}
<1>1. Here \in Places /\ Here[1] = layer /\ Here[2] = at
  BY DEF LruTyped, Here
<1>2. layer \in Lru!Layer /\ at \in 1..Size(layer) /\ Size(layer) \in Nat /\ Size(layer) >= 3
  BY <1>1, PlaceFacts, FfnPlaces
<1>3. NumLayers \in Nat /\ Lru!Layer = 0..(NumLayers - 1)
  BY DEF Lru!LruAssumption, Lru!Layer
<1>4. CASE at < Size(layer)
  <2>1. at' = at + 1 /\ layer' = layer
    BY <1>4, <1>2 DEF Lru!Use, Size
  <2>2. Here' = <<layer, at + 1>> /\ After(Here) = <<layer, at + 1>>
    BY <1>1, <1>4, <2>1 DEF Here, After
  <2>3. <<layer, at + 1>> \in Places
    BY <1>2, <1>4, PlaceFacts
  <2> QED
    BY <1>2, <1>3, <2>1, <2>2, <2>3
<1>5. CASE ~(at < Size(layer))
  <2>1. at' = 1 /\ layer' = layer + 1
    BY <1>5 DEF Lru!Use, Size
  <2>2. Here' = <<layer + 1, 1>> /\ After(Here) = <<layer + 1, 1>>
    BY <1>1, <1>5, <2>1 DEF Here, After
  <2>3. ASSUME layer + 1 < NumLayers
        PROVE  <<layer + 1, 1>> \in Places
    <3>1. layer + 1 \in Lru!Layer
      BY <1>2, <1>3, <2>3
    <3>2. 1 \in 1..Size(layer + 1)
      BY <3>1, LayerFacts
    <3> QED
      BY <3>1, <3>2, PlaceFacts
  <2> QED
    BY <1>2, <1>3, <2>1, <2>2, <2>3
<1> QED
  BY <1>4, <1>5

(* The list of uses: of all keys once, the key last.                       *)
LEMMA UsesFacts ==
  ASSUME LruTyped, NEW key \in AllKeys, Lru!Use(key)
  PROVE  /\ used' \in Seq(AllKeys) /\ Lru!IsInjective(used')
              /\ Lru!Range(used') = Lru!Range(used) \cup {key}
         /\ \A x, y : x # key => (Lru!Precedes(used', x, y) <=>
              ((y = key /\ x \in Lru!Range(used)) \/ (y # key /\ Lru!Precedes(used, x, y))))
<1>1. used \in Seq(AllKeys) /\ Lru!IsInjective(used)
  BY DEF LruTyped
<1>2. CASE key \in Lru!Range(used)
  <2>1. used' = Lru!MovedToEnd(used, key)
    BY <1>2 DEF Lru!Use
  <2> QED
    BY <1>1, <1>2, <2>1, MovedFacts
<1>3. CASE key \notin Lru!Range(used)
  <2>1. used' = Append(used, key)
    BY <1>3 DEF Lru!Use
  <2>2. \A x : ~Lru!Precedes(used, x, key)
    BY <1>1, <1>3, ListFacts
  <2> QED
    BY <1>1, <1>3, <2>1, <2>2, PushFacts
<1> QED
  BY <1>2, <1>3

(* A hit of linear_i4_out_in.                                              *)
LEMMA HitFacts ==
  ASSUME Lru!LruAssumption, LruTyped, NEW a \in Places, KeyOf(a) \in weight_cache, Lru!Hit(KeyOf(a))
  PROVE  /\ weight_cache' = weight_cache /\ KeysOf(weight_cache', lru_order')
         /\ Moves(Held(weight_cache), Order(lru_order), Order(lru_order'), a)
         /\ \A x, y : Lru!Precedes(lru_order', x, y) =>
              x # KeyOf(a) /\ (y = KeyOf(a) \/ Lru!Precedes(lru_order, x, y))
<1> DEFINE key == KeyOf(a)
<1>1. lru_order \in Seq(AllKeys) /\ Lru!IsInjective(lru_order)
        /\ Lru!Range(lru_order) = weight_cache
  BY DEF LruTyped, KeysOf
<1>2. weight_cache' = weight_cache /\ lru_order' = Lru!MovedToEnd(lru_order, key)
  BY <1>1 DEF Lru!Hit
<1>3. /\ lru_order' \in Seq(AllKeys) /\ Lru!IsInjective(lru_order')
           /\ Lru!Range(lru_order') = weight_cache
      /\ \A x, y : Lru!Precedes(lru_order', x, y) <=>
           (x # key /\ ((y = key /\ x \in weight_cache)
             \/ (y # key /\ Lru!Precedes(lru_order, x, y))))
  BY <1>1, <1>2, MovedFacts
<1>4. KeysOf(weight_cache', lru_order')
  BY <1>2, <1>3 DEF LruTyped, KeysOf
<1>5. \A p \in Places : KeyOf(p) = key <=> p = a
  BY KeysDiffer
<1>6. Moves(Held(weight_cache), Order(lru_order), Order(lru_order'), a)
  BY <1>3, <1>5, HeldIs DEF Moves
<1> QED
  BY <1>2, <1>3, <1>4, <1>6

(* A miss of linear_i4_out_in, with room left and without.                 *)
LEMMA AddFacts ==
  ASSUME Lru!LruAssumption, LruTyped, NEW a \in Places, KeyOf(a) \notin weight_cache,
         Lru!Insert(KeyOf(a)), Cardinality(weight_cache) # MaxCacheEntries
  PROVE  /\ weight_cache' = weight_cache \cup {KeyOf(a)} /\ KeysOf(weight_cache', lru_order')
         /\ Cardinality(weight_cache') <= MaxCacheEntries
         /\ Adds(Held(weight_cache), Order(lru_order), Held(weight_cache'), Order(lru_order'), a)
         /\ \A x, y : Lru!Precedes(lru_order', x, y) =>
              x \in weight_cache /\ (y = KeyOf(a) \/ Lru!Precedes(lru_order, x, y))
<1> DEFINE key == KeyOf(a)
<1>1. /\ lru_order \in Seq(AllKeys) /\ Lru!IsInjective(lru_order)
           /\ Lru!Range(lru_order) = weight_cache
      /\ weight_cache \subseteq AllKeys /\ IsFiniteSet(weight_cache) /\ key \in AllKeys
  BY DEF LruTyped, KeysOf, AllKeys
<1>2. Cardinality(weight_cache) \in Nat /\ MaxCacheEntries \in Nat
  BY <1>1, FS_CardinalityType DEF Lru!LruAssumption
<1>3. Cardinality(weight_cache) < MaxCacheEntries
  BY <1>2 DEF LruTyped
<1>4. Lru!Evicted.map = weight_cache /\ Lru!Evicted.order = lru_order
  BY <1>2, <1>3, SameCount DEF Lru!Evicted
<1>5. weight_cache' = weight_cache \cup {key} /\ lru_order' = Append(lru_order, key)
  BY <1>4 DEF Lru!Insert
<1>6. /\ lru_order' \in Seq(AllKeys) /\ Lru!IsInjective(lru_order')
      /\ Lru!Range(lru_order') = weight_cache \cup {key}
      /\ \A x, y : Lru!Precedes(lru_order', x, y) <=>
           (Lru!Precedes(lru_order, x, y) \/ (y = key /\ x \in weight_cache))
  BY <1>1, <1>5, PushFacts
<1>7. IsFiniteSet(weight_cache') /\ Cardinality(weight_cache') = Cardinality(weight_cache) + 1
  BY <1>1, <1>5, FS_AddElement
<1>8. KeysOf(weight_cache', lru_order') /\ Cardinality(weight_cache') <= MaxCacheEntries
  BY <1>1, <1>2, <1>3, <1>5, <1>6, <1>7 DEF KeysOf
<1>9. \A p \in Places : KeyOf(p) = key <=> p = a
  BY KeysDiffer
<1>10. Adds(Held(weight_cache), Order(lru_order), Held(weight_cache'), Order(lru_order'), a)
  BY <1>5, <1>6, <1>9, HeldIs DEF Adds
<1>11. \A x, y : Lru!Precedes(lru_order, x, y) => x \in weight_cache
  BY <1>1, ListFacts
<1> QED
  BY <1>5, <1>6, <1>8, <1>10, <1>11

(* A key that comes into a full map is put in the place of the oldest.     *)
LEMMA ReplaceFacts ==
  ASSUME Lru!LruAssumption, LruTyped, NEW a \in Places, KeyOf(a) \notin weight_cache,
         Lru!Insert(KeyOf(a)), Cardinality(weight_cache) = MaxCacheEntries
  PROVE  /\ weight_cache' \subseteq weight_cache \cup {KeyOf(a)}
              /\ KeysOf(weight_cache', lru_order')
         /\ Cardinality(weight_cache') = MaxCacheEntries
         /\ \E h \in Places :
              Replaces(Held(weight_cache), Order(lru_order),
                       Held(weight_cache'), Order(lru_order'), h, a)
         /\ \A x, y : Lru!Precedes(lru_order', x, y) =>
              x \in weight_cache /\ (y = KeyOf(a) \/ Lru!Precedes(lru_order, x, y))
<1> DEFINE key == KeyOf(a)  old == Head(lru_order)
<1>1. /\ lru_order \in Seq(AllKeys) /\ Lru!IsInjective(lru_order)
           /\ Lru!Range(lru_order) = weight_cache
      /\ weight_cache \subseteq AllKeys /\ IsFiniteSet(weight_cache) /\ key \in AllKeys
  BY DEF LruTyped, KeysOf, AllKeys
<1>2. Cardinality(weight_cache) \in Nat /\ MaxCacheEntries \in Nat \ {0}
  BY <1>1, FS_CardinalityType DEF Lru!LruAssumption
<1>3. lru_order # <<>>
  <2> SUFFICES ASSUME lru_order = <<>> PROVE FALSE
    OBVIOUS
  <2>1. weight_cache = {}
    BY <1>1 DEF Lru!Range
  <2> QED
    BY <1>2, <2>1, FS_EmptySet
<1>4. Lru!Evicted.map = weight_cache \ {old} /\ Lru!Evicted.order = Tail(lru_order)
  BY <1>2, <1>3, SameCount DEF Lru!Evicted
<1>5. weight_cache' = (weight_cache \ {old}) \cup {key} /\ lru_order' = Append(Tail(lru_order), key)
  BY <1>4 DEF Lru!Insert
<1>6. /\ old \in weight_cache
      /\ Tail(lru_order) \in Seq(AllKeys) /\ Lru!IsInjective(Tail(lru_order))
      /\ Lru!Range(Tail(lru_order)) = weight_cache \ {old}
      /\ \A x \in weight_cache : x # old => Lru!Precedes(lru_order, old, x)
      /\ \A x, y : Lru!Precedes(Tail(lru_order), x, y) <=>
           (x # old /\ Lru!Precedes(lru_order, x, y))
  BY <1>1, <1>3, TailFacts
<1> HIDE DEF old
<1>7. /\ lru_order' \in Seq(AllKeys) /\ Lru!IsInjective(lru_order')
      /\ Lru!Range(lru_order') = (weight_cache \ {old}) \cup {key}
      /\ \A x, y : Lru!Precedes(lru_order', x, y) <=>
           (Lru!Precedes(Tail(lru_order), x, y) \/ (y = key /\ x \in weight_cache \ {old}))
  <2> DEFINE rest == Tail(lru_order)  new == Append(rest, key)
  <2> HIDE DEF key, rest, new
  <2>1. rest \in Seq(AllKeys) /\ Lru!IsInjective(rest) /\ key \in AllKeys
          /\ key \notin Lru!Range(rest)
    BY <1>1, <1>6 DEF key, rest
  <2>2. /\ new \in Seq(AllKeys) /\ Lru!IsInjective(new)
             /\ Lru!Range(new) = Lru!Range(rest) \cup {key}
        /\ \A x, y : Lru!Precedes(new, x, y) <=>
             (Lru!Precedes(rest, x, y) \/ (y = key /\ x \in Lru!Range(rest)))
    BY <2>1, PushFacts DEF new
  <2>3. lru_order' = new /\ Lru!Range(rest) = weight_cache \ {old}
    BY <1>5, <1>6 DEF key, rest, new
  <2> QED
    BY <2>2, <2>3 DEF rest
<1>8. /\ IsFiniteSet(weight_cache \ {old})
      /\ Cardinality(weight_cache \ {old}) = Cardinality(weight_cache) - 1
  BY <1>1, <1>6, FS_RemoveElement
<1>9. /\ IsFiniteSet(weight_cache')
      /\ Cardinality(weight_cache') = Cardinality(weight_cache \ {old}) + 1
  BY <1>5, <1>8, FS_AddElement
<1>10. KeysOf(weight_cache', lru_order') /\ Cardinality(weight_cache') = MaxCacheEntries
  BY <1>1, <1>2, <1>5, <1>7, <1>8, <1>9 DEF KeysOf
<1>11. PICK h \in Places : KeyOf(h) = old
  BY <1>1, <1>6 DEF AllKeys
<1>12. \A p \in Places : (KeyOf(p) = key <=> p = a) /\ (KeyOf(p) = old <=> p = h)
  BY <1>11, KeysDiffer
<1>13. \A x, y : Lru!Precedes(lru_order, x, y) => x \in weight_cache /\ y \in weight_cache
  BY <1>1, ListFacts
<1>14. Replaces(Held(weight_cache), Order(lru_order), Held(weight_cache'), Order(lru_order'), h, a)
  <2>1. h \in Held(weight_cache)
    BY <1>6, <1>11, HeldIs
  <2>2. \A u \in Held(weight_cache) : u # h => <<h, u>> \in Order(lru_order)
    BY <1>6, <1>11, <1>12, HeldIs
  <2>3. \A p \in Places :
          p \in Held(weight_cache') <=> (p = a \/ (p \in Held(weight_cache) /\ p # h))
    BY <1>5, <1>12, HeldIs
  <2>4. \A p, q \in Places : <<p, q>> \in Order(lru_order') <=>
          (p # h /\ (<<p, q>> \in Order(lru_order) \/ (q = a /\ p \in Held(weight_cache))))
    BY <1>6, <1>7, <1>12, HeldIs
  <2> QED
    BY <2>1, <2>2, <2>3, <2>4 DEF Replaces
<1> QED
  BY <1>5, <1>6, <1>7, <1>10, <1>13, <1>14

(* When the map is full, and there is room for a layer, it holds more than *)
(* what the layer has been at.                                              *)
LEMMA OthersAreHeld ==
  ASSUME Lru!LruAssumption, LruTyped, RoomForALayer, NEW a \in Places, KeyOf(a) \notin weight_cache,
         Cardinality(weight_cache) = MaxCacheEntries
  PROVE  \E j \in Held(weight_cache) : j[1] # a[1] \/ Less(a, j)
<1> SUFFICES ASSUME \A j \in Held(weight_cache) : j[1] = a[1] /\ ~Less(a, j)
             PROVE  FALSE
  OBVIOUS
<1>1. /\ a = <<a[1], a[2]>> /\ a[1] \in Lru!Layer /\ a[1] \in Nat
      /\ a[2] \in 1..Size(a[1]) /\ Size(a[1]) \in Nat
  BY PlaceFacts, FfnPlaces
<1> DEFINE k == a[2] - 1
           f == [i \in 1..k |-> Lru!KeyAt(a[1], i)]
<1>2. k \in Nat /\ k < Size(a[1])
  BY <1>1
<1>3. IsFiniteSet(1..k) /\ Cardinality(1..k) = k
  BY <1>2, FS_Interval
<1>4. f \in Surjection(1..k, Range(f))
  BY DEF Surjection, Range
<1>5. IsFiniteSet(Range(f)) /\ Cardinality(Range(f)) <= k
  BY <1>3, <1>4, FS_Surjection
<1>6. weight_cache \subseteq Range(f)
  <2> SUFFICES ASSUME NEW x \in weight_cache PROVE x \in Range(f)
    OBVIOUS
  <2>1. PICK j \in Places : x = KeyOf(j)
    BY DEF LruTyped, KeysOf, AllKeys
  <2>2. j \in Held(weight_cache) /\ j # a
    BY <2>1, HeldIs
  <2>3. j[1] = a[1] /\ j[2] \in Nat \ {0} /\ j = <<j[1], j[2]>> /\ Less(j, a)
    BY <2>1, <2>2, PlaceFacts, PlacesOrdered, FfnPlaces
  <2>4. j[2] \in 1..k
    BY <1>1, <2>3 DEF Less
  <2>5. x = f[j[2]]
    BY <2>1, <2>3, <2>4 DEF KeyOf
  <2> QED
    BY <2>4, <2>5 DEF Range
<1>7. Cardinality(weight_cache) <= Cardinality(Range(f))
  BY <1>5, <1>6, FS_Subset
<1>8. Size(a[1]) <= MaxCacheEntries
  BY <1>1 DEF RoomForALayer
<1>9. Cardinality(Range(f)) \in Nat /\ MaxCacheEntries \in Nat
  BY <1>5, FS_CardinalityType DEF Lru!LruAssumption
<1> HIDE DEF k, f
<1> QED
  BY <1>1, <1>2, <1>5, <1>7, <1>8, <1>9

(* The invariant holds at the start, and every step keeps it.              *)
LEMMA LruInit == Lru!LruAssumption /\ Lru!Init => LruInv
<1> SUFFICES ASSUME Lru!LruAssumption, Lru!Init PROVE LruInv
  OBVIOUS
<1>1. NumLayers \in Nat \ {0} /\ 0 \in Lru!Layer /\ MaxCacheEntries \in Nat
  BY DEF Lru!LruAssumption, Lru!Layer
<1>2. 1 \in 1..Size(0)
  BY <1>1, LayerFacts
<1>3. Here \in Places /\ Here[1] = 0 /\ Here[2] = 1
  BY <1>1, <1>2, PlaceFacts DEF Here, Lru!Init
<1>4. Lru!Range(lru_order) = {} /\ lru_order \in Seq(AllKeys) /\ Lru!IsInjective(lru_order)
  BY DEF Lru!Init, Lru!Range, Lru!IsInjective
<1>5. used \in Seq(AllKeys) /\ Lru!IsInjective(used)
  BY DEF Lru!Init, Lru!IsInjective
<1>6. IsFiniteSet(weight_cache) /\ Cardinality(weight_cache) = 0
  BY FS_EmptySet DEF Lru!Init
<1>7. LruTyped
  <2>1. metal \in BOOLEAN /\ (metal => "metal" \in Backends)
    BY DEF Lru!Init
  <2>2. KeysOf(weight_cache, lru_order)
    BY <1>4, <1>6 DEF Lru!Init, KeysOf
  <2>3. Cardinality(weight_cache) <= MaxCacheEntries
    BY <1>1, <1>6
  <2>4. layer = 0 /\ at = 1
    BY DEF Lru!Init
  <2> QED
    BY <1>1, <1>3, <1>5, <2>1, <2>2, <2>3, <2>4 DEF LruTyped
<1>8. weight_cache = {} /\ Held(weight_cache) = {}
  BY DEF Lru!Init, Held
<1>9. ByUse
  BY <1>8 DEF ByUse, Lru!OrderIsByUse
<1>10. \A p \in Places : ~Less(p, Here)
  <2>1. \A p \in Places : p[1] \in Nat /\ p[2] \in Nat \ {0}
    BY PlaceFacts, FfnPlaces
  <2> QED
    BY <1>3, <2>1 DEF Less
<1>11. Shaped
  BY <1>8, <1>10 DEF Shaped, Shape, MissingIsEvicted, PastIsHeld, ComingIsOlder, ProjectionsInOrder,
     NoGapAfterFfn, GapBeforeFfn, NoGapSinceFfn, SinceFfnIsYounger, GapWhereTurned
<1>12. Roomy
  BY <1>8, <1>10 DEF Roomy, Layered, LayerIsHeld, FirstBlockIsHeld
<1> QED
  BY <1>7, <1>9, <1>11, <1>12 DEF LruInv

(* What all steps over a matrix have in common.                            *)
LEMMA OverIsTyped ==
  ASSUME Lru!LruAssumption, LruTyped, layer < NumLayers, NEW a \in Places, Lru!Use(KeyOf(a)),
         metal' = metal, KeysOf(weight_cache', lru_order'),
         Cardinality(weight_cache') <= MaxCacheEntries
  PROVE  LruTyped'
<1>1. KeyOf(a) \in AllKeys
  BY DEF AllKeys
<1>2. used' \in Seq(AllKeys) /\ Lru!IsInjective(used')
  BY <1>1, UsesFacts
<1>3. /\ layer' \in 0..NumLayers /\ (layer' < NumLayers => Here' \in Places)
      /\ (layer' = NumLayers => at' = 1) /\ at' \in Nat \ {0}
  BY HereGoesOn
<1> QED
  BY <1>2, <1>3 DEF LruTyped

(* On the CPU: a key that is moved or pushed is the last in both lists.    *)
LEMMA UseKept ==
  ASSUME LruTyped, ByUse, ~metal, NEW key \in AllKeys, Lru!Use(key), metal' = metal,
         weight_cache' \subseteq weight_cache \cup {key},
         \A x, y : Lru!Precedes(lru_order', x, y) =>
           x # key /\ x \in weight_cache /\ (y = key \/ Lru!Precedes(lru_order, x, y))
  PROVE  ByUse'
<1>1. /\ Lru!Range(used') = Lru!Range(used) \cup {key}
      /\ \A x, y : x # key => (Lru!Precedes(used', x, y) <=>
           ((y = key /\ x \in Lru!Range(used)) \/ (y # key /\ Lru!Precedes(used, x, y))))
  BY UsesFacts
<1>2. weight_cache \subseteq Lru!Range(used) /\ Lru!OrderIsByUse
  BY DEF ByUse
<1>3. weight_cache' \subseteq Lru!Range(used')
  BY <1>1, <1>2
<1>4. \A x, y \in weight_cache' : Lru!Precedes(lru_order', x, y) => Lru!Precedes(used', x, y)
  BY <1>1, <1>2 DEF Lru!OrderIsByUse
<1>5. Lru!OrderIsByUse'
  BY <1>4 DEF Lru!OrderIsByUse
<1> QED
  BY <1>3, <1>5 DEF ByUse

(* On Metal: a missing matrix is brought in.                               *)
LEMMA BroughtIn ==
  ASSUME Lru!LruAssumption, LruTyped, Shaped, Roomy, layer < NumLayers,
         KeyOf(Here) \notin weight_cache, Lru!Insert(KeyOf(Here)), Lru!Use(KeyOf(Here))
  PROVE  Shaped' /\ Roomy'
<1> DEFINE U == Held(weight_cache)   B == Order(lru_order)  n == Cardinality(weight_cache)
           V == Held(weight_cache')  D == Order(lru_order')  m == Cardinality(weight_cache')
           a == Here
<1>1. a \in Places /\ a \notin U /\ Here' = After(a)
  BY HereGoesOn, HeldIs DEF LruTyped
<1>2. U \in SUBSET Places /\ V \in SUBSET Places
  BY HeldIs
<1>3. Ordered(U, B) /\ Shape(U, B, a, n) /\ (RoomForALayer => Layered(U, B, a))
  BY HeldOrdered DEF LruTyped, Shaped, Roomy
<1>4. SUFFICES Shape(V, D, After(a), m) /\ (RoomForALayer => Layered(V, D, After(a)))
  BY <1>1 DEF Shaped, Roomy
<1>5. CASE n # MaxCacheEntries
  <2>1. Adds(U, B, V, D, a)
    BY <1>1, <1>5, AddFacts
  <2> HIDE DEF U, B, V, D, n, m, a
  <2>2. Shape(V, D, After(a), m)
    BY <1>1, <1>2, <1>3, <1>5, <2>1, ShapeAdded
  <2>3. ASSUME RoomForALayer PROVE Layered(V, D, After(a))
    <3>1. Layered(U, B, a)
      BY <1>3, <2>3
    <3>2. a \in V /\ U \subseteq V /\ V \subseteq U \cup {a}
      BY <1>1, <1>2, <2>1 DEF Adds
    <3>3. \A p \in Places : p[1] = a[1] /\ Less(p, a) => p \in V
      BY <3>1, <3>2 DEF Layered, LayerIsHeld
    <3>4. \A p, q \in V : <<p, q>> \in D => p # a /\ (q = a \/ <<p, q>> \in B)
      BY <1>1, <1>2, <1>3, <2>1 DEF Adds, Ordered
    <3> QED
      BY <1>1, <1>2, <3>1, <3>2, <3>3, <3>4, LayeredBrought
  <2> QED
    BY <2>2, <2>3
<1>6. CASE n = MaxCacheEntries
  <2>1. PICK h \in Places : Replaces(U, B, V, D, h, a)
    BY <1>1, <1>6, ReplaceFacts
  <2>2. m = MaxCacheEntries
    BY <1>1, <1>6, ReplaceFacts
  <2>3. ASSUME RoomForALayer PROVE \E j \in U : j[1] # a[1] \/ Less(a, j)
    BY <1>1, <1>6, <2>3, OthersAreHeld
  <2> HIDE DEF U, B, V, D, n, m, a
  <2>4. Shape(V, D, After(a), m)
    BY <1>1, <1>2, <1>3, <2>1, <2>2, ShapeReplaced
  <2>5. ASSUME RoomForALayer PROVE Layered(V, D, After(a))
    BY <1>1, <1>2, <1>3, <2>1, <2>3, <2>5, LayeredReplaced
  <2> QED
    BY <2>4, <2>5
<1> QED
  BY <1>5, <1>6

(* A product through linear_i4_out_in keeps the invariant.                 *)
LEMMA ProductKept ==
  ASSUME Lru!LruAssumption, LruInv, Lru!Product
  PROVE  LruInv'
<1> DEFINE a == Here  key == KeyOf(a)
<1>1. LruTyped /\ layer < NumLayers /\ a \in Places /\ metal' = metal
  BY DEF LruInv, Lru!Product, LruTyped
<1>2. key = Lru!KeyAt(layer, at) /\ key \in AllKeys
  BY <1>1 DEF KeyOf, Here, AllKeys
<1>3. /\ ~metal \/ ~InFfn(a)
      /\ IF key \in weight_cache THEN Lru!Hit(key) ELSE Lru!Insert(key)
      /\ Lru!Use(key)
  BY <1>2 DEF Lru!Product, InFfn
<1>4. CASE key \in weight_cache
  <2>1. Lru!Hit(key)
    BY <1>3, <1>4
  <2>2. /\ weight_cache' = weight_cache /\ KeysOf(weight_cache', lru_order')
        /\ Moves(Held(weight_cache), Order(lru_order), Order(lru_order'), a)
        /\ \A x, y : Lru!Precedes(lru_order', x, y) =>
             x # key /\ (y = key \/ Lru!Precedes(lru_order, x, y))
    BY <1>1, <1>4, <2>1, HitFacts
  <2>3. LruTyped'
    BY <1>1, <1>3, <2>2, OverIsTyped DEF LruTyped
  <2>4. ASSUME metal PROVE Shaped' /\ Roomy'
    <3> DEFINE U == Held(weight_cache)  B == Order(lru_order)  D == Order(lru_order')
               n == Cardinality(weight_cache)
    <3>1. /\ Here' = After(a) /\ Held(weight_cache') = U /\ Cardinality(weight_cache') = n
          /\ U \in SUBSET Places /\ a \in U
      BY <1>1, <1>3, <1>4, <2>2, HereGoesOn, HeldIs
    <3>2. Shape(U, B, a, n) /\ (RoomForALayer => Layered(U, B, a))
      BY <2>4 DEF LruInv, Shaped, Roomy
    <3>3. ~InFfn(a) /\ Moves(U, B, D, a)
      BY <1>3, <2>2, <2>4
    <3> SUFFICES Shape(U, D, After(a), n) /\ (RoomForALayer => Layered(U, D, After(a)))
      BY <3>1 DEF Shaped, Roomy
    <3> HIDE DEF U, B, D, n, a
    <3> QED
      BY <1>1, <3>1, <3>2, <3>3, ShapeMoved, LayeredMoved
  <2>5. ASSUME ~metal PROVE ByUse'
    <3>1. \A x, y : Lru!Precedes(lru_order, x, y) => x \in weight_cache
      BY <1>1, ListFacts DEF LruTyped, KeysOf
    <3>2. \A x, y : Lru!Precedes(lru_order', x, y) => x \in weight_cache
      BY <2>2, ListFacts DEF KeysOf
    <3> HIDE DEF key
    <3> QED
      BY <1>1, <1>2, <1>3, <2>2, <2>5, <3>2, UseKept DEF LruInv
  <2> QED
    BY <1>1, <2>3, <2>4, <2>5 DEF LruInv, ByUse
<1>5. CASE key \notin weight_cache
  <2>1. Lru!Insert(key)
    BY <1>3, <1>5
  <2>2. /\ weight_cache' \subseteq weight_cache \cup {key} /\ KeysOf(weight_cache', lru_order')
        /\ Cardinality(weight_cache') <= MaxCacheEntries
        /\ \A x, y : Lru!Precedes(lru_order', x, y) =>
             x \in weight_cache /\ (y = key \/ Lru!Precedes(lru_order, x, y))
    <3>1. CASE Cardinality(weight_cache) # MaxCacheEntries
      BY <1>1, <1>5, <2>1, <3>1, AddFacts
    <3>2. CASE Cardinality(weight_cache) = MaxCacheEntries
      BY <1>1, <1>5, <2>1, <3>2, ReplaceFacts DEF Lru!LruAssumption
    <3> QED
      BY <3>1, <3>2
  <2>3. LruTyped'
    BY <1>1, <1>3, <2>2, OverIsTyped
  <2>4. ASSUME metal PROVE Shaped' /\ Roomy'
    BY <1>1, <1>3, <1>5, <2>1, <2>4, BroughtIn DEF LruInv
  <2>5. ASSUME ~metal PROVE ByUse'
    <3>1. \A x, y : Lru!Precedes(lru_order', x, y) => x # key
      BY <1>5, <2>2
    <3> HIDE DEF key
    <3> QED
      BY <1>1, <1>2, <1>3, <2>2, <2>5, <3>1, UseKept DEF LruInv
  <2> QED
    BY <1>1, <2>3, <2>4, <2>5 DEF LruInv, ByUse
<1> QED
  BY <1>4, <1>5

(* Making sure of a feed-forward matrix keeps the invariant.               *)
LEMMA PrefetchKept ==
  ASSUME Lru!LruAssumption, LruInv, Lru!Prefetch
  PROVE  LruInv'
<1> DEFINE a == Here  key == KeyOf(a)
<1>1. LruTyped /\ layer < NumLayers /\ a \in Places /\ metal' = metal /\ metal
  BY DEF LruInv, Lru!Prefetch, LruTyped
<1>2. key = Lru!KeyAt(layer, at) /\ key \in AllKeys
  BY <1>1 DEF KeyOf, Here, AllKeys
<1>3. /\ InFfn(a) /\ Lru!Use(key)
      /\ IF key \in weight_cache THEN UNCHANGED <<weight_cache, lru_order>> ELSE Lru!Insert(key)
  BY <1>2 DEF Lru!Prefetch, InFfn
<1>4. CASE key \in weight_cache
  <2>1. weight_cache' = weight_cache /\ lru_order' = lru_order
    BY <1>3, <1>4
  <2>2. KeysOf(weight_cache', lru_order') /\ Cardinality(weight_cache') <= MaxCacheEntries
    BY <1>1, <2>1 DEF LruTyped
  <2>3. LruTyped'
    BY <1>1, <1>3, <2>2, OverIsTyped
  <2> DEFINE U == Held(weight_cache)  B == Order(lru_order)  n == Cardinality(weight_cache)
  <2>4. /\ Here' = After(a) /\ Held(weight_cache') = U /\ Order(lru_order') = B
        /\ Cardinality(weight_cache') = n /\ U \in SUBSET Places /\ a \in U
    BY <1>1, <1>3, <1>4, <2>1, HereGoesOn, HeldIs
  <2>5. Shape(U, B, a, n) /\ (RoomForALayer => Layered(U, B, a)) /\ Ordered(U, B)
    BY <1>1, HeldOrdered DEF LruInv, Shaped, Roomy, LruTyped
  <2>6. Shape(U, B, After(a), n) /\ (RoomForALayer => Layered(U, B, After(a)))
    <3> HIDE DEF U, B, n, a
    <3> QED
      BY <1>1, <1>3, <2>4, <2>5, ShapeStays, LayeredStays
  <2>7. Shaped' /\ Roomy'
    BY <2>4, <2>6 DEF Shaped, Roomy
  <2> QED
    BY <1>1, <2>3, <2>7 DEF LruInv, ByUse
<1>5. CASE key \notin weight_cache
  <2>1. Lru!Insert(key)
    BY <1>3, <1>5
  <2>2. KeysOf(weight_cache', lru_order') /\ Cardinality(weight_cache') <= MaxCacheEntries
    <3>1. CASE Cardinality(weight_cache) # MaxCacheEntries
      BY <1>1, <1>5, <2>1, <3>1, AddFacts
    <3>2. CASE Cardinality(weight_cache) = MaxCacheEntries
      BY <1>1, <1>5, <2>1, <3>2, ReplaceFacts DEF Lru!LruAssumption
    <3> QED
      BY <3>1, <3>2
  <2>3. LruTyped'
    BY <1>1, <1>3, <2>2, OverIsTyped
  <2>4. Shaped' /\ Roomy'
    BY <1>1, <1>3, <1>5, <2>1, BroughtIn DEF LruInv
  <2> QED
    BY <1>1, <2>3, <2>4 DEF LruInv, ByUse
<1> QED
  BY <1>4, <1>5

(* The next pass, after a whole one or one that failed, keeps the          *)
(* invariant.                                                              *)
LEMMA NextPassKept ==
  ASSUME Lru!LruAssumption, LruInv, Lru!NextPass
  PROVE  LruInv'
<1>1. /\ layer' = 0 /\ at' = 1 /\ metal' = metal /\ weight_cache' = weight_cache
      /\ lru_order' = lru_order /\ used' = used
  BY DEF Lru!NextPass
<1>2. NumLayers \in Nat \ {0} /\ 0 \in Lru!Layer
  BY DEF Lru!LruAssumption, Lru!Layer
<1>3. 1 \in 1..Size(0)
  BY <1>2, LayerFacts
<1>4. Here' = <<0, 1>> /\ Here' \in Places
  BY <1>1, <1>2, <1>3, PlaceFacts DEF Here
<1>5. LruTyped'
  BY <1>1, <1>2, <1>4 DEF LruInv, LruTyped
<1>6. ByUse'
  BY <1>1 DEF LruInv, ByUse, Lru!OrderIsByUse
<1>7. \A p \in Places : ~Less(p, <<0, 1>>)
  <2>1. \A p \in Places : p[1] \in Nat /\ p[2] \in Nat \ {0}
    BY PlaceFacts, FfnPlaces
  <2> QED
    BY <2>1 DEF Less
<1> DEFINE U == Held(weight_cache)  B == Order(lru_order)  n == Cardinality(weight_cache)
<1>8. ASSUME metal PROVE Shape(U, B, <<0, 1>>, n)
  <2>1. Shape(U, B, Here, n) /\ U \in SUBSET Places
    BY <1>8, HeldIs DEF LruInv, Shaped
  <2> HIDE DEF U, B, n
  <2>2. MissingIsEvicted(U, <<0, 1>>, n)
    BY <1>7, <2>1 DEF Shape, MissingIsEvicted
  <2>3. PastIsHeld(U, <<0, 1>>) /\ ComingIsOlder(U, B, <<0, 1>>)
    BY <1>7, <2>1 DEF PastIsHeld, ComingIsOlder
  <2>4. ProjectionsInOrder(U, B, <<0, 1>>) /\ SinceFfnIsYounger(U, B, <<0, 1>>)
    BY <1>7, <2>1 DEF ProjectionsInOrder, SinceFfnIsYounger
  <2>5. NoGapSinceFfn(U, <<0, 1>>)
    BY <1>7, <2>1 DEF NoGapSinceFfn
  <2> QED
    BY <2>1, <2>2, <2>3, <2>4, <2>5 DEF Shape
<1>9. Layered(U, B, <<0, 1>>)
  BY <1>7 DEF Layered, LayerIsHeld, FirstBlockIsHeld
<1>10. metal => Shaped' /\ Roomy'
  BY <1>1, <1>4, <1>8, <1>9 DEF Shaped, Roomy
<1> QED
  BY <1>1, <1>5, <1>6, <1>10 DEF LruInv

(* The invariant holds in every state.                                     *)
LEMMA LruInvariant == Lru!LruAssumption => (Lru!Spec => []LruInv)
<1> SUFFICES ASSUME Lru!LruAssumption PROVE Lru!Spec => []LruInv
  OBVIOUS
<1>1. Lru!Init => LruInv
  BY LruInit
<1>2. LruInv /\ [Lru!Next]_(Lru!vars) => LruInv'
  <2>1. LruInv /\ UNCHANGED Lru!vars => LruInv'
    BY DEF Lru!vars, LruInv, LruTyped, ByUse, Lru!OrderIsByUse, Shaped, Roomy, Here
  <2> QED
    BY <2>1, ProductKept, PrefetchKept, NextPassKept DEF Lru!Next
<1> QED
  BY <1>1, <1>2, PTL DEF Lru!Spec

-----------------------------------------------------------------------------
(* The theorems                                                            *)

(* Of any model, on the CPU and on Metal, with steps that fail: the map    *)
(* and the list name the same keys, each once, and no more than the        *)
(* capacity; so what is evicted is there, and nothing is kept for ever.    *)
THEOREM LruTypeCorrect ==
  ASSUME Lru!LruAssumption
  PROVE  Lru!Spec => []Lru!ListIsTheMap
<1>1. LruInv => Lru!ListIsTheMap
  BY SameCount DEF LruInv, LruTyped, KeysOf, Lru!ListIsTheMap
<1> QED
  BY <1>1, LruInvariant, PTL

(* On the CPU the list is in the order of the last uses.                   *)
THEOREM LruOrder ==
  ASSUME Lru!LruAssumption, "metal" \notin Backends
  PROVE  Lru!Spec => []Lru!OrderIsByUse
<1>1. LruInv => Lru!OrderIsByUse
  BY DEF LruInv, LruTyped, ByUse
<1> QED
  BY <1>1, LruInvariant, PTL

(* On Metal, where a hit of the feed-forward block leaves the list as it   *)
(* is, none of its three matrices has gone when all have been made sure    *)
(* of, after any number of passes, complete or not, if only there is room  *)
(* for the matrices of one layer.                                           *)
THEOREM UnwrapSafe ==
  ASSUME Lru!LruAssumption, RoomForALayer
  PROVE  Lru!Spec => []Lru!UnwrapFinds
<1>1. LruInv => Lru!UnwrapFinds
  <2> SUFFICES ASSUME LruInv, metal, layer > 0, at = 1, NEW w \in Lru!Range(Lru!FfnWeights)
               PROVE  <<layer - 1, w>> \in weight_cache
    BY DEF Lru!UnwrapFinds
  <2>1. LruTyped /\ LayerIsHeld(Held(weight_cache), Here)
    BY DEF LruInv, Roomy, Layered
  <2>2. NumLayers \in Nat /\ layer \in 0..NumLayers
    BY <2>1 DEF Lru!LruAssumption, LruTyped
  <2> DEFINE l == layer - 1  n == Len(Mixer[l])
  <2>3. l \in Lru!Layer /\ l \in Nat
    BY <2>2 DEF Lru!Layer
  <2>4. /\ n \in Nat /\ Size(l) = n + 3
        /\ Lru!LayerWeights(l)[n + 1] = "w1" /\ Lru!LayerWeights(l)[n + 2] = "w3"
        /\ Lru!LayerWeights(l)[n + 3] = "w2"
    BY <2>3, LayerFacts
  <2>5. PICK k \in {n + 1, n + 2, n + 3} : Lru!LayerWeights(l)[k] = w
    BY <2>4, FfnNames
  <2>6. k \in 1..Size(l)
    BY <2>4, <2>5
  <2>7. <<l, k>> \in Places
    BY <2>3, <2>6, PlaceFacts
  <2>8. Here[1] = layer /\ Here[2] = 1 /\ layer - 1 = l
    BY DEF Here
  <2>9. Less(<<l, k>>, Here)
    BY <2>2, <2>3, <2>8 DEF Less
  <2>10. <<l, k>> \in Held(weight_cache)
    BY <2>1, <2>7, <2>8, <2>9 DEF LayerIsHeld
  <2>11. KeyOf(<<l, k>>) = <<layer - 1, w>>
    BY <2>5 DEF KeyOf, Lru!KeyAt
  <2> QED
    BY <2>7, <2>10, <2>11, HeldIs
<1> QED
  BY <1>1, LruInvariant, PTL
=============================================================================
