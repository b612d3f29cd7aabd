---------------------------- MODULE GemmaProofs -----------------------------
(***************************************************************************)
(* What holds of Gemma for every value of the constants.  Of its images    *)
(* (VlmPrompt): the patches keep to the budget of soft tokens, for every   *)
(* size.  Of its runner (GemmaPass, here G): the passes are the model's    *)
(* for every number of layers, sessions and positions, every window and    *)
(* every way layers share K/V; by the batch, on the graph and by the loop, *)
(* with paths that fail.  Of the decoding with features (VlmDecode, here   *)
(* D), for Llama and for Gemma: every way to prefill leaves the model's    *)
(* cache, tokens are sampled from it, and generation stops when it should. *)
(***************************************************************************)
EXTENDS VlmPrompt, Induction

CONSTANTS
  Sessions, NumLayers, MaxSeq, BlockSize, Kinds, Dtypes, Backends, SlidingMask,
  SharedLayers, HasPle, Scaled, Pattern, Window, PathFaults, Idle

CONSTANTS
  Runner, Prompts, Features, Prefix, Bidir, MaxNew, MinNew, SameRun, AltRun, Tokens, Eos

VARIABLES conf, graph, count, cache, gpu, fed, call, answer

VARIABLES prompt, feats, phase, spot, cursor, image_idx, length, kept, next, generated

G == INSTANCE GemmaPass

D == INSTANCE VlmDecode WITH
  at <- phase, i <- spot, pos <- cursor, count <- length, cache <- kept

-----------------------------------------------------------------------------
(* The image's patches                                                     *)

(* Products of naturals are monotone in both factors.                       *)
LEMMA ProductMonotone ==
  ASSUME NEW a \in Nat, NEW b \in Nat, NEW c \in Nat, NEW d \in Nat, a <= b, c <= d
  PROVE  a * c <= b * d
<1>1. a * c <= b * c
  <2>1. PICK k \in Nat : b = a + k
    <3>1. b - a \in Nat /\ b = a + (b - a)
      OBVIOUS
    <3> QED BY <3>1
  <2>2. b * c = a * c + k * c
    BY <2>1
  <2>3. k * c \in Nat /\ a * c \in Nat
    BY <2>1
  <2> QED BY <2>2, <2>3
<1>2. b * c <= b * d
  <2>1. PICK k \in Nat : d = c + k
    <3>1. d - c \in Nat /\ d = c + (d - c)
      OBVIOUS
    <3> QED BY <3>1
  <2>2. b * d = b * c + b * k
    BY <2>1
  <2>3. b * k \in Nat /\ b * c \in Nat
    BY <2>1
  <2> QED BY <2>2, <2>3
<1>3. a * c \in Nat /\ b * c \in Nat /\ b * d \in Nat
  OBVIOUS
<1> QED BY <1>1, <1>2, <1>3

(* A common positive factor can be dropped from a strict comparison of      *)
(* products, and squares compare as their roots.                            *)
LEMMA SquaresCompare ==
  ASSUME NEW p \in Nat, NEW b \in Nat, NEW f \in Nat \ {0}, (p * p) * f <= (b * b) * f
  PROVE  p <= b
<1>1. SUFFICES ASSUME b + 1 <= p PROVE FALSE
  OBVIOUS
<1>2. (b + 1) * (b + 1) <= p * p
  BY <1>1, ProductMonotone
<1>3. b * b + 1 <= p * p
  <2>1. (b + 1) * (b + 1) = b * b + 2 * b + 1
    OBVIOUS
  <2>2. b * b \in Nat /\ p * p \in Nat
    OBVIOUS
  <2> QED BY <1>2, <2>1, <2>2
<1>4. (b * b + 1) * f <= (p * p) * f
  <2>1. b * b + 1 \in Nat /\ p * p \in Nat
    OBVIOUS
  <2> DEFINE s == b * b + 1
  <2> DEFINE q == p * p
  <2>2. s \in Nat /\ q \in Nat /\ s <= q
    BY <2>1, <1>3
  <2> HIDE DEF s, q
  <2>3. s * f <= q * f
    BY <2>2, ProductMonotone
  <2> QED BY <2>3 DEF s, q
<1>5. (b * b + 1) * f = (b * b) * f + f
  <2> DEFINE s == b * b
  <2>1. s \in Nat
    OBVIOUS
  <2> HIDE DEF s
  <2>2. (s + 1) * f = s * f + f
    BY <2>1
  <2> QED BY <2>2 DEF s
<1>6. (b * b) * f \in Nat /\ (p * p) * f \in Nat
  OBVIOUS
<1> QED BY <1>4, <1>5, <1>6

(* The roots of budget * h / w and of budget * w / h have a product within  *)
(* the budget: get_aspect_ratio_preserving_size rounds both sides down.     *)
LEMMA RootsWithinBudget ==
  ASSUME NEW b \in Nat, NEW h \in Nat \ {0}, NEW w \in Nat \ {0},
         NEW r \in Nat, NEW c \in Nat, IsRoot(r, b * h, w), IsRoot(c, b * w, h)
  PROVE  r * c <= b
<1>1. r * r * w <= b * h /\ c * c * h <= b * w
  BY DEF IsRoot
<1>2. (r * r * w) * (c * c * h) <= (b * h) * (b * w)
  <2> DEFINE x == r * r * w
  <2> DEFINE y == c * c * h
  <2> DEFINE u == b * h
  <2> DEFINE v == b * w
  <2>1. x \in Nat /\ y \in Nat /\ u \in Nat /\ v \in Nat /\ x <= u /\ y <= v
    BY <1>1
  <2> HIDE DEF x, y, u, v
  <2>2. x * y <= u * v
    BY <2>1, ProductMonotone
  <2> QED BY <2>2 DEF x, y, u, v
<1>3. (r * r * w) * (c * c * h) = ((r * c) * (r * c)) * (h * w)
  BY Z3
<1>4. (b * h) * (b * w) = (b * b) * (h * w)
  BY Z3
<1>5. h * w \in Nat \ {0} /\ r * c \in Nat
  OBVIOUS
<1> QED BY <1>2, <1>3, <1>4, <1>5, SquaresCompare

-----------------------------------------------------------------------------
(* What the bound rests on: the shape of the request and of the hints, and  *)
(* the bound once the image was resized.                                    *)
RequestOK ==
  /\ size \in Sizes
  /\ softEnv \in Maybe(Nat \ {0})
  /\ files \in Seq(Configs)
  /\ hints = [len |-> hints.len, split |-> hints.split]
  /\ hints.len \in Maybe(Nat \ {0})
  /\ read \in Nat
PatchesFit ==
  Family = "gemma" /\ at # "prepare" => patches[1] * patches[2] \in 1..Budget
PatchesInv == RequestOK /\ PatchesFit

(* The budget is a positive number whatever the environment says.           *)
LEMMA BudgetPositive == ASSUME RequestOK PROVE Budget \in Nat \ {0}
BY VlmPromptAssumption DEF RequestOK, Budget, Or, Maybe

LEMMA PatchesInit == Init => PatchesInv
<1> SUFFICES ASSUME Init PROVE PatchesInv
  OBVIOUS
<1>1. hints.len \in Maybe(Nat \ {0}) /\ hints = [len |-> hints.len, split |-> hints.split]
  BY DEF Init, Maybe
<1>2. softEnv \in Maybe(Nat \ {0})
  BY VlmPromptAssumption DEF Init, Maybe
<1>3. files \in Seq(Configs)
  <2>1. CASE Path = "bytes"
    BY <2>1 DEF Init
  <2>2. CASE Path # "bytes"
    <3>1. PICK n \in 0..(IF Path = "onnx" THEN 1 ELSE 2) : files \in [1..n -> Configs]
      BY <2>2 DEF Init
    <3>2. n \in Nat
      BY <3>1
    <3> QED BY <3>1, <3>2
  <2> QED BY <2>1, <2>2
<1> QED BY <1>1, <1>2, <1>3 DEF Init, PatchesInv, RequestOK, PatchesFit

LEMMA PatchesStep == PatchesInv /\ [Next]_vars => PatchesInv'
<1> SUFFICES ASSUME PatchesInv, [Next]_vars PROVE PatchesInv'
  OBVIOUS
<1> USE DEF PatchesInv, request
<1>1. CASE ReadHints
  <2>1. files[read + 1] \in Configs
    BY <1>1 DEF ReadHints, RequestOK
  <2>2. files[read + 1].len \in Maybe(Nat \ {0})
    BY <2>1, VlmPromptAssumption
  <2>3. hints'.len \in Maybe(Nat \ {0})
    BY <1>1, <2>2 DEF ReadHints, RequestOK, Or
  <2>4. hints' = [len |-> hints'.len, split |-> hints'.split]
    BY <1>1 DEF ReadHints
  <2>5. RequestOK'
    BY <1>1, <2>3, <2>4 DEF ReadHints, RequestOK
  <2>6. PatchesFit'
    BY <1>1 DEF ReadHints, PatchesFit
  <2> QED BY <2>5, <2>6
<1>2. CASE CutTiles
  BY <1>2, VlmPromptAssumption DEF CutTiles, RequestOK, PatchesFit, Budget, Or
<1>3. CASE CutPatches
  <2>1. RequestOK'
    BY <1>3 DEF CutPatches, RequestOK
  <2>2. Budget' = Budget /\ Budget \in Nat \ {0}
    BY <1>3, BudgetPositive DEF CutPatches, Budget, Or
  <2>3. size[1] \in Nat \ {0} /\ size[2] \in Nat \ {0}
    BY VlmPromptAssumption DEF RequestOK
  <2>4. ASSUME NEW h \in Nat \ {0}, NEW w \in Nat \ {0}, AspectRatio(h, w)
        PROVE  patches'[1] * patches'[2] \in 1..Budget
    <3>1. PICK fh \in 0..(Budget * Greater(h, w)), fw \in 0..(Budget * Greater(h, w)) :
            /\ IsRoot(fh, Budget * h, w) /\ IsRoot(fw, Budget * w, h)
            /\ patches' = IF fh = 0 THEN <<1, Clamp(Greater(w \div h, 1), 1, Budget)>>
                          ELSE IF fw = 0 THEN <<Clamp(Greater(h \div w, 1), 1, Budget), 1>>
                          ELSE <<fh, fw>>
      BY <2>4 DEF AspectRatio
    <3>2. fh \in Nat /\ fw \in Nat
      BY <3>1, <2>2 DEF Greater
    <3>3. \A x \in Nat : Clamp(Greater(x, 1), 1, Budget) \in 1..Budget
      BY <2>2 DEF Clamp, Greater, Lesser
    <3>4. w \div h \in Nat /\ h \div w \in Nat
      OBVIOUS
    <3>5. CASE fh = 0
      BY <3>1, <3>3, <3>4, <3>5
    <3>6. CASE fh # 0 /\ fw = 0
      BY <3>1, <3>3, <3>4, <3>6
    <3>7. CASE fh # 0 /\ fw # 0
      <4>1. fh * fw <= Budget
        BY <3>1, <3>2, <2>2, RootsWithinBudget
      <4>2. 1 * 1 <= fh * fw
        BY <3>2, <3>7, ProductMonotone
      <4>3. patches' = <<fh, fw>> /\ fh * fw \in Nat
        BY <3>1, <3>2, <3>7
      <4> QED BY <4>1, <4>2, <4>3, <2>2
    <3> QED BY <3>5, <3>6, <3>7
  <2>5. PatchesFit'
    BY <1>3, <2>2, <2>3, <2>4 DEF CutPatches, PatchesFit
  <2> QED BY <2>1, <2>5
<1>4. CASE Encode
  BY <1>4 DEF Encode, RequestOK, PatchesFit, Budget, Or
<1>5. CASE Tokenise
  BY <1>5 DEF Tokenise, RequestOK, PatchesFit, Budget, Or
<1>6. CASE Decode
  BY <1>6 DEF Decode, RequestOK, PatchesFit, Budget, Or
<1>7. CASE Done \/ UNCHANGED vars
  BY <1>7 DEF Done, vars, RequestOK, PatchesFit, Budget, Or
<1> QED BY <1>1, <1>2, <1>3, <1>4, <1>5, <1>6, <1>7 DEF Next

(* For every image, budget and configuration: the patches of an image take  *)
(* at least one soft token and no more than the budget it was resized to.   *)
THEOREM GemmaWithinBudget == Spec => []WithinBudget
<1>1. PatchesInv => WithinBudget
  BY DEF PatchesInv, PatchesFit, WithinBudget
<1> QED BY PatchesInit, PatchesStep, <1>1, PTL DEF Spec

-----------------------------------------------------------------------------
(* The runner                                                              *)

(* Operations on the GPU, and the graph, are taken for some model.         *)
OnMetal == Backends \cap {"linear", "full"} # {}
OnGraph == "full" \in Backends /\ \E dtype \in Dtypes : dtype # "i2"

(* The batch keeps K/V in one buffer per layer, for whoever runs.          *)
BatchOfOne ==
  OnMetal /\ "plain" \in Kinds /\ "i4" \in Dtypes => \A s, t \in Sessions : s = t

(* i4 on Metal: the batch takes a Gemma 4 that shares no K/V and has no    *)
(* per-layer input, and knows nothing of its norms; the loop caps the      *)
(* scores of the attention.  What is left is a graph that does not fail.   *)
CapsNoScore ==
  "gemma4" \in Kinds /\ "i4" \in Dtypes =>
    /\ "linear" \notin Backends
    /\ "full" \in Backends => ~PathFaults /\ SharedLayers > 0

(* The graph has one buffer for the scales of all layers, and looks for a  *)
(* layer's K/V in the layer itself when no earlier one is of its kind.     *)
GraphKnowsLayers ==
  "gemma4" \in Kinds /\ OnGraph =>
    /\ ~HasPle /\ Scaled = {}
    /\ SharedLayers < NumLayers =>
         \A l \in (NumLayers - SharedLayers)..(NumLayers - 1) : G!Sources(l) # {}

(* The graph caps the logits of Gemma 4, and so does its caller.           *)
CapsOnce == OnGraph => "gemma4" \notin Kinds

-----------------------------------------------------------------------------
(* The invariant: types and shapes, without those hypotheses               *)

GemmaConf ==
  /\ conf.kind \in Kinds /\ conf.dtype \in Dtypes /\ conf.ops \in BOOLEAN
  /\ graph \in BOOLEAN
  /\ conf.ops => OnMetal
  /\ graph => /\ conf.ops /\ "full" \in Backends
              /\ conf.kind # "plain" /\ conf.dtype # "i2"
  /\ conf.ops /\ ~graph /\ conf.kind # "plain" /\ conf.dtype # "i2" =>
       "linear" \in Backends \/ ("full" \in Backends /\ PathFaults)

(* What a session was fed, position by position.                           *)
GemmaFed ==
  /\ DOMAIN fed = Sessions
  /\ \A s \in Sessions : G!Fed(s) \in 0..MaxSeq /\ DOMAIN fed[s] = 0..(G!Fed(s) - 1)

(* A table has the finished positions, and perhaps that of the step under  *)
(* way or of a step that failed.                                            *)
GemmaCounted ==
  /\ count \in [Sessions -> 0..MaxSeq]
  /\ \A s \in Sessions : count[s] = G!Done(s) \/ count[s] = G!Done(s) + 1

GemmaCache(c) ==
  /\ DOMAIN c = Sessions
  /\ \A s \in Sessions : DOMAIN c[s] = G!Layer
  /\ \A s \in Sessions, l \in G!Layer : DOMAIN c[s][l] = G!Position
GemmaBuffers(b) == DOMAIN b = G!Layer /\ \A l \in G!Layer : DOMAIN b[l] = G!Position

GemmaCallShape(c) ==
  /\ c = [s |-> c.s, pos |-> c.pos, at |-> c.at, layer |-> c.layer, x |-> c.x]
  /\ c.s \in Sessions /\ c.pos \in G!Position /\ c.layer \in 0..NumLayers
  /\ c.at \in {"batched", "graph", "layers"}
(* What stands for no call is none.                                        *)
IdleIsNoGemmaCall == ~ GemmaCallShape(Idle)

(* A step is of the last position its session was fed; the loop's has been *)
(* appended, and no graph is left.                                          *)
GemmaCall ==
  call # Idle =>
    /\ GemmaCallShape(call)
    /\ call.pos = G!Fed(call.s) - 1
    /\ call.at # "layers" => call.layer = 0
    /\ call.at = "layers" => count[call.s] = call.pos + 1 /\ ~graph

GemmaTyped ==
  /\ GemmaConf /\ GemmaFed /\ GemmaCounted
  /\ GemmaCache(cache) /\ GemmaBuffers(gpu) /\ GemmaCall

(* The types and bounds the steps below rest on.                           *)
LEMMA GemmaSizes ==
  ASSUME G!GemmaAssumption
  PROVE  /\ NumLayers \in Nat /\ MaxSeq \in Nat /\ BlockSize \in Nat /\ Pattern \in Nat
         /\ Window \in Nat /\ SharedLayers \in Nat
         /\ NumLayers > 0 /\ MaxSeq > 0 /\ BlockSize > 0 /\ Pattern > 0 /\ Window > 0
         /\ SharedLayers <= NumLayers
         /\ HasPle \in BOOLEAN /\ PathFaults \in BOOLEAN
         /\ Kinds \subseteq {"plain", "gemma3", "gemma4"}
         /\ Dtypes \subseteq {"f16", "i8", "i4", "i2"}
         /\ Backends \subseteq {"cpu", "linear", "full"}
  BY DEF G!GemmaAssumption

(* The number of positions of an interval from zero.                       *)
LEMMA LengthIs ==
  ASSUME NEW f, NEW n \in Nat, DOMAIN f = 0..(n - 1)
  PROVE  G!Cardinality(DOMAIN f) = n
<1>1. Cardinality(0..(n - 1)) = IF 0 > n - 1 THEN 0 ELSE (n - 1) - 0 + 1
  BY FS_Interval
<1>2. \A S : G!Cardinality(S) = Cardinality(S)
  BY DEF G!Cardinality, Cardinality
<1> QED
  BY <1>1, <1>2

(* A call's numbers, and where it is.                                      *)
LEMMA GemmaCallTypes ==
  ASSUME G!GemmaAssumption, GemmaTyped, call # Idle
  PROVE  /\ call.s \in Sessions /\ call.pos \in Nat /\ call.pos \in G!Position
         /\ call.pos + 1 \in 0..MaxSeq
         /\ call.layer \in Nat /\ call.layer <= NumLayers
         /\ G!Fed(call.s) = call.pos + 1 /\ G!Done(call.s) = call.pos
         /\ G!Fed(call.s) \in Nat /\ count[call.s] \in Nat
         /\ count[call.s] = call.pos \/ count[call.s] = call.pos + 1
         /\ call.at \in {"batched", "graph", "layers"}
         /\ call.at # "layers" => call.layer = 0
         /\ call.at = "layers" => count[call.s] = call.pos + 1 /\ ~graph
<1>1. call.s \in Sessions /\ call.pos \in G!Position /\ call.layer \in 0..NumLayers
  BY DEF GemmaTyped, GemmaCall, GemmaCallShape
<1>2. G!Fed(call.s) \in 0..MaxSeq /\ call.pos = G!Fed(call.s) - 1
  BY <1>1 DEF GemmaTyped, GemmaCall, GemmaFed
<1>3. G!Done(call.s) = call.pos
  BY DEF G!Done
<1>4. call.pos \in Nat /\ call.pos < MaxSeq
  BY <1>1, GemmaSizes DEF G!Position
<1>5. count[call.s] \in 0..MaxSeq
  BY <1>1 DEF GemmaTyped, GemmaCounted
<1>6. count[call.s] = call.pos \/ count[call.s] = call.pos + 1
  BY <1>1, <1>3 DEF GemmaTyped, GemmaCounted
<1>7. /\ call.at \in {"batched", "graph", "layers"}
      /\ call.at # "layers" => call.layer = 0
      /\ call.at = "layers" => count[call.s] = call.pos + 1 /\ ~graph
  BY DEF GemmaTyped, GemmaCall, GemmaCallShape
<1> QED
  BY <1>1, <1>2, <1>3, <1>4, <1>5, <1>6, <1>7, GemmaSizes

(* A position outside the buffer is not written.                           *)
LEMMA BufferKept ==
  ASSUME NEW l, NEW p, NEW v, NEW b, GemmaBuffers(b)
  PROVE  GemmaBuffers([b EXCEPT ![l][p] = v])
  BY DEF GemmaBuffers

(* The first state is well formed.                                         *)
LEMMA GemmaTypeInit == ASSUME G!GemmaAssumption, G!Init PROVE GemmaTyped
<1>1. GemmaConf
  <2>0. PICK kind \in Kinds, dtype \in Dtypes : \E e \in G!Enabled(kind, dtype) :
          /\ conf = [kind |-> kind, dtype |-> dtype, ops |-> e.ops]
          /\ graph = e.graph
    BY DEF G!Init
  <2>1. PICK e \in G!Enabled(kind, dtype) :
          /\ conf = [kind |-> kind, dtype |-> dtype, ops |-> e.ops]
          /\ graph = e.graph
    BY <2>0
  <2>2. CASE e = [ops |-> FALSE, graph |-> FALSE] /\ "cpu" \in Backends
    <3>1. conf = [kind |-> kind, dtype |-> dtype, ops |-> FALSE] /\ graph = FALSE
      BY <2>1, <2>2
    <3> QED
      BY <3>1 DEF GemmaConf
  <2>3. CASE e = [ops |-> TRUE, graph |-> FALSE] /\ "linear" \in Backends
    <3>1. conf = [kind |-> kind, dtype |-> dtype, ops |-> TRUE] /\ graph = FALSE
      BY <2>1, <2>3
    <3> QED
      BY <2>3, <3>1 DEF GemmaConf, OnMetal
  <2>4. CASE e = [ops |-> TRUE, graph |-> kind # "plain" /\ dtype # "i2"] /\ "full" \in Backends
    <3> DEFINE g == kind # "plain" /\ dtype # "i2"
    <3>1. g \in BOOLEAN /\ (g <=> kind # "plain" /\ dtype # "i2")
      OBVIOUS
    <3>2. conf = [kind |-> kind, dtype |-> dtype, ops |-> TRUE] /\ graph = g
      BY <2>1, <2>4
    <3> HIDE DEF g
    <3> QED
      BY <2>4, <3>1, <3>2 DEF GemmaConf, OnMetal
  <2> QED
    BY <2>1, <2>2, <2>3, <2>4 DEF G!Enabled
<1>2. call = Idle /\ fed = [s \in Sessions |-> <<>>] /\ count = [s \in Sessions |-> 0]
  BY DEF G!Init
<1>3. \A s \in Sessions : DOMAIN fed[s] = 0..(0 - 1)
  BY <1>2
<1>4. \A s \in Sessions : G!Fed(s) = 0
  BY <1>3, LengthIs DEF G!Fed
<1>5. GemmaFed
  BY <1>2, <1>3, <1>4, GemmaSizes DEF GemmaFed
<1>6. GemmaCounted
  BY <1>2, <1>4, GemmaSizes DEF GemmaCounted, G!Done
<1>7. GemmaCache(cache) /\ GemmaBuffers(gpu)
  BY DEF G!Init, GemmaCache, GemmaBuffers
<1>8. GemmaCall
  BY <1>2 DEF GemmaCall
<1> QED
  BY <1>1, <1>5, <1>6, <1>7, <1>8 DEF GemmaTyped
-----------------------------------------------------------------------------
(* The recursions of the batch and of the graph                            *)

(* What the command buffer has after a layer of a position.                *)
FirstLayer(of, s) == [x |-> call.x, kv |-> IF of = "batch" THEN gpu ELSE cache[s]]
NextLayer(of, l, st, s, pos, seq) ==
  IF of = "batch" THEN G!BatchedLayer(l, st, pos) ELSE G!GraphLayer(l, st, s, pos, seq)
Row(of, l, st, s, pos, seq) ==
  IF l = 0 THEN FirstLayer(of, s) ELSE NextLayer(of, l - 1, st, s, pos, seq)
Rows(of, top, s, pos, seq, g) == g = [l \in 0..top |-> Row(of, l, g[l - 1], s, pos, seq)]

LEMMA FirstRow ==
  ASSUME NEW of, NEW s, NEW pos, NEW seq, NEW a, NEW b
  PROVE  Row(of, 0, a, s, pos, seq) = Row(of, 0, b, s, pos, seq)
  BY DEF Row

(* Each recursion has a value, for every number of layers.                 *)
LEMMA RowsExist ==
  ASSUME NEW of, NEW s, NEW pos, NEW seq, NEW top \in Nat
  PROVE  \E g : Rows(of, top, s, pos, seq, g)
<1> DEFINE S == {m \in 0..top : \E g : Rows(of, m, s, pos, seq, g)}
<1>1. 0 \in S
  <2> DEFINE g == [l \in 0..0 |-> Row(of, 0, Idle, s, pos, seq)]
  <2>1. Row(of, 0, Idle, s, pos, seq) = Row(of, 0, g[-1], s, pos, seq)
    BY FirstRow
  <2>2. g = [l \in 0..0 |-> Row(of, l, g[l - 1], s, pos, seq)]
    BY <2>1
  <2>3. Rows(of, 0, s, pos, seq, g)
    BY <2>2 DEF Rows
  <2> QED
    BY <2>3
<1>2. ASSUME NEW m \in 0..(top - 1), m \in S
      PROVE  m + 1 \in S
  <2>1. PICK g : Rows(of, m, s, pos, seq, g)
    BY <1>2
  <2> DEFINE new == [l \in 0..(m + 1) |->
                       IF l <= m THEN g[l] ELSE Row(of, l, g[l - 1], s, pos, seq)]
  <2>2. \A l \in 0..m : g[l] = Row(of, l, g[l - 1], s, pos, seq)
    BY <2>1 DEF Rows
  <2>3. \A l \in 0..(m + 1) : new[l] = Row(of, l, g[l - 1], s, pos, seq)
    BY <2>2
  <2>4. \A l \in 0..(m + 1) : l # 0 => new[l - 1] = g[l - 1]
    OBVIOUS
  <2>5. Row(of, 0, g[0 - 1], s, pos, seq) = Row(of, 0, new[0 - 1], s, pos, seq)
    BY FirstRow
  <2>6. new = [l \in 0..(m + 1) |-> new[l]]
    OBVIOUS
  <2> HIDE DEF new
  <2>7. \A l \in 0..(m + 1) : new[l] = Row(of, l, new[l - 1], s, pos, seq)
    BY <2>3, <2>4, <2>5
  <2>8. Rows(of, m + 1, s, pos, seq, new)
    BY <2>6, <2>7 DEF Rows
  <2> QED
    BY <2>8
<1>3. 0..top \subseteq S
  <2> HIDE DEF S
  <2> QED
    BY <1>1, <1>2, Climb
<1> QED
  BY <1>3

(* The batch, layer by layer.                                               *)
LEMMA BatchUnfolds ==
  ASSUME NumLayers \in Nat, NEW pos
  PROVE  \E run : /\ G!BatchedLayers(pos) = run[NumLayers]
                  /\ run[0] = [x |-> call.x, kv |-> gpu]
                  /\ \A l \in 0..(NumLayers - 1) : run[l + 1] = G!BatchedLayer(l, run[l], pos)
<1> DEFINE Run == CHOOSE g : g = [l \in 0..NumLayers |->
                     IF l = 0 THEN [x |-> call.x, kv |-> gpu]
                     ELSE G!BatchedLayer(l - 1, g[l - 1], pos)]
<1>1. G!BatchedLayers(pos) = Run[NumLayers]
  BY DEF G!BatchedLayers
<1>2. \E g : g = [l \in 0..NumLayers |->
                    IF l = 0 THEN [x |-> call.x, kv |-> gpu]
                    ELSE G!BatchedLayer(l - 1, g[l - 1], pos)]
  <2>1. PICK g : Rows("batch", NumLayers, 0, pos, 0, g)
    BY RowsExist
  <2>2. \A l, st : Row("batch", l, st, 0, pos, 0) =
                     IF l = 0 THEN [x |-> call.x, kv |-> gpu] ELSE G!BatchedLayer(l - 1, st, pos)
    BY DEF Row, FirstLayer, NextLayer
  <2>3. g = [l \in 0..NumLayers |-> Row("batch", l, g[l - 1], 0, pos, 0)]
    BY <2>1 DEF Rows
  <2>4. g = [l \in 0..NumLayers |->
               IF l = 0 THEN [x |-> call.x, kv |-> gpu] ELSE G!BatchedLayer(l - 1, g[l - 1], pos)]
    BY <2>2, <2>3
  <2> QED
    BY <2>4
<1>3. Run = [l \in 0..NumLayers |->
               IF l = 0 THEN [x |-> call.x, kv |-> gpu] ELSE G!BatchedLayer(l - 1, Run[l - 1], pos)]
  BY <1>2
<1> HIDE DEF Run
<1>4. Run[0] = [x |-> call.x, kv |-> gpu]
  BY <1>3
<1>5. \A l \in 0..(NumLayers - 1) : Run[l + 1] = G!BatchedLayer(l, Run[l], pos)
  BY <1>3
<1> QED
  BY <1>1, <1>4, <1>5

(* The graph, layer by layer.                                               *)
LEMMA FusedUnfolds ==
  ASSUME NumLayers \in Nat, NEW s, NEW pos, NEW seq
  PROVE  \E run : /\ G!StepFused(s, pos, seq) = run[NumLayers]
                  /\ run[0] = [x |-> call.x, kv |-> cache[s]]
                  /\ \A l \in 0..(NumLayers - 1) :
                       run[l + 1] = G!GraphLayer(l, run[l], s, pos, seq)
<1> DEFINE Run == CHOOSE g : g = [l \in 0..NumLayers |->
                     IF l = 0 THEN [x |-> call.x, kv |-> cache[s]]
                     ELSE G!GraphLayer(l - 1, g[l - 1], s, pos, seq)]
<1>1. G!StepFused(s, pos, seq) = Run[NumLayers]
  BY DEF G!StepFused
<1>2. \E g : g = [l \in 0..NumLayers |->
                    IF l = 0 THEN [x |-> call.x, kv |-> cache[s]]
                    ELSE G!GraphLayer(l - 1, g[l - 1], s, pos, seq)]
  <2>1. PICK g : Rows("graph", NumLayers, s, pos, seq, g)
    BY RowsExist
  <2>2. \A l, st : Row("graph", l, st, s, pos, seq) =
                     IF l = 0 THEN [x |-> call.x, kv |-> cache[s]]
                     ELSE G!GraphLayer(l - 1, st, s, pos, seq)
    BY DEF Row, FirstLayer, NextLayer
  <2>3. g = [l \in 0..NumLayers |-> Row("graph", l, g[l - 1], s, pos, seq)]
    BY <2>1 DEF Rows
  <2>4. g = [l \in 0..NumLayers |->
               IF l = 0 THEN [x |-> call.x, kv |-> cache[s]]
               ELSE G!GraphLayer(l - 1, g[l - 1], s, pos, seq)]
    BY <2>2, <2>3
  <2> QED
    BY <2>4
<1>3. Run = [l \in 0..NumLayers |->
               IF l = 0 THEN [x |-> call.x, kv |-> cache[s]]
               ELSE G!GraphLayer(l - 1, Run[l - 1], s, pos, seq)]
  BY <1>2
<1> HIDE DEF Run
<1>4. Run[0] = [x |-> call.x, kv |-> cache[s]]
  BY <1>3
<1>5. \A l \in 0..(NumLayers - 1) : Run[l + 1] = G!GraphLayer(l, Run[l], s, pos, seq)
  BY <1>3
<1> QED
  BY <1>1, <1>4, <1>5

(* What a layer of the batch, and one of the graph, does to the K/V it is   *)
(* given.                                                                   *)
LEMMA BatchLayerShape ==
  ASSUME NEW l, NEW st, NEW pos, GemmaBuffers(st.kv)
  PROVE  GemmaBuffers(G!BatchedLayer(l, st, pos).kv)
<1> DEFINE h == G!Norm(G!W("in_norm", l), st.x)
           k == G!Rope("rope_theta", pos, G!HeadNorm("k_norm", l, G!MatVec(G!W("k", l), h)))
           v == G!NamedKv(call.s, l, pos, <<k, G!MatVec(G!W("v", l), h)>>)
<1>1. G!BatchedLayer(l, st, pos).kv = [st.kv EXCEPT ![l][pos] = v]
  BY DEF G!BatchedLayer
<1> HIDE DEF v
<1>2. GemmaBuffers([st.kv EXCEPT ![l][pos] = v])
  BY BufferKept
<1> QED
  BY <1>1, <1>2

LEMMA GraphLayerShape ==
  ASSUME NEW l, NEW st, NEW s, NEW pos, NEW seq, GemmaBuffers(st.kv)
  PROVE  GemmaBuffers(G!GraphLayer(l, st, s, pos, seq).kv)
<1> DEFINE h == G!Norm(G!W("in_norm", l), st.x)
           u == G!MatVec(G!W("v", l), h)
           own == <<G!Rope(G!Theta(l), pos, G!Norm(G!W("k_norm", l), G!MatVec(G!W("k", l), h))),
                    IF G!Gemma4 THEN G!UnitNorm(u) ELSE u>>
           v == G!NamedKv(s, l, pos, own)
<1>1. G!GraphLayer(l, st, s, pos, seq).kv =
        IF G!GraphSource(l) # l THEN st.kv ELSE [st.kv EXCEPT ![l][pos] = v]
  BY DEF G!GraphLayer
<1> HIDE DEF v
<1>2. GemmaBuffers([st.kv EXCEPT ![l][pos] = v])
  BY BufferKept
<1> QED
  BY <1>1, <1>2

(* Whatever they compute, batch and graph write their own buffers.         *)
LEMMA BatchShape ==
  ASSUME NumLayers \in Nat, NEW pos, GemmaBuffers(gpu)
  PROVE  GemmaBuffers(G!BatchedLayers(pos).kv)
<1>1. PICK run : /\ G!BatchedLayers(pos) = run[NumLayers]
                 /\ run[0] = [x |-> call.x, kv |-> gpu]
                 /\ \A l \in 0..(NumLayers - 1) : run[l + 1] = G!BatchedLayer(l, run[l], pos)
  BY BatchUnfolds
<1> DEFINE S == {l \in 0..NumLayers : GemmaBuffers(run[l].kv)}
<1>2. 0 \in S
  BY <1>1
<1>3. \A l \in 0..(NumLayers - 1) : l \in S => l + 1 \in S
  BY <1>1, BatchLayerShape
<1>4. 0..NumLayers \subseteq S
  <2> HIDE DEF S
  <2> QED
    BY <1>2, <1>3, Climb
<1> QED
  BY <1>1, <1>4

LEMMA FusedShape ==
  ASSUME NumLayers \in Nat, NEW s, NEW pos, NEW seq, GemmaBuffers(cache[s])
  PROVE  GemmaBuffers(G!StepFused(s, pos, seq).kv)
<1>1. PICK run : /\ G!StepFused(s, pos, seq) = run[NumLayers]
                 /\ run[0] = [x |-> call.x, kv |-> cache[s]]
                 /\ \A l \in 0..(NumLayers - 1) : run[l + 1] = G!GraphLayer(l, run[l], s, pos, seq)
  BY FusedUnfolds
<1> DEFINE S == {l \in 0..NumLayers : GemmaBuffers(run[l].kv)}
<1>2. 0 \in S
  BY <1>1
<1>3. \A l \in 0..(NumLayers - 1) : l \in S => l + 1 \in S
  BY <1>1, GraphLayerShape
<1>4. 0..NumLayers \subseteq S
  <2> HIDE DEF S
  <2> QED
    BY <1>2, <1>3, Climb
<1> QED
  BY <1>1, <1>4
-----------------------------------------------------------------------------
(* The types are kept                                                      *)

(* A session is fed one more position.                                     *)
LEMMA BeginTyped ==
  ASSUME G!GemmaAssumption, IdleIsNoGemmaCall, GemmaTyped,
         NEW s \in Sessions, NEW entry, G!Begin(s, entry)
  PROVE  /\ GemmaTyped'
         /\ call = Idle /\ call' # Idle /\ call'.s = s /\ call'.pos = G!Fed(s)
         /\ call'.layer = 0 /\ call'.x = G!HiddenName(s, 0, G!Fed(s)) /\ call'.at = "batched"
         /\ \A t \in Sessions : G!Done(t)' = G!Done(t)
<1> DEFINE pos == G!Fed(s)
<1>1. /\ call = Idle /\ pos < MaxSeq
      /\ fed' = [fed EXCEPT ![s] = [p \in 0..pos |-> IF p = pos THEN entry ELSE fed[s][p]]]
      /\ call' = [s |-> s, pos |-> pos, at |-> "batched", layer |-> 0, x |-> G!Embed(s, pos)]
      /\ UNCHANGED <<conf, graph, count, cache, gpu>>
  BY DEF G!Begin, G!Fed
<1>2. pos \in 0..MaxSeq
  BY DEF GemmaTyped, GemmaFed
<1> HIDE DEF pos
<1>3. pos \in Nat /\ pos \in G!Position /\ pos + 1 \in 0..MaxSeq /\ (pos + 1) - 1 = pos
  BY <1>1, <1>2, GemmaSizes DEF G!Position
<1>4. DOMAIN fed = Sessions
  BY DEF GemmaTyped, GemmaFed
<1>5. DOMAIN fed' = Sessions /\ DOMAIN fed'[s] = 0..pos
  BY <1>1, <1>4
<1>6. \A t \in Sessions : t # s => fed'[t] = fed[t]
  BY <1>1, <1>4
<1>7. G!Fed(s)' = pos + 1
  BY <1>3, <1>5, LengthIs DEF G!Fed
<1>8. \A t \in Sessions : t # s => G!Fed(t)' = G!Fed(t)
  BY <1>6 DEF G!Fed
<1>9. GemmaCallShape(call') /\ call' # Idle
  <2>1. GemmaCallShape(call')
    BY <1>1, <1>3, GemmaSizes DEF GemmaCallShape
  <2> QED
    BY <2>1 DEF IdleIsNoGemmaCall
<1>10. \A t \in Sessions : G!Done(t)' = G!Done(t)
  <2> SUFFICES ASSUME NEW t \in Sessions PROVE G!Done(t)' = G!Done(t)
    OBVIOUS
  <2>1. CASE t = s
    BY <1>1, <1>9, <2>1 DEF G!Done, pos
  <2>2. CASE t # s
    <3>1. call'.s # t
      BY <1>1, <2>2
    <3> QED
      BY <1>1, <1>8, <1>9, <2>2, <3>1 DEF G!Done
  <2> QED
    BY <2>1, <2>2
<1>11. GemmaCounted'
  BY <1>1, <1>10 DEF GemmaTyped, GemmaCounted
<1>12. GemmaFed'
  <2> SUFFICES ASSUME NEW t \in Sessions
               PROVE  G!Fed(t)' \in 0..MaxSeq /\ DOMAIN fed'[t] = 0..(G!Fed(t)' - 1)
    BY <1>5 DEF GemmaFed
  <2>1. CASE t = s
    BY <1>3, <1>5, <1>7, <2>1
  <2>2. CASE t # s
    BY <1>6, <1>8, <2>2 DEF GemmaTyped, GemmaFed
  <2> QED
    BY <2>1, <2>2
<1>13. GemmaCall'
  <2>1. call'.pos = G!Cardinality(DOMAIN fed'[call'.s]) - 1
    BY <1>1, <1>3, <1>7 DEF G!Fed
  <2>2. call'.layer = 0 /\ call'.at # "layers"
    BY <1>1
  <2> QED
    BY <1>9, <2>1, <2>2 DEF GemmaCall, G!Fed
<1>14. GemmaConf' /\ GemmaCache(cache)' /\ GemmaBuffers(gpu)'
  BY <1>1 DEF GemmaTyped, GemmaConf, GemmaCache, GemmaBuffers, OnMetal, G!Layer, G!Position
<1> QED
  BY <1>1, <1>9, <1>10, <1>11, <1>12, <1>13, <1>14 DEF GemmaTyped, G!Embed, pos

(* The table has the position of the call once it is appended.             *)
LEMMA AppendedIs ==
  ASSUME G!GemmaAssumption, GemmaTyped, call # Idle, count' = G!Appended
  PROVE  /\ count' \in [Sessions -> 0..MaxSeq]
         /\ count'[call.s] = call.pos + 1
         /\ \A t \in Sessions : t # call.s => count'[t] = count[t]
<1>1. count \in [Sessions -> 0..MaxSeq] /\ call.s \in Sessions
  BY GemmaCallTypes DEF GemmaTyped, GemmaCounted
<1>2. count' = [count EXCEPT ![call.s] = IF call.pos = count[call.s] THEN count[call.s] + 1
                                         ELSE count[call.s]]
  BY DEF G!Appended
<1>3. count'[call.s] = call.pos + 1
  BY <1>1, <1>2, GemmaCallTypes
<1>4. \A t \in Sessions : t # call.s => count'[t] = count[t]
  BY <1>1, <1>2
<1>5. count' \in [Sessions -> 0..MaxSeq]
  BY <1>1, <1>2, <1>3, GemmaCallTypes
<1> QED
  BY <1>3, <1>4, <1>5

(* The call goes on: to another place, or to its next layer.               *)
LEMMA GoesOnTyped ==
  ASSUME G!GemmaAssumption, IdleIsNoGemmaCall, GemmaTyped, call # Idle, fed' = fed, conf' = conf,
         NEW place \in {"batched", "graph", "layers"}, NEW layer \in 0..NumLayers, NEW x,
         call' = [s |-> call.s, pos |-> call.pos, at |-> place, layer |-> layer, x |-> x],
         place # "layers" => layer = 0,
         \/ UNCHANGED count
         \/ count' = G!Appended,
         place = "layers" => ~graph' /\ count'[call.s] = call.pos + 1
  PROVE  /\ GemmaCounted' /\ GemmaFed' /\ GemmaCall'
         /\ call' # Idle /\ call'.s = call.s /\ call'.pos = call.pos /\ call'.at = place
         /\ call'.layer = layer /\ call'.x = x
         /\ \A t \in Sessions : G!Done(t)' = G!Done(t)
<1>1. GemmaCallShape(call)
  BY DEF GemmaTyped, GemmaCall
<1>2. call' = [s |-> call.s, pos |-> call.pos, at |-> place, layer |-> layer, x |-> x]
  OBVIOUS
<1>3. GemmaCallShape(call')
  BY <1>1, <1>2 DEF GemmaCallShape
<1>4. call' # Idle
  BY <1>3 DEF IdleIsNoGemmaCall
<1>5. \A t \in Sessions : G!Fed(t)' = G!Fed(t)
  BY DEF G!Fed
<1>6. \A t \in Sessions : G!Done(t)' = G!Done(t)
  BY <1>2, <1>4, <1>5 DEF G!Done
<1>7. GemmaFed'
  BY <1>5 DEF GemmaTyped, GemmaFed
<1>8. GemmaCounted'
  <2>1. CASE UNCHANGED count
    BY <1>6, <2>1 DEF GemmaTyped, GemmaCounted
  <2>2. CASE count' = G!Appended
    <3>1. /\ count' \in [Sessions -> 0..MaxSeq]
          /\ count'[call.s] = G!Done(call.s) + 1
          /\ \A t \in Sessions : t # call.s => count'[t] = count[t]
      BY <2>2, AppendedIs, GemmaCallTypes
    <3> QED
      BY <1>6, <3>1 DEF GemmaTyped, GemmaCounted
  <2> QED
    BY <2>1, <2>2
<1>9. GemmaCall'
  <2>1. call'.pos = G!Cardinality(DOMAIN fed'[call'.s]) - 1
    BY <1>2, GemmaCallTypes DEF G!Fed
  <2>2. call'.at = place /\ call'.layer = layer /\ call'.s = call.s /\ call'.pos = call.pos
    BY <1>2
  <2> QED
    BY <1>3, <2>1, <2>2 DEF GemmaCall, G!Fed
<1> QED
  BY <1>2, <1>4, <1>6, <1>7, <1>8, <1>9

(* The call returns: the position is finished.                             *)
LEMMA ReturnsTyped ==
  ASSUME G!GemmaAssumption, GemmaTyped, call # Idle, fed' = fed, call' = Idle,
         \/ UNCHANGED count /\ count[call.s] = call.pos + 1
         \/ count' = G!Appended
  PROVE  /\ GemmaCounted' /\ GemmaFed' /\ GemmaCall'
         /\ \A t \in Sessions : G!Done(t)' = G!Fed(t)
<1>1. \A t \in Sessions : G!Fed(t)' = G!Fed(t)
  BY DEF G!Fed
<1>2. \A t \in Sessions : G!Done(t)' = G!Fed(t)
  BY <1>1 DEF G!Done
<1>3. GemmaFed' /\ GemmaCall'
  BY <1>1 DEF GemmaTyped, GemmaFed, GemmaCall
<1>4. /\ count' \in [Sessions -> 0..MaxSeq] /\ count'[call.s] = call.pos + 1
      /\ \A t \in Sessions : t # call.s => count'[t] = count[t]
  BY AppendedIs DEF GemmaTyped, GemmaCounted
<1>5. \A t \in Sessions : t # call.s => G!Done(t) = G!Fed(t)
  BY DEF G!Done
<1>6. GemmaCounted'
  <2> SUFFICES ASSUME NEW t \in Sessions
               PROVE  count'[t] = G!Done(t)' \/ count'[t] = G!Done(t)' + 1
    BY <1>4 DEF GemmaCounted
  <2>1. CASE t = call.s
    BY <1>2, <1>4, <2>1, GemmaCallTypes
  <2>2. CASE t # call.s
    BY <1>2, <1>4, <1>5, <2>2 DEF GemmaTyped, GemmaCounted
  <2> QED
    BY <2>1, <2>2
<1> QED
  BY <1>2, <1>3, <1>6

(* The call fails: its position is taken back, and stays in the table.     *)
LEMMA FailsTyped ==
  ASSUME G!GemmaAssumption, GemmaTyped, call # Idle, call.at = "layers", G!Fail, UNCHANGED count
  PROVE  /\ GemmaCounted' /\ GemmaFed' /\ GemmaCall'
         /\ \A t \in Sessions : G!Done(t)' = G!Done(t)
<1> DEFINE s == call.s
           n == call.pos
<1>1. /\ call' = Idle
      /\ fed' = [fed EXCEPT ![s] = [p \in 0..(n - 1) |-> fed[s][p]]]
  BY DEF G!Fail
<1>2. s \in Sessions /\ n \in Nat /\ n \in 0..MaxSeq /\ count[s] = n + 1 /\ G!Done(s) = n
  BY GemmaCallTypes, GemmaSizes
<1> HIDE DEF n
<1>3. DOMAIN fed = Sessions
  BY DEF GemmaTyped, GemmaFed
<1>4. DOMAIN fed' = Sessions /\ DOMAIN fed'[s] = 0..(n - 1)
  BY <1>1, <1>2, <1>3
<1>5. \A t \in Sessions : t # s => fed'[t] = fed[t]
  BY <1>1, <1>3
<1>6. G!Cardinality(DOMAIN fed'[s]) = n
  BY <1>2, <1>4, LengthIs
<1>7. \A t \in Sessions : G!Done(t)' = G!Done(t)
  <2> SUFFICES ASSUME NEW t \in Sessions PROVE G!Done(t)' = G!Done(t)
    OBVIOUS
  <2>1. G!Done(t)' = G!Cardinality(DOMAIN fed'[t])
    BY <1>1 DEF G!Done, G!Fed
  <2>2. CASE t = s
    BY <1>2, <1>6, <2>1, <2>2
  <2>3. CASE t # s
    BY <1>5, <2>1, <2>3 DEF G!Done, G!Fed
  <2> QED
    BY <2>2, <2>3
<1>8. GemmaFed'
  <2> SUFFICES ASSUME NEW t \in Sessions
               PROVE  /\ G!Cardinality(DOMAIN fed'[t]) \in 0..MaxSeq
                      /\ DOMAIN fed'[t] = 0..(G!Cardinality(DOMAIN fed'[t]) - 1)
    BY <1>4 DEF GemmaFed, G!Fed
  <2>1. CASE t = s
    BY <1>2, <1>4, <1>6, <2>1
  <2>2. CASE t # s
    BY <1>5, <2>2 DEF GemmaTyped, GemmaFed, G!Fed
  <2> QED
    BY <2>1, <2>2
<1>9. GemmaCounted'
  BY <1>7 DEF GemmaTyped, GemmaCounted
<1>10. GemmaCall'
  BY <1>1 DEF GemmaCall
<1> QED
  BY <1>7, <1>8, <1>9, <1>10

(* A session is closed.                                                    *)
LEMMA CloseTyped ==
  ASSUME G!GemmaAssumption, GemmaTyped, NEW s \in Sessions, G!CloseSession(s)
  PROVE  /\ GemmaTyped'
         /\ G!Done(s)' = 0 /\ \A t \in Sessions : t # s => G!Done(t)' = G!Done(t)
<1>1. /\ call = Idle /\ call' = Idle /\ UNCHANGED <<conf, graph, gpu>>
      /\ count' = [count EXCEPT ![s] = 0]
      /\ cache' = [cache EXCEPT ![s] = [l \in G!Layer |-> [p \in G!Position |-> G!Stale]]]
      /\ fed' = [fed EXCEPT ![s] = <<>>]
  BY DEF G!CloseSession
<1>2. DOMAIN fed = Sessions
  BY DEF GemmaTyped, GemmaFed
<1>3. /\ DOMAIN fed' = Sessions /\ DOMAIN fed'[s] = 0..(0 - 1)
      /\ \A t \in Sessions : t # s => fed'[t] = fed[t]
  BY <1>1, <1>2
<1>4. G!Cardinality(DOMAIN fed'[s]) = 0
  BY <1>3, LengthIs
<1>5. \A t \in Sessions : t # s => G!Done(t)' = G!Done(t)
  BY <1>1, <1>3 DEF G!Done, G!Fed
<1>6. G!Done(s)' = 0
  BY <1>1, <1>4 DEF G!Done, G!Fed
<1>7. GemmaFed'
  <2> SUFFICES ASSUME NEW t \in Sessions
               PROVE  /\ G!Cardinality(DOMAIN fed'[t]) \in 0..MaxSeq
                      /\ DOMAIN fed'[t] = 0..(G!Cardinality(DOMAIN fed'[t]) - 1)
    BY <1>3 DEF GemmaFed, G!Fed
  <2>1. CASE t = s
    <3>1. 0 \in 0..MaxSeq
      BY GemmaSizes
    <3> QED
      BY <1>3, <1>4, <2>1, <3>1, Zenon
  <2>2. CASE t # s
    BY <1>3, <2>2 DEF GemmaTyped, GemmaFed, G!Fed
  <2> QED
    BY <2>1, <2>2
<1>8. GemmaCounted'
  <2>1. count \in [Sessions -> 0..MaxSeq]
    BY DEF GemmaTyped, GemmaCounted
  <2>2. count' \in [Sessions -> 0..MaxSeq]
    BY <1>1, <2>1, GemmaSizes
  <2>3. count'[s] = 0 /\ \A t \in Sessions : t # s => count'[t] = count[t]
    BY <1>1, <2>1
  <2> QED
    BY <1>5, <1>6, <2>2, <2>3 DEF GemmaTyped, GemmaCounted
<1>9. GemmaCall'
  BY <1>1 DEF GemmaCall
<1>10. GemmaConf' /\ GemmaBuffers(gpu)'
  BY <1>1 DEF GemmaTyped, GemmaConf, GemmaBuffers, OnMetal, G!Layer, G!Position
<1>11. GemmaCache(cache)'
  BY <1>1 DEF GemmaTyped, GemmaCache
<1> QED
  BY <1>5, <1>6, <1>7, <1>8, <1>9, <1>10, <1>11 DEF GemmaTyped
(* The call's record, when only its place changes, or its layer and x.     *)
LEMMA CallMoves ==
  ASSUME GemmaTyped, call # Idle
  PROVE  /\ \A place : [call EXCEPT !.at = place] =
              [s |-> call.s, pos |-> call.pos, at |-> place, layer |-> call.layer, x |-> call.x]
         /\ \A layer, x : [call EXCEPT !.x = x, !.layer = layer] =
              [s |-> call.s, pos |-> call.pos, at |-> call.at, layer |-> layer, x |-> x]
<1> DEFINE s == call.s  pos == call.pos  here == call.at  l == call.layer  y == call.x
<1>1. call = [s |-> s, pos |-> pos, at |-> here, layer |-> l, x |-> y]
  BY DEF GemmaTyped, GemmaCall, GemmaCallShape
<1> HIDE DEF s, pos, here, l, y
<1>2. \A place : [call EXCEPT !.at = place] =
               [s |-> s, pos |-> pos, at |-> place, layer |-> l, x |-> y]
  BY <1>1
<1>3. \A layer, x : [call EXCEPT !.x = x, !.layer = layer] =
                     [s |-> s, pos |-> pos, at |-> here, layer |-> layer, x |-> x]
  <2> SUFFICES ASSUME NEW layer, NEW x
               PROVE  [call EXCEPT !.x = x, !.layer = layer] =
                        [s |-> s, pos |-> pos, at |-> here, layer |-> layer, x |-> x]
    OBVIOUS
  <2> DEFINE c == [call EXCEPT !.x = x]
  <2>1. c = [s |-> s, pos |-> pos, at |-> here, layer |-> l, x |-> x]
    BY <1>1
  <2>2. [call EXCEPT !.x = x, !.layer = layer] = [c EXCEPT !.layer = layer]
    OBVIOUS
  <2> HIDE DEF c
  <2>3. [c EXCEPT !.layer = layer] =
          [s |-> s, pos |-> pos, at |-> here, layer |-> layer, x |-> x]
    BY <2>1
  <2> QED
    BY <2>2, <2>3
<1> QED
  BY <1>2, <1>3 DEF s, pos, here, l, y

(* A place that hands the step on to the next.                             *)
LEMMA HandsOnTyped ==
  ASSUME G!GemmaAssumption, IdleIsNoGemmaCall, GemmaTyped, call # Idle, call.at # "layers",
         NEW place \in {"graph", "layers"}, call' = [call EXCEPT !.at = place],
         UNCHANGED <<conf, fed>>,
         (UNCHANGED count /\ place = "graph") \/ count' = G!Appended,
         place = "layers" => ~graph'
  PROVE  /\ GemmaCounted' /\ GemmaFed' /\ GemmaCall'
         /\ call' # Idle /\ call'.s = call.s /\ call'.pos = call.pos /\ call'.at = place
         /\ call'.layer = 0 /\ call'.x = call.x
         /\ \A t \in Sessions : G!Done(t)' = G!Done(t)
<1>1. call.layer = 0 /\ 0 \in 0..NumLayers
  BY GemmaCallTypes, GemmaSizes
<1>2. call' = [s |-> call.s, pos |-> call.pos, at |-> place, layer |-> 0, x |-> call.x]
  BY <1>1, CallMoves
<1>3. place = "layers" => ~graph' /\ count'[call.s] = call.pos + 1
  BY AppendedIs
<1>4. UNCHANGED count \/ count' = G!Appended
  OBVIOUS
<1>5. place \in {"batched", "graph", "layers"} /\ (place # "layers" => 0 = 0)
  OBVIOUS
<1>6. fed' = fed /\ conf' = conf
  OBVIOUS
<1> QED
  BY <1>1, <1>2, <1>3, <1>4, <1>5, <1>6, GoesOnTyped

(* A layer of the loop goes on to the next.                                *)
LEMMA LoopTyped ==
  ASSUME G!GemmaAssumption, IdleIsNoGemmaCall, GemmaTyped, G!LoopStep
  PROVE  /\ GemmaTyped'
         /\ call' # Idle /\ call'.s = call.s /\ call'.pos = call.pos /\ call'.at = "layers"
         /\ call'.layer = call.layer + 1
         /\ \A t \in Sessions : G!Done(t)' = G!Done(t)
<1> DEFINE s == call.s
           l == call.layer
           p == call.pos
<1>1. /\ call # Idle /\ call.at = "layers" /\ l < NumLayers /\ G!LoopLayer(l)
      /\ UNCHANGED <<conf, graph, count, fed, answer>>
  BY DEF G!LoopStep, G!At
<1>2. /\ s \in Sessions /\ l \in G!Layer /\ p \in G!Position /\ l \in Nat /\ l + 1 \in 0..NumLayers
      /\ count[s] = p + 1 /\ ~graph
  BY <1>1, GemmaCallTypes, GemmaSizes DEF G!Layer
<1>3. PICK x : call' = [call EXCEPT !.x = x, !.layer = l + 1]
  BY <1>1 DEF G!LoopLayer
<1>4. PICK kv : /\ cache' = cache \/ cache' = [cache EXCEPT ![s][l][p] = kv]
                /\ gpu' = gpu \/ gpu' = G!GpuWrite(l, kv)
  <2> DEFINE h == G!Norm(G!W("in_norm", l), call.x)
             qkv == G!QkvProjection(l, h)
             k == G!Rope(G!Theta(l), call.pos, G!Norm(G!W("k_norm", l), qkv[2]))
             v == IF G!Gemma4 THEN G!UnitNorm(qkv[3]) ELSE qkv[3]
             kv == G!NamedKv(s, l, call.pos, <<k, v>>)
  <2>1. /\ cache' = IF G!IsKvShared(l) THEN cache ELSE [cache EXCEPT ![s][l][call.pos] = kv]
        /\ gpu' = IF G!IsKvShared(l) THEN gpu ELSE G!GpuWrite(l, kv)
    BY <1>1 DEF G!LoopLayer
  <2> HIDE DEF kv
  <2> QED
    BY <2>1
<1>5. call' = [s |-> s, pos |-> p, at |-> "layers", layer |-> l + 1, x |-> x]
  BY <1>1, <1>3, CallMoves
<1>6. ~graph' /\ count'[s] = p + 1
  BY <1>1, <1>2
<1>7. /\ GemmaCounted' /\ GemmaFed' /\ GemmaCall'
      /\ call' # Idle /\ call'.s = call.s /\ call'.pos = call.pos /\ call'.at = "layers"
      /\ call'.layer = l + 1
      /\ \A t \in Sessions : G!Done(t)' = G!Done(t)
  BY <1>1, <1>2, <1>5, <1>6, GoesOnTyped
<1>8. GemmaCache(cache) /\ GemmaBuffers(gpu)
  BY DEF GemmaTyped
<1>9. GemmaCache(cache')
  <2> HIDE DEF s, l, p
  <2> QED
    BY <1>2, <1>4, <1>8 DEF GemmaCache
<1>10. GemmaBuffers(gpu')
  <2> HIDE DEF l
  <2>1. gpu' = gpu \/ gpu' = [gpu EXCEPT ![l][call.pos % BlockSize] = kv]
    BY <1>4 DEF G!GpuWrite
  <2> QED
    BY <1>8, <2>1, BufferKept
<1>11. GemmaConf'
  BY <1>1 DEF GemmaTyped, GemmaConf, OnMetal
<1>12. GemmaCache(cache)' /\ GemmaBuffers(gpu)'
  BY <1>9, <1>10 DEF GemmaCache, GemmaBuffers, G!Layer, G!Position
<1> QED
  BY <1>7, <1>11, <1>12 DEF GemmaTyped

(* The batch returns, and has written the K/V it returns.                  *)
LEMMA BatchTyped ==
  ASSUME G!GemmaAssumption, GemmaTyped, G!BatchedStep
  PROVE  /\ GemmaTyped' /\ call' = Idle
         /\ \A t \in Sessions : G!Done(t)' = G!Fed(t)
<1> DEFINE kv == G!BatchedLayers(call.pos).kv
           s == call.s
           p == call.pos
<1>1. /\ call # Idle /\ call.at = "batched" /\ call' = Idle /\ count' = G!Appended
      /\ gpu' = kv /\ cache' = G!SyncBack(s, p, kv)
      /\ UNCHANGED <<conf, graph, fed>>
  BY DEF G!BatchedStep, G!At, G!Return
<1>2. s \in Sessions /\ GemmaCache(cache) /\ GemmaBuffers(gpu) /\ NumLayers \in Nat
  BY <1>1, GemmaCallTypes, GemmaSizes DEF GemmaTyped
<1>3. GemmaBuffers(kv)
  BY <1>2, BatchShape
<1> HIDE DEF kv, s, p
<1>4. GemmaCache(cache')
  BY <1>1, <1>2 DEF G!SyncBack, GemmaCache
<1>5. GemmaCounted' /\ GemmaFed' /\ GemmaCall' /\ \A t \in Sessions : G!Done(t)' = G!Fed(t)
  BY <1>1, ReturnsTyped
<1>6. GemmaConf'
  BY <1>1 DEF GemmaTyped, GemmaConf, OnMetal
<1>7. GemmaCache(cache)' /\ GemmaBuffers(gpu)'
  BY <1>1, <1>3, <1>4 DEF GemmaCache, GemmaBuffers, G!Layer, G!Position
<1> QED
  BY <1>1, <1>5, <1>6, <1>7 DEF GemmaTyped

(* The graph returns, or is put away.                                       *)
LEMMA GraphTyped ==
  ASSUME G!GemmaAssumption, IdleIsNoGemmaCall, GemmaTyped, G!GraphStep
  PROVE  /\ GemmaTyped'
         /\ \/ call' = Idle /\ \A t \in Sessions : G!Done(t)' = G!Fed(t)
            \/ /\ call' # Idle /\ call'.s = call.s /\ call'.pos = call.pos /\ call'.at = "layers"
               /\ call'.layer = 0 /\ call'.x = call.x
               /\ \A t \in Sessions : G!Done(t)' = G!Done(t)
<1> DEFINE kv == G!StepFused(call.s, call.pos, count'[call.s]).kv
           s == call.s
<1>1. /\ call # Idle /\ call.at = "graph" /\ graph /\ count' = G!Appended
      /\ \/ /\ cache' = [cache EXCEPT ![s] = kv] /\ call' = Idle
            /\ UNCHANGED <<conf, graph, gpu, fed>>
         \/ /\ PathFaults /\ cache' \in {cache, [cache EXCEPT ![s] = kv]} /\ graph' = FALSE
            /\ call' = [call EXCEPT !.at = "layers"]
            /\ UNCHANGED <<conf, gpu, fed, answer>>
  BY DEF G!GraphStep, G!At, G!Return
<1>2. s \in Sessions /\ GemmaCache(cache) /\ GemmaBuffers(gpu) /\ NumLayers \in Nat
  BY <1>1, GemmaCallTypes, GemmaSizes DEF GemmaTyped
<1>3. GemmaBuffers(kv)
  <2>1. GemmaBuffers(cache[s])
    BY <1>2 DEF GemmaCache, GemmaBuffers
  <2> QED
    BY <1>2, <2>1, FusedShape
<1> HIDE DEF kv, s
<1>4. GemmaCache([cache EXCEPT ![s] = kv])
  BY <1>2, <1>3 DEF GemmaCache, GemmaBuffers
<1>5. GemmaCache(cache') /\ UNCHANGED <<gpu, conf, fed>>
  BY <1>1, <1>2, <1>4
<1>6. GemmaCache(cache)' /\ GemmaBuffers(gpu)'
  BY <1>2, <1>5 DEF GemmaCache, GemmaBuffers, G!Layer, G!Position
<1>7. CASE call' = Idle /\ graph' = graph
  <2>1. GemmaCounted' /\ GemmaFed' /\ GemmaCall' /\ \A t \in Sessions : G!Done(t)' = G!Fed(t)
    BY <1>1, <1>5, <1>7, ReturnsTyped
  <2>2. GemmaConf'
    BY <1>5, <1>7 DEF GemmaTyped, GemmaConf, OnMetal
  <2> QED
    BY <1>6, <1>7, <2>1, <2>2 DEF GemmaTyped
<1>8. CASE PathFaults /\ graph' = FALSE /\ call' = [call EXCEPT !.at = "layers"]
  <2>1. /\ GemmaCounted' /\ GemmaFed' /\ GemmaCall'
        /\ call' # Idle /\ call'.s = call.s /\ call'.pos = call.pos /\ call'.at = "layers"
        /\ call'.layer = 0 /\ call'.x = call.x
        /\ \A t \in Sessions : G!Done(t)' = G!Done(t)
    BY <1>1, <1>5, <1>8, HandsOnTyped
  <2>2. GemmaConf'
    BY <1>1, <1>5, <1>8 DEF GemmaTyped, GemmaConf, OnMetal
  <2> QED
    BY <1>6, <2>1, <2>2 DEF GemmaTyped
<1> QED
  BY <1>1, <1>7, <1>8

(* Every step keeps the types.                                             *)
LEMMA GemmaTypeStep ==
  ASSUME G!GemmaAssumption, IdleIsNoGemmaCall, GemmaTyped, [G!Next]_(G!vars)
  PROVE  GemmaTyped'
<1>1. ASSUME NEW s \in Sessions, NEW entry \in {"token", "hidden"}, G!Begin(s, entry)
      PROVE  GemmaTyped'
  BY <1>1, BeginTyped
<1>2. ASSUME NEW s \in Sessions, G!CloseSession(s)
      PROVE  GemmaTyped'
  BY <1>2, CloseTyped
<1> DEFINE Rest == UNCHANGED <<conf, graph, cache, gpu>>
<1>3. ASSUME Rest PROVE GemmaConf' /\ GemmaCache(cache)' /\ GemmaBuffers(gpu)'
  BY <1>3 DEF GemmaTyped, GemmaConf, GemmaCache, GemmaBuffers, OnMetal, G!Layer, G!Position
<1>4. CASE G!BatchedDeclines
  <2>1. GemmaCounted' /\ GemmaFed' /\ GemmaCall'
    BY <1>4, HandsOnTyped DEF G!BatchedDeclines, G!At
  <2>2. Rest
    BY <1>4 DEF G!BatchedDeclines
  <2> QED
    BY <1>3, <2>1, <2>2 DEF GemmaTyped
<1>5. CASE G!BatchedFallsBack
  <2>1. GemmaCounted' /\ GemmaFed' /\ GemmaCall'
    BY <1>5, HandsOnTyped DEF G!BatchedFallsBack, G!At
  <2>2. Rest
    BY <1>5 DEF G!BatchedFallsBack
  <2> QED
    BY <1>3, <2>1, <2>2 DEF GemmaTyped
<1>6. CASE G!BatchedStep
  BY <1>6, BatchTyped
<1>7. CASE G!GraphSkipped
  <2>1. GemmaCounted' /\ GemmaFed' /\ GemmaCall'
    BY <1>7, HandsOnTyped DEF G!GraphSkipped, G!At
  <2>2. Rest
    BY <1>7 DEF G!GraphSkipped
  <2> QED
    BY <1>3, <2>1, <2>2 DEF GemmaTyped
<1>8. CASE G!GraphStep
  BY <1>8, GraphTyped
<1>9. CASE G!LoopStep
  BY <1>9, LoopTyped
<1>10. CASE G!LoopFails
  <2>1. GemmaCounted' /\ GemmaFed' /\ GemmaCall'
    BY <1>10, FailsTyped DEF G!LoopFails, G!At
  <2>2. Rest
    BY <1>10 DEF G!LoopFails, G!Fail
  <2> QED
    BY <1>3, <2>1, <2>2 DEF GemmaTyped
<1>11. CASE G!Finish
  <2>1. /\ call # Idle /\ fed' = fed /\ call' = Idle /\ UNCHANGED count
        /\ count[call.s] = call.pos + 1
    BY <1>11, GemmaCallTypes DEF G!Finish, G!At, G!Return
  <2>2. GemmaCounted' /\ GemmaFed' /\ GemmaCall'
    BY <2>1, ReturnsTyped
  <2>3. Rest
    BY <1>11 DEF G!Finish
  <2> QED
    BY <1>3, <2>2, <2>3 DEF GemmaTyped
<1>12. CASE UNCHANGED G!vars
  <2>1. Rest /\ UNCHANGED <<count, fed, call>>
    BY <1>12 DEF G!vars
  <2>2. \A t \in Sessions : G!Fed(t)' = G!Fed(t)
    BY <2>1 DEF G!Fed
  <2>3. GemmaFed' /\ GemmaCounted' /\ GemmaCall'
    BY <2>1, <2>2 DEF GemmaTyped, GemmaFed, GemmaCounted, GemmaCall, GemmaCallShape, G!Done, G!Fed,
       G!Position
  <2> QED
    BY <1>3, <2>1, <2>3 DEF GemmaTyped
<1> QED
  BY <1>1, <1>2, <1>4, <1>5, <1>6, <1>7, <1>8, <1>9, <1>10, <1>11, <1>12 DEF G!Next

(* Whatever fails and is repeated, on whichever of the three paths, what   *)
(* the sessions were fed, their tables, the stores and the step under way  *)
(* stay well formed: a table has the finished positions and at most the    *)
(* one that a failed step left.                                             *)
THEOREM GemmaTypeCorrect == ASSUME G!GemmaAssumption, IdleIsNoGemmaCall PROVE G!Spec => []G!TypeOK
<1>1. G!Init => GemmaTyped
  BY GemmaTypeInit
<1>2. GemmaTyped /\ [G!Next]_(G!vars) => GemmaTyped'
  BY GemmaTypeStep
<1>3. GemmaTyped => G!TypeOK
  <2> SUFFICES ASSUME GemmaTyped PROVE G!TypeOK
    OBVIOUS
  <2>1. \A s \in Sessions : count[s] \in 0..MaxSeq /\ G!Fed(s) <= MaxSeq /\ G!Done(s) <= count[s]
    <3> SUFFICES ASSUME NEW s \in Sessions
                 PROVE  count[s] \in 0..MaxSeq /\ G!Fed(s) <= MaxSeq /\ G!Done(s) <= count[s]
      OBVIOUS
    <3>1. count[s] \in 0..MaxSeq /\ (count[s] = G!Done(s) \/ count[s] = G!Done(s) + 1)
      BY DEF GemmaTyped, GemmaCounted
    <3>2. G!Fed(s) \in 0..MaxSeq
      BY DEF GemmaTyped, GemmaFed
    <3>3. G!Done(s) \in Nat
      BY <3>2, GemmaCallTypes, GemmaSizes DEF G!Done
    <3> QED
      BY <3>1, <3>2, <3>3, GemmaSizes
  <2>2. call # Idle => call.layer \in 0..NumLayers
    BY GemmaCallTypes, GemmaSizes
  <2> QED
    BY <2>1, <2>2 DEF G!TypeOK, GemmaTyped, GemmaConf
<1> QED
  BY <1>1, <1>2, <1>3, PTL DEF G!Spec
-----------------------------------------------------------------------------
(* The invariant: what is held is the model's                              *)

(* The layers a session has passed: all of its finished positions, and of  *)
(* the step's position those below the layer at hand.                      *)
Passed(s, l, p) ==
  \/ p < G!Done(s)
  \/ call # Idle /\ s = call.s /\ p = call.pos /\ l < call.layer
GemmaKvHeld ==
  \A s \in Sessions, l \in G!Layer, p \in G!Position :
     ~G!IsKvShared(l) /\ Passed(s, l, p) => cache[s][l][p] = G!KvName(s, l, p)

GemmaXHeld == call # Idle => call.x = G!HiddenName(call.s, call.layer, call.pos)

(* The batch's buffers have the finished positions of the one session.     *)
Batching == conf.ops /\ conf.kind = "plain" /\ conf.dtype = "i4"
BuffersHeld ==
  Batching =>
    /\ call # Idle => call.layer = 0
    /\ \A s \in Sessions, l \in G!Layer, p \in G!Position :
         p < G!Done(s) => gpu[l][p] = G!KvName(s, l, p)

GemmaAnswerHeld ==
  answer # Idle /\ CapsOnce => answer.logits = G!Logits(answer.s, answer.p)

GemmaHeld == GemmaKvHeld /\ GemmaXHeld /\ BuffersHeld /\ GemmaAnswerHeld

(* At first nothing is held.                                               *)
LEMMA GemmaHeldInit == ASSUME G!GemmaAssumption, G!Init PROVE GemmaHeld
<1>1. call = Idle /\ answer = Idle /\ fed = [s \in Sessions |-> <<>>]
  BY DEF G!Init
<1>2. \A s \in Sessions : DOMAIN fed[s] = 0..(0 - 1)
  BY <1>1
<1>3. \A s \in Sessions : G!Done(s) = 0
  BY <1>1, <1>2, LengthIs DEF G!Done, G!Fed
<1>4. \A s \in Sessions, l \in G!Layer, p \in G!Position : ~ Passed(s, l, p)
  BY <1>1, <1>3 DEF Passed, G!Position
<1>5. \A s \in Sessions, p \in G!Position : ~ (p < G!Done(s))
  BY <1>3 DEF G!Position
<1> QED
  BY <1>1, <1>4, <1>5 DEF GemmaHeld, GemmaKvHeld, GemmaXHeld, BuffersHeld, GemmaAnswerHeld

(* A nonempty set of numbers up to n has its maximum.                      *)
LEMMA MaxIsMember ==
  ASSUME NEW n \in Nat, NEW S, S \subseteq 0..n, S # {}
  PROVE  G!Max(S) \in S
<1> DEFINE T == {n - i : i \in S}
<1>1. T \subseteq Nat /\ T # {}
  <2>1. \A i \in S : n - i \in Nat
    OBVIOUS
  <2> QED
    BY <2>1
<1>2. PICK k \in T : \A m \in T : k <= m
  <2> HIDE DEF T
  <2> QED
    BY <1>1, LeastNatural
<1>3. PICK i \in S : k = n - i
  OBVIOUS
<1>4. \A j \in S : n - i <= n - j /\ i \in Int /\ j \in Int
  BY <1>2, <1>3
<1>5. \A j \in S : i >= j
  BY <1>4
<1> QED
  BY <1>5 DEF G!Max

(* A layer that shares attends to the K/V of an earlier one that has its   *)
(* own, any other layer to its own.                                         *)
LEMMA SourceFacts ==
  ASSUME G!GemmaAssumption, NEW l \in G!Layer, G!IsKvShared(l) => G!Sources(l) # {}
  PROVE  /\ G!KvSource(l) \in G!Layer /\ ~ G!IsKvShared(G!KvSource(l))
         /\ G!IsKvShared(l) => G!KvSource(l) < l /\ G!KvSource(l) # l
         /\ ~ G!IsKvShared(l) => G!KvSource(l) = l
<1>1. CASE ~ G!IsKvShared(l)
  BY <1>1 DEF G!KvSource
<1>2. CASE G!IsKvShared(l)
  <2>1. /\ l \in Nat /\ l < NumLayers /\ G!FirstKvShared \in Nat /\ G!FirstKvShared > 0
        /\ G!FirstKvShared <= l
    BY <1>2, GemmaSizes DEF G!IsKvShared, G!Shares, G!FirstKvShared, G!Layer
  <2>2. G!Sources(l) \subseteq 0..(G!FirstKvShared - 1)
    BY DEF G!Sources
  <2>3. G!FirstKvShared - 1 \in Nat
    BY <2>1
  <2>4. G!Max(G!Sources(l)) \in G!Sources(l)
    BY <1>2, <2>2, <2>3, MaxIsMember
  <2>5. G!KvSource(l) \in 0..(G!FirstKvShared - 1)
    BY <1>2, <2>2, <2>4 DEF G!KvSource
  <2>6. G!KvSource(l) \in Nat /\ G!KvSource(l) < l /\ G!KvSource(l) < G!FirstKvShared
    BY <2>1, <2>5
  <2>7. G!KvSource(l) \in G!Layer /\ ~ (G!KvSource(l) >= G!FirstKvShared)
    BY <2>1, <2>6, GemmaSizes DEF G!Layer
  <2> QED
    BY <1>2, <2>1, <2>6, <2>7 DEF G!IsKvShared
<1> QED
  BY <1>1, <1>2

(* The windows the loop and the model attend over begin at a position.     *)
LEMMA WindowFacts ==
  ASSUME G!GemmaAssumption, NEW l, NEW p \in Nat
  PROVE  \A t \in G!StartTpos(l, p + 1)..p : t \in Nat /\ t <= p
<1>1. G!StartTpos(l, p + 1) \in Nat
  BY GemmaSizes DEF G!StartTpos
<1> QED
  BY <1>1

-----------------------------------------------------------------------------
(* The loop                                                                *)

(* The three forms of a layer's tail are one.                              *)
LEMMA TailExact ==
  ASSUME NEW l, NEW proj, NEW x, NEW x1, x1 = G!Plus(G!Norm(G!W("post_attn", l), proj), x)
  PROVE  G!LayerTail(l, proj, x) = G!Plus(G!Norm(G!W("post_ffn", l), G!Mlp(l, G!MlpIn(l, x1))), x1)
  BY DEF G!LayerTail, G!FusedTail, G!PostAttnNorm, G!PostFfnNorm, G!FfnBatch, G!Mlp, G!MlpIn

(* What a layer of the loop makes of the model's input and of the model's  *)
(* history is the model's.                                                  *)
LEMMA LoopOutput ==
  ASSUME conf.kind # "plain", NEW l, NEW q, NEW kvs, NEW x,
         x = G!HiddenName(call.s, l, call.pos),
         q = G!Rope(G!Theta(l), call.pos,
               G!Norm(G!W("q_norm", l), G!MatVec(G!W("q", l), G!Norm(G!W("in_norm", l), x)))),
         kvs = [t \in G!StartTpos(l, call.pos + 1)..call.pos |->
                  G!KvName(call.s, G!KvSource(l), t)]
  PROVE  G!LayerOutput(l, G!LayerTail(l, G!MatVec(G!W("o", l), G!GqaAttend(q, "none", kvs)), x)) =
           G!Decoder(call.s, l, call.pos)
<1> DEFINE proj == G!MatVec(G!W("o", l), G!GqaAttend(q, "none", kvs))
           x1 == G!Plus(G!Norm(G!W("post_attn", l), proj), x)
           x2 == G!Plus(G!Norm(G!W("post_ffn", l), G!Mlp(l, G!MlpIn(l, x1))), x1)
<1>1. q = G!Query(l, call.pos, G!HiddenName(call.s, l, call.pos))
  BY DEF G!Query, G!HeadNorm
<1>2. G!Decoder(call.s, l, call.pos) =
        LET x3 == IF G!Ple THEN G!PleAdd(l, x2, G!PerLayerInput(call.s, call.pos)) ELSE x2
        IN  IF G!Gemma4 /\ l \in Scaled THEN G!Times(G!W("scale", l), x3) ELSE x3
  BY <1>1 DEF G!Decoder
<1>3. G!LayerTail(l, proj, x) = x2
  BY TailExact
<1> HIDE DEF x2, proj
<1>4. G!LayerOutput(l, G!LayerTail(l, proj, x)) =
        LET x3 == IF G!Ple THEN G!PleAdd(l, x2, G!PerLayerInput(call.s, call.pos)) ELSE x2
        IN  IF G!Gemma4 /\ l \in Scaled THEN G!Times(G!W("scale", l), x3) ELSE x3
  BY <1>3 DEF G!LayerOutput
<1> QED
  BY <1>2, <1>4 DEF proj

(* On the loop no scores are capped.                                        *)
LEMMA NoCapOnLoop ==
  ASSUME G!GemmaAssumption, GemmaConf, CapsNoScore, ~graph
  PROVE  G!LoopCap = "none"
<1> SUFFICES ASSUME conf.ops, conf.dtype = "i4", G!Gemma4 PROVE FALSE
  BY DEF G!LoopCap
<1>1. conf.kind = "gemma4" /\ "gemma4" \in Kinds /\ "i4" \in Dtypes
  BY DEF GemmaConf, G!Gemma4
<1>2. "linear" \in Backends \/ ("full" \in Backends /\ PathFaults)
  BY <1>1 DEF GemmaConf
<1> QED
  BY <1>1, <1>2, GemmaSizes DEF CapsNoScore

(* A layer of the loop: its K/V and its output are the model's.            *)
LEMMA LoopHeld ==
  ASSUME G!GemmaAssumption, IdleIsNoGemmaCall, GemmaTyped, GemmaHeld, CapsNoScore, G!LoopStep
  PROVE  GemmaHeld'
<1> DEFINE s == call.s
           l == call.layer
           p == call.pos
           x == call.x
           h == G!Norm(G!W("in_norm", l), x)
           q == G!Rope(G!Theta(l), p, G!Norm(G!W("q_norm", l), G!MatVec(G!W("q", l), h)))
           k == G!Rope(G!Theta(l), p, G!Norm(G!W("k_norm", l), G!MatVec(G!W("k", l), h)))
           u == G!MatVec(G!W("v", l), h)
           v == IF G!Gemma4 THEN G!UnitNorm(u) ELSE u
           kv == G!NamedKv(s, l, p, <<k, v>>)
           w == IF G!IsKvShared(l) THEN cache ELSE [cache EXCEPT ![s][l][p] = kv]
           kvs == [t \in G!StartTpos(l, count[s])..(count[s] - 1) |-> w[s][G!KvSource(l)][t]]
           proj == G!MatVec(G!W("o", l), G!GqaAttend(q, G!LoopCap, kvs))
<1>1. /\ call # Idle /\ call.at = "layers" /\ l < NumLayers /\ G!LoopWorks(l)
      /\ cache' = w
      /\ call' = [call EXCEPT !.x = G!NamedX(s, l, p, G!LayerOutput(l, G!LayerTail(l, proj, x))),
                              !.layer = l + 1]
      /\ UNCHANGED <<conf, graph, count, fed, answer>>
  BY DEF G!LoopStep, G!LoopLayer, G!At, G!QkvProjection
<1>2. /\ s \in Sessions /\ l \in G!Layer /\ p \in G!Position /\ l \in Nat /\ p \in Nat
      /\ count[s] = p + 1 /\ ~graph /\ G!Done(s) = p /\ count[s] - 1 = p
  BY <1>1, GemmaCallTypes, GemmaSizes DEF G!Layer
<1>3. x = G!HiddenName(s, l, p)
  BY <1>1 DEF GemmaHeld, GemmaXHeld
<1>4. conf.kind # "plain" /\ (G!IsKvShared(l) => G!Sources(l) # {})
  BY <1>1 DEF G!LoopWorks
<1>5. kv = G!KvName(s, l, p)
  <2>1. <<k, v>> = G!KeyValue(l, p, G!HiddenName(s, l, p))
    BY <1>3, <1>4 DEF G!KeyValue, G!HeadNorm
  <2> QED
    BY <2>1 DEF G!NamedKv, G!Abbreviate
<1>6. GemmaCache(cache)
  BY DEF GemmaTyped
<1>7. /\ ~ G!IsKvShared(l) => w[s][l][p] = G!KvName(s, l, p)
      /\ \A t \in Sessions, m \in G!Layer, i \in G!Position :
           (t # s \/ m # l \/ i # p) => w[t][m][i] = cache[t][m][i]
  <2> HIDE DEF kv, s, l, p
  <2>1. CASE G!IsKvShared(l)
    BY <2>1
  <2>2. CASE ~ G!IsKvShared(l)
    <3>1. w = [cache EXCEPT ![s][l][p] = kv]
      BY <2>2
    <3> HIDE DEF w
    <3>2. /\ w[s][l][p] = kv
          /\ \A t \in Sessions, m \in G!Layer, i \in G!Position :
               (t # s \/ m # l \/ i # p) => w[t][m][i] = cache[t][m][i]
      BY <1>2, <1>6, <3>1 DEF GemmaCache
    <3> QED
      BY <1>5, <3>2
  <2> QED
    BY <2>1, <2>2
<1>8. \A t \in Sessions, m \in G!Layer, i \in G!Position :
        ~G!IsKvShared(m) /\ (Passed(t, m, i) \/ (t = s /\ m = l /\ i = p)) =>
          w[t][m][i] = G!KvName(t, m, i)
  <2> HIDE DEF w, s, l, p
  <2> QED
    BY <1>7 DEF GemmaHeld, GemmaKvHeld
<1>9. /\ G!KvSource(l) \in G!Layer /\ ~ G!IsKvShared(G!KvSource(l))
      /\ G!IsKvShared(l) => G!KvSource(l) < l /\ G!KvSource(l) # l
      /\ ~ G!IsKvShared(l) => G!KvSource(l) = l
  BY <1>2, <1>4, SourceFacts
<1>10. kvs = [t \in G!StartTpos(l, p + 1)..p |-> G!KvName(s, G!KvSource(l), t)]
  <2>1. \A t \in G!StartTpos(l, p + 1)..p : w[s][G!KvSource(l)][t] = G!KvName(s, G!KvSource(l), t)
    <3> SUFFICES ASSUME NEW t \in G!StartTpos(l, p + 1)..p
                 PROVE  w[s][G!KvSource(l)][t] = G!KvName(s, G!KvSource(l), t)
      OBVIOUS
    <3>1. t \in Nat /\ t <= p /\ t \in G!Position
      BY <1>2, WindowFacts, GemmaSizes DEF G!Position
    <3>2. CASE t < p
      <4>1. Passed(s, G!KvSource(l), t)
        BY <1>2, <3>2 DEF Passed
      <4> HIDE DEF w, s, l
      <4> QED
        BY <1>2, <1>8, <1>9, <3>1, <4>1
    <3>3. CASE t = p /\ ~ G!IsKvShared(l)
      <4> HIDE DEF w, s, l, p
      <4> QED
        BY <1>2, <1>8, <1>9, <3>1, <3>3
    <3>4. CASE t = p /\ G!IsKvShared(l)
      <4>1. Passed(s, G!KvSource(l), t)
        BY <1>1, <1>9, <3>4 DEF Passed
      <4> HIDE DEF w, s, l
      <4> QED
        BY <1>2, <1>8, <1>9, <3>1, <4>1
    <3> QED
      BY <1>2, <3>1, <3>2, <3>3, <3>4
  <2>2. kvs = [t \in G!StartTpos(l, p + 1)..p |-> w[s][G!KvSource(l)][t]]
    BY <1>2
  <2> HIDE DEF w, s, l, p, kvs
  <2> QED
    BY <2>1, <2>2
<1>11. G!NamedX(s, l, p, G!LayerOutput(l, G!LayerTail(l, proj, x))) = G!HiddenName(s, l + 1, p)
  <2>1. G!LoopCap = "none"
    BY <1>2, NoCapOnLoop DEF GemmaTyped
  <2>2. proj = G!MatVec(G!W("o", l), G!GqaAttend(q, "none", kvs))
    BY <2>1
  <2>3. q = G!Rope(G!Theta(l), p,
              G!Norm(G!W("q_norm", l), G!MatVec(G!W("q", l), G!Norm(G!W("in_norm", l), x))))
    OBVIOUS
  <2> HIDE DEF q, kvs, proj
  <2>4. G!LayerOutput(l, G!LayerTail(l, proj, x)) = G!Decoder(s, l, p)
    BY <1>3, <1>4, <1>10, <2>2, <2>3, LoopOutput
  <2> HIDE DEF x
  <2> QED
    BY <2>4 DEF G!NamedX, G!Abbreviate
<1> DEFINE out == G!NamedX(s, l, p, G!LayerOutput(l, G!LayerTail(l, proj, x)))
<1>12. call' = [s |-> s, pos |-> p, at |-> "layers", layer |-> l + 1, x |-> out]
  <2>1. call' = [call EXCEPT !.x = out, !.layer = l + 1]
    BY <1>1
  <2> HIDE DEF out, l
  <2> QED
    BY <1>1, <2>1, CallMoves
<1>13. /\ call' # Idle /\ call'.s = s /\ call'.pos = p /\ call'.layer = l + 1 /\ call'.x = out
       /\ \A t \in Sessions : G!Done(t)' = G!Done(t)
  <2>1. call'.x = out
    BY <1>12
  <2> HIDE DEF out
  <2> QED
    BY <2>1, LoopTyped
<1> HIDE DEF w, kv, proj, q, k, v, u, h, kvs, out
<1>14. GemmaKvHeld'
  <2> SUFFICES ASSUME NEW t \in Sessions, NEW m \in G!Layer, NEW i \in G!Position,
                      ~G!IsKvShared(m)', Passed(t, m, i)'
               PROVE  cache'[t][m][i] = G!KvName(t, m, i)
    BY DEF GemmaKvHeld, G!Layer, G!Position, G!KvName
  <2>1. ~ G!IsKvShared(m)
    BY <1>1 DEF G!IsKvShared, G!Shares, G!Gemma4
  <2>2. m \in Nat
    BY DEF G!Layer
  <2>3. Passed(t, m, i) \/ (t = s /\ m = l /\ i = p)
    BY <1>1, <1>2, <1>13, <2>2 DEF Passed
  <2> HIDE DEF s, l, p
  <2> QED
    BY <1>1, <1>8, <2>1, <2>3
<1>15. GemmaXHeld'
  <2>1. call'.x = G!HiddenName(call'.s, call'.layer, call'.pos)
    BY <1>11, <1>13 DEF out
  <2> QED
    BY <2>1 DEF GemmaXHeld, G!HiddenName
<1>16. BuffersHeld'
  BY <1>1, <1>4 DEF BuffersHeld, Batching
<1>17. GemmaAnswerHeld'
  BY <1>1 DEF GemmaHeld, GemmaAnswerHeld, G!Logits, CapsOnce, OnGraph, G!Gemma4, G!Softcap
<1> QED
  BY <1>14, <1>15, <1>16, <1>17 DEF GemmaHeld
-----------------------------------------------------------------------------
(* The batch and the graph                                                 *)

(* A store has the K/V of a session below layer top of position p.         *)
HeldBelow(kv, s, top, p) ==
  \A l \in G!Layer, i \in G!Position :
     ~G!IsKvShared(l) /\ (i < p \/ (i = p /\ l < top)) => kv[l][i] = G!KvName(s, l, i)

(* One more layer is held when its K/V are put there.                      *)
LEMMA HeldOneMore ==
  ASSUME NEW s, NEW l \in G!Layer, NEW p \in G!Position, NEW b, NEW d, HeldBelow(b, s, l, p),
         ~G!IsKvShared(l) => d[l][p] = G!KvName(s, l, p),
         \A m \in G!Layer, i \in G!Position : (m # l \/ i # p) => d[m][i] = b[m][i]
  PROVE  HeldBelow(d, s, l + 1, p)
<1> SUFFICES ASSUME NEW m \in G!Layer, NEW i \in G!Position, ~G!IsKvShared(m),
                    i < p \/ (i = p /\ m < l + 1)
             PROVE  d[m][i] = G!KvName(s, m, i)
  BY DEF HeldBelow
<1>1. CASE m = l /\ i = p
  BY <1>1
<1>2. CASE m # l \/ i # p
  <2>1. m \in Nat /\ l \in Nat
    BY DEF G!Layer
  <2>2. i < p \/ (i = p /\ m < l)
    BY <1>2, <2>1
  <2> QED
    BY <1>2, <2>2 DEF HeldBelow
<1> QED
  BY <1>1, <1>2

(* On a model without head norms and windows the batch's layer is the      *)
(* model's.                                                                 *)
LEMMA BatchLayerExact ==
  ASSUME G!GemmaAssumption, conf.kind = "plain", NEW l \in G!Layer, NEW p \in G!Position, NEW st,
         GemmaBuffers(st.kv), st.x = G!HiddenName(call.s, l, p), HeldBelow(st.kv, call.s, l, p)
  PROVE  /\ GemmaBuffers(G!BatchedLayer(l, st, p).kv)
         /\ G!BatchedLayer(l, st, p).x = G!HiddenName(call.s, l + 1, p)
         /\ HeldBelow(G!BatchedLayer(l, st, p).kv, call.s, l + 1, p)
<1> DEFINE s == call.s
           x == st.x
           b == st.kv
           h == G!Norm(G!W("in_norm", l), x)
           q == G!Rope("rope_theta", p, G!HeadNorm("q_norm", l, G!MatVec(G!W("q", l), h)))
           k == G!Rope("rope_theta", p, G!HeadNorm("k_norm", l, G!MatVec(G!W("k", l), h)))
           v == G!NamedKv(s, l, p, <<k, G!MatVec(G!W("v", l), h)>>)
           d == [b EXCEPT ![l][p] = v]
           kvs == [t \in 0..p |-> d[l][t]]
           attn == G!GqaAttend(q, "none", kvs)
           x1 == G!Plus(G!Norm(G!W("post_attn", l), G!MatVec(G!W("o", l), attn)), x)
           x2 == G!Plus(G!Norm(G!W("post_ffn", l), G!Mlp(l, G!MlpIn(l, x1))), x1)
<1>1. G!BatchedLayer(l, st, p).kv = d /\ G!BatchedLayer(l, st, p).x = G!NamedX(s, l, p, x2)
  BY DEF G!BatchedLayer
<1>2. /\ ~G!Gemma3 /\ ~G!Gemma4 /\ ~G!Ple /\ \A m : ~G!IsKvShared(m)
      /\ G!IsFull(l) /\ G!Theta(l) = "rope_theta" /\ G!KvSource(l) = l
      /\ G!StartTpos(l, p + 1) = 0
  BY DEF G!Gemma3, G!Gemma4, G!Ple, G!IsKvShared, G!Shares, G!IsFull, G!Theta, G!KvSource,
     G!StartTpos
<1>3. x = G!HiddenName(s, l, p) /\ p \in Nat /\ GemmaBuffers(b) /\ HeldBelow(b, s, l, p)
  BY DEF G!Position
<1>4. v = G!KvName(s, l, p)
  <2>1. <<k, G!MatVec(G!W("v", l), h)>> = G!KeyValue(l, p, G!HiddenName(s, l, p))
    BY <1>2, <1>3 DEF G!KeyValue
  <2> QED
    BY <2>1 DEF G!NamedKv, G!Abbreviate
<1>5. q = G!Query(l, p, G!HiddenName(s, l, p))
  BY <1>2, <1>3 DEF G!Query
<1> HIDE DEF b, v, q, s
<1>6. /\ GemmaBuffers(d) /\ d[l][p] = v
      /\ \A m \in G!Layer, i \in G!Position : (m # l \/ i # p) => d[m][i] = b[m][i]
  BY <1>3 DEF GemmaBuffers
<1> HIDE DEF d
<1>7. HeldBelow(d, s, l + 1, p)
  BY <1>3, <1>4, <1>6, HeldOneMore
<1>8. kvs = [t \in G!StartTpos(l, p + 1)..p |-> G!KvName(s, G!KvSource(l), t)]
  <2>1. \A t \in 0..p : d[l][t] = G!KvName(s, l, t)
    <3> SUFFICES ASSUME NEW t \in 0..p PROVE d[l][t] = G!KvName(s, l, t)
      OBVIOUS
    <3>1. t \in G!Position /\ (t < p \/ (t = p /\ l < l + 1))
      BY <1>3, GemmaSizes DEF G!Position, G!Layer
    <3> QED
      BY <1>2, <1>7, <3>1 DEF HeldBelow
  <2> QED
    BY <1>2, <2>1
<1>9. x2 = G!Decoder(s, l, p)
  <2> HIDE DEF kvs
  <2> QED
    BY <1>2, <1>3, <1>5, <1>8 DEF G!Decoder
<1>10. G!NamedX(s, l, p, x2) = G!HiddenName(s, l + 1, p)
  <2> HIDE DEF x2
  <2> QED
    BY <1>9 DEF G!NamedX, G!Abbreviate
<1> HIDE DEF x2
<1> QED
  BY <1>1, <1>6, <1>7, <1>10 DEF s

(* Where the graph is taken, it knows which layers share.                  *)
LEMMA GraphSourceExact ==
  ASSUME G!GemmaAssumption, GemmaConf, graph, GraphKnowsLayers, NEW l \in G!Layer
  PROVE  /\ G!IsKvShared(l) => G!Sources(l) # {}
         /\ G!GraphSource(l) = G!KvSource(l)
         /\ ~ G!IsKvShared(l) => G!GraphSource(l) = l
<1>1. l \in Nat /\ l < NumLayers /\ SharedLayers \in Nat /\ SharedLayers <= NumLayers
      /\ NumLayers \in Nat
  BY GemmaSizes DEF G!Layer
<1>2. CASE ~ G!Gemma4
  BY <1>2 DEF G!IsKvShared, G!Shares, G!GraphSource, G!KvSource
<1>3. CASE G!Gemma4
  <2>1. SharedLayers < NumLayers =>
          \A m \in (NumLayers - SharedLayers)..(NumLayers - 1) : G!Sources(m) # {}
    BY <1>3 DEF GraphKnowsLayers, OnGraph, GemmaConf, G!Gemma4
  <2>2. CASE G!IsKvShared(l)
    <3>1. SharedLayers > 0 /\ SharedLayers < NumLayers /\ l >= NumLayers - SharedLayers
      BY <2>2 DEF G!IsKvShared, G!Shares, G!FirstKvShared
    <3>2. l \in (NumLayers - SharedLayers)..(NumLayers - 1)
      BY <1>1, <3>1
    <3>3. G!Sources(l) # {}
      BY <2>1, <3>1, <3>2
    <3> QED
      BY <1>3, <2>2, <3>1, <3>3 DEF G!GraphSource, G!KvSource, G!FirstKvShared
  <2>3. CASE ~ G!IsKvShared(l) /\ SharedLayers = NumLayers
    <3>1. G!Sources(l) = {}
      BY <1>1, <2>3 DEF G!Sources, G!FirstKvShared
    <3> QED
      BY <2>3, <3>1 DEF G!GraphSource, G!KvSource
  <2>4. CASE ~ G!IsKvShared(l) /\ SharedLayers # NumLayers
    <3>1. ~ (SharedLayers > 0 /\ l >= G!FirstKvShared)
      BY <1>1, <1>3, <2>4 DEF G!IsKvShared, G!Shares
    <3> QED
      BY <2>4, <3>1 DEF G!GraphSource, G!KvSource
  <2> QED
    BY <2>2, <2>3, <2>4
<1> QED
  BY <1>2, <1>3

(* Where the graph is taken its layer is the model's.                      *)
LEMMA GraphLayerExact ==
  ASSUME G!GemmaAssumption, GemmaConf, graph, GraphKnowsLayers,
         NEW s, NEW l \in G!Layer, NEW p \in G!Position, NEW st, NEW seq, seq = p + 1,
         GemmaBuffers(st.kv), st.x = G!HiddenName(s, l, p), HeldBelow(st.kv, s, l, p)
  PROVE  /\ GemmaBuffers(G!GraphLayer(l, st, s, p, seq).kv)
         /\ G!GraphLayer(l, st, s, p, seq).x = G!HiddenName(s, l + 1, p)
         /\ HeldBelow(G!GraphLayer(l, st, s, p, seq).kv, s, l + 1, p)
<1> DEFINE x == st.x
           b == st.kv
           h == G!Norm(G!W("in_norm", l), x)
           q == G!Rope(G!Theta(l), p, G!Norm(G!W("q_norm", l), G!MatVec(G!W("q", l), h)))
           u == G!MatVec(G!W("v", l), h)
           own == <<G!Rope(G!Theta(l), p, G!Norm(G!W("k_norm", l), G!MatVec(G!W("k", l), h))),
                    IF G!Gemma4 THEN G!UnitNorm(u) ELSE u>>
           v == G!NamedKv(s, l, p, own)
           d == IF G!GraphSource(l) # l THEN b ELSE [b EXCEPT ![l][p] = v]
           kvs == [t \in G!StartTpos(l, seq)..(seq - 1) |-> d[G!GraphSource(l)][t]]
           attn == G!GqaAttend(q, "none", kvs)
           proj == G!MatVec(G!W("o", l), attn)
           tail == G!GraphTail(l, proj, x, G!PerLayerInput(s, p))
           x1 == G!Plus(G!Norm(G!W("post_attn", l), proj), x)
           x2 == G!Plus(G!Norm(G!W("post_ffn", l), G!Mlp(l, G!MlpIn(l, x1))), x1)
<1>1. /\ G!GraphLayer(l, st, s, p, seq).kv = d
      /\ G!GraphLayer(l, st, s, p, seq).x = G!NamedX(s, l, p, tail)
  BY DEF G!GraphLayer
<1>2. /\ conf.kind # "plain" /\ ~G!Ple
      /\ G!Gemma4 => l \notin Scaled
  BY DEF GemmaConf, GraphKnowsLayers, OnGraph, G!Gemma4, G!Ple
<1>3. /\ x = G!HiddenName(s, l, p) /\ p \in Nat /\ l \in Nat /\ seq - 1 = p
      /\ GemmaBuffers(b) /\ HeldBelow(b, s, l, p)
  BY DEF G!Position, G!Layer
<1>4. v = G!KvName(s, l, p)
  <2>1. own = G!KeyValue(l, p, G!HiddenName(s, l, p))
    BY <1>2, <1>3 DEF G!KeyValue, G!HeadNorm
  <2> HIDE DEF own
  <2> QED
    BY <2>1 DEF G!NamedKv, G!Abbreviate
<1>5. q = G!Query(l, p, G!HiddenName(s, l, p))
  BY <1>2, <1>3 DEF G!Query, G!HeadNorm
<1>6. /\ G!IsKvShared(l) => G!Sources(l) # {}
      /\ G!GraphSource(l) = G!KvSource(l)
      /\ ~ G!IsKvShared(l) => G!GraphSource(l) = l
  BY GraphSourceExact
<1>7. /\ G!KvSource(l) \in G!Layer /\ ~ G!IsKvShared(G!KvSource(l))
      /\ G!IsKvShared(l) => G!KvSource(l) < l /\ G!KvSource(l) # l
      /\ ~ G!IsKvShared(l) => G!KvSource(l) = l
  BY <1>6, SourceFacts
<1>8. d = IF G!IsKvShared(l) THEN b ELSE [b EXCEPT ![l][p] = v]
  <2> HIDE DEF v, b
  <2> QED
    BY <1>6, <1>7
<1> HIDE DEF b, v, q, d
<1>9. /\ GemmaBuffers(d)
      /\ ~G!IsKvShared(l) => d[l][p] = v
      /\ \A m \in G!Layer, i \in G!Position : (m # l \/ i # p) => d[m][i] = b[m][i]
  BY <1>3, <1>8 DEF GemmaBuffers
<1>10. HeldBelow(d, s, l + 1, p)
  BY <1>3, <1>4, <1>9, HeldOneMore
<1>11. kvs = [t \in G!StartTpos(l, p + 1)..p |-> G!KvName(s, G!KvSource(l), t)]
  <2>1. \A t \in G!StartTpos(l, p + 1)..p : d[G!KvSource(l)][t] = G!KvName(s, G!KvSource(l), t)
    <3> SUFFICES ASSUME NEW t \in G!StartTpos(l, p + 1)..p
                 PROVE  d[G!KvSource(l)][t] = G!KvName(s, G!KvSource(l), t)
      OBVIOUS
    <3>1. t \in Nat /\ t <= p /\ t \in G!Position
      BY <1>3, WindowFacts, GemmaSizes DEF G!Position
    <3>2. G!KvSource(l) \in Nat /\ G!KvSource(l) < l + 1
      BY <1>3, <1>7 DEF G!Layer
    <3>3. t < p \/ (t = p /\ G!KvSource(l) < l + 1)
      BY <1>3, <3>1, <3>2
    <3> QED
      BY <1>7, <1>10, <3>1, <3>3 DEF HeldBelow
  <2> QED
    BY <1>3, <1>6, <2>1
<1>12. tail = G!Decoder(s, l, p)
  <2>1. tail = x2
    <3> HIDE DEF proj
    <3> QED
      BY <1>2 DEF G!GraphTail
  <2>2. x2 = G!Decoder(s, l, p)
    <3> HIDE DEF kvs
    <3> QED
      BY <1>2, <1>3, <1>5, <1>11 DEF G!Decoder
  <2> HIDE DEF tail, x2
  <2> QED
    BY <2>1, <2>2
<1>13. G!NamedX(s, l, p, tail) = G!HiddenName(s, l + 1, p)
  <2> HIDE DEF tail
  <2> QED
    BY <1>12 DEF G!NamedX, G!Abbreviate
<1> HIDE DEF tail
<1> QED
  BY <1>1, <1>9, <1>10, <1>13

(* All layers of the batch.                                                 *)
LEMMA BatchExact ==
  ASSUME G!GemmaAssumption, conf.kind = "plain", NEW p \in G!Position,
         GemmaBuffers(gpu), call.x = G!HiddenName(call.s, 0, p), HeldBelow(gpu, call.s, 0, p)
  PROVE  /\ G!BatchedLayers(p).x = G!HiddenName(call.s, NumLayers, p)
         /\ HeldBelow(G!BatchedLayers(p).kv, call.s, NumLayers, p)
<1>0. NumLayers \in Nat
  BY GemmaSizes
<1>1. PICK run : /\ G!BatchedLayers(p) = run[NumLayers]
                 /\ run[0] = [x |-> call.x, kv |-> gpu]
                 /\ \A l \in 0..(NumLayers - 1) : run[l + 1] = G!BatchedLayer(l, run[l], p)
  BY <1>0, BatchUnfolds
<1> DEFINE S == {l \in 0..NumLayers : /\ GemmaBuffers(run[l].kv)
                                      /\ run[l].x = G!HiddenName(call.s, l, p)
                                      /\ HeldBelow(run[l].kv, call.s, l, p)}
<1>2. 0 \in S
  BY <1>0, <1>1
<1>3. \A l \in 0..(NumLayers - 1) : l \in S => l + 1 \in S
  <2> SUFFICES ASSUME NEW l \in 0..(NumLayers - 1), l \in S PROVE l + 1 \in S
    OBVIOUS
  <2>1. l \in G!Layer /\ l + 1 \in 0..NumLayers
    BY <1>0 DEF G!Layer
  <2>2. /\ GemmaBuffers(run[l].kv) /\ run[l].x = G!HiddenName(call.s, l, p)
        /\ HeldBelow(run[l].kv, call.s, l, p)
    OBVIOUS
  <2>3. run[l + 1] = G!BatchedLayer(l, run[l], p)
    BY <1>1
  <2>4. /\ GemmaBuffers(G!BatchedLayer(l, run[l], p).kv)
        /\ G!BatchedLayer(l, run[l], p).x = G!HiddenName(call.s, l + 1, p)
        /\ HeldBelow(G!BatchedLayer(l, run[l], p).kv, call.s, l + 1, p)
    BY <2>1, <2>2, BatchLayerExact
  <2> QED
    BY <2>1, <2>3, <2>4
<1>4. 0..NumLayers \subseteq S
  <2> HIDE DEF S
  <2> QED
    BY <1>0, <1>2, <1>3, Climb
<1> QED
  BY <1>0, <1>1, <1>4

(* All layers of the graph.                                                 *)
LEMMA GraphExact ==
  ASSUME G!GemmaAssumption, GemmaConf, graph, GraphKnowsLayers,
         NEW s, NEW p \in G!Position, NEW seq, seq = p + 1,
         GemmaBuffers(cache[s]), call.x = G!HiddenName(s, 0, p), HeldBelow(cache[s], s, 0, p)
  PROVE  /\ G!StepFused(s, p, seq).x = G!HiddenName(s, NumLayers, p)
         /\ HeldBelow(G!StepFused(s, p, seq).kv, s, NumLayers, p)
<1>0. NumLayers \in Nat
  BY GemmaSizes
<1>1. PICK run : /\ G!StepFused(s, p, seq) = run[NumLayers]
                 /\ run[0] = [x |-> call.x, kv |-> cache[s]]
                 /\ \A l \in 0..(NumLayers - 1) : run[l + 1] = G!GraphLayer(l, run[l], s, p, seq)
  BY <1>0, FusedUnfolds
<1> DEFINE S == {l \in 0..NumLayers : /\ GemmaBuffers(run[l].kv)
                                      /\ run[l].x = G!HiddenName(s, l, p)
                                      /\ HeldBelow(run[l].kv, s, l, p)}
<1>2. 0 \in S
  BY <1>0, <1>1
<1>3. \A l \in 0..(NumLayers - 1) : l \in S => l + 1 \in S
  <2> SUFFICES ASSUME NEW l \in 0..(NumLayers - 1), l \in S PROVE l + 1 \in S
    OBVIOUS
  <2>1. l \in G!Layer /\ l + 1 \in 0..NumLayers
    BY <1>0 DEF G!Layer
  <2>2. /\ GemmaBuffers(run[l].kv) /\ run[l].x = G!HiddenName(s, l, p)
        /\ HeldBelow(run[l].kv, s, l, p)
    OBVIOUS
  <2>3. run[l + 1] = G!GraphLayer(l, run[l], s, p, seq)
    BY <1>1
  <2>4. /\ GemmaBuffers(G!GraphLayer(l, run[l], s, p, seq).kv)
        /\ G!GraphLayer(l, run[l], s, p, seq).x = G!HiddenName(s, l + 1, p)
        /\ HeldBelow(G!GraphLayer(l, run[l], s, p, seq).kv, s, l + 1, p)
    BY <2>1, <2>2, GraphLayerExact
  <2> QED
    BY <2>1, <2>3, <2>4
<1>4. 0..NumLayers \subseteq S
  <2> HIDE DEF S
  <2> QED
    BY <1>0, <1>2, <1>3, Climb
<1> QED
  BY <1>0, <1>1, <1>4
-----------------------------------------------------------------------------
(* The steps                                                               *)

(* What a session has passed is held, and what depends on the model of the *)
(* runner alone stays.                                                      *)
LEMMA SameModel ==
  ASSUME UNCHANGED conf
  PROVE  /\ \A l : G!IsKvShared(l)' = G!IsKvShared(l)
         /\ Batching' = Batching /\ G!Gemma4' = G!Gemma4
         /\ \A s, p : G!Logits(s, p)' = G!Logits(s, p)
  BY DEF G!IsKvShared, G!Shares, G!FirstKvShared, Batching, G!Gemma4, G!Logits, G!Softcap

(* A session has passed all layers of its finished positions.              *)
LEMMA HeldBefore ==
  ASSUME G!GemmaAssumption, GemmaTyped, GemmaKvHeld, call # Idle
  PROVE  HeldBelow(cache[call.s], call.s, call.layer, call.pos)
<1>1. call.s \in Sessions /\ G!Done(call.s) = call.pos
  BY GemmaCallTypes
<1> SUFFICES ASSUME NEW l \in G!Layer, NEW i \in G!Position, ~G!IsKvShared(l),
                    i < call.pos \/ (i = call.pos /\ l < call.layer)
             PROVE  cache[call.s][l][i] = G!KvName(call.s, l, i)
  BY DEF HeldBelow
<1>2. Passed(call.s, l, i)
  BY <1>1 DEF Passed
<1> QED
  BY <1>1, <1>2 DEF GemmaKvHeld

(* A step of the call that changes neither what is finished nor a store.   *)
LEMMA HandsOnHeld ==
  ASSUME G!GemmaAssumption, GemmaTyped, GemmaHeld, call # Idle,
         UNCHANGED <<conf, cache, gpu, answer>>,
         call.layer = 0, call'.s = call.s, call'.pos = call.pos, call'.layer = 0,
         call'.x = call.x, call' # Idle, \A t \in Sessions : G!Done(t)' = G!Done(t)
  PROVE  GemmaHeld'
<1>1. GemmaKvHeld'
  <2>1. \A t \in Sessions, l \in G!Layer, p \in G!Position : Passed(t, l, p)' = Passed(t, l, p)
    BY DEF Passed
  <2> QED
    BY <2>1, SameModel DEF GemmaHeld, GemmaKvHeld, G!Layer, G!Position, G!KvName
<1>2. call'.x = G!HiddenName(call'.s, call'.layer, call'.pos)
  BY DEF GemmaHeld, GemmaXHeld
<1>3. GemmaXHeld'
  BY <1>2 DEF GemmaXHeld, G!HiddenName
<1>4. BuffersHeld'
  BY SameModel DEF GemmaHeld, BuffersHeld, G!Layer, G!Position, G!KvName
<1>5. GemmaAnswerHeld'
  BY SameModel DEF GemmaHeld, GemmaAnswerHeld, CapsOnce, OnGraph
<1> QED
  BY <1>1, <1>3, <1>4, <1>5 DEF GemmaHeld

(* A step that returns: the position is finished, with all its layers.     *)
LEMMA ReturnsHeld ==
  ASSUME G!GemmaAssumption, GemmaTyped, GemmaHeld, call # Idle, UNCHANGED <<conf, fed>>,
         call' = Idle, \A t \in Sessions : G!Done(t)' = G!Fed(t),
         NEW logits, answer' = [s |-> call.s, p |-> call.pos, logits |-> logits],
         CapsOnce => logits = G!Logits(call.s, call.pos),
         GemmaCache(cache'),
         HeldBelow(cache'[call.s], call.s, NumLayers, call.pos),
         \A t \in Sessions : t # call.s => cache'[t] = cache[t],
         Batching => \A s, t \in Sessions : s = t,
         Batching => \A s \in Sessions, l \in G!Layer, p \in G!Position :
                       p <= call.pos => gpu'[l][p] = G!KvName(s, l, p)
  PROVE  GemmaHeld'
<1>1. /\ call.s \in Sessions /\ G!Fed(call.s) = call.pos + 1 /\ call.pos \in Nat
      /\ \A t \in Sessions : t # call.s => G!Fed(t) = G!Done(t)
  BY GemmaCallTypes DEF G!Done
<1>2. GemmaKvHeld'
  <2> SUFFICES ASSUME NEW t \in Sessions, NEW l \in G!Layer, NEW p \in G!Position,
                      ~G!IsKvShared(l), p < G!Fed(t)
               PROVE  cache'[t][l][p] = G!KvName(t, l, p)
    BY SameModel DEF GemmaKvHeld, Passed, G!Layer, G!Position, G!KvName
  <2>1. p \in Nat /\ l \in Nat /\ l < NumLayers
    BY GemmaSizes DEF G!Position, G!Layer
  <2>2. CASE t = call.s
    <3>1. p < call.pos \/ (p = call.pos /\ l < NumLayers)
      BY <1>1, <2>1, <2>2
    <3> QED
      BY <2>2, <3>1 DEF HeldBelow
  <2>3. CASE t # call.s
    <3>1. Passed(t, l, p) /\ cache'[t] = cache[t]
      BY <1>1, <2>3 DEF Passed
    <3> QED
      BY <3>1 DEF GemmaHeld, GemmaKvHeld
  <2> QED
    BY <2>2, <2>3
<1>3. GemmaXHeld'
  BY DEF GemmaXHeld
<1>4. CASE ~ Batching
  <2>1. BuffersHeld'
    BY <1>4, SameModel DEF BuffersHeld
  <2>2. GemmaAnswerHeld'
    BY SameModel DEF GemmaAnswerHeld, CapsOnce, OnGraph
  <2> QED
    BY <1>2, <1>3, <2>1, <2>2 DEF GemmaHeld
<1>5. CASE Batching /\ \A s, t \in Sessions : s = t
  <2>1. BuffersHeld'
    <3> SUFFICES ASSUME NEW s \in Sessions, NEW l \in G!Layer, NEW p \in G!Position, p < G!Fed(s)
                 PROVE  gpu'[l][p] = G!KvName(s, l, p)
      BY DEF BuffersHeld, G!Layer, G!Position, G!KvName
    <3>1. s = call.s /\ p \in Nat
      BY <1>1, <1>5 DEF G!Position
    <3>2. p <= call.pos
      BY <1>1, <3>1
    <3> QED
      BY <1>5, <3>2
  <2>2. GemmaAnswerHeld'
    BY SameModel DEF GemmaAnswerHeld, CapsOnce, OnGraph
  <2> QED
    BY <1>2, <1>3, <2>1, <2>2 DEF GemmaHeld
<1> QED
  BY <1>4, <1>5

(* A session is fed: its step has passed no layer.                         *)
LEMMA BeginHeld ==
  ASSUME G!GemmaAssumption, IdleIsNoGemmaCall, GemmaTyped, GemmaHeld,
         NEW s \in Sessions, NEW entry, G!Begin(s, entry)
  PROVE  GemmaHeld'
<1>1. /\ call = Idle /\ call' # Idle /\ call'.s = s /\ call'.pos = G!Fed(s)
      /\ call'.layer = 0 /\ call'.x = G!HiddenName(s, 0, G!Fed(s))
      /\ \A t \in Sessions : G!Done(t)' = G!Done(t)
  BY BeginTyped
<1>2. answer' = Idle /\ UNCHANGED <<conf, cache, gpu>>
  BY DEF G!Begin
<1>3. GemmaKvHeld'
  <2>1. \A t \in Sessions, l \in G!Layer, p \in G!Position : Passed(t, l, p)' => Passed(t, l, p)
    BY <1>1 DEF Passed, G!Layer
  <2> QED
    BY <1>2, <2>1, SameModel DEF GemmaHeld, GemmaKvHeld, G!Layer, G!Position, G!KvName
<1>4. GemmaXHeld'
  <2>1. call'.x = G!HiddenName(call'.s, call'.layer, call'.pos)
    BY <1>1
  <2> QED
    BY <2>1 DEF GemmaXHeld, G!HiddenName
<1>5. BuffersHeld'
  <2>1. Batching => \A t \in Sessions, l \in G!Layer, p \in G!Position :
                      p < G!Done(t)' => gpu'[l][p] = G!KvName(t, l, p)
    BY <1>1, <1>2 DEF GemmaHeld, BuffersHeld
  <2>2. call'.layer = 0
    BY <1>1
  <2> QED
    BY <1>2, <2>1, <2>2, SameModel DEF BuffersHeld, G!Layer, G!Position, G!KvName
<1>6. GemmaAnswerHeld'
  BY <1>2 DEF GemmaAnswerHeld
<1> QED
  BY <1>3, <1>4, <1>5, <1>6 DEF GemmaHeld

(* A session is closed: nothing is held of it.                             *)
LEMMA CloseHeld ==
  ASSUME G!GemmaAssumption, GemmaTyped, GemmaHeld, NEW s \in Sessions, G!CloseSession(s)
  PROVE  GemmaHeld'
<1>1. G!Done(s)' = 0 /\ \A t \in Sessions : t # s => G!Done(t)' = G!Done(t)
  BY CloseTyped
<1>2. /\ call' = Idle /\ answer' = Idle /\ UNCHANGED <<conf, gpu>>
      /\ cache' = [cache EXCEPT ![s] = [l \in G!Layer |-> [p \in G!Position |-> G!Stale]]]
  BY DEF G!CloseSession
<1>3. \A t \in Sessions : t # s => cache'[t] = cache[t]
  BY <1>2 DEF GemmaTyped, GemmaCache
<1>4. \A t \in Sessions, p \in G!Position : (p < G!Done(t))' => t # s /\ p < G!Done(t)
  <2> SUFFICES ASSUME NEW t \in Sessions, NEW p \in G!Position, p < G!Done(t)'
               PROVE  t # s /\ p < G!Done(t)
    OBVIOUS
  <2>1. t # s
    BY <1>1 DEF G!Position
  <2> QED
    BY <1>1, <2>1
<1>5. GemmaKvHeld'
  <2> SUFFICES ASSUME NEW t \in Sessions, NEW l \in G!Layer, NEW p \in G!Position,
                      ~G!IsKvShared(l), p < G!Done(t)'
               PROVE  cache'[t][l][p] = G!KvName(t, l, p)
    BY <1>2, SameModel DEF GemmaKvHeld, Passed, G!Layer, G!Position, G!KvName
  <2>1. t # s /\ Passed(t, l, p)
    BY <1>4 DEF Passed
  <2> QED
    BY <1>3, <2>1 DEF GemmaHeld, GemmaKvHeld
<1>6. BuffersHeld'
  BY <1>2, <1>4, SameModel DEF GemmaHeld, BuffersHeld, G!Layer, G!Position, G!KvName
<1>7. GemmaXHeld' /\ GemmaAnswerHeld'
  BY <1>2 DEF GemmaXHeld, GemmaAnswerHeld
<1> QED
  BY <1>5, <1>6, <1>7 DEF GemmaHeld

(* The batch returns the model's logits and K/V.                           *)
LEMMA BatchHeld ==
  ASSUME G!GemmaAssumption, GemmaTyped, GemmaHeld, BatchOfOne, CapsNoScore, G!BatchedStep
  PROVE  GemmaHeld'
<1> DEFINE s == call.s
           p == call.pos
           st == G!BatchedLayers(call.pos)
<1>1. /\ call # Idle /\ G!BatchedAllowed /\ conf.dtype = "i4" /\ call' = Idle
      /\ answer' = [s |-> s, p |-> p, logits |-> G!CappedLogits(st.x)]
      /\ gpu' = st.kv /\ cache' = G!SyncBack(s, p, st.kv) /\ UNCHANGED <<conf, fed>>
  BY DEF G!BatchedStep, G!At, G!Return
<1>2. s \in Sessions /\ p \in G!Position /\ p \in Nat /\ G!Done(s) = p
  BY <1>1, GemmaCallTypes
<1>3. GemmaCache(cache) /\ GemmaBuffers(gpu) /\ NumLayers \in Nat
  BY GemmaSizes DEF GemmaTyped
<1>4. conf.kind = "plain" /\ conf.ops /\ "plain" \in Kinds /\ "i4" \in Dtypes /\ OnMetal
  <2>1. /\ conf.ops /\ ~G!Gemma3 /\ ~(G!Gemma4 /\ SharedLayers > 0) /\ OnMetal
        /\ conf.kind \in Kinds /\ "i4" \in Dtypes
    BY <1>1 DEF G!BatchedAllowed, GemmaTyped, GemmaConf
  <2>2. "linear" \in Backends \/ "full" \in Backends
    BY <2>1 DEF OnMetal
  <2>3. ~ G!Gemma4
    BY <2>1, <2>2 DEF CapsNoScore, G!Gemma4
  <2> QED
    BY <2>1, <2>3, GemmaSizes DEF G!Gemma3, G!Gemma4
<1>5. Batching /\ \A r, t \in Sessions : r = t
  BY <1>1, <1>4 DEF Batching, BatchOfOne
<1>6. call.x = G!HiddenName(s, 0, p)
  BY <1>1, <1>5 DEF GemmaHeld, GemmaXHeld, BuffersHeld
<1>7. HeldBelow(gpu, s, 0, p)
  BY <1>2, <1>5 DEF GemmaHeld, BuffersHeld, HeldBelow, G!Layer
<1>8. st.x = G!HiddenName(s, NumLayers, p) /\ HeldBelow(st.kv, s, NumLayers, p)
  BY <1>2, <1>3, <1>4, <1>6, <1>7, BatchExact
<1>9. G!CappedLogits(st.x) = G!Logits(s, p)
  <2> HIDE DEF st
  <2> QED
    BY <1>8 DEF G!CappedLogits, G!Logits
<1> DEFINE kv == st.kv
<1>10. GemmaBuffers(kv)
  BY <1>3, BatchShape
<1>11. \A l \in G!Layer, i \in G!Position : i <= p => kv[l][i] = G!KvName(s, l, i)
  <2> SUFFICES ASSUME NEW l \in G!Layer, NEW i \in G!Position, i <= p
               PROVE  kv[l][i] = G!KvName(s, l, i)
    OBVIOUS
  <2>1. ~ G!IsKvShared(l)
    BY <1>4 DEF G!IsKvShared, G!Shares, G!Gemma4
  <2>2. i < p \/ (i = p /\ l < NumLayers)
    BY <1>2, <1>3 DEF G!Layer, G!Position
  <2> QED
    BY <1>8, <2>1, <2>2 DEF HeldBelow
<1>12. /\ cache' = G!SyncBack(s, p, kv) /\ gpu' = kv
       /\ answer' = [s |-> s, p |-> p, logits |-> G!Logits(s, p)]
  BY <1>1, <1>9
<1> HIDE DEF st, kv
<1>13. /\ GemmaCache(cache')
       /\ \A t \in Sessions : t # s => cache'[t] = cache[t]
       /\ \A l \in G!Layer, i \in G!Position :
            cache'[s][l][i] = IF i = p THEN kv[l][p] ELSE cache[s][l][i]
  BY <1>2, <1>3, <1>12 DEF G!SyncBack, GemmaCache
<1>14. HeldBelow(cache'[s], s, NumLayers, p)
  <2> SUFFICES ASSUME NEW l \in G!Layer, NEW i \in G!Position, ~G!IsKvShared(l),
                      i < p \/ (i = p /\ l < NumLayers)
               PROVE  cache'[s][l][i] = G!KvName(s, l, i)
    BY DEF HeldBelow
  <2>1. CASE i = p
    BY <1>2, <1>11, <1>13, <2>1
  <2>2. CASE i # p
    <3>1. Passed(s, l, i)
      BY <1>2, <2>2 DEF Passed
    <3> QED
      BY <1>2, <1>13, <2>2, <3>1 DEF GemmaHeld, GemmaKvHeld
  <2> QED
    BY <2>1, <2>2
<1>15. \A r \in Sessions, l \in G!Layer, i \in G!Position : i <= p => gpu'[l][i] = G!KvName(r, l, i)
  BY <1>2, <1>5, <1>11, <1>12
<1>16. \A t \in Sessions : G!Done(t)' = G!Fed(t)
  BY BatchTyped
<1> QED
  BY <1>1, <1>5, <1>12, <1>13, <1>14, <1>15, <1>16, ReturnsHeld

(* The graph returns the model's, or leaves the step to the loop with what *)
(* it may have written.                                                     *)
LEMMA GraphHeld ==
  ASSUME G!GemmaAssumption, IdleIsNoGemmaCall, GemmaTyped, GemmaHeld, GraphKnowsLayers, G!GraphStep
  PROVE  GemmaHeld'
<1> DEFINE s == call.s
           p == call.pos
           st == G!StepFused(call.s, call.pos, count'[call.s])
           kv == st.kv
<1>1. /\ call # Idle /\ call.at = "graph" /\ graph /\ count' = G!Appended
      /\ UNCHANGED <<conf, gpu, fed>>
      /\ \/ /\ cache' = [cache EXCEPT ![s] = kv] /\ call' = Idle
            /\ answer' = [s |-> s, p |-> p, logits |-> G!GraphLogits(st.x)]
         \/ /\ cache' \in {cache, [cache EXCEPT ![s] = kv]}
            /\ call' = [call EXCEPT !.at = "layers"] /\ answer' = answer
  BY DEF G!GraphStep, G!At, G!Return
<1>2. s \in Sessions /\ p \in G!Position /\ p \in Nat /\ G!Done(s) = p /\ call.layer = 0
  BY <1>1, GemmaCallTypes
<1>3. GemmaCache(cache) /\ GemmaConf /\ GemmaBuffers(cache[s])
  BY <1>2 DEF GemmaTyped, GemmaCache, GemmaBuffers
<1>4. conf.kind # "plain" /\ ~ Batching /\ OnGraph
  BY <1>1, <1>3 DEF GemmaConf, Batching, OnGraph
<1>5. call.x = G!HiddenName(s, 0, p) /\ HeldBelow(cache[s], s, 0, p)
  BY <1>1, <1>2, HeldBefore DEF GemmaHeld, GemmaXHeld
<1>6. count'[s] = p + 1
  BY <1>1, AppendedIs
<1>7. st.x = G!HiddenName(s, NumLayers, p) /\ HeldBelow(kv, s, NumLayers, p)
  BY <1>1, <1>2, <1>3, <1>5, <1>6, GraphExact
<1>8. NumLayers \in Nat
  BY GemmaSizes
<1>9. GemmaBuffers(kv)
  BY <1>3, <1>8, FusedShape
<1>10. CapsOnce => G!GraphLogits(st.x) = G!Logits(s, p)
  <2> HIDE DEF st
  <2> QED
    BY <1>3, <1>4, <1>7 DEF G!GraphLogits, G!Logits, CapsOnce, G!Gemma4, GemmaConf
<1> DEFINE written == [cache EXCEPT ![s] = kv]
           logits == G!GraphLogits(st.x)
<1> HIDE DEF kv, st
<1>11. /\ GemmaCache(written) /\ written[s] = kv
       /\ \A t \in Sessions : t # s => written[t] = cache[t]
  BY <1>2, <1>3, <1>9 DEF GemmaCache, GemmaBuffers
<1>12. CASE cache' = written /\ call' = Idle /\ answer' = [s |-> s, p |-> p, logits |-> logits]
  <2>1. \A t \in Sessions : G!Done(t)' = G!Fed(t)
    BY <1>12, GraphTyped
  <2>2. HeldBelow(cache'[s], s, NumLayers, p)
    BY <1>7, <1>11, <1>12
  <2> HIDE DEF written, logits
  <2>3. CapsOnce => logits = G!Logits(s, p)
    BY <1>10 DEF logits
  <2> QED
    BY <1>1, <1>4, <1>11, <1>12, <2>1, <2>2, <2>3, ReturnsHeld
<1>13. CASE cache' \in {cache, written} /\ call' = [call EXCEPT !.at = "layers"]
            /\ answer' = answer
  <2> HIDE DEF written
  <2>1. /\ call' = [s |-> call.s, pos |-> call.pos, at |-> "layers",
                    layer |-> call.layer, x |-> call.x]
    BY <1>1, <1>13, CallMoves
  <2>2. call' # Idle
    <3>1. GemmaCallShape(call')
      BY <1>1, <2>1 DEF GemmaTyped, GemmaCall, GemmaCallShape
    <3> QED
      BY <3>1 DEF IdleIsNoGemmaCall
  <2>3. \A t \in Sessions : G!Done(t)' = G!Done(t)
    BY <1>1, <2>1, <2>2 DEF G!Done, G!Fed
  <2>4. \A t \in Sessions, l \in G!Layer, i \in G!Position : Passed(t, l, i)' = Passed(t, l, i)
    BY <1>1, <2>1, <2>2, <2>3 DEF Passed
  <2>5. GemmaKvHeld'
    <3> SUFFICES ASSUME NEW t \in Sessions, NEW l \in G!Layer, NEW i \in G!Position,
                        ~G!IsKvShared(l), Passed(t, l, i)
                 PROVE  cache'[t][l][i] = G!KvName(t, l, i)
      BY <1>1, <2>4, SameModel DEF GemmaKvHeld, G!Layer, G!Position, G!KvName
    <3>1. cache[t][l][i] = G!KvName(t, l, i)
      BY DEF GemmaHeld, GemmaKvHeld
    <3>2. CASE t # s \/ cache' = cache
      BY <1>11, <1>13, <3>1, <3>2
    <3>3. CASE t = s /\ cache' = written
      <4>1. i < p
        BY <1>2, <3>3 DEF Passed, G!Layer
      <4> QED
        BY <1>7, <1>11, <3>3, <4>1 DEF HeldBelow
    <3> QED
      BY <1>13, <3>2, <3>3
  <2>6. GemmaXHeld'
    <3>1. call'.x = G!HiddenName(call'.s, call'.layer, call'.pos)
      BY <1>2, <1>5, <2>1
    <3> QED
      BY <3>1 DEF GemmaXHeld, G!HiddenName
  <2>7. BuffersHeld'
    BY <1>1, <1>4, SameModel DEF BuffersHeld
  <2>8. GemmaAnswerHeld'
    BY <1>1, <1>13, SameModel DEF GemmaHeld, GemmaAnswerHeld, CapsOnce, OnGraph
  <2> QED
    BY <2>5, <2>6, <2>7, <2>8 DEF GemmaHeld
<1> QED
  BY <1>1, <1>12, <1>13

(* Every step keeps what is held.                                          *)
LEMMA GemmaHeldStep ==
  ASSUME G!GemmaAssumption, IdleIsNoGemmaCall, BatchOfOne, CapsNoScore, GraphKnowsLayers,
         GemmaTyped, GemmaHeld, [G!Next]_(G!vars)
  PROVE  GemmaHeld'
<1>1. ASSUME NEW s \in Sessions, NEW entry \in {"token", "hidden"}, G!Begin(s, entry)
      PROVE  GemmaHeld'
  BY <1>1, BeginHeld
<1>2. ASSUME NEW s \in Sessions, G!CloseSession(s)
      PROVE  GemmaHeld'
  BY <1>2, CloseHeld
<1>3. ASSUME NEW place \in {"graph", "layers"}, call # Idle, call.at # "layers",
             call' = [call EXCEPT !.at = place], UNCHANGED <<conf, cache, gpu, fed, answer>>,
             (UNCHANGED count /\ place = "graph") \/ count' = G!Appended,
             place = "layers" => ~graph'
      PROVE  GemmaHeld'
  <2>1. /\ call' # Idle /\ call'.s = call.s /\ call'.pos = call.pos
        /\ call'.layer = 0 /\ call'.x = call.x
        /\ \A t \in Sessions : G!Done(t)' = G!Done(t)
    BY <1>3, HandsOnTyped
  <2>2. call.layer = 0
    BY <1>3, GemmaCallTypes
  <2> QED
    BY <1>3, <2>1, <2>2, HandsOnHeld
<1>4. CASE G!BatchedDeclines
  BY <1>3, <1>4 DEF G!BatchedDeclines, G!At
<1>5. CASE G!BatchedFallsBack
  BY <1>3, <1>5 DEF G!BatchedFallsBack, G!At
<1>6. CASE G!BatchedStep
  BY <1>6, BatchHeld
<1>7. CASE G!GraphSkipped
  BY <1>3, <1>7 DEF G!GraphSkipped, G!At
<1>8. CASE G!GraphStep
  BY <1>8, GraphHeld
<1>9. CASE G!LoopStep
  BY <1>9, LoopHeld
<1>10. CASE G!LoopFails
  <2>1. /\ call # Idle /\ call' = Idle /\ UNCHANGED <<conf, cache, gpu, answer>>
        /\ \A t \in Sessions : G!Done(t)' = G!Done(t)
    BY <1>10, FailsTyped DEF G!LoopFails, G!At, G!Fail
  <2>2. GemmaKvHeld'
    <3>1. \A t \in Sessions, l \in G!Layer, p \in G!Position : Passed(t, l, p)' => Passed(t, l, p)
      BY <2>1 DEF Passed
    <3> QED
      BY <2>1, <3>1, SameModel DEF GemmaHeld, GemmaKvHeld, G!Layer, G!Position, G!KvName
  <2>3. BuffersHeld'
    BY <2>1, SameModel DEF GemmaHeld, BuffersHeld, G!Layer, G!Position, G!KvName
  <2>4. GemmaXHeld' /\ GemmaAnswerHeld'
    BY <2>1, SameModel DEF GemmaHeld, GemmaXHeld, GemmaAnswerHeld, CapsOnce, OnGraph
  <2> QED
    BY <2>2, <2>3, <2>4 DEF GemmaHeld
<1>11. CASE G!Finish
  <2>1. /\ call # Idle /\ call' = Idle /\ call.layer = NumLayers
        /\ UNCHANGED <<conf, count, cache, gpu, fed>>
        /\ answer' = [s |-> call.s, p |-> call.pos, logits |-> G!CappedLogits(call.x)]
        /\ count[call.s] = call.pos + 1
    BY <1>11, GemmaCallTypes DEF G!Finish, G!At, G!Return
  <2>2. G!CappedLogits(call.x) = G!Logits(call.s, call.pos)
    BY <2>1 DEF GemmaHeld, GemmaXHeld, G!CappedLogits, G!Logits
  <2>3. ~ Batching
    BY <2>1, GemmaSizes DEF GemmaHeld, BuffersHeld
  <2>4. HeldBelow(cache'[call.s], call.s, NumLayers, call.pos)
    BY <2>1, HeldBefore DEF GemmaHeld
  <2>5. GemmaCache(cache') /\ \A t \in Sessions : t # call.s => cache'[t] = cache[t]
    BY <2>1 DEF GemmaTyped
  <2>6. \A t \in Sessions : G!Done(t)' = G!Fed(t)
    BY <2>1, ReturnsTyped
  <2> QED
    BY <2>1, <2>2, <2>3, <2>4, <2>5, <2>6, ReturnsHeld
<1>12. CASE UNCHANGED G!vars
  <2>1. UNCHANGED <<conf, cache, gpu, fed, call, answer>>
    BY <1>12 DEF G!vars
  <2>2. \A t \in Sessions : G!Done(t)' = G!Done(t)
    BY <2>1 DEF G!Done, G!Fed
  <2>3. \A t \in Sessions, l \in G!Layer, p \in G!Position : Passed(t, l, p)' = Passed(t, l, p)
    BY <2>1, <2>2 DEF Passed
  <2>4. GemmaKvHeld'
    BY <2>1, <2>3, SameModel DEF GemmaHeld, GemmaKvHeld, G!Layer, G!Position, G!KvName
  <2>5. BuffersHeld'
    BY <2>1, <2>2, SameModel DEF GemmaHeld, BuffersHeld, G!Layer, G!Position, G!KvName
  <2>6. GemmaXHeld' /\ GemmaAnswerHeld'
    BY <2>1, SameModel DEF GemmaHeld, GemmaXHeld, GemmaAnswerHeld, CapsOnce, OnGraph, G!HiddenName
  <2> QED
    BY <2>4, <2>5, <2>6 DEF GemmaHeld
<1> QED
  BY <1>1, <1>2, <1>4, <1>5, <1>6, <1>7, <1>8, <1>9, <1>10, <1>11, <1>12 DEF G!Next

(* What both theorems follow from.                                         *)
LEMMA GemmaInvariant ==
  ASSUME G!GemmaAssumption, IdleIsNoGemmaCall, BatchOfOne, CapsNoScore, GraphKnowsLayers
  PROVE  G!Spec => [](GemmaTyped /\ GemmaHeld)
<1>1. G!Init => GemmaTyped /\ GemmaHeld
  BY GemmaTypeInit, GemmaHeldInit
<1>2. GemmaTyped /\ GemmaHeld /\ [G!Next]_(G!vars) => (GemmaTyped /\ GemmaHeld)'
  BY GemmaTypeStep, GemmaHeldStep
<1> QED
  BY <1>1, <1>2, PTL DEF G!Spec

(* For every number of layers, sessions and positions, every window and    *)
(* every way layers share K/V: the K/V of every finished position are the  *)
(* model's for its session, whichever of the batch, the graph and the loop *)
(* wrote them and whatever failed in between.                              *)
THEOREM GemmaCacheExact ==
  ASSUME G!GemmaAssumption, IdleIsNoGemmaCall, BatchOfOne, CapsNoScore, GraphKnowsLayers
  PROVE  G!Spec => []G!CacheIsTheModels
<1>1. GemmaTyped /\ GemmaHeld => G!CacheIsTheModels
  <2> SUFFICES ASSUME GemmaTyped, GemmaHeld, NEW s \in Sessions, NEW l \in G!Layer,
                      NEW p \in 0..(G!Done(s) - 1), ~G!IsKvShared(l)
               PROVE  cache[s][l][p] = G!KvName(s, l, p)
    BY DEF G!CacheIsTheModels
  <2>1. G!Done(s) \in 0..MaxSeq
    BY GemmaCallTypes, GemmaSizes DEF GemmaTyped, GemmaFed, G!Done
  <2>2. p \in G!Position /\ p < G!Done(s)
    BY <2>1, GemmaSizes DEF G!Position
  <2> QED
    BY <2>2 DEF GemmaHeld, GemmaKvHeld, Passed
<1> QED
  BY <1>1, GemmaInvariant, PTL

(* And the logits it answers with are the model's, where the graph caps    *)
(* them as the loop does.                                                   *)
THEOREM GemmaAnswerExact ==
  ASSUME G!GemmaAssumption, IdleIsNoGemmaCall, BatchOfOne, CapsNoScore, GraphKnowsLayers,
         CapsOnce
  PROVE  G!Spec => []G!AnswerIsTheModels
<1>1. GemmaTyped /\ GemmaHeld => G!AnswerIsTheModels
  BY DEF GemmaHeld, GemmaAnswerHeld, G!AnswerIsTheModels
<1> QED
  BY <1>1, GemmaInvariant, PTL

-----------------------------------------------------------------------------
(* Decoding with features                                                  *)

(* What is defined by a step from its predecessor, exists.                 *)
LEMMA Recursion ==
  ASSUME NEW n \in Nat, NEW T, NEW b \in T, NEW h \in [1..n -> [T -> T]]
  PROVE  \E g \in [0..n -> T] : g[0] = b /\ \A k \in 1..n : g[k] = h[k][g[k - 1]]
<1> DEFINE Upward(k, g) == /\ g \in [0..k -> T] /\ g[0] = b
                           /\ \A j \in 1..k : g[j] = h[j][g[j - 1]]
           S == {k \in 0..n : \E g : Upward(k, g)}
<1>1. 0 \in S
  <2>1. Upward(0, [j \in 0..0 |-> b]) /\ 0 \in 0..n
    OBVIOUS
  <2> HIDE DEF Upward
  <2> QED
    BY <2>1
<1>2. ASSUME NEW k \in 0..(n - 1), k \in S PROVE k + 1 \in S
  <2>1. PICK g : Upward(k, g)
    BY <1>2
  <2> DEFINE f == [j \in 0..(k + 1) |-> IF j = k + 1 THEN h[k + 1][g[k]] ELSE g[j]]
  <2>2. g[k] \in T /\ k + 1 \in 1..n
    BY <2>1
  <2>3. h[k + 1][g[k]] \in T
    BY <2>2
  <2>4. f \in [0..(k + 1) -> T] /\ f[0] = b
    BY <2>1, <2>3
  <2>5. ASSUME NEW j \in 1..(k + 1) PROVE f[j] = h[j][f[j - 1]]
    <3>1. CASE j = k + 1
      <4>1. f[j] = h[k + 1][g[k]] /\ f[j - 1] = g[k]
        BY <3>1
      <4> QED
        BY <3>1, <4>1
    <3>2. CASE j # k + 1
      <4>1. j \in 1..k /\ f[j] = g[j] /\ f[j - 1] = g[j - 1]
        BY <3>2
      <4> QED
        BY <2>1, <4>1
    <3> QED
      BY <3>1, <3>2
  <2>6. Upward(k + 1, f)
    BY <2>4, <2>5
  <2>7. k + 1 \in 0..n
    OBVIOUS
  <2> HIDE DEF f, Upward
  <2> QED
    BY <2>6, <2>7
<1>3. n \in S
  <2> HIDE DEF S
  <2>1. 0..n \subseteq S
    BY <1>1, <1>2, Climb
  <2> QED
    BY <2>1
<1> QED
  BY <1>3

(* Numbers that belong to the members of a finite set are bounded.         *)
LEMMA FiniteIsBounded ==
  ASSUME NEW S, IsFiniteSet(S), NEW f \in [S -> Nat]
  PROVE  \E b \in Nat : \A y \in S : f[y] <= b
<1> DEFINE Bounded(T) == \E b \in Nat : \A y \in T : f[y] <= b
           F == {T \in SUBSET S : ~ Bounded(T)}
<1> SUFFICES ASSUME F # {} PROVE FALSE
  OBVIOUS
<1>1. \A T \in F : IsFiniteSet(T)
  BY FS_Subset
<1>2. PICK T \in F : \A U \in F : Cardinality(T) <= Cardinality(U)
  <2> HIDE DEF F
  <2> QED
    BY <1>1, LeastSet
<1>3. PICK x \in T : TRUE
  <2>1. T = {} => Bounded(T)
    OBVIOUS
  <2>2. ~ Bounded(T)
    OBVIOUS
  <2> QED
    BY <2>1, <2>2
<1>4. IsFiniteSet(T) /\ T \subseteq S /\ f[x] \in Nat
  BY <1>1, <1>3
<1>5. Cardinality(T \ {x}) = Cardinality(T) - 1 /\ Cardinality(T) \in Nat
      /\ Cardinality(T \ {x}) \in Nat
  BY <1>3, <1>4, FS_RemoveElement, FS_CardinalityType, FS_Subset
<1>6. T \ {x} \notin F
  BY <1>2, <1>5
<1>7. Bounded(T \ {x})
  BY <1>4, <1>6
<1>8. PICK c \in Nat : \A y \in T \ {x} : f[y] <= c
  BY <1>7
<1>9. Bounded(T)
  <2>1. CASE f[x] <= c
    <3>1. \A y \in T : f[y] <= c
      BY <1>8, <2>1
    <3> QED
      BY <3>1
  <2>2. CASE c < f[x]
    <3>1. \A y \in T : f[y] <= f[x]
      <4>1. \A y \in T \ {x} : f[y] \in Nat /\ f[y] <= c
        BY <1>4, <1>8
      <4>2. \A y \in T \ {x} : f[y] <= f[x]
        BY <1>4, <2>2, <4>1
      <4> QED
        BY <1>4, <4>2
    <3> QED
      BY <1>4, <3>1
  <2> QED
    BY <1>4, <2>1, <2>2
<1> QED
  BY <1>9

(* What Max and Min choose.                                                *)
LEMMA MaxIs ==
  ASSUME NEW S, S \subseteq Nat, S # {}, \E b \in Nat : \A y \in S : y <= b
  PROVE  D!Max(S) \in S /\ \A y \in S : y <= D!Max(S)
<1> DEFINE B == {b \in Nat : \A y \in S : y <= b}
<1>1. B # {} /\ B \subseteq Nat
  OBVIOUS
<1>2. PICK b \in B : \A c \in B : b <= c
  <2> HIDE DEF B
  <2> QED
    BY <1>1, LeastNatural
<1>3. b \in S
  <2> SUFFICES ASSUME b \notin S PROVE FALSE
    OBVIOUS
  <2>1. \A y \in S : y \in Nat /\ y <= b /\ y # b
    BY <1>2
  <2>0. PICK z \in S : TRUE
    OBVIOUS
  <2>2. b > 0
    <3>1. z \in Nat /\ z <= b /\ z # b /\ b \in Nat
      BY <2>1
    <3> QED
      BY <3>1
  <2>3. b - 1 \in B
    BY <2>1, <2>2
  <2> HIDE DEF B
  <2>4. b <= b - 1 /\ b \in Nat
    BY <1>1, <1>2, <2>3
  <2> QED
    BY <2>4
<1>4. \E x \in S : \A y \in S : x >= y
  BY <1>2, <1>3
<1> QED
  BY <1>4 DEF D!Max

(* Of naturals there is always a least one.                                 *)
LEMMA MinIs ==
  ASSUME NEW S, S \subseteq Nat, S # {}
  PROVE  D!Min(S) \in S /\ \A y \in S : D!Min(S) <= y
  BY LeastNatural DEF D!Min

-----------------------------------------------------------------------------
(* A step of the runner                                                    *)

(* What the cache can be, and what Forward returns.                         *)
Caches == [D!Layer -> [D!Position -> D!Vector]]
StepResult == [x : D!Vector, c : Caches]

(* What a call works on: a prompt that is not empty, some features, and a  *)
(* cache with room for both and for what is generated.                     *)
LEMMA DecodeFacts ==
  ASSUME D!VlmDecodeAssumption, prompt \in Prompts, feats \in Features
  PROVE  /\ prompt \in Seq({"txt", "img"}) /\ Len(prompt) \in Nat /\ Len(prompt) >= 1
         /\ feats \in Nat /\ feats >= 1 /\ MaxNew \in Nat /\ NumLayers \in Nat /\ NumLayers >= 1
         /\ D!Shift \in Nat /\ D!Prompted \in Nat /\ D!Prompted = D!Shift + Len(prompt)
         /\ D!Shift = (IF Prefix THEN feats ELSE 0) /\ D!Prompted >= 1
         /\ D!MaxSeq \in Nat /\ D!Prompted + MaxNew <= D!MaxSeq
         /\ feats <= D!MaxSeq /\ Len(prompt) <= D!MaxSeq
         /\ (Prefix => Runner = "gemma") /\ (Prefix => ~ D!GemmaBidir)
<1>1. /\ feats \in Nat /\ feats >= 1 /\ Features \subseteq Nat
      /\ MaxNew \in Nat /\ NumLayers \in Nat /\ NumLayers >= 1 /\ (Prefix => Runner = "gemma")
      /\ \A s \in Prompts : s \in Seq({"txt", "img"}) /\ s # << >>
  BY DEF D!VlmDecodeAssumption
<1>2. IsFiniteSet(Prompts) /\ IsFiniteSet(Features)
  BY DEF D!VlmDecodeAssumption, D!IsFiniteSet, IsFiniteSet
<1>3. prompt \in Seq({"txt", "img"}) /\ Len(prompt) \in Nat /\ Len(prompt) >= 1
  BY <1>1
<1> DEFINE L == {Len(s) : s \in Prompts}
<1>4. D!Max(L) \in Nat /\ Len(prompt) <= D!Max(L)
  <2> DEFINE f == [s \in Prompts |-> Len(s)]
  <2>1. f \in [Prompts -> Nat]
    BY <1>1
  <2>2. \E b \in Nat : \A s \in Prompts : f[s] <= b
    <3> HIDE DEF f
    <3> QED
      BY <1>2, <2>1, FiniteIsBounded
  <2>3. L \subseteq Nat /\ Len(prompt) \in L /\ \E b \in Nat : \A y \in L : y <= b
    BY <1>1, <2>2
  <2> HIDE DEF L
  <2> QED
    BY <2>3, MaxIs
<1>5. D!Max(Features) \in Nat /\ feats <= D!Max(Features)
  <2> DEFINE f == [n \in Features |-> n]
  <2>1. f \in [Features -> Nat]
    BY <1>1
  <2>2. \E b \in Nat : \A n \in Features : f[n] <= b
    <3> HIDE DEF f
    <3> QED
      BY <1>2, <2>1, FiniteIsBounded
  <2> QED
    BY <1>1, <2>2, MaxIs
<1>6. D!MaxSeq = D!Max(Features) + D!Max(L) + MaxNew
  BY DEF D!MaxSeq
<1>7. D!Shift = (IF Prefix THEN feats ELSE 0) /\ D!Prompted = D!Shift + Len(prompt)
  BY DEF D!Shift, D!Prompted
<1>8. D!Shift \in Nat /\ D!Shift <= feats
  BY <1>1, <1>7
<1> HIDE DEF L
<1> QED
  BY <1>1, <1>3, <1>4, <1>5, <1>6, <1>7, <1>8 DEF D!GemmaBidir

(* The vectors of a step in which x[l] enters layer l and result r is left. *)
Layered(r, c, p, item, span, x) ==
  /\ x \in [0..NumLayers -> D!Vector]
  /\ r = [x |-> x[NumLayers], c |-> [l \in D!Layer |-> [c[l] EXCEPT ![p] = x[l]]]]
  /\ x[0] = IF item = D!Want(p) THEN D!Name(0, p) ELSE <<"other", 0, p>>
  /\ \A l \in D!Layer :
       x[l + 1] = D!NextHidden(l, p, x[l],
                    [t \in 0..(span - 1) |-> [c[l] EXCEPT ![p] = x[l]][t]])

(* A step writes its position in every layer and nothing else; where its   *)
(* item is right and it reads what it should, it writes what the model    *)
(* makes of the position.                                                  *)
LEMMA ForwardIs ==
  ASSUME D!VlmDecodeAssumption, NEW c \in Caches, NEW p \in D!Position, NEW item, NEW span
  PROVE  \E x : Layered(D!Forward(c, p, item, span), c, p, item, span, x)
<1> DEFINE N == NumLayers
           V == D!Vector
           b == [x |-> IF item = D!Want(p) THEN D!Name(0, p) ELSE <<"other", 0, p>>, c |-> c]
           put(m, r) == [r.c EXCEPT ![m][p] = r.x]
           core(m, r) == [x |-> D!NextHidden(m, p, r.x,
                                  [t \in 0..(span - 1) |-> put(m, r)[m][t]]),
                          c |-> put(m, r)]
           one(k, r) == core(k - 1, r)
           h == [k \in 1..N |-> [r \in StepResult |-> one(k, r)]]
           Body(Run) == [l \in 0..N |-> IF l = 0 THEN b ELSE one(l, Run[l - 1])]
<1>1. N \in Nat /\ D!Layer = 0..(N - 1)
  BY DEF D!VlmDecodeAssumption, D!Layer
<1>2. \A l \in 0..N : D!Name(l, p) \in V /\ <<"other", l, p>> \in V
  BY DEF D!Vector, D!Name
<1>3. b \in StepResult
  BY <1>1, <1>2 DEF StepResult
<1>4. ASSUME NEW k \in 1..N, NEW r \in StepResult PROVE one(k, r) \in StepResult
  <2>1. r.c \in Caches /\ r.x \in V /\ k - 1 \in D!Layer /\ k - 1 \in 0..N /\ k \in 0..N
    BY <1>1 DEF StepResult
  <2>2. put(k - 1, r) \in Caches
    BY <2>1 DEF Caches
  <2>3. \A y : D!NextHidden(k - 1, p, r.x, y) \in {D!Name(k, p), <<"other", k, p>>}
    <3>1. k - 1 + 1 = k
      OBVIOUS
    <3> QED
      BY <3>1 DEF D!NextHidden
  <2> HIDE DEF put
  <2> QED
    BY <1>2, <2>1, <2>2, <2>3 DEF StepResult
<1>5. h \in [1..N -> [StepResult -> StepResult]]
  <2> HIDE DEF one
  <2> QED
    BY <1>4
<1>6. PICK g \in [0..N -> StepResult] : g[0] = b /\ \A k \in 1..N : g[k] = h[k][g[k - 1]]
  <2> HIDE DEF h, b
  <2> DEFINE T == StepResult
  <2>1. N \in Nat /\ b \in T /\ h \in [1..N -> [T -> T]]
    BY <1>1, <1>3, <1>5
  <2> HIDE DEF T, N
  <2>2. \E g \in [0..N -> T] : g[0] = b /\ \A k \in 1..N : g[k] = h[k][g[k - 1]]
    BY <2>1, Recursion, SMTT(60)
  <2> QED
    BY <2>2 DEF T, N
<1>7. ASSUME NEW k \in 1..N PROVE g[k] = one(k, g[k - 1]) /\ g[k - 1] \in StepResult
  <2>1. k - 1 \in 0..N
    BY <1>1
  <2>2. g[k - 1] \in StepResult
    BY <1>6, <2>1
  <2> HIDE DEF one
  <2> QED
    BY <1>6, <2>1, <2>2
<1>8. g = Body(g)
  <2> HIDE DEF one, b
  <2>1. \A l \in 0..N : g[l] = IF l = 0 THEN b ELSE one(l, g[l - 1])
    BY <1>1, <1>6, <1>7
  <2> QED
    BY <1>6, <2>1
<1>9. ASSUME NEW f, f = Body(f) PROVE f[N] = g[N]
  <2> DEFINE S == {l \in 0..N : f[l] = g[l]}
  <2>1. 0 \in S
    <3>1. f[0] = b
      BY <1>1, <1>9
    <3> QED
      BY <1>1, <1>6, <3>1
  <2>2. ASSUME NEW l \in 0..(N - 1), l \in S PROVE l + 1 \in S
    <3>1. l + 1 \in 0..N /\ l + 1 # 0 /\ (l + 1) - 1 = l /\ l + 1 \in 1..N
      BY <1>1
    <3> HIDE DEF one, b
    <3>2. f[l + 1] = one(l + 1, f[l])
      BY <1>9, <3>1
    <3>3. g[l + 1] = one(l + 1, g[l])
      BY <1>7, <3>1
    <3> QED
      BY <2>2, <3>1, <3>2, <3>3
  <2> HIDE DEF S
  <2>3. 0..N \subseteq S
    BY <1>1, <2>1, <2>2, Climb
  <2> QED
    BY <1>1, <2>3 DEF S
<1>10. D!Forward(c, p, item, span) = g[N]
  <2> DEFINE F == CHOOSE Run : Run = Body(Run)
  <2>1. D!Forward(c, p, item, span) = F[N]
    BY DEF D!Forward
  <2> HIDE DEF Body
  <2>2. F = Body(F)
    BY <1>8
  <2> HIDE DEF F
  <2> QED
    BY <1>9, <2>1, <2>2 DEF Body
<1> DEFINE x == [l \in 0..N |-> g[l].x]
<1>11. x \in [0..N -> V]
  BY <1>6 DEF StepResult
<1>12. \A k \in 0..N :
         g[k].c = [l \in D!Layer |-> IF l < k THEN [c[l] EXCEPT ![p] = x[l]] ELSE c[l]]
  <2> DEFINE is(k) == [l \in D!Layer |-> IF l < k THEN [c[l] EXCEPT ![p] = x[l]] ELSE c[l]]
             S == {k \in 0..N : g[k].c = is(k)}
  <2>1. 0 \in S
    <3>1. g[0].c = c
      BY <1>6
    <3>2. \A l \in D!Layer : ~ (l < 0)
      BY <1>1
    <3>3. c = is(0)
      BY <3>2 DEF Caches
    <3>4. 0 \in 0..N
      BY <1>1
    <3> HIDE DEF is, x
    <3> QED
      BY <3>1, <3>3, <3>4
  <2>2. ASSUME NEW k \in 0..(N - 1), k \in S PROVE k + 1 \in S
    <3>1. k + 1 \in 1..N /\ (k + 1) - 1 = k /\ k \in D!Layer /\ k \in 0..N
      BY <1>1
    <3>2. g[k + 1] = core(k, g[k])
      <4> HIDE DEF core
      <4> QED
        BY <1>7, <3>1
    <3>3. g[k + 1].c = [g[k].c EXCEPT ![k][p] = g[k].x]
      BY <3>2
    <3>4. g[k].c = is(k) /\ g[k].x = x[k] /\ is(k)[k] = c[k]
      BY <2>2, <3>1
    <3>5. g[k + 1].c = [is(k) EXCEPT ![k][p] = x[k]]
      BY <3>3, <3>4
    <3> HIDE DEF x
    <3>6. ASSUME NEW l \in D!Layer
          PROVE  [is(k) EXCEPT ![k][p] = x[k]][l] = is(k + 1)[l]
      <4>1. k \in Int /\ l \in Int
        BY <1>1
      <4>2. DOMAIN is(k) = D!Layer
        OBVIOUS
      <4>3. [is(k) EXCEPT ![k][p] = x[k]][l] =
              IF l = k THEN [is(k)[k] EXCEPT ![p] = x[k]] ELSE is(k)[l]
        <5> HIDE DEF is
        <5> QED
          BY <3>1, <4>2
      <4>4. is(k)[l] = IF l < k THEN [c[l] EXCEPT ![p] = x[l]] ELSE c[l]
        OBVIOUS
      <4>5. is(k + 1)[l] = IF l < k + 1 THEN [c[l] EXCEPT ![p] = x[l]] ELSE c[l]
        OBVIOUS
      <4> HIDE DEF is
      <4>6. CASE l = k
        BY <3>4, <4>1, <4>3, <4>5, <4>6
      <4>7. CASE l # k
        <5>1. l < k <=> l < k + 1
          BY <4>1, <4>7
        <5> QED
          BY <4>3, <4>4, <4>5, <4>7, <5>1
      <4> QED
        BY <4>6, <4>7
    <3>7. [is(k) EXCEPT ![k][p] = x[k]] = is(k + 1)
      <4> DEFINE f == [is(k) EXCEPT ![k][p] = x[k]]
      <4>1. f = [l \in D!Layer |-> f[l]] /\ is(k + 1) = [l \in D!Layer |-> is(k + 1)[l]]
        OBVIOUS
      <4>2. \A l \in D!Layer : f[l] = is(k + 1)[l]
        BY <3>6
      <4>3. f = is(k + 1)
        <5> HIDE DEF f, is
        <5> QED
          BY <4>1, <4>2
      <4> QED
        BY <4>3
    <3> QED
      BY <3>1, <3>5, <3>7
  <2> HIDE DEF S
  <2>3. 0..N \subseteq S
    BY <1>1, <2>1, <2>2, Climb
  <2> QED
    BY <2>3 DEF S
<1>13. g[N] = [x |-> x[N], c |-> [l \in D!Layer |-> [c[l] EXCEPT ![p] = x[l]]]]
  <2>1. \A l \in D!Layer : l < N
    BY <1>1
  <2>2. N \in 0..N
    BY <1>1
  <2>3. g[N] \in StepResult /\ g[N].x = x[N]
    BY <1>6, <2>2
  <2>4. g[N].c = [l \in D!Layer |-> [c[l] EXCEPT ![p] = x[l]]]
    <3> HIDE DEF x
    <3> QED
      BY <1>12, <2>1, <2>2
  <2> HIDE DEF x
  <2> QED
    BY <2>3, <2>4 DEF StepResult
<1>14. x[0] = IF item = D!Want(p) THEN D!Name(0, p) ELSE <<"other", 0, p>>
  BY <1>1, <1>6
<1>15. ASSUME NEW l \in D!Layer
       PROVE  x[l + 1] = D!NextHidden(l, p, x[l],
                             [t \in 0..(span - 1) |-> [c[l] EXCEPT ![p] = x[l]][t]])
  <2>1. l + 1 \in 1..N /\ (l + 1) - 1 = l /\ l \in 0..N /\ l + 1 \in 0..N
    BY <1>1
  <2>2. g[l].c[l] = c[l] /\ g[l].x = x[l] /\ g[l].c \in Caches
    <3>1. g[l].x = x[l] /\ g[l].c \in Caches
      BY <1>6, <2>1 DEF StepResult
    <3> HIDE DEF x
    <3>2. g[l].c = [m \in D!Layer |-> IF m < l THEN [c[m] EXCEPT ![p] = x[m]] ELSE c[m]]
      BY <1>12, <2>1
    <3>3. ~ (l < l)
      BY <1>1
    <3> QED
      BY <3>1, <3>2, <3>3
  <2>3. put(l, g[l])[l] = [c[l] EXCEPT ![p] = x[l]]
    BY <2>1, <2>2 DEF Caches
  <2>4. x[l + 1] = D!NextHidden(l, p, g[l].x, [t \in 0..(span - 1) |-> put(l, g[l])[l][t]])
    <3>1. g[l + 1] = core(l, g[l]) /\ x[l + 1] = g[l + 1].x
      <4> HIDE DEF core
      <4> QED
        BY <1>7, <2>1
    <3> HIDE DEF put, x
    <3> QED
      BY <2>1, <3>1
  <2> HIDE DEF x, put
  <2> QED
    BY <2>2, <2>3, <2>4
<1> HIDE DEF x
<1>16. Layered(D!Forward(c, p, item, span), c, p, item, span, x)
  BY <1>10, <1>11, <1>13, <1>14, <1>15 DEF Layered
<1> QED
  BY <1>16

(* A step keeps the cache a cache and touches its own position only.       *)
LEMMA ForwardWrites ==
  ASSUME D!VlmDecodeAssumption, NEW c \in Caches, NEW p \in D!Position, NEW item, NEW span,
         NEW r, r = D!Forward(c, p, item, span)
  PROVE  /\ r.c \in Caches /\ r.x \in D!Vector
         /\ \A l \in D!Layer, t \in D!Position \ {p} : r.c[l][t] = c[l][t]
<1>1. PICK x : Layered(D!Forward(c, p, item, span), c, p, item, span, x)
  BY ForwardIs
<1>2. NumLayers \in 0..NumLayers /\ D!Layer \subseteq 0..NumLayers
  BY DEF D!VlmDecodeAssumption, D!Layer
<1>3. /\ x \in [0..NumLayers -> D!Vector]
      /\ r = [x |-> x[NumLayers], c |-> [l \in D!Layer |-> [c[l] EXCEPT ![p] = x[l]]]]
  BY <1>1 DEF Layered
<1>4. r.x = x[NumLayers] /\ r.c = [l \in D!Layer |-> [c[l] EXCEPT ![p] = x[l]]]
  BY <1>3
<1> QED
  BY <1>2, <1>3, <1>4 DEF Caches

(* Where the item is right, and below layer n what the step reads, it     *)
(* writes what the model makes of its position, up to layer n.             *)
LEMMA ForwardRight ==
  ASSUME D!VlmDecodeAssumption, NEW c \in Caches, NEW p \in D!Position, NEW span,
         NEW r, r = D!Forward(c, p, D!Want(p), span), NEW n \in 0..NumLayers,
         0..(span - 1) = D!Seen(p), D!Seen(p) \subseteq D!Position,
         \A m \in D!Layer : m < n => \A t \in D!Seen(p) \ {p} : c[m][t] = D!Name(m, t)
  PROVE  /\ \A l \in D!Layer : l <= n => r.c[l][p] = D!Name(l, p)
         /\ n = NumLayers => r.x = D!Name(NumLayers, p)
<1> DEFINE item == D!Want(p)
<1> HIDE DEF item
<1>0. PICK x : Layered(D!Forward(c, p, item, span), c, p, item, span, x)
  BY ForwardIs
<1>1. /\ x \in [0..NumLayers -> D!Vector]
      /\ r = [x |-> x[NumLayers], c |-> [l \in D!Layer |-> [c[l] EXCEPT ![p] = x[l]]]]
      /\ x[0] = D!Name(0, p)
      /\ \A l \in D!Layer :
           x[l + 1] = D!NextHidden(l, p, x[l],
                        [t \in 0..(span - 1) |-> [c[l] EXCEPT ![p] = x[l]][t]])
  BY <1>0 DEF Layered, item
<1>2. NumLayers \in Nat /\ D!Layer = 0..(NumLayers - 1) /\ n \in Nat
  BY DEF D!VlmDecodeAssumption, D!Layer
<1> DEFINE S == {l \in 0..n : x[l] = D!Name(l, p)}
<1>3. 0 \in S
  BY <1>1, <1>2
<1>4. ASSUME NEW l \in 0..(n - 1), l \in S PROVE l + 1 \in S
  <2>1. l \in D!Layer /\ l < n /\ l + 1 \in 0..n
    BY <1>2
  <2>2. c[l] \in [D!Position -> D!Vector] /\ x[l] = D!Name(l, p)
    BY <1>4, <2>1 DEF Caches
  <2> DEFINE reads == [t \in 0..(span - 1) |-> [c[l] EXCEPT ![p] = x[l]][t]]
  <2>3. \A t \in D!Seen(p) : [c[l] EXCEPT ![p] = x[l]][t] = D!Name(l, t)
    BY <2>1, <2>2
  <2>4. reads = [t \in D!Seen(p) |-> D!Name(l, t)]
    BY <2>3
  <2>5. x[l + 1] = D!NextHidden(l, p, x[l], reads)
    BY <1>1, <2>1
  <2> HIDE DEF reads
  <2>6. x[l + 1] = D!Name(l + 1, p)
    BY <2>2, <2>4, <2>5 DEF D!NextHidden
  <2> QED
    BY <2>1, <2>6
<1>5. \A l \in 0..n : x[l] = D!Name(l, p)
  <2> HIDE DEF S
  <2>1. 0..n \subseteq S
    BY <1>2, <1>3, <1>4, Climb
  <2> QED
    BY <2>1 DEF S
<1>6. r.x = x[NumLayers] /\ r.c = [l \in D!Layer |-> [c[l] EXCEPT ![p] = x[l]]]
  BY <1>1
<1>7. ASSUME NEW l \in D!Layer, l <= n PROVE r.c[l][p] = D!Name(l, p)
  <2>1. c[l] \in [D!Position -> D!Vector] /\ l \in 0..n
    BY <1>2, <1>7 DEF Caches
  <2> QED
    BY <1>5, <1>6, <2>1
<1>8. n = NumLayers => r.x = D!Name(NumLayers, p)
  BY <1>2, <1>5, <1>6
<1> QED
  BY <1>7, <1>8

(* The runner's step, with or without a sample.                            *)
LEMMA StepWrites ==
  ASSUME D!VlmDecodeAssumption, kept \in Caches, NEW p \in D!Position, NEW item,
         D!Step(p, item)
  PROVE  /\ length' = IF p = length THEN length + 1 ELSE length
         /\ kept' \in Caches
         /\ \A l \in D!Layer, t \in D!Position \ {p} : kept'[l][t] = kept[l][t]
<1> DEFINE n == IF p = length THEN length + 1 ELSE length
           r == D!Forward(kept, p, item, n)
<1>1. length' = n /\ kept' = r.c
  BY DEF D!Step
<1> HIDE DEF n
<1>2. /\ r.c \in Caches
      /\ \A l \in D!Layer, t \in D!Position \ {p} : r.c[l][t] = kept[l][t]
  BY ForwardWrites
<1> HIDE DEF r
<1> QED
  BY <1>1, <1>2 DEF n

(* A step that samples is a step, and samples from what it returns.         *)
LEMMA SampleIsStep ==
  ASSUME D!VlmDecodeAssumption, kept \in Caches, NEW p \in D!Position, NEW item,
         D!StepAndSample(p, item)
  PROVE  /\ D!Step(p, item) /\ next' \in D!Sample
         /\ next'.from = D!Forward(kept, p, item, IF p = length THEN length + 1 ELSE length).x
<1> DEFINE n == IF p = length THEN length + 1 ELSE length
           r == D!Forward(kept, p, item, n)
<1>1. length' = n /\ kept' = r.c /\ \E t \in Tokens : next' = [tok |-> t, from |-> r.x]
  BY DEF D!StepAndSample
<1>2. D!Step(p, item)
  BY <1>1 DEF D!Step
<1>3. r.x \in D!Vector
  <2> HIDE DEF n
  <2> QED
    BY ForwardWrites
<1> HIDE DEF r
<1>4. next' \in D!Sample /\ next'.from = r.x
  BY <1>1, <1>3 DEF D!Sample
<1> QED
  BY <1>2, <1>4 DEF r

(* The two lemmas on Forward, for the step and for its sample.              *)
LEMMA StepRight ==
  ASSUME D!VlmDecodeAssumption, kept \in Caches, NEW p \in D!Position, D!Step(p, D!Want(p)),
         NEW n \in 0..NumLayers,
         0..((IF p = length THEN length + 1 ELSE length) - 1) = D!Seen(p),
         D!Seen(p) \subseteq D!Position,
         \A m \in D!Layer : m < n => \A t \in D!Seen(p) \ {p} : kept[m][t] = D!Name(m, t)
  PROVE  \A l \in D!Layer : l <= n => kept'[l][p] = D!Name(l, p)
<1> DEFINE s == IF p = length THEN length + 1 ELSE length
           r == D!Forward(kept, p, D!Want(p), s)
<1>1. kept' = r.c
  BY DEF D!Step
<1> HIDE DEF s
<1>2. 0..(s - 1) = D!Seen(p)
  BY DEF s
<1>3. \A l \in D!Layer : l <= n => r.c[l][p] = D!Name(l, p)
  BY <1>2, ForwardRight
<1> HIDE DEF r
<1> QED
  BY <1>1, <1>3

LEMMA SampleRight ==
  ASSUME D!VlmDecodeAssumption, kept \in Caches, NEW p \in D!Position,
         D!StepAndSample(p, D!Want(p)),
         0..((IF p = length THEN length + 1 ELSE length) - 1) = D!Seen(p),
         D!Seen(p) \subseteq D!Position,
         \A m \in D!Layer, t \in D!Seen(p) \ {p} : kept[m][t] = D!Name(m, t)
  PROVE  next'.from = D!Name(NumLayers, p)
<1> DEFINE s == IF p = length THEN length + 1 ELSE length
           item == D!Want(p)
           r == D!Forward(kept, p, D!Want(p), s)
<1>1. next'.from = r.x
  <2> HIDE DEF item
  <2>1. D!StepAndSample(p, item)
    BY DEF item
  <2>2. next'.from = D!Forward(kept, p, item, IF p = length THEN length + 1 ELSE length).x
    BY <2>1, SampleIsStep
  <2> QED
    BY <2>2 DEF item
<1> HIDE DEF s
<1>2. 0..(s - 1) = D!Seen(p)
  BY DEF s
<1> DEFINE n == NumLayers
<1>3. n \in 0..NumLayers
  BY DEF D!VlmDecodeAssumption
<1>4. \A m \in D!Layer : m < n => \A t \in D!Seen(p) \ {p} : kept[m][t] = D!Name(m, t)
  OBVIOUS
<1> HIDE DEF n
<1>5. n = NumLayers => r.x = D!Name(NumLayers, p)
  BY <1>2, <1>3, <1>4, ForwardRight
<1> HIDE DEF r
<1> QED
  BY <1>1, <1>5 DEF n

(* A batch of features is a step for each of them.                         *)
Batched(C, p, n, first) ==
  /\ C \in [0..n -> Caches] /\ C[0] = kept
  /\ \A k \in 1..n : C[k] = D!Forward(C[k - 1], p + k - 1, <<"feature", first + k - 1>>, p + k).c
  /\ length' = p + n /\ kept' = C[n]

(* The recursion of the batch has a solution, and it is the only one.       *)
LEMMA FusedIs ==
  ASSUME D!VlmDecodeAssumption, kept \in Caches, NEW p \in Nat, NEW n \in Nat, NEW first \in Nat,
         \A k \in 1..n : p + k - 1 \in D!Position, D!PrefillFused(p, n, first)
  PROVE  \E C : Batched(C, p, n, first)
<1> DEFINE T == Caches
           b == kept
           one(k, c) == D!Forward(c, p + k - 1, <<"feature", first + k - 1>>, p + k).c
           h == [k \in 1..n |-> [c \in T |-> one(k, c)]]
           Body(C) == [k \in 0..n |-> IF k = 0 THEN b ELSE one(k, C[k - 1])]
<1>1. ASSUME NEW k \in 1..n, NEW c \in T PROVE one(k, c) \in T
  <2> DEFINE q == p + k - 1
             item == <<"feature", first + k - 1>>
             span == p + k
             r == D!Forward(c, q, item, span)
  <2>1. q \in D!Position
    OBVIOUS
  <2>2. r = r
    OBVIOUS
  <2> HIDE DEF q, item, span
  <2>3. r.c \in Caches
    BY <2>1, ForwardWrites
  <2> QED
    BY <2>3 DEF q, item, span
<1> HIDE DEF one
<1>2. h \in [1..n -> [T -> T]] /\ b \in T
  BY <1>1
<1>3. PICK g \in [0..n -> T] : g[0] = b /\ \A k \in 1..n : g[k] = h[k][g[k - 1]]
  <2> DEFINE N == n
  <2>1. N \in Nat /\ b \in T /\ h \in [1..N -> [T -> T]]
    BY <1>2
  <2> HIDE DEF h, b, T, N
  <2>2. \E g \in [0..N -> T] : g[0] = b /\ \A k \in 1..N : g[k] = h[k][g[k - 1]]
    BY <2>1, Recursion, SMTT(60)
  <2> QED
    BY <2>2 DEF N
<1>4. ASSUME NEW k \in 1..n PROVE g[k] = one(k, g[k - 1])
  <2>1. k - 1 \in 0..n
    OBVIOUS
  <2>2. g[k - 1] \in T
    BY <1>3, <2>1
  <2> QED
    BY <1>3, <2>2
<1>5. g = Body(g)
  <2>1. \A l \in 0..n : g[l] = IF l = 0 THEN b ELSE one(l, g[l - 1])
    BY <1>3, <1>4
  <2> QED
    BY <1>3, <2>1
<1>6. ASSUME NEW f, f = Body(f) PROVE f[n] = g[n]
  <2> DEFINE S == {l \in 0..n : f[l] = g[l]}
  <2>1. 0 \in S
    <3>1. f[0] = b
      BY <1>6
    <3> QED
      BY <1>3, <3>1
  <2>2. ASSUME NEW l \in 0..(n - 1), l \in S PROVE l + 1 \in S
    <3>1. l + 1 \in 0..n /\ l + 1 # 0 /\ (l + 1) - 1 = l /\ l + 1 \in 1..n
      OBVIOUS
    <3>2. f[l + 1] = one(l + 1, f[l])
      BY <1>6, <3>1
    <3>3. g[l + 1] = one(l + 1, g[l])
      BY <1>4, <3>1
    <3> QED
      BY <2>2, <3>1, <3>2, <3>3
  <2> HIDE DEF S
  <2>3. 0..n \subseteq S
    BY <2>1, <2>2, Climb
  <2> QED
    BY <2>3 DEF S
<1>7. length' = p + n /\ kept' = g[n]
  <2> DEFINE F == CHOOSE C : C = Body(C)
  <2>1. length' = p + n /\ kept' = F[n]
    BY DEF D!PrefillFused, one
  <2> HIDE DEF Body
  <2>2. F = Body(F)
    BY <1>5
  <2> HIDE DEF F
  <2> QED
    BY <1>6, <2>1, <2>2 DEF Body
<1>8. Batched(g, p, n, first)
  BY <1>3, <1>4, <1>7 DEF Batched, one
<1> QED
  BY <1>8

(* It appends n positions to what is a cache and stays one.                 *)
LEMMA FusedWrites ==
  ASSUME D!VlmDecodeAssumption, kept \in Caches, NEW p \in Nat, NEW n \in Nat, NEW first \in Nat,
         \A k \in 1..n : p + k - 1 \in D!Position, D!PrefillFused(p, n, first)
  PROVE  length' = p + n /\ kept' \in Caches
<1>1. PICK C : Batched(C, p, n, first)
  BY FusedIs
<1>2. n \in 0..n
  OBVIOUS
<1> QED
  BY <1>1, <1>2 DEF Batched

(* Every layer holds what the model makes of the first n positions.        *)
Right(c, n) == \A l \in D!Layer : \A q \in 0..(n - 1) : c[l][q] = D!Name(l, q)

(* What a step at the end of a right cache leaves, and samples.            *)
LEMMA RightGrows ==
  ASSUME D!VlmDecodeAssumption, D!MaxSeq \in Nat, NEW c \in Caches, NEW p \in D!Position,
         D!Seen(p) = 0..p, Right(c, p), NEW r, r = D!Forward(c, p, D!Want(p), p + 1)
  PROVE  Right(r.c, p + 1) /\ r.x = D!Name(NumLayers, p) /\ r.c \in Caches
<1> DEFINE n == NumLayers
           span == p + 1
<1>1. n \in 0..NumLayers /\ p \in Nat /\ \A l \in D!Layer : l <= n
  BY DEF D!VlmDecodeAssumption, D!Position, D!Layer
<1>2. 0..(span - 1) = D!Seen(p) /\ D!Seen(p) \subseteq D!Position
  BY <1>1 DEF D!Position
<1>3. \A m \in D!Layer : m < n => \A t \in D!Seen(p) \ {p} : c[m][t] = D!Name(m, t)
  <2>1. \A t \in D!Seen(p) \ {p} : t \in 0..(p - 1)
    BY <1>1
  <2> QED
    BY <2>1 DEF Right
<1> HIDE DEF n, span
<1>4. r = D!Forward(c, p, D!Want(p), span)
  BY DEF span
<1>5. /\ \A l \in D!Layer : l <= n => r.c[l][p] = D!Name(l, p)
      /\ n = NumLayers => r.x = D!Name(NumLayers, p)
  BY <1>1, <1>2, <1>3, <1>4, ForwardRight
<1> DEFINE item == D!Want(p)
<1>6. r = D!Forward(c, p, item, span)
  BY <1>4
<1> HIDE DEF item
<1>7. /\ r.c \in Caches
      /\ \A l \in D!Layer, t \in D!Position \ {p} : r.c[l][t] = c[l][t]
  BY <1>6, ForwardWrites
<1>8. ASSUME NEW l \in D!Layer, NEW q \in 0..((p + 1) - 1) PROVE r.c[l][q] = D!Name(l, q)
  <2>1. CASE q = p
    BY <1>1, <1>5, <2>1
  <2>2. CASE q # p
    <3>1. q \in 0..(p - 1) /\ q \in D!Position \ {p}
      BY <1>1, <2>2 DEF D!Position
    <3> QED
      BY <1>7, <3>1 DEF Right
  <2> QED
    BY <2>1, <2>2
<1> QED
  BY <1>5, <1>7, <1>8 DEF Right, n

(* Where each item is the one that is wanted, it makes n positions right.   *)
LEMMA FusedRight ==
  ASSUME D!VlmDecodeAssumption, D!MaxSeq \in Nat, kept \in Caches,
         NEW p \in Nat, NEW n \in Nat, NEW first \in Nat,
         D!PrefillFused(p, n, first), Right(kept, p),
         \A k \in 1..n : /\ p + k - 1 \in D!Position
                         /\ D!Want(p + k - 1) = <<"feature", first + k - 1>>
                         /\ D!Seen(p + k - 1) = 0..(p + k - 1)
  PROVE  Right(kept', p + n)
<1>1. PICK C : Batched(C, p, n, first)
  BY FusedIs
<1>2. /\ C \in [0..n -> Caches] /\ C[0] = kept /\ kept' = C[n]
      /\ \A k \in 1..n :
           C[k] = D!Forward(C[k - 1], p + k - 1, <<"feature", first + k - 1>>, p + k).c
  BY <1>1 DEF Batched
<1> DEFINE S == {k \in 0..n : Right(C[k], p + k)}
<1>3. 0 \in S
  <2>1. p + 0 = p
    OBVIOUS
  <2> QED
    BY <1>2, <2>1
<1>4. ASSUME NEW k \in 0..(n - 1), k \in S PROVE k + 1 \in S
  <2> DEFINE q == p + k
             c == C[k]
             r == D!Forward(c, q, D!Want(q), q + 1)
  <2>1. k + 1 \in 1..n /\ k + 1 \in 0..n /\ k \in 0..n /\ (k + 1) - 1 = k
        /\ p + (k + 1) - 1 = q /\ p + (k + 1) = q + 1 /\ first + (k + 1) - 1 = first + k
    OBVIOUS
  <2>2. c \in Caches /\ Right(c, q)
    BY <1>2, <1>4, <2>1
  <2>3. q \in D!Position /\ D!Want(q) = <<"feature", first + k>> /\ D!Seen(q) = 0..q
    <3>1. /\ p + (k + 1) - 1 \in D!Position
          /\ D!Want(p + (k + 1) - 1) = <<"feature", first + (k + 1) - 1>>
          /\ D!Seen(p + (k + 1) - 1) = 0..(p + (k + 1) - 1)
      BY <2>1
    <3> QED
      BY <2>1, <3>1
  <2>4. C[k + 1] = r.c
    <3>1. C[k + 1] = D!Forward(C[(k + 1) - 1], p + (k + 1) - 1,
                               <<"feature", first + (k + 1) - 1>>, p + (k + 1)).c
      BY <1>2, <2>1
    <3>2. C[k + 1] = D!Forward(C[k], q, <<"feature", first + k>>, q + 1).c
      BY <2>1, <3>1
    <3> QED
      BY <2>3, <3>2
  <2>5. Right(r.c, q + 1)
    <3>1. r = r
      OBVIOUS
    <3> HIDE DEF q, c
    <3> QED
      BY <2>2, <2>3, RightGrows
  <2> HIDE DEF r
  <2> QED
    BY <2>1, <2>4, <2>5
<1>5. n \in S
  <2> HIDE DEF S
  <2>1. 0..n \subseteq S
    BY <1>3, <1>4, Climb
  <2> QED
    BY <2>1
<1> QED
  BY <1>2, <1>5

-----------------------------------------------------------------------------
(* Placeholders                                                            *)

(* How many placeholders stand before position k of the prompt.            *)
Before(k) == {j \in D!Images : j < k}
Below(k) == Cardinality(Before(k))

(* The placeholders are positions of the prompt.                            *)
LEMMA ImagesFinite ==
  ASSUME prompt \in Seq({"txt", "img"})
  PROVE  /\ IsFiniteSet(D!Images) /\ D!Images \subseteq 0..(Len(prompt) - 1)
         /\ Cardinality(D!Images) \in Nat /\ Cardinality(D!Images) <= Len(prompt)
         /\ \A k : IsFiniteSet(Before(k)) /\ Below(k) \in Nat /\ Below(k) <= Cardinality(D!Images)
<1>1. D!Images \subseteq 0..(Len(prompt) - 1) /\ 0 \in Int /\ Len(prompt) - 1 \in Int
  BY DEF D!Images
<1>2. IsFiniteSet(0..(Len(prompt) - 1))
  BY <1>1, FS_Interval
<1>3. IsFiniteSet(D!Images)
  BY <1>1, <1>2, FS_Subset
<1>4. \A k : Before(k) \subseteq D!Images
  BY DEF Before
<1>5. Cardinality(D!Images) <= Len(prompt)
  <2> DEFINE n == Len(prompt)
             I == 0..(n - 1)
  <2>1. n \in Nat
    OBVIOUS
  <2>2. Cardinality(I) = n
    <3> HIDE DEF n
    <3>1. Cardinality(0..(n - 1)) = IF 0 > n - 1 THEN 0 ELSE (n - 1) - 0 + 1
      BY <2>1, FS_Interval
    <3> QED
      BY <2>1, <3>1
  <2>3. Cardinality(D!Images) <= Cardinality(I)
    BY <1>1, <1>2, FS_Subset
  <2> HIDE DEF I
  <2> QED
    BY <2>2, <2>3
<1> QED
  BY <1>1, <1>3, <1>4, <1>5, FS_Subset, FS_CardinalityType DEF Below

(* What the count is before and behind the image, and how it grows.         *)
LEMMA BelowIs ==
  ASSUME prompt \in Seq({"txt", "img"}), NEW k \in Nat
  PROVE  /\ (\A j \in D!Images : k <= j) => Below(k) = 0
         /\ (\A j \in D!Images : j < k) => Below(k) = Cardinality(D!Images)
         /\ Below(k + 1) = IF k \in D!Images THEN Below(k) + 1 ELSE Below(k)
<1>1. \A j \in D!Images : j \in Nat
  BY ImagesFinite
<1>2. ASSUME \A j \in D!Images : k <= j PROVE Below(k) = 0
  <2>0. \A j \in D!Images : ~ (j < k)
    BY <1>1, <1>2
  <2>1. Before(k) = {}
    BY <2>0 DEF Before
  <2> QED
    BY <2>1, FS_EmptySet DEF Below
<1>3. ASSUME \A j \in D!Images : j < k PROVE Below(k) = Cardinality(D!Images)
  <2>1. Before(k) = D!Images
    BY <1>1, <1>3 DEF Before
  <2> QED
    BY <2>1 DEF Below
<1>4. CASE k \in D!Images
  <2>0. /\ \A j \in D!Images : j < k + 1 <=> (j < k \/ j = k)
        /\ ~ (k < k)
    BY <1>1
  <2>1. Before(k + 1) = Before(k) \cup {k} /\ k \notin Before(k)
    BY <1>4, <2>0 DEF Before
  <2>2. Cardinality(Before(k) \cup {k}) = Cardinality(Before(k)) + 1
    BY <2>1, ImagesFinite, FS_AddElement
  <2> QED
    BY <1>2, <1>3, <1>4, <2>1, <2>2 DEF Below
<1>5. CASE k \notin D!Images
  <2>0. \A j \in D!Images : j < k + 1 <=> j < k
    BY <1>1, <1>5
  <2>1. Before(k + 1) = Before(k)
    BY <2>0 DEF Before
  <2> QED
    BY <1>2, <1>3, <1>5, <2>1 DEF Below
<1> QED
  BY <1>4, <1>5

(* A run of placeholders counts by one from its first.                     *)
LEMMA BelowRuns ==
  ASSUME prompt \in Seq({"txt", "img"}), NEW k \in Nat, NEW n \in Nat,
         \A j \in k..(k + n - 1) : j \in D!Images
  PROVE  \A m \in 0..n : Below(k + m) = Below(k) + m
<1> DEFINE S == {m \in 0..n : Below(k + m) = Below(k) + m}
<1>1. Below(k) \in Nat
  BY ImagesFinite
<1>2. 0 \in S
  <2>1. k + 0 = k /\ Below(k) + 0 = Below(k)
    BY <1>1
  <2> QED
    BY <2>1
<1>3. ASSUME NEW m \in 0..(n - 1), m \in S PROVE m + 1 \in S
  <2>1. k + m \in k..(k + n - 1) /\ k + m \in Nat /\ k + (m + 1) = (k + m) + 1
        /\ Below(k) + (m + 1) = (Below(k) + m) + 1 /\ m + 1 \in 0..n
    BY <1>1
  <2>2. Below((k + m) + 1) = Below(k + m) + 1
    BY <2>1, BelowIs
  <2>3. Below(k + m) = Below(k) + m
    BY <1>3
  <2> QED
    BY <2>1, <2>2, <2>3
<1> HIDE DEF S
<1>4. 0..n \subseteq S
  BY <1>2, <1>3, Climb
<1> QED
  BY <1>4 DEF S

(* The run that starts at a placeholder.                                   *)
LEMMA RunIs ==
  ASSUME prompt \in Seq({"txt", "img"}), spot \in D!Images
  PROVE  /\ D!RunLength \in 1..(Len(prompt) - spot)
         /\ \A k \in spot..(spot + D!RunLength - 1) : k \in D!Images
<1>1. D!Images \subseteq 0..(Len(prompt) - 1) /\ Len(prompt) \in Nat
  BY ImagesFinite
<1>2. spot \in Nat /\ spot < Len(prompt)
  BY <1>1
<1> DEFINE T == {n \in 1..(Len(prompt) - spot) : spot + n \notin D!Images}
<1>3. Len(prompt) - spot \in T
  <2>1. spot + (Len(prompt) - spot) = Len(prompt) /\ Len(prompt) \notin D!Images
    BY <1>1, <1>2
  <2> QED
    BY <1>1, <1>2, <2>1
<1>4. T \subseteq Nat /\ T # {}
  BY <1>3
<1>5. PICK n \in T : \A m \in T : n <= m
  <2> HIDE DEF T
  <2> QED
    BY <1>4, LeastNatural
<1>6. ASSUME NEW k \in spot..(spot + n - 1) PROVE k \in D!Images
  <2>1. CASE k = spot
    BY <2>1
  <2>2. CASE k # spot
    <3>1. k - spot \in 1..(Len(prompt) - spot) /\ k - spot < n /\ spot + (k - spot) = k
          /\ ~ (n <= k - spot)
      BY <1>1, <1>2, <2>2
    <3>2. k - spot \notin T
      BY <1>5, <3>1
    <3> QED
      BY <3>1, <3>2
  <2> QED
    BY <2>1, <2>2
<1> DEFINE Is(m) == /\ \A k \in spot..(spot + m - 1) : k \in D!Images
                    /\ spot + m \notin D!Images
           B == 1..(Len(prompt) - spot)
<1>7. n \in B /\ Is(n)
  BY <1>5, <1>6
<1>8. D!RunLength = CHOOSE m \in B : Is(m)
  BY DEF D!RunLength
<1> HIDE DEF Is, B
<1>9. D!RunLength \in B /\ Is(D!RunLength)
  BY <1>7, <1>8
<1> QED
  BY <1>9 DEF Is, B

(* The first placeholder and the last.                                     *)
FirstImage == D!Min(D!Images)
LastImage == D!Max(D!Images)

(* They are placeholders, and the others stand between them.                *)
LEMMA ImageBounds ==
  ASSUME prompt \in Seq({"txt", "img"}), D!Images # {}
  PROVE  /\ FirstImage \in D!Images /\ LastImage \in D!Images
         /\ FirstImage \in Nat /\ LastImage \in Nat /\ FirstImage <= LastImage
            /\ LastImage < Len(prompt)
         /\ \A k \in D!Images : k \in Nat /\ FirstImage <= k /\ k <= LastImage
<1>1. D!Images \subseteq 0..(Len(prompt) - 1) /\ Len(prompt) \in Nat
  BY ImagesFinite
<1>2. D!Images \subseteq Nat /\ \A k \in D!Images : k <= Len(prompt)
  BY <1>1
<1>3. FirstImage \in D!Images /\ \A k \in D!Images : FirstImage <= k
  BY <1>2, MinIs DEF FirstImage
<1>4. LastImage \in D!Images /\ \A k \in D!Images : k <= LastImage
  <2>1. \E b \in Nat : \A k \in D!Images : k <= b
    BY <1>1, <1>2
  <2> QED
    BY <1>2, <2>1, MaxIs DEF LastImage
<1> QED
  BY <1>1, <1>2, <1>3, <1>4

-----------------------------------------------------------------------------
(* Types and counts                                                        *)

(* Where each phase stands: what has been run, how many features it took,  *)
(* and what the page table covers.                                         *)
FeaturesFirst ==
  phase = "prefix" => Prefix /\ spot = 0 /\ cursor = image_idx /\ image_idx <= feats
  /\ length = cursor
PlainScan ==
  phase = "plain" =>
    /\ ~ D!GemmaBidir /\ cursor = D!Shift + spot /\ length = cursor
    /\ image_idx = IF Prefix THEN feats ELSE Below(spot)
TextBefore ==
  phase = "before" =>
    /\ D!GemmaBidir /\ cursor = spot /\ length = cursor /\ image_idx = 0
    /\ \A k \in D!Images : spot <= k
ImageReserved ==
  phase = "reserve" =>
    D!GemmaBidir /\ D!Images # {} /\ spot = FirstImage /\ cursor = spot /\ length = cursor
ImageScan ==
  phase \in {"fill", "replay"} =>
    D!GemmaBidir /\ D!Images # {} /\ FirstImage <= spot /\ spot <= LastImage + 1
    /\ length = LastImage + 1
TextAfter ==
  phase = "after" =>
    /\ D!GemmaBidir /\ D!Images # {} /\ cursor = spot /\ length = cursor /\ LastImage < spot
    /\ image_idx = Cardinality(D!Images)
PromptRun ==
  phase \in {"check", "last", "generate", "done"} =>
    /\ cursor = D!Prompted
    /\ image_idx = IF Prefix THEN feats ELSE Cardinality(D!Images)
    /\ phase # "check" => image_idx = feats
    /\ phase \in {"check", "last"} => length = cursor
    /\ phase = "last" => Runner = "llama"
Generation ==
  /\ phase = "generate" => length = D!Prompted + Len(generated)
  /\ phase \notin {"generate", "done"} => generated = << >>

Counts ==
  /\ FeaturesFirst /\ PlainScan /\ TextBefore /\ ImageReserved /\ ImageScan /\ TextAfter
  /\ PromptRun /\ Generation

(* The call does not change.                                               *)
LEMMA CallStays ==
  ASSUME UNCHANGED <<prompt, feats>>
  PROVE  /\ D!Images' = D!Images /\ D!Shift' = D!Shift /\ D!Prompted' = D!Prompted
         /\ FirstImage' = FirstImage /\ LastImage' = LastImage
         /\ \A k : spot' = k => Below(spot)' = Below(k)
         /\ \A k : (D!Want(k))' = D!Want(k)
<1>1. D!Images' = D!Images /\ D!Shift' = D!Shift /\ D!Prompted' = D!Prompted
  BY DEF D!Images, D!Tok, D!Shift, D!Prompted
<1>2. FirstImage' = FirstImage /\ LastImage' = LastImage
  BY <1>1 DEF FirstImage, LastImage
<1>3. ASSUME NEW k, spot' = k PROVE Below(spot)' = Below(k)
  BY <1>1, <1>3 DEF Below, Before
<1>4. ASSUME NEW k PROVE (D!Want(k))' = D!Want(k)
  BY <1>1 DEF D!Want, D!Tok
<1> QED
  BY <1>1, <1>2, <1>3, <1>4

(* A position of the prompt, or of a token that is generated, has a spot  *)
(* in the cache.                                                           *)
LEMMA InCache ==
  ASSUME D!VlmDecodeAssumption, prompt \in Prompts, feats \in Features, NEW p \in Nat,
         p < D!Prompted + MaxNew
  PROVE  p \in D!Position
<1>1. D!MaxSeq \in Nat /\ D!Prompted + MaxNew <= D!MaxSeq /\ D!Prompted \in Nat /\ MaxNew \in Nat
  BY DecodeFacts
<1> QED
  BY <1>1 DEF D!Position

(* Types and counts hold at first.                                          *)
LEMMA DecodeInit ==
  ASSUME D!VlmDecodeAssumption, D!Init
  PROVE  D!TypeOK /\ Counts
<1>1. /\ prompt \in Prompts /\ feats \in Features
      /\ phase = IF Prefix THEN "prefix" ELSE IF D!GemmaBidir THEN "before" ELSE "plain"
      /\ spot = 0 /\ cursor = 0 /\ image_idx = 0 /\ length = 0
      /\ kept = [l \in D!Layer |-> [p \in D!Position |-> D!Stale]]
      /\ next = [tok |-> "zero", from |-> D!Stale]
      /\ generated = << >>
  BY DEF D!Init
<1>2. prompt \in Seq({"txt", "img"}) /\ Len(prompt) \in Nat /\ feats \in Nat /\ MaxNew \in Nat
      /\ D!MaxSeq \in Nat /\ D!Shift = (IF Prefix THEN feats ELSE 0)
  BY <1>1, DecodeFacts
<1>3. Below(0) = 0 /\ \A k \in D!Images : 0 <= k
  <2>1. \A k \in D!Images : 0 <= k
    BY <1>2, ImagesFinite
  <2> QED
    BY <1>2, <2>1, BelowIs
<1>4. kept \in [D!Layer -> [D!Position -> D!Vector]] /\ next \in D!Sample
  BY <1>1 DEF D!Vector, D!Sample
<1>5. D!TypeOK
  BY <1>1, <1>2, <1>4 DEF D!TypeOK
<1>6. Counts
  BY <1>1, <1>2, <1>3 DEF Counts, FeaturesFirst, PlainScan, TextBefore, ImageReserved, ImageScan,
    TextAfter, PromptRun, Generation
<1> QED
  BY <1>5, <1>6

(* A feature that goes first is run at the end of the page table.           *)
LEMMA DecodePrefix ==
  ASSUME D!VlmDecodeAssumption, D!TypeOK, Counts, D!PrefixStep
  PROVE  D!TypeOK' /\ Counts'
<1>1. prompt \in Prompts /\ feats \in Features /\ kept \in Caches
  BY DEF D!TypeOK, Caches
<1>2. phase = "prefix" /\ UNCHANGED <<prompt, feats, spot, next, generated>>
  BY DEF D!PrefixStep, D!call
<1>3. prompt \in Seq({"txt", "img"}) /\ Len(prompt) \in Nat /\ feats \in Nat /\ MaxNew \in Nat
      /\ D!MaxSeq \in Nat /\ D!Shift = (IF Prefix THEN feats ELSE 0) /\ feats <= D!MaxSeq
      /\ (Prefix => ~ D!GemmaBidir) /\ D!Prompted = D!Shift + Len(prompt) /\ D!Shift \in Nat
  BY <1>1, DecodeFacts
<1>4. /\ D!Images' = D!Images /\ D!Shift' = D!Shift
      /\ \A k : spot' = k => Below(spot)' = Below(k)
  BY <1>2, CallStays
<1>5. /\ Prefix /\ spot = 0 /\ cursor = image_idx /\ image_idx <= feats /\ length = cursor
      /\ generated = << >> /\ cursor \in Nat
  BY <1>2 DEF Counts, FeaturesFirst, Generation, D!TypeOK
<1>6. CASE image_idx < feats
  <2>1. D!Step(cursor, <<"feature", image_idx>>) /\ cursor' = cursor + 1
        /\ image_idx' = image_idx + 1
        /\ phase' = phase
    BY <1>2, <1>6 DEF D!PrefixStep
  <2>2. cursor \in D!Position
    BY <1>1, <1>3, <1>5, <1>6, InCache
  <2> DEFINE item == <<"feature", image_idx>>
  <2> HIDE DEF item
  <2>3. length' = length + 1 /\ kept' \in Caches
    <3>1. D!Step(cursor, item)
      BY <2>1 DEF item
    <3> QED
      BY <1>1, <1>5, <2>2, <3>1, StepWrites
  <2>4. {cursor, image_idx, length}' \subseteq 0..D!MaxSeq
    BY <1>3, <1>5, <1>6, <2>1, <2>3
  <2>5. D!TypeOK'
    BY <1>2, <2>1, <2>3, <2>4 DEF D!TypeOK, Caches
  <2>6. Counts'
    BY <1>2, <1>3, <1>5, <1>6, <2>1, <2>3 DEF Counts, FeaturesFirst, PlainScan, TextBefore,
      ImageReserved, ImageScan, TextAfter, PromptRun, Generation
  <2> QED
    BY <2>5, <2>6
<1>7. CASE ~ (image_idx < feats)
  <2>1. phase' = "plain" /\ UNCHANGED <<cursor, image_idx, length, kept>>
    BY <1>2, <1>7 DEF D!PrefixStep
  <2>2. D!TypeOK'
    BY <1>2, <2>1 DEF D!TypeOK
  <2>3. Counts'
    BY <1>2, <1>3, <1>4, <1>5, <1>7, <2>1 DEF Counts, FeaturesFirst, PlainScan, TextBefore,
      ImageReserved, ImageScan, TextAfter, PromptRun, Generation
  <2> QED
    BY <2>2, <2>3
<1> QED
  BY <1>6, <1>7

(* So is the text before the image, and the image is where it ends.         *)
LEMMA DecodeBefore ==
  ASSUME D!VlmDecodeAssumption, D!TypeOK, Counts, D!Before
  PROVE  D!TypeOK' /\ Counts'
<1>1. prompt \in Prompts /\ feats \in Features /\ kept \in Caches /\ spot \in 0..Len(prompt)
  BY DEF D!TypeOK, Caches
<1>2. phase = "before" /\ UNCHANGED <<prompt, feats, image_idx, generated>>
  BY DEF D!Before, D!call
<1>3. prompt \in Seq({"txt", "img"}) /\ Len(prompt) \in Nat /\ feats \in Nat /\ MaxNew \in Nat
      /\ D!MaxSeq \in Nat /\ D!Shift = (IF Prefix THEN feats ELSE 0) /\ Len(prompt) <= D!MaxSeq
      /\ (Prefix => ~ D!GemmaBidir) /\ D!Prompted = D!Shift + Len(prompt) /\ D!Shift \in Nat
  BY <1>1, DecodeFacts
<1>4. D!Images' = D!Images /\ D!Shift' = D!Shift /\ D!Prompted' = D!Prompted
      /\ FirstImage' = FirstImage
  BY <1>2, CallStays
<1>5. /\ D!GemmaBidir /\ cursor = spot /\ length = cursor /\ image_idx = 0
      /\ generated = << >> /\ cursor \in Nat
      /\ \A k \in D!Images : spot <= k
  BY <1>2 DEF Counts, TextBefore, Generation, D!TypeOK
<1>6. CASE spot \notin D!Images /\ spot < Len(prompt)
  <2>1. D!StepAndSample(cursor, <<"text", spot>>) /\ cursor' = cursor + 1 /\ spot' = spot + 1
        /\ phase' = phase
    BY <1>2, <1>6 DEF D!Before
  <2>2. cursor \in D!Position
    BY <1>1, <1>3, <1>5, <1>6, InCache
  <2> DEFINE item == <<"text", spot>>
  <2> HIDE DEF item
  <2>3. length' = length + 1 /\ kept' \in Caches /\ next' \in D!Sample
    <3>1. D!StepAndSample(cursor, item)
      BY <2>1 DEF item
    <3>2. D!Step(cursor, item) /\ next' \in D!Sample
      BY <1>1, <2>2, <3>1, SampleIsStep
    <3> QED
      BY <1>1, <1>5, <2>2, <3>2, StepWrites
  <2>4. {cursor, image_idx, length}' \subseteq 0..D!MaxSeq /\ spot' \in 0..Len(prompt)
    BY <1>1, <1>2, <1>3, <1>5, <1>6, <2>1, <2>3
  <2>5. D!TypeOK'
    BY <1>2, <2>1, <2>3, <2>4 DEF D!TypeOK, Caches
  <2>6. \A k \in D!Images : spot + 1 <= k
    <3>1. \A k \in D!Images : k \in Nat /\ k # spot /\ spot <= k
      BY <1>3, <1>5, <1>6, ImagesFinite
    <3> QED
      BY <1>1, <3>1
  <2>7. Counts'
    BY <1>2, <1>4, <1>5, <2>1, <2>3, <2>6 DEF Counts, FeaturesFirst, PlainScan, TextBefore,
      ImageReserved, ImageScan, TextAfter, PromptRun, Generation
  <2> QED
    BY <2>5, <2>7
<1>7. CASE ~ (spot \notin D!Images /\ spot < Len(prompt))
  <2>1. phase' = (IF D!Images = {} THEN "check" ELSE "reserve")
        /\ UNCHANGED <<cursor, spot, length, kept, next>>
    BY <1>2, <1>7 DEF D!Before
  <2>2. D!TypeOK'
    BY <1>2, <2>1 DEF D!TypeOK
  <2>3. ASSUME D!Images = {}
        PROVE  cursor = D!Prompted /\ image_idx = Cardinality(D!Images) /\ ~ Prefix
    <3>1. Cardinality(D!Images) = 0
      BY <2>3, FS_EmptySet
    <3>2. spot = Len(prompt)
      BY <1>1, <1>3, <1>7, <2>3
    <3> QED
      BY <1>3, <1>5, <3>1, <3>2
  <2>4. ASSUME D!Images # {} PROVE spot = FirstImage
    <3>1. FirstImage \in D!Images /\ FirstImage < Len(prompt)
          /\ \A k \in D!Images : k \in Nat /\ FirstImage <= k
      BY <1>3, <2>4, ImageBounds
    <3>2. spot <= FirstImage /\ FirstImage \in Nat /\ spot \in Nat
      BY <1>1, <1>5, <3>1
    <3>3. spot \in D!Images
      BY <1>3, <1>7, <3>1, <3>2
    <3> QED
      BY <3>1, <3>2, <3>3
  <2>5. Counts'
    BY <1>2, <1>4, <1>5, <2>1, <2>3, <2>4 DEF Counts, FeaturesFirst, PlainScan, TextBefore,
      ImageReserved, ImageScan, TextAfter, PromptRun, Generation
  <2> QED
    BY <2>2, <2>5
<1> QED
  BY <1>6, <1>7

(* The page table then covers the image.                                    *)
LEMMA DecodeReserve ==
  ASSUME D!VlmDecodeAssumption, D!TypeOK, Counts, D!Reserve
  PROVE  D!TypeOK' /\ Counts'
<1>1. prompt \in Prompts /\ feats \in Features /\ kept \in Caches
  BY DEF D!TypeOK, Caches
<1>2. phase = "reserve" /\ phase' = "fill"
      /\ length' = (IF length < LastImage + 1 THEN LastImage + 1 ELSE length)
      /\ UNCHANGED <<prompt, feats, spot, cursor, image_idx, kept, next, generated>>
  BY DEF D!Reserve, D!call, LastImage
<1>3. prompt \in Seq({"txt", "img"}) /\ Len(prompt) \in Nat /\ D!MaxSeq \in Nat
      /\ Len(prompt) <= D!MaxSeq
  BY <1>1, DecodeFacts
<1>4. D!Images' = D!Images /\ FirstImage' = FirstImage /\ LastImage' = LastImage
  BY <1>2, CallStays
<1>5. /\ D!GemmaBidir /\ D!Images # {} /\ spot = FirstImage /\ cursor = spot /\ length = cursor
      /\ generated = << >>
  BY <1>2 DEF Counts, ImageReserved, Generation
<1>6. FirstImage \in Nat /\ LastImage \in Nat /\ FirstImage <= LastImage /\ LastImage < Len(prompt)
  BY <1>3, <1>5, ImageBounds
<1>7. length' = LastImage + 1 /\ length' \in 0..D!MaxSeq
  BY <1>2, <1>3, <1>5, <1>6
<1>8. D!TypeOK'
  BY <1>2, <1>7 DEF D!TypeOK
<1>9. Counts'
  BY <1>2, <1>4, <1>5, <1>6, <1>7 DEF Counts, FeaturesFirst, PlainScan, TextBefore,
    ImageReserved, ImageScan, TextAfter, PromptRun, Generation
<1> QED
  BY <1>8, <1>9

(* Neither scan of the image leaves it, or appends a position.              *)
LEMMA DecodeFill ==
  ASSUME D!VlmDecodeAssumption, D!TypeOK, Counts, D!Fill
  PROVE  D!TypeOK' /\ Counts'
<1>1. prompt \in Prompts /\ feats \in Features /\ kept \in Caches /\ spot \in Nat
  BY DEF D!TypeOK, Caches
<1>2. phase \in {"fill", "replay"} /\ UNCHANGED <<prompt, feats, next, generated>>
  BY DEF D!Fill, D!call
<1>3. prompt \in Seq({"txt", "img"}) /\ Len(prompt) \in Nat /\ D!MaxSeq \in Nat
      /\ Len(prompt) <= D!MaxSeq /\ D!Prompted = D!Shift + Len(prompt) /\ MaxNew \in Nat
      /\ D!Shift \in Nat
  BY <1>1, DecodeFacts
<1>4. D!Images' = D!Images /\ FirstImage' = FirstImage /\ LastImage' = LastImage
  BY <1>2, CallStays
<1>5. /\ D!GemmaBidir /\ D!Images # {} /\ FirstImage <= spot /\ spot <= LastImage + 1
         /\ length = LastImage + 1
      /\ generated = << >>
  BY <1>2 DEF Counts, ImageScan, Generation
<1>6. FirstImage \in Nat /\ LastImage \in Nat /\ FirstImage <= LastImage /\ LastImage < Len(prompt)
      /\ Cardinality(D!Images) \in Nat /\ Cardinality(D!Images) <= Len(prompt)
  BY <1>3, <1>5, ImageBounds, ImagesFinite
<1> DEFINE feature == Cardinality({k \in D!Images : k < spot})
<1>0. IF spot > LastImage
      THEN IF phase = "fill"
           THEN phase' = "replay" /\ spot' = FirstImage
                /\ UNCHANGED <<image_idx, cursor, length, kept>>
           ELSE /\ phase' = "after"
                /\ image_idx' = Cardinality(D!Images) /\ cursor' = LastImage + 1
                /\ UNCHANGED <<spot, length, kept>>
      ELSE IF spot \notin D!Images
      THEN spot' = spot + 1 /\ UNCHANGED <<phase, image_idx, cursor, length, kept>>
      ELSE IF feature >= feats
      THEN phase' = "failed" /\ UNCHANGED <<spot, image_idx, cursor, length, kept>>
      ELSE /\ D!Step(spot, <<"feature", feature>>) /\ spot' = spot + 1
           /\ UNCHANGED <<phase, image_idx, cursor>>
  BY DEF D!Fill, FirstImage, LastImage, D!Cardinality, Cardinality
<1> HIDE DEF feature
<1>7. CASE spot > LastImage /\ phase = "fill"
  <2>1. phase' = "replay" /\ spot' = FirstImage /\ UNCHANGED <<image_idx, cursor, length, kept>>
    BY <1>0, <1>7
  <2>2. D!TypeOK'
    BY <1>2, <1>3, <1>6, <2>1 DEF D!TypeOK
  <2>3. Counts'
    BY <1>2, <1>4, <1>5, <1>6, <2>1 DEF Counts, FeaturesFirst, PlainScan, TextBefore,
      ImageReserved, ImageScan, TextAfter, PromptRun, Generation
  <2> QED
    BY <2>2, <2>3
<1>8. CASE spot > LastImage /\ phase = "replay"
  <2>1. phase' = "after" /\ image_idx' = Cardinality(D!Images) /\ cursor' = LastImage + 1
        /\ UNCHANGED <<spot, length, kept>>
    <3>1. spot > LastImage /\ phase # "fill"
      BY <1>8
    <3> QED
      BY <1>0, <3>1, Zenon
  <2>2. {cursor, image_idx, length}' \subseteq 0..D!MaxSeq
    BY <1>3, <1>5, <1>6, <2>1
  <2>3. D!TypeOK'
    BY <1>2, <2>1, <2>2 DEF D!TypeOK
  <2>4. cursor' = spot' /\ length' = cursor' /\ LastImage < spot'
    BY <1>1, <1>5, <1>6, <1>8, <2>1
  <2>5. Counts'
    BY <1>2, <1>4, <1>5, <2>1, <2>4 DEF Counts, FeaturesFirst, PlainScan, TextBefore,
      ImageReserved, ImageScan, TextAfter, PromptRun, Generation
  <2> QED
    BY <2>3, <2>5
<1>9. CASE ~ (spot > LastImage) /\ spot \notin D!Images
  <2>1. spot' = spot + 1 /\ UNCHANGED <<phase, image_idx, cursor, length, kept>>
    BY <1>0, <1>9
  <2>2. spot' \in 0..Len(prompt) /\ FirstImage <= spot' /\ spot' <= LastImage + 1
    BY <1>1, <1>3, <1>5, <1>6, <1>9, <2>1
  <2>3. D!TypeOK'
    BY <1>2, <2>1, <2>2 DEF D!TypeOK
  <2>4. Counts'
    BY <1>2, <1>4, <1>5, <2>1, <2>2 DEF Counts, FeaturesFirst, PlainScan, TextBefore,
      ImageReserved, ImageScan, TextAfter, PromptRun, Generation
  <2> QED
    BY <2>3, <2>4
<1>10. CASE ~ (spot > LastImage) /\ spot \in D!Images /\ feature >= feats
  <2>1. phase' = "failed" /\ UNCHANGED <<spot, image_idx, cursor, length, kept>>
    BY <1>0, <1>10, Zenon
  <2>2. D!TypeOK'
    BY <1>2, <2>1 DEF D!TypeOK
  <2>3. Counts'
    BY <1>2, <1>5, <2>1 DEF Counts, FeaturesFirst, PlainScan, TextBefore,
      ImageReserved, ImageScan, TextAfter, PromptRun, Generation
  <2> QED
    BY <2>2, <2>3
<1>11. CASE ~ (spot > LastImage) /\ spot \in D!Images /\ ~ (feature >= feats)
  <2>1. D!Step(spot, <<"feature", feature>>) /\ spot' = spot + 1
        /\ UNCHANGED <<phase, image_idx, cursor>>
    BY <1>0, <1>11, Zenon
  <2>2. spot \in D!Position
    BY <1>1, <1>3, <1>6, <1>11, InCache
  <2> DEFINE item == <<"feature", feature>>
  <2>3. D!Step(spot, item)
    BY <2>1
  <2> HIDE DEF item
  <2>4. length' = length /\ kept' \in Caches
    <3>1. spot # length
      BY <1>1, <1>5, <1>6, <1>11
    <3> QED
      BY <1>1, <2>2, <2>3, <3>1, StepWrites
  <2>5. spot' \in 0..Len(prompt) /\ FirstImage <= spot' /\ spot' <= LastImage + 1
    BY <1>1, <1>3, <1>5, <1>6, <1>11, <2>1
  <2>6. D!TypeOK'
    BY <1>2, <2>1, <2>4, <2>5 DEF D!TypeOK, Caches
  <2>7. Counts'
    BY <1>2, <1>4, <1>5, <2>1, <2>4, <2>5 DEF Counts, FeaturesFirst, PlainScan, TextBefore,
      ImageReserved, ImageScan, TextAfter, PromptRun, Generation
  <2> QED
    BY <2>6, <2>7
<1> QED
  BY <1>2, <1>7, <1>8, <1>9, <1>10, <1>11

(* The text behind the image starts where the image ends.                   *)
LEMMA DecodeAfter ==
  ASSUME D!VlmDecodeAssumption, D!TypeOK, Counts, D!After
  PROVE  D!TypeOK' /\ Counts'
<1>1. prompt \in Prompts /\ feats \in Features /\ kept \in Caches /\ spot \in 0..Len(prompt)
  BY DEF D!TypeOK, Caches
<1>2. phase = "after" /\ UNCHANGED <<prompt, feats, image_idx, generated>>
  BY DEF D!After, D!call
<1>3. prompt \in Seq({"txt", "img"}) /\ Len(prompt) \in Nat /\ feats \in Nat /\ MaxNew \in Nat
      /\ D!MaxSeq \in Nat /\ D!Shift = (IF Prefix THEN feats ELSE 0) /\ Len(prompt) <= D!MaxSeq
      /\ (Prefix => ~ D!GemmaBidir) /\ D!Prompted = D!Shift + Len(prompt) /\ D!Shift \in Nat
  BY <1>1, DecodeFacts
<1>4. D!Images' = D!Images /\ D!Prompted' = D!Prompted /\ LastImage' = LastImage
  BY <1>2, CallStays
<1>5. /\ D!GemmaBidir /\ D!Images # {} /\ cursor = spot /\ length = cursor /\ LastImage < spot
      /\ image_idx = Cardinality(D!Images) /\ generated = << >> /\ cursor \in Nat
  BY <1>2 DEF Counts, TextAfter, Generation, D!TypeOK
<1>6. CASE spot < Len(prompt)
  <2>1. D!StepAndSample(cursor, <<"text", spot>>) /\ cursor' = cursor + 1 /\ spot' = spot + 1
        /\ phase' = phase
    BY <1>2, <1>6 DEF D!After
  <2>2. cursor \in D!Position
    BY <1>1, <1>3, <1>5, <1>6, InCache
  <2> DEFINE item == <<"text", spot>>
  <2> HIDE DEF item
  <2>3. length' = length + 1 /\ kept' \in Caches /\ next' \in D!Sample
    <3>1. D!StepAndSample(cursor, item)
      BY <2>1 DEF item
    <3>2. D!Step(cursor, item) /\ next' \in D!Sample
      BY <1>1, <2>2, <3>1, SampleIsStep
    <3> QED
      BY <1>1, <1>5, <2>2, <3>2, StepWrites
  <2>4. cursor' \in 0..D!MaxSeq /\ length' \in 0..D!MaxSeq /\ spot' \in 0..Len(prompt)
    BY <1>1, <1>3, <1>5, <1>6, <2>1, <2>3
  <2>5. D!TypeOK'
    BY <1>2, <2>1, <2>3, <2>4 DEF D!TypeOK, Caches
  <2>6. LastImage < spot + 1
    <3>1. LastImage \in Nat
      BY <1>3, <1>5, ImageBounds
    <3> QED
      BY <1>1, <1>5, <3>1
  <2>7. Counts'
    BY <1>2, <1>4, <1>5, <2>1, <2>3, <2>6 DEF Counts, FeaturesFirst, PlainScan, TextBefore,
      ImageReserved, ImageScan, TextAfter, PromptRun, Generation
  <2> QED
    BY <2>5, <2>7
<1>7. CASE ~ (spot < Len(prompt))
  <2>1. phase' = "check" /\ UNCHANGED <<cursor, spot, length, kept, next>>
    BY <1>2, <1>7 DEF D!After
  <2>2. D!TypeOK'
    BY <1>2, <2>1 DEF D!TypeOK
  <2>3. cursor = D!Prompted /\ ~ Prefix
    BY <1>1, <1>3, <1>5, <1>7
  <2>4. Counts'
    BY <1>2, <1>4, <1>5, <2>1, <2>3 DEF Counts, FeaturesFirst, PlainScan, TextBefore,
      ImageReserved, ImageScan, TextAfter, PromptRun, Generation
  <2> QED
    BY <2>2, <2>4
<1> QED
  BY <1>6, <1>7

(* A run of placeholders takes as many features as it is long.              *)
LEMMA DecodeRun ==
  ASSUME D!VlmDecodeAssumption, D!TypeOK, Counts, D!PlainRun
  PROVE  D!TypeOK' /\ Counts'
<1> DEFINE n == D!RunLength
<1>1. prompt \in Prompts /\ feats \in Features /\ kept \in Caches /\ spot \in Nat
      /\ image_idx \in Nat
  BY DEF D!TypeOK, Caches
<1>2. phase = "plain" /\ spot \in D!Images /\ UNCHANGED <<prompt, feats, next, generated>>
  BY DEF D!PlainRun, D!call
<1>3. prompt \in Seq({"txt", "img"}) /\ Len(prompt) \in Nat /\ feats \in Nat /\ MaxNew \in Nat
      /\ D!MaxSeq \in Nat /\ D!Shift = (IF Prefix THEN feats ELSE 0) /\ feats <= D!MaxSeq
      /\ D!Prompted = D!Shift + Len(prompt) /\ D!Shift \in Nat
      /\ D!Prompted + MaxNew <= D!MaxSeq
  BY <1>1, DecodeFacts
<1>4. /\ D!Images' = D!Images /\ D!Shift' = D!Shift
      /\ \A k : spot' = k => Below(spot)' = Below(k)
  BY <1>2, CallStays
<1>5. /\ ~ D!GemmaBidir /\ cursor = D!Shift + spot /\ length = cursor /\ generated = << >>
      /\ image_idx = IF Prefix THEN feats ELSE Below(spot)
  BY <1>2 DEF Counts, PlainScan, Generation
<1>6. n \in 1..(Len(prompt) - spot) /\ \A k \in spot..(spot + n - 1) : k \in D!Images
  BY <1>2, <1>3, RunIs
<1>7. n \in Nat /\ n >= 1 /\ spot + n <= Len(prompt)
  BY <1>1, <1>3, <1>6
<1> HIDE DEF n
<1>8. CASE image_idx + n > feats
  <2>1. phase' = "failed" /\ UNCHANGED <<spot, cursor, image_idx, length, kept>>
    BY <1>8 DEF D!PlainRun, n
  <2>2. D!TypeOK'
    BY <1>2, <2>1 DEF D!TypeOK
  <2>3. Counts'
    BY <1>2, <1>5, <2>1 DEF Counts, FeaturesFirst, PlainScan, TextBefore,
      ImageReserved, ImageScan, TextAfter, PromptRun, Generation
  <2> QED
    BY <2>2, <2>3
<1>9. CASE ~ (image_idx + n > feats)
  <2>1. D!PrefillFused(cursor, n, image_idx) /\ spot' = spot + n /\ cursor' = cursor + n
        /\ image_idx' = image_idx + n /\ phase' = phase
    BY <1>9 DEF D!PlainRun, n
  <2>2. ~ Prefix /\ D!Shift = 0
    BY <1>3, <1>5, <1>7, <1>9
  <2>3. \A k \in 1..n : cursor + k - 1 \in D!Position
    <3>1. \A k \in 1..n : cursor + k - 1 \in Nat /\ cursor + k - 1 < D!Prompted + MaxNew
      BY <1>1, <1>3, <1>5, <1>7
    <3> QED
      BY <1>1, <3>1, InCache
  <2>4. length' = cursor + n /\ kept' \in Caches
    <3> DEFINE p == cursor
               first == image_idx
    <3>1. p \in Nat /\ first \in Nat /\ D!PrefillFused(p, n, first)
          /\ \A k \in 1..n : p + k - 1 \in D!Position
      BY <1>1, <1>3, <1>5, <2>1, <2>3
    <3> HIDE DEF p, first
    <3>2. length' = p + n /\ kept' \in Caches
      BY <1>1, <1>7, <3>1, FusedWrites
    <3> QED
      BY <3>2 DEF p
  <2>5. Below(spot + n) = Below(spot) + n
    <3>1. n \in 0..n
      BY <1>7
    <3> QED
      BY <1>1, <1>3, <1>6, <1>7, <3>1, BelowRuns
  <2>6. /\ cursor' \in 0..D!MaxSeq /\ length' \in 0..D!MaxSeq /\ image_idx' \in 0..D!MaxSeq
        /\ spot' \in 0..Len(prompt)
    BY <1>1, <1>3, <1>5, <1>7, <1>9, <2>1, <2>2, <2>4
  <2>7. D!TypeOK'
    BY <1>2, <2>1, <2>4, <2>6 DEF D!TypeOK, Caches
  <2>8. cursor' = D!Shift + spot' /\ image_idx' = Below(spot + n)
        /\ Below(spot)' = Below(spot + n)
    BY <1>1, <1>4, <1>5, <1>7, <2>1, <2>2, <2>5
  <2>9. Counts'
    BY <1>2, <1>4, <1>5, <2>1, <2>2, <2>4, <2>8 DEF Counts, FeaturesFirst, PlainScan, TextBefore,
      ImageReserved, ImageScan, TextAfter, PromptRun, Generation
  <2> QED
    BY <2>7, <2>9
<1> QED
  BY <1>8, <1>9

(* A text takes none.                                                       *)
LEMMA DecodeText ==
  ASSUME D!VlmDecodeAssumption, D!TypeOK, Counts, D!PlainText
  PROVE  D!TypeOK' /\ Counts'
<1>1. prompt \in Prompts /\ feats \in Features /\ kept \in Caches /\ spot \in 0..Len(prompt)
  BY DEF D!TypeOK, Caches
<1>2. phase = "plain" /\ spot \notin D!Images
      /\ UNCHANGED <<prompt, feats, image_idx, next, generated>>
  BY DEF D!PlainText, D!call
<1>3. prompt \in Seq({"txt", "img"}) /\ Len(prompt) \in Nat /\ feats \in Nat /\ MaxNew \in Nat
      /\ D!MaxSeq \in Nat /\ D!Shift = (IF Prefix THEN feats ELSE 0)
      /\ D!Prompted = D!Shift + Len(prompt) /\ D!Shift \in Nat
      /\ D!Prompted + MaxNew <= D!MaxSeq
  BY <1>1, DecodeFacts
<1>4. /\ D!Images' = D!Images /\ D!Shift' = D!Shift /\ D!Prompted' = D!Prompted
      /\ \A k : spot' = k => Below(spot)' = Below(k)
  BY <1>2, CallStays
<1>5. /\ ~ D!GemmaBidir /\ cursor = D!Shift + spot /\ length = cursor /\ generated = << >>
      /\ image_idx = IF Prefix THEN feats ELSE Below(spot)
  BY <1>2 DEF Counts, PlainScan, Generation
<1>6. CASE spot < Len(prompt)
  <2>1. D!Step(cursor, <<"text", spot>>) /\ cursor' = cursor + 1 /\ spot' = spot + 1
        /\ phase' = phase
    BY <1>2, <1>6 DEF D!PlainText
  <2>2. cursor \in D!Position
    BY <1>1, <1>3, <1>5, <1>6, InCache
  <2> DEFINE item == <<"text", spot>>
  <2> HIDE DEF item
  <2>3. length' = length + 1 /\ kept' \in Caches
    <3>1. D!Step(cursor, item)
      BY <2>1 DEF item
    <3> QED
      BY <1>1, <1>5, <2>2, <3>1, StepWrites
  <2>4. cursor' \in 0..D!MaxSeq /\ length' \in 0..D!MaxSeq /\ spot' \in 0..Len(prompt)
    BY <1>1, <1>3, <1>5, <1>6, <2>1, <2>3
  <2>5. D!TypeOK'
    BY <1>2, <2>1, <2>3, <2>4 DEF D!TypeOK, Caches
  <2>6. Below(spot)' = Below(spot) /\ cursor' = D!Shift + spot'
    <3>1. Below(spot + 1) = Below(spot)
      BY <1>1, <1>2, <1>3, BelowIs
    <3> QED
      BY <1>1, <1>3, <1>4, <1>5, <2>1, <3>1
  <2>7. Counts'
    BY <1>2, <1>4, <1>5, <2>1, <2>3, <2>6 DEF Counts, FeaturesFirst, PlainScan, TextBefore,
      ImageReserved, ImageScan, TextAfter, PromptRun, Generation
  <2> QED
    BY <2>5, <2>7
<1>7. CASE ~ (spot < Len(prompt))
  <2>1. phase' = "check" /\ UNCHANGED <<cursor, spot, length, kept>>
    BY <1>2, <1>7 DEF D!PlainText
  <2>2. D!TypeOK'
    BY <1>2, <2>1 DEF D!TypeOK
  <2>3. cursor = D!Prompted
    BY <1>1, <1>3, <1>5, <1>7
  <2>4. Below(spot) = Cardinality(D!Images)
    <3>1. \A j \in D!Images : j < spot
      BY <1>1, <1>3, <1>7, ImagesFinite
    <3> QED
      BY <1>1, <1>3, <3>1, BelowIs
  <2>5. Counts'
    BY <1>2, <1>4, <1>5, <2>1, <2>3, <2>4 DEF Counts, FeaturesFirst, PlainScan, TextBefore,
      ImageReserved, ImageScan, TextAfter, PromptRun, Generation
  <2> QED
    BY <2>2, <2>5
<1> QED
  BY <1>6, <1>7

(* Behind the check every feature has been used.                            *)
LEMMA DecodeCheck ==
  ASSUME D!VlmDecodeAssumption, D!TypeOK, Counts, D!Check
  PROVE  D!TypeOK' /\ Counts'
<1>1. /\ phase = "check"
      /\ phase' = (IF image_idx # feats THEN "failed"
                   ELSE IF Runner = "llama" THEN "last" ELSE "generate")
      /\ UNCHANGED <<prompt, feats, spot, cursor, image_idx, length, kept, next, generated>>
  BY DEF D!Check, D!call
<1>2. D!Images' = D!Images /\ D!Prompted' = D!Prompted
  BY <1>1, CallStays
<1>3. D!TypeOK'
  BY <1>1 DEF D!TypeOK
<1>4. /\ cursor = D!Prompted /\ length = cursor /\ generated = << >>
      /\ image_idx = IF Prefix THEN feats ELSE Cardinality(D!Images)
  BY <1>1 DEF Counts, PromptRun, Generation
<1>5. length = D!Prompted + Len(generated)
  <2>1. length \in Nat /\ Len(<< >>) = 0
    BY DEF D!TypeOK
  <2> QED
    BY <1>4, <2>1
<1>6. Counts'
  BY <1>1, <1>2, <1>4, <1>5 DEF Counts, FeaturesFirst, PlainScan, TextBefore,
    ImageReserved, ImageScan, TextAfter, PromptRun, Generation
<1> QED
  BY <1>3, <1>6

(* Llama's second run of the last position appends nothing.                 *)
LEMMA DecodeFirst ==
  ASSUME D!VlmDecodeAssumption, D!TypeOK, Counts, D!FirstToken
  PROVE  D!TypeOK' /\ Counts'
<1>1. prompt \in Prompts /\ feats \in Features /\ kept \in Caches
  BY DEF D!TypeOK, Caches
<1>2. /\ phase = "last" /\ phase' = "generate" /\ D!StepAndSample(cursor - 1, D!Want(cursor - 1))
      /\ UNCHANGED <<prompt, feats, spot, cursor, image_idx, generated>>
  BY DEF D!FirstToken, D!call
<1>3. D!Prompted \in Nat /\ D!Prompted >= 1 /\ MaxNew \in Nat
  BY <1>1, DecodeFacts
<1>4. D!Images' = D!Images /\ D!Prompted' = D!Prompted
  BY <1>2, CallStays
<1>5. /\ cursor = D!Prompted /\ length = cursor /\ generated = << >> /\ image_idx = feats
      /\ image_idx = IF Prefix THEN feats ELSE Cardinality(D!Images)
  BY <1>2 DEF Counts, PromptRun, Generation
<1>6. length' = length /\ kept' \in Caches /\ next' \in D!Sample
  <2> DEFINE p == cursor - 1
             item == D!Want(p)
  <2>1. D!StepAndSample(p, item)
    BY <1>2
  <2>2. p \in D!Position /\ p # length
    BY <1>1, <1>3, <1>5, InCache
  <2> HIDE DEF p, item
  <2>3. D!Step(p, item) /\ next' \in D!Sample
    BY <1>1, <2>1, <2>2, SampleIsStep
  <2> QED
    BY <1>1, <2>2, <2>3, StepWrites
<1>7. D!TypeOK'
  BY <1>2, <1>6 DEF D!TypeOK, Caches
<1>8. length = D!Prompted + Len(generated)
  BY <1>3, <1>5
<1>9. Counts'
  BY <1>2, <1>4, <1>5, <1>6, <1>8 DEF Counts, FeaturesFirst, PlainScan, TextBefore,
    ImageReserved, ImageScan, TextAfter, PromptRun, Generation
<1> QED
  BY <1>7, <1>9

(* What a turn of the generation loop does.                                *)
Spoken(g) == [k \in 1..Len(g) |-> g[k].tok]

LEMMA TurnIs ==
  ASSUME D!TypeOK, D!Generate
  PROVE  /\ phase = "generate" /\ UNCHANGED <<prompt, feats, spot, cursor, image_idx>>
         /\ \/ /\ Len(generated) = MaxNew /\ phase' = "done"
               /\ UNCHANGED <<length, kept, next, generated>>
            \/ /\ Len(generated) # MaxNew /\ generated' = Append(generated, next)
               /\ D!Stops(Spoken(generated')) /\ phase' = "done" /\ UNCHANGED <<length, kept, next>>
            \/ /\ Len(generated) # MaxNew /\ generated' = Append(generated, next)
               /\ ~ D!Stops(Spoken(generated')) /\ phase' = phase
               /\ D!StepAndSample(cursor + Len(generated), <<"generated", Len(generated)>>)
  BY DEF D!Generate, D!call, Spoken

(* A turn that goes on appends one token and one position.                  *)
LEMMA DecodeTurn ==
  ASSUME D!VlmDecodeAssumption, D!TypeOK, Counts, D!Generate
  PROVE  D!TypeOK' /\ Counts'
<1>1. prompt \in Prompts /\ feats \in Features /\ kept \in Caches /\ next \in D!Sample
      /\ generated \in Seq(D!Sample) /\ Len(generated) <= MaxNew /\ length \in Nat
  BY DEF D!TypeOK, Caches
<1>2. phase = "generate" /\ UNCHANGED <<prompt, feats, spot, cursor, image_idx>>
  BY TurnIs
<1>3. D!Prompted \in Nat /\ MaxNew \in Nat /\ D!MaxSeq \in Nat
      /\ D!Prompted + MaxNew <= D!MaxSeq
  BY <1>1, DecodeFacts
<1>4. D!Images' = D!Images /\ D!Prompted' = D!Prompted
  BY <1>2, CallStays
<1>5. /\ cursor = D!Prompted /\ length = D!Prompted + Len(generated) /\ image_idx = feats
      /\ image_idx = IF Prefix THEN feats ELSE Cardinality(D!Images)
  BY <1>2 DEF Counts, PromptRun, Generation
<1>6. CASE /\ Len(generated) = MaxNew /\ phase' = "done"
           /\ UNCHANGED <<length, kept, next, generated>>
  <2>1. D!TypeOK'
    BY <1>2, <1>6 DEF D!TypeOK
  <2>2. Counts'
    BY <1>2, <1>4, <1>5, <1>6 DEF Counts, FeaturesFirst, PlainScan, TextBefore,
      ImageReserved, ImageScan, TextAfter, PromptRun, Generation
  <2> QED
    BY <2>1, <2>2
<1>7. ASSUME Len(generated) # MaxNew, generated' = Append(generated, next)
      PROVE  generated' \in Seq(D!Sample) /\ Len(generated') = Len(generated) + 1
             /\ Len(generated') <= MaxNew
  BY <1>1, <1>3, <1>7
<1>8. CASE /\ Len(generated) # MaxNew /\ generated' = Append(generated, next)
           /\ phase' = "done" /\ UNCHANGED <<length, kept, next>>
  <2>1. D!TypeOK'
    BY <1>2, <1>7, <1>8 DEF D!TypeOK
  <2>2. Counts'
    BY <1>2, <1>4, <1>5, <1>8 DEF Counts, FeaturesFirst, PlainScan, TextBefore,
      ImageReserved, ImageScan, TextAfter, PromptRun, Generation
  <2> QED
    BY <2>1, <2>2
<1>9. CASE /\ Len(generated) # MaxNew /\ generated' = Append(generated, next) /\ phase' = phase
           /\ D!StepAndSample(cursor + Len(generated), <<"generated", Len(generated)>>)
  <2> DEFINE p == cursor + Len(generated)
             item == <<"generated", Len(generated)>>
  <2>1. D!StepAndSample(p, item)
    BY <1>9
  <2>2. p \in D!Position /\ p = length
    BY <1>1, <1>3, <1>5, <1>9, InCache
  <2> HIDE DEF p, item
  <2>3. D!Step(p, item) /\ next' \in D!Sample
    BY <1>1, <2>1, <2>2, SampleIsStep
  <2>4. length' = length + 1 /\ kept' \in Caches
    BY <1>1, <2>2, <2>3, StepWrites
  <2>5. length' = D!Prompted + Len(generated') /\ length' \in 0..D!MaxSeq
    BY <1>1, <1>3, <1>5, <1>7, <1>9, <2>4
  <2>6. D!TypeOK'
    BY <1>2, <1>7, <1>9, <2>3, <2>4, <2>5 DEF D!TypeOK, Caches
  <2>7. Counts'
    BY <1>2, <1>4, <1>5, <1>9, <2>5 DEF Counts, FeaturesFirst, PlainScan, TextBefore,
      ImageReserved, ImageScan, TextAfter, PromptRun, Generation
  <2> QED
    BY <2>6, <2>7
<1> QED
  BY <1>6, <1>8, <1>9, TurnIs

(* Types and counts are inductive.                                          *)
LEMMA DecodeStep ==
  ASSUME D!VlmDecodeAssumption, D!TypeOK, Counts, [D!Next]_(D!vars)
  PROVE  D!TypeOK' /\ Counts'
<1>1. CASE UNCHANGED D!vars
  <2>1. UNCHANGED <<prompt, feats, phase, spot, cursor, image_idx, length, kept, next, generated>>
    BY <1>1 DEF D!vars, D!call
  <2>2. /\ D!Images' = D!Images /\ D!Shift' = D!Shift /\ D!Prompted' = D!Prompted
        /\ FirstImage' = FirstImage /\ LastImage' = LastImage /\ Below(spot)' = Below(spot)
    BY <2>1, CallStays
  <2>3. D!TypeOK'
    BY <2>1 DEF D!TypeOK
  <2>4. Counts'
    BY <2>1, <2>2 DEF Counts, FeaturesFirst, PlainScan, TextBefore,
      ImageReserved, ImageScan, TextAfter, PromptRun, Generation
  <2> QED
    BY <2>3, <2>4
<1>2. CASE D!Next
  BY <1>2, DecodePrefix, DecodeBefore, DecodeReserve, DecodeFill, DecodeAfter, DecodeRun,
    DecodeText, DecodeCheck, DecodeFirst, DecodeTurn DEF D!Next
<1> QED
  BY <1>1, <1>2

(* The scan stays in the prompt, positions stay in the cache, and every    *)
(* step writes a vector of its own layer and position.                     *)
THEOREM DecodeTypeCorrect ==
  ASSUME D!VlmDecodeAssumption
  PROVE  D!Spec => []D!TypeOK
<1>1. D!Init => D!TypeOK /\ Counts
  BY DecodeInit
<1>2. (D!TypeOK /\ Counts) /\ [D!Next]_(D!vars) => (D!TypeOK /\ Counts)'
  BY DecodeStep
<1> QED
  BY <1>1, <1>2, PTL DEF D!Spec

(* Text is only generated when every feature stands at one placeholder.    *)
THEOREM FeaturesStand ==
  ASSUME D!VlmDecodeAssumption
  PROVE  D!Spec => []D!FeaturesMatch
<1>1. D!Init => D!TypeOK /\ Counts
  BY DecodeInit
<1>2. (D!TypeOK /\ Counts) /\ [D!Next]_(D!vars) => (D!TypeOK /\ Counts)'
  BY DecodeStep
<1>3. Counts => D!FeaturesMatch
  BY DEF Counts, PromptRun, D!FeaturesMatch, D!Cardinality, Cardinality
<1> QED
  BY <1>1, <1>2, <1>3, PTL DEF D!Spec

-----------------------------------------------------------------------------
(* What the cache holds                                                    *)

(* How deep the cache is the model's, as a value.                           *)
Depths == [p \in Nat |-> D!Depth(p)]
Deep(c, n, d) ==
  \A l \in D!Layer : \A q \in 0..(n - 1) : l < d[q] => c[l][q] = D!Name(l, q)

(* The image that is being run: what is before it is right, its first layer *)
(* is right up to spot, and in the replay everywhere, and there the second  *)
(* layer up to spot.                                                        *)
ImageValues ==
  phase \in {"fill", "replay"} =>
    /\ Right(kept, FirstImage)
    /\ \A q \in D!Images :
         /\ q < spot \/ phase = "replay" => kept[0][q] = D!Name(0, q)
         /\ q < spot /\ phase = "replay" /\ D!OneRun =>
              \A l \in D!Layer : l <= 1 => kept[l][q] = D!Name(l, q)

(* Everywhere else the cache is the model's as far as it has been run.     *)
Values ==
  /\ phase \in {"prefix", "plain", "before", "reserve", "after", "check", "last"} =>
       Deep(kept, cursor, Depths)
  /\ ImageValues
  /\ phase = "generate" => Deep(kept, length, Depths)
  /\ phase = "done" => Deep(kept, D!Prompted, Depths)

(* What is to be run at a position, and what it attends to.                *)
LEMMA WantIs ==
  ASSUME D!VlmDecodeAssumption, prompt \in Prompts, feats \in Features, NEW p \in Nat
  PROVE  /\ p < D!Shift => D!Want(p) = <<"feature", p>>
         /\ p >= D!Prompted => D!Want(p) = <<"generated", p - D!Prompted>>
         /\ \A k \in Nat : p = D!Shift + k /\ k < Len(prompt) /\ k \notin D!Images =>
              D!Want(p) = <<"text", k>>
         /\ D!Shift = 0 /\ p \in D!Images => D!Want(p) = <<"feature", Below(p)>>
<1>1. D!Shift \in Nat /\ Len(prompt) \in Nat /\ D!Prompted = D!Shift + Len(prompt)
      /\ prompt \in Seq({"txt", "img"})
  BY DecodeFacts
<1>2. ASSUME p < D!Shift PROVE D!Want(p) = <<"feature", p>>
  BY <1>2 DEF D!Want
<1>3. ASSUME p >= D!Prompted PROVE D!Want(p) = <<"generated", p - D!Prompted>>
  <2>1. ~ (p < D!Shift)
    BY <1>1, <1>3
  <2> QED
    BY <1>3, <2>1 DEF D!Want
<1>4. ASSUME NEW k \in Nat, p = D!Shift + k, k < Len(prompt)
      PROVE  /\ ~ (p < D!Shift) /\ ~ (p >= D!Prompted) /\ p - D!Shift = k
             /\ k \in D!Images <=> D!Tok(k) = "img"
  <2>1. ~ (p < D!Shift) /\ ~ (p >= D!Prompted) /\ p - D!Shift = k /\ k \in 0..(Len(prompt) - 1)
    BY <1>1, <1>4
  <2> QED
    BY <2>1 DEF D!Images
<1>5. ASSUME NEW k \in Nat, p = D!Shift + k, k < Len(prompt), k \notin D!Images
      PROVE  D!Want(p) = <<"text", k>>
  <2>1. /\ ~ (p < D!Shift) /\ ~ (p >= D!Prompted) /\ p - D!Shift = k
        /\ ~ (D!Tok(k) = "img")
    BY <1>4, <1>5
  <2> QED
    BY <2>1 DEF D!Want
<1>6. ASSUME D!Shift = 0, p \in D!Images PROVE D!Want(p) = <<"feature", Below(p)>>
  <2>1. p < Len(prompt) /\ p = D!Shift + p
    BY <1>1, <1>6, ImagesFinite
  <2>2. ~ (p < D!Shift) /\ ~ (p >= D!Prompted) /\ p - D!Shift = p /\ D!Tok(p) = "img"
    BY <1>4, <1>6, <2>1
  <2>3. D!Want(p) = <<"feature", D!Cardinality({k \in D!Images : k < p})>>
    BY <2>2 DEF D!Want
  <2> QED
    BY <2>3 DEF Below, Before, D!Cardinality, Cardinality
<1> QED
  BY <1>2, <1>3, <1>5, <1>6

(* Outside an image with a two-sided prefill, attention is causal.          *)
LEMMA SeenIs ==
  ASSUME NEW p, ~ (D!GemmaBidir /\ p < D!Prompted /\ p \in D!Images)
  PROVE  D!Seen(p) = 0..p
  BY DEF D!Seen

(* How deep a position is right, by where it stands to the image.           *)
LEMMA DepthIs ==
  ASSUME NEW p \in Nat
  PROVE  /\ Depths[p] = D!Depth(p)
         /\ ~ D!GemmaBidir \/ D!Images = {} \/ p < FirstImage => D!Depth(p) = NumLayers
         /\ D!GemmaBidir /\ D!Images # {} /\ ~ (p < FirstImage) =>
              D!Depth(p) = IF ~ D!OneRun THEN 0 ELSE IF p \in D!Images THEN 2 ELSE 3
  BY DEF Depths, D!Depth, FirstImage

(* It belongs to the prompt.                                                *)
LEMMA DepthsStay ==
  ASSUME UNCHANGED <<prompt, feats>>
  PROVE  Depths' = Depths /\ (D!OneRun <=> D!OneRun') /\ (D!InReach <=> D!InReach')
<1>1. D!Images' = D!Images
  BY CallStays
<1>2. D!OneRun <=> D!OneRun'
  BY <1>1 DEF D!OneRun
<1>3. D!InReach <=> D!InReach'
  BY <1>1, <1>2 DEF D!InReach, D!Tok, D!GemmaBidir
<1>4. ASSUME NEW p \in Nat PROVE D!Depth(p)' = D!Depth(p)
  BY <1>1, <1>2 DEF D!Depth, D!GemmaBidir
<1> QED
  BY <1>2, <1>3, <1>4 DEF Depths

(* A layer that is right at a position reads layers that are right before   *)
(* it.                                                                      *)
LEMMA DepthDrops ==
  ASSUME D!VlmDecodeAssumption, prompt \in Seq({"txt", "img"}),
         NEW p \in Nat, NEW t \in 0..(p - 1), NEW l \in D!Layer, NEW m \in D!Layer,
         l < Depths[p], m < l
  PROVE  m < Depths[t]
<1>1. t \in Nat /\ t < p
  OBVIOUS
<1>2. l \in Nat /\ m \in Nat /\ l < NumLayers /\ m < NumLayers /\ NumLayers \in Nat
  BY DEF D!VlmDecodeAssumption, D!Layer
<1>3. CASE ~ D!GemmaBidir \/ D!Images = {} \/ t < FirstImage
  BY <1>1, <1>2, <1>3, DepthIs
<1>4. CASE D!GemmaBidir /\ D!Images # {} /\ ~ (t < FirstImage)
  <2>1. FirstImage \in Nat /\ FirstImage \in D!Images /\ LastImage \in D!Images
        /\ LastImage \in Nat
        /\ \A k \in D!Images : k \in Nat /\ FirstImage <= k /\ k <= LastImage
    BY <1>4, ImageBounds
  <2>2. ~ (p < FirstImage)
    BY <1>1, <1>4, <2>1
  <2>3. Depths[p] = (IF ~ D!OneRun THEN 0 ELSE IF p \in D!Images THEN 2 ELSE 3)
    BY <1>4, <2>2, DepthIs
  <2>4. Depths[t] = (IF ~ D!OneRun THEN 0 ELSE IF t \in D!Images THEN 2 ELSE 3)
    BY <1>1, <1>4, DepthIs
  <2> QED
    BY <1>2, <2>3, <2>4
<1> QED
  BY <1>3, <1>4

(* In reach of the samples every layer is right.                            *)
LEMMA DeepIsRight ==
  ASSUME D!VlmDecodeAssumption, prompt \in Seq({"txt", "img"}), D!InReach, NEW c, NEW n \in Nat
  PROVE  Deep(c, n, Depths) <=> Right(c, n)
<1>1. \A l \in D!Layer : l \in Nat /\ l < NumLayers
  BY DEF D!VlmDecodeAssumption, D!Layer
<1>2. ASSUME NEW l \in D!Layer, NEW q \in 0..(n - 1) PROVE l < Depths[q]
  <2>1. q \in Nat
    OBVIOUS
  <2>2. CASE ~ D!GemmaBidir \/ D!Images = {} \/ q < FirstImage
    BY <1>1, <2>1, <2>2, DepthIs
  <2>3. CASE D!GemmaBidir /\ D!Images # {} /\ ~ (q < FirstImage)
    <3>1. D!OneRun /\ NumLayers <= 2 /\ NumLayers \in Nat
      BY <2>3 DEF D!InReach, D!VlmDecodeAssumption
    <3>2. Depths[q] \in {2, 3}
      BY <2>1, <2>3, <3>1, DepthIs
    <3> QED
      BY <1>1, <3>1, <3>2
  <2> QED
    BY <2>2, <2>3
<1> QED
  BY <1>2 DEF Deep, Right

(* So it is before an image.                                                *)
LEMMA DeepBefore ==
  ASSUME D!VlmDecodeAssumption, prompt \in Seq({"txt", "img"}), NEW c, NEW n \in Nat,
         D!Images = {} \/ n <= FirstImage
  PROVE  Deep(c, n, Depths) <=> Right(c, n)
<1>1. \A l \in D!Layer : l \in Nat /\ l < NumLayers
  BY DEF D!VlmDecodeAssumption, D!Layer
<1>2. ASSUME NEW l \in D!Layer, NEW q \in 0..(n - 1) PROVE l < Depths[q]
  <2>1. q \in Nat /\ (D!Images = {} \/ q < FirstImage)
    <3>1. CASE D!Images = {}
      BY <3>1
    <3>2. CASE D!Images # {}
      <4>1. FirstImage \in Nat
        BY <3>2, ImageBounds
      <4> QED
        BY <3>2, <4>1
    <3> QED
      BY <3>1, <3>2
  <2> QED
    BY <1>1, <2>1, DepthIs
<1> QED
  BY <1>2 DEF Deep, Right

(* A step at the end of what is right.                                     *)
LEMMA StepGrows ==
  ASSUME D!VlmDecodeAssumption, D!MaxSeq \in Nat, prompt \in Seq({"txt", "img"}),
         kept \in Caches, NEW p \in D!Position,
         length = p, D!Seen(p) = 0..p, Deep(kept, p, Depths), D!Step(p, D!Want(p))
  PROVE  Deep(kept', p + 1, Depths)
<1>1. p \in Nat /\ (p + 1) - 1 = p /\ 0..p \subseteq D!Position
  BY DEF D!Position
<1>2. \A l \in D!Layer : l \in Nat /\ l \in 0..NumLayers
  BY DEF D!Layer, D!VlmDecodeAssumption
<1>3. 0..((IF p = length THEN length + 1 ELSE length) - 1) = D!Seen(p)
      /\ D!Seen(p) \subseteq D!Position
  BY <1>1
<1>4. ASSUME NEW l \in D!Layer, l < Depths[p] PROVE kept'[l][p] = D!Name(l, p)
  <2>1. ASSUME NEW m \in D!Layer, m < l, NEW t \in D!Seen(p) \ {p}
        PROVE  kept[m][t] = D!Name(m, t)
    <3>1. t \in 0..(p - 1)
      BY <1>1, <2>1
    <3>2. m < Depths[t]
      BY <1>1, <1>4, <2>1, <3>1, DepthDrops
    <3> QED
      BY <3>1, <3>2 DEF Deep
  <2>2. \A k \in D!Layer : k <= l => kept'[k][p] = D!Name(k, p)
    BY <1>2, <1>3, <2>1, StepRight
  <2>3. l \in Nat
    BY <1>2
  <2> QED
    BY <2>2, <2>3
<1>5. \A l \in D!Layer, t \in D!Position \ {p} : kept'[l][t] = kept[l][t]
  <2> DEFINE item == D!Want(p)
  <2>1. D!Step(p, item)
    OBVIOUS
  <2> HIDE DEF item
  <2> QED
    BY <2>1, StepWrites
<1>6. ASSUME NEW l \in D!Layer, NEW q \in 0..((p + 1) - 1), l < Depths[q]
      PROVE  kept'[l][q] = D!Name(l, q)
  <2>1. CASE q = p
    BY <1>4, <1>6, <2>1
  <2>2. CASE q # p
    <3>1. q \in 0..(p - 1) /\ q \in D!Position \ {p}
      BY <1>1, <2>2
    <3> QED
      BY <1>5, <1>6, <3>1 DEF Deep
  <2> QED
    BY <2>1, <2>2
<1> QED
  BY <1>6 DEF Deep

(* A step with a sample does too, and samples from the model if all that    *)
(* comes before is the model's.                                             *)
LEMMA SampleGrows ==
  ASSUME D!VlmDecodeAssumption, D!MaxSeq \in Nat, prompt \in Seq({"txt", "img"}),
         kept \in Caches, NEW p \in D!Position,
         length = p, D!Seen(p) = 0..p, Deep(kept, p, Depths), D!StepAndSample(p, D!Want(p))
  PROVE  /\ Deep(kept', p + 1, Depths)
         /\ Right(kept, p) => next'.from = D!Name(NumLayers, p)
<1> DEFINE item == D!Want(p)
<1>1. D!StepAndSample(p, item)
  OBVIOUS
<1> HIDE DEF item
<1>2. D!Step(p, item)
      /\ next'.from = D!Forward(kept, p, item, IF p = length THEN length + 1 ELSE length).x
  BY <1>1, SampleIsStep
<1>3. D!Step(p, D!Want(p)) /\ next'.from = D!Forward(kept, p, D!Want(p), p + 1).x
  BY <1>2 DEF item
<1>4. Deep(kept', p + 1, Depths)
  BY <1>3, StepGrows
<1> DEFINE r == D!Forward(kept, p, D!Want(p), p + 1)
<1>5. ASSUME Right(kept, p) PROVE r.x = D!Name(NumLayers, p)
  <2> DEFINE c == kept
  <2>1. c \in Caches /\ Right(c, p) /\ r = D!Forward(c, p, D!Want(p), p + 1)
    BY <1>5
  <2> HIDE DEF c, r
  <2> QED
    BY <2>1, RightGrows
<1> QED
  BY <1>3, <1>4, <1>5

(* Nothing has been run at first.                                           *)
LEMMA ValuesInit ==
  ASSUME D!VlmDecodeAssumption, D!Init
  PROVE  Values
<1>1. cursor = 0 /\ phase \in {"prefix", "before", "plain"}
  BY DEF D!Init
<1>2. 0..(0 - 1) = {}
  OBVIOUS
<1>3. Deep(kept, 0, Depths)
  BY <1>2 DEF Deep
<1> QED
  BY <1>1, <1>3 DEF Values, ImageValues

(* Features first, each behind what is right.                               *)
LEMMA ValuesPrefix ==
  ASSUME D!VlmDecodeAssumption, D!TypeOK, Counts, Values, D!PrefixStep
  PROVE  Values'
<1>1. prompt \in Prompts /\ feats \in Features /\ kept \in Caches
  BY DEF D!TypeOK, Caches
<1>2. phase = "prefix"
  BY DEF D!PrefixStep
<1>3. Len(prompt) \in Nat /\ feats \in Nat /\ MaxNew \in Nat /\ D!MaxSeq \in Nat
      /\ D!Shift = (IF Prefix THEN feats ELSE 0)
      /\ (Prefix => ~ D!GemmaBidir) /\ D!Prompted = D!Shift + Len(prompt)
      /\ prompt \in Seq({"txt", "img"})
  BY <1>1, DecodeFacts
<1>4. /\ Prefix /\ cursor = image_idx /\ length = cursor /\ cursor \in Nat
  BY <1>2 DEF Counts, FeaturesFirst, D!TypeOK
<1>8. Depths' = Depths
  <2>1. UNCHANGED <<prompt, feats>>
    BY DEF D!PrefixStep, D!call
  <2> QED
    BY <2>1, DepthsStay
<1>5. Deep(kept, cursor, Depths)
  BY <1>2 DEF Values
<1>6. CASE image_idx < feats
  <2>1. D!Step(cursor, <<"feature", image_idx>>) /\ cursor' = cursor + 1 /\ phase' = phase
    BY <1>6 DEF D!PrefixStep
  <2>2. cursor \in D!Position /\ D!Want(cursor) = <<"feature", cursor>>
        /\ D!Seen(cursor) = 0..cursor
    BY <1>1, <1>3, <1>4, <1>6, InCache, WantIs, SeenIs
  <2>3. Deep(kept', cursor + 1, Depths)
    <3>1. D!Step(cursor, D!Want(cursor))
      BY <1>4, <2>1, <2>2
    <3> QED
      BY <1>1, <1>3, <1>4, <1>5, <2>2, <3>1, StepGrows
  <2> QED
    BY <1>2, <1>8, <2>1, <2>3 DEF Values, ImageValues
<1>7. CASE ~ (image_idx < feats)
  <2>1. phase' = "plain" /\ UNCHANGED <<cursor, kept>>
    BY <1>7 DEF D!PrefixStep
  <2> QED
    BY <1>5, <1>8, <2>1 DEF Values, ImageValues
<1> QED
  BY <1>6, <1>7

(* Text before the image, which is sampled from too.                        *)
LEMMA ValuesBefore ==
  ASSUME D!VlmDecodeAssumption, D!TypeOK, Counts, Values, D!Before
  PROVE  /\ Values'
         /\ \/ /\ phase' = "before" /\ phase = "before" /\ cursor' = cursor + 1
               /\ next'.from = D!Name(NumLayers, cursor)
            \/ /\ phase' = (IF D!Images = {} THEN "check" ELSE "reserve")
               /\ UNCHANGED <<cursor, length, kept, next>>
<1>1. prompt \in Prompts /\ feats \in Features /\ kept \in Caches /\ spot \in Nat
  BY DEF D!TypeOK, Caches
<1>2. phase = "before" /\ UNCHANGED <<prompt, feats>>
  BY DEF D!Before, D!call
<1>3. Len(prompt) \in Nat /\ feats \in Nat /\ MaxNew \in Nat /\ D!MaxSeq \in Nat
      /\ D!Shift = (IF Prefix THEN feats ELSE 0)
      /\ (Prefix => ~ D!GemmaBidir) /\ D!Prompted = D!Shift + Len(prompt)
      /\ prompt \in Seq({"txt", "img"})
  BY <1>1, DecodeFacts
<1>4. D!GemmaBidir /\ cursor = spot /\ length = cursor
  BY <1>2 DEF Counts, TextBefore
<1>8. Depths' = Depths
  BY <1>2, DepthsStay
<1>5. Deep(kept, cursor, Depths)
  BY <1>2 DEF Values
<1>6. CASE spot \notin D!Images /\ spot < Len(prompt)
  <2>1. D!StepAndSample(cursor, <<"text", spot>>) /\ cursor' = cursor + 1 /\ phase' = phase
    BY <1>6 DEF D!Before
  <2>2. cursor \in D!Position /\ D!Want(cursor) = <<"text", spot>> /\ D!Seen(cursor) = 0..cursor
    <3>1. cursor = D!Shift + spot /\ cursor < D!Prompted + MaxNew
      BY <1>1, <1>3, <1>4, <1>6
    <3> QED
      BY <1>1, <1>4, <1>6, <3>1, InCache, WantIs, SeenIs
  <2>3. Deep(kept', cursor + 1, Depths) /\ next'.from = D!Name(NumLayers, cursor)
    <3>1. D!StepAndSample(cursor, D!Want(cursor))
      BY <2>1, <2>2
    <3>2. Right(kept, cursor)
      <4>1. D!Images = {} \/ cursor <= FirstImage
        BY <1>2, <1>3, <1>4, ImageBounds DEF Counts, TextBefore
      <4> QED
        BY <1>1, <1>3, <1>4, <1>5, <4>1, DeepBefore
    <3> QED
      BY <1>1, <1>3, <1>4, <1>5, <2>2, <3>1, <3>2, SampleGrows
  <2> QED
    BY <1>2, <1>8, <2>1, <2>3 DEF Values, ImageValues
<1>7. CASE ~ (spot \notin D!Images /\ spot < Len(prompt))
  <2>1. phase' = (IF D!Images = {} THEN "check" ELSE "reserve")
        /\ UNCHANGED <<cursor, length, kept, next>>
    BY <1>7 DEF D!Before
  <2> QED
    BY <1>5, <1>8, <2>1 DEF Values, ImageValues
<1> QED
  BY <1>6, <1>7

(* Reserving writes nothing.                                                *)
LEMMA ValuesReserve ==
  ASSUME D!VlmDecodeAssumption, D!TypeOK, Counts, Values, D!Reserve
  PROVE  Values'
<1>1. phase = "reserve" /\ phase' = "fill" /\ UNCHANGED <<prompt, feats, spot, cursor, kept>>
  BY DEF D!Reserve, D!call
<1>2. D!Images # {} /\ spot = FirstImage /\ cursor = spot /\ Deep(kept, cursor, Depths)
  BY <1>1 DEF Counts, ImageReserved, Values
<1>3. D!Images' = D!Images /\ FirstImage' = FirstImage
  BY <1>1, CallStays
<1>5. prompt \in Seq({"txt", "img"})
  BY DecodeFacts DEF D!TypeOK
<1>6. Right(kept, FirstImage)
  <2>1. FirstImage \in Nat /\ FirstImage <= FirstImage
    BY <1>2, <1>5, ImageBounds
  <2> QED
    BY <1>2, <1>5, <2>1, DeepBefore
<1>4. \A q \in D!Images : ~ (q < FirstImage)
  <2>1. FirstImage \in Nat /\ \A k \in D!Images : k \in Nat /\ FirstImage <= k
    BY <1>2, <1>5, ImageBounds
  <2> QED
    BY <2>1
<1> QED
  BY <1>1, <1>2, <1>3, <1>4, <1>6 DEF Values, ImageValues

(* The first scan makes the image's first layer right, and the second all.  *)
LEMMA ValuesFill ==
  ASSUME D!VlmDecodeAssumption, D!TypeOK, Counts, Values, D!Fill
  PROVE  Values'
<1>1. prompt \in Prompts /\ feats \in Features /\ kept \in Caches /\ spot \in Nat
  BY DEF D!TypeOK, Caches
<1>2. phase \in {"fill", "replay"} /\ UNCHANGED <<prompt, feats>>
  BY DEF D!Fill, D!call
<1>3. prompt \in Seq({"txt", "img"}) /\ Len(prompt) \in Nat /\ D!MaxSeq \in Nat
      /\ D!Prompted = D!Shift + Len(prompt) /\ MaxNew \in Nat
      /\ D!Shift = (IF Prefix THEN feats ELSE 0) /\ (Prefix => ~ D!GemmaBidir)
      /\ NumLayers \in Nat /\ NumLayers >= 1
  BY <1>1, DecodeFacts
<1>4. D!Images' = D!Images /\ FirstImage' = FirstImage /\ LastImage' = LastImage
      /\ Depths' = Depths /\ (D!OneRun <=> D!OneRun')
  BY <1>2, CallStays, DepthsStay
<1>5. /\ D!GemmaBidir /\ D!Images # {} /\ FirstImage <= spot /\ length = LastImage + 1
      /\ Right(kept, FirstImage)
      /\ \A q \in D!Images :
           /\ q < spot \/ phase = "replay" => kept[0][q] = D!Name(0, q)
           /\ q < spot /\ phase = "replay" /\ D!OneRun =>
                \A l \in D!Layer : l <= 1 => kept[l][q] = D!Name(l, q)
  BY <1>2 DEF Counts, ImageScan, Values, ImageValues
<1>6. FirstImage \in Nat /\ LastImage \in Nat /\ FirstImage <= LastImage /\ LastImage < Len(prompt)
      /\ \A k \in D!Images : k \in Nat /\ FirstImage <= k /\ k <= LastImage
  BY <1>3, <1>5, ImageBounds
<1>7. ASSUME D!OneRun, NEW k \in FirstImage..LastImage PROVE k \in D!Images
  BY <1>7 DEF D!OneRun, FirstImage, LastImage
<1> DEFINE feature == Cardinality({k \in D!Images : k < spot})
<1>0. IF spot > LastImage
      THEN IF phase = "fill"
           THEN phase' = "replay" /\ spot' = FirstImage
                /\ UNCHANGED <<image_idx, cursor, length, kept>>
           ELSE /\ phase' = "after"
                /\ image_idx' = Cardinality(D!Images) /\ cursor' = LastImage + 1
                /\ UNCHANGED <<spot, length, kept>>
      ELSE IF spot \notin D!Images
      THEN spot' = spot + 1 /\ UNCHANGED <<phase, image_idx, cursor, length, kept>>
      ELSE IF feature >= feats
      THEN phase' = "failed" /\ UNCHANGED <<spot, image_idx, cursor, length, kept>>
      ELSE /\ D!Step(spot, <<"feature", feature>>) /\ spot' = spot + 1
           /\ UNCHANGED <<phase, image_idx, cursor>>
  BY DEF D!Fill, FirstImage, LastImage, D!Cardinality, Cardinality
<1> HIDE DEF feature
<1>8. CASE spot > LastImage /\ phase = "fill"
  <2>1. phase' = "replay" /\ spot' = FirstImage /\ kept' = kept
    BY <1>0, <1>8, Zenon
  <2>2. \A q \in D!Images : q < spot /\ ~ (q < FirstImage)
    BY <1>1, <1>6, <1>8
  <2> QED
    BY <1>4, <1>5, <2>1, <2>2 DEF Values, ImageValues
<1>9. CASE spot > LastImage /\ phase # "fill"
  <2>1. phase' = "after" /\ cursor' = LastImage + 1 /\ kept' = kept
    BY <1>0, <1>9, Zenon
  <2>2. phase = "replay"
    BY <1>2, <1>9
  <2>3. ASSUME NEW l \in D!Layer, NEW q \in 0..((LastImage + 1) - 1), l < Depths[q]
        PROVE  kept[l][q] = D!Name(l, q)
    <3>1. CASE q < FirstImage
      <4>1. q \in 0..(FirstImage - 1)
        BY <1>6, <3>1
      <4> QED
        BY <1>5, <4>1 DEF Right
    <3>2. CASE ~ (q < FirstImage)
      <4>1. q \in FirstImage..LastImage /\ q < spot /\ q \in Nat
        BY <1>1, <1>6, <1>9, <3>2
      <4>2. Depths[q] = (IF ~ D!OneRun THEN 0 ELSE IF q \in D!Images THEN 2 ELSE 3)
        BY <1>5, <3>2, <4>1, DepthIs
      <4>3. l \in Nat
        BY <1>3 DEF D!Layer
      <4>4. D!OneRun
        BY <2>3, <4>2, <4>3
      <4>5. q \in D!Images
        BY <1>7, <4>1, <4>4
      <4>6. l <= 1
        BY <2>3, <4>2, <4>3, <4>4, <4>5
      <4> QED
        BY <1>5, <2>2, <4>1, <4>4, <4>5, <4>6
    <3> QED
      BY <3>1, <3>2
  <2>4. Deep(kept, LastImage + 1, Depths)
    BY <2>3 DEF Deep
  <2> QED
    BY <1>4, <2>1, <2>4 DEF Values, ImageValues
<1>10. CASE ~ (spot > LastImage) /\ spot \notin D!Images
  <2>1. spot' = spot + 1 /\ phase' = phase /\ kept' = kept
    BY <1>0, <1>10, Zenon
  <2>2. \A q \in D!Images : q < spot + 1 <=> q < spot
    BY <1>1, <1>6, <1>10
  <2> QED
    BY <1>2, <1>4, <1>5, <2>1, <2>2 DEF Values, ImageValues
<1>11. CASE ~ (spot > LastImage) /\ spot \in D!Images /\ feature >= feats
  <2>1. phase' = "failed"
    BY <1>0, <1>11, Zenon
  <2> QED
    BY <2>1 DEF Values, ImageValues
<1>12. CASE ~ (spot > LastImage) /\ spot \in D!Images /\ ~ (feature >= feats)
  <2>1. D!Step(spot, <<"feature", feature>>) /\ spot' = spot + 1 /\ phase' = phase
    BY <1>0, <1>12, Zenon
  <2>2. spot \in D!Position /\ spot < Len(prompt)
    <3>1. spot < Len(prompt) /\ spot < D!Prompted + MaxNew
      BY <1>1, <1>3, <1>5, <1>6, <1>12
    <3> QED
      BY <1>1, <3>1, InCache
  <2>3. D!Want(spot) = <<"feature", feature>> /\ D!Seen(spot) = 0..LastImage
    <3>1. D!Shift = 0 /\ spot < D!Prompted
      BY <1>3, <1>5, <2>2
    <3>2. D!Seen(spot) = 0..LastImage
      BY <1>5, <1>12, <3>1 DEF D!Seen, LastImage
    <3>3. D!Want(spot) = <<"feature", Below(spot)>>
      BY <1>1, <1>12, <3>1, WantIs
    <3> QED
      BY <3>2, <3>3 DEF feature, Below, Before
  <2>4. D!Step(spot, D!Want(spot))
    BY <2>1, <2>3
  <2>5. 0..((IF spot = length THEN length + 1 ELSE length) - 1) = D!Seen(spot)
        /\ D!Seen(spot) \subseteq D!Position
    <3>1. spot # length /\ (LastImage + 1) - 1 = LastImage
      BY <1>1, <1>5, <1>6, <1>12
    <3>2. \A t \in 0..LastImage : t \in Nat /\ t < D!Prompted + MaxNew
      BY <1>3, <1>5, <1>6
    <3>3. \A t \in 0..LastImage : t \in D!Position
      BY <1>1, <3>2, InCache
    <3> QED
      BY <1>5, <2>3, <3>1, <3>3
  <2>6. ASSUME NEW n \in 0..NumLayers,
               \A m \in D!Layer : m < n => \A t \in D!Seen(spot) \ {spot} :
                 kept[m][t] = D!Name(m, t)
        PROVE  \A l \in D!Layer : l <= n => kept'[l][spot] = D!Name(l, spot)
    BY <1>1, <2>2, <2>4, <2>5, <2>6, StepRight
  <2>7. \A l \in D!Layer, t \in D!Position \ {spot} : kept'[l][t] = kept[l][t]
    <3> DEFINE item == D!Want(spot)
    <3>1. D!Step(spot, item)
      BY <2>4
    <3> HIDE DEF item
    <3> QED
      BY <1>1, <2>2, <3>1, StepWrites
  <2>8. 0 \in D!Layer /\ 0 \in 0..NumLayers /\ 1 \in 0..NumLayers /\ \A l \in D!Layer : l >= 0
    BY <1>3 DEF D!Layer
  <2>9. kept'[0][spot] = D!Name(0, spot)
    <3>1. \A m \in D!Layer : ~ (m < 0)
      BY <1>3 DEF D!Layer
    <3>2. \A l \in D!Layer : l <= 0 => kept'[l][spot] = D!Name(l, spot)
      BY <2>6, <2>8, <3>1
    <3> QED
      BY <2>8, <3>2
  <2>10. ASSUME phase = "replay", D!OneRun
         PROVE  \A l \in D!Layer : l <= 1 => kept'[l][spot] = D!Name(l, spot)
    <3>1. ASSUME NEW m \in D!Layer, m < 1, NEW t \in D!Seen(spot) \ {spot}
          PROVE  kept[m][t] = D!Name(m, t)
      <4>1. m = 0
        BY <1>3, <3>1 DEF D!Layer
      <4>2. CASE t < FirstImage
        <5>1. t \in 0..(FirstImage - 1)
          BY <1>6, <2>3, <4>2
        <5> QED
          BY <1>5, <5>1 DEF Right
      <4>3. CASE ~ (t < FirstImage)
        <5>1. t \in FirstImage..LastImage
          BY <1>6, <2>3, <4>3
        <5> QED
          BY <1>5, <1>7, <2>10, <4>1, <5>1
      <4> QED
        BY <4>2, <4>3
    <3> QED
      BY <2>6, <2>8, <3>1
  <2>11. Right(kept', FirstImage)
    <3>1. ASSUME NEW l \in D!Layer, NEW q \in 0..(FirstImage - 1)
          PROVE  kept'[l][q] = D!Name(l, q)
      <4>1. q \in D!Position /\ q # spot
        <5>1. q \in Nat /\ q < D!Prompted + MaxNew /\ q # spot
          BY <1>1, <1>3, <1>5, <1>6
        <5> QED
          BY <1>1, <5>1, InCache
      <4> QED
        BY <1>5, <2>7, <4>1 DEF Right
    <3> QED
      BY <3>1 DEF Right
  <2>12. ASSUME NEW q \in D!Images
         PROVE  /\ q < spot + 1 \/ phase = "replay" => kept'[0][q] = D!Name(0, q)
                /\ q < spot + 1 /\ phase = "replay" /\ D!OneRun =>
                     \A l \in D!Layer : l <= 1 => kept'[l][q] = D!Name(l, q)
    <3>1. CASE q = spot
      BY <2>9, <2>10, <3>1
    <3>2. CASE q # spot
      <4>1. q \in D!Position
        <5>1. q \in Nat /\ q < D!Prompted + MaxNew
          BY <1>3, <1>5, <1>6
        <5> QED
          BY <1>1, <5>1, InCache
      <4>2. q < spot + 1 <=> q < spot
        BY <1>1, <1>6, <3>2
      <4>3. \A l \in D!Layer : kept'[l][q] = kept[l][q]
        BY <2>7, <3>2, <4>1
      <4> QED
        BY <1>5, <2>8, <4>2, <4>3
    <3> QED
      BY <3>1, <3>2
  <2> QED
    BY <1>2, <1>4, <2>1, <2>11, <2>12 DEF Values, ImageValues
<1> QED
  BY <1>8, <1>9, <1>10, <1>11, <1>12

(* Text behind the image, which is sampled from too.                        *)
LEMMA ValuesAfter ==
  ASSUME D!VlmDecodeAssumption, D!TypeOK, Counts, Values, D!After
  PROVE  /\ Values'
         /\ \/ /\ phase' = "after" /\ cursor' = cursor + 1
               /\ D!InReach => next'.from = D!Name(NumLayers, cursor)
            \/ phase' = "check" /\ UNCHANGED <<cursor, length, kept, next>>
<1>1. prompt \in Prompts /\ feats \in Features /\ kept \in Caches /\ spot \in Nat
  BY DEF D!TypeOK, Caches
<1>2. phase = "after" /\ UNCHANGED <<prompt, feats>>
  BY DEF D!After, D!call
<1>3. Len(prompt) \in Nat /\ feats \in Nat /\ MaxNew \in Nat /\ D!MaxSeq \in Nat
      /\ D!Shift = (IF Prefix THEN feats ELSE 0) /\ prompt \in Seq({"txt", "img"})
      /\ (Prefix => ~ D!GemmaBidir) /\ D!Prompted = D!Shift + Len(prompt)
  BY <1>1, DecodeFacts
<1>4. D!GemmaBidir /\ D!Images # {} /\ cursor = spot /\ length = cursor /\ LastImage < spot
  BY <1>2 DEF Counts, TextAfter
<1>8. Depths' = Depths
  BY <1>2, DepthsStay
<1>5. Deep(kept, cursor, Depths)
  BY <1>2 DEF Values
<1>6. CASE spot < Len(prompt)
  <2>1. D!StepAndSample(cursor, <<"text", spot>>) /\ cursor' = cursor + 1 /\ phase' = phase
    BY <1>6 DEF D!After
  <2>0. spot \notin D!Images
    <3>1. \A k \in D!Images : k \in Nat /\ k <= LastImage /\ LastImage \in Nat
      BY <1>3, <1>4, ImageBounds
    <3> QED
      BY <1>1, <1>4, <3>1
  <2>2. cursor \in D!Position /\ D!Want(cursor) = <<"text", spot>> /\ D!Seen(cursor) = 0..cursor
    <3>1. cursor = D!Shift + spot /\ cursor < D!Prompted + MaxNew
      BY <1>1, <1>3, <1>4, <1>6
    <3> QED
      BY <1>1, <1>4, <1>6, <2>0, <3>1, InCache, WantIs, SeenIs
  <2>3. Deep(kept', cursor + 1, Depths)
        /\ (D!InReach => next'.from = D!Name(NumLayers, cursor))
    <3>1. D!StepAndSample(cursor, D!Want(cursor))
      BY <2>1, <2>2
    <3>2. D!InReach => Right(kept, cursor)
      BY <1>1, <1>3, <1>4, <1>5, DeepIsRight
    <3> QED
      BY <1>1, <1>3, <1>4, <1>5, <2>2, <3>1, <3>2, SampleGrows
  <2> QED
    BY <1>2, <1>8, <2>1, <2>3 DEF Values, ImageValues
<1>7. CASE ~ (spot < Len(prompt))
  <2>1. phase' = "check" /\ UNCHANGED <<cursor, length, kept, next>>
    BY <1>7 DEF D!After
  <2> QED
    BY <1>5, <1>8, <2>1 DEF Values, ImageValues
<1> QED
  BY <1>6, <1>7

(* A batch of features in their order.                                      *)
LEMMA ValuesRun ==
  ASSUME D!VlmDecodeAssumption, D!TypeOK, Counts, Values, D!PlainRun
  PROVE  Values'
<1> DEFINE n == D!RunLength
<1>1. prompt \in Prompts /\ feats \in Features /\ kept \in Caches /\ spot \in Nat
      /\ image_idx \in Nat
  BY DEF D!TypeOK, Caches
<1>2. phase = "plain" /\ spot \in D!Images /\ UNCHANGED <<prompt, feats>>
  BY DEF D!PlainRun, D!call
<1>3. prompt \in Seq({"txt", "img"}) /\ Len(prompt) \in Nat /\ feats \in Nat /\ MaxNew \in Nat
      /\ D!MaxSeq \in Nat /\ D!Shift = (IF Prefix THEN feats ELSE 0)
      /\ D!Prompted = D!Shift + Len(prompt)
  BY <1>1, DecodeFacts
<1>4. /\ ~ D!GemmaBidir /\ cursor = D!Shift + spot /\ length = cursor
      /\ image_idx = IF Prefix THEN feats ELSE Below(spot)
  BY <1>2 DEF Counts, PlainScan
<1>5. Right(kept, cursor)
  <2>1. D!InReach /\ cursor \in Nat
    BY <1>1, <1>3, <1>4 DEF D!InReach
  <2>2. Deep(kept, cursor, Depths)
    BY <1>2 DEF Values
  <2> QED
    BY <1>3, <2>1, <2>2, DeepIsRight
<1>6. n \in 1..(Len(prompt) - spot) /\ \A k \in spot..(spot + n - 1) : k \in D!Images
  BY <1>2, <1>3, RunIs
<1>7. n \in Nat /\ n >= 1 /\ spot + n <= Len(prompt)
  BY <1>1, <1>3, <1>6
<1> HIDE DEF n
<1>8. CASE image_idx + n > feats
  <2>1. phase' = "failed"
    BY <1>8 DEF D!PlainRun, n
  <2> QED
    BY <2>1 DEF Values, ImageValues
<1>9. CASE ~ (image_idx + n > feats)
  <2>1. D!PrefillFused(cursor, n, image_idx) /\ cursor' = cursor + n /\ phase' = phase
    BY <1>9 DEF D!PlainRun, n
  <2>2. ~ Prefix /\ D!Shift = 0 /\ cursor = spot /\ image_idx = Below(spot)
    BY <1>1, <1>3, <1>4, <1>7, <1>9
  <2>3. ASSUME NEW k \in 1..n
        PROVE  /\ cursor + k - 1 \in D!Position
               /\ D!Want(cursor + k - 1) = <<"feature", image_idx + k - 1>>
               /\ D!Seen(cursor + k - 1) = 0..(cursor + k - 1)
    <3> DEFINE q == cursor + k - 1
    <3>1. q \in Nat /\ q < D!Prompted + MaxNew /\ q \in spot..(spot + n - 1)
          /\ k - 1 \in 0..n /\ q = spot + (k - 1)
      BY <1>1, <1>3, <1>7, <2>2
    <3>2. q \in D!Images
      BY <1>6, <3>1
    <3>3. Below(q) = image_idx + k - 1
      <4>1. Below(spot + (k - 1)) = Below(spot) + (k - 1)
        BY <1>1, <1>3, <1>6, <1>7, <3>1, BelowRuns
      <4> QED
        BY <1>1, <2>2, <3>1, <4>1
    <3> HIDE DEF q
    <3>4. D!Want(q) = <<"feature", Below(q)>>
      BY <1>1, <2>2, <3>1, <3>2, WantIs
    <3>5. q \in D!Position /\ D!Seen(q) = 0..q
      BY <1>1, <1>4, <3>1, InCache, SeenIs
    <3> QED
      BY <3>3, <3>4, <3>5 DEF q
  <2>4. Right(kept', cursor + n)
    <3> DEFINE p == cursor
               first == image_idx
    <3>1. p \in Nat /\ first \in Nat /\ D!PrefillFused(p, n, first) /\ Right(kept, p)
      BY <1>1, <1>5, <2>1, <2>2
    <3>2. \A k \in 1..n : /\ p + k - 1 \in D!Position
                          /\ D!Want(p + k - 1) = <<"feature", first + k - 1>>
                          /\ D!Seen(p + k - 1) = 0..(p + k - 1)
      BY <2>3
    <3> HIDE DEF p, first
    <3>3. Right(kept', p + n)
      BY <1>1, <1>3, <1>7, <3>1, <3>2, FusedRight
    <3> QED
      BY <3>3 DEF p
  <2>5. Deep(kept', cursor + n, Depths)
    <3>1. D!InReach /\ cursor + n \in Nat
      BY <1>1, <1>3, <1>4, <1>7 DEF D!InReach
    <3> QED
      BY <1>3, <2>4, <3>1, DeepIsRight
  <2>6. Depths' = Depths
    BY <1>2, DepthsStay
  <2> QED
    BY <1>2, <2>1, <2>5, <2>6 DEF Values, ImageValues
<1> QED
  BY <1>8, <1>9

(* Text between them.                                                       *)
LEMMA ValuesText ==
  ASSUME D!VlmDecodeAssumption, D!TypeOK, Counts, Values, D!PlainText
  PROVE  Values'
<1>1. prompt \in Prompts /\ feats \in Features /\ kept \in Caches /\ spot \in Nat
  BY DEF D!TypeOK, Caches
<1>2. phase = "plain" /\ spot \notin D!Images /\ Depths' = Depths
  <2>1. UNCHANGED <<prompt, feats>>
    BY DEF D!PlainText, D!call
  <2> QED
    BY <2>1, DepthsStay DEF D!PlainText
<1>3. Len(prompt) \in Nat /\ feats \in Nat /\ MaxNew \in Nat /\ D!MaxSeq \in Nat
      /\ D!Shift \in Nat /\ prompt \in Seq({"txt", "img"}) /\ D!Prompted = D!Shift + Len(prompt)
  BY <1>1, DecodeFacts
<1>4. ~ D!GemmaBidir /\ cursor = D!Shift + spot /\ length = cursor /\ Deep(kept, cursor, Depths)
  BY <1>2 DEF Counts, PlainScan, Values
<1>5. CASE spot < Len(prompt)
  <2>1. D!Step(cursor, <<"text", spot>>) /\ cursor' = cursor + 1 /\ phase' = phase
    BY <1>5 DEF D!PlainText
  <2>2. cursor \in D!Position /\ D!Want(cursor) = <<"text", spot>> /\ D!Seen(cursor) = 0..cursor
    <3>1. cursor \in Nat /\ cursor < D!Prompted + MaxNew
      BY <1>1, <1>3, <1>4, <1>5
    <3> QED
      BY <1>1, <1>2, <1>4, <1>5, <3>1, InCache, WantIs, SeenIs
  <2>3. Deep(kept', cursor + 1, Depths)
    <3>1. D!Step(cursor, D!Want(cursor))
      BY <2>1, <2>2
    <3> QED
      BY <1>1, <1>3, <1>4, <2>2, <3>1, StepGrows
  <2> QED
    BY <1>2, <2>1, <2>3 DEF Values, ImageValues
<1>6. CASE ~ (spot < Len(prompt))
  <2>1. phase' = "check" /\ UNCHANGED <<cursor, kept>>
    BY <1>6 DEF D!PlainText
  <2> QED
    BY <1>2, <1>4, <2>1 DEF Values, ImageValues
<1> QED
  BY <1>5, <1>6

(* The check writes nothing.                                                *)
LEMMA ValuesCheck ==
  ASSUME D!VlmDecodeAssumption, D!TypeOK, Counts, Values, D!Check
  PROVE  Values'
<1>1. phase = "check" /\ phase' \in {"failed", "last", "generate"}
      /\ UNCHANGED <<cursor, length, kept>> /\ Depths' = Depths
  <2>1. UNCHANGED <<prompt, feats>>
    BY DEF D!Check, D!call
  <2> QED
    BY <2>1, DepthsStay DEF D!Check
<1>2. Deep(kept, cursor, Depths) /\ length = cursor
  BY <1>1 DEF Counts, PromptRun, Values
<1> QED
  BY <1>1, <1>2 DEF Values, ImageValues

(* Llama's last position is run again: it is what was there already, and   *)
(* the sample is the model's.                                              *)
LEMMA ValuesFirst ==
  ASSUME D!VlmDecodeAssumption, D!TypeOK, Counts, Values, D!FirstToken
  PROVE  Values' /\ next'.from = D!Name(NumLayers, D!Prompted - 1)
<1> DEFINE p == cursor - 1
           n == NumLayers
<1>1. prompt \in Prompts /\ feats \in Features /\ kept \in Caches
  BY DEF D!TypeOK, Caches
<1>2. phase = "last" /\ phase' = "generate" /\ D!StepAndSample(p, D!Want(p))
      /\ UNCHANGED <<prompt, feats>>
  BY DEF D!FirstToken, D!call
<1>3. D!Prompted \in Nat /\ D!Prompted >= 1 /\ MaxNew \in Nat /\ D!MaxSeq \in Nat
      /\ prompt \in Seq({"txt", "img"})
  BY <1>1, DecodeFacts
<1>4. cursor = D!Prompted /\ length = cursor /\ Runner = "llama" /\ Right(kept, cursor)
  <2>1. cursor = D!Prompted /\ length = cursor /\ Runner = "llama" /\ Deep(kept, cursor, Depths)
    BY <1>2 DEF Counts, PromptRun, Values
  <2>2. D!InReach
    BY <2>1 DEF D!InReach, D!GemmaBidir
  <2> QED
    BY <1>3, <2>1, <2>2, DeepIsRight
<1>5. p \in D!Position /\ p \in Nat /\ p # length /\ length - 1 = p /\ p + 1 = cursor
  BY <1>1, <1>3, <1>4, InCache
<1>6. D!Seen(p) = 0..p
  BY <1>4, SeenIs DEF D!GemmaBidir
<1> HIDE DEF p
<1>7. 0..((IF p = length THEN length + 1 ELSE length) - 1) = D!Seen(p)
      /\ D!Seen(p) \subseteq D!Position
  BY <1>3, <1>5, <1>6 DEF D!Position
<1>8. \A m \in D!Layer, t \in D!Seen(p) \ {p} : kept[m][t] = D!Name(m, t)
  <2>1. \A t \in D!Seen(p) : t \in 0..(cursor - 1)
    BY <1>3, <1>4, <1>5, <1>6
  <2> QED
    BY <1>4, <2>1 DEF Right
<1>9. next'.from = D!Name(NumLayers, p)
  BY <1>1, <1>2, <1>5, <1>7, <1>8, SampleRight
<1> DEFINE item == D!Want(p)
<1>10. D!StepAndSample(p, item)
  BY <1>2
<1> HIDE DEF item
<1>11. D!Step(p, item)
  BY <1>1, <1>5, <1>10, SampleIsStep
<1>12. length' = length /\ \A l \in D!Layer, t \in D!Position \ {p} : kept'[l][t] = kept[l][t]
  BY <1>1, <1>5, <1>11, StepWrites
<1>13. \A l \in D!Layer : kept'[l][p] = D!Name(l, p)
  <2>1. n \in 0..NumLayers /\ \A l \in D!Layer : l <= n
    BY DEF D!VlmDecodeAssumption, D!Layer
  <2>2. D!Step(p, D!Want(p))
    BY <1>11 DEF item
  <2>3. \A m \in D!Layer : m < n => \A t \in D!Seen(p) \ {p} : kept[m][t] = D!Name(m, t)
    BY <1>8
  <2> HIDE DEF n
  <2>4. \A l \in D!Layer : l <= n => kept'[l][p] = D!Name(l, p)
    BY <1>1, <1>5, <1>7, <2>1, <2>2, <2>3, StepRight
  <2> QED
    BY <2>1, <2>4
<1>14. Right(kept', length')
  <2>1. ASSUME NEW l \in D!Layer, NEW q \in 0..(length' - 1) PROVE kept'[l][q] = D!Name(l, q)
    <3>1. CASE q = p
      BY <1>13, <3>1
    <3>2. CASE q # p
      <4>1. q \in D!Position \ {p} /\ q \in 0..(cursor - 1)
        BY <1>1, <1>3, <1>4, <1>12, <3>2, InCache
      <4> QED
        BY <1>4, <1>12, <4>1 DEF Right
    <3> QED
      BY <3>1, <3>2
  <2> QED
    BY <2>1 DEF Right
<1>15. Deep(kept', length', Depths)
  <2>1. D!InReach /\ length' \in Nat
    BY <1>3, <1>4, <1>12 DEF D!InReach, D!GemmaBidir
  <2> QED
    BY <1>3, <1>14, <2>1, DeepIsRight
<1>16. Depths' = Depths
  BY <1>2, DepthsStay
<1> QED
  BY <1>2, <1>4, <1>9, <1>15, <1>16 DEF Values, ImageValues, p

(* A generated token, run behind what is right.                             *)
LEMMA ValuesTurn ==
  ASSUME D!VlmDecodeAssumption, D!TypeOK, Counts, Values, D!Generate
  PROVE  /\ Values'
         /\ D!InReach /\ phase' = "generate" =>
              next'.from = D!Name(NumLayers, D!Prompted + Len(generated))
<1>1. prompt \in Prompts /\ feats \in Features /\ kept \in Caches
      /\ generated \in Seq(D!Sample) /\ Len(generated) <= MaxNew
  BY DEF D!TypeOK, Caches
<1>2. phase = "generate" /\ UNCHANGED <<prompt, feats, cursor>>
  BY TurnIs
<1>3. D!Prompted \in Nat /\ MaxNew \in Nat /\ D!MaxSeq \in Nat /\ Len(generated) \in Nat
      /\ prompt \in Seq({"txt", "img"})
  BY <1>1, DecodeFacts
<1>4. D!Prompted' = D!Prompted /\ Depths' = Depths
  BY <1>2, CallStays, DepthsStay
<1>5. cursor = D!Prompted /\ length = D!Prompted + Len(generated) /\ Deep(kept, length, Depths)
  BY <1>2 DEF Counts, PromptRun, Generation, Values
<1>6. CASE phase' = "done" /\ kept' = kept
  <2>1. Deep(kept, D!Prompted, Depths)
    <3>1. 0..(D!Prompted - 1) \subseteq 0..(length - 1)
      BY <1>3, <1>5
    <3> QED
      BY <1>5, <3>1 DEF Deep
  <2> QED
    BY <1>4, <1>6, <2>1 DEF Values, ImageValues
<1>7. CASE /\ Len(generated) # MaxNew /\ phase' = phase
           /\ D!StepAndSample(cursor + Len(generated), <<"generated", Len(generated)>>)
  <2> DEFINE p == cursor + Len(generated)
  <2>1. p \in Nat /\ p < D!Prompted + MaxNew /\ p = length /\ p >= D!Prompted
        /\ p - D!Prompted = Len(generated) /\ ~ (p < D!Prompted)
    BY <1>1, <1>3, <1>5, <1>7
  <2> HIDE DEF p
  <2>2. p \in D!Position /\ D!Want(p) = <<"generated", Len(generated)>> /\ D!Seen(p) = 0..p
    <3>1. D!Want(p) = <<"generated", p - D!Prompted>>
      BY <1>1, <2>1, WantIs
    <3> QED
      BY <1>1, <2>1, <3>1, InCache, SeenIs
  <2>3. D!StepAndSample(p, D!Want(p))
    BY <1>7, <2>2 DEF p
  <2>4. Deep(kept', p + 1, Depths) /\ (D!InReach => next'.from = D!Name(NumLayers, p))
    <3>1. D!InReach => Right(kept, p)
      BY <1>3, <1>5, <2>1, DeepIsRight
    <3> QED
      BY <1>1, <1>3, <1>5, <2>1, <2>2, <2>3, <3>1, SampleGrows
  <2>5. length' = length + 1
    <3> DEFINE item == D!Want(p)
    <3>1. D!StepAndSample(p, item)
      BY <2>3
    <3> HIDE DEF item
    <3>2. D!Step(p, item)
      BY <1>1, <2>2, <3>1, SampleIsStep
    <3> QED
      BY <1>1, <2>1, <2>2, <3>2, StepWrites
  <2> QED
    BY <1>2, <1>4, <1>5, <1>7, <2>1, <2>4, <2>5 DEF Values, ImageValues
<1> QED
  BY <1>6, <1>7, TurnIs

(* What the cache holds is inductive.                                       *)
LEMMA ValuesStep ==
  ASSUME D!VlmDecodeAssumption, D!TypeOK, Counts, Values, [D!Next]_(D!vars)
  PROVE  Values'
<1>1. CASE UNCHANGED D!vars
  <2>1. UNCHANGED <<prompt, feats, phase, spot, cursor, image_idx, length, kept, next, generated>>
    BY <1>1 DEF D!vars, D!call
  <2>2. D!Images' = D!Images /\ D!Prompted' = D!Prompted /\ FirstImage' = FirstImage
        /\ Depths' = Depths /\ (D!OneRun <=> D!OneRun')
    BY <2>1, CallStays, DepthsStay
  <2> QED
    BY <2>1, <2>2 DEF Values, ImageValues
<1>2. CASE D!Next
  BY <1>2, ValuesPrefix, ValuesBefore, ValuesReserve, ValuesFill, ValuesAfter, ValuesRun,
    ValuesText, ValuesCheck, ValuesFirst, ValuesTurn DEF D!Next
<1> QED
  BY <1>1, <1>2

(* When generation starts, the cache holds what the model makes of the     *)
(* prompt with its features in their places: in every layer, whichever way *)
(* the prompt was prefilled, except from an image with a two-sided prefill *)
(* on.  There it does in two layers, and in three behind the image, however*)
(* many the model has; and nothing is said of a broken run of placeholders.*)
THEOREM PrefillExact ==
  ASSUME D!VlmDecodeAssumption
  PROVE  D!Spec => []D!PrefillIsTheModels
<1>1. D!Init => D!TypeOK /\ Counts /\ Values
  BY DecodeInit, ValuesInit
<1>2. (D!TypeOK /\ Counts /\ Values) /\ [D!Next]_(D!vars) => (D!TypeOK /\ Counts /\ Values)'
  BY DecodeStep, ValuesStep
<1>3. D!TypeOK /\ Counts /\ Values => D!PrefillIsTheModels
  <2> SUFFICES ASSUME D!TypeOK, Counts, Values, phase \in {"last", "generate", "done"}
               PROVE  D!PrefillIsTheModels
    BY DEF D!PrefillIsTheModels
  <2>1. cursor = D!Prompted
    BY DEF Counts, PromptRun
  <2>2. Deep(kept, D!Prompted, Depths)
    <3>1. CASE phase = "generate"
      <4>1. length = D!Prompted + Len(generated) /\ Deep(kept, length, Depths)
        BY <3>1 DEF Counts, Generation, Values
      <4>2. Len(generated) \in Nat /\ D!Prompted \in Nat
        BY <2>1 DEF D!TypeOK
      <4>3. 0..(D!Prompted - 1) \subseteq 0..(length - 1)
        BY <4>1, <4>2
      <4> QED
        BY <4>1, <4>3 DEF Deep
    <3>2. CASE phase # "generate"
      BY <2>1, <3>2 DEF Values
    <3> QED
      BY <3>1, <3>2
  <2>3. \A p \in 0..(D!Prompted - 1) : p \in Nat /\ Depths[p] = D!Depth(p)
    <3>1. D!Prompted \in Nat
      BY DecodeFacts DEF D!TypeOK
    <3>2. ASSUME NEW p \in 0..(D!Prompted - 1) PROVE p \in Nat
      BY <3>1
    <3> QED
      BY <3>2, DepthIs
  <2> QED
    BY <2>1, <2>2, <2>3 DEF D!PrefillIsTheModels, Deep
<1> QED
  BY <1>1, <1>2, <1>3, PTL DEF D!Spec

-----------------------------------------------------------------------------
(* What is sampled, and when generation ends                               *)

(* What the token at hand was sampled from: nothing yet, where the prefill  *)
(* does not sample.                                                         *)
SampledFrom ==
  /\ phase = "before" /\ cursor > 0 => next.from = D!Name(NumLayers, cursor - 1)
  /\ D!InReach /\ phase = "after" /\ cursor > LastImage + 1 =>
       next.from = D!Name(NumLayers, cursor - 1)
  /\ D!InReach /\ phase = "check" /\ D!GemmaBidir => next.from = D!Name(NumLayers, cursor - 1)
  /\ phase \in {"prefix", "plain"} \/ (phase = "check" /\ ~ D!GemmaBidir) => next.from = D!Stale
  /\ D!InReach /\ phase = "generate" =>
       next.from = IF generated = << >> /\ Runner = "gemma" /\ ~ D!GemmaBidir THEN D!Stale
                   ELSE D!Name(NumLayers, D!Prompted + Len(generated) - 1)

(* What the token at hand was sampled from is kept up.                      *)
LEMMA SampledStep ==
  ASSUME D!VlmDecodeAssumption, D!TypeOK, Counts, Values, SampledFrom,
         D!TypeOK', D!Next
  PROVE  SampledFrom'
<1>1. prompt \in Prompts /\ feats \in Features /\ kept \in Caches /\ spot \in 0..Len(prompt)
      /\ cursor \in Nat /\ generated \in Seq(D!Sample) /\ Len(generated) \in Nat
  BY DEF D!TypeOK, Caches
<1>2. D!Prompted \in Nat /\ D!Prompted >= 1 /\ prompt \in Seq({"txt", "img"})
      /\ Len(prompt) \in Nat /\ D!Prompted = D!Shift + Len(prompt) /\ Len(prompt) >= 1
      /\ D!Shift = (IF Prefix THEN feats ELSE 0) /\ (Prefix => ~ D!GemmaBidir)
  BY <1>1, DecodeFacts
<1>3. UNCHANGED <<prompt, feats>>
  BY DEF D!Next, D!PrefixStep, D!Before, D!Reserve, D!Fill, D!After, D!PlainRun, D!PlainText,
    D!Check, D!FirstToken, D!Generate, D!call
<1>4. D!Prompted' = D!Prompted /\ LastImage' = LastImage /\ D!Images' = D!Images
      /\ (D!InReach <=> D!InReach') /\ (D!GemmaBidir <=> D!GemmaBidir')
  BY <1>3, CallStays, DepthsStay DEF D!GemmaBidir
<1>5. CASE D!PrefixStep
  <2>1. phase = "prefix" /\ phase' \in {"prefix", "plain"} /\ next' = next
    BY <1>5 DEF D!PrefixStep
  <2> QED
    BY <2>1 DEF SampledFrom
<1>6. CASE D!Before
  <2>1. \/ phase' = "before" /\ cursor' = cursor + 1 /\ next'.from = D!Name(NumLayers, cursor)
        \/ /\ phase' = (IF D!Images = {} THEN "check" ELSE "reserve")
           /\ UNCHANGED <<cursor, next>>
    BY <1>6, ValuesBefore
  <2>2. CASE phase' = "before" /\ cursor' = cursor + 1 /\ next'.from = D!Name(NumLayers, cursor)
    <3>1. cursor' - 1 = cursor
      BY <1>1, <2>2
    <3> QED
      BY <2>2, <3>1 DEF SampledFrom
  <2>3. CASE phase' = "reserve"
    BY <2>3 DEF SampledFrom
  <2>4. CASE D!Images = {} /\ phase' = "check" /\ UNCHANGED <<cursor, next>>
    <3>1. phase = "before" /\ cursor = spot /\ D!GemmaBidir
      BY <1>6 DEF D!Before, Counts, TextBefore
    <3>2. cursor > 0
      <4>1. ~ (spot \notin D!Images /\ spot < Len(prompt))
        BY <1>6, <2>4, <3>1 DEF D!Before
      <4> QED
        BY <1>1, <1>2, <2>4, <3>1, <4>1
    <3>3. next.from = D!Name(NumLayers, cursor - 1)
      BY <3>1, <3>2 DEF SampledFrom
    <3> QED
      BY <1>4, <2>4, <3>1, <3>3 DEF SampledFrom
  <2> QED
    BY <2>1, <2>2, <2>3, <2>4
<1>7. CASE D!Reserve
  <2>1. phase' = "fill"
    BY <1>7 DEF D!Reserve
  <2> QED
    BY <2>1 DEF SampledFrom
<1>8. CASE D!Fill
  <2>1. \/ phase' \in {"fill", "replay", "failed"}
        \/ phase' = "after" /\ cursor' = LastImage + 1
    BY <1>8 DEF D!Fill, LastImage
  <2>2. CASE phase' \in {"fill", "replay", "failed"}
    BY <2>2 DEF SampledFrom
  <2>3. CASE phase' = "after" /\ cursor' = LastImage + 1
    <3>1. ~ (cursor' > LastImage + 1)
      <4>1. cursor' \in Nat
        BY DEF D!TypeOK
      <4> QED
        BY <2>3, <4>1
    <3> QED
      BY <1>4, <2>3, <3>1 DEF SampledFrom
  <2> QED
    BY <2>1, <2>2, <2>3
<1>9. CASE D!After
  <2>0. phase = "after"
    BY <1>9 DEF D!After
  <2>1. \/ /\ phase' = "after" /\ cursor' = cursor + 1
           /\ D!InReach => next'.from = D!Name(NumLayers, cursor)
        \/ phase' = "check" /\ UNCHANGED <<cursor, next>>
    BY <1>9, ValuesAfter
  <2>2. CASE /\ phase' = "after" /\ cursor' = cursor + 1
             /\ D!InReach => next'.from = D!Name(NumLayers, cursor)
    <3>1. cursor' - 1 = cursor
      BY <1>1, <2>2
    <3> QED
      BY <1>4, <2>2, <3>1 DEF SampledFrom
  <2>3. CASE phase' = "check" /\ UNCHANGED <<cursor, next>>
    <3>1. /\ D!GemmaBidir /\ D!Images # {} /\ cursor = spot /\ LastImage < spot
          /\ Runner # "llama"
      BY <2>0 DEF Counts, TextAfter, D!GemmaBidir
    <3>2. spot = Len(prompt)
      <4>1. ~ (spot < Len(prompt))
        BY <1>9, <2>0, <2>3 DEF D!After
      <4> QED
        BY <1>1, <1>2, <4>1
    <3>3. LastImage \in Nat /\ LastImage \in D!Images
      BY <1>2, <3>1, ImageBounds
    <3>4. ASSUME D!InReach PROVE next.from = D!Name(NumLayers, cursor - 1)
      <4>1. prompt[LastImage + 1] = "img" /\ prompt[(Len(prompt) - 1) + 1] # "img"
        BY <3>1, <3>3, <3>4 DEF D!Images, D!Tok, D!InReach
      <4>2. cursor > LastImage + 1
        <5>1. LastImage + 1 # (Len(prompt) - 1) + 1
          BY <4>1
        <5> QED
          BY <1>2, <3>1, <3>2, <3>3, <5>1
      <4> QED
        BY <2>0, <3>4, <4>2 DEF SampledFrom
    <3> QED
      BY <1>4, <2>3, <3>1, <3>4 DEF SampledFrom
  <2> QED
    BY <2>1, <2>2, <2>3
<1>10. CASE D!PlainRun \/ D!PlainText
  <2>1. phase = "plain" /\ phase' \in {"plain", "failed", "check"} /\ next' = next
    BY <1>10 DEF D!PlainRun, D!PlainText
  <2>2. ~ D!GemmaBidir
    BY <2>1 DEF Counts, PlainScan
  <2> QED
    BY <1>4, <2>1, <2>2 DEF SampledFrom
<1>11. CASE D!Check
  <2>1. /\ phase = "check" /\ UNCHANGED <<cursor, next, generated>>
        /\ phase' = (IF image_idx # feats THEN "failed"
                     ELSE IF Runner = "llama" THEN "last" ELSE "generate")
    BY <1>11 DEF D!Check
  <2>2. cursor = D!Prompted /\ generated = << >>
    BY <2>1 DEF Counts, PromptRun, Generation
  <2>3. CASE phase' = "generate"
    <3>1. D!Prompted + Len(generated) - 1 = cursor - 1
      BY <1>2, <2>2
    <3>2. Runner # "llama"
      BY <2>1, <2>3
    <3>3. CASE D!GemmaBidir
      <4>1. D!InReach => next.from = D!Name(NumLayers, cursor - 1)
        BY <2>1, <3>3 DEF SampledFrom
      <4> QED
        BY <1>4, <2>1, <2>3, <3>1, <3>3, <4>1 DEF SampledFrom
    <3>4. CASE ~ D!GemmaBidir
      <4>1. next.from = D!Stale /\ Runner = "gemma"
        BY <2>1, <3>2, <3>4 DEF SampledFrom, D!VlmDecodeAssumption
      <4> QED
        BY <1>4, <2>1, <2>2, <2>3, <3>4, <4>1 DEF SampledFrom
    <3> QED
      BY <3>3, <3>4
  <2>4. CASE phase' # "generate"
    <3>1. phase' = "failed" \/ phase' = "last"
      BY <2>1, <2>4
    <3> QED
      BY <3>1 DEF SampledFrom
  <2> QED
    BY <2>3, <2>4
<1>12. CASE D!FirstToken
  <2>1. phase = "last" /\ phase' = "generate" /\ generated' = generated
    BY <1>12 DEF D!FirstToken
  <2>2. generated = << >>
    BY <2>1 DEF Counts, Generation
  <2>3. next'.from = D!Name(NumLayers, D!Prompted - 1)
    BY <1>12, ValuesFirst
  <2>4. D!Prompted + Len(generated) - 1 = D!Prompted - 1
    BY <1>2, <2>2
  <2>5. Runner # "gemma"
    BY <2>1 DEF Counts, PromptRun
  <2> QED
    BY <1>4, <2>1, <2>3, <2>4, <2>5 DEF SampledFrom
<1>13. CASE D!Generate
  <2>1. phase' \in {"done", "generate"}
        /\ (phase' = "generate" =>
              /\ D!InReach => next'.from = D!Name(NumLayers, D!Prompted + Len(generated))
              /\ generated' = Append(generated, next))
    <3>1. D!InReach /\ phase' = "generate" =>
            next'.from = D!Name(NumLayers, D!Prompted + Len(generated))
      BY <1>13, ValuesTurn
    <3>2. phase' \in {"done", "generate"}
          /\ (phase' = "generate" => generated' = Append(generated, next))
      BY <1>13, TurnIs
    <3> QED
      BY <3>1, <3>2
  <2>2. ASSUME phase' = "generate"
        PROVE  D!Prompted + Len(generated') - 1 = D!Prompted + Len(generated)
               /\ generated' # << >>
    <3>1. Len(generated') = Len(generated) + 1
      <4>1. next \in D!Sample
        BY DEF D!TypeOK
      <4> QED
        BY <1>1, <2>1, <2>2, <4>1
    <3> QED
      BY <1>1, <1>2, <3>1
  <2> QED
    BY <1>4, <2>1, <2>2 DEF SampledFrom
<1> QED
  BY <1>5, <1>6, <1>7, <1>8, <1>9, <1>10, <1>11, <1>12, <1>13 DEF D!Next

(* Nothing but a turn of the loop touches what is generated.               *)
LEMMA GeneratedStays ==
  ASSUME D!Next, ~ D!Generate
  PROVE  UNCHANGED generated /\ UNCHANGED <<prompt, feats>>
  BY DEF D!Next, D!PrefixStep, D!Before, D!Reserve, D!Fill, D!After, D!PlainRun, D!PlainText,
    D!Check, D!FirstToken, D!call

(* It becomes the next token, and those before it stay.                     *)
LEMMA TokensStep ==
  ASSUME D!VlmDecodeAssumption, D!TypeOK, Counts, SampledFrom, D!TokensAreSampled, D!Next
  PROVE  D!TokensAreSampled'
<1>1. prompt \in Prompts /\ feats \in Features /\ next \in D!Sample
      /\ generated \in Seq(D!Sample) /\ Len(generated) \in Nat
  BY DEF D!TypeOK
<1>2. D!Prompted \in Nat
  BY <1>1, DecodeFacts
<1>3. CASE ~ D!Generate
  <2>1. UNCHANGED generated /\ D!Prompted' = D!Prompted /\ (D!InReach <=> D!InReach')
    BY <1>3, GeneratedStays, CallStays, DepthsStay
  <2> QED
    BY <2>1 DEF D!TokensAreSampled, D!GemmaBidir
<1>4. CASE D!Generate
  <2>1. phase = "generate" /\ UNCHANGED <<prompt, feats>>
        /\ (generated' = generated \/ generated' = Append(generated, next))
    BY <1>4, TurnIs
  <2>2. D!Prompted' = D!Prompted /\ (D!InReach <=> D!InReach')
    BY <2>1, CallStays, DepthsStay
  <2>3. CASE generated' = generated
    BY <2>2, <2>3 DEF D!TokensAreSampled, D!GemmaBidir
  <2>4. CASE generated' = Append(generated, next)
    <3>1. D!InReach =>
            next.from = IF generated = << >> /\ Runner = "gemma" /\ ~ D!GemmaBidir THEN D!Stale
                        ELSE D!Name(NumLayers, D!Prompted + Len(generated) - 1)
      BY <2>1 DEF SampledFrom
    <3>2. ASSUME D!InReach, NEW k \in DOMAIN generated'
          PROVE  generated'[k].from =
                   IF k = 1 /\ Runner = "gemma" /\ ~ D!GemmaBidir THEN D!Stale
                   ELSE D!Name(NumLayers, D!Prompted + k - 2)
      <4>1. CASE k = Len(generated) + 1
        <5>1. generated'[k] = next /\ D!Prompted + k - 2 = D!Prompted + Len(generated) - 1
              /\ (k = 1 <=> generated = << >>)
          BY <1>1, <1>2, <2>4, <4>1
        <5> QED
          BY <3>1, <3>2, <5>1
      <4>2. CASE k # Len(generated) + 1
        <5>1. k \in DOMAIN generated /\ generated'[k] = generated[k]
          BY <1>1, <2>4, <3>2, <4>2
        <5> QED
          BY <3>2, <5>1 DEF D!TokensAreSampled
      <4> QED
        BY <4>1, <4>2
    <3> QED
      BY <2>2, <3>2 DEF D!TokensAreSampled, D!GemmaBidir
  <2> QED
    BY <2>1, <2>3, <2>4
<1> QED
  BY <1>3, <1>4

(* Every token is sampled from the model's output for the position before  *)
(* it, the first one from the end of the prompt, unless it is the zero that*)
(* Gemma's other prefills start from.  A model whose two-sided prefill of  *)
(* an image would have to reach beyond two layers, as that of every real   *)
(* Gemma 4 does, is out of reach: nothing is said of its tokens.           *)
THEOREM TokensExact ==
  ASSUME D!VlmDecodeAssumption
  PROVE  D!Spec => []D!TokensAreSampled
<1> DEFINE Inv == D!TypeOK /\ Counts /\ Values /\ SampledFrom /\ D!TokensAreSampled
<1>1. D!Init => Inv
  <2> SUFFICES ASSUME D!Init PROVE SampledFrom /\ D!TokensAreSampled
    BY DecodeInit, ValuesInit
  <2>1. cursor = 0 /\ phase \in {"prefix", "before", "plain"} /\ generated = << >>
        /\ next.from = D!Stale
    BY DEF D!Init
  <2> QED
    BY <2>1 DEF SampledFrom, D!TokensAreSampled
<1>2. Inv /\ [D!Next]_(D!vars) => Inv'
  <2> SUFFICES ASSUME Inv, [D!Next]_(D!vars) PROVE SampledFrom' /\ D!TokensAreSampled'
    BY DecodeStep, ValuesStep
  <2>1. CASE UNCHANGED D!vars
    <3>1. UNCHANGED <<prompt, feats, phase, spot, cursor, next, generated>>
      BY <2>1 DEF D!vars, D!call
    <3>2. D!Prompted' = D!Prompted /\ LastImage' = LastImage /\ (D!InReach <=> D!InReach')
      BY <3>1, CallStays, DepthsStay
    <3> QED
      BY <3>1, <3>2 DEF SampledFrom, D!TokensAreSampled, D!GemmaBidir
  <2>2. CASE D!Next
    BY <2>2, DecodeStep, SampledStep, TokensStep
  <2> QED
    BY <2>1, <2>2
<1> QED
  BY <1>1, <1>2, PTL DEF D!Spec

(* Before the last token nothing said stop.                                *)
Turns ==
  /\ phase = "generate" => \A n \in 1..Len(generated) : ~ D!Stops(D!Text(n))
  /\ phase = "done" => /\ \A n \in 1..(Len(generated) - 1) : ~ D!Stops(D!Text(n))
                       /\ Len(generated) = MaxNew \/ D!Stops(D!Text(Len(generated)))

(* Each turn looks at the whole text once.                                  *)
LEMMA TurnsStep ==
  ASSUME D!VlmDecodeAssumption, D!TypeOK, Counts, Turns, D!Next
  PROVE  Turns'
<1>1. next \in D!Sample /\ generated \in Seq(D!Sample) /\ Len(generated) \in Nat
  BY DEF D!TypeOK
<1>2. CASE ~ D!Generate
  <2>1. UNCHANGED generated /\ phase' # "done"
    BY <1>2, GeneratedStays DEF D!Next, D!PrefixStep, D!Before, D!Reserve, D!Fill, D!After,
      D!PlainRun, D!PlainText, D!Check, D!FirstToken
  <2>2. phase # "generate"
    BY <1>2 DEF D!Next, D!PrefixStep, D!Before, D!Reserve, D!Fill, D!After,
      D!PlainRun, D!PlainText, D!Check, D!FirstToken
  <2>3. ASSUME phase' = "generate" PROVE generated' = << >>
    <3>1. phase # "done"
      BY <1>2 DEF D!Next, D!PrefixStep, D!Before, D!Reserve, D!Fill, D!After,
        D!PlainRun, D!PlainText, D!Check, D!FirstToken
    <3> QED
      BY <2>1, <2>2, <3>1 DEF Counts, Generation
  <2>4. ASSUME phase' = "generate" PROVE 1..Len(generated') = {}
    BY <2>3, <2>4
  <2> QED
    BY <2>1, <2>4 DEF Turns
<1>3. CASE D!Generate
  <2>1. phase = "generate"
    BY <1>3, TurnIs
  <2>2. \A n \in 1..Len(generated) : ~ D!Stops(D!Text(n))
    BY <2>1 DEF Turns
  <2>3. CASE Len(generated) = MaxNew /\ phase' = "done" /\ generated' = generated
    <3>1. \A n : D!Text(n)' = D!Text(n)
      BY <2>3 DEF D!Text
    <3>2. \A n \in 1..(Len(generated) - 1) : n \in 1..Len(generated)
      BY <1>1
    <3> QED
      BY <2>2, <2>3, <3>1, <3>2 DEF Turns
  <2>4. ASSUME generated' = Append(generated, next)
        PROVE  /\ Len(generated') = Len(generated) + 1
               /\ \A n \in 1..Len(generated) : D!Text(n)' = D!Text(n)
               /\ Spoken(generated') = D!Text(Len(generated))'
    <3>1. Len(generated') = Len(generated) + 1
          /\ \A k \in 1..Len(generated) : generated'[k] = generated[k]
      BY <1>1, <2>4
    <3>2. ASSUME NEW n \in 1..Len(generated) PROVE D!Text(n)' = D!Text(n)
      <4>1. \A k \in 1..n : generated'[k] = generated[k]
        BY <1>1, <3>1
      <4> QED
        BY <4>1 DEF D!Text
    <3>3. Spoken(generated') = D!Text(Len(generated))'
      BY DEF Spoken, D!Text
    <3> QED
      BY <3>1, <3>2, <3>3
  <2>5. CASE /\ generated' = Append(generated, next) /\ D!Stops(Spoken(generated'))
             /\ phase' = "done"
    <3>1. Len(generated') - 1 = Len(generated)
      BY <1>1, <2>4, <2>5
    <3>2. D!Stops(D!Text(Len(generated))')
      BY <2>4, <2>5
    <3> QED
      BY <2>2, <2>4, <2>5, <3>1, <3>2 DEF Turns
  <2>6. CASE /\ generated' = Append(generated, next) /\ ~ D!Stops(Spoken(generated'))
             /\ phase' = phase
    <3>1. ASSUME NEW n \in 1..Len(generated') PROVE ~ D!Stops(D!Text(n)')
      <4>1. CASE n = Len(generated')
        BY <2>4, <2>6, <4>1 DEF Spoken, D!Text
      <4>2. CASE n # Len(generated')
        <5>1. n \in 1..Len(generated)
          BY <1>1, <2>4, <2>6, <4>2
        <5> QED
          BY <2>2, <2>4, <2>6, <5>1
      <4> QED
        BY <4>1, <4>2
    <3> QED
      BY <2>1, <2>6, <3>1 DEF Turns
  <2> QED
    BY <1>3, TurnIs, <2>3, <2>5, <2>6
<1> QED
  BY <1>2, <1>3

(* Generation ends at the first token that gives it a reason to, counted   *)
(* from min_new_tokens, or at max_new_tokens.                              *)
THEOREM GenerationStops ==
  ASSUME D!VlmDecodeAssumption
  PROVE  D!Spec => []D!StopsInTime
<1> DEFINE Inv == D!TypeOK /\ Counts /\ Turns
<1>1. D!Init => Inv
  <2> SUFFICES ASSUME D!Init PROVE Turns
    BY DecodeInit
  <2>1. phase \in {"prefix", "before", "plain"}
    BY DEF D!Init
  <2> QED
    BY <2>1 DEF Turns
<1>2. Inv /\ [D!Next]_(D!vars) => Inv'
  <2> SUFFICES ASSUME Inv, [D!Next]_(D!vars) PROVE Turns'
    BY DecodeStep
  <2>1. CASE UNCHANGED D!vars
    <3>1. UNCHANGED <<phase, generated>>
      BY <2>1 DEF D!vars
    <3>2. \A n : D!Text(n)' = D!Text(n)
      BY <3>1 DEF D!Text
    <3> QED
      BY <3>1, <3>2 DEF Turns
  <2>2. CASE D!Next
    BY <2>2, TurnsStep
  <2> QED
    BY <2>1, <2>2
<1>3. Inv => D!StopsInTime
  <2> SUFFICES ASSUME Inv PROVE D!StopsInTime
    OBVIOUS
  <2>1. Len(generated) \in Nat /\ MinNew \in Nat
    BY DEF D!TypeOK, D!VlmDecodeAssumption
  <2>2. ASSUME NEW n \in Nat PROVE Len(D!Text(n)) = n
    BY DEF D!Text
  <2>3. ASSUME NEW n \in 1..(Len(generated) - 1)
        PROVE  n < MinNew \/ (D!Text(n)[n] # Eos /\ ~ D!SameTokenRun(D!Text(n)))
    <3>1. ~ D!Stops(D!Text(n))
      <4>1. phase \in {"generate", "done"}
        <5>1. generated # << >>
          BY <2>1, <2>3
        <5> QED
          BY <5>1 DEF Counts, Generation
      <4>2. n \in 1..Len(generated)
        BY <2>1
      <4> QED
        BY <4>1, <4>2 DEF Turns
    <3>2. n \in Nat /\ Len(D!Text(n)) = n
      BY <2>1, <2>2
    <3> DEFINE g == D!Text(n)
    <3>3. ~ (Len(g) >= MinNew /\ (g[Len(g)] = Eos \/ D!SameTokenRun(g) \/ D!Alternating(g)))
      BY <3>1 DEF D!Stops
    <3> HIDE DEF g
    <3> QED
      BY <2>1, <3>2, <3>3 DEF g
  <2>4. ASSUME phase = "done", Len(generated) # MaxNew PROVE D!Stops(D!Text(Len(generated)))
    BY <2>4 DEF Turns
  <2> QED
    BY <2>3, <2>4 DEF D!StopsInTime, D!Stops
<1> QED
  BY <1>1, <1>2, <1>3, PTL DEF D!Spec
=============================================================================
