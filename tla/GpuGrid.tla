------------------------------ MODULE GpuGrid ------------------------------
(***************************************************************************)
(* The kernels whose threads work alone, one for each element, row, pair   *)
(* or channel: the WGSL shaders of webgpu.rs and the kernels of metal.rs,  *)
(* with the grids they are dispatched on.                                  *)
(*                                                                         *)
(* A dispatch is a set of threads that run in any order; a thread reads    *)
(* all it needs and then writes.  An input value is named by its buffer    *)
(* and its place in the tensor, <<"w", row, column>>; a product is the set *)
(* of its factors and a sum the set of its products.  Weights that are     *)
(* packed for the device go through the packing of the host and the        *)
(* unpacking of the kernel.                                                *)
(***************************************************************************)
EXTENDS Integers, Sequences, FiniteSets

CONSTANTS
  Kernels,    \* the kernels that are tried
  GroupSize,  \* threads of a workgroup (64 in the code)
  Rows, Cols, \* shape of a weight
  KvRows,     \* rows of the second and third weight of a joint dispatch
  Tokens, Heads, HeadDim, Rotary,
  StartPos    \* position of the first token

ShapeAssumption ==
  /\ {GroupSize, Rows, Cols, KvRows, Tokens, Heads, HeadDim, Rotary} \subseteq Nat \ {0}
  /\ StartPos \in Nat
  /\ Rotary % 2 = 0 /\ HeadDim % 2 = 0 /\ Rotary <= HeadDim

VARIABLES
  kernel,  \* the kernel of this dispatch
  mem,     \* buffer -> index -> value
  stage,   \* thread -> "read", "write" or "done"
  reg      \* thread -> what it is about to write: {<<buffer, index, value>>}

vars == <<kernel, mem, stage, reg>>

Below(n) == 0 .. n - 1
Half == Rotary \div 2

----------------------------------------------------------------------------
(* Grids.                                                                  *)

(* dispatch_workgroups: whole groups only, so that threads are left over.  *)
Ceil(n) == ((n + GroupSize - 1) \div GroupSize) * GroupSize

WebLine(n) == Below(Ceil(n)) \X {0}
WebPlane(n, rows) == Below(Ceil(n)) \X Below(rows)

(* dispatch_threads: exactly as many threads as are asked for.             *)
Line(n) == Below(n) \X {0}
Plane(n, rows) == Below(n) \X Below(rows)

----------------------------------------------------------------------------
(* Packing.                                                                *)

W(name, r, c) == <<name, r, c>>

(* upload_f16: two halves to a word, row after row, a last half alone.     *)
Words(name, rows, cols) ==
  [j \in Below((rows * cols + 1) \div 2) |->
     [h \in {0, 1} |-> LET flat == 2 * j + h
                       IN  IF flat < rows * cols THEN W(name, flat \div cols, flat % cols)
                                                 ELSE <<"pad", 0, 0>>]]

(* unpack16: the half of a word that a flat index names.                   *)
HalfAt(words, row, k, cols) ==
  LET flat == row * cols + k IN words[flat \div 2][flat % 2]

(* A plain row-major tensor.                                               *)
Plain(name, rows, cols) == [i \in Below(rows * cols) |-> W(name, i \div cols, i % cols)]

(* Two 4-bit values to a byte, the even column in the low nibble.          *)
Nibbles(name, rows, cols) ==
  [i \in Below(rows * (cols \div 2)) |->
     [h \in {0, 1} |-> W(name, i \div (cols \div 2), 2 * (i % (cols \div 2)) + h)]]

(* Eight 4-bit values to a word.                                           *)
Octets(name, rows, cols) ==
  [i \in Below(rows * (cols \div 8)) |->
     [h \in Below(8) |-> W(name, i \div (cols \div 8), 8 * (i % (cols \div 8)) + h)]]

(* Blocks of 18 bytes: the scale, then 128 signs, eight to a byte.         *)
Blocks(name, rows, cols) ==
  [i \in Below(rows * (cols \div 128) * 18) |->
     LET row == i \div ((cols \div 128) * 18)
         block == (i % ((cols \div 128) * 18)) \div 18
         byte == i % 18
     IN  IF byte < 2 THEN [h \in Below(8) |-> W("scale", row, block)]
         ELSE [h \in Below(8) |-> W(name, row, 128 * block + 8 * (byte - 2) + h)]]

----------------------------------------------------------------------------
(* Kernels: what a thread writes, computed from the memory m.              *)

Vec(name, n) == [i \in Below(n) |-> <<name, i>>]
Row(name, m, r, cols) == {<<m[name][r * cols + c], m.x[c]>> : c \in Below(cols)}

(* One thread for each row of a weight.                                    *)
MatVec(t, m) ==
  IF t[1] < Rows THEN {<<"out", t[1], Row("w", m, t[1], Cols)>>} ELSE {}

MatVecPacked(t, m) ==
  IF t[1] < Rows
    THEN {<<"out", t[1], {<<HalfAt(m.w, t[1], c, Cols), m.x[c]>> : c \in Below(Cols)}>>}
    ELSE {}

(* 8-bit weights: one scale, or one for each row if there are that many.   *)
PerChannel(m) == Len(m.s) >= Rows
MatVecI8(t, m) ==
  IF t[1] < Rows
    THEN {<<"out", t[1], <<Row("w", m, t[1], Cols), m.s[IF PerChannel(m) THEN t[1] + 1 ELSE 1]>>>>}
    ELSE {}

(* 4-bit weights in nibbles, a scale for each group of a row, or one.      *)
GroupOf == 2
ScalesPerRow(gs) == IF gs > 0 /\ gs < Cols THEN Cols \div gs ELSE 1

ScaleIndex(r, c, gs) == r * ScalesPerRow(gs) + (IF ScalesPerRow(gs) = 1 THEN 0 ELSE c \div gs)
MatVecI4(t, m, gs) ==
  IF t[1] < Rows
    THEN {<<"out", t[1], {<<m.w[t[1] * (Cols \div 2) + c \div 2][c % 2], m.x[c],
                            m.s[ScaleIndex(t[1], c, gs) + 1]>> : c \in Below(Cols)}>>}
    ELSE {}

(* 4-bit weights in words of eight, a scale and a bias for each group.     *)
WideCols == 16
WideGroup == 12
WideGroups == (WideCols + WideGroup - 1) \div WideGroup
MatVecMlx(t, m) ==
  IF t[1] < Rows
    THEN {<<"out", t[1], {<<m.w[t[1] * (WideCols \div 8) + c \div 8][c % 8], m.x[c],
                            m.s[t[1] * WideGroups + c \div WideGroup + 1],
                            m.b[t[1] * WideGroups + c \div WideGroup + 1]>>
                          : c \in Below(WideCols)}>>}
    ELSE {}

(* Signs in blocks of 128 behind their scale.                              *)
SignCols == 256
MatVecQ1(t, m) ==
  LET base == t[1] * ((SignCols \div 128) * 18)
  IN  IF t[1] < Rows
        THEN {<<"out", t[1],
                {<<m.w[base + 18 * q + 2 + b][j], m.x[128 * q + 8 * b + j], m.w[base + 18 * q][0]>>
                 : q \in Below(SignCols \div 128), b \in Below(16), j \in Below(8)}>>}
        ELSE {}

(* Query, key and value of a token in one dispatch, one row to a thread.   *)
Joint(t, m) ==
  CASE t[1] < Rows -> {<<"q", t[1], <<Row("w", m, t[1], Cols), m.bq[t[1]]>>>>}
    [] t[1] - Rows \in Below(KvRows) ->
         {<<"k", t[1] - Rows, <<Row("wk", m, t[1] - Rows, Cols), m.bk[t[1] - Rows]>>>>}
    [] t[1] - Rows - KvRows \in Below(KvRows) ->
         LET r == t[1] - Rows - KvRows
         IN  {<<"v", r, <<Row("wv", m, r, Cols), m.bv[r]>>>>}
    [] OTHER -> {}

(* Two weights of different height in one dispatch.                        *)
Pair(t, m) ==
  CASE t[1] < Rows -> {<<"q", t[1], Row("w", m, t[1], Cols)>>}
    [] t[1] - Rows \in Below(KvRows) -> {<<"k", t[1] - Rows, Row("wk", m, t[1] - Rows, Cols)>>}
    [] OTHER -> {}

(* The rows of several tokens, in a plane of threads.                      *)
Batch(t, m) ==
  IF t[1] < Rows /\ t[2] < Tokens
    THEN {<<"out", t[2] * Rows + t[1],
            {<<m.w[t[1] * Cols + c], m.x[t[2] * Cols + c]>> : c \in Below(Cols)}>>}
    ELSE {}

BatchPacked(t, m) ==
  IF t[1] < Rows /\ t[2] < Tokens
    THEN {<<"out", t[2] * Rows + t[1],
            {<<HalfAt(m.w, t[1], c, Cols), m.x[t[2] * Cols + c]>> : c \in Below(Cols)}>>}
    ELSE {}

(* A norm of each row, of which every thread works out the whole row.      *)
LayerNormBatch(t, m) ==
  IF t[1] < Cols /\ t[2] < Tokens
    THEN {<<"out", t[2] * Cols + t[1],
            <<m.x[t[2] * Cols + t[1]], {m.x[t[2] * Cols + c] : c \in Below(Cols)}, m.g[t[1]],
              m.b[t[1]]>>>>}
    ELSE {}

RmsNormBatch(t, m) ==
  IF t[1] < Cols /\ t[2] < Tokens
    THEN {<<"out", t[2] * Cols + t[1],
            <<m.x[t[2] * Cols + t[1]], {m.x[t[2] * Cols + c] : c \in Below(Cols)}, m.g[t[1]]>>>>}
    ELSE {}

(* One element each, in place: a product of two vectors.                   *)
InPlace(t, m) ==
  IF t[1] < Cols THEN {<<"x", t[1], <<m.x[t[1]], m.g[t[1]]>>>>} ELSE {}

(* a * cos + sign b * sin, at the angle of pair i and position p.          *)
Turn(i, p, a, sign, b) == <<i, p, a, sign, b>>

(* The first Rotary places of a head, the halves with each other.          *)
RopeHalf(t, m) ==
  LET h == t[1] \div Half  i == t[1] % Half
      base == t[2] * Heads * HeadDim + h * HeadDim  far == base + Half + i
  IN  IF h < Heads /\ t[2] < Tokens
        THEN {<<"x", base + i, Turn(i, StartPos + t[2], m.x[base + i], "-", m.x[far])>>,
              <<"x", far, Turn(i, StartPos + t[2], m.x[far], "+", m.x[base + i])>>}
        ELSE {}

(* All places of a head, neighbours with each other.                       *)
RopeAdjacent(t, m) ==
  LET h == t[1] \div (HeadDim \div 2)  i == t[1] % (HeadDim \div 2)
      at == t[2] * Heads * HeadDim + h * HeadDim + 2 * i
  IN  IF h < Heads /\ t[2] < Tokens
        THEN {<<"x", at, Turn(i, StartPos + t[2], m.x[at], "-", m.x[at + 1])>>,
              <<"x", at + 1, Turn(i, StartPos + t[2], m.x[at + 1], "+", m.x[at])>>}
        ELSE {}

(* The last Rotary places of a head, with a thread to each place, of which *)
(* the upper half has nothing to do.                                       *)
RopeLast(t, m) ==
  LET h == t[1] \div Rotary  i == t[1] % Rotary
      at == h * HeadDim + HeadDim - Rotary + i
  IN  IF h < Heads /\ i < Half
        THEN {<<"x", at, Turn(i, StartPos, m.x[at], "+", m.x[at + Half])>>,
              <<"x", at + Half, Turn(i, StartPos, m.x[at + Half], "-", m.x[at])>>}
        ELSE {}

(* A vector into a longer one, at an offset.                               *)
Scatter(t, m) ==
  IF t[1] < Cols THEN {<<"out", StartPos * Cols + t[1], m.x[t[1]]>>} ELSE {}

(* A part of a long vector into another one.                               *)
Copy(t, m) ==
  IF t[1] < Cols THEN {<<"out", t[1], m.x[(Tokens - 1) * Cols + t[1]]>>} ELSE {}

(* The keys of several tokens into the places of their positions.          *)
WriteKv(t, m) ==
  IF t[1] < Cols /\ t[2] < Tokens
    THEN {<<"out", m.bases[StartPos + t[2]] + t[1], m.x[t[2] * Cols + t[1]]>>}
    ELSE {}

(* The short convolution: a channel moves its own column of the state up   *)
(* and takes the sum over it.                                              *)
Taps == 3
Shifted(t, m, s) == IF s < Taps - 1 THEN m.state[(s + 1) * Cols + t[1]] ELSE m.x[t[1]]
Conv(t, m) ==
  IF t[1] < Cols
    THEN {<<"state", s * Cols + t[1], Shifted(t, m, s)>> : s \in Below(Taps)} \cup
         {<<"out", t[1], {<<Shifted(t, m, s), m.w[t[1] * Taps + s]>> : s \in Below(Taps)}>>}
    ELSE {}

Effect(k, t, m) ==
  CASE k \in {"mv_web", "mv_metal"} -> MatVec(t, m)
    [] k = "mv_f16_web" -> MatVecPacked(t, m)
    [] k \in {"mv_i8_row", "mv_i8_one"} -> MatVecI8(t, m)
    [] k = "mv_i4" -> MatVecI4(t, m, GroupOf)
    [] k = "mv_i4_one" -> MatVecI4(t, m, 0)
    [] k = "mv_mlx" -> MatVecMlx(t, m)
    [] k = "mv_q1" -> MatVecQ1(t, m)
    [] k = "qkv" -> Joint(t, m)
    [] k = "mv2" -> Pair(t, m)
    [] k \in {"batch_web", "batch_metal"} -> Batch(t, m)
    [] k = "batch_f16_web" -> BatchPacked(t, m)
    [] k = "layer_norm_web" -> LayerNormBatch(t, m)
    [] k = "rms_norm_web" -> RmsNormBatch(t, m)
    [] k \in {"silu_web", "in_place"} -> InPlace(t, m)
    [] k = "rope_half" -> RopeHalf(t, m)
    [] k = "rope_adj" -> RopeAdjacent(t, m)
    [] k = "rope_web" -> RopeLast(t, m)
    [] k = "scatter" -> Scatter(t, m)
    [] k = "copy" -> Copy(t, m)
    [] k = "write_kv" -> WriteKv(t, m)
    [] k = "conv" -> Conv(t, m)

----------------------------------------------------------------------------
(* Dispatches: the grid and the buffers of each kernel.                    *)

(* Threads of a rotation: a pair each on Metal, a place each on WebGPU.    *)
RopeGrid == Plane(Heads * Half, Tokens)
AdjacentGrid == Plane(Heads * (HeadDim \div 2), Tokens)
RopeWebGrid == WebLine(Heads * Rotary)
JointGrid == Line(Rows + KvRows + KvRows)
BatchGrid == WebPlane(Rows, Tokens)
BatchPackedGrid == WebPlane(Rows, Tokens)
NormGrid == WebPlane(Cols, Tokens)
MatVecGrid == WebLine(Rows)
MatVecPackedGrid == WebLine(Rows)
SiluGrid == WebLine(Cols)
BatchMetalGrid == Plane(Rows, Tokens)
KvGrid == Plane(Cols, Tokens)

Grid(k) ==
  CASE k = "mv_web" -> MatVecGrid
    [] k = "mv_f16_web" -> MatVecPackedGrid
    [] k = "qkv" -> JointGrid
    [] k = "mv2" -> Line(Rows + KvRows)
    [] k = "batch_web" -> BatchGrid
    [] k = "batch_f16_web" -> BatchPackedGrid
    [] k = "batch_metal" -> BatchMetalGrid
    [] k \in {"layer_norm_web", "rms_norm_web"} -> NormGrid
    [] k = "silu_web" -> SiluGrid
    [] k = "rope_half" -> RopeGrid
    [] k = "rope_adj" -> AdjacentGrid
    [] k = "rope_web" -> RopeWebGrid
    [] k = "write_kv" -> KvGrid
    [] k \in {"in_place", "scatter", "copy", "conv"} -> Line(Cols)
    [] OTHER -> Line(Rows)

Fresh(n) == [i \in Below(n) |-> <<"fresh", i>>]
Scales(n) == [i \in 1 .. n |-> <<"s", i - 1>>]

(* The blocks of the cache are not in the order of the positions.          *)
Bases == [p \in Below(StartPos + Tokens) |-> (StartPos + Tokens - 1 - p) * Cols]

Buffers(k) ==
  CASE k \in {"mv_web", "mv_metal"} ->
         [w |-> Plain("w", Rows, Cols), x |-> Vec("x", Cols), out |-> Fresh(Rows)]
    [] k = "mv_f16_web" ->
         [w |-> Words("w", Rows, Cols), x |-> Vec("x", Cols), out |-> Fresh(Rows)]
    [] k \in {"mv_i8_row", "mv_i8_one"} ->
         [w |-> Plain("w", Rows, Cols), x |-> Vec("x", Cols), out |-> Fresh(Rows),
          s |-> Scales(IF k = "mv_i8_row" THEN Rows ELSE 1)]
    [] k \in {"mv_i4", "mv_i4_one"} ->
         [w |-> Nibbles("w", Rows, Cols), x |-> Vec("x", Cols), out |-> Fresh(Rows),
          s |-> Scales(IF k = "mv_i4" THEN Rows * ScalesPerRow(GroupOf) ELSE Rows)]
    [] k = "mv_mlx" ->
         [w |-> Octets("w", Rows, WideCols), x |-> Vec("x", WideCols), out |-> Fresh(Rows),
          s |-> Scales(Rows * WideGroups), b |-> Scales(Rows * WideGroups)]
    [] k = "mv_q1" ->
         [w |-> Blocks("w", Rows, SignCols), x |-> Vec("x", SignCols), out |-> Fresh(Rows)]
    [] k \in {"qkv", "mv2"} ->
         [w |-> Plain("w", Rows, Cols), wk |-> Plain("wk", KvRows, Cols),
          wv |-> Plain("wv", KvRows, Cols), x |-> Vec("x", Cols),
          bq |-> Vec("bq", Rows), bk |-> Vec("bk", KvRows), bv |-> Vec("bv", KvRows),
          q |-> Fresh(Rows), k |-> Fresh(KvRows), v |-> Fresh(KvRows)]
    [] k \in {"batch_web", "batch_metal"} ->
         [w |-> Plain("w", Rows, Cols), x |-> Plain("x", Tokens, Cols),
          out |-> Fresh(Tokens * Rows)]
    [] k = "batch_f16_web" ->
         [w |-> Words("w", Rows, Cols), x |-> Plain("x", Tokens, Cols),
          out |-> Fresh(Tokens * Rows)]
    [] k \in {"layer_norm_web", "rms_norm_web"} ->
         [x |-> Plain("x", Tokens, Cols), g |-> Vec("g", Cols), b |-> Vec("b", Cols),
          out |-> Fresh(Tokens * Cols)]
    [] k \in {"silu_web", "in_place"} -> [x |-> Vec("x", Cols), g |-> Vec("g", Cols)]
    [] k \in {"rope_half", "rope_adj"} -> [x |-> Vec("x", Tokens * Heads * HeadDim)]
    [] k = "rope_web" -> [x |-> Vec("x", Heads * HeadDim)]
    [] k = "scatter" -> [x |-> Vec("x", Cols), out |-> Fresh((StartPos + 1) * Cols)]
    [] k = "copy" -> [x |-> Vec("x", Tokens * Cols), out |-> Fresh(Cols)]
    [] k = "write_kv" ->
         [x |-> Plain("x", Tokens, Cols), bases |-> Bases,
          out |-> Fresh((StartPos + Tokens) * Cols)]
    [] k = "conv" ->
         [state |-> Plain("state", Taps, Cols), x |-> Vec("x", Cols), w |-> Plain("w", Cols, Taps),
          out |-> Fresh(Cols)]

----------------------------------------------------------------------------
(* The threads of a dispatch.                                              *)

Init ==
  /\ kernel \in Kernels
  /\ mem = Buffers(kernel)
  /\ stage = [t \in Grid(kernel) |-> "read"]
  /\ reg = [t \in Grid(kernel) |-> {}]

Read(t) ==
  /\ stage[t] = "read"
  /\ reg' = [reg EXCEPT ![t] = Effect(kernel, t, mem)]
  /\ stage' = [stage EXCEPT ![t] = "write"]
  /\ UNCHANGED <<kernel, mem>>

Written(m, writes) ==
  [b \in DOMAIN m |->
     [i \in DOMAIN m[b] |->
        IF \E w \in writes : w[1] = b /\ w[2] = i
          THEN (CHOOSE w \in writes : w[1] = b /\ w[2] = i)[3]
          ELSE m[b][i]]]

Write(t) ==
  /\ stage[t] = "write"
  /\ mem' = Written(mem, reg[t])
  /\ reg' = [reg EXCEPT ![t] = {}]
  /\ stage' = [stage EXCEPT ![t] = "done"]
  /\ UNCHANGED kernel

Next == \E t \in Grid(kernel) : Read(t) \/ Write(t)

Spec == Init /\ [][Next]_vars

Finished == \A t \in Grid(kernel) : stage[t] = "done"

----------------------------------------------------------------------------
(* Properties.                                                             *)

(* The tensors the kernels are written for, by their places and not by the *)
(* memory of the device.                                                   *)
Dot(w, r, x) == {<<W(w, r, c), x[c]>> : c \in Below(Cols)}
X == Vec("x", Cols)
XOf(tok) == [c \in Below(Cols) |-> W("x", tok, c)]

(* What a place of a head holds after a rotation that pairs place d with   *)
(* Partner(d), the angle of the pair being that of Pos(d).                 *)
Rotated(i, Turns(_), Partner(_), Angle(_), Sign(_)) ==
  LET tok == i \div (Heads * HeadDim)  d == i % HeadDim
  IN  IF Turns(d)
        THEN Turn(Angle(d), StartPos + tok, <<"x", i>>, Sign(d), <<"x", i - d + Partner(d)>>)
        ELSE <<"x", i>>

ExpectedRope(i) ==
  LET skip == HeadDim - Rotary
  IN  CASE kernel = "rope_half" ->
             Rotated(i, LAMBDA d : d < Rotary, LAMBDA d : (d + Half) % Rotary,
                     LAMBDA d : d % Half, LAMBDA d : IF d < Half THEN "-" ELSE "+")
        [] kernel = "rope_adj" ->
             Rotated(i, LAMBDA d : TRUE, LAMBDA d : IF d % 2 = 0 THEN d + 1 ELSE d - 1,
                     LAMBDA d : d \div 2, LAMBDA d : IF d % 2 = 0 THEN "-" ELSE "+")
        [] kernel = "rope_web" ->
             Rotated(i, LAMBDA d : skip <= d, LAMBDA d : skip + ((d - skip + Half) % Rotary),
                     LAMBDA d : (d - skip) % Half,
                     LAMBDA d : IF d < skip + Half THEN "+" ELSE "-")

(* A product of a weight and a vector is, in every packing and on every    *)
(* grid, the product of the tensors: each row with its own columns, scales *)
(* and biases, each output where it belongs, all outputs there.            *)
ExactProducts ==
  Finished =>
    CASE kernel \in {"mv_web", "mv_metal", "mv_f16_web"} ->
           mem.out = [r \in Below(Rows) |-> Dot("w", r, X)]
      [] kernel \in {"mv_i8_row", "mv_i8_one"} ->
           mem.out = [r \in Below(Rows) |->
                        <<Dot("w", r, X), <<"s", IF kernel = "mv_i8_row" THEN r ELSE 0>>>>]
      [] kernel \in {"mv_i4", "mv_i4_one"} ->
           LET per == IF kernel = "mv_i4" THEN Cols \div GroupOf ELSE 1
           IN  mem.out = [r \in Below(Rows) |->
                            {<<W("w", r, c), X[c], <<"s", r * per + (c * per) \div Cols>>>>
                             : c \in Below(Cols)}]
      [] kernel = "mv_mlx" ->
           mem.out = [r \in Below(Rows) |->
                        {<<W("w", r, c), <<"x", c>>, <<"s", 2 * r + c \div 12>>,
                           <<"s", 2 * r + c \div 12>>>> : c \in Below(WideCols)}]
      [] kernel = "mv_q1" ->
           mem.out = [r \in Below(Rows) |->
                        {<<W("w", r, c), <<"x", c>>, W("scale", r, c \div 128)>>
                         : c \in Below(SignCols)}]
      [] kernel = "qkv" ->
           /\ mem.q = [r \in Below(Rows) |-> <<Dot("w", r, X), <<"bq", r>>>>]
           /\ mem.k = [r \in Below(KvRows) |-> <<Dot("wk", r, X), <<"bk", r>>>>]
           /\ mem.v = [r \in Below(KvRows) |-> <<Dot("wv", r, X), <<"bv", r>>>>]
      [] kernel = "mv2" ->
           /\ mem.q = [r \in Below(Rows) |-> Dot("w", r, X)]
           /\ mem.k = [r \in Below(KvRows) |-> Dot("wk", r, X)]
      [] kernel \in {"batch_web", "batch_metal", "batch_f16_web"} ->
           mem.out = [i \in Below(Tokens * Rows) |-> Dot("w", i % Rows, XOf(i \div Rows))]
      [] OTHER -> TRUE

(* A kernel that works in place, or into a part of a longer buffer, leaves *)
(* what it was not asked to change and is not disturbed by the threads     *)
(* that have already written.                                              *)
ExactPlaces ==
  Finished =>
    CASE kernel \in {"silu_web", "in_place"} ->
           mem.x = [c \in Below(Cols) |-> <<<<"x", c>>, <<"g", c>>>>]
      [] kernel \in {"rope_half", "rope_adj", "rope_web"} ->
           \A i \in DOMAIN mem.x : mem.x[i] = ExpectedRope(i)
      [] kernel \in {"layer_norm_web", "rms_norm_web"} ->
           mem.out = [i \in Below(Tokens * Cols) |->
                        LET row == XOf(i \div Cols)
                        IN  <<row[i % Cols], {row[c] : c \in Below(Cols)}, <<"g", i % Cols>>>>
                            \o IF kernel = "layer_norm_web" THEN <<<<"b", i % Cols>>>> ELSE <<>>]
      [] kernel = "scatter" ->
           mem.out = [i \in Below((StartPos + 1) * Cols) |->
                        IF i \div Cols = StartPos THEN X[i % Cols] ELSE <<"fresh", i>>]
      [] kernel = "copy" ->
           mem.out = [c \in Below(Cols) |-> <<"x", (Tokens - 1) * Cols + c>>]
      [] kernel = "write_kv" ->
           \A i \in DOMAIN mem.out :
             LET pos == StartPos + Tokens - 1 - i \div Cols
             IN  mem.out[i] = IF pos >= StartPos THEN W("x", pos - StartPos, i % Cols)
                              ELSE <<"fresh", i>>
      [] kernel = "conv" ->
           LET after(s, c) == IF s < Taps - 1 THEN W("state", s + 1, c) ELSE X[c]
           IN  /\ mem.state = [i \in Below(Taps * Cols) |-> after(i \div Cols, i % Cols)]
               /\ mem.out = [c \in Below(Cols) |->
                               {<<after(s, c), W("w", c, s)>> : s \in Below(Taps)}]
      [] OTHER -> TRUE

(* No thread writes beyond a buffer, the threads that a rounded grid has   *)
(* too many included.                                                      *)
InsideBuffers ==
  \A t \in Grid(kernel) : \A w \in reg[t] : w[1] \in DOMAIN mem /\ w[2] \in DOMAIN mem[w[1]]
============================================================================
