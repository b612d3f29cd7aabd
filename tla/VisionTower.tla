---------------------------- MODULE VisionTower ----------------------------
(***************************************************************************)
(* run_vision_cellm and run_vision_cellm_gemma4: patches become tokens,    *)
(* the layers attend within a view, and the tokens of a square become one  *)
(* row of features.  Idefics runs several full views in one batch; Gemma   *)
(* runs one view whose patches end before the buffers do, with a mask.     *)
(*                                                                         *)
(* A token's vector is the model's, with the name of its layer and place,  *)
(* or "zero", "nan" or "other".  Attention has three implementations, one  *)
(* for Metal, one for BLAS on Apple systems and plain loops.               *)
(***************************************************************************)
EXTENDS Integers, FiniteSets, FiniteSetsExt

CONSTANTS
  Family,     \* "idefics" or "gemma"
  Backend,    \* LinearBackend: "cpu", "metal" or "webgpu"
  Apple,      \* whether the build has BLAS
  Grids,      \* rows and columns of squares an image may have
  Views,      \* possible numbers of views
  Targets,    \* target_image_seq_len: lengths a configuration may ask for
  NumTokens,  \* tokens the buffers of a view have room for
  Pool,       \* a side of a square, in patches
  LargeSeq,   \* 256: above it Metal is not used
  NumHeads, NumLayers

VisionTowerAssumption ==
  /\ Family \in {"idefics", "gemma"} /\ Backend \in {"cpu", "metal", "webgpu"}
  /\ Apple \in BOOLEAN /\ (Backend = "metal" => Apple)
  /\ Grids \subseteq (Nat \ {0}) \X (Nat \ {0}) /\ Views \subseteq Nat \ {0}
  /\ Targets \subseteq Nat \ {0}
  /\ {NumTokens, Pool, LargeSeq, NumHeads, NumLayers} \subseteq Nat \ {0}
  /\ \A g \in Grids : Pool * Pool * g[1] * g[2] <= NumTokens
  /\ Family = "gemma" => Views = {1}
  /\ Family = "idefics" => \A g \in Grids : Pool * Pool * g[1] * g[2] = NumTokens

VARIABLES
  grid, views, target, \* the image, and what the configuration asks for
  at, layer, view,     \* the step of the tower, its layer and view
  tokens, attn,        \* per view and token
  features             \* per row: the tokens it was made of

image == <<grid, views, target>>
vars == <<image, at, layer, view, tokens, attn, features>>

Lesser(a, b) == IF a < b THEN a ELSE b
Token == 0..(NumTokens - 1)
View == 0..(views - 1)
Height == Pool * grid[1]
Width == Pool * grid[2]
Soft == grid[1] * grid[2]
(* gemma4_position_ids of a patch; the view's patches are row by row.       *)
X(t) == t % Width
Y(t) == t \div Width
Valid(t) == t < Height * Width

Name(l, v, t) == <<"hidden", l, v, t>>
Zero == <<"zero">>
NaN == <<"nan">>
Other == <<"other">>

-----------------------------------------------------------------------------
(* Attention                                                               *)

(* What a sum of v over the tokens of S is worth to token t of view v: the *)
(* model's only if it is over the view's tokens, each the model's, and      *)
(* no NaN has a share in it, were it multiplied by zero.                    *)
Attended(l, v, t, S, summed) ==
  IF \E u \in summed : tokens[v][u] = NaN THEN NaN
  ELSE IF S = {u \in Token : Valid(u)} /\ \A u \in S \cup {t} : tokens[v][u] = Name(l, v, u)
  THEN <<"attended", l, v, t>>
  ELSE Other

ValidTokens == {u \in Token : Valid(u)}
Masked == Family = "gemma"

(* self_attention_full, the plain loops.  The buffer of a masked query is   *)
(* zeroed; a masked key has probability zero.                               *)
AttendCpu(l, v) ==
  [t \in Token |->
    IF Masked /\ ~Valid(t) THEN Zero
    ELSE Attended(l, v, t, IF Masked THEN ValidTokens ELSE Token, Token)]

(* self_attention_full_metal: every score of a masked query is minus        *)
(* infinity, and so is their maximum; the exponent of the difference is     *)
(* not a number.                                                            *)
AttendMetal(l, v) ==
  [t \in Token |->
    IF Masked /\ ~Valid(t) THEN NaN
    ELSE Attended(l, v, t, IF Masked THEN ValidTokens ELSE Token, Token)]

(* The scores of all heads, or of one query, depending on the tower.        *)
ScoreBuf == IF Family = "idefics" THEN NumHeads * NumTokens * NumTokens ELSE NumTokens
(* BLAS: the buffer is cut into a chunk per head.                           *)
BlasFits == ScoreBuf = NumHeads * NumTokens * NumTokens

Accelerator ==
  IF Backend = "metal" /\ NumTokens < LargeSeq THEN "metal"
  ELSE IF Apple THEN "blas" ELSE "loops"

-----------------------------------------------------------------------------
Init ==
  /\ grid \in Grids /\ views \in Views /\ target \in Targets
  /\ at = "patches" /\ layer = 0 /\ view = 0
  /\ tokens = [v \in View |-> [t \in Token |-> Zero]]
  /\ attn = [v \in View |-> [t \in Token |-> Zero]]
  /\ features = <<>>

(* patch_embed_rows of one view; Gemma clears the rows of no patch.         *)
PatchEmbed ==
  /\ at = "patches"
  /\ tokens' = [tokens EXCEPT ![view] = [t \in Token |-> IF Valid(t) THEN Name(0, view, t) ELSE Zero]]
  /\ IF view + 1 < views THEN view' = view + 1 /\ UNCHANGED at
     ELSE view' = 0 /\ at' = "attend"
  /\ UNCHANGED <<image, layer, attn, features>>

(* Attention of one view, whose scratch all views share.                    *)
Attend ==
  /\ at = "attend"
  /\ IF Accelerator = "blas" /\ ~BlasFits
     THEN at' = "crashed" /\ UNCHANGED <<view, attn>>
     ELSE /\ attn' = [attn EXCEPT ![view] =
               IF Accelerator = "metal" THEN AttendMetal(layer, view) ELSE AttendCpu(layer, view)]
          /\ IF view + 1 < views THEN view' = view + 1 /\ UNCHANGED at
             ELSE view' = 0 /\ at' = "mlp"
  /\ UNCHANGED <<image, layer, tokens, features>>

(* Projection and MLP work on one row each, and add to what the row was:    *)
(* the padding's stays whatever it is made of.                              *)
AfterMlp(v, t) ==
  IF NaN \in {attn[v][t], tokens[v][t]} THEN NaN
  ELSE IF attn[v][t] = <<"attended", layer, v, t>> THEN Name(layer + 1, v, t)
  ELSE IF attn[v][t] = Zero /\ tokens[v][t] = Zero THEN Zero
  ELSE Other
Mlp ==
  /\ at = "mlp"
  /\ tokens' = [v \in View |-> [t \in Token |-> AfterMlp(v, t)]]
  /\ layer' = layer + 1
  /\ at' = IF layer + 1 = NumLayers THEN "pool" ELSE "attend"
  /\ UNCHANGED <<image, view, attn, features>>

(* Mutant: rows and columns of a square are swapped.                        *)
PackSwapped ==
  /\ at = "pool" /\ Family = "idefics"
  /\ features' =
       [r \in 0..(views * Soft - 1) |->
         LET v == r \div Soft  gy == (r % Soft) \div grid[2]  gx == r % grid[2]
         IN  {<<v, (gx * Pool + dy) * Width + gy * Pool + dx>> : dy \in 0..(Pool - 1), dx \in 0..(Pool - 1)}]
  /\ at' = "done"
  /\ UNCHANGED <<image, layer, view, tokens, attn>>

(* Idefics: the tokens of a square are packed into one row, view by view.   *)
Pack ==
  /\ at = "pool" /\ Family = "idefics"
  /\ features' =
       [r \in 0..(views * Soft - 1) |->
         LET v == r \div Soft  gy == (r % Soft) \div grid[2]  gx == r % grid[2]
         IN  {<<v, (gy * Pool + dy) * Width + gx * Pool + dx>> : dy \in 0..(Pool - 1), dx \in 0..(Pool - 1)}]
  /\ at' = "done"
  /\ UNCHANGED <<image, layer, view, tokens, attn>>

(* The rows of features there are.                                          *)
OutTokens == Lesser(target, Soft)

(* Gemma: a row is the mean of the patches of its square; the squares       *)
(* behind the last row asked for are dropped.                               *)
AvgPool ==
  /\ at = "pool" /\ Family = "gemma"
  /\ LET pooled_w == (Max({X(t) : t \in ValidTokens}) + 1) \div Pool
         cell(t) == X(t) \div Pool + pooled_w * (Y(t) \div Pool)
     IN  features' = [r \in 0..(OutTokens - 1) |-> {<<0, t>> : t \in {u \in ValidTokens : cell(u) = r}}]
  /\ at' = "done"
  /\ UNCHANGED <<image, layer, view, tokens, attn>>

Done == at \in {"done", "crashed"} /\ UNCHANGED vars

Next == PatchEmbed \/ Attend \/ Mlp \/ Pack \/ AvgPool \/ Done
Spec == Init /\ [][Next]_vars

-----------------------------------------------------------------------------
(* Properties                                                              *)

(* Between two layers every patch has the vector the model gives it, made   *)
(* of all patches of its own view and of nothing else.                      *)
VectorsAreTheModels ==
  at \in {"pool", "done"} \/ (at = "attend" /\ view = 0) =>
    \A v \in View : \A t \in ValidTokens : tokens[v][t] = Name(layer, v, t)

(* Feature rows go view by view and square by square in reading order, and  *)
(* each is made of all the patches of its square and of no other.           *)
RowsInReadingOrder ==
  at = "done" =>
    /\ DOMAIN features = 0..((IF Family = "gemma" THEN OutTokens ELSE views * Soft) - 1)
    /\ \A r \in DOMAIN features :
         features[r] = {<<r \div Soft, t>> :
           t \in {u \in ValidTokens : /\ Y(u) \div Pool = (r % Soft) \div grid[2]
                                      /\ X(u) \div Pool = (r % Soft) % grid[2]}}

(* The image gets through every layer.                                      *)
Encoded == at # "crashed"
=============================================================================
