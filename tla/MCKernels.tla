----------------------------- MODULE MCKernels ------------------------------
(* The GPU kernels and their dispatch, one part at a time: groups of four   *)
(* lanes on inputs shorter and longer than the group (Threadgroup), a tiled *)
(* product whose sides are no multiple of the tile (TiledMatmul), every     *)
(* kernel of one thread per output on shapes that do not fill the grid      *)
(* (GpuGrid), and the operations of MetalOps called by one thread and by    *)
(* two.                                                                     *)
EXTENDS TLC

CONSTANTS None, Zero, Off, a, b

VARIABLES
  part,  \* which of the parts below the behaviour is of
  length, pc, shared, partial, root, held, scaled, out,
  place, round, phase, aTile, bTile, acc, product,
  kernel, mem, stage, reg,
  cache, heap, slot, lock, thread, results

groupVars == <<length, pc, shared, partial, root, held, scaled, out>>
tileVars == <<place, round, phase, aTile, bTile, acc, product>>
gridVars == <<kernel, mem, stage, reg>>
metalVars == <<cache, heap, slot, lock, thread, results>>

(* A part that is not under way holds nothing.                              *)
NoGroup ==
  /\ length = Off /\ pc = Off /\ shared = Off /\ partial = Off /\ root = Off /\ held = Off
  /\ scaled = Off /\ out = Off
NoTile ==
  /\ place = Off /\ round = Off /\ phase = Off /\ aTile = Off /\ bTile = Off /\ acc = Off
  /\ product = Off
NoGrid ==
  /\ kernel = Off /\ mem = Off /\ stage = Off /\ reg = Off
NoMetal ==
  /\ cache = Off /\ heap = Off /\ slot = Off /\ lock = Off /\ thread = Off /\ results = Off

ProductKernels ==
  {"mv_web", "mv_metal", "mv_f16_web", "mv_i8_row", "mv_i8_one", "mv_mlx", "mv_q1", "qkv",
   "mv2", "batch_web", "batch_metal", "batch_f16_web"}

NibbleKernels == {"mv_i4", "mv_i4_one"}

PlaceKernels ==
  {"layer_norm_web", "rms_norm_web", "silu_web", "in_place", "rope_half", "rope_adj", "rope_web",
   "scatter", "copy", "write_kv", "conv"}

AllOps ==
  {"rms_norm_f16w", "rope_half_f32", "lfm_conv", "logits_f16", "logits_q1", "logits_f32",
   "logits_i8", "logits_i4", "batch_mv_i4", "attention_and_proj_i4",
   "project_qkv_norm_rope_i4", "preloaded_q", "persistent_kv", "fused_mlp_i4", "fused_tail_i4"}

HeldOps == {"rms_norm_f16w", "rope_half_f32", "logits_f16", "logits_i4"}

(* The parts, each with its constants.                                      *)
RmsWeb == INSTANCE Threadgroup WITH
  Kernel <- "rms_web", LaneCount <- 4, Lengths <- {1, 3, 4, 6}, Tiles <- 2
RmsMetal == INSTANCE Threadgroup WITH
  Kernel <- "rms_metal", LaneCount <- 4, Lengths <- {1, 3, 4, 6}, Tiles <- 2
Softmax == INSTANCE Threadgroup WITH
  Kernel <- "softmax", LaneCount <- 4, Lengths <- {1, 3, 4, 6}, Tiles <- 2
Attention == INSTANCE Threadgroup WITH
  Kernel <- "attention", LaneCount <- 4, Lengths <- {1, 3, 4, 6}, Tiles <- 2
Matmul == INSTANCE TiledMatmul WITH
  Tile <- 2, M <- 3, N <- 3, K <- 3, group <- place, stage <- phase, out <- product
Products == INSTANCE GpuGrid WITH
  Kernels <- ProductKernels, GroupSize <- 2, Rows <- 3, Cols <- 3, KvRows <- 1, Tokens <- 2,
  Heads <- 2, HeadDim <- 4, Rotary <- 2, StartPos <- 1
Nibbles == INSTANCE GpuGrid WITH
  Kernels <- NibbleKernels, GroupSize <- 2, Rows <- 4, Cols <- 4, KvRows <- 1, Tokens <- 2,
  Heads <- 2, HeadDim <- 4, Rotary <- 2, StartPos <- 1
Places == INSTANCE GpuGrid WITH
  Kernels <- PlaceKernels, GroupSize <- 2, Rows <- 3, Cols <- 3, KvRows <- 1, Tokens <- 2,
  Heads <- 2, HeadDim <- 4, Rotary <- 2, StartPos <- 1
OneThread == INSTANCE MetalOps WITH
  Threads <- {a}, Ops <- AllOps, Layers <- 2, MaxCalls <- 2
TwoThreads == INSTANCE MetalOps WITH
  Threads <- {a, b}, Ops <- HeldOps, Layers <- 2, MaxCalls <- 1

ASSUME PartsAssumption ==
  /\ RmsWeb!LanesAssumption
  /\ RmsWeb!LengthAssumption
  /\ RmsMetal!LanesAssumption
  /\ RmsMetal!LengthAssumption
  /\ Softmax!LanesAssumption
  /\ Softmax!LengthAssumption
  /\ Attention!LanesAssumption
  /\ Attention!LengthAssumption
  /\ Matmul!TileAssumption
  /\ Products!ShapeAssumption
  /\ Nibbles!ShapeAssumption
  /\ Places!ShapeAssumption

Init ==
  \/ part = "rms_web" /\ RmsWeb!Init /\ NoTile /\ NoGrid /\ NoMetal
  \/ part = "rms_metal" /\ RmsMetal!Init /\ NoTile /\ NoGrid /\ NoMetal
  \/ part = "softmax" /\ Softmax!Init /\ NoTile /\ NoGrid /\ NoMetal
  \/ part = "attention" /\ Attention!Init /\ NoTile /\ NoGrid /\ NoMetal
  \/ part = "matmul" /\ Matmul!Init /\ NoGroup /\ NoGrid /\ NoMetal
  \/ part = "products" /\ Products!Init /\ NoGroup /\ NoTile /\ NoMetal
  \/ part = "nibbles" /\ Nibbles!Init /\ NoGroup /\ NoTile /\ NoMetal
  \/ part = "places" /\ Places!Init /\ NoGroup /\ NoTile /\ NoMetal
  \/ part = "metal_one" /\ OneThread!Init /\ NoGroup /\ NoTile /\ NoGrid
  \/ part = "metal_two" /\ TwoThreads!Init /\ NoGroup /\ NoTile /\ NoGrid

Next ==
  \/ part = "rms_web" /\ RmsWeb!Next /\ UNCHANGED <<part, tileVars, gridVars, metalVars>>
  \/ part = "rms_metal" /\ RmsMetal!Next /\ UNCHANGED <<part, tileVars, gridVars, metalVars>>
  \/ part = "softmax" /\ Softmax!Next /\ UNCHANGED <<part, tileVars, gridVars, metalVars>>
  \/ part = "attention" /\ Attention!Next /\ UNCHANGED <<part, tileVars, gridVars, metalVars>>
  \/ part = "matmul" /\ Matmul!Next /\ UNCHANGED <<part, groupVars, gridVars, metalVars>>
  \/ part = "products" /\ Products!Next /\ UNCHANGED <<part, groupVars, tileVars, metalVars>>
  \/ part = "nibbles" /\ Nibbles!Next /\ UNCHANGED <<part, groupVars, tileVars, metalVars>>
  \/ part = "places" /\ Places!Next /\ UNCHANGED <<part, groupVars, tileVars, metalVars>>
  \/ part = "metal_one" /\ OneThread!Next /\ UNCHANGED <<part, groupVars, tileVars, gridVars>>
  \/ part = "metal_two" /\ TwoThreads!Next /\ UNCHANGED <<part, groupVars, tileVars, gridVars>>

Spec == Init /\ [][Next]_<<part, groupVars, tileVars, gridVars, metalVars>>

-----------------------------------------------------------------------------
(* Threadgroup, TiledMatmul, GpuGrid: whatever the order of its lanes, a    *)
(* dispatch leaves in every place what the loop of the processor computes.  *)
(* Edges that are no multiple of the tile, the halves of a word and places  *)
(* written while others read are included, and no thread of a rounded grid  *)
(* writes past a buffer.  In the norms and the softmax no two lanes go on   *)
(* with different values from shared memory; of the fused attention, whose  *)
(* lanes race for the maximum, this and the exact result are not claimed,   *)
(* but that each cached token is in the sum once and the weights sum to one *)
(* (cpu_kernels.rs, metal.rs, webgpu.rs).                                   *)
ExactResult ==
  /\ part = "rms_web" => RmsWeb!ExactResult /\ RmsWeb!LanesAgree
  /\ part = "rms_metal" => RmsMetal!ExactResult /\ RmsMetal!LanesAgree
  /\ part = "softmax" => Softmax!ExactResult /\ Softmax!LanesAgree
  /\ part = "attention" => Attention!TokensOnce /\ Attention!WeightsSumToOne
  /\ part = "matmul" => Matmul!ExactProduct /\ Matmul!WholeTile
  /\ part = "products" => Products!ExactProducts /\ Products!InsideBuffers
  /\ part = "nibbles" => Nibbles!ExactProducts
  /\ part = "places" => Places!ExactPlaces /\ Places!InsideBuffers

(* MetalOps: a call returns the result of its own inputs and layer,         *)
(* whatever earlier or simultaneous calls left in the buffers and the       *)
(* cache, and a longer input than the last does not write past a buffer.    *)
OwnResult ==
  /\ part = "metal_one" => OneThread!OwnResult /\ OneThread!InsideBuffers
  /\ part = "metal_two" => TwoThreads!OwnResult

(* MetalOps!NoCircle: threads that call at the same time never wait for     *)
(* each other's mutexes in a circle.                                        *)
NoCircle == part = "metal_two" => TwoThreads!NoCircle
==============================================================================
