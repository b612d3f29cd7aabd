----------------------------- MODULE WeightPlan -----------------------------
(***************************************************************************)
(* Which format the converter gives every weight of a safetensors model,   *)
(* and whether the code that runs the model reads it in that format.       *)
(*                                                                         *)
(* main refuses some combinations of options, build_tensor_plans takes the *)
(* first of five tests a tensor passes, each with rules of its own for     *)
(* every family of models, and the runners, the vision tower and the audio *)
(* tower each know some of the formats.  Nothing but the name of a format  *)
(* connects the two sides.                                                 *)
(*                                                                         *)
(* A tensor is what the rules ask of its name and shape: the prefix before *)
(* "layers." or before the last part, the part of the model it belongs to  *)
(* (kind), its layer or None, its number of dimensions, and whether its    *)
(* values are floats or packed in u32 with .scales and .biases beside it.  *)
(* Every tensor is a ".weight".                                            *)
(***************************************************************************)
EXTENDS Integers, FiniteSets

CONSTANTS
  Jobs,            \* records [type, affine, tensors, flags]: a model and the options
  LayerLists,      \* values of the two lists of layers
  NumLayers,       \* layers of the model
  None             \* no layer

VARIABLES
  job,             \* the conversion
  exclude,         \* --gemma4-int4-exclude-layers
  attn_layers,     \* --gemma4-mixed-i8-attn-layers
  phase,           \* "args", "plan", "refused", "written", "runs", "fails"
  plan             \* tensors of the file -> their format

vars == <<job, exclude, attn_layers, phase, plan>>

Flag(f) == f \in job.flags
Type == job.type
Gemma == Type \in {"gemma3", "gemma4"}
Gemma4 == Type = "gemma4"
Qwen == Type = "qwen"
Llama == Type = "llama"
Lfm == Type = "lfm2"

Profiles == {"aggressive", "balanced", "awq", "mixed"}

(* The refusals of main, in any order: each one ends it.                   *)
Refused ==
  \/ job.affine /\ ~Flag("dequant") /\ ~Lfm
  \/ Flag("i8") /\ ~(Llama \/ Qwen \/ Gemma \/ Lfm)
  \/ Flag("i4") /\ Flag("i8") /\ ~Flag("mixed")
  \/ Flag("i2") /\ (Flag("i4") \/ Flag("i8"))
  \/ Flag("fp8") /\ (Flag("i2") \/ Flag("i4") \/ Flag("i8"))
  \/ Cardinality(job.flags \cap Profiles) > 1
  \/ job.flags \cap {"aggressive", "balanced", "awq"} # {} /\ ~Flag("i4")
  \/ Flag("mixed") /\ ~(Flag("i4") /\ Flag("i8"))
  \/ Flag("i4") /\ ~(Qwen \/ Gemma \/ Lfm)
  \/ (Flag("i2") \/ Flag("q1")) /\ ~(Gemma \/ Qwen)
  \/ Flag("fp8") /\ ~Gemma

(* --text-only.                                                            *)
IsText(t) ==
  \/ t.prefix \in {"model.language_model.", "language_model.model.",
                   "model.text_model.", "text_model."}
  \/ t.kind = "lm_head"

Towers == {"vision", "audio"}
TextPrefixes == {"model.", "model.language_model.", "model.text_model."}
TextLayer(t) == t.layer # None /\ t.tower \notin Towers
(* name.contains("model.layers.") with any prefix, and name.starts_with    *)
(* with one of the three prefixes that end in "layers.".                   *)
InLayers(t) == TextLayer(t)
StartsInLayers(t) == TextLayer(t) /\ t.prefix \in TextPrefixes
(* extract_layer_index knows the same three prefixes.                      *)
LayerIn(t, layers) == StartsInLayers(t) /\ t.layer \in layers

(* What the Gemma profiles keep in f16 besides the norms.                  *)
Sensitive(t) == t.kind \in {"norm", "embed", "lm_head", "ple", "pleproj"}

I8Llama(t) == t.kind \in {"attn", "mlp"}
I8Qwen(t) ==
  /\ InLayers(t) \/ (t.kind = "embed" /\ t.prefix = "model.") \/ t.kind = "lm_head"
  /\ t.kind \notin {"norm", "conv1d", "linattn"}
I8Gemma(t) == InLayers(t) /\ t.kind \in {"attn", "mlp"}

I8Mixed(t) ==
  /\ StartsInLayers(t) /\ ~Sensitive(t)
  /\ ~LayerIn(t, exclude)
  /\ attn_layers = {} \/ LayerIn(t, attn_layers)
  /\ t.kind = "attn"

(* should_quantize_i8_weight.                                              *)
I8(t) ==
  /\ t.dims = 2
  /\ CASE Llama -> I8Llama(t)
       [] Qwen -> I8Qwen(t)
       [] Gemma4 /\ Flag("mixed") -> I8Mixed(t)
       [] Gemma -> I8Gemma(t)
       [] OTHER -> FALSE

I4Qwen(t) == t.kind \in {"mlp", "attn", "embed", "lm_head"}
I4Aggressive(t) ==
  /\ t.kind # "norm" /\ ~LayerIn(t, exclude)
  /\ \/ StartsInLayers(t)
     \/ t.prefix \in {"model.language_model.", "model.text_model."}
     \/ t.kind \in {"embed", "ple", "pleproj", "lm_head"}
I4Balanced(t) == StartsInLayers(t) /\ ~Sensitive(t) /\ ~LayerIn(t, exclude)
(* Mutant: only the last layer is kept.                                    *)
I4AwqLast(t) ==
  /\ I4Balanced(t)
  /\ t.layer >= 2 /\ ~(NumLayers >= 1 /\ t.layer + 1 >= NumLayers)
I4Awq(t) ==
  /\ I4Balanced(t)
  /\ t.layer >= 2 /\ ~(NumLayers >= 2 /\ t.layer + 2 >= NumLayers)
I4Mixed(t) ==
  /\ I4Balanced(t)
  /\ t.kind = "mlp" \/ (t.kind = "attn" /\ ~LayerIn(t, attn_layers))
I4Gemma(t) ==
  /\ t.kind = "mlp"
  /\ StartsInLayers(t) \/ t.prefix \in {"model.language_model.", "model.text_model."}

(* should_quantize_i4_weight.                                              *)
I4(t) ==
  /\ t.dims = 2
  /\ CASE Qwen -> I4Qwen(t)
       [] Gemma4 /\ Flag("aggressive") -> I4Aggressive(t)
       [] Gemma4 /\ Flag("balanced") -> I4Balanced(t)
       [] Gemma4 /\ Flag("awq") -> I4Awq(t)
       [] Gemma4 /\ Flag("mixed") -> I4Mixed(t)
       [] Gemma -> I4Gemma(t)
       [] OTHER -> FALSE

I2(t) == t.dims = 2 /\ (Gemma \/ Qwen) /\ StartsInLayers(t) /\ ~Sensitive(t)

Q1(t) ==
  /\ t.dims = 2 /\ (Gemma \/ Qwen) /\ t.kind # "norm"
  /\ StartsInLayers(t) \/ t.kind \in {"embed", "ple", "lm_head", "mlp", "attn", "linattn"}

Fp8(t) == t.dims >= 1 /\ Gemma /\ t.kind # "norm" /\ t.prefix # "language_model.model."
          /\ t.kind # "lm_head"

(* The chain of else-ifs of build_tensor_plans.                            *)
Format(t) ==
  IF Flag("i8") /\ I8(t) THEN "i8"
  ELSE IF Flag("fp8") /\ Fp8(t) THEN "f8e4m3"
  ELSE IF Flag("i4") /\ I4(t) THEN "i4"
  ELSE IF Flag("q1") /\ Q1(t) THEN "q1_0_g128"
  ELSE IF Flag("i2") /\ I2(t) THEN "i2"
  ELSE "f16"

(* Packed weights are expanded only on request; any other use of a tensor  *)
(* that is not f16, bf16 or f32 is an error.  The scales and biases of an  *)
(* expanded weight are left out of the file.                               *)
Expanded(t) == Flag("dequant") /\ job.affine /\ t.src = "u32"
Kept == { t \in job.tensors :
            /\ Flag("text_only") => IsText(t)
            /\ ~(Flag("dequant") /\ job.affine /\ t.src = "scales") }
Supported(t) == t.src # "u32" \/ Expanded(t)

Init ==
  /\ job \in Jobs
  /\ exclude \in LayerLists /\ attn_layers \in LayerLists
  /\ phase = "args" /\ plan = << >>

ReadArgs ==
  /\ phase = "args"
  /\ phase' = IF Refused THEN "refused" ELSE "plan"
  /\ UNCHANGED <<job, exclude, attn_layers, plan>>

BuildPlans ==
  /\ phase = "plan"
  /\ IF \A t \in Kept : Supported(t)
       THEN /\ plan' = [t \in Kept |-> IF Expanded(t) THEN "f16" ELSE Format(t)]
            /\ phase' = "written"
       ELSE /\ phase' = "refused"
            /\ UNCHANGED plan
  /\ UNCHANGED <<job, exclude, attn_layers>>

(* The formats each reader has a case for.  Norms and convolutions are     *)
(* read as f16 without a look at the format.                               *)
ReadLlama(t) == IF t.kind = "norm" THEN {"f16"} ELSE {"f16", "i8", "i4"}
ReadQwen(t) ==
  IF t.kind \in {"norm", "conv1d"} THEN {"f16"}
  ELSE {"f16", "i8", "i4", "i2", "q1_0_g128"}
ReadGemma(t) == IF t.kind = "norm" THEN {"f16"} ELSE {"f16", "i8", "i4", "i2"}
ReadLfm(t) == IF t.src = "u32" THEN {"u32", "f16"} ELSE {"f16"}
ReadVision == {"f16", "f32", "bf16", "i8"}
ReadAudio(t) == IF t.kind = "norm" THEN {"f16"} ELSE {"f16", "i4"}

Reads(t) ==
  CASE t.tower = "vision" -> ReadVision
    [] t.tower = "audio" -> ReadAudio(t)
    [] t.tower = "text" /\ Llama -> ReadLlama(t)
    [] t.tower = "text" /\ Qwen -> ReadQwen(t)
    [] t.tower = "text" /\ Gemma -> ReadGemma(t)
    [] t.tower = "text" /\ Lfm -> ReadLfm(t)

(* A prompt with an image and sound: every tensor of the model is asked    *)
(* for by name.                                                            *)
Needed == IF Flag("text_only") THEN {t \in job.tensors : t.tower = "text"}
          ELSE job.tensors
Run ==
  /\ phase = "written"
  /\ phase' = IF \A t \in Needed : \/ t.src = "scales"
                                   \/ t \in DOMAIN plan /\ plan[t] \in Reads(t)
                THEN "runs" ELSE "fails"
  /\ UNCHANGED <<job, exclude, attn_layers, plan>>

Next == ReadArgs \/ BuildPlans \/ Run

Spec == Init /\ [][Next]_vars

-----------------------------------------------------------------------------
(* Every variable has its type; a file that was not written has no plan.   *)
TypeOK ==
  /\ exclude \in LayerLists /\ attn_layers \in LayerLists
  /\ phase \in {"args", "plan", "refused", "written", "runs", "fails"}
  /\ DOMAIN plan \subseteq job.tensors
  /\ \A t \in DOMAIN plan : plan[t] \in {"f16", "i8", "i4", "i2", "q1_0_g128", "f8e4m3"}
  /\ phase \in {"args", "plan", "refused"} => DOMAIN plan = {}

(* What the converter writes without an error, the runner of that model    *)
(* can run: every weight it asks for is there, in a format it reads.       *)
FileRuns == phase # "fails"

(* "Excluded layers stay in f16 for INT4 quantization profiles."           *)
ExcludedStayFull ==
  (Gemma4 /\ job.flags \cap Profiles # {}) =>
    \A t \in DOMAIN plan : LayerIn(t, exclude) => plan[t] = "f16"

(* "When set with --gemma4-mixed-i8-i4, only these attention layers use    *)
(* INT8; other attention layers fall back to INT4."; without a list all of *)
(* them use INT8, the MLP is INT4, and the rest keeps f16.                 *)
MixedAsTold ==
  (Gemma4 /\ Flag("mixed")) =>
    \A t \in DOMAIN plan :
      plan[t] = IF ~StartsInLayers(t) \/ LayerIn(t, exclude) \/ t.dims # 2 THEN "f16"
                ELSE CASE t.kind = "attn" ->
                            IF attn_layers = {} \/ t.layer \in attn_layers THEN "i8" ELSE "i4"
                       [] t.kind = "mlp" -> "i4"
                       [] OTHER -> "f16"

(* "keep sensitive tensors (embeddings/lm_head/PLE/norms + first/last 2    *)
(* layers) in f16".                                                        *)
AwqKeepsSensitive ==
  (Gemma4 /\ Flag("awq")) =>
    \A t \in DOMAIN plan :
      Sensitive(t) \/ (t.tower = "text" /\ t.layer # None
                         /\ t.layer \in {0, 1, NumLayers - 1, NumLayers - 2})
        => plan[t] = "f16"

(* "Keep only text-stack tensors": --text-only drops nothing of the text.  *)
TextOnlyKeepsText ==
  (Flag("text_only") /\ phase \in {"written", "runs", "fails"}) =>
    \A t \in job.tensors : t.tower = "text" => t \in DOMAIN plan

(* "LFM models use pre-quantized 4-bit weights with .scales/.biases        *)
(* suffixes - handle them specially": such a model can be converted.       *)
PackedLfmConverted ==
  (Lfm /\ job.affine /\ job.flags = {}) => phase # "refused"

(* "choose only one quantization mode": a file has one low-bit format,     *)
(* two with the mixed profile.                                             *)
OneModePerFile ==
  ~Flag("mixed") =>
    Cardinality({plan[t] : t \in DOMAIN plan} \ {"f16"}) <= 1

(* An accepted option for a model that has layers does something.          *)
QuantizedWhenAsked ==
  (job.flags \in {{"i8"}, {"i4"}} /\ phase \in {"written", "runs"}) =>
    \E t \in DOMAIN plan : plan[t] # "f16"

(* "Quantize eligible text linear weights": the image tower is not text.   *)
VisionStaysFull ==
  \A t \in DOMAIN plan : t.tower = "vision" => plan[t] = "f16"
=============================================================================
