------------------------------ MODULE MCModels ------------------------------
(* A model from its conversion to its logits, one part at a time: the file  *)
(* the converter writes and the reader loads (CellmLayout), the format it   *)
(* gives each weight (WeightPlan), the cache of decoded weights             *)
(* (LruWeights), and the forward passes of the runners on each of their     *)
(* paths, with small numbers of layers, positions and sessions (LlamaPass,  *)
(* GemmaPass, QwenPass, LfmPass).                                           *)
EXTENDS Integers, Sequences, FiniteSets

CONSTANTS None, Idle, Off, s1, s2

VARIABLES
  part,  \* which of the parts below the behaviour is of
  groups, base, begin, spaced, last_header_len, round, file_phase, header, pos, next, at,
  job, exclude, attn_layers, phase, plan,
  metal, weight_cache, lru_order, lru_layer, matrices, passes, used,
  llama_conf, llama_graph, llama_count, llama_cache, llama_next_pos, llama_call, llama_buf,
  llama_answer,
  gemma_conf, gemma_graph, gemma_count, gemma_cache, gemma_gpu, gemma_fed, gemma_call,
  gemma_answer,
  qwen_conf, qwen_bases, qwen_count, qwen_cache, qwen_recurrent, qwen_fed, qwen_faults,
  qwen_call, qwen_answer,
  lfm_conf, lfm_count, lfm_cache, lfm_conv_states, lfm_fed, lfm_faults, lfm_call, lfm_answer

layoutVars == <<groups, base, begin, spaced, last_header_len, round, file_phase, header,
                pos, next, at>>
weightsVars == <<job, exclude, attn_layers, phase, plan>>
lruVars == <<metal, weight_cache, lru_order, lru_layer, matrices, passes, used>>
llamaVars == <<llama_conf, llama_graph, llama_count, llama_cache, llama_next_pos,
               llama_call, llama_buf, llama_answer>>
gemmaVars == <<gemma_conf, gemma_graph, gemma_count, gemma_cache, gemma_gpu, gemma_fed,
               gemma_call, gemma_answer>>
qwenVars == <<qwen_conf, qwen_bases, qwen_count, qwen_cache, qwen_recurrent, qwen_fed,
              qwen_faults, qwen_call, qwen_answer>>
lfmVars == <<lfm_conf, lfm_count, lfm_cache, lfm_conv_states, lfm_fed, lfm_faults, lfm_call,
             lfm_answer>>

(* A part that is not under way holds nothing.                              *)
NoLayout ==
  /\ groups = Off /\ base = Off /\ begin = Off /\ spaced = Off /\ last_header_len = Off
  /\ round = Off /\ file_phase = Off /\ header = Off /\ pos = Off /\ next = Off /\ at = Off
NoWeights ==
  /\ job = Off /\ exclude = Off /\ attn_layers = Off /\ phase = Off /\ plan = Off
NoLru ==
  /\ metal = Off /\ weight_cache = Off /\ lru_order = Off /\ lru_layer = Off
  /\ matrices = Off /\ passes = Off /\ used = Off
NoLlama ==
  /\ llama_conf = Off /\ llama_graph = Off /\ llama_count = Off /\ llama_cache = Off
  /\ llama_next_pos = Off /\ llama_call = Off /\ llama_buf = Off /\ llama_answer = Off
NoGemma ==
  /\ gemma_conf = Off /\ gemma_graph = Off /\ gemma_count = Off /\ gemma_cache = Off
  /\ gemma_gpu = Off /\ gemma_fed = Off /\ gemma_call = Off /\ gemma_answer = Off
NoQwen ==
  /\ qwen_conf = Off /\ qwen_bases = Off /\ qwen_count = Off /\ qwen_cache = Off
  /\ qwen_recurrent = Off /\ qwen_fed = Off /\ qwen_faults = Off /\ qwen_call = Off
  /\ qwen_answer = Off
NoLfm ==
  /\ lfm_conf = Off /\ lfm_count = Off /\ lfm_cache = Off /\ lfm_conv_states = Off
  /\ lfm_fed = Off /\ lfm_faults = Off /\ lfm_call = Off /\ lfm_answer = Off

(* Tensors of SmolLM2-135M in f16, i8 and i4, by their groups.              *)
G(n, b, e) == [count |-> n, nbytes |-> b, entry |-> e]

(* One layer: norms, and matrices with their scales.                       *)
LayerF16 == << G(2, 1152, 105), G(2, 221184, 112), G(2, 663552, 112) >>
LayerI8 == << G(2, 1152, 105), G(1, 110592, 112), G(1, 384, 119),
              G(1, 884736, 112), G(1, 3072, 119) >>
LayerI4 == << G(1, 1152, 105), G(1, 55296, 112), G(1, 384, 119),
              G(1, 442368, 112), G(1, 3071, 119) >>

Repeat(s, n) == [i \in 1..(n * Len(s)) |-> s[((i - 1) % Len(s)) + 1]]
Embedding == << G(1, 56623104, 105) >>

ModelFiles == { Embedding \o Repeat(LayerF16, 2), Embedding \o Repeat(LayerI8, 2),
                Repeat(LayerI4, 3), << G(1, 64, 80) >>,
                << G(30, 64, 100), G(30, 1152, 110) >> }
TenPowers == {10, 100, 1000, 10000, 100000, 1000000, 10000000, 100000000,
              1000000000}

GemmaLayers == 6

Tensor(prefix, kind, layer, dims, tower) ==
  [prefix |-> prefix, kind |-> kind, layer |-> layer, dims |-> dims,
   tower |-> tower, src |-> "float"]
Packed(t) == [t EXCEPT !.src = "u32"]
ScalesOf(t) == [t EXCEPT !.src = "scales"]

Text(prefix, kind, layer) == Tensor(prefix, kind, layer, 2, "text")
Norm(prefix, layer) == Tensor(prefix, "norm", layer, 1, "text")

(* SmolLM2 and SmolVLM.                                                    *)
LlamaText(p) == { Text(p, "embed", None), Norm(p, None) }
  \cup { Text(p, k, 0) : k \in {"attn", "mlp"} } \cup { Norm(p, 0) }
SmolLm == LlamaText("model.") \cup { Text("", "lm_head", None) }
SmolVlm == LlamaText("model.text_model.")
  \cup { Tensor("model.vision_model.", k, None, 2, "vision") : k \in {"attn", "mlp"} }
  \cup { Tensor("model.connector.", "proj", None, 2, "vision") }

(* Qwen3.5, with an attention and a linear-attention layer, and Qwen2.5.   *)
QwenText(p) == { Text(p, "embed", None), Norm(p, None), Norm(p, 0),
                 Text(p, "attn", 0), Text(p, "mlp", 0), Text(p, "linattn", 1),
                 Tensor(p, "conv1d", 1, 3, "text") }
Qwen25Tensors == QwenText("model.") \cup { Text("", "lm_head", None) }
Qwen35Tensors == QwenText("model.language_model.")

(* Gemma 3 as text, Gemma 4 with its towers and per-layer inputs.          *)
Gemma3Tensors == LlamaText("model.")
P4 == "model.language_model."
Gemma4Tensors ==
  LlamaText(P4)
  \cup { Text(P4, k, l) : k \in {"attn", "mlp", "gate"}, l \in 0..(GemmaLayers - 1) }
  \cup { Text(P4, "ple", None), Text(P4, "pleproj", None) }
  \cup { Tensor("model.vision_tower.", "attn", None, 2, "vision"),
         Tensor("model.audio_tower.", "attn", None, 2, "audio"),
         Tensor("model.audio_tower.", "norm", None, 1, "audio") }

LfmFloat == { Text("model.", k, 0) : k \in {"attn", "feed_forward"} }
  \cup { Text("model.", "embed", None), Norm("model.", 0) }
LfmPacked == { Packed(t) : t \in {Text("model.", "attn", 0), Text("model.", "embed", None)} }
  \cup { ScalesOf(Text("model.", "attn", 0)), Norm("model.", 0) }
QwenPacked == { Packed(Text(P4, "attn", 0)), ScalesOf(Text(P4, "attn", 0)), Norm(P4, 0) }

J(type, affine, tensors, flags) ==
  [type |-> type, affine |-> affine, tensors |-> tensors, flags |-> flags]

ModelTypes == { [type |-> "llama", affine |-> FALSE, tensors |-> SmolLm],
            [type |-> "llama", affine |-> FALSE, tensors |-> SmolVlm],
            [type |-> "qwen", affine |-> FALSE, tensors |-> Qwen25Tensors],
            [type |-> "qwen", affine |-> FALSE, tensors |-> Qwen35Tensors],
            [type |-> "qwen", affine |-> TRUE, tensors |-> QwenPacked],
            [type |-> "gemma3", affine |-> FALSE, tensors |-> Gemma3Tensors],
            [type |-> "gemma4", affine |-> FALSE, tensors |-> Gemma4Tensors],
            [type |-> "lfm2", affine |-> FALSE, tensors |-> LfmFloat],
            [type |-> "lfm2", affine |-> TRUE, tensors |-> LfmPacked] }
Options == { "i8", "i4", "i2", "q1", "aggressive", "balanced", "awq", "mixed",
             "text_only", "dequant" }

FlagSets == { f \in SUBSET Options : Cardinality(f) <= 4 }

(* Every model with every four options, but for Gemma in one bit, which    *)
(* its runner does not read, and --text-only for a model whose names begin *)
(* with "model.", which loses its weights.                                 *)
AllJobs ==
  { J(m.type, m.affine, m.tensors, f) : m \in ModelTypes, f \in FlagSets }
GoodJobs ==
  { j \in AllJobs :
      /\ ~(j.type \in {"gemma3", "gemma4"} /\ "q1" \in j.flags)
      /\ ~("text_only" \in j.flags /\ \E t \in j.tensors : t.prefix = "model.") }
(* Two layers that convolve, and one that attends between them.             *)
ConvAndAttention ==
  [l \in 0..2 |-> IF l = 1 THEN <<"q", "k", "v", "o">> ELSE <<"in_proj", "out_proj">>]

(* The parts, each with its constants.                                      *)
Layout == INSTANCE CellmLayout WITH
  Files <- ModelFiles, Fixed <- 1500..1563, Align <- 64, Rounds <- 3, Powers <- TenPowers,
  Preamble <- 10, phase <- file_phase
Weights == INSTANCE WeightPlan WITH
  Jobs <- GoodJobs, LayerLists <- {{}, {0}, {1, 3}}, NumLayers <- GemmaLayers
LruCpu == INSTANCE LruWeights WITH
  NumLayers <- 2, Mixer <- [l \in {0, 1} |-> <<"q">>], MaxCacheEntries <- 5,
  Backends <- {"cpu"}, MaxPasses <- 4, Failures <- TRUE, layer <- lru_layer, at <- matrices
LruMetal == INSTANCE LruWeights WITH
  NumLayers <- 3, Mixer <- ConvAndAttention, MaxCacheEntries <- 7,
  Backends <- {"cpu", "metal"}, MaxPasses <- 4, Failures <- TRUE,
  layer <- lru_layer, at <- matrices
Llama == INSTANCE LlamaPass WITH
  NumLayers <- 2, MaxLayers <- 2, MaxSeq <- 2, MaxFused <- 1,
  Backends <- {"cpu", "linear", "full"}, Dtypes <- {"f16", "i8"}, NormDtype <- "f16",
  GraphFaults <- TRUE, Calls <- {"step", "prefill", "fused"}, conf <- llama_conf,
  graph <- llama_graph, count <- llama_count, cache <- llama_cache,
  next_pos <- llama_next_pos, call <- llama_call, buf <- llama_buf, answer <- llama_answer
LlamaGraph == INSTANCE LlamaPass WITH
  NumLayers <- 2, MaxLayers <- 2, MaxSeq <- 3, MaxFused <- 3, Backends <- {"graph"},
  Dtypes <- {"f16"}, NormDtype <- "f16", GraphFaults <- FALSE, Calls <- {"step", "fused"},
  conf <- llama_conf, graph <- llama_graph, count <- llama_count, cache <- llama_cache,
  next_pos <- llama_next_pos, call <- llama_call, buf <- llama_buf, answer <- llama_answer
LlamaWeb == INSTANCE LlamaPass WITH
  NumLayers <- 2, MaxLayers <- 2, MaxSeq <- 3, MaxFused <- 3, Backends <- {"webgpu"},
  Dtypes <- {"f16"}, NormDtype <- "f32", GraphFaults <- FALSE, Calls <- {"step", "fused"},
  conf <- llama_conf, graph <- llama_graph, count <- llama_count, cache <- llama_cache,
  next_pos <- llama_next_pos, call <- llama_call, buf <- llama_buf, answer <- llama_answer
Gemma3 == INSTANCE GemmaPass WITH
  Sessions <- {s1, s2}, NumLayers <- 2, MaxSeq <- 2, BlockSize <- 2, Kinds <- {"gemma3"},
  Dtypes <- {"f16", "i4"}, Backends <- {"cpu", "linear", "full"}, SlidingMask <- {0},
  SharedLayers <- 0, HasPle <- FALSE, Scaled <- {}, Pattern <- 2, Window <- 1,
  PathFaults <- TRUE, conf <- gemma_conf, graph <- gemma_graph, count <- gemma_count,
  cache <- gemma_cache, gpu <- gemma_gpu, fed <- gemma_fed, call <- gemma_call,
  answer <- gemma_answer
Gemma4 == INSTANCE GemmaPass WITH
  Sessions <- {s1}, NumLayers <- 4, MaxSeq <- 3, BlockSize <- 2, Kinds <- {"gemma4"},
  Dtypes <- {"f16"}, Backends <- {"cpu", "linear"}, SlidingMask <- {0, 2},
  SharedLayers <- 2, HasPle <- TRUE, Scaled <- {0, 1}, Pattern <- 2, Window <- 1,
  PathFaults <- TRUE, conf <- gemma_conf, graph <- gemma_graph, count <- gemma_count,
  cache <- gemma_cache, gpu <- gemma_gpu, fed <- gemma_fed, call <- gemma_call,
  answer <- gemma_answer
Gemma == INSTANCE GemmaPass WITH
  Sessions <- {s1}, NumLayers <- 2, MaxSeq <- 4, BlockSize <- 2, Kinds <- {"plain"},
  Dtypes <- {"i4", "f16"}, Backends <- {"cpu", "linear", "full"}, SlidingMask <- {},
  SharedLayers <- 0, HasPle <- FALSE, Scaled <- {}, Pattern <- 2, Window <- 1,
  PathFaults <- FALSE, conf <- gemma_conf, graph <- gemma_graph, count <- gemma_count,
  cache <- gemma_cache, gpu <- gemma_gpu, fed <- gemma_fed, call <- gemma_call,
  answer <- gemma_answer
Qwen == INSTANCE QwenPass WITH
  Sessions <- {s1, s2}, NumLayers <- 2, MaxSeq <- 3, MaxPrefill <- 1, Kinds <- {"qwen3"},
  Dtypes <- {"f16", "i4"}, Backends <- {"cpu", "linear"}, LinearLayers <- {},
  PartialRotary <- FALSE, HasHead <- TRUE, MaxFaults <- 0, Resets <- TRUE, Cancels <- TRUE,
  conf <- qwen_conf, bases <- qwen_bases, count <- qwen_count, cache <- qwen_cache,
  recurrent <- qwen_recurrent, fed <- qwen_fed, faults <- qwen_faults, call <- qwen_call,
  answer <- qwen_answer
QwenGraph == INSTANCE QwenPass WITH
  Sessions <- {s1}, NumLayers <- 2, MaxSeq <- 4, MaxPrefill <- 2,
  Kinds <- {"qwen2", "qwen3"}, Dtypes <- {"f16", "i8"}, Backends <- {"full"},
  LinearLayers <- {}, PartialRotary <- FALSE, HasHead <- FALSE, MaxFaults <- 0,
  Resets <- FALSE, Cancels <- FALSE, conf <- qwen_conf, bases <- qwen_bases, count <- qwen_count,
  cache <- qwen_cache, recurrent <- qwen_recurrent, fed <- qwen_fed, faults <- qwen_faults,
  call <- qwen_call, answer <- qwen_answer
Qwen35 == INSTANCE QwenPass WITH
  Sessions <- {s1, s2}, NumLayers <- 2, MaxSeq <- 3, MaxPrefill <- 2, Kinds <- {"qwen35"},
  Dtypes <- {"f16", "i8"}, Backends <- {"cpu", "full"}, LinearLayers <- {0},
  PartialRotary <- FALSE, HasHead <- TRUE, MaxFaults <- 0, Resets <- FALSE, Cancels <- TRUE,
  conf <- qwen_conf, bases <- qwen_bases, count <- qwen_count, cache <- qwen_cache,
  recurrent <- qwen_recurrent, fed <- qwen_fed, faults <- qwen_faults, call <- qwen_call,
  answer <- qwen_answer
Qwen35Faults == INSTANCE QwenPass WITH
  Sessions <- {s1, s2}, NumLayers <- 2, MaxSeq <- 2, MaxPrefill <- 1, Kinds <- {"qwen35"},
  Dtypes <- {"f16", "i4"}, Backends <- {"full"}, LinearLayers <- {0},
  PartialRotary <- FALSE, HasHead <- TRUE, MaxFaults <- 1, Resets <- FALSE, Cancels <- TRUE,
  conf <- qwen_conf, bases <- qwen_bases, count <- qwen_count, cache <- qwen_cache,
  recurrent <- qwen_recurrent, fed <- qwen_fed, faults <- qwen_faults, call <- qwen_call,
  answer <- qwen_answer
Lfm == INSTANCE LfmPass WITH
  Sessions <- {s1}, NumLayers <- 3, ConvLayers <- {0, 2}, KernelSize <- 3, MaxSeq <- 5,
  MaxPrefill <- 3, Dtypes <- {"f16", "u32"}, Backends <- {"cpu", "metal"}, MaxFaults <- 0,
  Resets <- FALSE, conf <- lfm_conf, count <- lfm_count, cache <- lfm_cache,
  conv_states <- lfm_conv_states, fed <- lfm_fed, faults <- lfm_faults, call <- lfm_call,
  answer <- lfm_answer
LfmFaults == INSTANCE LfmPass WITH
  Sessions <- {s1, s2}, NumLayers <- 2, ConvLayers <- {}, KernelSize <- 2, MaxSeq <- 2,
  MaxPrefill <- 1, Dtypes <- {"f16"}, Backends <- {"metal"}, MaxFaults <- 1, Resets <- TRUE,
  conf <- lfm_conf, count <- lfm_count, cache <- lfm_cache, conv_states <- lfm_conv_states,
  fed <- lfm_fed, faults <- lfm_faults, call <- lfm_call, answer <- lfm_answer

ASSUME PartsAssumption ==
  /\ Layout!CellmLayoutAssumption
  /\ LruCpu!LruAssumption
  /\ LruMetal!LruAssumption
  /\ Llama!LlamaAssumption
  /\ LlamaGraph!LlamaAssumption
  /\ LlamaWeb!LlamaAssumption
  /\ Gemma3!GemmaAssumption
  /\ Gemma4!GemmaAssumption
  /\ Gemma!GemmaAssumption
  /\ Qwen!QwenAssumption
  /\ QwenGraph!QwenAssumption
  /\ Qwen35!QwenAssumption
  /\ Qwen35Faults!QwenAssumption
  /\ Lfm!LfmAssumption
  /\ LfmFaults!LfmAssumption

Init ==
  \/ part = "layout" /\ Layout!Init /\ NoWeights /\ NoLru /\ NoLlama /\ NoGemma /\ NoQwen /\ NoLfm
  \/ part = "weights" /\ Weights!Init /\ NoLayout /\ NoLru /\ NoLlama /\ NoGemma /\ NoQwen /\ NoLfm
  \/ part = "lru_cpu" /\ LruCpu!Init /\ NoLayout /\ NoWeights /\ NoLlama /\ NoGemma /\ NoQwen /\ NoLfm
  \/ part = "lru_metal" /\ LruMetal!Init /\ NoLayout /\ NoWeights /\ NoLlama /\ NoGemma /\ NoQwen /\ NoLfm
  \/ part = "llama" /\ Llama!Init /\ NoLayout /\ NoWeights /\ NoLru /\ NoGemma /\ NoQwen /\ NoLfm
  \/ part = "llama_graph" /\ LlamaGraph!Init /\ NoLayout /\ NoWeights /\ NoLru /\ NoGemma /\ NoQwen /\ NoLfm
  \/ part = "llama_web" /\ LlamaWeb!Init /\ NoLayout /\ NoWeights /\ NoLru /\ NoGemma /\ NoQwen /\ NoLfm
  \/ part = "gemma3" /\ Gemma3!Init /\ NoLayout /\ NoWeights /\ NoLru /\ NoLlama /\ NoQwen /\ NoLfm
  \/ part = "gemma4" /\ Gemma4!Init /\ NoLayout /\ NoWeights /\ NoLru /\ NoLlama /\ NoQwen /\ NoLfm
  \/ part = "gemma" /\ Gemma!Init /\ NoLayout /\ NoWeights /\ NoLru /\ NoLlama /\ NoQwen /\ NoLfm
  \/ part = "qwen" /\ Qwen!Init /\ NoLayout /\ NoWeights /\ NoLru /\ NoLlama /\ NoGemma /\ NoLfm
  \/ part = "qwen_graph" /\ QwenGraph!Init /\ NoLayout /\ NoWeights /\ NoLru /\ NoLlama /\ NoGemma /\ NoLfm
  \/ part = "qwen35" /\ Qwen35!Init /\ NoLayout /\ NoWeights /\ NoLru /\ NoLlama /\ NoGemma /\ NoLfm
  \/ part = "qwen35_faults" /\ Qwen35Faults!Init /\ NoLayout /\ NoWeights /\ NoLru /\ NoLlama /\ NoGemma /\ NoLfm
  \/ part = "lfm" /\ Lfm!Init /\ NoLayout /\ NoWeights /\ NoLru /\ NoLlama /\ NoGemma /\ NoQwen
  \/ part = "lfm_faults" /\ LfmFaults!Init /\ NoLayout /\ NoWeights /\ NoLru /\ NoLlama /\ NoGemma /\ NoQwen

Next ==
  \/ part = "layout" /\ Layout!Next /\ UNCHANGED <<part, weightsVars, lruVars, llamaVars, gemmaVars, qwenVars, lfmVars>>
  \/ part = "weights" /\ Weights!Next /\ UNCHANGED <<part, layoutVars, lruVars, llamaVars, gemmaVars, qwenVars, lfmVars>>
  \/ part = "lru_cpu" /\ LruCpu!Next /\ UNCHANGED <<part, layoutVars, weightsVars, llamaVars, gemmaVars, qwenVars, lfmVars>>
  \/ part = "lru_metal" /\ LruMetal!Next /\ UNCHANGED <<part, layoutVars, weightsVars, llamaVars, gemmaVars, qwenVars, lfmVars>>
  \/ part = "llama" /\ Llama!Next /\ UNCHANGED <<part, layoutVars, weightsVars, lruVars, gemmaVars, qwenVars, lfmVars>>
  \/ part = "llama_graph" /\ LlamaGraph!Next /\ UNCHANGED <<part, layoutVars, weightsVars, lruVars, gemmaVars, qwenVars, lfmVars>>
  \/ part = "llama_web" /\ LlamaWeb!Next /\ UNCHANGED <<part, layoutVars, weightsVars, lruVars, gemmaVars, qwenVars, lfmVars>>
  \/ part = "gemma3" /\ Gemma3!Next /\ UNCHANGED <<part, layoutVars, weightsVars, lruVars, llamaVars, qwenVars, lfmVars>>
  \/ part = "gemma4" /\ Gemma4!Next /\ UNCHANGED <<part, layoutVars, weightsVars, lruVars, llamaVars, qwenVars, lfmVars>>
  \/ part = "gemma" /\ Gemma!Next /\ UNCHANGED <<part, layoutVars, weightsVars, lruVars, llamaVars, qwenVars, lfmVars>>
  \/ part = "qwen" /\ Qwen!Next /\ UNCHANGED <<part, layoutVars, weightsVars, lruVars, llamaVars, gemmaVars, lfmVars>>
  \/ part = "qwen_graph" /\ QwenGraph!Next /\ UNCHANGED <<part, layoutVars, weightsVars, lruVars, llamaVars, gemmaVars, lfmVars>>
  \/ part = "qwen35" /\ Qwen35!Next /\ UNCHANGED <<part, layoutVars, weightsVars, lruVars, llamaVars, gemmaVars, lfmVars>>
  \/ part = "qwen35_faults" /\ Qwen35Faults!Next /\ UNCHANGED <<part, layoutVars, weightsVars, lruVars, llamaVars, gemmaVars, lfmVars>>
  \/ part = "lfm" /\ Lfm!Next /\ UNCHANGED <<part, layoutVars, weightsVars, lruVars, llamaVars, gemmaVars, qwenVars>>
  \/ part = "lfm_faults" /\ LfmFaults!Next /\ UNCHANGED <<part, layoutVars, weightsVars, lruVars, llamaVars, gemmaVars, qwenVars>>

Spec == Init /\ [][Next]_<<part, layoutVars, weightsVars, lruVars, llamaVars, gemmaVars, qwenVars, lfmVars>>

-----------------------------------------------------------------------------
(* CellmLayout: a complete file is read as it was written, and no other is  *)
(* accepted.  Three rounds of planning are enough for files of models: the  *)
(* writer never stands behind a planned offset; no two tensors share a      *)
(* byte; the reader finds each where the header says; and what a conversion *)
(* that stopped half-way leaves behind is refused (main.rs of convert,      *)
(* cellm_file.rs).                                                          *)
FileIsReadAsWritten ==
  part = "layout" =>
    /\ Layout!TypeOK /\ Layout!WriterReachesOffsets /\ Layout!TensorsApart
    /\ Layout!ReaderFindsTensors /\ Layout!PartialFileRefused

(* WeightPlan: what the converter writes, the model's runner runs: every    *)
(* weight it asks for is there in a format it reads, and the layers that    *)
(* the mixed, excluding and AWQ profiles promise to keep are kept.          *)
FileRuns ==
  part = "weights" =>
    /\ Weights!TypeOK /\ Weights!FileRuns
    /\ Weights!ExcludedStayFull /\ Weights!MixedAsTold /\ Weights!AwqKeepsSensitive

(* LruWeights: when the three matrices of a feed-forward block have been    *)
(* made sure of, fetching one has not evicted another; the list names the   *)
(* keys of the map, the least recently used first (lfm.rs).                 *)
UnwrapFinds ==
  /\ part = "lru_cpu" => LruCpu!ListIsTheMap /\ LruCpu!OrderIsByUse
  /\ part = "lru_metal" => LruMetal!UnwrapFinds

(* The K/V of every finished position of a session are the model's, in each *)
(* layer, whichever backend and path wrote them, and however often a failed *)
(* call was repeated.  Qwen's graph, and an LFM that convolves, have one    *)
(* session that only goes on, and none of Qwen's kernels fails.             *)
CacheIsTheModels ==
  /\ part = "llama" => Llama!TypeOK /\ Llama!CacheIsTheModels
  /\ part = "llama_graph" => LlamaGraph!CacheIsTheModels
  /\ part = "llama_web" => LlamaWeb!CacheIsTheModels
  /\ part = "gemma3" => Gemma3!TypeOK /\ Gemma3!CacheIsTheModels
  /\ part = "gemma4" => Gemma4!CacheIsTheModels
  /\ part = "gemma" => Gemma!CacheIsTheModels
  /\ part = "qwen" => Qwen!TypeOK /\ Qwen!CacheIsTheModels
  /\ part = "qwen_graph" => QwenGraph!CacheIsTheModels
  /\ part = "lfm" => Lfm!TypeOK /\ Lfm!CacheIsTheModels
  /\ part = "lfm_faults" => LfmFaults!CacheIsTheModels

(* The logits of a call are the model's for its session and last position,  *)
(* with windows, shared layers, per-layer inputs, scales and caps: no       *)
(* mixture of paths, retries and hand-overs, nor, in Gemma 3 and in the     *)
(* loop of Qwen, of sessions.                                               *)
AnswerIsTheModels ==
  /\ part = "llama" => Llama!AnswerIsTheModels
  /\ part = "llama_graph" => LlamaGraph!AnswerIsTheModels
  /\ part = "gemma3" => Gemma3!AnswerIsTheModels
  /\ part = "gemma4" => Gemma4!AnswerIsTheModels
  /\ part = "gemma" => Gemma!AnswerIsTheModels
  /\ part = "qwen" => Qwen!AnswerIsTheModels
  /\ part = "qwen_graph" => QwenGraph!AnswerIsTheModels
  /\ part = "qwen35" => Qwen35!AnswerIsTheModels
  /\ part = "lfm" => Lfm!AnswerIsTheModels
  /\ part = "lfm_faults" => LfmFaults!AnswerIsTheModels

(* What a runner keeps beside the K/V is made of exactly the positions of   *)
(* its session, none skipped and none twice: Qwen's recurrent state, also   *)
(* when a kernel fails for another session, of sessions that are not taken  *)
(* back, and the convolution windows of LFM's one session while a token     *)
(* runs.                                                                    *)
StateIsThePast ==
  /\ part = "qwen35" => Qwen35!StateIsThePast
  /\ part = "qwen35_faults" => Qwen35Faults!FaultsStayInTheirSession
  /\ part = "lfm" => Lfm!WindowIsThePast
==============================================================================
