------------------------------ MODULE MCImages ------------------------------
(* From a picture or a recording to text, one part at a time: the prompt of *)
(* Gemma 4 with the patches of the image (VlmPrompt as extended here), the  *)
(* prompts of the browser, of the prefix mode, of Idefics with its tiles    *)
(* and of the ONNX tool, the vision towers on each backend (VisionTower),   *)
(* the audio tower (AudioTower), and the decoding of a prompt with features *)
(* (VlmDecode). Tiles are two by two and the longest edge is four tiles.    *)
EXTENDS VlmPrompt, TLC

CONSTANTS Off, eos, a, b

VARIABLES
  part,  \* which of the parts below the behaviour is of
  tiled_size, tiled_files, tiled_softEnv, tiled_splitEnv, tiled_holders, tiled_at,
  tiled_read, tiled_hints, tiled_views, tiled_patches, tiled_rows, tiled_seqLen, tiled_input,
  grid, tower_views, target, tower_at, layer, view, tokens, attn, features,
  file, channels, audio_at, cursor, fmt, data, samples, audio_layer, block, hidden, heard,
  rel,
  prompt, feats, phase, place, pos, image_idx, count, cache, next, generated

patchesVars == <<size, files, softEnv, splitEnv, holders, at, read, hints, views, patches,
                 rows, seqLen, input>>
tilesVars == <<tiled_size, tiled_files, tiled_softEnv, tiled_splitEnv, tiled_holders,
               tiled_at, tiled_read, tiled_hints, tiled_views, tiled_patches, tiled_rows,
               tiled_seqLen, tiled_input>>
towerVars == <<grid, tower_views, target, tower_at, layer, view, tokens, attn, features>>
audioVars == <<file, channels, audio_at, cursor, fmt, data, samples, audio_layer, block,
               hidden, heard, rel>>
decodeVars == <<prompt, feats, phase, place, pos, image_idx, count, cache, next, generated>>

(* A part that is not under way holds nothing.                              *)
NoPatches ==
  /\ size = Off /\ files = Off /\ softEnv = Off /\ splitEnv = Off /\ holders = Off
  /\ at = Off /\ read = Off /\ hints = Off /\ views = Off /\ patches = Off /\ rows = Off
  /\ seqLen = Off /\ input = Off
NoTiles ==
  /\ tiled_size = Off /\ tiled_files = Off /\ tiled_softEnv = Off /\ tiled_splitEnv = Off
  /\ tiled_holders = Off /\ tiled_at = Off /\ tiled_read = Off /\ tiled_hints = Off
  /\ tiled_views = Off /\ tiled_patches = Off /\ tiled_rows = Off /\ tiled_seqLen = Off
  /\ tiled_input = Off
NoTower ==
  /\ grid = Off /\ tower_views = Off /\ target = Off /\ tower_at = Off /\ layer = Off
  /\ view = Off /\ tokens = Off /\ attn = Off /\ features = Off
NoAudio ==
  /\ file = Off /\ channels = Off /\ audio_at = Off /\ cursor = Off /\ fmt = Off
  /\ data = Off /\ samples = Off /\ audio_layer = Off /\ block = Off /\ hidden = Off
  /\ heard = Off /\ rel = Off
NoDecode ==
  /\ prompt = Off /\ feats = Off /\ phase = Off /\ place = Off /\ pos = Off
  /\ image_idx = Off /\ count = Off /\ cache = Off /\ next = Off /\ generated = Off

UpTo8 == (1..8) \X (1..8)
UpTo12 == (1..12) \X (1..12)
Wide == {3, 8, 11, 12, 13, 14} \X (1..8)
Silent == [len |-> None, split |-> None]
LengthConfigs == {Silent, [Silent EXCEPT !.len = 2], [Silent EXCEPT !.len = 3]}
SplitConfigs ==
  LengthConfigs \cup {[Silent EXCEPT !.split = TRUE], [len |-> 2, split |-> FALSE]}
Budgets == {None, 1, 2, 5, 7}
AnySplit == {None, TRUE, FALSE}

Sixes == {g \in (1..6) \X (1..6) : g[1] * g[2] = 6}
UpToSix == {g \in (1..6) \X (1..6) : g[1] * g[2] <= 6}

(* Every length of up to 48 samples, alone or among even chunks.            *)
Ch(t, n) == [tag |-> t, len |-> n]
EvenFiles ==
  {<<Ch("fmt ", 16), Ch("data", 2 * n)>> : n \in 0..48}
  \cup {<<Ch("fmt ", 16), Ch("LIST", 6), Ch("data", 2 * n), Ch("LIST", 4)>> : n \in {0, 1, 9, 34}}
  \cup {<<Ch("LIST", 2), Ch("fmt ", 18), Ch("LIST", 0), Ch("data", 2 * n)>> : n \in {2, 12}}

(* Prompts of up to four positions; a chat template ends in text.           *)
AllPrompts == UNION {[1..n -> {"txt", "img"}] : n \in 1..4}
OneImage ==
  {s \in AllPrompts :
     /\ s[Len(s)] = "txt"
     /\ \E first, last \in DOMAIN s :
          first <= last /\ \A k \in DOMAIN s : s[k] = "img" <=> k \in first..last}
NoImage == {<<"txt">>, <<"txt", "txt">>}
OneImageOrNone == OneImage \cup NoImage

(* The parts, each with its constants.                                      *)
Browser == INSTANCE VlmPrompt WITH
  Family <- "gemma", Path <- "bytes", Sizes <- UpTo12, Configs <- {Silent},
  SoftEnv <- {None}, SplitEnv <- {None}, DefaultSplit <- FALSE, PrefixMode <- FALSE,
  TowerLen <- 2, SoftTokens <- 6, Tile <- 2, Longest <- 8, Grid <- 6, MaxTiles <- 4,
  TextHolders <- {0, 1}, size <- tiled_size, files <- tiled_files, softEnv <- tiled_softEnv,
  splitEnv <- tiled_splitEnv, holders <- tiled_holders, at <- tiled_at, read <- tiled_read,
  hints <- tiled_hints, views <- tiled_views, patches <- tiled_patches, rows <- tiled_rows,
  seqLen <- tiled_seqLen, input <- tiled_input
BosInFront == INSTANCE VlmPrompt WITH
  Family <- "gemma", Path <- "native", Sizes <- UpTo12, Configs <- {Silent},
  SoftEnv <- Budgets, SplitEnv <- {None}, DefaultSplit <- FALSE, PrefixMode <- TRUE,
  TowerLen <- 2, SoftTokens <- 6, Tile <- 2, Longest <- 8, Grid <- 6, MaxTiles <- 4,
  TextHolders <- {0}, size <- tiled_size, files <- tiled_files, softEnv <- tiled_softEnv,
  splitEnv <- tiled_splitEnv, holders <- tiled_holders, at <- tiled_at, read <- tiled_read,
  hints <- tiled_hints, views <- tiled_views, patches <- tiled_patches, rows <- tiled_rows,
  seqLen <- tiled_seqLen, input <- tiled_input
Split == INSTANCE VlmPrompt WITH
  Family <- "idefics", Path <- "native", Sizes <- UpTo8, Configs <- SplitConfigs,
  SoftEnv <- {None}, SplitEnv <- {None, TRUE, FALSE}, DefaultSplit <- TRUE,
  PrefixMode <- FALSE, TowerLen <- 2, SoftTokens <- 5, Tile <- 2, Longest <- 8, Grid <- 6,
  MaxTiles <- 4, TextHolders <- {0, 1}, size <- tiled_size, files <- tiled_files,
  softEnv <- tiled_softEnv, splitEnv <- tiled_splitEnv, holders <- tiled_holders,
  at <- tiled_at, read <- tiled_read, hints <- tiled_hints, views <- tiled_views,
  patches <- tiled_patches, rows <- tiled_rows, seqLen <- tiled_seqLen, input <- tiled_input
EveryTile == INSTANCE VlmPrompt WITH
  Family <- "idefics", Path <- "native", Sizes <- UpTo8, Configs <- {Silent},
  SoftEnv <- {None}, SplitEnv <- {TRUE}, DefaultSplit <- TRUE, PrefixMode <- FALSE,
  TowerLen <- 2, SoftTokens <- 5, Tile <- 2, Longest <- 8, Grid <- 6, MaxTiles <- 16,
  TextHolders <- {0}, size <- tiled_size, files <- tiled_files, softEnv <- tiled_softEnv,
  splitEnv <- tiled_splitEnv, holders <- tiled_holders, at <- tiled_at, read <- tiled_read,
  hints <- tiled_hints, views <- tiled_views, patches <- tiled_patches, rows <- tiled_rows,
  seqLen <- tiled_seqLen, input <- tiled_input
Onnx == INSTANCE VlmPrompt WITH
  Family <- "idefics", Path <- "onnx", Sizes <- Wide, Configs <- LengthConfigs,
  SoftEnv <- {None}, SplitEnv <- {None, TRUE, FALSE}, DefaultSplit <- FALSE,
  PrefixMode <- FALSE, TowerLen <- 2, SoftTokens <- 5, Tile <- 2, Longest <- 8, Grid <- 6,
  MaxTiles <- 4, TextHolders <- {0, 1}, size <- tiled_size, files <- tiled_files,
  softEnv <- tiled_softEnv, splitEnv <- tiled_splitEnv, holders <- tiled_holders,
  at <- tiled_at, read <- tiled_read, hints <- tiled_hints, views <- tiled_views,
  patches <- tiled_patches, rows <- tiled_rows, seqLen <- tiled_seqLen, input <- tiled_input
TowerCpu == INSTANCE VisionTower WITH
  Family <- "idefics", Backend <- "cpu", Apple <- TRUE, Grids <- Sixes, Views <- {1, 2, 3},
  Targets <- {6}, NumTokens <- 24, Pool <- 2, LargeSeq <- 32, NumHeads <- 2, NumLayers <- 3,
  views <- tower_views, at <- tower_at
TowerMetal == INSTANCE VisionTower WITH
  Family <- "idefics", Backend <- "metal", Apple <- TRUE, Grids <- Sixes,
  Views <- {1, 2, 3}, Targets <- {6}, NumTokens <- 24, Pool <- 2, LargeSeq <- 32,
  NumHeads <- 2, NumLayers <- 3, views <- tower_views, at <- tower_at
TowerGemma == INSTANCE VisionTower WITH
  Family <- "gemma", Backend <- "cpu", Apple <- FALSE, Grids <- UpToSix, Views <- {1},
  Targets <- 1..6, NumTokens <- 24, Pool <- 2, LargeSeq <- 32, NumHeads <- 2,
  NumLayers <- 3, views <- tower_views, at <- tower_at
Audio == INSTANCE AudioTower WITH
  Files <- EvenFiles, Channels <- {1, 2}, Hop <- 2, Chunk <- 3, Left <- 4, Kernel <- 3,
  NumLayers <- 2, at <- audio_at, layer <- audio_layer, pos <- cursor
Llama == INSTANCE VlmDecode WITH
  Runner <- "llama", Prompts <- AllPrompts, Features <- {1, 2, 3}, Prefix <- FALSE,
  Bidir <- FALSE, NumLayers <- 3, MaxNew <- 2, MinNew <- 1, SameRun <- 3, AltRun <- 4,
  Tokens <- {eos, a}, Eos <- eos, at <- phase, i <- place
Gemma == INSTANCE VlmDecode WITH
  Runner <- "gemma", Prompts <- OneImageOrNone, Features <- {1, 2, 3}, Prefix <- FALSE,
  Bidir <- TRUE, NumLayers <- 2, MaxNew <- 2, MinNew <- 1, SameRun <- 3, AltRun <- 4,
  Tokens <- {eos, a}, Eos <- eos, at <- phase, i <- place
GemmaDeep == INSTANCE VlmDecode WITH
  Runner <- "gemma", Prompts <- AllPrompts, Features <- {1, 2, 3}, Prefix <- FALSE,
  Bidir <- TRUE, NumLayers <- 4, MaxNew <- 2, MinNew <- 1, SameRun <- 3, AltRun <- 4,
  Tokens <- {eos, a}, Eos <- eos, at <- phase, i <- place
FeaturesFirst == INSTANCE VlmDecode WITH
  Runner <- "gemma", Prompts <- NoImage, Features <- {1, 2, 3}, Prefix <- TRUE,
  Bidir <- TRUE, NumLayers <- 2, MaxNew <- 3, MinNew <- 1, SameRun <- 3, AltRun <- 4,
  Tokens <- {eos, a, b}, Eos <- eos, at <- phase, i <- place
Stop == INSTANCE VlmDecode WITH
  Runner <- "llama", Prompts <- {<<"txt", "img">>}, Features <- {1}, Prefix <- FALSE,
  Bidir <- FALSE, NumLayers <- 1, MaxNew <- 6, MinNew <- 3, SameRun <- 3, AltRun <- 4,
  Tokens <- {eos, a, b}, Eos <- eos, at <- phase, i <- place

ASSUME PartsAssumption ==
  /\ Browser!VlmPromptAssumption
  /\ BosInFront!VlmPromptAssumption
  /\ Split!VlmPromptAssumption
  /\ EveryTile!VlmPromptAssumption
  /\ Onnx!VlmPromptAssumption
  /\ TowerCpu!VisionTowerAssumption
  /\ TowerMetal!VisionTowerAssumption
  /\ TowerGemma!VisionTowerAssumption
  /\ Audio!AudioTowerAssumption
  /\ Llama!VlmDecodeAssumption
  /\ Gemma!VlmDecodeAssumption
  /\ GemmaDeep!VlmDecodeAssumption
  /\ FeaturesFirst!VlmDecodeAssumption
  /\ Stop!VlmDecodeAssumption

PartsInit ==
  \/ part = "patches" /\ Init /\ NoTiles /\ NoTower /\ NoAudio /\ NoDecode
  \/ part = "browser" /\ Browser!Init /\ NoPatches /\ NoTower /\ NoAudio /\ NoDecode
  \/ part = "prefix" /\ BosInFront!Init /\ NoPatches /\ NoTower /\ NoAudio /\ NoDecode
  \/ part = "split" /\ Split!Init /\ NoPatches /\ NoTower /\ NoAudio /\ NoDecode
  \/ part = "every_tile" /\ EveryTile!Init /\ NoPatches /\ NoTower /\ NoAudio /\ NoDecode
  \/ part = "onnx" /\ Onnx!Init /\ NoPatches /\ NoTower /\ NoAudio /\ NoDecode
  \/ part = "tower_cpu" /\ TowerCpu!Init /\ NoPatches /\ NoTiles /\ NoAudio /\ NoDecode
  \/ part = "tower_metal" /\ TowerMetal!Init /\ NoPatches /\ NoTiles /\ NoAudio /\ NoDecode
  \/ part = "tower_gemma" /\ TowerGemma!Init /\ NoPatches /\ NoTiles /\ NoAudio /\ NoDecode
  \/ part = "audio" /\ Audio!Init /\ NoPatches /\ NoTiles /\ NoTower /\ NoDecode
  \/ part = "llama" /\ Llama!Init /\ NoPatches /\ NoTiles /\ NoTower /\ NoAudio
  \/ part = "gemma" /\ Gemma!Init /\ NoPatches /\ NoTiles /\ NoTower /\ NoAudio
  \/ part = "gemma_deep" /\ GemmaDeep!Init /\ NoPatches /\ NoTiles /\ NoTower /\ NoAudio
  \/ part = "features_first" /\ FeaturesFirst!Init /\ NoPatches /\ NoTiles /\ NoTower /\ NoAudio
  \/ part = "stop" /\ Stop!Init /\ NoPatches /\ NoTiles /\ NoTower /\ NoAudio

PartsNext ==
  \/ part = "patches" /\ Next /\ UNCHANGED <<part, tilesVars, towerVars, audioVars, decodeVars>>
  \/ part = "browser" /\ Browser!Next /\ UNCHANGED <<part, patchesVars, towerVars, audioVars, decodeVars>>
  \/ part = "prefix" /\ BosInFront!Next /\ UNCHANGED <<part, patchesVars, towerVars, audioVars, decodeVars>>
  \/ part = "split" /\ Split!Next /\ UNCHANGED <<part, patchesVars, towerVars, audioVars, decodeVars>>
  \/ part = "every_tile" /\ EveryTile!Next /\ UNCHANGED <<part, patchesVars, towerVars, audioVars, decodeVars>>
  \/ part = "onnx" /\ Onnx!Next /\ UNCHANGED <<part, patchesVars, towerVars, audioVars, decodeVars>>
  \/ part = "tower_cpu" /\ TowerCpu!Next /\ UNCHANGED <<part, patchesVars, tilesVars, audioVars, decodeVars>>
  \/ part = "tower_metal" /\ TowerMetal!Next /\ UNCHANGED <<part, patchesVars, tilesVars, audioVars, decodeVars>>
  \/ part = "tower_gemma" /\ TowerGemma!Next /\ UNCHANGED <<part, patchesVars, tilesVars, audioVars, decodeVars>>
  \/ part = "audio" /\ Audio!Next /\ UNCHANGED <<part, patchesVars, tilesVars, towerVars, decodeVars>>
  \/ part = "llama" /\ Llama!Next /\ UNCHANGED <<part, patchesVars, tilesVars, towerVars, audioVars>>
  \/ part = "gemma" /\ Gemma!Next /\ UNCHANGED <<part, patchesVars, tilesVars, towerVars, audioVars>>
  \/ part = "gemma_deep" /\ GemmaDeep!Next /\ UNCHANGED <<part, patchesVars, tilesVars, towerVars, audioVars>>
  \/ part = "features_first" /\ FeaturesFirst!Next /\ UNCHANGED <<part, patchesVars, tilesVars, towerVars, audioVars>>
  \/ part = "stop" /\ Stop!Next /\ UNCHANGED <<part, patchesVars, tilesVars, towerVars, audioVars>>

PartsSpec == PartsInit /\ [][PartsNext]_<<part, patchesVars, tilesVars, towerVars, audioVars, decodeVars>>

-----------------------------------------------------------------------------
(* VlmPrompt: a prompt that reaches the decoder has its placeholders in one *)
(* run per view, as long as the view's features; the views are distinct, in *)
(* reading order and within the limit, and cover the image below it; of     *)
(* tiles that are all shown, the tags say which they are in the first row,  *)
(* and in later ones for an image six tiles wide and for no other; a        *)
(* request is refused only when its text holds a placeholder or the         *)
(* configuration contradicts the encoder; and Gemma's prompt has one BOS,   *)
(* in front.                                                                *)
PromptMatchesFeatures ==
  /\ part = "patches" => FeaturesInTheirViews /\ RefusedForAReason /\ OneBos
  /\ part = "browser" => Browser!RefusedForAReason
  /\ part = "prefix" => BosInFront!OneBos
  /\ part = "split" =>
       /\ Split!FeaturesInTheirViews /\ Split!RefusedForAReason
       /\ Split!TilesCover /\ Split!TagsTellTheTile
  /\ part = "every_tile" => EveryTile!TilesCover /\ EveryTile!TagsTellTheTile
  /\ part = "onnx" =>
       /\ Onnx!FeaturesInTheirViews /\ Onnx!RefusedForAReason
       /\ Onnx!TilesCover /\ Onnx!TagsTellTheTile

(* VisionTower: between two layers every patch has the vector the model     *)
(* gives it, made of the patches of its own view only, and feature rows go  *)
(* view by view and square by square, each of all the patches of its square.*)
VectorsAreTheModels ==
  /\ part = "tower_cpu" => TowerCpu!VectorsAreTheModels /\ TowerCpu!RowsInReadingOrder
  /\ part = "tower_metal" => TowerMetal!VectorsAreTheModels
  /\ part = "tower_gemma" => TowerGemma!VectorsAreTheModels /\ TowerGemma!RowsInReadingOrder

(* AudioTower: a recording is heard whole.  All samples of the data chunk   *)
(* but a rest of one hop are in a frame that reaches some token; no token   *)
(* hears a frame later than its own; wherever in its block a query stands,  *)
(* it hears its whole context, at the right distances and within the        *)
(* scratch of its scores.                                                   *)
RecordingIsHeard ==
  part = "audio" =>
    /\ Audio!WholeRecording /\ Audio!NothingUnheard /\ Audio!NothingFromLater
    /\ Audio!HearsItsContext /\ Audio!ScoresFit /\ Audio!DistanceInContext

(* VlmDecode: when generation starts the cache holds what the model makes   *)
(* of the prompt with its features, each of which stands at one             *)
(* placeholder: in every layer, but from an image with a two-sided prefill  *)
(* on only in the first two (three behind it), of which gemma_deep has      *)
(* four.  Every token is sampled from the output for the position before    *)
(* it, the first one from the end of the prompt, which is claimed for the   *)
(* two-sided prefill of two layers only; with features first the first      *)
(* token is zero, and not sampled.  Generation ends at the first token that *)
(* gives it a reason, from min_new_tokens on, or at max_new_tokens.  A step *)
(* writes a vector of its own layer and position, inside the cache.         *)
GenerationIsTheModels ==
  /\ part = "llama" =>
       /\ Llama!TypeOK /\ Llama!PrefillIsTheModels
       /\ Llama!FeaturesMatch /\ Llama!TokensAreSampled
  /\ part = "gemma" =>
       /\ Gemma!TypeOK /\ Gemma!PrefillIsTheModels
       /\ Gemma!FeaturesMatch /\ Gemma!TokensAreSampled
  /\ part = "gemma_deep" =>
       /\ GemmaDeep!TypeOK /\ GemmaDeep!PrefillIsTheModels
       /\ GemmaDeep!FeaturesMatch /\ GemmaDeep!TokensAreSampled
  /\ part = "features_first" =>
       /\ FeaturesFirst!TypeOK /\ FeaturesFirst!PrefillIsTheModels
       /\ FeaturesFirst!TokensAreSampled
  /\ part = "stop" => Stop!TypeOK /\ Stop!StopsInTime
==============================================================================
