----------------------------- MODULE VlmPrompt -----------------------------
(***************************************************************************)
(* describe_image_with_cellm and its variants, up to the decoder: the      *)
(* processor's hints are gathered from the files beside the model, the     *)
(* image becomes views (Idefics: a global one and tiles) or patches        *)
(* (Gemma 4), the vision tower makes rows of features of them, and the     *)
(* prompt gets one placeholder per row.  An image is its width and height; *)
(* a tile is its row and column; a prompt is a sequence of elements.       *)
(***************************************************************************)
EXTENDS Integers, Sequences, FiniteSets, SequencesExt, FiniteSetsExt

CONSTANTS
  Family,       \* "idefics" or "gemma": the vision tower of the model
  Path,         \* "native", "bytes" (in the browser) or "onnx" (the tool)
  Sizes,        \* widths and heights of images
  Configs,      \* processor files: length and splitting, each may be None
  SoftEnv,      \* CELLM_VLM_MAX_SOFT_TOKENS, or None
  SplitEnv,     \* CELLM_VLM_SPLIT_IMAGE, or None; --split-image of the tool
  DefaultSplit, \* the tokenizer knows <global-img> and <row_1_col_1>
  PrefixMode,   \* CELLM_VLM_GEMMA4_MODE is "prefix"
  TowerLen,     \* rows the Idefics projector makes of a view
  SoftTokens,   \* 280 in the code
  Tile, Longest, Grid, \* 512, 2048 and 6
  MaxTiles,     \* CELLM_VLM_MAX_SPLIT_TILES, 4 by default
  TextHolders,  \* placeholders the user's own text may hold
  None

Maybe(S) == S \cup {None}

ASSUME VlmPromptAssumption ==
  /\ Family \in {"idefics", "gemma"} /\ Path \in {"native", "bytes", "onnx"}
  /\ Sizes \subseteq (Nat \ {0}) \X (Nat \ {0})
  /\ Configs \subseteq [len : Maybe(Nat \ {0}), split : Maybe(BOOLEAN)]
  /\ SoftEnv \subseteq Maybe(Nat \ {0}) /\ SplitEnv \subseteq Maybe(BOOLEAN)
  /\ {DefaultSplit, PrefixMode} \subseteq BOOLEAN
  /\ {TowerLen, SoftTokens, Tile, Longest, Grid, MaxTiles} \subseteq Nat \ {0}
  /\ TextHolders \subseteq Nat
  /\ None \notin Nat \cup BOOLEAN
  /\ Family = "gemma" => Path # "onnx"
  /\ PrefixMode => Family = "gemma" /\ Path = "native"

VARIABLES
  size,         \* width and height of this request's image
  files,        \* the configs found, in the order of the candidates
  softEnv, splitEnv, holders,
  at,           \* the stage of the request
  read,         \* how many of the files were read
  hints,        \* VlmProcessorHints
  views,        \* Idefics: the tile of each view, <<>> being the global one
  patches,      \* Gemma 4: rows and columns of pooled patches
  rows,         \* image_features: which view and which of its rows
  seqLen,       \* image_seq_len
  input         \* input_ids

request == <<size, files, softEnv, splitEnv, holders>>
vars == <<request, at, read, hints, views, patches, rows, seqLen, input>>

Or(x, y) == IF x # None THEN x ELSE y
Lesser(a, b) == IF a < b THEN a ELSE b
Greater(a, b) == IF a < b THEN b ELSE a
Clamp(x, lo, hi) == Greater(lo, Lesser(x, hi))
(* (x / y).round() of the floats, for x >= 0.                               *)
Rounded(x, y) == (2 * x + y) \div (2 * y)

-----------------------------------------------------------------------------
(* Tiles                                                                   *)

(* resize_longest_edge; the tool cuts the image as it is.                  *)
SplitBase ==
  IF Path = "onnx" THEN size
  ELSE LET long == Greater(size[1], size[2])
       IN  <<Greater(1, Rounded(size[1] * Longest, long)),
             Greater(1, Rounded(size[2] * Longest, long))>>
(* Mutant: the last, narrower tile is forgotten.                            *)
TilesAlongFloor(n) == Clamp(n \div Tile, 1, Grid)
TilesAlong(n) == Clamp((n + Tile - 1) \div Tile, 1, Grid)

(* coords: row by row.                                                      *)
Coords ==
  LET c == TilesAlong(SplitBase[1])  r == TilesAlong(SplitBase[2])
  IN  [i \in 1..(r * c) |-> <<(i - 1) \div c, (i - 1) % c>>]

(* select_spread_tiles: the indices picked of n tiles, evenly spread.  They *)
(* differ, so the code that would make up for a tile picked twice is idle.  *)
Spread(n, max) ==
  IF n <= max THEN [i \in 1..n |-> i]
  ELSE IF max = 1 THEN <<1 + Rounded(n - 1, 2)>>
  ELSE [i \in 1..max |-> 1 + Rounded((i - 1) * (n - 1), max - 1)]

(* The tool takes all tiles.                                                *)
Tiles ==
  LET all == Coords
      picked == Spread(Len(all), MaxTiles)
  IN  IF Path = "onnx" THEN all ELSE [i \in DOMAIN picked |-> all[picked[i]]]

-----------------------------------------------------------------------------
(* The prompt                                                              *)

Holder == <<"image">>
Holders(n) == [k \in 1..n |-> Holder]

(* The tag in front of view v, whose tiles are counted six to a row.        *)
Tag(v) == IF v = 1 THEN <<"global">> ELSE <<"tile", (v - 2) \div Grid, (v - 2) % Grid>>

(* format_image_block, with the wrappers of Idefics or with begin and end   *)
(* of image.                                                                *)
Block(n, len) ==
  FlattenSeq([v \in 1..n |->
    IF Family = "idefics" THEN <<<<"fake">>, Tag(v)>> \o Holders(len) \o <<<<"fake">>>>
    ELSE <<<<"boi">>>> \o Holders(len) \o <<<<"eoi">>>>])

UserText == <<<<"text">>>> \o Holders(holders)
Prefixed == Family = "gemma" /\ PrefixMode
(* build_single_turn_prompt, or the bare text when the features go first.   *)
Prompt ==
  IF Prefixed THEN UserText
  ELSE LET head == IF Family = "gemma" THEN <<<<"bos">>, <<"turn">>>> ELSE <<<<"start">>>>
       IN  head \o Block(Len(views), seqLen) \o UserText \o <<<<"answer">>>>

(* BOS goes in front unless the prompt starts with it.                      *)
WithBos(s) ==
  IF Family = "gemma" /\ (Prefixed \/ Path = "bytes") /\ s[1] # <<"bos">> THEN <<<<"bos">>>> \o s
  ELSE s

-----------------------------------------------------------------------------
Init ==
  /\ size \in Sizes
  /\ files \in (IF Path = "bytes" THEN {<<>>} ELSE UNION {[1..n -> Configs] : n \in 0..(IF Path = "onnx" THEN 1 ELSE 2)})
  /\ softEnv \in (IF Path = "native" THEN SoftEnv ELSE {None}) /\ splitEnv \in SplitEnv
  /\ holders \in TextHolders
  /\ at = "prepare" /\ read = 0
  /\ hints = [len |-> None,
              split |-> IF Path = "bytes" THEN FALSE
                        ELSE IF Path = "onnx" THEN splitEnv = TRUE
                        ELSE Or(splitEnv, DefaultSplit)]
  /\ views = <<>> /\ patches = <<0, 0>> /\ rows = <<>> /\ seqLen = 0 /\ input = <<>>

(* load_vlm_processor_hints: the first length wins, and the last word on    *)
(* splitting.                                                               *)
ReadHints ==
  /\ at = "prepare" /\ read < Len(files)
  /\ LET c == files[read + 1] IN
       hints' = [len |-> Or(hints.len, c.len),
                 split |-> IF Path = "onnx" THEN hints.split ELSE Or(c.split, hints.split)]
  /\ read' = read + 1
  /\ UNCHANGED <<request, at, views, patches, rows, seqLen, input>>

(* preprocess_image_idefics3.                                               *)
CutTiles ==
  /\ at = "prepare" /\ read = Len(files) /\ Family = "idefics"
  /\ views' = <<<<>>>> \o (IF hints.split THEN Tiles ELSE <<>>)
  /\ at' = "encode"
  /\ UNCHANGED <<request, read, hints, patches, rows, seqLen, input>>

Budget == Or(softEnv, Or(hints.len, SoftTokens))
(* k is the root of a/b, rounded down.                                      *)
IsRoot(k, a, b) == k * k * b <= a /\ a < (k + 1) * (k + 1) * b

(* Mutant: the sides are rounded up.                                        *)
AspectRatioUp(h, w) ==
  \E fh, fw \in 0..(Budget * Greater(h, w)) :
    /\ IsRoot(fh, Budget * h, w) /\ IsRoot(fw, Budget * w, h)
    /\ patches' = <<fh + 1, fw + 1>>

(* get_aspect_ratio_preserving_size, in units of a pooled patch; a side     *)
(* that comes out as nothing is made one, and the other follows the ratio.  *)
AspectRatio(h, w) ==
  \E fh, fw \in 0..(Budget * Greater(h, w)) :
    /\ IsRoot(fh, Budget * h, w) /\ IsRoot(fw, Budget * w, h)
    /\ patches' =
         IF fh = 0 THEN <<1, Clamp(Greater(w \div h, 1), 1, Budget)>>
         ELSE IF fw = 0 THEN <<Clamp(Greater(h \div w, 1), 1, Budget), 1>>
         ELSE <<fh, fw>>

(* preprocess_image_gemma4: one view, resized to a grid of patches.         *)
CutPatches ==
  /\ at = "prepare" /\ read = Len(files) /\ Family = "gemma"
  /\ AspectRatio(size[2], size[1])
  /\ views' = <<<<>>>>
  /\ at' = "encode"
  /\ UNCHANGED <<request, read, hints, rows, seqLen, input>>

(* run_vision_cellm: every view becomes the same number of rows.  Gemma's   *)
(* rows are pooled patches, no more than the hints ask for.                 *)
Encode ==
  /\ at = "encode"
  /\ LET soft == Greater(patches[1] * patches[2], 1)
         n == IF Path = "onnx" THEN Or(hints.len, TowerLen)
              ELSE IF Family = "idefics" THEN TowerLen
              ELSE Lesser(Or(hints.len, soft), soft)
         made == IF Family = "idefics" THEN TowerLen ELSE n
     IN  /\ seqLen' = n
         /\ rows' = [k \in 1..(Len(views) * made) |-> <<1 + (k - 1) \div made, (k - 1) % made>>]
         /\ at' = IF Path # "onnx" /\ hints.len \notin {None, n} THEN "mismatch" ELSE "prompt"
  /\ UNCHANGED <<request, read, hints, views, patches, input>>

(* The prompt is built and tokenised; added tokens become their ids first.  *)
Tokenise ==
  /\ at = "prompt"
  /\ input' = WithBos(Prompt)
  /\ at' = "decode"
  /\ UNCHANGED <<request, read, hints, views, patches, rows, seqLen>>

HolderAt == {k \in DOMAIN input : input[k] = Holder}

(* run_decode_cellm refuses a prompt with another number of placeholders.   *)
Decode ==
  /\ at = "decode"
  /\ at' = IF Cardinality(HolderAt) = (IF Prefixed THEN 0 ELSE Len(rows)) THEN "ready" ELSE "count"
  /\ UNCHANGED <<request, read, hints, views, patches, rows, seqLen, input>>

Done == at \in {"ready", "mismatch", "count"} /\ UNCHANGED vars

Next == ReadHints \/ CutTiles \/ CutPatches \/ Encode \/ Tokenise \/ Decode \/ Done
Spec == Init /\ [][Next]_vars

-----------------------------------------------------------------------------
(* Properties                                                              *)

(* A prompt that reaches the decoder has its placeholders in one run per    *)
(* view, as long as the view's features, and none in the user's text.       *)
FeaturesInTheirViews ==
  at = "ready" /\ ~Prefixed =>
    /\ Cardinality(HolderAt) = Len(rows)
    /\ \A k \in HolderAt :
         LET nth == Cardinality({j \in HolderAt : j <= k})
             view == 1 + Cardinality({j \in HolderAt : j < k /\ input[j + 1] # Holder})
         IN  rows[nth][1] = view

(* A request is refused only when the user's text holds a placeholder or    *)
(* the configuration contradicts the encoder: a projector whose rows are    *)
(* fixed, or an image of fewer patches than the length that is configured   *)
(* (which is Gemma's budget too, so that an image seldom fills it).         *)
RefusedForAReason ==
  /\ at = "count" => holders > 0 \/ (Path = "onnx" /\ seqLen # TowerLen)
  /\ at = "mismatch" =>
       IF Family = "idefics" THEN hints.len # TowerLen
       ELSE hints.len > patches[1] * patches[2]

(* Where all tiles are shown, the tag in front of a view says which tile it *)
(* shows in the first row, and in the other rows of an image six tiles wide *)
(* and of no other: tags are counted six to a row, tiles as many as fit.    *)
TagsTellTheTile ==
  at \in {"decode", "ready"} /\ Family = "idefics" /\ (Path = "onnx" \/ Len(Coords) <= MaxTiles) =>
    \A v \in 2..Len(views) :
      Tag(v) = <<"tile", views[v][1], views[v][2]>>
        <=> views[v][1] = 0 \/ TilesAlong(SplitBase[1]) = Grid

(* The views are distinct, in the image's order, no more than the limit,    *)
(* and from the first tile to the last; below the limit they cover every    *)
(* pixel of an image that fits the grid.                                    *)
TilesCover ==
  at = "prompt" /\ Family = "idefics" /\ hints.split =>
    LET shown == Tail(views)
        last == Coords[Len(Coords)]
    IN  /\ \A i, j \in DOMAIN shown :
             i < j => \/ shown[i][1] < shown[j][1]
                      \/ shown[i][1] = shown[j][1] /\ shown[i][2] < shown[j][2]
        /\ Path # "onnx" => Len(shown) <= MaxTiles
        /\ Len(shown) > 1 => shown[1] = <<0, 0>> /\ shown[Len(shown)] = last
        /\ Path = "onnx" \/ Len(Coords) <= MaxTiles =>
             \A x \in 0..(SplitBase[1] - 1), y \in 0..(SplitBase[2] - 1) :
               x < Grid * Tile /\ y < Grid * Tile => <<y \div Tile, x \div Tile>> \in ToSet(shown)

(* An image never takes more soft tokens than the budget it was resized to, *)
(* and always at least one.                                                 *)
WithinBudget ==
  Family = "gemma" /\ at \in {"encode", "prompt", "decode", "ready"} =>
    patches[1] * patches[2] \in 1..Budget

(* Gemma's prompt starts with one BOS and has no other.                     *)
OneBos ==
  at = "ready" /\ Family = "gemma" => {k \in DOMAIN input : input[k] = <<"bos">>} = {1}
=============================================================================
