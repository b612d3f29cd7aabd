----------------------------- MODULE AudioTower -----------------------------
(***************************************************************************)
(* describe_audio_with_cellm_timed up to the decoder: a WAV file is walked *)
(* chunk by chunk, its samples become frames, two convolutions make one    *)
(* token of four frames, and each layer of the conformer lets a token hear *)
(* the tokens of a window that is cut block by block, then a few before it.*)
(*                                                                         *)
(* A token is modelled by the set of frames its vector depends on.         *)
(***************************************************************************)
EXTENDS Integers, Sequences, FiniteSets, FiniteSetsExt

CONSTANTS
  Files,      \* sequences of chunks [tag, len]
  Channels,   \* channels a file may have
  Hop,        \* hop_length, half of frame_length
  Chunk,      \* chunk_size: queries of a block
  Left,       \* context_left
  Kernel,     \* conv_kernel
  NumLayers   \* num_audio_layers

AudioTowerAssumption ==
  /\ Files \subseteq Seq([tag : {"fmt ", "data", "LIST"}, len : Nat])
  /\ Channels \subseteq {1, 2}
  /\ {Hop, Chunk, Left, Kernel, NumLayers} \subseteq Nat \ {0}

VARIABLES
  file, channels,     \* the recording
  at,                 \* the step of the pipeline
  pos, fmt, data,     \* parse_wav_pcm16: cursor; chunks found, [] before
  samples,            \* length of mono
  layer, block,       \* the layer, and its block of queries
  hidden,             \* hidden_states: token -> frames
  heard,              \* attn_out: token -> frames
  rel                 \* rel_k_buf rows a query has looked up: <<query, key, row>>

recording == <<file, channels>>
wav == <<pos, fmt, data, samples>>
vars == <<recording, at, wav, layer, block, hidden, heard, rel>>

Lesser(a, b) == IF a < b THEN a ELSE b
Greater(a, b) == IF a < b THEN b ELSE a

-----------------------------------------------------------------------------
(* The file                                                                *)

(* Where the header of a chunk is: RIFF pads a chunk to an even length.     *)
Header(i) ==
  12 + MapThenSumSet(LAMBDA j : 8 + file[j].len + (file[j].len % 2), 1..(i - 1))
Bytes == Header(Len(file) + 1)
ChunkAt(p) == {i \in 1..Len(file) : Header(i) = p}

(* A header read one byte early has no known tag, and its length starts     *)
(* with the tag's last letter.                                              *)
Misread(p) ==
  97 + 256 * MapThenSumSet(LAMBDA j : file[j].len, {j \in 1..Len(file) : Header(j) = p + 1})

(* parse_wav_pcm16, a turn of its loop.                                     *)
Walk ==
  /\ at = "walk" /\ pos + 8 <= Bytes
  /\ \/ \E i \in ChunkAt(pos) :
          /\ fmt' = (fmt \/ file[i].tag = "fmt ")
          /\ data' = IF file[i].tag = "data" THEN <<pos + 8, file[i].len>> ELSE data
          /\ pos' = pos + 8 + file[i].len
     \/ /\ ChunkAt(pos) = {}
        /\ pos' = pos + 8 + Misread(pos)
        /\ UNCHANGED <<fmt, data>>
  /\ UNCHANGED <<recording, at, samples, layer, block, hidden, heard, rel>>

(* parse_wav_pcm16 after its loop: an error, or one sample for each group   *)
(* of channels.                                                             *)
Mix ==
  /\ at = "walk" /\ pos + 8 > Bytes
  /\ IF ~fmt \/ data = <<>>
     THEN at' = "failed" /\ UNCHANGED samples
     ELSE /\ samples' = (Lesser(data[1] + data[2], Bytes) - data[1]) \div (2 * channels)
          /\ at' = "mel"
  /\ UNCHANGED <<recording, pos, fmt, data, layer, block, hidden, heard, rel>>

-----------------------------------------------------------------------------
(* Frames and tokens                                                       *)

FrameLength == 2 * Hop

(* compute_mel_spectrogram: half a frame of silence, then frames of one     *)
(* more sample than they use.                                               *)
NumFrames ==
  IF samples + Hop >= FrameLength + 1 THEN (samples + Hop - (FrameLength + 1)) \div Hop + 1 ELSE 0

(* The samples a frame is made of.                                          *)
FrameSamples(f) == {s \in 0..(samples - 1) : s + Hop \in (f * Hop)..(f * Hop + FrameLength - 1)}

(* conv2d_3x3_stride2_pad1: rows of output for rows of input, and the rows  *)
(* of input an output is made of.                                           *)
Halved(n) == (n + 1) \div 2
Taps(o, n) == {i \in (2 * o - 1)..(2 * o + 1) : i \in 0..(n - 1)}

TSub == Halved(Halved(NumFrames))
Tok == 0..(TSub - 1)

Subsampled ==
  LET rows0 == [h \in 0..(Halved(NumFrames) - 1) |-> Taps(h, NumFrames)]
  IN  [t \in Tok |-> UNION {rows0[h] : h \in Taps(t, Halved(NumFrames))}]

(* The spectrogram, the convolutions and input_proj_linear.                 *)
Subsample ==
  /\ at = "mel"
  /\ hidden' = Subsampled /\ heard' = Subsampled
  /\ layer' = 0 /\ block' = 0
  /\ at' = IF TSub = 0 THEN "done" ELSE "attend"
  /\ UNCHANGED <<recording, wav, rel>>

-----------------------------------------------------------------------------
(* Layers                                                                  *)

NumBlocks == (TSub + Chunk - 1) \div Chunk
Queries(b) == (b * Chunk)..(Lesser((b + 1) * Chunk, TSub) - 1)

(* Mutant: a whole context before the block, without the query itself.      *)
WindowShort(b, q) == Greater(b * Chunk - Left + 2, 0)..q
(* The keys of a query: kv_start is the block's, kv_end the query's.        *)
Window(b, q) == Greater(b * Chunk - Left + 1, 0)..q

ContextSize == Chunk + Left - 1

(* The scratch of scores and probabilities.                                 *)
ScoreLen == Greater(ContextSize, TSub)

(* The row of relative positions for a query and a key.                     *)
RelRow(q, k) == Greater(Lesser(q - k, Left - 1), 0)

(* A block of queries; feed_forward1, the first half of the layer, works on *)
(* each token alone.                                                        *)
Attend ==
  /\ at = "attend"
  /\ heard' = [q \in Tok |-> IF q \in Queries(block)
                             THEN UNION {hidden[k] : k \in Window(block, q)} ELSE heard[q]]
  /\ rel' = rel \cup {<<q, k, RelRow(q, k)>> : <<q, k>> \in {x \in Queries(block) \X Tok : x[2] \in Window(block, x[1])}}
  /\ IF block + 1 < NumBlocks THEN block' = block + 1 /\ UNCHANGED at
     ELSE block' = 0 /\ at' = "conv"
  /\ UNCHANGED <<recording, wav, layer, hidden>>

(* The residual of the attention, lconv1d over zeros and the tokens up to   *)
(* this one, feed_forward2 and norm_out.                                    *)
LConv ==
  /\ at = "conv"
  /\ LET mixed == [t \in Tok |-> hidden[t] \cup heard[t]]
     IN  hidden' = [t \in Tok |-> UNION {mixed[u] : u \in Tok \cap ((t - Kernel + 1)..t)}]
  /\ layer' = layer + 1
  /\ at' = IF layer + 1 = NumLayers THEN "done" ELSE "attend"
  /\ UNCHANGED <<recording, wav, block, heard, rel>>

Init ==
  /\ file \in Files /\ channels \in Channels
  /\ at = "walk" /\ pos = 12 /\ fmt = FALSE /\ data = <<>> /\ samples = 0
  /\ layer = 0 /\ block = 0 /\ hidden = <<>> /\ heard = <<>> /\ rel = {}

Done == at \in {"done", "failed"} /\ UNCHANGED vars

Next == Walk \/ Mix \/ Subsample \/ Attend \/ LConv \/ Done
Spec == Init /\ [][Next]_vars

-----------------------------------------------------------------------------
(* Properties                                                              *)

(* A file with a fmt and a data chunk is read whole, whatever chunks stand  *)
(* before, between and behind them.                                         *)
WholeRecording ==
  /\ at # "failed"
  /\ at # "walk" => \E i \in 1..Len(file) :
       file[i].tag = "data" /\ samples = file[i].len \div (2 * channels)

(* Every sample is in some frame, but for a rest of at most one hop, and    *)
(* every frame is heard by some token of the result.                        *)
NothingUnheard ==
  at = "done" =>
    /\ samples - Cardinality(UNION {FrameSamples(f) : f \in 0..(NumFrames - 1)}) <= Hop
    /\ UNION {hidden[t] : t \in Tok} = 0..(NumFrames - 1)

(* Through all layers, and while a layer is under way, a token hears no     *)
(* frame that ends later than its own four.                                 *)
NothingFromLater ==
  at \in {"attend", "conv", "done"} =>
    \A t \in Tok : \A f \in hidden[t] \cup heard[t] : f <= 4 * t + 3

(* Wherever in its block a query stands, a layer lets it hear the whole     *)
(* context before it, across the border of the block.                       *)
HearsItsContext ==
  at = "conv" => \A t \in Tok : \A u \in Tok \cap ((t - Left + 1)..t) : hidden[u] \subseteq heard[t]

(* The keys of every query fit the scratch its scores are written to.       *)
ScoresFit ==
  at = "attend" => \A q \in Queries(block) : Cardinality(Window(block, q)) <= ScoreLen

(* Within the context a key's relative position is its distance.            *)
DistanceInContext == \A r \in rel : r[1] - r[2] < Left => r[3] = r[1] - r[2]

(* The lookup by distance is direct, for every key of a query.              *)
DistanceDirect == \A r \in rel : r[3] = r[1] - r[2]
=============================================================================
