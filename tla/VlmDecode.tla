----------------------------- MODULE VlmDecode -----------------------------
(***************************************************************************)
(* run_decode_cellm_inner: a prompt whose image (or audio) placeholders    *)
(* stand for rows of features is prefilled, and text is generated.  There  *)
(* are three ways to prefill: features first (prefix), the text around one *)
(* image whose positions attend to the whole image (Gemma 4), and a plain  *)
(* scan that hands runs of placeholders to the GPU in one batch (Llama).   *)
(*                                                                         *)
(* The runner is abstracted to its data flow: the hidden vector x of a     *)
(* layer is what the cache keeps of it for a position, and the next        *)
(* layer's x is made of it and of what the attention reads.  A vector that *)
(* is the model's goes by the name of its layer and position.              *)
(***************************************************************************)
EXTENDS Integers, Sequences, FiniteSets, FiniteSetsExt

CONSTANTS
  Runner,          \* DecodeRunner: "llama" or "gemma"
  Prompts,         \* input_ids: sequences of "txt" and "img"
  Features,        \* possible numbers of feature rows
  Prefix,          \* prefix_image_features
  Bidir,           \* CELLM_VLM_GEMMA4_BIDIR_IMAGE
  NumLayers,
  MaxNew, MinNew,  \* max_new_tokens, min_new_tokens
  SameRun, AltRun, \* 6 and 10 in the code: lengths of the loops that end it
  Tokens, Eos      \* tokens that can be sampled, and eos or end of turn

VlmDecodeAssumption ==
  /\ Runner \in {"llama", "gemma"} /\ IsFiniteSet(Prompts) /\ IsFiniteSet(Features)
  /\ \A s \in Prompts : s \in Seq({"txt", "img"}) /\ s # <<>>
  /\ Features \subseteq Nat \ {0} /\ {Prefix, Bidir} \subseteq BOOLEAN
  /\ NumLayers \in Nat \ {0} /\ {MaxNew, MinNew} \subseteq Nat
  /\ SameRun \in Nat \ {0} /\ AltRun \in Nat /\ AltRun >= 4
  /\ Eos \in Tokens /\ (Prefix => Runner = "gemma")

VARIABLES
  prompt, feats,   \* this call's input_ids, and rows of image_features
  at,              \* the phase of the function
  i,               \* the prompt position of the phase
  pos, image_idx,
  count,           \* page_table.token_count()
  cache,           \* per layer and position: what K/V were made of
  next,            \* the token sampled last, and what it was sampled from
  generated

call == <<prompt, feats>>
vars == <<call, at, i, pos, image_idx, count, cache, next, generated>>

MaxSeq == Max(Features) + Max({Len(s) : s \in Prompts}) + MaxNew
Position == 0..(MaxSeq - 1)
Layer == 0..(NumLayers - 1)
Stale == <<"stale">>
Tok(k) == prompt[k + 1]
Images == {k \in 0..(Len(prompt) - 1) : Tok(k) = "img"}
GemmaBidir == ~Prefix /\ Runner = "gemma" /\ Bidir

-----------------------------------------------------------------------------
(* The model                                                               *)

(* The inputs in their order: with a prefix, all features and then the     *)
(* prompt; otherwise the prompt, its k-th placeholder being feature k.     *)
Shift == IF Prefix THEN feats ELSE 0
Prompted == Shift + Len(prompt)
Want(p) ==
  IF p < Shift THEN <<"feature", p>>
  ELSE IF p >= Prompted THEN <<"generated", p - Prompted>>
  ELSE IF Tok(p - Shift) = "img" THEN <<"feature", Cardinality({k \in Images : k < p})>>
  ELSE <<"text", p - Shift>>

(* What position p may attend to: what came before it, and for an image    *)
(* under the two-sided prefill the whole image.                             *)
Seen(p) ==
  0..(IF GemmaBidir /\ p < Prompted /\ p \in Images THEN Max(Images) ELSE p)

Name(l, p) == <<"hidden", l, p>>
NextHidden(l, p, x, kvs) ==
  IF x = Name(l, p) /\ kvs = [t \in Seen(p) |-> Name(l, t)] THEN Name(l + 1, p)
  ELSE <<"other", l + 1, p>>

-----------------------------------------------------------------------------
(* A step of the runner: its input is written and attended layer by layer; *)
(* span says how many positions the attention reads.                        *)
Forward(c, p, input, span) ==
  LET Run[l \in 0..NumLayers] ==
        IF l = 0
        THEN [x |-> IF input = Want(p) THEN Name(0, p) ELSE <<"other", 0, p>>, c |-> c]
        ELSE LET r == Run[l - 1]
                 written == [r.c EXCEPT ![l - 1][p] = r.x]
             IN  [x |-> NextHidden(l - 1, p, r.x, [t \in 0..(span - 1) |-> written[l - 1][t]]),
                  c |-> written]
  IN  Run[NumLayers]

(* step_from_hidden and step_topk_from_hidden: the page table covers the   *)
(* position, and the attention reads the whole page table.                  *)
Step(p, input) ==
  LET n == IF p = count THEN count + 1 ELSE count
      r == Forward(cache, p, input, n)
  IN  count' = n /\ cache' = r.c

(* step_topk_from_hidden, then sample_from_candidates.                      *)
StepAndSample(p, input) ==
  LET n == IF p = count THEN count + 1 ELSE count
      r == Forward(cache, p, input, n)
  IN  /\ count' = n /\ cache' = r.c
      /\ \E t \in Tokens : next' = [tok |-> t, from |-> r.x]

(* prefill_fused_hidden with the graph alive, for the features from `first` *)
(* on: every position is appended, and each attends up to itself.           *)
PrefillFused(p, n, first) ==
  LET C[k \in 0..n] ==
        IF k = 0 THEN cache ELSE Forward(C[k - 1], p + k - 1, <<"feature", first + k - 1>>, p + k).c
  IN  count' = p + n /\ cache' = C[n]

-----------------------------------------------------------------------------
Init ==
  /\ prompt \in Prompts /\ feats \in Features
  /\ at = IF Prefix THEN "prefix" ELSE IF GemmaBidir THEN "before" ELSE "plain"
  /\ i = 0 /\ pos = 0 /\ image_idx = 0 /\ count = 0
  /\ cache = [l \in Layer |-> [p \in Position |-> Stale]]
  /\ next = [tok |-> "zero", from |-> Stale]
  /\ generated = <<>>

(* All features go first; then the prompt is scanned.                       *)
PrefixStep ==
  /\ at = "prefix"
  /\ IF image_idx < feats
     THEN /\ Step(pos, <<"feature", image_idx>>)
          /\ pos' = pos + 1 /\ image_idx' = image_idx + 1
          /\ UNCHANGED at
     ELSE at' = "plain" /\ UNCHANGED <<pos, image_idx, count, cache>>
  /\ UNCHANGED <<call, i, next, generated>>

(* Gemma 4, the text before the image, or the whole prompt when there is   *)
(* no image.                                                                *)
Before ==
  /\ at = "before"
  /\ IF i \notin Images /\ i < Len(prompt)
     THEN /\ StepAndSample(pos, <<"text", i>>)
          /\ pos' = pos + 1 /\ i' = i + 1
          /\ UNCHANGED at
     ELSE /\ at' = IF Images = {} THEN "check" ELSE "reserve"
          /\ UNCHANGED <<pos, i, count, cache, next>>
  /\ UNCHANGED <<call, image_idx, generated>>

(* The image's positions are reserved, so that a step at one of them       *)
(* attends to all of them.                                                  *)
Reserve ==
  /\ at = "reserve"
  /\ count' = IF count < Max(Images) + 1 THEN Max(Images) + 1 ELSE count
  /\ at' = "fill"
  /\ UNCHANGED <<call, i, pos, image_idx, cache, next, generated>>

(* Mutant: one pass over the image, the second is left out.                 *)
FillOnce ==
  /\ at \in {"fill", "replay"}
  /\ LET feature == Cardinality({k \in Images : k < i}) IN
       IF i > Max(Images)
       THEN /\ at' = "after"
            /\ image_idx' = Cardinality(Images) /\ pos' = Max(Images) + 1
            /\ UNCHANGED <<i, count, cache>>
       ELSE IF i \notin Images
       THEN i' = i + 1 /\ UNCHANGED <<at, image_idx, pos, count, cache>>
       ELSE IF feature >= feats
       THEN at' = "failed" /\ UNCHANGED <<i, image_idx, pos, count, cache>>
       ELSE Step(i, <<"feature", feature>>) /\ i' = i + 1 /\ UNCHANGED <<at, image_idx, pos>>
  /\ UNCHANGED <<call, next, generated>>

(* The image is run twice, first to fill its K/V and then to replay it;    *)
(* only positions with a placeholder are run.                               *)
Fill ==
  /\ at \in {"fill", "replay"}
  /\ LET feature == Cardinality({k \in Images : k < i}) IN
       IF i > Max(Images)
       THEN IF at = "fill"
            THEN at' = "replay" /\ i' = Min(Images) /\ UNCHANGED <<image_idx, pos, count, cache>>
            ELSE /\ at' = "after"
                 /\ image_idx' = Cardinality(Images) /\ pos' = Max(Images) + 1
                 /\ UNCHANGED <<i, count, cache>>
       ELSE IF i \notin Images
       THEN i' = i + 1 /\ UNCHANGED <<at, image_idx, pos, count, cache>>
       ELSE IF feature >= feats
       THEN at' = "failed" /\ UNCHANGED <<i, image_idx, pos, count, cache>>
       ELSE Step(i, <<"feature", feature>>) /\ i' = i + 1 /\ UNCHANGED <<at, image_idx, pos>>
  /\ UNCHANGED <<call, next, generated>>

(* The text behind the image.                                               *)
After ==
  /\ at = "after"
  /\ IF i < Len(prompt)
     THEN /\ StepAndSample(pos, <<"text", i>>)
          /\ pos' = pos + 1 /\ i' = i + 1 /\ UNCHANGED at
     ELSE at' = "check" /\ UNCHANGED <<pos, i, count, cache, next>>
  /\ UNCHANGED <<call, image_idx, generated>>

RunLength == CHOOSE n \in 1..(Len(prompt) - i) :
               /\ \A k \in i..(i + n - 1) : k \in Images
               /\ i + n \notin Images

(* A run of placeholders: in one batch, or one after the other, which      *)
(* comes to the same as long as the page table ends at pos.                 *)
PlainRun ==
  /\ at = "plain" /\ i \in Images
  /\ IF image_idx + RunLength > feats
     THEN at' = "failed" /\ UNCHANGED <<i, pos, image_idx, count, cache>>
     ELSE /\ PrefillFused(pos, RunLength, image_idx)
          /\ i' = i + RunLength /\ pos' = pos + RunLength /\ image_idx' = image_idx + RunLength
          /\ UNCHANGED at
  /\ UNCHANGED <<call, next, generated>>

(* A text token; the logits are not wanted, or thrown away.                 *)
PlainText ==
  /\ at = "plain" /\ i \notin Images
  /\ IF i < Len(prompt)
     THEN Step(pos, <<"text", i>>) /\ pos' = pos + 1 /\ i' = i + 1 /\ UNCHANGED at
     ELSE at' = "check" /\ UNCHANGED <<pos, i, count, cache>>
  /\ UNCHANGED <<call, image_idx, next, generated>>

(* Every feature has to have been used.                                     *)
Check ==
  /\ at = "check"
  /\ at' = IF image_idx # feats THEN "failed"
           ELSE IF Runner = "llama" THEN "last" ELSE "generate"
  /\ UNCHANGED <<call, i, pos, image_idx, count, cache, next, generated>>

(* Llama's first token: the last position is run once more, with x as the  *)
(* prefill left it.                                                         *)
FirstToken ==
  /\ at = "last"
  /\ StepAndSample(pos - 1, Want(pos - 1))
  /\ at' = "generate"
  /\ UNCHANGED <<call, i, pos, image_idx, generated>>

SameTokenRun(g) == Len(g) >= SameRun /\ \A k \in (Len(g) - SameRun + 1)..Len(g) : g[k] = g[Len(g)]

(* is_alternating_two_token_loop.                                           *)
Alternating(g) ==
  /\ Len(g) >= AltRun
  /\ LET recent == SubSeq(g, Len(g) - AltRun + 1, Len(g)) IN
       recent[1] # recent[2] /\ \A k \in 1..AltRun : recent[k] = recent[2 - (k % 2)]

Stops(g) == Len(g) >= MinNew /\ (g[Len(g)] = Eos \/ SameTokenRun(g) \/ Alternating(g))

(* A turn of the generation loop: the token is kept, and run unless it is  *)
(* the last.                                                                *)
Generate ==
  /\ at = "generate"
  /\ IF Len(generated) = MaxNew
     THEN at' = "done" /\ UNCHANGED <<count, cache, next, generated>>
     ELSE /\ generated' = Append(generated, next)
          /\ IF Stops([k \in 1..Len(generated') |-> generated'[k].tok])
             THEN at' = "done" /\ UNCHANGED <<count, cache, next>>
             ELSE /\ StepAndSample(pos + Len(generated), <<"generated", Len(generated)>>)
                  /\ UNCHANGED at
  /\ UNCHANGED <<call, i, pos, image_idx>>

Next ==
  \/ PrefixStep \/ Before \/ Reserve \/ Fill \/ After
  \/ PlainRun \/ PlainText \/ Check \/ FirstToken \/ Generate

Spec == Init /\ [][Next]_vars

-----------------------------------------------------------------------------
(* What the cache keeps of a position, and what is sampled.                 *)
Vector == {Stale} \cup ({"hidden", "other"} \X (0..NumLayers) \X Position)
Sample == [tok : Tokens \cup {"zero"}, from : Vector]

(* The scan stays in the prompt, positions in the cache, and every step     *)
(* writes a vector of its own layer and position (run_decode_cellm_inner).  *)
TypeOK ==
  /\ prompt \in Prompts /\ feats \in Features
  /\ at \in {"prefix", "before", "reserve", "fill", "replay", "after", "plain", "check",
            "last", "generate", "done", "failed"}
  /\ i \in 0..Len(prompt) /\ {pos, image_idx, count} \subseteq 0..MaxSeq
  /\ cache \in [Layer -> [Position -> Vector]] /\ next \in Sample
  /\ generated \in Seq(Sample) /\ Len(generated) <= MaxNew

Text(n) == [k \in 1..n |-> generated[k].tok]

(* The placeholders follow each other, as those of Gemma's one view do.     *)
OneRun == \A k \in Min(Images)..Max(Images) : k \in Images

(* How many layers of a position the prefill makes as the model does: all,  *)
(* but for the two-sided one.  Its two passes over an image reach two       *)
(* layers, which is one more for the text behind, and the text amid a       *)
(* broken run of placeholders is never run.                                 *)
Depth(p) ==
  IF ~GemmaBidir \/ Images = {} \/ p < Min(Images) THEN NumLayers
  ELSE IF ~OneRun THEN 0
  ELSE IF p \in Images THEN 2 ELSE 3

(* When generation starts, the cache holds what the model makes of the      *)
(* prompt with its features in their places: in every layer whichever way   *)
(* the prompt was prefilled, except from an image with a two-sided prefill  *)
(* on, where only the first layers are claimed.                             *)
PrefillIsTheModels ==
  at \in {"last", "generate", "done"} =>
     /\ pos = Prompted
     /\ \A l \in Layer, p \in 0..(Prompted - 1) : l < Depth(p) => cache[l][p] = Name(l, p)

(* The prompt leads to the model's output for its last position.            *)
InReach ==
  GemmaBidir =>
    /\ Tok(Len(prompt) - 1) # "img"
    /\ Images = {} \/ (OneRun /\ NumLayers <= 2)

(* Every token is sampled from the model's output for the position before   *)
(* it, the first one from the end of the prompt; but the plain and the      *)
(* features-first prefill of Gemma sample nothing, and go on from token     *)
(* zero.  With an image and a two-sided prefill this is only claimed of a   *)
(* model of at most two layers.                                             *)
TokensAreSampled ==
  InReach =>
    \A k \in DOMAIN generated :
      generated[k].from =
        IF k = 1 /\ Runner = "gemma" /\ ~GemmaBidir THEN Stale ELSE Name(NumLayers, Prompted + k - 2)

(* Text is only generated when every feature stands at one placeholder.     *)
FeaturesMatch ==
  at = "generate" => feats = IF Prefix THEN image_idx ELSE Cardinality(Images)

(* Generation ends at the first token that gives it a reason to, counted   *)
(* from min_new_tokens, or at max_new_tokens.                               *)
StopsInTime ==
  /\ \A n \in 1..(Len(generated) - 1) : n < MinNew \/ (Text(n)[n] # Eos /\ ~SameTokenRun(Text(n)))
  /\ at = "done" => \/ Len(generated) = MaxNew
                    \/ LET g == Text(Len(generated)) IN
                         /\ Len(g) >= MinNew
                         /\ g[Len(g)] = Eos \/ SameTokenRun(g) \/ Alternating(g)
=============================================================================
