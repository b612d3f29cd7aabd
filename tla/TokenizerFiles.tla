--------------------------- MODULE TokenizerFiles ---------------------------
(***************************************************************************)
(* load_tokenizer and encode_with_explicit_added_tokens of the C           *)
(* interface.  The tokenizers library reads files only, so a tokenizer     *)
(* file that has to be edited first is written to the temporary directory, *)
(* under a name made of the process id, and read back: once without its    *)
(* virtual added tokens, and once more with its merges as strings when the *)
(* library rejects them as pairs.                                           *)
(*                                                                         *)
(* A file's content is abstracted to where it comes from and to the two    *)
(* features that are edited; a text and a token are sequences of letters.  *)
(***************************************************************************)
EXTENDS Integers, Sequences, FiniteSets, SequencesExt

CONSTANTS
  Threads,         \* threads that create a tokenizer, one each
  Files,           \* tokenizer files, one per thread
  FileOf,          \* [Threads -> Files]
  Virtual,         \* files with added tokens of id 128000 and more
  Pairs,           \* files whose merges are pairs
  Texts,           \* what is encoded: sequences of letters
  Specials,        \* the added tokens: sequences of letters
  None             \* no content; an empty file

TokenizerFilesAssumption ==
  /\ FileOf \in [Threads -> Files]
  /\ Virtual \subseteq Files /\ Pairs \subseteq Files
  /\ <<>> \notin Specials

VARIABLES
  tmp,             \* [{"cleaned", "normalized"} -> content or None]
  at,              \* per thread: how far load_tokenizer is
  src,             \* per thread: load_path, "file" or a temporary file
  seen,            \* per thread: the content just read
  tok,             \* per thread: the content its tokenizer was made of, or None
  text,            \* per thread: what it encodes
  i, chunk_start,  \* per thread: the positions in the text (from 0)
  out              \* per thread: the pieces found so far

files == <<tmp, at, src, seen, tok>>
scan == <<text, i, chunk_start, out>>
vars == <<files, scan>>

Content(f) == [from |-> f, virtual |-> f \in Virtual, pairs |-> f \in Pairs]
OnDisk(t) == IF src[t] = "file" THEN Content(FileOf[t]) ELSE tmp[src[t]]

Init ==
  /\ tmp = [n \in {"cleaned", "normalized"} |-> None]
  /\ at = [t \in Threads |-> "read"] /\ src = [t \in Threads |-> "file"]
  /\ seen = [t \in Threads |-> None] /\ tok = [t \in Threads |-> None]
  /\ text = [t \in Threads |-> <<>>]
  /\ i = [t \in Threads |-> 0] /\ chunk_start = [t \in Threads |-> 0]
  /\ out = [t \in Threads |-> <<>>]

Goto(t, place) == at' = [at EXCEPT ![t] = place]

(* try_strip_virtual_added_tokens reads the file and decides.               *)
Strip(t) ==
  /\ at[t] = "read"
  /\ seen' = [seen EXCEPT ![t] = Content(FileOf[t])]
  /\ Goto(t, IF FileOf[t] \in Virtual THEN "clean" ELSE "load")
  /\ UNCHANGED <<tmp, src, tok, scan>>

(* fs::write empties the file, and fills it.                                *)
Truncate(t) ==
  \E name \in {"cleaned", "normalized"} :
     /\ at[t] = IF name = "cleaned" THEN "clean" ELSE "normalize"
     /\ tmp' = [tmp EXCEPT ![name] = None]
     /\ Goto(t, IF name = "cleaned" THEN "clean write" ELSE "normalize write")
     /\ UNCHANGED <<src, seen, tok, scan>>

(* Mutant: the edit that was made before is undone: the text written is    *)
(* that of the file the client named.                                       *)
WriteFromTheFile(t) ==
  \E name \in {"cleaned", "normalized"} :
     /\ at[t] = IF name = "cleaned" THEN "clean write" ELSE "normalize write"
     /\ tmp' = [tmp EXCEPT ![name] =
                  IF name = "cleaned" THEN [seen[t] EXCEPT !.virtual = FALSE]
                                      ELSE [Content(FileOf[t]) EXCEPT !.pairs = FALSE]]
     /\ src' = [src EXCEPT ![t] = name]
     /\ Goto(t, "load")
     /\ UNCHANGED <<seen, tok, scan>>

Write(t) ==
  \E name \in {"cleaned", "normalized"} :
     /\ at[t] = IF name = "cleaned" THEN "clean write" ELSE "normalize write"
     /\ tmp' = [tmp EXCEPT ![name] =
                  IF name = "cleaned" THEN [seen[t] EXCEPT !.virtual = FALSE]
                                      ELSE [seen[t] EXCEPT !.pairs = FALSE]]
     /\ src' = [src EXCEPT ![t] = name]
     /\ Goto(t, "load")
     /\ UNCHANGED <<seen, tok, scan>>

(* Tokenizer::from_file: an empty file and merges in pairs are rejected.    *)
Accepts(c) == c # None /\ ~c.pairs

Load(t) ==
  /\ at[t] = "load"
  /\ IF Accepts(OnDisk(t))
     THEN tok' = [tok EXCEPT ![t] = OnDisk(t)] /\ Goto(t, "register")
     ELSE /\ UNCHANGED tok
          /\ Goto(t, IF src[t] = "normalized" THEN "failed" ELSE "look")
  /\ UNCHANGED <<tmp, src, seen, scan>>

(* try_normalize_tokenizer_json reads load_path again.                      *)
Look(t) ==
  /\ at[t] = "look"
  /\ seen' = [seen EXCEPT ![t] = OnDisk(t)]
  /\ Goto(t, IF OnDisk(t) # None /\ OnDisk(t).pairs THEN "normalize" ELSE "failed")
  /\ UNCHANGED <<tmp, src, tok, scan>>

(* The added tokens are registered, and the explicit ids read, from the    *)
(* file the client named; then the client encodes a text.                   *)
Register(t) ==
  /\ at[t] = "register"
  /\ \E s \in Texts : text' = [text EXCEPT ![t] = s]
  /\ Goto(t, "encode")
  /\ UNCHANGED <<tmp, src, seen, tok, i, chunk_start, out>>

Rest(t) == SubSeq(text[t], i[t] + 1, Len(text[t]))
Matches(t) == {s \in Specials : IsPrefix(s, Rest(t))}

(* The added tokens are tried longest first; no two of the same length can *)
(* both match.                                                              *)
Match(t) == CHOOSE s \in Matches(t) : \A r \in Matches(t) : Len(s) >= Len(r)

(* What lies between two added tokens goes to the library.                  *)
Chunk(t, end) ==
  IF chunk_start[t] < end
  THEN <<[special |-> FALSE, word |-> SubSeq(text[t], chunk_start[t] + 1, end)]>> ELSE <<>>

(* One turn of the loop over the text.                                      *)
Scan(t) ==
  /\ at[t] = "encode" /\ i[t] < Len(text[t])
  /\ IF Matches(t) # {}
     THEN /\ out' = [out EXCEPT ![t] = @ \o Chunk(t, i[t]) \o <<[special |-> TRUE, word |-> Match(t)]>>]
          /\ i' = [i EXCEPT ![t] = @ + Len(Match(t))]
          /\ chunk_start' = [chunk_start EXCEPT ![t] = i[t] + Len(Match(t))]
     ELSE i' = [i EXCEPT ![t] = @ + 1] /\ UNCHANGED <<out, chunk_start>>
  /\ UNCHANGED <<files, text>>

Finish(t) ==
  /\ at[t] = "encode" /\ i[t] = Len(text[t])
  /\ out' = [out EXCEPT ![t] = @ \o Chunk(t, Len(text[t]))]
  /\ Goto(t, "done")
  /\ UNCHANGED <<tmp, src, seen, tok, text, i, chunk_start>>

Next ==
  \E t \in Threads :
     Strip(t) \/ Truncate(t) \/ Write(t) \/ Load(t) \/ Look(t) \/ Register(t) \/ Scan(t) \/ Finish(t)

Spec == Init /\ [][Next]_vars

-----------------------------------------------------------------------------
Words(t) == [k \in 1..Len(out[t]) |-> out[t][k].word]

(* A tokenizer is made of the file its client named, edited: without the   *)
(* virtual tokens, and never of another thread's file.                      *)
TokenizerIsTheFiles ==
  \A t \in Threads : tok[t] # None => tok[t] = [from |-> FileOf[t], virtual |-> FALSE, pairs |-> FALSE]

(* A file the library or the two edits can cope with is never refused.      *)
GoodFilesLoad == \A t \in Threads : at[t] # "failed"

(* Nothing of the text is lost or said twice on the way to the tokens.      *)
TextIsKept ==
  \A t \in Threads : at[t] = "done" => FlattenSeq(Words(t)) = text[t]

(* No added token is left inside a piece that goes to the library, and a   *)
(* piece that is one is the longest that starts there.                      *)
TextIsSegmented ==
  \A t \in Threads : \A k \in DOMAIN out[t] :
     IF out[t][k].special
     THEN LET before == Len(FlattenSeq(SubSeq(Words(t), 1, k - 1))) IN
          \A s \in Specials :
             IsPrefix(s, SubSeq(text[t], before + 1, Len(text[t]))) => Len(s) <= Len(out[t][k].word)
     ELSE \A s \in Specials, n \in 0..(Len(out[t][k].word) - 1) :
             ~IsPrefix(s, SubSeq(out[t][k].word, n + 1, Len(out[t][k].word)))
=============================================================================
