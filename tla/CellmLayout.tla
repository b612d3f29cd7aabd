---------------------------- MODULE CellmLayout ----------------------------
(***************************************************************************)
(* How the converter lays out a .cellm file, and how CellmFile reads it.   *)
(*                                                                         *)
(* A file is a preamble of ten bytes, a JSON header that gives the offset  *)
(* of every tensor, and the tensors, each at a multiple of 64 bytes.  The  *)
(* offsets depend on the length of the header and the length of the header *)
(* on the digits of the offsets, so the converter plans the offsets in     *)
(* rounds, at most three, until the length does not change.  It then       *)
(* writes the header with the last offsets and the tensors in their order; *)
(* it may stop half-way and leave what it has written.  The reader takes   *)
(* whatever file it is given.                                              *)
(*                                                                         *)
(* Tensors of one size that follow each other are a group: the number of   *)
(* tensors, the bytes of each, and the bytes of its entry in the header    *)
(* besides the digits of its offset.  Contents are left out; what is in a  *)
(* file is where each group begins.                                        *)
(***************************************************************************)
EXTENDS Integers, Sequences, FiniteSetsExt, SequencesExt

CONSTANTS
  Files,           \* the tensors to convert: sequences of groups
  Fixed,           \* bytes of the header besides the tensors' entries
  Align,           \* what the offsets are multiples of, 64
  Rounds,          \* the most rounds of planning, 3
  Powers,          \* 10, 100, ...: the offsets with one more digit
  Preamble,        \* bytes before the header, 10
  None             \* no length yet

CellmLayoutAssumption ==
  /\ \A f \in Files : \A g \in DOMAIN f :
       /\ f[g].count \in Nat \ {0} /\ f[g].nbytes \in Nat \ {0}
       /\ f[g].entry \in Nat
  /\ Fixed \subseteq Nat /\ Align \in Nat \ {0} /\ Preamble \in Nat

VARIABLES
  groups,          \* the plan, sorted by name
  base,            \* Fixed of this file
  begin,           \* per group: offset_bytes of its first tensor
  spaced,          \* whether offsets are assigned (they are all 0 before)
  last_header_len, \* the length of the header of the last round, or None
  round,           \* rounds done
  phase,           \* what the converter, and then the reader, does
  header,          \* the header in the file: its length and its offsets
  pos,             \* bytes written
  next,            \* the group to write
  at               \* per group: where it begins in the file, 0 if it is not there

plan == <<groups, base, begin, spaced, last_header_len, round>>
file == <<header, pos, next, at>>
vars == <<plan, phase, file>>

AlignUp(v) == ((v + Align - 1) \div Align) * Align
(* Tensors of one group follow each other at the next aligned place.       *)
Stride(g) == AlignUp(groups[g].nbytes)
End(g, from) == from + (groups[g].count - 1) * Stride(g) + groups[g].nbytes

(* How many of a group's offsets have the digit that begins at p.          *)
Longer(g, from, p) ==
  IF from >= p THEN groups[g].count
  ELSE LET below == (p - from + Stride(g) - 1) \div Stride(g)
       IN  IF below >= groups[g].count THEN 0 ELSE groups[g].count - below

(* serde_json::to_vec(&header).len() with the offsets of the plan.         *)
HeaderLen ==
  base + FoldFunction(+, 0, [g \in DOMAIN groups |->
    groups[g].count * (groups[g].entry + 1)
      + (IF spaced THEN MapThenSumSet(LAMBDA p : Longer(g, begin[g], p), Powers)
         ELSE 0)])

(* The offsets after a header of this length: the cursor is aligned for    *)
(* every tensor.                                                           *)
Place(len) ==
  LET off[g \in DOMAIN groups] ==
        IF g = 1 THEN AlignUp(Preamble + len)
        ELSE AlignUp(End(g - 1, off[g - 1]))
  IN  off

Init ==
  /\ groups \in Files /\ base \in Fixed
  /\ begin = [g \in DOMAIN groups |-> 0] /\ spaced = FALSE
  /\ last_header_len = None /\ round = 0 /\ phase = "plan"
  /\ header = None /\ pos = 0 /\ next = 1
  /\ at = [g \in DOMAIN groups |-> 0]

(* One round of the loop: the header's length, and new offsets.            *)
PlanRound ==
  /\ phase = "plan" /\ round < Rounds /\ last_header_len # HeaderLen
  /\ last_header_len' = HeaderLen /\ round' = round + 1
  /\ begin' = Place(HeaderLen) /\ spaced' = TRUE
  /\ UNCHANGED <<groups, base, phase, file>>

(* The loop's two ends: the length is stable, or the rounds are over.      *)
Planned == round = Rounds \/ last_header_len = HeaderLen

(* Mutant: the header has the offsets for a header without its tensors.    *)
WriteStaleHeader ==
  /\ phase = "plan" /\ Planned
  /\ header' = [len |-> HeaderLen, begin |-> Place(base)]
  /\ pos' = AlignUp(Preamble + HeaderLen)
  /\ phase' = "write"
  /\ UNCHANGED <<plan, next, at>>

(* The final header, the preamble and the padding behind it.               *)
WriteHeader ==
  /\ phase = "plan" /\ Planned
  /\ header' = [len |-> HeaderLen, begin |-> begin]
  /\ pos' = AlignUp(Preamble + HeaderLen)
  /\ phase' = "write"
  /\ UNCHANGED <<plan, next, at>>

(* The tensors of a group: padding up to the planned offset, and a stop if *)
(* the writer is already behind it.  Within a group the planned offsets    *)
(* are a stride apart, so only the first can be missed.                    *)
WriteGroup ==
  /\ phase = "write" /\ next <= Len(groups)
  /\ IF pos > begin[next]
       THEN /\ phase' = "mismatch"
            /\ UNCHANGED <<pos, next, at>>
       ELSE /\ at' = [at EXCEPT ![next] = begin[next]]
            /\ pos' = End(next, begin[next])
            /\ next' = next + 1
            /\ UNCHANGED phase
  /\ UNCHANGED <<plan, header>>

(* w.flush(): the conversion is done.                                      *)
Flush ==
  /\ phase = "write" /\ next > Len(groups)
  /\ phase' = "written"
  /\ UNCHANGED <<plan, file>>

(* A tensor that cannot be read, a full disk or the end of the process:    *)
(* the file keeps some of what was written so far.                         *)
Interrupted ==
  /\ phase \in {"write", "mismatch"}
  /\ \E size \in {Preamble - 5, Preamble + header.len - 1, pos - 1, pos} :
       /\ size <= pos
       /\ pos' = size
  /\ phase' = "written"
  /\ UNCHANGED <<plan, header, next, at>>

(* CellmFile::load and load_from_vec: the length of the header and the end *)
(* of every tensor are compared with the size of the file.                 *)
InRange ==
  /\ Preamble + header.len <= pos
  /\ \A g \in DOMAIN groups : End(g, header.begin[g]) <= pos

Load ==
  /\ phase = "written"
  /\ phase' = IF InRange THEN "loaded" ELSE "refused"
  /\ UNCHANGED <<plan, file>>

Next ==
  \/ PlanRound \/ WriteHeader \/ WriteGroup \/ Flush \/ Interrupted
  \/ Load

Spec == Init /\ [][Next]_vars

-----------------------------------------------------------------------------
(* Every variable has its type; there are never more than the planned      *)
(* rounds, and the writer is within the file it planned.                   *)
TypeOK ==
  /\ groups \in Files /\ base \in Fixed
  /\ \A g \in DOMAIN groups : begin[g] \in Nat /\ at[g] \in {0, begin[g]}
  /\ round \in 0..Rounds /\ spaced = (round > 0)
  /\ phase \in {"plan", "write", "mismatch", "written", "loaded", "refused"}
  /\ next \in 1..(Len(groups) + 1) /\ pos \in Nat

(* The rounds are enough: the writer never finds itself behind a planned   *)
(* offset because the final header is longer than the one it planned for   *)
(* (the stop "writer position mismatch").                                  *)
WriterReachesOffsets == phase # "mismatch"

(* docs/format.md: every tensor starts at a 64-byte boundary, the first    *)
(* behind the header, and no two tensors of a file share a byte.           *)
TensorsApart ==
  (header # None /\ phase # "mismatch") =>
    /\ header.begin[1] >= Preamble + header.len
    /\ \A g \in DOMAIN groups : header.begin[g] % Align = 0
    /\ \A g \in DOMAIN groups \ {1} :
         header.begin[g] >= End(g - 1, header.begin[g - 1])

(* A file the reader accepts has every tensor where its header says: the   *)
(* offsets in the file are those the writer kept to.                       *)
ReaderFindsTensors ==
  phase = "loaded" => header.begin = at

(* A conversion that stopped half-way leaves a file the reader refuses.    *)
PartialFileRefused ==
  phase = "loaded" => next > Len(groups) /\ pos = End(Len(groups), at[Len(groups)])

(* "iterating until the JSON length stabilizes": the header that is        *)
(* written has the length its offsets were planned for.                    *)
LengthStabilizes == header # None => header.len = last_header_len
=============================================================================
