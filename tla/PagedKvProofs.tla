--------------------------- MODULE PagedKvProofs ---------------------------
(***************************************************************************)
(* Proofs about the paged KV cache, for every number of sessions and every *)
(* size of the pool and of its blocks: its invariants, that it implements  *)
(* the contract of KvStore, and that the fused graphs, which keep slot     *)
(* addresses beside it, attend to the session's own slots.                 *)
(***************************************************************************)
EXTENDS GraphBases, Induction, SequenceTheorems, FiniteSetTheorems, TLAPS

Inj(q) == \A i, j \in DOMAIN q : q[i] = q[j] => i = j

(* An injective sequence of block ids is no longer than the pool.          *)
LEMMA PoolBound ==
  ASSUME NEW q \in Seq(Block), Inj(q)
  PROVE  Len(q) <= TotalBlocks
<1>1. q \in Injection(1..Len(q), Block)
  BY LenProperties DEF Inj, Injection, IsInjective
<1>2. IsFiniteSet(Block) /\ Cardinality(Block) = TotalBlocks
  BY SizeAssumption, FS_Interval DEF Block
<1>3. Len(q) \in Nat
  BY LenProperties
<1>4. Cardinality(1..Len(q)) = Len(q)
  <2>1. Cardinality(1..Len(q)) = IF 1 > Len(q) THEN 0 ELSE Len(q) - 1 + 1
    BY <1>3, FS_Interval
  <2> QED
    BY <1>3, <2>1
<1> QED
  BY <1>1, <1>2, <1>4, FS_Injection

(* What \div and % do.                                                     *)
LEMMA DivFacts ==
  ASSUME NEW n \in Nat, NEW d \in Nat \ {0}
  PROVE  /\ n \div d \in Nat
         /\ (n \div d) * d <= n
         /\ n < (n \div d) * d + d
  OBVIOUS

(* k blocks hold k * TokensPerBlock positions, one block more ...          *)
LEMMA OneMoreBlock ==
  ASSUME NEW k \in Nat, NEW d \in Nat
  PROVE  (k + 1) * d = k * d + d
  OBVIOUS

(* KeepBlocks is the ceiling: the least number of blocks for n positions.  *)
LEMMA KeepBlocksIsCeiling ==
  ASSUME NEW n \in Nat
  PROVE  /\ KeepBlocks(n) \in Nat
         /\ n <= KeepBlocks(n) * TokensPerBlock
         /\ KeepBlocks(n) * TokensPerBlock < n + TokensPerBlock
<1>1. CASE n = 0
  BY <1>1, SizeAssumption DEF KeepBlocks
<1>2. CASE n # 0
  <2> DEFINE k == (n - 1) \div TokensPerBlock
  <2>1. k \in Nat /\ k * TokensPerBlock <= n - 1 /\ n - 1 < k * TokensPerBlock + TokensPerBlock
    BY <1>2, SizeAssumption, DivFacts
  <2>2. (k + 1) * TokensPerBlock = k * TokensPerBlock + TokensPerBlock
    BY <2>1, SizeAssumption, OneMoreBlock
  <2>3. KeepBlocks(n) = k + 1
    BY <1>2 DEF KeepBlocks
  <2>4. k * TokensPerBlock \in Int
    BY <2>1, SizeAssumption
  <2> HIDE DEF k
  <2> QED
    BY <2>1, <2>2, <2>3, <2>4, SizeAssumption
<1> QED
  BY <1>1, <1>2

(* The ceiling of k / d is at most n when k < n * d.                       *)
LEMMA CeilingLeast ==
  ASSUME NEW c \in Nat, NEW n \in Nat, NEW d \in Nat \ {0}, NEW k \in Nat,
         c * d < k + d, k < n * d
  PROVE  c <= n
<1> SUFFICES ASSUME c >= n + 1 PROVE FALSE
  OBVIOUS
<1>1. c * d >= (n + 1) * d
  OBVIOUS
<1>2. (n + 1) * d = n * d + d
  BY OneMoreBlock
<1>3. n * d \in Nat /\ c * d \in Nat
  OBVIOUS
<1> QED
  BY <1>1, <1>2, <1>3

-----------------------------------------------------------------------------
(* The inductive invariant.  No part of it can be spared: an allocation    *)
(* keeps the tables apart because a free id is in no table, a free is      *)
(* accepted because a table's ids are allocated and appear once.           *)
IInv ==
  /\ TypeOK
  /\ FreeListExact
  /\ NoSharing
  /\ OwnedIffAllocated
  /\ TablesFit
  /\ NoFault

(* A sequence given as a function on 1..n.                                 *)
LEMMA SeqOfFunction ==
  ASSUME NEW S, NEW n \in Nat, NEW q \in [1..n -> S]
  PROVE  q \in Seq(S) /\ Len(q) = n /\ DOMAIN q = 1..n
  OBVIOUS

(* A new cache satisfies the invariant.                                    *)
LEMMA InitIInv == Init => IInv
<1> SUFFICES ASSUME Init PROVE IInv
  OBVIOUS
<1> USE SizeAssumption DEF Init, AllocatorInit
<1>1. free_list \in [1..TotalBlocks -> Block]
  BY DEF Block
<1>2. /\ free_list \in Seq(Block)
      /\ Len(free_list) = TotalBlocks
      /\ DOMAIN free_list = 1..TotalBlocks
  BY <1>1, SeqOfFunction
<1>3. TypeOK
  <2>1. is_free \in [Block -> BOOLEAN] /\ fault \in BOOLEAN
    BY Zenon
  <2>2. slab \in [Block -> [Offset -> Entry \cup {Blank}]]
    BY Zenon
  <2>3. blocks \in [Session -> Seq(Block)] /\ token_count \in [Session -> Nat]
    BY EmptySeq
  <2> QED
    BY <1>2, <2>1, <2>2, <2>3 DEF TypeOK
<1>4. FreeListExact
  <2>1. \A i, j \in DOMAIN free_list : free_list[i] = free_list[j] => i = j
    BY <1>2
  <2>2. \A b \in Block : b + 1 \in DOMAIN free_list /\ free_list[b + 1] = b
    BY <1>2 DEF Block
  <2>3. \A b \in Block : is_free[b] /\ \E i \in DOMAIN free_list : free_list[i] = b
    BY <2>2
  <2>4. in_use + Len(free_list) = TotalBlocks
    BY <1>2
  <2> HIDE DEF AllocatorInit
  <2> QED
    BY <2>1, <2>3, <2>4 DEF FreeListExact
<1>5. NoSharing /\ OwnedIffAllocated /\ TablesFit /\ NoFault
  BY DEF NoSharing, OwnedIffAllocated, TablesFit, NoFault
<1> QED
  BY <1>3, <1>4, <1>5 DEF IInv

(* append_token inside the last block.                                     *)
LEMMA AppendInPlaceIInv ==
  ASSUME IInv, NEW s \in Session, AppendInPlace(s)
  PROVE  IInv'
<1> USE DEF IInv, AppendInPlace
<1>1. TypeOK'
  BY DEF TypeOK
<1>2. FreeListExact' /\ NoSharing' /\ OwnedIffAllocated' /\ NoFault'
  BY DEF FreeListExact, NoSharing, OwnedIffAllocated, NoFault
<1>3. TablesFit'
  <2> SUFFICES ASSUME NEW t \in Session
               PROVE  /\ token_count'[t] <= Len(blocks[t]) * TokensPerBlock
                      /\ Len(blocks[t]) * TokensPerBlock < token_count'[t] + TokensPerBlock
    BY DEF TablesFit
  <2> DEFINE n == Len(blocks[t]) * TokensPerBlock
  <2>1. n \in Int /\ token_count[t] \in Nat /\ TokensPerBlock \in Nat
    BY SizeAssumption DEF TypeOK
  <2>2. token_count[t] <= n /\ n < token_count[t] + TokensPerBlock
    BY DEF TablesFit
  <2>3. t = s => token_count[t] # n
    BY DEF NeedNewBlock
  <2>4. token_count'[t] = IF t = s THEN token_count[t] + 1 ELSE token_count[t]
    BY DEF TypeOK
  <2> HIDE DEF n
  <2> QED
    BY <2>1, <2>2, <2>3, <2>4 DEF n
<1> QED
  BY <1>1, <1>2, <1>3

(* A K/V write leaves the tables and the allocator alone.                  *)
LEMMA WriteTokenIInv ==
  ASSUME IInv, NEW s \in Session, NEW pos \in 0..(token_count[s] - 1), NEW e \in Entry,
         WriteToken(s, pos, e)
  PROVE  IInv'
<1> USE DEF IInv, WriteToken
<1>1. slab' \in [Block -> [Offset -> Entry \cup {Blank}]]
  <2>1. slab \in [Block -> [Offset -> Entry \cup {Blank}]]
    BY DEF TypeOK
  <2> QED
    BY <2>1
<1>2. TypeOK'
  BY <1>1 DEF TypeOK
<1>3. FreeListExact' /\ NoSharing' /\ OwnedIffAllocated' /\ TablesFit' /\ NoFault'
  BY DEF FreeListExact, NoSharing, OwnedIffAllocated, TablesFit, NoFault
<1> QED
  BY <1>2, <1>3
(* append_token across a block boundary: the id taken from the free list   *)
(* was in no table, and is no longer free.                                 *)
LEMMA AppendNewBlockIInv ==
  ASSUME IInv, NEW s \in Session, AppendNewBlock(s)
  PROVE  IInv'
<1> DEFINE h == Head(free_list)
           n == Len(blocks[s])
<1> USE DEF IInv
<1>1. /\ h \in Block /\ Tail(free_list) \in Seq(Block)
      /\ free_list \in Seq(Block) /\ Len(free_list) \in Nat /\ Len(free_list) > 0
      /\ Len(Tail(free_list)) = Len(free_list) - 1
      /\ h = free_list[1]
      /\ \A i \in 1..(Len(free_list) - 1) : Tail(free_list)[i] = free_list[i + 1]
  BY HeadTailProperties DEF TypeOK, AppendNewBlock, Alloc
<1>2. /\ blocks[s] \in Seq(Block) /\ n \in Nat
      /\ Append(blocks[s], h) \in Seq(Block)
      /\ Len(Append(blocks[s], h)) = n + 1
      /\ \A i \in 1..n : Append(blocks[s], h)[i] = blocks[s][i]
      /\ Append(blocks[s], h)[n + 1] = h
  BY <1>1, AppendProperties, LenProperties DEF TypeOK
<1>3. /\ free_list' = Tail(free_list)
      /\ is_free' = [is_free EXCEPT ![h] = FALSE]
      /\ in_use' = in_use + 1
      /\ blocks' = [blocks EXCEPT ![s] = Append(@, h)]
      /\ token_count' = [token_count EXCEPT ![s] = @ + 1]
      /\ slab' = slab /\ fault' = fault
      /\ token_count[s] = n * TokensPerBlock
  BY DEF AppendNewBlock, Alloc, NeedNewBlock
<1>4. is_free \in [Block -> BOOLEAN] /\ is_free[h]
  BY <1>1 DEF TypeOK, FreeListExact
<1>5. \A t \in Session : \A i \in DOMAIN blocks[t] : blocks[t][i] # h
  BY <1>1, <1>4 DEF OwnedIffAllocated
<1>6. /\ \A t \in Session \ {s} : blocks'[t] = blocks[t]
      /\ blocks'[s] = Append(blocks[s], h)
      /\ DOMAIN blocks[s] = 1..n
      /\ DOMAIN blocks'[s] = 1..(n + 1)
  BY <1>2, <1>3, LenProperties DEF TypeOK
<1>7. TypeOK'
  <2>1. is_free' \in [Block -> BOOLEAN]
    BY <1>3, <1>4
  <2>2. blocks' \in [Session -> Seq(Block)] /\ token_count' \in [Session -> Nat]
    BY <1>2, <1>3 DEF TypeOK
  <2> QED
    BY <1>1, <1>3, <2>1, <2>2 DEF TypeOK
<1>8. FreeListExact'
  <2>1. DOMAIN free_list = 1..Len(free_list) /\ DOMAIN free_list' = 1..(Len(free_list) - 1)
    BY <1>1, <1>3, LenProperties
  <2>2. \A i, j \in DOMAIN free_list' : free_list'[i] = free_list'[j] => i = j
    BY <1>1, <1>3, <2>1 DEF FreeListExact
  <2>3. \A b \in Block :
          (\E i \in DOMAIN free_list' : free_list'[i] = b)
            <=> b # h /\ \E i \in DOMAIN free_list : free_list[i] = b
    <3> SUFFICES ASSUME NEW b \in Block
                 PROVE  (\E i \in DOMAIN free_list' : free_list'[i] = b)
                          <=> b # h /\ \E i \in DOMAIN free_list : free_list[i] = b
      OBVIOUS
    <3>1. ASSUME NEW i \in DOMAIN free_list', free_list'[i] = b
          PROVE  b # h /\ \E j \in DOMAIN free_list : free_list[j] = b
      <4>1. i + 1 \in DOMAIN free_list /\ free_list[i + 1] = b /\ 1 \in DOMAIN free_list
        BY <1>1, <1>3, <2>1, <3>1
      <4> QED
        BY <1>1, <2>1, <3>1, <4>1 DEF FreeListExact
    <3>2. ASSUME NEW i \in DOMAIN free_list, free_list[i] = b, b # h
          PROVE  \E j \in DOMAIN free_list' : free_list'[j] = b
      <4>1. i - 1 \in DOMAIN free_list' /\ free_list'[i - 1] = b
        BY <1>1, <1>3, <2>1, <3>2
      <4> QED
        BY <4>1
    <3> QED
      BY <3>1, <3>2
  <2>4. \A b \in Block : is_free'[b] <=> b # h /\ is_free[b]
    BY <1>3, <1>4
  <2>5. \A b \in Block : is_free'[b] <=> \E i \in DOMAIN free_list' : free_list'[i] = b
    BY <2>3, <2>4 DEF FreeListExact
  <2>6. in_use' + Len(free_list') = TotalBlocks
    <3>1. in_use \in Nat /\ in_use + Len(free_list) = TotalBlocks
      BY DEF FreeListExact, TypeOK
    <3>2. in_use' = in_use + 1 /\ Len(free_list') = Len(free_list) - 1
      BY <1>1, <1>3
    <3> QED
      BY <1>1, <3>1, <3>2
  <2> QED
    BY <2>2, <2>5, <2>6 DEF FreeListExact
<1>9. NoSharing'
  <2> SUFFICES ASSUME NEW t \in Session, NEW u \in Session,
                      NEW i \in DOMAIN blocks'[t], NEW j \in DOMAIN blocks'[u],
                      blocks'[t][i] = blocks'[u][j]
               PROVE  t = u /\ i = j
    BY DEF NoSharing
  <2>1. ASSUME NEW v \in Session, NEW k \in DOMAIN blocks'[v]
        PROVE  \/ k \in DOMAIN blocks[v] /\ blocks'[v][k] = blocks[v][k]
               \/ v = s /\ k = n + 1 /\ blocks'[v][k] = h
    BY <1>2, <1>6
  <2> QED
    BY <1>5, <2>1 DEF NoSharing
<1>10. OwnedIffAllocated'
  <2> SUFFICES ASSUME NEW b \in Block
               PROVE  ~is_free'[b] <=>
                         \E t \in Session : \E i \in DOMAIN blocks'[t] : blocks'[t][i] = b
    BY DEF OwnedIffAllocated
  <2>1. is_free'[b] <=> b # h /\ is_free[b]
    BY <1>3, <1>4
  <2>2. (\E t \in Session : \E i \in DOMAIN blocks'[t] : blocks'[t][i] = b)
          <=> b = h \/ \E t \in Session : \E i \in DOMAIN blocks[t] : blocks[t][i] = b
    <3>1. ASSUME NEW t \in Session, NEW i \in DOMAIN blocks[t]
          PROVE  i \in DOMAIN blocks'[t] /\ blocks'[t][i] = blocks[t][i]
      BY <1>2, <1>6
    <3>2. n + 1 \in DOMAIN blocks'[s] /\ blocks'[s][n + 1] = h
      BY <1>2, <1>6
    <3>3. ASSUME NEW t \in Session, NEW i \in DOMAIN blocks'[t]
          PROVE  \/ i \in DOMAIN blocks[t] /\ blocks'[t][i] = blocks[t][i]
                 \/ blocks'[t][i] = h
      BY <1>2, <1>6
    <3> QED
      BY <3>1, <3>2, <3>3
  <2> QED
    BY <2>1, <2>2 DEF OwnedIffAllocated
<1>11. TablesFit'
  <2> SUFFICES ASSUME NEW t \in Session
               PROVE  /\ token_count'[t] <= Len(blocks'[t]) * TokensPerBlock
                      /\ Len(blocks'[t]) * TokensPerBlock < token_count'[t] + TokensPerBlock
    BY DEF TablesFit
  <2>1. CASE t # s
    BY <1>3, <1>6, <2>1 DEF TablesFit, TypeOK
  <2>2. CASE t = s
    <3>1. Len(blocks'[s]) * TokensPerBlock = n * TokensPerBlock + TokensPerBlock
      BY <1>2, <1>6, SizeAssumption, OneMoreBlock
    <3>2. token_count'[s] = n * TokensPerBlock + 1 /\ n * TokensPerBlock \in Nat
      BY <1>3 DEF TypeOK
    <3> HIDE DEF n
    <3> QED
      BY <2>2, <3>1, <3>2, SizeAssumption
  <2> QED
    BY <2>1, <2>2
<1>12. NoFault'
  BY <1>3 DEF NoFault
<1> QED
  BY <1>7, <1>8, <1>9, <1>10, <1>11, <1>12

(***************************************************************************)
(* truncate_tokens and free_all: the ids of a table beyond its first keep  *)
(* are given back.  free() accepts each of them, because a table's ids are *)
(* allocated and are all different.                                        *)
(***************************************************************************)
GiveBack(s, keep, ids) ==
  /\ FreeAllOf(ids)
  /\ blocks' = [blocks EXCEPT ![s] = SubSeq(@, 1, keep)]
  /\ slab' = slab

(* Blocks a table gives up and free() takes back, some suffix of the       *)
(* table, leave the invariant true when the rest fits the new count.       *)
LEMMA GiveBackIInv ==
  ASSUME IInv, NEW s \in Session, NEW keep \in 0..Len(blocks[s]), NEW m \in Nat,
         NEW ids \in Seq(Block), Inj(ids),
         \A b : (\E i \in DOMAIN ids : ids[i] = b)
                 <=> \E i \in (keep + 1)..Len(blocks[s]) : blocks[s][i] = b,
         GiveBack(s, keep, ids),
         token_count' = [token_count EXCEPT ![s] = m],
         m <= keep * TokensPerBlock, keep * TokensPerBlock < m + TokensPerBlock
  PROVE  IInv'
<1> DEFINE n == Len(blocks[s])
           InIds(b) == \E i \in DOMAIN ids : ids[i] = b
<1> USE DEF IInv
<1>1. /\ blocks[s] \in Seq(Block) /\ n \in Nat /\ DOMAIN blocks[s] = 1..n
      /\ \A i \in 1..n : blocks[s][i] \in Block
  BY LenProperties, ElementOfSeq DEF TypeOK
<1>2. /\ SubSeq(blocks[s], 1, keep) \in Seq(Block)
      /\ Len(SubSeq(blocks[s], 1, keep)) = keep
      /\ DOMAIN SubSeq(blocks[s], 1, keep) = 1..keep
      /\ \A i \in 1..keep : SubSeq(blocks[s], 1, keep)[i] = blocks[s][i]
  <2>1. \A i \in 1..keep : blocks[s][i] \in Block
    BY <1>1
  <2>2. keep \in Nat
    BY <1>1
  <2>3. /\ SubSeq(blocks[s], 1, keep) \in Seq(Block)
        /\ Len(SubSeq(blocks[s], 1, keep)) = IF 1 <= keep THEN keep - 1 + 1 ELSE 0
        /\ \A i \in 1..(keep - 1 + 1) : SubSeq(blocks[s], 1, keep)[i] = blocks[s][1 + i - 1]
    BY <2>1, <2>2, SubSeqProperties
  <2> QED
    BY <2>2, <2>3, LenProperties
<1>3. /\ free_list' = free_list \o ids
      /\ is_free' = [b \in Block |-> is_free[b] \/ InIds(b)]
      /\ in_use' = IF Len(ids) <= in_use THEN in_use - Len(ids) ELSE 0
      /\ fault' = (fault \/ ~Freeable(ids))
      /\ blocks' = [blocks EXCEPT ![s] = SubSeq(@, 1, keep)]
      /\ slab' = slab
  BY DEF GiveBack, FreeAllOf
<1>4. /\ \A t \in Session \ {s} : blocks'[t] = blocks[t]
      /\ blocks'[s] = SubSeq(blocks[s], 1, keep)
  BY <1>3 DEF TypeOK
<1>5. \A t \in Session : \A i \in DOMAIN blocks'[t] :
        i \in DOMAIN blocks[t] /\ blocks'[t][i] = blocks[t][i] /\ (t = s => i <= keep)
  BY <1>1, <1>2, <1>4
<1>6. ASSUME NEW i \in DOMAIN ids
      PROVE  ids[i] \in Block /\ ~is_free[ids[i]]
  <2>1. PICK j \in (keep + 1)..n : blocks[s][j] = ids[i]
    OBVIOUS
  <2>2. j \in DOMAIN blocks[s] /\ ids[i] \in Block
    BY <1>1, <2>1
  <2> QED
    BY <2>1, <2>2 DEF OwnedIffAllocated
<1>7. Freeable(ids)
  BY <1>6 DEF Freeable, Inj
<1>8. /\ free_list \in Seq(Block) /\ free_list' \in Seq(Block)
      /\ Len(free_list) \in Nat /\ Len(ids) \in Nat
      /\ DOMAIN free_list = 1..Len(free_list) /\ DOMAIN ids = 1..Len(ids)
      /\ DOMAIN free_list' = 1..(Len(free_list) + Len(ids))
      /\ Len(free_list') = Len(free_list) + Len(ids)
      /\ \A i \in 1..(Len(free_list) + Len(ids)) :
           free_list'[i] = IF i <= Len(free_list) THEN free_list[i] ELSE ids[i - Len(free_list)]
  BY <1>3, ConcatProperties, LenProperties DEF TypeOK
<1>9. \A i \in DOMAIN free_list : is_free[free_list[i]] /\ free_list[i] \in Block
  BY <1>8, ElementOfSeq DEF FreeListExact
<1>10. Inj(free_list')
  <2> SUFFICES ASSUME NEW i \in DOMAIN free_list', NEW j \in DOMAIN free_list',
                      free_list'[i] = free_list'[j]
               PROVE  i = j
    BY DEF Inj
  <2>1. ASSUME NEW k \in DOMAIN free_list'
        PROVE  \/ k \in DOMAIN free_list /\ free_list'[k] = free_list[k]
               \/ k - Len(free_list) \in DOMAIN ids /\ free_list'[k] = ids[k - Len(free_list)]
    BY <1>8
  <2>2. CASE i \in DOMAIN free_list /\ free_list'[i] = free_list[i]
             /\ j \in DOMAIN free_list /\ free_list'[j] = free_list[j]
    BY <2>2 DEF FreeListExact
  <2>3. CASE i - Len(free_list) \in DOMAIN ids /\ free_list'[i] = ids[i - Len(free_list)]
             /\ j - Len(free_list) \in DOMAIN ids /\ free_list'[j] = ids[j - Len(free_list)]
    <3>1. i - Len(free_list) = j - Len(free_list)
      BY <2>3 DEF Inj
    <3> QED
      BY <1>8, <3>1
  <2> QED
    BY <1>6, <1>9, <2>1, <2>2, <2>3
<1>11. /\ in_use \in Nat /\ in_use + Len(free_list) = TotalBlocks
       /\ Len(free_list) + Len(ids) <= TotalBlocks
  BY <1>8, <1>10, PoolBound DEF TypeOK, FreeListExact
<1>12. in_use' \in Nat /\ in_use' + Len(free_list') = TotalBlocks
  <2>1. Len(free_list) \in Nat /\ Len(ids) \in Nat /\ Len(free_list') = Len(free_list) + Len(ids)
    BY <1>8
  <2>2. Len(ids) <= in_use
    BY <1>11, <2>1
  <2>3. in_use' = in_use - Len(ids)
    BY <1>3, <2>2
  <2> QED
    BY <1>11, <2>1, <2>2, <2>3
<1>13. TypeOK'
  <2>1. blocks' \in [Session -> Seq(Block)] /\ token_count' \in [Session -> Nat]
    BY <1>2, <1>3 DEF TypeOK
  <2>2. is_free' \in [Block -> BOOLEAN]
    BY <1>3, Zenon
  <2>3. fault' \in BOOLEAN
    BY <1>3, Zenon
  <2> QED
    BY <1>3, <1>8, <1>12, <2>1, <2>2, <2>3 DEF TypeOK
<1>14. FreeListExact'
  <2>1. \A b \in Block : is_free'[b] <=> \E i \in DOMAIN free_list' : free_list'[i] = b
    <3> SUFFICES ASSUME NEW b \in Block
                 PROVE  is_free'[b] <=> \E i \in DOMAIN free_list' : free_list'[i] = b
      OBVIOUS
    <3>1. is_free'[b] <=> (\E i \in DOMAIN free_list : free_list[i] = b) \/ InIds(b)
      BY <1>3 DEF FreeListExact
    <3>2. ASSUME NEW i \in DOMAIN free_list
          PROVE  i \in DOMAIN free_list' /\ free_list'[i] = free_list[i]
      BY <1>8
    <3>3. ASSUME NEW i \in DOMAIN ids
          PROVE  /\ i + Len(free_list) \in DOMAIN free_list'
                 /\ free_list'[i + Len(free_list)] = ids[i]
      BY <1>8
    <3>4. ASSUME NEW i \in DOMAIN free_list'
          PROVE  (\E j \in DOMAIN free_list : free_list[j] = free_list'[i]) \/ InIds(free_list'[i])
      <4>1. CASE i <= Len(free_list)
        <5>1. i \in DOMAIN free_list /\ free_list'[i] = free_list[i]
          BY <1>8, <4>1
        <5> QED
          BY <5>1
      <4>2. CASE ~(i <= Len(free_list))
        <5>1. i - Len(free_list) \in DOMAIN ids /\ free_list'[i] = ids[i - Len(free_list)]
          BY <1>8, <4>2
        <5> QED
          BY <5>1
      <4> QED
        BY <4>1, <4>2
    <3> QED
      BY <3>1, <3>2, <3>3, <3>4
  <2> QED
    BY <1>10, <1>12, <2>1 DEF FreeListExact, Inj
<1>15. NoSharing'
  BY <1>5 DEF NoSharing
<1>16. OwnedIffAllocated'
  <2> SUFFICES ASSUME NEW b \in Block
               PROVE  ~is_free'[b] <=>
                         \E t \in Session : \E i \in DOMAIN blocks'[t] : blocks'[t][i] = b
    BY DEF OwnedIffAllocated
  <2>1. ~is_free'[b] <=> ~is_free[b] /\ ~InIds(b)
    BY <1>3
  <2>2. ASSUME NEW t \in Session, NEW i \in DOMAIN blocks'[t], blocks'[t][i] = b
        PROVE  ~is_free[b] /\ ~InIds(b)
    <3>1. i \in DOMAIN blocks[t] /\ blocks[t][i] = b /\ (t = s => i <= keep)
      BY <1>5, <2>2
    <3>2. ~is_free[b]
      BY <3>1 DEF OwnedIffAllocated
    <3>3. ASSUME InIds(b) PROVE FALSE
      <4>1. PICK j \in (keep + 1)..n : blocks[s][j] = b
        BY <3>3
      <4>2. j \in DOMAIN blocks[s] /\ j > keep
        BY <1>1, <4>1
      <4>3. t = s /\ i = j
        BY <3>1, <4>1, <4>2 DEF NoSharing
      <4> QED
        BY <1>1, <3>1, <4>2, <4>3
    <3> QED
      BY <3>2, <3>3
  <2>3. ASSUME ~is_free[b], ~InIds(b)
        PROVE  \E t \in Session : \E i \in DOMAIN blocks'[t] : blocks'[t][i] = b
    <3>0. PICK t \in Session : \E i \in DOMAIN blocks[t] : blocks[t][i] = b
      BY <2>3 DEF OwnedIffAllocated
    <3>1. PICK i \in DOMAIN blocks[t] : blocks[t][i] = b
      BY <3>0
    <3>2. CASE t # s
      BY <1>4, <3>1, <3>2
    <3>3. CASE t = s
      <4>1. i \in 1..n /\ i \notin (keep + 1)..n
        BY <1>1, <2>3, <3>1, <3>3
      <4>2. i \in 1..keep
        BY <1>1, <4>1
      <4> QED
        BY <1>2, <1>4, <3>1, <3>3, <4>2
    <3> QED
      BY <3>2, <3>3
  <2> QED
    BY <2>1, <2>2, <2>3
<1>17. TablesFit'
  <2> SUFFICES ASSUME NEW t \in Session
               PROVE  /\ token_count'[t] <= Len(blocks'[t]) * TokensPerBlock
                      /\ Len(blocks'[t]) * TokensPerBlock < token_count'[t] + TokensPerBlock
    BY DEF TablesFit
  <2>1. CASE t # s
    BY <1>4, <2>1 DEF TablesFit, TypeOK
  <2>2. CASE t = s
    <3>1. token_count'[s] = m /\ Len(blocks'[s]) = keep
      BY <1>2, <1>4 DEF TypeOK
    <3> QED
      BY <2>2, <3>1
  <2> QED
    BY <2>1, <2>2
<1>18. NoFault'
  BY <1>3, <1>7 DEF NoFault
<1> QED
  BY <1>13, <1>14, <1>15, <1>16, <1>17, <1>18

(* What truncate_tokens pops for k positions less than the present ones.   *)
LEMMA PoppedFacts ==
  ASSUME IInv, NEW s \in Session, NEW k \in 0..(token_count[s] - 1)
  PROVE  LET n == Len(blocks[s])
             keep == KeepBlocks(k)
             ids == Popped(s, keep)
         IN  /\ n \in Nat /\ keep \in 0..n
             /\ ids \in Seq(Block) /\ DOMAIN ids = 1..(n - keep) /\ Len(ids) = n - keep
             /\ \A i \in 1..(n - keep) : ids[i] = blocks[s][n - i + 1]
<1> DEFINE n == Len(blocks[s])
           keep == KeepBlocks(k)
           ids == Popped(s, keep)
<1>1. /\ blocks[s] \in Seq(Block) /\ n \in Nat
      /\ \A i \in 1..n : blocks[s][i] \in Block
      /\ token_count[s] \in Nat /\ k \in Nat
  BY LenProperties, ElementOfSeq DEF IInv, TypeOK
<1>2. keep \in Nat /\ keep * TokensPerBlock < k + TokensPerBlock
  BY <1>1, KeepBlocksIsCeiling
<1>3. k < n * TokensPerBlock
  <2>1. token_count[s] <= n * TokensPerBlock
    BY DEF IInv, TablesFit
  <2>2. n * TokensPerBlock \in Int
    BY <1>1, SizeAssumption
  <2> HIDE DEF n
  <2> QED
    BY <1>1, <2>1, <2>2
<1>4. keep <= n
  BY <1>1, <1>2, <1>3, SizeAssumption, CeilingLeast
<1>5. n - keep \in Nat /\ \A i \in 1..(n - keep) : n - i + 1 \in 1..n
  BY <1>1, <1>2, <1>4
<1>6. ids \in [1..(n - keep) -> Block]
  BY <1>1, <1>5 DEF Popped
<1>7. ids \in Seq(Block) /\ DOMAIN ids = 1..(n - keep) /\ Len(ids) = n - keep
  BY <1>5, <1>6, SeqOfFunction
<1>8. \A i \in 1..(n - keep) : ids[i] = blocks[s][n - i + 1]
  BY DEF Popped
<1>9. keep \in 0..n
  <2> HIDE DEF keep, n
  <2> QED
    BY <1>1, <1>2, <1>4
<1> QED
  BY <1>1, <1>7, <1>8, <1>9

(* truncate_tokens gives the suffix of the table back, last block first.   *)
LEMMA TruncateTokensIInv ==
  ASSUME IInv, NEW s \in Session, NEW k \in 0..(token_count[s] - 1), TruncateTokens(s, k)
  PROVE  IInv'
<1> DEFINE n == Len(blocks[s])
           keep == KeepBlocks(k)
           ids == Popped(s, keep)
<1>1. /\ k \in Nat
      /\ \A i, j \in 1..n : blocks[s][i] = blocks[s][j] => i = j
  BY LenProperties DEF IInv, TypeOK, NoSharing
<1>2. /\ keep \in Nat /\ k <= keep * TokensPerBlock
      /\ keep * TokensPerBlock < k + TokensPerBlock
  BY <1>1, KeepBlocksIsCeiling
<1>3. /\ n \in Nat /\ keep \in 0..n
      /\ ids \in Seq(Block) /\ DOMAIN ids = 1..(n - keep)
      /\ \A i \in 1..(n - keep) : ids[i] = blocks[s][n - i + 1]
  BY PoppedFacts
<1>4. \A i \in 1..(n - keep) : n - i + 1 \in (keep + 1)..n /\ n - i + 1 \in 1..n
  BY <1>3
<1>5. Inj(ids)
  <2> SUFFICES ASSUME NEW i \in 1..(n - keep), NEW j \in 1..(n - keep), ids[i] = ids[j]
               PROVE  i = j
    BY <1>3 DEF Inj
  <2>1. n - i + 1 = n - j + 1
    BY <1>1, <1>3, <1>4
  <2> QED
    BY <1>3, <2>1
<1>6. \A b : (\E i \in DOMAIN ids : ids[i] = b)
              <=> \E i \in (keep + 1)..n : blocks[s][i] = b
  <2>1. ASSUME NEW i \in DOMAIN ids
        PROVE  \E j \in (keep + 1)..n : blocks[s][j] = ids[i]
    BY <1>3, <1>4
  <2>2. ASSUME NEW j \in (keep + 1)..n
        PROVE  \E i \in DOMAIN ids : ids[i] = blocks[s][j]
    <3>1. n - j + 1 \in 1..(n - keep) /\ n - (n - j + 1) + 1 = j
      <4>1. n \in Int /\ keep \in Int /\ j \in Int /\ keep + 1 <= j /\ j <= n
        BY <1>3
      <4> HIDE DEF n, keep
      <4> QED
        BY <4>1
    <3> QED
      BY <1>3, <3>1
  <2> QED
    BY <2>1, <2>2
<1>7. GiveBack(s, keep, ids) /\ token_count' = [token_count EXCEPT ![s] = k]
  BY DEF TruncateTokens, GiveBack
<1> HIDE DEF keep, ids
<1> QED
  BY <1>1, <1>2, <1>3, <1>5, <1>6, <1>7, GiveBackIInv

(* free_all gives the whole table back.                                    *)
LEMMA FreeAllIInv ==
  ASSUME IInv, NEW s \in Session, FreeAll(s)
  PROVE  IInv'
<1> DEFINE ids == blocks[s]
           n == Len(blocks[s])
<1>1. /\ ids \in Seq(Block) /\ n \in Nat /\ DOMAIN ids = 1..n
      /\ Inj(ids)
  BY LenProperties DEF IInv, TypeOK, NoSharing, Inj
<1>2. SubSeq(blocks[s], 1, 0) = << >>
  BY SubSeqEmpty
<1>3. GiveBack(s, 0, ids)
  BY <1>2 DEF FreeAll, GiveBack
<1>4. token_count' = [token_count EXCEPT ![s] = 0]
  BY DEF FreeAll
<1>5. 0 \in 0..n /\ 0 <= 0 * TokensPerBlock /\ 0 * TokensPerBlock < 0 + TokensPerBlock
  BY <1>1, SizeAssumption
<1>6. \A b : (\E i \in DOMAIN ids : ids[i] = b) <=> \E i \in (0 + 1)..n : blocks[s][i] = b
  BY <1>1
<1> HIDE DEF ids
<1> QED
  BY <1>1, <1>3, <1>4, <1>5, <1>6, GiveBackIInv

(* Every call of the cache preserves the invariant.                        *)
LEMMA NextIInv == IInv /\ [Next]_vars => IInv'
<1> SUFFICES ASSUME IInv, [Next]_vars PROVE IInv'
  OBVIOUS
<1>1. CASE UNCHANGED vars
  BY <1>1 DEF IInv, TypeOK, FreeListExact, NoSharing, OwnedIffAllocated, TablesFit, NoFault, vars
<1>2. ASSUME NEW s \in Session, AppendInPlace(s) PROVE IInv'
  BY <1>2, AppendInPlaceIInv
<1>3. ASSUME NEW s \in Session, AppendNewBlock(s) PROVE IInv'
  BY <1>3, AppendNewBlockIInv
<1>4. ASSUME NEW s \in Session, NEW pos \in 0..(token_count[s] - 1), NEW e \in Entry,
             WriteToken(s, pos, e)
      PROVE  IInv'
  BY <1>4, WriteTokenIInv
<1>5. ASSUME NEW s \in Session, NEW n \in 0..(token_count[s] - 1), TruncateTokens(s, n)
      PROVE  IInv'
  BY <1>5, TruncateTokensIInv
<1>6. ASSUME NEW s \in Session, FreeAll(s) PROVE IInv'
  BY <1>6, FreeAllIInv
<1> QED
  BY <1>1, <1>2, <1>3, <1>4, <1>5, <1>6 DEF Next

-----------------------------------------------------------------------------
(* The invariant holds in every reachable state, of any instance.          *)
THEOREM Invariant == Spec => []IInv
<1>1. Init => IInv
  BY InitIInv
<1>2. IInv /\ [Next]_vars => IInv'
  BY NextIInv
<1> QED
  BY <1>1, <1>2, PTL DEF Spec

(* Type correctness: allocator, page tables and slab keep their types.     *)
THEOREM TypeCorrect == Spec => []TypeOK
<1>1. IInv => TypeOK
  BY DEF IInv
<1> QED
  BY <1>1, Invariant, PTL

(* Isolation: alloc and free never put one block into two places of the    *)
(* page tables, whatever sequence of appends, truncations and cancelled    *)
(* sessions went before.                                                   *)
THEOREM Isolation == Spec => []NoSharing
<1>1. IInv => NoSharing
  BY DEF IInv
<1> QED
  BY <1>1, Invariant, PTL

(* No leak and no dangling table entry: a block is allocated exactly while *)
(* some page table has it.                                                 *)
THEOREM NoLeak == Spec => []OwnedIffAllocated
<1>1. IInv => OwnedIffAllocated
  BY DEF IInv
<1> QED
  BY <1>1, Invariant, PTL

(* The allocator's redundant state agrees with itself: free list, flags    *)
(* and counter.                                                            *)
THEOREM AllocatorConsistent == Spec => []FreeListExact
<1>1. IInv => FreeListExact
  BY DEF IInv
<1> QED
  BY <1>1, Invariant, PTL

(* A table has as many blocks as its tokens need, so the position of every *)
(* token lies in a block of the table.                                     *)
THEOREM TablesExact == Spec => []TablesFit
<1>1. IInv => TablesFit
  BY DEF IInv
<1> QED
  BY <1>1, Invariant, PTL

(* free() never answers DoubleFree or InvalidBlockId to a page table.      *)
THEOREM FreeNeverRefuses == Spec => []NoFault
<1>1. IInv => NoFault
  BY DEF IInv
<1> QED
  BY <1>1, Invariant, PTL

-----------------------------------------------------------------------------
(* The contract of KvStore                                                 *)

(* A quotient is the only number between its bounds.                       *)
LEMMA DivUnique ==
  ASSUME NEW n \in Nat, NEW d \in Nat \ {0}, NEW q \in Nat,
         q * d <= n, n < q * d + d
  PROVE  n \div d = q
<1> DEFINE r == n \div d
<1>1. r \in Nat /\ r * d <= n /\ n < r * d + d
  BY DivFacts
<1>2. r * d \in Nat /\ q * d \in Nat /\ (r + 1) * d = r * d + d /\ (q + 1) * d = q * d + d
  BY <1>1, OneMoreBlock
<1> HIDE DEF r
<1>3. ASSUME r < q PROVE FALSE
  <2>1. (r + 1) * d <= q * d
    BY <1>1, <1>3
  <2> QED
    BY <1>1, <1>2, <2>1
<1>4. ASSUME q < r PROVE FALSE
  <2>1. (q + 1) * d <= r * d
    BY <1>1, <1>4
  <2> QED
    BY <1>1, <1>2, <2>1
<1> QED
  BY <1>1, <1>3, <1>4 DEF r

(* A table has exactly the blocks that KvStore charges for its tokens.     *)
LEMMA ChargedBlocks ==
  ASSUME IInv, NEW s \in Session
  PROVE  Store!BlocksFor(token_count[s]) = Len(blocks[s])
<1> DEFINE n == token_count[s]
           k == Len(blocks[s])
<1>1. n \in Nat /\ k \in Nat /\ n <= k * TokensPerBlock
      /\ k * TokensPerBlock < n + TokensPerBlock
  BY LenProperties DEF IInv, TypeOK, TablesFit
<1>2. k * TokensPerBlock \in Nat /\ n + TokensPerBlock - 1 \in Nat
  BY <1>1, SizeAssumption
<1> HIDE DEF n, k
<1>3. k * TokensPerBlock <= n + TokensPerBlock - 1
      /\ n + TokensPerBlock - 1 < k * TokensPerBlock + TokensPerBlock
  BY <1>1, <1>2, SizeAssumption
<1>4. (n + TokensPerBlock - 1) \div TokensPerBlock = k
  BY <1>1, <1>2, <1>3, SizeAssumption, DivUnique
<1> QED
  BY <1>4 DEF Store!BlocksFor, n, k

(* Where the position of a token lies.                                     *)
LEMMA PositionFacts ==
  ASSUME IInv, NEW s \in Session, NEW p \in 0..(token_count[s] - 1)
  PROVE  /\ (p \div TokensPerBlock) + 1 \in DOMAIN blocks[s]
         /\ BlockForToken(s, p) \in Block
         /\ OffsetInBlock(p) \in Offset
<1> DEFINE n == token_count[s]
           k == Len(blocks[s])
           i == p \div TokensPerBlock
<1>1. n \in Nat /\ k \in Nat /\ n <= k * TokensPerBlock /\ blocks[s] \in Seq(Block)
      /\ DOMAIN blocks[s] = 1..k
  BY LenProperties DEF IInv, TypeOK, TablesFit
<1>2. p \in Nat /\ p < n
  BY <1>1
<1>3. i \in Nat /\ i * TokensPerBlock <= p
  BY <1>2, SizeAssumption, DivFacts
<1>4. i + 1 <= k
  <2>1. i * TokensPerBlock \in Nat /\ k * TokensPerBlock \in Nat
    BY <1>1, <1>3, SizeAssumption
  <2> HIDE DEF n, k, i
  <2>2. i * TokensPerBlock < k * TokensPerBlock
    BY <1>1, <1>2, <1>3, <2>1
  <2> SUFFICES ASSUME k <= i PROVE FALSE
    BY <1>1, <1>3
  <2>3. k * TokensPerBlock <= i * TokensPerBlock
    BY <1>1, <1>3, SizeAssumption
  <2> QED
    BY <2>1, <2>2, <2>3
<1>5. i + 1 \in 1..k
  BY <1>1, <1>3, <1>4
<1>6. blocks[s][i + 1] \in Block
  BY <1>1, <1>5, ElementOfSeq
<1>7. p % TokensPerBlock \in 0..(TokensPerBlock - 1)
  BY <1>2, SizeAssumption
<1> QED
  BY <1>1, <1>5, <1>6, <1>7 DEF BlockForToken, OffsetInBlock, Offset

(* The entries a session sees are a sequence of token_count[s] entries.    *)
LEMMA LogicalIsSeq ==
  ASSUME IInv, NEW s \in Session
  PROVE  /\ Logical(s) \in Seq(Entry \cup {Blank})
         /\ Len(Logical(s)) = token_count[s]
         /\ DOMAIN Logical(s) = 1..token_count[s]
<1>1. token_count[s] \in Nat
  BY DEF IInv, TypeOK
<1>2. Logical(s) \in [1..token_count[s] -> Entry \cup {Blank}]
  <2> SUFFICES ASSUME NEW p \in 1..token_count[s]
               PROVE  slab[BlockForToken(s, p - 1)][OffsetInBlock(p - 1)] \in Entry \cup {Blank}
    BY DEF Logical
  <2>1. p - 1 \in 0..(token_count[s] - 1)
    BY <1>1
  <2>2. BlockForToken(s, p - 1) \in Block /\ OffsetInBlock(p - 1) \in Offset
    BY <2>1, PositionFacts
  <2> QED
    BY <2>2 DEF IInv, TypeOK
<1> QED
  BY <1>1, <1>2, SeqOfFunction

(* The same of the next state.                                             *)
LEMMA NextStateFacts ==
  IInv' => \A s \in Session : /\ Len(Logical(s)') = token_count'[s]
                              /\ DOMAIN Logical(s)' = 1..token_count'[s]
                              /\ Store!BlocksFor(token_count'[s]) = Len(blocks'[s])
<1>1. IInv => \A s \in Session : /\ Len(Logical(s)) = token_count[s]
                                 /\ DOMAIN Logical(s) = 1..token_count[s]
                                 /\ Store!BlocksFor(token_count[s]) = Len(blocks[s])
  BY LogicalIsSeq, ChargedBlocks
<1>2. (IInv => \A s \in Session : /\ Len(Logical(s)) = token_count[s]
                                  /\ DOMAIN Logical(s) = 1..token_count[s]
                                  /\ Store!BlocksFor(token_count[s]) = Len(blocks[s]))'
  BY <1>1, PTL
<1> QED
  BY <1>2 DEF Store!BlocksFor

(***************************************************************************)
(* A step of session s is an update of s in the store: the other sessions  *)
(* see what they saw, and the free list pays for the blocks of s.          *)
(***************************************************************************)
LEMMA StoreUpdate ==
  ASSUME IInv, IInv', NEW s \in Session,
         \A t \in Session \ {s} : Logical(t)' = Logical(t),
         Len(free_list') = Len(free_list) + Len(blocks[s]) - Len(blocks'[s])
  PROVE  Store!Update(s)
<1>1. Len(Logical(s)) = token_count[s] /\ Store!BlocksFor(token_count[s]) = Len(blocks[s])
  BY LogicalIsSeq, ChargedBlocks
<1>2. Len(Logical(s)') = token_count'[s] /\ Store!BlocksFor(token_count'[s]) = Len(blocks'[s])
  BY NextStateFacts
<1>3. Len(free_list') \in 0..TotalBlocks
  <2> DEFINE f == Len(free_list')
             u == in_use'
  <2>1. free_list' \in Seq(Block) /\ u \in Nat /\ u + f = TotalBlocks
    BY DEF IInv, TypeOK, FreeListExact
  <2>2. f \in Nat
    BY <2>1, LenProperties
  <2> HIDE DEF f, u
  <2>3. f <= TotalBlocks
    BY <2>1, <2>2, SizeAssumption
  <2> QED
    BY <2>2, <2>3, SizeAssumption DEF f
<1> QED
  BY <1>1, <1>2, <1>3 DEF Store!Update

(* A session whose table and count stay, in a slab that stays, sees the same. *)
LEMMA SameTable ==
  ASSUME NEW t \in Session, blocks'[t] = blocks[t], token_count'[t] = token_count[t],
         slab' = slab
  PROVE  Logical(t)' = Logical(t)
  BY DEF Logical, BlockForToken

(* append_token inside the last block shows one more position of s.        *)
LEMMA AppendInPlaceUpdates ==
  ASSUME IInv, IInv', NEW s \in Session, AppendInPlace(s)
  PROVE  Store!Update(s)
<1>1. \A t \in Session \ {s} : Logical(t)' = Logical(t)
  BY SameTable DEF AppendInPlace, IInv, TypeOK
<1>2. Len(free_list') = Len(free_list) + Len(blocks[s]) - Len(blocks'[s])
  <2>1. Len(free_list) \in Nat /\ Len(blocks[s]) \in Nat
    BY LenProperties DEF IInv, TypeOK
  <2> QED
    BY <2>1 DEF AppendInPlace
<1> QED
  BY <1>1, <1>2, StoreUpdate

(* append_token across a boundary shows one more position of s.            *)
LEMMA AppendNewBlockUpdates ==
  ASSUME IInv, IInv', NEW s \in Session, AppendNewBlock(s)
  PROVE  Store!Update(s)
<1>1. \A t \in Session \ {s} : Logical(t)' = Logical(t)
  BY SameTable DEF AppendNewBlock, IInv, TypeOK
<1>2. /\ Len(free_list) \in Nat /\ Len(blocks[s]) \in Nat
      /\ blocks[s] \in Seq(Block) /\ free_list \in Seq(Block) /\ free_list # << >>
  BY LenProperties DEF IInv, TypeOK, AppendNewBlock, Alloc
<1>3. Len(free_list') = Len(free_list) - 1 /\ Head(free_list) \in Block
  BY <1>2, HeadTailProperties DEF AppendNewBlock, Alloc
<1>4. blocks'[s] = Append(blocks[s], Head(free_list))
  BY DEF AppendNewBlock, IInv, TypeOK
<1>5. Len(blocks'[s]) = Len(blocks[s]) + 1
  BY <1>2, <1>3, <1>4, AppendProperties
<1>6. Len(free_list') = Len(free_list) + Len(blocks[s]) - Len(blocks'[s])
  BY <1>2, <1>3, <1>5
<1> QED
  BY <1>1, <1>6, StoreUpdate

(* The block a session writes to is in no other session's table.           *)
LEMMA WriteTokenUpdates ==
  ASSUME IInv, IInv', NEW s \in Session, NEW pos \in 0..(token_count[s] - 1), NEW e \in Entry,
         WriteToken(s, pos, e)
  PROVE  Store!Update(s)
<1> DEFINE b == BlockForToken(s, pos)
<1>1. (pos \div TokensPerBlock) + 1 \in DOMAIN blocks[s]
  BY PositionFacts
<1>2. slab \in [Block -> [Offset -> Entry \cup {Blank}]]
  BY DEF IInv, TypeOK
<1>3. \A c \in Block \ {b} : slab'[c] = slab[c]
  BY <1>2 DEF WriteToken
<1>4. ASSUME NEW t \in Session \ {s}
      PROVE  Logical(t)' = Logical(t)
  <2>1. ASSUME NEW p \in 1..token_count[t]
        PROVE  slab'[BlockForToken(t, p - 1)] = slab[BlockForToken(t, p - 1)]
    <3>1. p - 1 \in 0..(token_count[t] - 1)
      BY DEF IInv, TypeOK
    <3>2. /\ ((p - 1) \div TokensPerBlock) + 1 \in DOMAIN blocks[t]
          /\ BlockForToken(t, p - 1) \in Block
      BY <3>1, PositionFacts
    <3>3. BlockForToken(t, p - 1) # b
      BY <1>1, <3>2 DEF IInv, NoSharing, BlockForToken
    <3> QED
      BY <1>3, <3>2, <3>3
  <2> QED
    BY <2>1 DEF Logical, BlockForToken, WriteToken
<1>5. Len(free_list') = Len(free_list) + Len(blocks[s]) - Len(blocks'[s])
  <2>1. Len(free_list) \in Nat /\ Len(blocks[s]) \in Nat
    BY LenProperties DEF IInv, TypeOK
  <2> QED
    BY <2>1 DEF WriteToken
<1> QED
  BY <1>4, <1>5, StoreUpdate

(* truncate_tokens and free_all: the other tables are left alone.          *)
LEMMA GiveBackUpdates ==
  ASSUME IInv, IInv', NEW s \in Session, NEW keep \in 0..Len(blocks[s]),
         NEW ids \in Seq(Block), Len(ids) = Len(blocks[s]) - keep,
         GiveBack(s, keep, ids),
         \A t \in Session \ {s} : token_count'[t] = token_count[t]
  PROVE  Store!Update(s)
<1>1. \A t \in Session \ {s} : Logical(t)' = Logical(t)
  BY SameTable DEF GiveBack, IInv, TypeOK
<1>2. /\ blocks[s] \in Seq(Block) /\ free_list \in Seq(Block)
      /\ Len(free_list) \in Nat /\ Len(blocks[s]) \in Nat
  BY LenProperties DEF IInv, TypeOK
<1>3. Len(free_list') = Len(free_list) + Len(ids)
  BY <1>2, ConcatProperties DEF GiveBack, FreeAllOf
<1>4. Len(blocks'[s]) = keep
  <2>1. \A i \in 1..keep : blocks[s][i] \in Block
    BY <1>2, ElementOfSeq
  <2>2. Len(SubSeq(blocks[s], 1, keep)) = IF 1 <= keep THEN keep - 1 + 1 ELSE 0
    BY <1>2, <2>1, SubSeqProperties
  <2>3. blocks'[s] = SubSeq(blocks[s], 1, keep)
    BY DEF GiveBack, IInv, TypeOK
  <2> QED
    BY <1>2, <2>2, <2>3
<1>5. Len(free_list') = Len(free_list) + Len(blocks[s]) - Len(blocks'[s])
  BY <1>2, <1>3, <1>4
<1> QED
  BY <1>1, <1>5, StoreUpdate

(* truncate_tokens shows a shorter sequence of s.                          *)
LEMMA TruncateTokensUpdates ==
  ASSUME IInv, IInv', NEW s \in Session, NEW k \in 0..(token_count[s] - 1),
         TruncateTokens(s, k)
  PROVE  Store!Update(s)
<1> DEFINE keep == KeepBlocks(k)
           ids == Popped(s, keep)
<1>1. keep \in 0..Len(blocks[s]) /\ ids \in Seq(Block) /\ Len(ids) = Len(blocks[s]) - keep
  BY PoppedFacts
<1>2. GiveBack(s, keep, ids) /\ \A t \in Session \ {s} : token_count'[t] = token_count[t]
  BY DEF TruncateTokens, GiveBack, IInv, TypeOK
<1> HIDE DEF keep, ids
<1> QED
  BY <1>1, <1>2, GiveBackUpdates

(* free_all shows the empty sequence of s.                                 *)
LEMMA FreeAllUpdates ==
  ASSUME IInv, IInv', NEW s \in Session, FreeAll(s)
  PROVE  Store!Update(s)
<1> DEFINE ids == blocks[s]
<1>1. ids \in Seq(Block) /\ Len(ids) \in Nat /\ Len(ids) = Len(blocks[s]) - 0
      /\ 0 \in 0..Len(blocks[s])
  BY LenProperties DEF IInv, TypeOK
<1>2. GiveBack(s, 0, ids)
  <2>1. SubSeq(blocks[s], 1, 0) = << >>
    BY SubSeqEmpty
  <2> QED
    BY <2>1 DEF FreeAll, GiveBack
<1>3. \A t \in Session \ {s} : token_count'[t] = token_count[t]
  BY DEF FreeAll, IInv, TypeOK
<1> HIDE DEF ids
<1> QED
  BY <1>1, <1>2, <1>3, GiveBackUpdates

(* Every step of the cache is a step of the store, or changes nothing it   *)
(* shows.                                                                  *)
LEMMA StoreStep == IInv /\ IInv' /\ [Next]_vars => [Store!Next]_Store!vars
<1> SUFFICES ASSUME IInv, IInv', [Next]_vars PROVE [Store!Next]_Store!vars
  OBVIOUS
<1>1. CASE UNCHANGED vars
  <2>1. \A s \in Session : Logical(s)' = Logical(s)
    BY <1>1 DEF Logical, BlockForToken, vars
  <2>2. [s \in Session |-> Logical(s)]' = [s \in Session |-> Logical(s)]
    BY <2>1
  <2> QED
    BY <1>1, <2>2 DEF Store!vars, vars
<1>2. ASSUME NEW s \in Session, Store!Update(s) PROVE Store!Next
  BY <1>2 DEF Store!Next
<1>3. ASSUME NEW s \in Session, AppendInPlace(s) PROVE Store!Next
  BY <1>2, <1>3, AppendInPlaceUpdates
<1>4. ASSUME NEW s \in Session, AppendNewBlock(s) PROVE Store!Next
  BY <1>2, <1>4, AppendNewBlockUpdates
<1>5. ASSUME NEW s \in Session, NEW pos \in 0..(token_count[s] - 1), NEW e \in Entry,
             WriteToken(s, pos, e)
      PROVE  Store!Next
  BY <1>2, <1>5, WriteTokenUpdates
<1>6. ASSUME NEW s \in Session, NEW n \in 0..(token_count[s] - 1), TruncateTokens(s, n)
      PROVE  Store!Next
  BY <1>2, <1>6, TruncateTokensUpdates
<1>7. ASSUME NEW s \in Session, FreeAll(s) PROVE Store!Next
  BY <1>2, <1>7, FreeAllUpdates
<1> QED
  BY <1>1, <1>3, <1>4, <1>5, <1>6, <1>7 DEF Next

(* An empty cache shows an empty store.                                    *)
LEMMA StoreInit == Init => Store!Init
<1> SUFFICES ASSUME Init PROVE Store!Init
  OBVIOUS
<1>1. IInv
  BY InitIInv
<1>2. \A s \in Session : Logical(s) = << >>
  <2> SUFFICES ASSUME NEW s \in Session PROVE Logical(s) = << >>
    OBVIOUS
  <2>1. Logical(s) \in Seq(Entry \cup {Blank}) /\ Len(Logical(s)) = 0
    BY <1>1, LogicalIsSeq DEF Init
  <2> QED
    BY <2>1, EmptySeq
<1>3. Len(free_list) = TotalBlocks
  <2>1. free_list \in [1..TotalBlocks -> Block]
    BY SizeAssumption DEF Init, AllocatorInit, Block
  <2> QED
    BY <2>1, SizeAssumption, SeqOfFunction
<1> QED
  BY <1>2, <1>3 DEF Store!Init

-----------------------------------------------------------------------------
(* The paged cache implements the store: every session has a sequence of   *)
(* entries that only its own calls change, and the free count pays for the *)
(* positions held, for any sessions, pool and block size.                  *)
THEOREM ImplementsStore == Spec => KeepsStoreContract
<1>1. Init => Store!Init
  BY StoreInit
<1>2. IInv /\ IInv' /\ [Next]_vars => [Store!Next]_Store!vars
  BY StoreStep
<1> QED
  BY <1>1, <1>2, Invariant, PTL DEF Spec, KeepsStoreContract, Store!Spec

-----------------------------------------------------------------------------
(* A step leaves the common part of a table as it was: blocks come and go  *)
(* at its end.                                                             *)
LEMMA TablesGrowAtEnd ==
  ASSUME IInv, [Next]_vars, NEW s \in Session,
         NEW i \in DOMAIN blocks[s], i \in DOMAIN blocks'[s]
  PROVE  blocks'[s][i] = blocks[s][i]
<1>1. /\ blocks \in [Session -> Seq(Block)] /\ blocks[s] \in Seq(Block)
      /\ Len(blocks[s]) \in Nat /\ i \in 1..Len(blocks[s])
  BY LenProperties DEF IInv, TypeOK
<1>2. CASE UNCHANGED vars
  BY <1>2 DEF vars
<1>3. ASSUME NEW t \in Session, AppendInPlace(t) PROVE blocks'[s][i] = blocks[s][i]
  BY <1>3 DEF AppendInPlace
<1>4. ASSUME NEW t \in Session, AppendNewBlock(t) PROVE blocks'[s][i] = blocks[s][i]
  <2>1. Head(free_list) \in Block
    BY <1>4, HeadTailProperties DEF IInv, TypeOK, AppendNewBlock, Alloc
  <2>2. Append(blocks[s], Head(free_list))[i] = blocks[s][i]
    BY <1>1, <2>1, AppendProperties
  <2> QED
    BY <1>1, <1>4, <2>2 DEF AppendNewBlock
<1>5. ASSUME NEW t \in Session, NEW pos \in 0..(token_count[t] - 1), NEW e \in Entry,
             WriteToken(t, pos, e)
      PROVE  blocks'[s][i] = blocks[s][i]
  BY <1>5 DEF WriteToken
<1>6. ASSUME NEW t \in Session, NEW n \in 0..(token_count[t] - 1), TruncateTokens(t, n)
      PROVE  blocks'[s][i] = blocks[s][i]
  <2>1. CASE s # t
    BY <1>1, <1>6, <2>1 DEF TruncateTokens
  <2>2. CASE s = t
    <3> DEFINE keep == KeepBlocks(n)
    <3>1. keep \in 0..Len(blocks[s])
      BY <2>2, PoppedFacts
    <3>2. blocks'[s] = SubSeq(blocks[s], 1, keep)
      BY <1>1, <1>6, <2>2 DEF TruncateTokens
    <3>3. \A j \in 1..keep : blocks[s][j] \in Block
      BY <1>1, <3>1, ElementOfSeq
    <3> HIDE DEF keep
    <3>4. /\ SubSeq(blocks[s], 1, keep) \in Seq(Block)
          /\ Len(SubSeq(blocks[s], 1, keep)) = IF 1 <= keep THEN keep - 1 + 1 ELSE 0
          /\ \A j \in 1..(keep - 1 + 1) : SubSeq(blocks[s], 1, keep)[j] = blocks[s][1 + j - 1]
      BY <1>1, <3>1, <3>3, SubSeqProperties
    <3>5. i \in 1..keep
      BY <1>1, <3>1, <3>2, <3>4, LenProperties
    <3> QED
      BY <1>1, <3>1, <3>2, <3>4, <3>5
  <2> QED
    BY <2>1, <2>2
<1>7. ASSUME NEW t \in Session, FreeAll(t) PROVE blocks'[s][i] = blocks[s][i]
  <2>1. CASE s # t
    BY <1>1, <1>7, <2>1 DEF FreeAll
  <2>2. CASE s = t
    BY <1>1, <1>7, <2>2 DEF FreeAll
  <2> QED
    BY <2>1, <2>2
<1> QED
  BY <1>2, <1>3, <1>4, <1>5, <1>6, <1>7 DEF Next

(* Positions of the next state lie in the next state's tables.             *)
LEMMA NextPositions ==
  IInv' => \A s \in Session : \A p \in 0..(token_count'[s] - 1) :
             (p \div TokensPerBlock) + 1 \in DOMAIN blocks'[s]
<1>1. IInv => \A s \in Session : \A p \in 0..(token_count[s] - 1) :
                (p \div TokensPerBlock) + 1 \in DOMAIN blocks[s]
  BY PositionFacts
<1>2. (IInv => \A s \in Session : \A p \in 0..(token_count[s] - 1) :
                 (p \div TokensPerBlock) + 1 \in DOMAIN blocks[s])'
  BY <1>1, PTL
<1> QED
  BY <1>2

(* Every step keeps the entries of the positions a session keeps.         *)
LEMMA StepKeepsEntries ==
  ASSUME IInv, IInv', [Next]_vars, slab' = slab,
         NEW s \in Session, NEW p \in DOMAIN Logical(s) \cap DOMAIN Logical(s)'
  PROVE  Logical(s)'[p] = Logical(s)[p]
<1> DEFINE i == ((p - 1) \div TokensPerBlock) + 1
<1>1. /\ token_count[s] \in Nat /\ token_count'[s] \in Nat
      /\ p \in 1..token_count[s] /\ p \in 1..token_count'[s]
  BY DEF Logical, IInv, TypeOK
<1>2. p - 1 \in 0..(token_count[s] - 1) /\ p - 1 \in 0..(token_count'[s] - 1)
  BY <1>1
<1>3. i \in DOMAIN blocks[s] /\ i \in DOMAIN blocks'[s]
  BY <1>2, PositionFacts, NextPositions
<1>4. blocks'[s][i] = blocks[s][i]
  BY <1>3, TablesGrowAtEnd
<1> QED
  BY <1>1, <1>4 DEF Logical, BlockForToken

(* Appending, truncating and freeing never alter the entry of a position   *)
(* that a session keeps: attention gathers what was written there.         *)
THEOREM KeptEntries == Spec => KeptPositionsKeepEntries
<1>1. IInv /\ IInv' /\ [Next]_vars =>
        [slab' = slab =>
           \A s \in Session : \A p \in DOMAIN Logical(s) \cap DOMAIN Logical(s)' :
             Logical(s)'[p] = Logical(s)[p]]_vars
  BY StepKeepsEntries
<1> QED
  BY <1>1, Invariant, PTL DEF Spec, KeptPositionsKeepEntries

-----------------------------------------------------------------------------
(***************************************************************************)
(* The fused graphs of the Llama and Gemma runners attend to the session's *)
(* own slots: for every number of sessions, every size of the pool and of  *)
(* its blocks, and every stride.  The test of the fast path (same session, *)
(* exactly the fresh positions missing) is all that protects a buffer that *)
(* outlives rewinds, cancelled sessions and the turns of other sessions.   *)
(***************************************************************************)

(* The driver is at most one position behind the table of a session, and   *)
(* never ahead of it: a failed step leaves a position appended.            *)
Driven ==
  \A s \in alive :
    /\ next_pos[s] <= token_count[s]
    /\ call = None \/ call.session # s => token_count[s] <= next_pos[s] + 1

(* A prefill is of a session that exists, from where its driver stands.    *)
UnderWay ==
  call # None =>
    /\ call.session \in alive
    /\ call.from = next_pos[call.session]
    /\ token_count[call.session] <= call.from + call.tokens

(* The buffer has the slots of the session it was last built for, unless   *)
(* that session was rewound or cancelled since, or the graph is given up.  *)
BasesKept ==
  graph => \A s \in alive :
     last_session = s /\ last_seq <= next_pos[s] =>
        \A t \in 0..(last_seq - 1) : bases[t] = SlotAt(blocks[s], t)

(* The inductive invariant.                                                *)
GraphInv ==
  /\ IInv
  /\ GraphTypeOK
  /\ stride \in Nat /\ last_seq <= stride
  /\ Driven
  /\ UnderWay
  /\ BasesKept
  /\ AttendsOwnSlots

-----------------------------------------------------------------------------
(* The tables                                                              *)

(* A table holds no more positions than the pool.                          *)
LEMMA CountBound ==
  IInv => \A s \in Session : token_count[s] \in 0..MaxSeq
<1> SUFFICES ASSUME IInv, NEW s \in Session PROVE token_count[s] \in 0..MaxSeq
  OBVIOUS
<1> DEFINE k == Len(blocks[s])
<1>1. blocks[s] \in Seq(Block) /\ k \in Nat /\ token_count[s] \in Nat /\ DOMAIN blocks[s] = 1..k
  BY LenProperties DEF IInv, TypeOK
<1>2. token_count[s] <= k * TokensPerBlock
  BY DEF IInv, TablesFit
<1>3. Inj(blocks[s])
  BY DEF IInv, NoSharing, Inj
<1>4. k <= TotalBlocks
  BY <1>1, <1>3, PoolBound
<1>5. k * TokensPerBlock \in Nat /\ MaxSeq \in Nat /\ k * TokensPerBlock <= MaxSeq
  <2> HIDE DEF k
  <2> QED
    BY <1>1, <1>4, SizeAssumption DEF MaxSeq
<1> HIDE DEF k
<1> QED
  BY <1>1, <1>2, <1>5

(* The slot of a position a session has is a slot of the slab.             *)
LEMMA SlotType ==
  IInv => \A s \in Session : \A t \in 0..(token_count[s] - 1) : SlotAt(blocks[s], t) \in Slot
<1> SUFFICES ASSUME IInv, NEW s \in Session, NEW t \in 0..(token_count[s] - 1)
             PROVE  SlotAt(blocks[s], t) \in Slot
  OBVIOUS
<1>1. BlockForToken(s, t) \in Block /\ OffsetInBlock(t) \in Offset
  BY PositionFacts
<1> QED
  BY <1>1 DEF SlotAt, Slot, BlockForToken, OffsetInBlock

(* The same of the next state.                                             *)
LEMMA NextTables ==
  IInv' => \A s \in Session :
             /\ token_count'[s] \in 0..MaxSeq
             /\ \A t \in 0..(token_count'[s] - 1) : SlotAt(blocks'[s], t) \in Slot
<1>1. IInv => \A s \in Session :
                /\ token_count[s] \in 0..MaxSeq
                /\ \A t \in 0..(token_count[s] - 1) : SlotAt(blocks[s], t) \in Slot
  BY CountBound, SlotType
<1>2. (IInv => \A s \in Session :
                 /\ token_count[s] \in 0..MaxSeq
                 /\ \A t \in 0..(token_count[s] - 1) : SlotAt(blocks[s], t) \in Slot)'
  BY <1>1, PTL
<1> QED
  BY <1>2 DEF SlotAt, MaxSeq, Slot, Block, Offset

(* Whatever a step does to the tables, a position a session keeps keeps    *)
(* its slot.                                                               *)
LEMMA SlotsKept ==
  ASSUME IInv, [Next]_vars, NEW s \in Session,
         NEW t \in 0..(token_count[s] - 1), t \in 0..(token_count'[s] - 1)
  PROVE  SlotAt(blocks'[s], t) = SlotAt(blocks[s], t)
<1>1. (t \div TokensPerBlock) + 1 \in DOMAIN blocks[s]
  BY PositionFacts
<1>2. (t \div TokensPerBlock) + 1 \in DOMAIN blocks'[s]
  BY NextIInv, NextPositions
<1> QED
  BY <1>1, <1>2, TablesGrowAtEnd DEF SlotAt

(* append_token adds a position to one table.                              *)
LEMMA AppendOneFacts ==
  ASSUME IInv, NEW s \in Session, AppendOne(s)
  PROVE  /\ [Next]_vars
         /\ token_count'[s] = token_count[s] + 1
         /\ \A u \in Session \ {s} : token_count'[u] = token_count[u]
<1>1. [Next]_vars
  BY DEF AppendOne, Next
<1>2. token_count' = [token_count EXCEPT ![s] = token_count[s] + 1]
  BY DEF AppendOne, AppendInPlace, AppendNewBlock
<1>3. token_count \in [Session -> Nat]
  BY DEF IInv, TypeOK
<1> QED
  BY <1>1, <1>2, <1>3

(* step_inner leaves the session with pos + 1 positions, whether or not it *)
(* had to append one.                                                      *)
LEMMA CoveredFacts ==
  ASSUME IInv, NEW s \in Session, NEW pos \in Nat,
         token_count[s] <= pos + 1, Covered(s, pos)
  PROVE  /\ [Next]_vars
         /\ token_count'[s] = pos + 1
         /\ \A u \in Session \ {s} : token_count'[u] = token_count[u]
<1>1. token_count[s] \in Nat
  BY DEF IInv, TypeOK
<1>2. CASE pos = token_count[s] /\ AppendOne(s)
  BY <1>1, <1>2, AppendOneFacts
<1>3. CASE pos < token_count[s] /\ UNCHANGED vars
  BY <1>1, <1>3 DEF vars
<1> QED
  BY <1>2, <1>3 DEF Covered

-----------------------------------------------------------------------------
(* The buffer                                                              *)

(* There is a stride for every length a table may have.                    *)
LEMMA LargeEnough ==
  ASSUME GraphAssumption, NEW n \in 0..MaxSeq
  PROVE  PowerOfTwoFrom(n) \in Nat /\ PowerOfTwoFrom(n) >= n
<1> DEFINE T == {k \in Strides : k >= n}
<1>1. MinStride \in Nat /\ MaxSeq \in Nat
  BY SizeAssumption DEF GraphAssumption, MaxSeq
<1>2. \A k \in Strides : k \in Nat
  BY <1>1 DEF Strides
<1>3. T \subseteq Nat
  BY <1>2
<1>4. MaxStride \in T
  BY <1>1, <1>2 DEF GraphAssumption
<1>5. PICK k \in T : \A m \in T : k <= m
  <2> HIDE DEF T
  <2> QED
    BY <1>3, <1>4, LeastNatural
<1>6. k \in Strides /\ k >= n /\ \A m \in Strides : m >= n => k <= m
  BY <1>5
<1> QED
  BY <1>2, <1>6 DEF PowerOfTwoFrom

(***************************************************************************)
(* What a refresh leaves: the slots of every position of the session, if   *)
(* the fast path, where it is taken, found the older ones right.           *)
(***************************************************************************)
LEMMA RefreshFacts ==
  ASSUME GraphAssumption, NEW s \in Session, NEW writes, NEW fresh,
         NEW seq \in 0..MaxSeq, seq = token_count'[s],
         stride \in Nat, DOMAIN bases = 0..(stride - 1),
         \A t \in DOMAIN bases : bases[t] \in Slot \cup {None},
         \A t \in 0..(seq - 1) : SlotAt(blocks'[s], t) \in Slot,
         Incremental(s, seq, fresh) =>
           \A t \in 0..(seq - 1) : t \in writes \/ bases[t] = SlotAt(blocks'[s], t),
         RefreshBySession(s, writes, fresh)
  PROVE  /\ stride' \in Nat /\ seq <= stride'
         /\ DOMAIN bases' = 0..(stride' - 1)
         /\ \A t \in DOMAIN bases' : bases'[t] \in Slot \cup {None}
         /\ \A t \in 0..(seq - 1) : bases'[t] = SlotAt(blocks'[s], t)
         /\ last_session' = s /\ last_seq' = seq
<1> DEFINE grown == IF stride < seq THEN PowerOfTwoFrom(seq) ELSE stride
           old == IF stride < seq THEN Blanked(seq) ELSE bases
           keep == Incremental(s, seq, fresh)
<1>1. /\ bases' = [t \in DOMAIN old |->
                     IF t < seq /\ (keep => t \in writes) THEN SlotAt(blocks'[s], t)
                     ELSE old[t]]
      /\ stride' = grown
      /\ last_session' = s /\ last_seq' = seq
  BY DEF RefreshBySession
<1>2. grown \in Nat /\ seq <= grown
  BY LargeEnough, SizeAssumption DEF MaxSeq
<1>3. DOMAIN old = 0..(grown - 1)
  BY DEF Blanked
<1>4. \A t \in DOMAIN old : old[t] \in Slot \cup {None}
  BY DEF Blanked
<1>5. keep => old = bases
  BY SizeAssumption DEF Incremental, MaxSeq
<1> HIDE DEF old, keep, grown
<1>6. ASSUME NEW t \in 0..(seq - 1)
      PROVE  t \in DOMAIN old /\ bases'[t] = SlotAt(blocks'[s], t)
  <2>1. t \in DOMAIN old /\ t < seq
    BY <1>2, <1>3
  <2>2. CASE keep => t \in writes
    BY <1>1, <2>1, <2>2
  <2>3. CASE keep /\ t \notin writes
    <3>1. bases'[t] = old[t]
      BY <1>1, <2>1, <2>3
    <3>2. bases[t] = SlotAt(blocks'[s], t)
      BY <2>3 DEF keep
    <3> QED
      BY <1>5, <2>1, <2>3, <3>1, <3>2
  <2> QED
    BY <2>2, <2>3
<1>7. ASSUME NEW t \in DOMAIN old
      PROVE  bases'[t] \in Slot \cup {None}
  <2>1. t \in 0..(grown - 1) /\ t \in Int
    BY <1>2, <1>3
  <2>2. CASE t < seq
    <3>1. t \in 0..(seq - 1)
      BY <2>1, <2>2
    <3> QED
      BY <1>6, <3>1
  <2>3. CASE ~ (t < seq)
    BY <1>1, <1>4, <2>3
  <2> QED
    BY <2>2, <2>3
<1>8. DOMAIN bases' = DOMAIN old
  BY <1>1
<1> QED
  BY <1>1, <1>2, <1>3, <1>6, <1>7, <1>8

-----------------------------------------------------------------------------
(* The calls                                                               *)

(* What stays true of the buffer when a call leaves it alone: the tables   *)
(* keep the slots of the positions that are not rewound.                   *)
LEMMA BufferKept ==
  ASSUME GraphInv, [Next]_vars, UNCHANGED <<graphVars, graph>>, alive' \subseteq alive,
         \A s \in alive' : graph /\ last_session = s /\ last_seq <= next_pos'[s] =>
            last_seq <= next_pos[s] /\ last_seq <= token_count'[s]
  PROVE  BasesKept'
<1> SUFFICES ASSUME graph, NEW s \in alive', last_session = s, last_seq <= next_pos'[s],
                    NEW t \in 0..(last_seq - 1)
             PROVE  bases[t] = SlotAt(blocks'[s], t)
  BY DEF BasesKept, SlotAt, graphVars
<1>1. s \in alive /\ s \in Session
  BY DEF GraphInv, GraphTypeOK
<1>2. last_seq <= next_pos[s] /\ last_seq <= token_count'[s]
  OBVIOUS
<1>3. IInv /\ IInv' /\ next_pos[s] <= token_count[s]
  BY <1>1, NextIInv DEF GraphInv, Driven
<1>4. last_seq \in Nat /\ next_pos[s] \in Nat /\ token_count[s] \in Nat /\ token_count'[s] \in Nat
  BY <1>1, <1>3 DEF GraphInv, GraphTypeOK, IInv, TypeOK
<1>5. t \in 0..(token_count[s] - 1) /\ t \in 0..(token_count'[s] - 1)
  BY <1>2, <1>3, <1>4
<1>6. SlotAt(blocks'[s], t) = SlotAt(blocks[s], t)
  BY <1>1, <1>3, <1>5, SlotsKept
<1>7. bases[t] = SlotAt(blocks[s], t)
  BY <1>1, <1>2 DEF GraphInv, BasesKept
<1> QED
  BY <1>6, <1>7

(* The invariant, when a call leaves the buffer and the readings alone.    *)
LEMMA TablesChange ==
  ASSUME GraphInv, [Next]_vars, UNCHANGED <<graphVars, graph>>,
         misread' = {} \/ misread' = misread,
         alive' \subseteq alive,
         next_pos' \in [Session -> 0..MaxSeq],
         call' \in [session : Session, from : 0..MaxSeq, tokens : 1..(MaxSeq + 1)] \cup {None},
         Driven', UnderWay',
         \A s \in alive' : graph /\ last_session = s /\ last_seq <= next_pos'[s] =>
            last_seq <= next_pos[s] /\ last_seq <= token_count'[s]
  PROVE  GraphInv'
<1>1. IInv' /\ BasesKept'
  BY NextIInv, BufferKept DEF GraphInv
<1>2. misread' = {}
  BY DEF GraphInv, AttendsOwnSlots
<1>3. UNCHANGED <<bases, stride, last_session, last_seq, graph>>
  BY DEF graphVars
<1>4. MaxSeq' = MaxSeq /\ Slot' = Slot
  BY DEF MaxSeq, Slot, Block, Offset
<1>5. GraphTypeOK'
  BY <1>1, <1>2, <1>3, <1>4 DEF GraphInv, GraphTypeOK, IInv
<1> QED
  BY <1>1, <1>2, <1>3, <1>5 DEF GraphInv, AttendsOwnSlots

(* The types the steps below rest on.                                      *)
LEMMA Types ==
  ASSUME GraphInv, GraphAssumption, NEW s \in Session
  PROVE  /\ token_count[s] \in Nat /\ token_count[s] \in 0..MaxSeq
         /\ next_pos[s] \in Nat /\ next_pos \in [Session -> 0..MaxSeq]
         /\ token_count \in [Session -> Nat]
         /\ MaxSeq \in Nat /\ last_seq \in Nat /\ stride \in Nat
         /\ DOMAIN bases = 0..(stride - 1)
         /\ \A t \in DOMAIN bases : bases[t] \in Slot \cup {None}
         /\ alive \subseteq Session
  BY CountBound, SizeAssumption DEF GraphInv, GraphTypeOK, IInv, TypeOK, MaxSeq

(* A step on the graph of a Llama or Gemma runner.                         *)
LEMMA GraphStepInv ==
  ASSUME GraphInv, GraphAssumption, ~Watermark,
         NEW s \in Session, NEW ok \in BOOLEAN, GraphStep(s, ok)
  PROVE  GraphInv'
<1> DEFINE pos == next_pos[s]
<1>1. /\ call = None /\ graph /\ s \in alive /\ Covered(s, pos)
      /\ RefreshBySession(s, {pos}, 1) /\ graph' = ok
      /\ IF ok THEN ReadBases(s, token_count'[s]) ELSE ReadTable
      /\ next_pos' = [next_pos EXCEPT ![s] = pos + 1]
      /\ alive' = alive /\ call' = call
  BY DEF GraphStep
<1>2. IInv /\ pos <= token_count[s] /\ token_count[s] <= pos + 1
  BY <1>1 DEF GraphInv, Driven
<1>3. pos \in Nat /\ token_count[s] \in Nat
  BY Types
<1>4. /\ [Next]_vars /\ token_count'[s] = pos + 1
      /\ \A u \in Session \ {s} : token_count'[u] = token_count[u]
  BY <1>1, <1>2, <1>3, CoveredFacts
<1>5. IInv'
  BY <1>2, <1>4, NextIInv
<1>6. /\ token_count'[s] \in 0..MaxSeq
      /\ \A t \in 0..(token_count'[s] - 1) : SlotAt(blocks'[s], t) \in Slot
  BY <1>5, NextTables
<1>7. ASSUME Incremental(s, token_count'[s], 1), NEW t \in 0..(token_count'[s] - 1)
      PROVE  t \in {pos} \/ bases[t] = SlotAt(blocks'[s], t)
  <2>1. last_session = s /\ last_seq + 1 = pos + 1 /\ last_seq \in Nat
    BY <1>4, <1>7, Types DEF Incremental
  <2>2. last_seq = pos
    BY <1>3, <2>1
  <2>3. CASE t \in 0..(pos - 1)
    <3>1. bases[t] = SlotAt(blocks[s], t)
      BY <1>1, <1>3, <2>1, <2>2, <2>3 DEF GraphInv, BasesKept
    <3>2. t \in 0..(token_count[s] - 1)
      BY <1>2, <1>3, <2>3
    <3>3. SlotAt(blocks'[s], t) = SlotAt(blocks[s], t)
      BY <1>2, <1>4, <1>7, <3>2, SlotsKept
    <3> QED
      BY <3>1, <3>3
  <2> QED
    BY <1>3, <1>4, <1>7, <2>3
<1>8. /\ stride' \in Nat /\ token_count'[s] <= stride'
      /\ DOMAIN bases' = 0..(stride' - 1)
      /\ \A t \in DOMAIN bases' : bases'[t] \in Slot \cup {None}
      /\ \A t \in 0..(token_count'[s] - 1) : bases'[t] = SlotAt(blocks'[s], t)
      /\ last_session' = s /\ last_seq' = token_count'[s]
  BY <1>1, <1>6, <1>7, Types, RefreshFacts
<1>9. misread' = {}
  BY <1>1, <1>8 DEF ReadBases, ReadTable
<1>10. next_pos' \in [Session -> 0..MaxSeq]
  BY <1>1, <1>4, <1>6, Types
<1>11. GraphTypeOK'
  <2>1. last_session' \in Session \cup {None} /\ last_seq' \in 0..MaxSeq /\ graph' \in BOOLEAN
    BY <1>1, <1>6, <1>8
  <2>2. MaxSeq' = MaxSeq /\ Slot' = Slot
    BY DEF MaxSeq, Slot, Block, Offset
  <2> QED
    BY <1>1, <1>5, <1>8, <1>9, <1>10, <2>1, <2>2 DEF GraphTypeOK, GraphInv, IInv
<1>12. Driven'
  BY <1>1, <1>3, <1>4, Types DEF Driven, GraphInv
<1>13. UnderWay'
  BY <1>1 DEF UnderWay
<1>14. BasesKept'
  BY <1>8 DEF BasesKept, SlotAt
<1> QED
  BY <1>5, <1>8, <1>9, <1>11, <1>12, <1>13, <1>14 DEF GraphInv, AttendsOwnSlots

(* A step on the layer loop: the graph is given up.                        *)
LEMMA LoopStepInv ==
  ASSUME GraphInv, GraphAssumption, NEW s \in Session, LoopStep(s)
  PROVE  GraphInv'
<1> DEFINE pos == next_pos[s]
<1>1. /\ call = None /\ ~graph /\ s \in alive /\ Covered(s, pos)
      /\ misread' = {} /\ next_pos' = [next_pos EXCEPT ![s] = pos + 1]
      /\ alive' = alive /\ call' = call /\ UNCHANGED <<graphVars, graph>>
  BY DEF LoopStep, ReadTable
<1>2. IInv /\ pos <= token_count[s] /\ token_count[s] <= pos + 1
  BY <1>1 DEF GraphInv, Driven
<1>3. pos \in Nat /\ token_count[s] \in Nat
  BY Types
<1>4. /\ [Next]_vars /\ token_count'[s] = pos + 1
      /\ \A u \in Session \ {s} : token_count'[u] = token_count[u]
  BY <1>1, <1>2, <1>3, CoveredFacts
<1>5. token_count'[s] \in 0..MaxSeq
  BY <1>2, <1>4, NextIInv, NextTables
<1>6. next_pos' \in [Session -> 0..MaxSeq]
  BY <1>1, <1>4, <1>5, Types
<1>7. Driven'
  BY <1>1, <1>3, <1>4, Types DEF Driven, GraphInv
<1>8. UnderWay'
  BY <1>1 DEF UnderWay
<1>9. call' \in [session : Session, from : 0..MaxSeq, tokens : 1..(MaxSeq + 1)] \cup {None}
  BY <1>1 DEF GraphInv, GraphTypeOK
<1> QED
  BY <1>1, <1>4, <1>6, <1>7, <1>8, <1>9, TablesChange

(* A step that appended and failed.                                        *)
LEMMA FailedStepInv ==
  ASSUME GraphInv, GraphAssumption, NEW s \in Session, FailedStep(s)
  PROVE  GraphInv'
<1>1. /\ call = None /\ s \in alive /\ next_pos[s] = token_count[s] /\ AppendOne(s)
      /\ misread' = misread /\ next_pos' = next_pos
      /\ alive' = alive /\ call' = call /\ UNCHANGED <<graphVars, graph>>
  BY DEF FailedStep
<1>2. /\ [Next]_vars /\ token_count'[s] = token_count[s] + 1
      /\ \A u \in Session \ {s} : token_count'[u] = token_count[u]
  BY <1>1, AppendOneFacts DEF GraphInv
<1>3. Driven'
  <2> SUFFICES ASSUME NEW u \in alive
               PROVE  next_pos[u] <= token_count'[u] /\ token_count'[u] <= next_pos[u] + 1
    BY <1>1 DEF Driven
  <2>1. u \in Session /\ next_pos[u] \in Nat /\ token_count[u] \in Nat
    BY Types
  <2>2. next_pos[u] <= token_count[u] /\ token_count[u] <= next_pos[u] + 1
    BY <1>1 DEF Driven, GraphInv
  <2> QED
    BY <1>1, <1>2, <2>1, <2>2
<1>4. UnderWay'
  BY <1>1 DEF UnderWay
<1>5. \A u \in alive' : last_seq <= next_pos'[u] =>
         last_seq <= next_pos[u] /\ last_seq <= token_count'[u]
  <2> SUFFICES ASSUME NEW u \in alive, last_seq <= next_pos[u]
               PROVE  last_seq <= token_count'[u]
    BY <1>1
  <2>1. next_pos[u] <= token_count'[u]
    BY <1>1, <1>3 DEF Driven
  <2>2. u \in Session /\ next_pos[u] \in Nat /\ last_seq \in Nat /\ token_count[u] \in Nat
    BY Types
  <2>3. token_count'[u] \in Int
    BY <1>2, <2>2
  <2> QED
    BY <2>1, <2>2, <2>3
<1> QED
  BY <1>1, <1>2, <1>3, <1>4, <1>5, TablesChange DEF GraphInv, GraphTypeOK

(* A prefill begins where the driver stands.                               *)
LEMMA PrefillBeginsInv ==
  ASSUME GraphInv, GraphAssumption, NEW s \in Session, NEW n \in 1..(MaxSeq + 1),
         PrefillBegins(s, n)
  PROVE  GraphInv'
<1>1. /\ call = None /\ s \in alive
      /\ call' = [session |-> s, from |-> next_pos[s], tokens |-> n]
      /\ UNCHANGED vars /\ token_count' = token_count /\ UNCHANGED <<graphVars, graph>>
      /\ misread' = misread /\ next_pos' = next_pos /\ alive' = alive
  BY DEF PrefillBegins, vars
<1>2. call'.session = s /\ call'.from = next_pos[s] /\ call'.tokens = n
  BY <1>1
<1>3. next_pos[s] <= token_count[s] /\ token_count[s] <= next_pos[s] + 1
  BY <1>1 DEF GraphInv, Driven
<1>4. next_pos[s] \in Nat /\ token_count[s] \in Nat /\ next_pos \in [Session -> 0..MaxSeq]
  BY Types
<1>5. Driven'
  BY <1>1 DEF Driven, GraphInv
<1>6. UnderWay'
  BY <1>1, <1>2, <1>3, <1>4 DEF UnderWay
<1>7. call' \in [session : Session, from : 0..MaxSeq, tokens : 1..(MaxSeq + 1)] \cup {None}
  <2>1. next_pos[s] \in 0..MaxSeq
    BY <1>4
  <2> QED
    BY <1>1, <2>1
<1>8. \A u \in alive' : last_seq <= next_pos'[u] => last_seq <= token_count'[u]
  <2> SUFFICES ASSUME NEW u \in alive, last_seq <= next_pos[u]
               PROVE  last_seq <= token_count[u]
    BY <1>1
  <2>1. next_pos[u] <= token_count[u]
    BY DEF Driven, GraphInv
  <2>2. u \in Session /\ next_pos[u] \in Nat /\ last_seq \in Nat /\ token_count[u] \in Nat
    BY Types
  <2> QED
    BY <2>1, <2>2
<1> QED
  BY <1>1, <1>4, <1>5, <1>6, <1>7, <1>8, TablesChange

(* The loop of a prefill over its positions.                               *)
LEMMA PrefillAppendsInv ==
  ASSUME GraphInv, GraphAssumption, PrefillAppends
  PROVE  GraphInv'
<1> DEFINE s == call.session
           n == call.from + call.tokens
<1>1. /\ call # None /\ token_count[s] < n /\ AppendOne(s)
      /\ UNCHANGED <<graphVars, graph>>
      /\ misread' = misread /\ next_pos' = next_pos /\ alive' = alive /\ call' = call
  BY DEF PrefillAppends
<1>2. call \in [session : Session, from : 0..MaxSeq, tokens : 1..(MaxSeq + 1)]
  BY <1>1 DEF GraphInv, GraphTypeOK
<1>3. s \in Session /\ call.from \in 0..MaxSeq /\ call.tokens \in 1..(MaxSeq + 1)
  BY <1>2
<1>4. /\ [Next]_vars /\ token_count'[s] = token_count[s] + 1
      /\ \A u \in Session \ {s} : token_count'[u] = token_count[u]
  BY <1>1, <1>3, AppendOneFacts DEF GraphInv
<1>5. s \in alive /\ call.from = next_pos[s]
  BY <1>1 DEF GraphInv, UnderWay
<1>6. token_count[s] \in Nat /\ n \in Nat
  BY <1>3, Types
<1>7. \A u \in alive : /\ u \in Session /\ next_pos[u] \in Nat /\ token_count[u] \in Nat
                       /\ next_pos[u] <= token_count[u]
                       /\ u # s => token_count[u] <= next_pos[u] + 1
                       /\ token_count[u] <= token_count'[u]
                       /\ token_count'[u] \in Nat
  <2> SUFFICES ASSUME NEW u \in alive
               PROVE  /\ u \in Session /\ next_pos[u] \in Nat /\ token_count[u] \in Nat
                      /\ next_pos[u] <= token_count[u]
                      /\ u # s => token_count[u] <= next_pos[u] + 1
                      /\ token_count[u] <= token_count'[u]
                      /\ token_count'[u] \in Nat
    OBVIOUS
  <2>1. u \in Session /\ next_pos[u] \in Nat /\ token_count[u] \in Nat
    <3>1. u \in Session
      BY DEF GraphInv, GraphTypeOK
    <3> QED
      BY <3>1, Types
  <2>2. next_pos[u] <= token_count[u] /\ (u # s => token_count[u] <= next_pos[u] + 1)
    BY DEF GraphInv, Driven
  <2> HIDE DEF s
  <2> QED
    BY <1>4, <2>1, <2>2
<1>8. Driven'
  <2> SUFFICES ASSUME NEW u \in alive
               PROVE  /\ next_pos[u] <= token_count'[u]
                      /\ u # s => token_count'[u] <= next_pos[u] + 1
    BY <1>1 DEF Driven
  <2>1. u # s => token_count'[u] = token_count[u]
    BY <1>4, <1>7
  <2> HIDE DEF s
  <2> QED
    BY <1>7, <2>1
<1>9. UnderWay'
  <2>1. token_count'[s] <= n
    BY <1>1, <1>4, <1>6
  <2> QED
    BY <1>1, <1>5, <2>1 DEF UnderWay
<1>10. \A u \in alive' : last_seq <= next_pos'[u] => last_seq <= token_count'[u]
  <2> SUFFICES ASSUME NEW u \in alive, last_seq <= next_pos[u]
               PROVE  last_seq <= token_count'[u]
    BY <1>1
  <2>1. last_seq \in Nat
    BY <1>3, Types
  <2> QED
    BY <1>7, <2>1
<1>11. next_pos \in [Session -> 0..MaxSeq]
  BY <1>3, Types
<1> QED
  BY <1>1, <1>2, <1>4, <1>8, <1>9, <1>10, <1>11, TablesChange

(* OutOfBlocks ends a prefill; its caller gives the session up.            *)
LEMMA PrefillOutOfBlocksInv ==
  ASSUME GraphInv, GraphAssumption, ~Watermark, PrefillOutOfBlocks
  PROVE  GraphInv'
<1>1. /\ call # None /\ call' = None /\ alive' = alive \ {call.session}
      /\ UNCHANGED vars /\ token_count' = token_count /\ UNCHANGED <<graphVars, graph>>
      /\ misread' = misread /\ next_pos' = next_pos
  BY DEF PrefillOutOfBlocks, vars
<1>2. Driven'
  BY <1>1 DEF Driven, GraphInv
<1>3. UnderWay'
  BY <1>1 DEF UnderWay
<1>4. \A u \in alive' : last_seq <= next_pos'[u] => last_seq <= token_count'[u]
  <2> SUFFICES ASSUME NEW u \in alive, last_seq <= next_pos[u]
               PROVE  last_seq <= token_count[u]
    BY <1>1
  <2>1. next_pos[u] <= token_count[u]
    BY DEF Driven, GraphInv
  <2>2. u \in Session
    BY DEF GraphInv, GraphTypeOK
  <2>3. next_pos[u] \in Nat /\ last_seq \in Nat /\ token_count[u] \in Nat
    BY <2>2, Types
  <2> QED
    BY <2>1, <2>3
<1>5. next_pos \in [Session -> 0..MaxSeq]
  BY DEF GraphInv, GraphTypeOK
<1>6. alive' \subseteq alive
  BY <1>1
<1> QED
  BY <1>1, <1>2, <1>3, <1>4, <1>5, <1>6, TablesChange

(* prefill_fused goes on to the graph, or to the layer loop.               *)
LEMMA PrefillRunsInv ==
  ASSUME GraphInv, GraphAssumption, ~Watermark, PrefillRuns
  PROVE  GraphInv'
<1> DEFINE s == call.session
           n == call.from + call.tokens
           writes == (token_count[s] - call.tokens)..(token_count[s] - 1)
<1>1. /\ call # None /\ token_count[s] >= n /\ UNCHANGED vars
      /\ IF graph
         THEN RefreshBySession(s, writes, call.tokens) /\ ReadBases(s, n)
         ELSE UNCHANGED graphVars /\ misread' = {}
      /\ next_pos' = [next_pos EXCEPT ![s] = n]
      /\ call' = None /\ alive' = alive /\ graph' = graph
  BY DEF PrefillRuns, ReadTable
<1>2. call \in [session : Session, from : 0..MaxSeq, tokens : 1..(MaxSeq + 1)]
  BY <1>1 DEF GraphInv, GraphTypeOK
<1>3. s \in Session /\ call.from \in Nat /\ call.tokens \in Nat
  BY <1>2
<1>4. s \in alive /\ call.from = next_pos[s] /\ token_count[s] <= n
  BY <1>1 DEF GraphInv, UnderWay
<1>5. /\ token_count[s] = n /\ n \in 0..MaxSeq /\ n \in Nat
      /\ token_count' = token_count /\ blocks' = blocks
  BY <1>1, <1>3, <1>4, Types DEF vars
<1>6. IInv /\ IInv'
  BY <1>1, NextIInv DEF GraphInv
<1>7. next_pos' \in [Session -> 0..MaxSeq]
  BY <1>1, <1>3, <1>5, Types
<1>8. Driven'
  <2> SUFFICES ASSUME NEW u \in alive
               PROVE  next_pos'[u] <= token_count[u] /\ token_count[u] <= next_pos'[u] + 1
    BY <1>1, <1>5 DEF Driven
  <2>1. u \in Session /\ next_pos \in [Session -> 0..MaxSeq]
    BY <1>3, Types
  <2>2. next_pos'[u] = IF u = s THEN n ELSE next_pos[u]
    BY <1>1, <2>1
  <2>3. next_pos[u] <= token_count[u] /\ (u # s => token_count[u] <= next_pos[u] + 1)
    BY DEF GraphInv, Driven
  <2> HIDE DEF s, n
  <2> QED
    BY <1>5, <2>2, <2>3
<1>9. UnderWay'
  BY <1>1 DEF UnderWay
<1>10. MaxSeq' = MaxSeq /\ Slot' = Slot
  BY DEF MaxSeq, Slot, Block, Offset
<1>11. CASE graph
  <2>1. ASSUME Incremental(s, n, call.tokens), NEW t \in 0..(n - 1)
        PROVE  t \in writes \/ bases[t] = SlotAt(blocks'[s], t)
    <3>1. last_session = s /\ last_seq + call.tokens = n /\ last_seq \in Nat
      BY <1>3, <2>1, Types DEF Incremental
    <3>2. last_seq = call.from
      BY <1>3, <3>1
    <3>3. CASE t \in 0..(last_seq - 1)
      <4>1. last_seq <= next_pos[s]
        BY <1>3, <1>4, <3>2
      <4>2. bases[t] = SlotAt(blocks[s], t)
        BY <1>4, <1>11, <3>1, <3>3, <4>1 DEF GraphInv, BasesKept
      <4> QED
        BY <1>5, <4>2
    <3>4. CASE t \notin 0..(last_seq - 1)
      <4>1. t \in Int /\ last_seq <= t /\ t <= n - 1
        BY <1>3, <2>1, <3>1, <3>4
      <4> QED
        BY <1>3, <1>5, <3>2, <4>1
    <3> QED
      BY <3>3, <3>4
  <2>2. \A t \in 0..(n - 1) : SlotAt(blocks'[s], t) \in Slot
    BY <1>3, <1>5, <1>6, NextTables
  <2>3. RefreshBySession(s, writes, call.tokens) /\ ReadBases(s, n)
    BY <1>1, <1>11
  <2>4. n = token_count'[s]
    BY <1>5
  <2>5. /\ stride \in Nat /\ DOMAIN bases = 0..(stride - 1)
        /\ \A t \in DOMAIN bases : bases[t] \in Slot \cup {None}
    BY <1>3, Types
  <2> HIDE DEF n, s, writes
  <2>6. Incremental(s, n, call.tokens) =>
          \A t \in 0..(n - 1) : t \in writes \/ bases[t] = SlotAt(blocks'[s], t)
    BY <2>1
  <2>7. /\ stride' \in Nat /\ n <= stride'
        /\ DOMAIN bases' = 0..(stride' - 1)
        /\ \A t \in DOMAIN bases' : bases'[t] \in Slot \cup {None}
        /\ \A t \in 0..(n - 1) : bases'[t] = SlotAt(blocks'[s], t)
        /\ last_session' = s /\ last_seq' = n
    <3> DEFINE fresh == call.tokens
    <3>1. s \in Session /\ n \in 0..MaxSeq
      BY <1>3, <1>5
    <3>2. /\ Incremental(s, n, fresh) =>
               \A t \in 0..(n - 1) : t \in writes \/ bases[t] = SlotAt(blocks'[s], t)
          /\ RefreshBySession(s, writes, fresh)
      BY <2>3, <2>6
    <3> HIDE DEF fresh
    <3> QED
      BY ONLY GraphAssumption, <2>2, <2>4, <2>5, <3>1, <3>2, RefreshFacts
  <2>8. misread' = {}
    BY <2>3, <2>7 DEF ReadBases
  <2>9. GraphTypeOK'
    BY <1>1, <1>3, <1>5, <1>6, <1>7, <1>10, <2>7, <2>8 DEF GraphTypeOK, GraphInv, IInv
  <2>10. BasesKept'
    BY <2>7 DEF BasesKept, SlotAt
  <2> QED
    BY <1>6, <1>8, <1>9, <2>7, <2>8, <2>9, <2>10 DEF GraphInv, AttendsOwnSlots
<1>12. CASE ~graph
  <2>1. UNCHANGED <<bases, stride, last_session, last_seq, graph>> /\ misread' = {}
    BY <1>1, <1>12 DEF graphVars
  <2>2. GraphTypeOK'
    BY <1>1, <1>6, <1>7, <1>10, <2>1 DEF GraphTypeOK, GraphInv, IInv
  <2>3. BasesKept'
    BY <1>12, <2>1 DEF BasesKept
  <2> QED
    BY <1>6, <1>8, <1>9, <2>1, <2>2, <2>3 DEF GraphInv, AttendsOwnSlots
<1> QED
  BY <1>11, <1>12

(* reserve_sequence_capacity: the new buffer is blank, and says so.        *)
LEMMA ReserveInv ==
  ASSUME GraphInv, GraphAssumption, NEW n \in 1..MaxSeq, Reserve(n)
  PROVE  GraphInv'
<1>1. /\ UNCHANGED vars /\ bases' = Blanked(n) /\ stride' = PowerOfTwoFrom(n) /\ last_seq' = 0
      /\ UNCHANGED <<alive, next_pos, last_session, graph, call, misread>>
      /\ token_count' = token_count
  BY DEF Reserve, vars
<1>2. PowerOfTwoFrom(n) \in Nat /\ MaxSeq \in Nat
  BY LargeEnough, SizeAssumption DEF MaxSeq
<1>3. IInv'
  BY <1>1, NextIInv DEF GraphInv
<1>4. DOMAIN bases' = 0..(stride' - 1) /\ \A t \in DOMAIN bases' : bases'[t] = None
  BY <1>1 DEF Blanked
<1>5. MaxSeq' = MaxSeq /\ Slot' = Slot
  BY DEF MaxSeq, Slot, Block, Offset
<1>6. GraphTypeOK'
  BY <1>1, <1>2, <1>3, <1>4, <1>5 DEF GraphTypeOK, GraphInv, IInv
<1>7. BasesKept'
  BY <1>1 DEF BasesKept
<1>8. Driven' /\ UnderWay'
  BY <1>1 DEF Driven, UnderWay, GraphInv
<1>9. stride' \in Nat /\ last_seq' <= stride'
  BY <1>1, <1>2
<1> QED
  BY <1>1, <1>3, <1>6, <1>7, <1>8, <1>9 DEF GraphInv, AttendsOwnSlots

(* A rewound session has the positions it keeps where they were, and its   *)
(* driver stands at the cut.                                               *)
LEMMA RewindInv ==
  ASSUME GraphInv, GraphAssumption, NEW s \in Session, NEW n \in 0..MaxSeq, Rewind(s, n)
  PROVE  GraphInv'
<1>1. /\ call = None /\ s \in alive /\ n <= next_pos[s]
      /\ n < token_count[s] /\ TruncateTokens(s, n)
      /\ token_count' = [token_count EXCEPT ![s] = n]
      /\ next_pos' = [next_pos EXCEPT ![s] = n]
      /\ misread' = misread /\ alive' = alive /\ call' = call /\ UNCHANGED <<graphVars, graph>>
  BY DEF Rewind, TruncateTokens
<1>2. n \in Nat /\ token_count[s] \in Nat
  BY Types
<1>3. [Next]_vars
  <2>1. n \in 0..(token_count[s] - 1)
    BY <1>1, <1>2
  <2> QED
    BY <1>1, <2>1 DEF Next
<1>4. next_pos' \in [Session -> 0..MaxSeq]
  BY <1>1, Types
<1>5. ASSUME NEW u \in alive
      PROVE  /\ next_pos'[u] = IF u = s THEN n ELSE next_pos[u]
             /\ token_count'[u] = IF u = s THEN n ELSE token_count[u]
             /\ next_pos[u] <= token_count[u] /\ token_count[u] <= next_pos[u] + 1
             /\ next_pos[u] \in Nat /\ token_count[u] \in Nat /\ last_seq \in Nat
  <2>1. /\ u \in Session /\ token_count \in [Session -> Nat] /\ next_pos \in [Session -> 0..MaxSeq]
        /\ next_pos[u] \in Nat /\ last_seq \in Nat
    BY <1>5, Types
  <2>2. next_pos[u] <= token_count[u] /\ token_count[u] <= next_pos[u] + 1
    BY <1>1, <1>5 DEF Driven, GraphInv
  <2> QED
    BY <1>1, <2>1, <2>2
<1>6. Driven'
  <2> SUFFICES ASSUME NEW u \in alive
               PROVE  next_pos'[u] <= token_count'[u] /\ token_count'[u] <= next_pos'[u] + 1
    BY <1>1 DEF Driven
  <2> QED
    BY <1>2, <1>5
<1>7. UnderWay'
  BY <1>1 DEF UnderWay
<1>8. \A u \in alive' : last_seq <= next_pos'[u] =>
         last_seq <= next_pos[u] /\ last_seq <= token_count'[u]
  <2> SUFFICES ASSUME NEW u \in alive, last_seq <= next_pos'[u]
               PROVE  last_seq <= next_pos[u] /\ last_seq <= token_count'[u]
    BY <1>1
  <2> QED
    BY <1>1, <1>2, <1>5
<1>9. call' \in [session : Session, from : 0..MaxSeq, tokens : 1..(MaxSeq + 1)] \cup {None}
  BY <1>1 DEF GraphInv, GraphTypeOK
<1> QED
  BY <1>1, <1>3, <1>4, <1>6, <1>7, <1>8, <1>9, TablesChange

(* A cancelled session is not stepped again: what the buffer has of it no  *)
(* longer matters.                                                         *)
LEMMA CancelInv ==
  ASSUME GraphInv, GraphAssumption, NEW s \in Session, Cancel(s)
  PROVE  GraphInv'
<1>1. /\ call = None /\ FreeAll(s) /\ alive' = alive \ {s}
      /\ token_count' = [token_count EXCEPT ![s] = 0]
      /\ next_pos' = [next_pos EXCEPT ![s] = 0]
      /\ misread' = misread /\ call' = call /\ UNCHANGED <<graphVars, graph>>
  BY DEF Cancel, FreeAll
<1>2. [Next]_vars
  BY <1>1 DEF Next
<1>3. next_pos' \in [Session -> 0..MaxSeq]
  BY <1>1, Types
<1>4. ASSUME NEW u \in alive'
      PROVE  /\ u \in alive /\ u \in Session
             /\ next_pos'[u] = next_pos[u] /\ token_count'[u] = token_count[u]
             /\ next_pos[u] <= token_count[u] /\ token_count[u] <= next_pos[u] + 1
             /\ next_pos[u] \in Nat /\ token_count[u] \in Nat /\ last_seq \in Nat
  <2>1. /\ u \in alive /\ u # s /\ u \in Session
        /\ token_count \in [Session -> Nat] /\ next_pos \in [Session -> 0..MaxSeq]
    BY <1>1, <1>4, Types
  <2>2. next_pos[u] \in Nat /\ last_seq \in Nat
    BY <2>1, Types
  <2>3. next_pos[u] <= token_count[u] /\ token_count[u] <= next_pos[u] + 1
    BY <1>1, <2>1 DEF Driven, GraphInv
  <2> QED
    BY <1>1, <2>1, <2>2, <2>3
<1>5. Driven'
  BY <1>1, <1>4 DEF Driven
<1>6. UnderWay'
  BY <1>1 DEF UnderWay
<1>7. \A u \in alive' : last_seq <= next_pos'[u] =>
         last_seq <= next_pos[u] /\ last_seq <= token_count'[u]
  BY <1>4
<1>8. call' \in [session : Session, from : 0..MaxSeq, tokens : 1..(MaxSeq + 1)] \cup {None}
  BY <1>1 DEF GraphInv, GraphTypeOK
<1>9. alive' \subseteq alive
  BY <1>1
<1> QED
  BY <1>1, <1>2, <1>3, <1>5, <1>6, <1>7, <1>8, <1>9, TablesChange

-----------------------------------------------------------------------------
(* Empty tables, an empty buffer.                                          *)
LEMMA GraphInitInv ==
  ASSUME GraphAssumption, GraphInit
  PROVE  GraphInv
<1>1. IInv
  BY InitIInv DEF GraphInit
<1>2. MaxSeq \in Nat
  BY SizeAssumption DEF MaxSeq
<1>3. token_count = [s \in Session |-> 0]
  BY DEF GraphInit, Init
<1>4. GraphTypeOK
  BY <1>1, <1>2 DEF GraphInit, GraphTypeOK, IInv
<1>5. stride \in Nat /\ last_seq <= stride /\ AttendsOwnSlots
  BY DEF GraphInit, AttendsOwnSlots
<1>6. Driven /\ UnderWay /\ BasesKept
  BY <1>3 DEF GraphInit, Driven, UnderWay, BasesKept
<1> QED
  BY <1>1, <1>4, <1>5, <1>6 DEF GraphInv

(* Every call keeps the invariant.                                         *)
LEMMA GraphNextInv ==
  ASSUME GraphAssumption, ~Watermark, GraphInv, [GraphNext]_allVars
  PROVE  GraphInv'
<1>1. CASE UNCHANGED allVars
  <2>1. UNCHANGED vars /\ UNCHANGED <<graphVars, graph, alive, next_pos, call, misread>>
        /\ UNCHANGED <<token_count, blocks>>
        /\ UNCHANGED <<bases, stride, last_session, last_seq>>
    BY <1>1 DEF allVars, vars, graphVars
  <2>2. IInv'
    BY <2>1, NextIInv DEF GraphInv
  <2>3. GraphTypeOK'
    BY <2>1, <2>2 DEF GraphInv, GraphTypeOK, IInv, Slot, Block, Offset, MaxSeq
  <2> QED
    BY <2>1, <2>2, <2>3
    DEF GraphInv, Driven, UnderWay, BasesKept, SlotAt, AttendsOwnSlots
<1>2. ASSUME NEW s \in Session, NEW ok \in BOOLEAN, GraphStep(s, ok) PROVE GraphInv'
  BY <1>2, GraphStepInv
<1>3. ASSUME NEW s \in Session, LoopStep(s) PROVE GraphInv'
  BY <1>3, LoopStepInv
<1>4. ASSUME NEW s \in Session, FailedStep(s) PROVE GraphInv'
  BY <1>4, FailedStepInv
<1>5. ASSUME NEW s \in Session, NEW n \in 1..(MaxSeq + 1), PrefillBegins(s, n) PROVE GraphInv'
  BY <1>5, PrefillBeginsInv
<1>6. ASSUME NEW s \in Session, NEW n \in 0..MaxSeq, Rewind(s, n) PROVE GraphInv'
  BY <1>6, RewindInv
<1>7. ASSUME NEW s \in Session, Cancel(s) PROVE GraphInv'
  BY <1>7, CancelInv
<1>8. CASE PrefillAppends
  BY <1>8, PrefillAppendsInv
<1>9. CASE PrefillOutOfBlocks
  BY <1>9, PrefillOutOfBlocksInv
<1>10. CASE PrefillRuns
  BY <1>10, PrefillRunsInv
<1>11. ASSUME NEW n \in 1..MaxSeq, Reserve(n) PROVE GraphInv'
  BY <1>11, ReserveInv
<1> QED
  BY <1>1, <1>2, <1>3, <1>4, <1>5, <1>6, <1>7, <1>8, <1>9, <1>10, <1>11 DEF GraphNext

(* The fused graphs of Llama and Gemma attend, for every position, to the  *)
(* slot the session's own page table gives it at that moment, whatever was *)
(* rewound, cancelled or run for another session since their buffer was    *)
(* built.  (Qwen's graph, whose test is a watermark, does not: that is a   *)
(* finding.)                                                               *)
THEOREM OwnSlotsAttended ==
  ASSUME GraphAssumption, ~Watermark
  PROVE  GraphSpec => []AttendsOwnSlots
<1>1. GraphInit => GraphInv
  BY GraphInitInv
<1>2. GraphInv /\ [GraphNext]_allVars => GraphInv'
  BY GraphNextInv
<1>3. GraphInv => AttendsOwnSlots
  BY DEF GraphInv
<1> QED
  BY <1>1, <1>2, <1>3, PTL DEF GraphSpec

-----------------------------------------------------------------------------
(* The types, also of Qwen's graph: its buffer goes wrong in what it names *)
(* and not in what it is.                                                  *)

(* No driver is ahead of its table.                                        *)
Behind ==
  /\ \A s \in alive : next_pos[s] <= token_count[s]
  /\ call # None => call.session \in alive /\ call.from = next_pos[call.session]
WatermarkInv == IInv /\ GraphTypeOK /\ stride \in Nat /\ Behind

(* What the steps below take from it.                                      *)
LEMMA WatermarkTypes ==
  ASSUME WatermarkInv
  PROVE  /\ IInv /\ GraphTypeOK /\ Behind /\ MaxSeq \in Nat
         /\ token_count \in [Session -> Nat] /\ next_pos \in [Session -> 0..MaxSeq]
         /\ \A s \in Session : token_count[s] \in 0..MaxSeq
         /\ alive \subseteq Session
         /\ MaxSeq' = MaxSeq /\ Slot' = Slot
  BY CountBound, SizeAssumption
  DEF WatermarkInv, GraphTypeOK, IInv, TypeOK, MaxSeq, Slot, Block, Offset

(* The invariant, when a call leaves the buffer alone.                     *)
LEMMA WatermarkTables ==
  ASSUME WatermarkInv, [Next]_vars, UNCHANGED <<graphVars, graph>>,
         misread' \subseteq 0..(MaxSeq - 1), alive' \subseteq alive,
         next_pos' \in [Session -> 0..MaxSeq],
         call' \in [session : Session, from : 0..MaxSeq, tokens : 1..(MaxSeq + 1)] \cup {None},
         Behind'
  PROVE  WatermarkInv'
<1>1. IInv'
  BY NextIInv DEF WatermarkInv
<1>2. UNCHANGED <<bases, stride, last_session, last_seq, graph>>
  BY DEF graphVars
<1>3. GraphTypeOK'
  BY <1>1, <1>2, WatermarkTypes DEF GraphTypeOK, IInv
<1> QED
  BY <1>1, <1>2, <1>3 DEF WatermarkInv

(* A position more in a table leaves the drivers behind.                   *)
LEMMA StillBehind ==
  ASSUME WatermarkInv, \A s \in alive : token_count'[s] >= token_count[s],
         UNCHANGED <<alive, next_pos, call>>,
         \A s \in alive : token_count'[s] \in Nat
  PROVE  Behind'
<1>1. \A s \in alive : next_pos[s] <= token_count'[s]
  BY WatermarkTypes DEF Behind
<1> QED
  BY <1>1, WatermarkTypes DEF Behind

(* step_inner leaves the session with more than pos positions.             *)
LEMMA CoversPosition ==
  ASSUME WatermarkInv, NEW s \in alive, NEW pos \in Nat, Covered(s, pos)
  PROVE  /\ [Next]_vars /\ IInv'
         /\ pos < token_count'[s] /\ token_count'[s] \in 0..MaxSeq
         /\ \A u \in alive \ {s} : token_count'[u] = token_count[u]
<1>1. s \in Session /\ alive \subseteq Session /\ IInv /\ token_count[s] \in Nat
  BY WatermarkTypes
<1>2. CASE pos = token_count[s] /\ AppendOne(s)
  <2>1. [Next]_vars /\ token_count'[s] = pos + 1
    BY <1>1, <1>2, AppendOneFacts
  <2>2. IInv'
    BY <1>1, <2>1, NextIInv
  <2>3. \A u \in Session \ {s} : token_count'[u] = token_count[u]
    BY <1>1, <1>2, AppendOneFacts
  <2> QED
    BY <1>1, <2>1, <2>2, <2>3, NextTables
<1>3. CASE pos < token_count[s] /\ UNCHANGED vars
  <2>1. [Next]_vars /\ token_count' = token_count
    BY <1>3 DEF vars
  <2>2. IInv'
    BY <1>1, <2>1, NextIInv
  <2> QED
    BY <1>1, <1>3, <2>1, <2>2, NextTables
<1> QED
  BY <1>2, <1>3 DEF Covered

(* What the watermark's refresh leaves.                                    *)
LEMMA WatermarkRefresh ==
  ASSUME WatermarkInv, GraphAssumption, NEW s \in alive, NEW pos \in Nat,
         pos < token_count'[s], token_count'[s] \in 0..MaxSeq, IInv',
         RefreshByWatermark(s, pos)
  PROVE  /\ stride' \in Nat /\ DOMAIN bases' = 0..(stride' - 1)
         /\ \A t \in DOMAIN bases' : bases'[t] \in Slot \cup {None}
         /\ last_session' = last_session /\ last_seq' \in 0..MaxSeq
<1> DEFINE grown == IF stride < pos + 1 THEN Doubled(pos + 1) ELSE stride
           old == IF stride < pos + 1 THEN Widened(pos + 1) ELSE bases
<1>1. /\ bases' = [t \in DOMAIN old |->
                     IF t \in last_seq..pos THEN SlotAt(blocks'[s], t) ELSE old[t]]
      /\ stride' = grown /\ last_seq' = pos + 1 /\ last_session' = last_session
  BY DEF RefreshByWatermark
<1>2. stride \in Nat /\ MinStride \in Nat /\ last_seq \in Nat /\ MaxSeq \in Nat
  BY WatermarkTypes DEF WatermarkInv, GraphTypeOK, GraphAssumption
<1>3. DOMAIN bases = 0..(stride - 1) /\ \A t \in DOMAIN bases : bases[t] \in Slot \cup {None}
  BY DEF WatermarkInv, GraphTypeOK
<1>4. grown \in Nat
  BY <1>2 DEF Doubled
<1>5. DOMAIN old = 0..(grown - 1)
  BY <1>3 DEF Widened
<1>6. \A t \in DOMAIN old : old[t] \in Slot \cup {None}
  BY <1>3 DEF Widened
<1>7. \A t \in 0..(token_count'[s] - 1) : SlotAt(blocks'[s], t) \in Slot
  BY NextTables, WatermarkTypes
<1> HIDE DEF old, grown
<1>8. \A t \in DOMAIN old : t \in last_seq..pos => t \in 0..(token_count'[s] - 1)
  BY <1>2, <1>4, <1>5
<1>9. \A t \in DOMAIN old : bases'[t] \in Slot \cup {None}
  BY <1>1, <1>6, <1>7, <1>8
<1>10. DOMAIN bases' = 0..(stride' - 1)
  BY <1>1, <1>5
<1>11. \A t \in DOMAIN bases' : bases'[t] \in Slot \cup {None}
  BY <1>5, <1>9, <1>10, <1>1
<1>12. last_seq' \in 0..MaxSeq
  BY <1>1, <1>2
<1> QED
  BY <1>1, <1>4, <1>10, <1>11, <1>12

(* A step of Qwen's runner, on its graph or on the layer loop.             *)
LEMMA WatermarkStep ==
  ASSUME WatermarkInv, GraphAssumption, Watermark, NEW s \in Session,
         \/ \E ok \in BOOLEAN : GraphStep(s, ok)
         \/ LoopStep(s)
         \/ FailedStep(s)
  PROVE  WatermarkInv'
<1> DEFINE pos == next_pos[s]
<1>1. pos \in Nat /\ pos \in 0..MaxSeq
  BY WatermarkTypes
<1>2. ASSUME NEW ok \in BOOLEAN, GraphStep(s, ok)
      PROVE  WatermarkInv'
  <2>1. /\ call = None /\ s \in alive /\ Covered(s, pos)
        /\ RefreshByWatermark(s, pos) /\ ReadBases(s, pos + 1)
        /\ next_pos' = IF ok THEN [next_pos EXCEPT ![s] = pos + 1] ELSE next_pos
        /\ UNCHANGED <<graph, alive, call>>
    BY <1>2 DEF GraphStep
  <2>2. /\ [Next]_vars /\ IInv'
        /\ pos < token_count'[s] /\ token_count'[s] \in 0..MaxSeq
        /\ \A u \in alive \ {s} : token_count'[u] = token_count[u]
    BY <1>1, <2>1, CoversPosition
  <2>3. /\ stride' \in Nat /\ DOMAIN bases' = 0..(stride' - 1)
        /\ \A t \in DOMAIN bases' : bases'[t] \in Slot \cup {None}
        /\ last_session' = last_session /\ last_seq' \in 0..MaxSeq
    BY <1>1, <2>1, <2>2, WatermarkRefresh
  <2>4. misread' \subseteq 0..(MaxSeq - 1)
    <3>1. misread' \subseteq 0..pos
      BY <1>1, <2>1 DEF ReadBases
    <3> QED
      BY <1>1, <2>2, <3>1, WatermarkTypes
  <2>5. next_pos' \in [Session -> 0..MaxSeq]
    BY <1>1, <2>1, <2>2, WatermarkTypes
  <2>6. Behind'
    <3> SUFFICES ASSUME NEW u \in alive PROVE next_pos'[u] <= token_count'[u]
      BY <2>1 DEF Behind
    <3>1. u \in Session /\ next_pos[u] <= token_count[u]
      BY WatermarkTypes DEF Behind
    <3> QED
      BY <1>1, <2>1, <2>2, <3>1, WatermarkTypes
  <2>7. GraphTypeOK'
    BY <2>1, <2>2, <2>3, <2>4, <2>5, WatermarkTypes DEF GraphTypeOK, IInv
  <2> QED
    BY <2>2, <2>3, <2>6, <2>7 DEF WatermarkInv
<1>3. CASE LoopStep(s)
  <2>1. /\ call = None /\ s \in alive /\ Covered(s, pos) /\ misread' = {}
        /\ next_pos' = [next_pos EXCEPT ![s] = pos + 1]
        /\ alive' = alive /\ call' = call /\ UNCHANGED <<graphVars, graph>>
    BY <1>3 DEF LoopStep, ReadTable
  <2>2. /\ [Next]_vars
        /\ pos < token_count'[s] /\ token_count'[s] \in 0..MaxSeq
        /\ \A u \in alive \ {s} : token_count'[u] = token_count[u]
    BY <1>1, <2>1, CoversPosition
  <2>3. next_pos' \in [Session -> 0..MaxSeq]
    BY <1>1, <2>1, <2>2, WatermarkTypes
  <2>4. Behind'
    <3> SUFFICES ASSUME NEW u \in alive PROVE next_pos'[u] <= token_count'[u]
      BY <2>1 DEF Behind
    <3>1. u \in Session /\ next_pos[u] <= token_count[u]
      BY WatermarkTypes DEF Behind
    <3> QED
      BY <1>1, <2>1, <2>2, <3>1, WatermarkTypes
  <2>5. call' \in [session : Session, from : 0..MaxSeq, tokens : 1..(MaxSeq + 1)] \cup {None}
    BY <2>1 DEF WatermarkInv, GraphTypeOK
  <2> QED
    BY <2>1, <2>2, <2>3, <2>4, <2>5, WatermarkTables
<1>4. CASE FailedStep(s)
  <2>1. /\ s \in alive /\ AppendOne(s) /\ misread' = misread /\ next_pos' = next_pos
        /\ alive' = alive /\ call' = call /\ UNCHANGED <<graphVars, graph>>
    BY <1>4 DEF FailedStep
  <2>2. /\ [Next]_vars /\ token_count'[s] = token_count[s] + 1
        /\ \A u \in Session \ {s} : token_count'[u] = token_count[u]
    BY <2>1, WatermarkTypes, AppendOneFacts
  <2>3. Behind'
    BY <2>1, <2>2, WatermarkTypes, StillBehind
  <2> QED
    BY <2>1, <2>2, <2>3, WatermarkTables DEF WatermarkInv, GraphTypeOK
<1> QED
  BY <1>2, <1>3, <1>4

(* Qwen's prefill appends its positions, and stops for want of a block or  *)
(* runs on a buffer of its own.                                            *)
LEMMA WatermarkPrefill ==
  ASSUME WatermarkInv, GraphAssumption, Watermark,
         \/ \E s \in Session, n \in 1..(MaxSeq + 1) : PrefillBegins(s, n)
         \/ PrefillAppends \/ PrefillOutOfBlocks \/ PrefillRuns
  PROVE  WatermarkInv'
<1>1. ASSUME NEW s \in Session, NEW n \in 1..(MaxSeq + 1), PrefillBegins(s, n)
      PROVE  WatermarkInv'
  <2>1. /\ s \in alive /\ call' = [session |-> s, from |-> next_pos[s], tokens |-> n]
        /\ UNCHANGED vars /\ token_count' = token_count /\ UNCHANGED <<graphVars, graph>>
        /\ misread' = misread /\ next_pos' = next_pos /\ alive' = alive
    BY <1>1 DEF PrefillBegins, vars
  <2>2. Behind'
    BY <2>1, WatermarkTypes DEF Behind
  <2>3. call' \in [session : Session, from : 0..MaxSeq, tokens : 1..(MaxSeq + 1)] \cup {None}
    <3>1. next_pos[s] \in 0..MaxSeq
      BY WatermarkTypes
    <3> QED
      BY <2>1, <3>1
  <2> QED
    BY <2>1, <2>2, <2>3, WatermarkTables DEF WatermarkInv, GraphTypeOK
<1>2. ASSUME call # None
      PROVE  /\ call \in [session : Session, from : 0..MaxSeq, tokens : 1..(MaxSeq + 1)]
             /\ call.session \in alive /\ call.session \in Session
             /\ call.from \in Nat /\ call.tokens \in Nat
  BY <1>2 DEF WatermarkInv, GraphTypeOK, Behind
<1>3. CASE PrefillAppends
  <2>1. /\ call # None /\ AppendOne(call.session) /\ misread' = misread
        /\ next_pos' = next_pos /\ alive' = alive /\ call' = call
        /\ UNCHANGED <<graphVars, graph>>
    BY <1>3 DEF PrefillAppends
  <2>2. /\ [Next]_vars /\ token_count'[call.session] = token_count[call.session] + 1
        /\ \A u \in Session \ {call.session} : token_count'[u] = token_count[u]
    BY <1>2, <2>1, WatermarkTypes, AppendOneFacts
  <2>3. \A u \in Session : token_count'[u] >= token_count[u] /\ token_count'[u] \in Nat
    <3> SUFFICES ASSUME NEW u \in Session
                 PROVE  token_count'[u] >= token_count[u] /\ token_count'[u] \in Nat
      OBVIOUS
    <3>1. token_count[u] \in Nat
      BY WatermarkTypes
    <3> QED
      BY <2>2, <3>1
  <2>4. Behind'
    BY <2>1, <2>3, WatermarkTypes, StillBehind
  <2> QED
    BY <2>1, <2>2, <2>4, WatermarkTables DEF WatermarkInv, GraphTypeOK
<1>4. CASE PrefillOutOfBlocks
  <2>1. /\ call' = None /\ alive' = alive
        /\ UNCHANGED vars /\ token_count' = token_count /\ UNCHANGED <<graphVars, graph>>
        /\ misread' = misread /\ next_pos' = next_pos
    BY <1>4 DEF PrefillOutOfBlocks, vars
  <2>2. Behind'
    BY <2>1, WatermarkTypes DEF Behind
  <2> QED
    BY <2>1, <2>2, WatermarkTables DEF WatermarkInv, GraphTypeOK
<1>5. CASE PrefillRuns
  <2> DEFINE s == call.session
             n == call.from + call.tokens
  <2>1. /\ call # None /\ token_count[s] >= n
        /\ UNCHANGED vars /\ token_count' = token_count /\ UNCHANGED <<graphVars, graph>>
        /\ misread' = {} /\ next_pos' = [next_pos EXCEPT ![s] = n]
        /\ call' = None /\ alive' = alive
    BY <1>5 DEF PrefillRuns, ReadTable, vars
  <2>2. s \in Session /\ n \in 0..MaxSeq
    BY <1>2, <2>1, WatermarkTypes
  <2>3. next_pos' \in [Session -> 0..MaxSeq]
    BY <2>1, <2>2, WatermarkTypes
  <2>4. Behind'
    <3> SUFFICES ASSUME NEW u \in alive PROVE next_pos'[u] <= token_count[u]
      BY <2>1 DEF Behind
    <3>1. u \in Session /\ next_pos[u] <= token_count[u]
      BY WatermarkTypes DEF Behind
    <3> HIDE DEF s, n
    <3> QED
      BY <2>1, <2>2, <3>1, WatermarkTypes
  <2> QED
    BY <2>1, <2>3, <2>4, WatermarkTables
<1> QED
  BY <1>1, <1>3, <1>4, <1>5

(* The engine rewinds and cancels sessions.                                *)
LEMMA WatermarkResets ==
  ASSUME WatermarkInv, GraphAssumption, NEW s \in Session,
         Cancel(s) \/ \E n \in 0..MaxSeq : Rewind(s, n)
  PROVE  WatermarkInv'
<1>1. PICK n \in 0..MaxSeq :
        /\ [Next]_vars /\ call = None /\ call' = None
        /\ token_count' = [token_count EXCEPT ![s] = n]
        /\ next_pos' = [next_pos EXCEPT ![s] = n]
        /\ alive' \subseteq alive /\ misread' = misread /\ UNCHANGED <<graphVars, graph>>
  <2>1. CASE Cancel(s)
    <3>1. 0 \in 0..MaxSeq
      BY WatermarkTypes
    <3> QED
      BY <2>1, <3>1 DEF Cancel, FreeAll, Next
  <2>2. ASSUME NEW n \in 0..MaxSeq, Rewind(s, n)
        PROVE  /\ [Next]_vars /\ call = None /\ call' = None
               /\ token_count' = [token_count EXCEPT ![s] = n]
               /\ next_pos' = [next_pos EXCEPT ![s] = n]
               /\ alive' \subseteq alive /\ misread' = misread
               /\ UNCHANGED <<graphVars, graph>>
    <3>1. n < token_count[s] /\ TruncateTokens(s, n)
      BY <2>2 DEF Rewind, TruncateTokens
    <3>2. n \in 0..(token_count[s] - 1)
      BY <3>1, WatermarkTypes
    <3>3. [Next]_vars
      BY <3>1, <3>2 DEF Next
    <3> QED
      BY <2>2, <3>1, <3>3 DEF Rewind, TruncateTokens
  <2> QED
    BY <2>1, <2>2
<1>2. next_pos' \in [Session -> 0..MaxSeq]
  BY <1>1, WatermarkTypes
<1>3. Behind'
  <2> SUFFICES ASSUME NEW u \in alive PROVE next_pos'[u] <= token_count'[u]
    BY <1>1 DEF Behind
  <2>1. u \in Session /\ next_pos[u] <= token_count[u]
    BY WatermarkTypes DEF Behind
  <2> QED
    BY <1>1, <2>1, WatermarkTypes
<1> QED
  BY <1>1, <1>2, <1>3, WatermarkTables DEF WatermarkInv, GraphTypeOK

(* Every step of Qwen's runner keeps the types.                             *)
LEMMA WatermarkNext ==
  ASSUME GraphAssumption, Watermark, WatermarkInv, [GraphNext]_allVars
  PROVE  WatermarkInv'
<1>1. CASE UNCHANGED allVars
  <2>1. /\ UNCHANGED vars /\ UNCHANGED <<graphVars, graph>>
        /\ UNCHANGED <<token_count, alive, next_pos, call, misread>>
    BY <1>1 DEF allVars, vars
  <2>2. Behind'
    BY <2>1, WatermarkTypes DEF Behind
  <2> QED
    BY <2>1, <2>2, WatermarkTables DEF WatermarkInv, GraphTypeOK
<1>2. ASSUME NEW n \in 1..MaxSeq, Reserve(n)
      PROVE  FALSE
  BY <1>2 DEF Reserve
<1> QED
  BY <1>1, <1>2, WatermarkStep, WatermarkPrefill, WatermarkResets DEF GraphNext

(* The buffers of all three graphs stay well formed, whatever they name:   *)
(* as long as their stride says, each entry a slot of the slab or never    *)
(* written, no driver or prefill beyond the pool.                          *)
THEOREM GraphTypeCorrect ==
  ASSUME GraphAssumption
  PROVE  GraphSpec => []GraphTypeOK
<1>1. CASE ~ Watermark
  <2>1. GraphInit => GraphInv
    BY GraphInitInv
  <2>2. GraphInv /\ [GraphNext]_allVars => GraphInv'
    BY <1>1, GraphNextInv
  <2>3. GraphInv => GraphTypeOK
    BY DEF GraphInv
  <2> QED
    BY <2>1, <2>2, <2>3, PTL DEF GraphSpec
<1>2. CASE Watermark
  <2>1. GraphInit => WatermarkInv
    <3> SUFFICES ASSUME GraphInit PROVE WatermarkInv
      OBVIOUS
    <3>1. GraphInv
      BY GraphInitInv
    <3> QED
      BY <3>1 DEF GraphInit, GraphInv, WatermarkInv, Behind, Driven
  <2>2. WatermarkInv /\ [GraphNext]_allVars => WatermarkInv'
    BY <1>2, WatermarkNext
  <2>3. WatermarkInv => GraphTypeOK
    BY DEF WatermarkInv
  <2> QED
    BY <2>1, <2>2, <2>3, PTL DEF GraphSpec
<1> QED
  BY <1>1, <1>2 DEF GraphAssumption
=============================================================================
