---------------------------- MODULE EngineProofs ----------------------------
(***************************************************************************)
(* Proofs about the serving engine, for every number of sessions, every    *)
(* vocabulary and set of prompts, every size of the cache, both kinds of   *)
(* prefill, and clients of every kind.                                     *)
(***************************************************************************)
EXTENDS Delivery, Induction, SequenceTheorems, FiniteSetTheorems, WellFoundedInduction, TLAPS

-----------------------------------------------------------------------------
(* The ring                                                                *)

Distinct(q) == \A i, j \in DOMAIN q : q[i] = q[j] => i = j

(* RoundRobinScheduler::add puts an id in once.                            *)
LEMMA RingAddFacts ==
  ASSUME NEW S, NEW q \in Seq(S), Distinct(q), NEW s \in S
  PROVE  /\ RingAdd(q, s) \in Seq(S)
         /\ Distinct(RingAdd(q, s))
         /\ \A t : InRing(RingAdd(q, s), t) <=> InRing(q, t) \/ t = s
<1>1. CASE InRing(q, s)
  BY <1>1 DEF RingAdd
<1>2. CASE ~InRing(q, s)
  <2> DEFINE r == Append(q, s)
  <2>1. r \in Seq(S) /\ Len(r) = Len(q) + 1 /\ DOMAIN r = 1..(Len(q) + 1)
    BY AppendProperties, LenProperties
  <2>2. r[Len(q) + 1] = s /\ \A i \in 1..Len(q) : r[i] = q[i]
    BY AppendProperties
  <2>3. DOMAIN q = 1..Len(q) /\ Len(q) \in Nat
    BY LenProperties
  <2>4. Distinct(r)
    BY <2>1, <2>2, <2>3, <1>2 DEF Distinct, InRing
  <2>5. \A t : InRing(r, t) <=> InRing(q, t) \/ t = s
    BY <2>1, <2>2, <2>3 DEF InRing
  <2> QED
    BY <1>2, <2>1, <2>4, <2>5 DEF RingAdd
<1> QED
  BY <1>1, <1>2

(* A sequence without its i-th element.                                    *)
LEMMA Spliced ==
  ASSUME NEW S, NEW q \in Seq(S), NEW i \in 1..Len(q)
  PROVE  LET r == SubSeq(q, 1, i - 1) \o SubSeq(q, i + 1, Len(q))
         IN  /\ r \in Seq(S)
             /\ Len(r) = Len(q) - 1
             /\ \A j \in 1..(Len(q) - 1) : r[j] = IF j < i THEN q[j] ELSE q[j + 1]
<1> DEFINE a == SubSeq(q, 1, i - 1)
           b == SubSeq(q, i + 1, Len(q))
<1>1. Len(q) \in Nat /\ i \in Nat
  BY LenProperties
<1>2. a \in Seq(S) /\ Len(a) = i - 1 /\ \A j \in 1..(i - 1) : a[j] = q[j]
  BY <1>1
<1>3. b \in Seq(S) /\ Len(b) = Len(q) - i /\ \A j \in 1..(Len(q) - i) : b[j] = q[i + j]
  BY <1>1
<1> HIDE DEF a, b
<1>4. a \o b \in Seq(S) /\ Len(a \o b) = Len(q) - 1
  <2>1. a \o b \in Seq(S) /\ Len(a \o b) = Len(a) + Len(b)
    BY <1>2, <1>3, ConcatProperties
  <2> QED
    BY <1>1, <1>2, <1>3, <2>1
<1>5. \A j \in 1..(Len(q) - 1) : (a \o b)[j] = IF j < i THEN q[j] ELSE q[j + 1]
  <2> TAKE j \in 1..(Len(q) - 1)
  <2>1. (a \o b)[j] = IF j <= Len(a) THEN a[j] ELSE b[j - Len(a)]
    BY <1>1, <1>2, <1>3, ConcatProperties
  <2> QED
    BY <1>1, <1>2, <1>3, <2>1
<1> QED
  BY <1>4, <1>5 DEF a, b

(* RoundRobinScheduler::remove takes the id out and leaves the others.     *)
LEMMA RingRemoveFacts ==
  ASSUME NEW S, NEW q \in Seq(S), Distinct(q), NEW s
  PROVE  /\ RingRemove(q, s) \in Seq(S)
         /\ Distinct(RingRemove(q, s))
         /\ \A t : InRing(RingRemove(q, s), t) <=> InRing(q, t) /\ t # s
<1>1. CASE ~InRing(q, s)
  BY <1>1 DEF RingRemove, InRing
<1>2. CASE InRing(q, s)
  <2> DEFINE i == CHOOSE i \in DOMAIN q : q[i] = s
             r == SubSeq(q, 1, i - 1) \o SubSeq(q, i + 1, Len(q))
  <2>1. DOMAIN q = 1..Len(q) /\ Len(q) \in Nat
    BY LenProperties
  <2>2. i \in 1..Len(q) /\ q[i] = s
    BY <1>2, <2>1 DEF InRing
  <2>3. RingRemove(q, s) = r
    BY <1>2 DEF RingRemove
  <2> HIDE DEF i
  <2>4. /\ r \in Seq(S) /\ Len(r) = Len(q) - 1
        /\ \A j \in 1..(Len(q) - 1) : r[j] = IF j < i THEN q[j] ELSE q[j + 1]
    BY <2>2, Spliced
  <2>5. DOMAIN r = 1..(Len(q) - 1)
    BY <2>4, LenProperties
  <2> HIDE DEF r
  <2>6. Distinct(r)
    <3> SUFFICES ASSUME NEW j \in DOMAIN r, NEW k \in DOMAIN r, r[j] = r[k] PROVE j = k
      BY DEF Distinct
    <3>1. /\ (IF j < i THEN j ELSE j + 1) \in DOMAIN q
          /\ (IF k < i THEN k ELSE k + 1) \in DOMAIN q
      BY <2>1, <2>2, <2>5
    <3>2. q[IF j < i THEN j ELSE j + 1] = q[IF k < i THEN k ELSE k + 1]
      BY <2>4, <2>5
    <3>3. (IF j < i THEN j ELSE j + 1) = (IF k < i THEN k ELSE k + 1)
      BY <3>1, <3>2 DEF Distinct
    <3> QED
      BY <3>3, <2>2, <2>5, <2>1
  <2>7. ASSUME NEW t PROVE InRing(r, t) <=> InRing(q, t) /\ t # s
    <3>1. ASSUME NEW j \in DOMAIN r, r[j] = t PROVE InRing(q, t) /\ t # s
      <4> DEFINE k == IF j < i THEN j ELSE j + 1
      <4>1. k \in DOMAIN q /\ k # i /\ q[k] = t
        BY <2>1, <2>2, <2>4, <2>5, <3>1
      <4> QED
        BY <4>1, <2>1, <2>2 DEF InRing, Distinct
    <3>2. ASSUME NEW k \in DOMAIN q, q[k] = t, t # s PROVE InRing(r, t)
      <4> DEFINE j == IF k < i THEN k ELSE k - 1
      <4>1. k # i /\ k \in 1..Len(q)
        BY <2>1, <2>2, <3>2
      <4>2. j \in DOMAIN r /\ r[j] = t
        BY <2>1, <2>2, <2>4, <2>5, <3>2, <4>1
      <4> QED
        BY <4>2 DEF InRing
    <3> QED
      BY <3>1, <3>2 DEF InRing
  <2> QED
    BY <2>3, <2>4, <2>6, <2>7
<1> QED
  BY <1>1, <1>2

(* RoundRobinScheduler::next turns the ring and changes nothing else.      *)
LEMMA RotateFacts ==
  ASSUME NEW S, NEW q \in Seq(S), Distinct(q), NEW k \in Nat
  PROVE  /\ Rotate(q, k) \in Seq(S)
         /\ Distinct(Rotate(q, k))
         /\ \A t : InRing(Rotate(q, k), t) <=> InRing(q, t)
<1>1. CASE q = << >>
  BY <1>1 DEF Rotate
<1>2. CASE q # << >>
  <2> DEFINE n == Len(q)
             r == k % n
             a == SubSeq(q, r + 1, n)
             b == SubSeq(q, 1, r)
  <2>1. n \in Nat \ {0} /\ DOMAIN q = 1..n
    BY <1>2, LenProperties, EmptySeq
  <2>2. r \in 0..(n - 1)
    BY <2>1
  <2> HIDE DEF r
  <2>3. a \in Seq(S) /\ Len(a) = n - r /\ \A j \in 1..(n - r) : a[j] = q[r + j]
    BY <2>1, <2>2
  <2>4. b \in Seq(S) /\ Len(b) = r /\ \A j \in 1..r : b[j] = q[j]
    BY <2>1, <2>2
  <2>5. Rotate(q, k) = a \o b
    BY <1>2 DEF Rotate, r
  <2> HIDE DEF a, b, n
  <2>6. a \o b \in Seq(S) /\ Len(a \o b) = n /\ DOMAIN (a \o b) = 1..n
    <3>1. a \o b \in Seq(S) /\ Len(a \o b) = Len(a) + Len(b)
      BY <2>3, <2>4, ConcatProperties
    <3>2. Len(a \o b) = n
      BY <2>1, <2>2, <2>3, <2>4, <3>1
    <3> QED
      BY <3>1, <3>2, LenProperties
  <2>7. \A j \in 1..n : (a \o b)[j] = q[IF j <= n - r THEN r + j ELSE j - (n - r)]
    <3> TAKE j \in 1..n
    <3>1. (a \o b)[j] = IF j <= Len(a) THEN a[j] ELSE b[j - Len(a)]
      BY <2>1, <2>2, <2>3, <2>4, ConcatProperties
    <3> QED
      BY <3>1, <2>1, <2>2, <2>3, <2>4
  <2>8. Distinct(a \o b)
    <3> SUFFICES ASSUME NEW i \in 1..n, NEW j \in 1..n, (a \o b)[i] = (a \o b)[j] PROVE i = j
      BY <2>6 DEF Distinct
    <3>1. /\ (IF i <= n - r THEN r + i ELSE i - (n - r)) \in DOMAIN q
          /\ (IF j <= n - r THEN r + j ELSE j - (n - r)) \in DOMAIN q
      BY <2>1, <2>2
    <3>2. (IF i <= n - r THEN r + i ELSE i - (n - r)) = (IF j <= n - r THEN r + j ELSE j - (n - r))
      BY <2>7, <3>1 DEF Distinct
    <3> QED
      BY <3>2, <2>1, <2>2
  <2>9. ASSUME NEW t PROVE InRing(a \o b, t) <=> InRing(q, t)
    <3>1. ASSUME NEW j \in 1..n, (a \o b)[j] = t PROVE InRing(q, t)
      <4>1. (IF j <= n - r THEN r + j ELSE j - (n - r)) \in DOMAIN q
        BY <2>1, <2>2
      <4> QED
        BY <4>1, <2>7, <3>1 DEF InRing
    <3>2. ASSUME NEW i \in 1..n, q[i] = t PROVE InRing(a \o b, t)
      <4> DEFINE j == IF i <= r THEN i + (n - r) ELSE i - r
      <4>1. j \in 1..n /\ (IF j <= n - r THEN r + j ELSE j - (n - r)) = i
        BY <2>1, <2>2
      <4>2. (a \o b)[j] = t
        BY <4>1, <2>7, <3>2
      <4> QED
        BY <4>1, <4>2, <2>6 DEF InRing
    <3> QED
      BY <3>1, <3>2, <2>1, <2>6 DEF InRing
  <2> QED
    BY <2>5, <2>6, <2>8, <2>9
<1> QED
  BY <1>1, <1>2

(* A scan makes a number of calls, and the last finds what can be found.   *)
LEMMA CallsFacts ==
  ASSUME NEW q, NEW n \in Nat, NEW S
  PROVE  /\ Calls(q, n, S) \in Nat
         /\ Hits(q, n, S) # {} => Nth(q, Calls(q, n, S)) \in S
<1>1. CASE Hits(q, n, S) = {}
  BY <1>1 DEF Calls
<1>2. CASE Hits(q, n, S) # {}
  <2> DEFINE H == Hits(q, n, S)
  <2>1. H \subseteq Nat
    BY DEF Hits
  <2>2. PICK m \in H : \A j \in H : <<j, m>> \notin OpToRel(<, Nat)
    BY <1>2, <2>1, WFMin, NatLessThanWellFounded, Zenon
  <2>3. \A j \in H : ~(j < m)
    BY <2>1, <2>2, Zenon DEF OpToRel
  <2>4. \A j \in H : m <= j
    BY <2>1, <2>3
  <2> HIDE DEF H
  <2>5. (CHOOSE k \in H : \A j \in H : k <= j) \in H
    BY <2>4
  <2>6. Calls(q, n, S) \in H
    BY <1>2, <2>5 DEF Calls, H
  <2>7. \A k \in H : Nth(q, k) \in S
    BY DEF H, Hits
  <2> QED
    BY <2>1, <2>6, <2>7
<1> QED
  BY <1>1, <1>2

-----------------------------------------------------------------------------
(* Blocks and positions                                                    *)

(* LargerOf and SmallerOf pick one of two numbers, and bound both.         *)
LEMMA LargerFacts ==
  ASSUME NEW m \in Int, NEW n \in Int
  PROVE  /\ LargerOf(m, n) \in {m, n} /\ LargerOf(m, n) >= m /\ LargerOf(m, n) >= n
         /\ SmallerOf(m, n) \in {m, n} /\ SmallerOf(m, n) <= m /\ SmallerOf(m, n) <= n
  BY DEF LargerOf, SmallerOf

(* n positions fit in BlocksFor(n) blocks, and in no fewer.                *)
LEMMA BlocksForFacts ==
  ASSUME NEW n \in Nat
  PROVE  /\ BlocksFor(n) \in Nat
         /\ n <= BlocksFor(n) * TokensPerBlock
         /\ BlocksFor(n) * TokensPerBlock < n + TokensPerBlock
<1> DEFINE d == TokensPerBlock
           k == (n + d - 1) \div d
<1>1. d \in Nat \ {0} /\ n + d - 1 \in Nat
  BY EngineAssumption
<1>2. k \in Nat /\ k * d <= n + d - 1 /\ n + d - 1 < k * d + d
  BY <1>1
<1>3. k * d \in Nat
  BY <1>1, <1>2
<1>4. BlocksFor(n) = k
  BY DEF BlocksFor
<1> HIDE DEF k
<1> QED
  BY <1>1, <1>2, <1>3, <1>4

(* Blocks that hold n positions are at least BlocksFor(n).                 *)
LEMMA BlocksForLeast ==
  ASSUME NEW n \in Nat, NEW b \in Nat, n <= b * TokensPerBlock
  PROVE  BlocksFor(n) <= b
<1> DEFINE d == TokensPerBlock
           c == BlocksFor(n)
<1>1. d \in Nat \ {0} /\ c \in Nat /\ c * d < n + d
  BY EngineAssumption, BlocksForFacts
<1> HIDE DEF c
<1> SUFFICES ASSUME c >= b + 1 PROVE FALSE
  BY <1>1 DEF c
<1>2. c * d >= (b + 1) * d
  BY <1>1
<1>3. (b + 1) * d = b * d + d /\ b * d \in Nat /\ c * d \in Nat
  BY <1>1
<1> QED
  BY <1>1, <1>2, <1>3

(* A session reaches as far as its blocks and the free ones together.      *)
LEMMA RoomFacts ==
  ASSUME kv \in [Session -> Seq(Entry)], free \in Nat, NEW s \in Session
  PROVE  /\ Room(s) \in Nat
         /\ Len(kv[s]) \in Nat
         /\ Len(kv[s]) <= Room(s)
         /\ \A n \in 0..Room(s) : free + BlocksFor(Len(kv[s])) - BlocksFor(n) \in Nat
<1> DEFINE d == TokensPerBlock
           b == BlocksFor(Len(kv[s]))
<1>1. Len(kv[s]) \in Nat /\ d \in Nat \ {0}
  BY EngineAssumption, LenProperties
<1>2. b \in Nat /\ Len(kv[s]) <= b * d
  BY <1>1, BlocksForFacts
<1>3. Room(s) = (b + free) * d
  BY DEF Room
<1> HIDE DEF b
<1>4. b * d \in Nat /\ (b + free) * d \in Nat /\ b * d <= (b + free) * d
  BY <1>1, <1>2
<1>5. ASSUME NEW n \in 0..Room(s) PROVE free + b - BlocksFor(n) \in Nat
  <2>1. BlocksFor(n) \in Nat /\ BlocksFor(n) <= b + free
    BY <1>2, <1>3, <1>4, BlocksForLeast, BlocksForFacts
  <2> QED
    BY <1>2, <2>1
<1> QED
  BY <1>1, <1>2, <1>3, <1>4, <1>5 DEF b

(* What fits has room, and so has what a run has done when it fails.       *)
LEMMA FitFacts ==
  ASSUME NEW s \in Session, Room(s) \in Nat, NEW p \in 0..Room(s), NEW n \in Nat
  PROVE  /\ Fit(s, p, n) = n => p + n <= Room(s)
         /\ \A m \in FailPoints(n, Fit(s, p, n)) : m \in 0..n /\ p + m <= Room(s)
  BY DEF Fit, FailPoints, SmallerOf

-----------------------------------------------------------------------------
(* The entries a runner leaves                                             *)

(* A function on 1..n is a sequence of length n.                           *)
LEMMA SeqOfMap ==
  ASSUME NEW S, NEW n \in Nat, NEW q \in [1..n -> S]
  PROVE  q \in Seq(S) /\ Len(q) = n
  OBVIOUS

(* A run one token at a time: what lies below stays, ts lies behind it.    *)
LEMMA SteppedFacts ==
  ASSUME NEW es \in Seq(Entry), NEW p \in 0..Len(es), NEW ts \in Seq(Token)
  PROVE  /\ Stepped(es, p, ts) \in Seq(Entry)
         /\ Len(Stepped(es, p, ts)) = LargerOf(Len(es), p + Len(ts))
         /\ \A i \in 1..p : Stepped(es, p, ts)[i] = es[i]
         /\ \A i \in 1..Len(ts) : Stepped(es, p, ts)[p + i].tok = ts[i]
<1> DEFINE n == LargerOf(Len(es), p + Len(ts))
           E(i) == IF i \in (p + 1)..(p + Len(ts))
                   THEN [tok |-> ts[i - p], span |-> LargerOf(Len(es), i)] ELSE es[i]
<1>1. Len(es) \in Nat /\ Len(ts) \in Nat /\ p \in Nat /\ DOMAIN es = 1..Len(es)
  BY LenProperties
<1>2. n \in Nat /\ n >= Len(es) /\ n >= p + Len(ts)
  BY <1>1, LargerFacts
<1>2a. n = Len(es) \/ n = p + Len(ts)
  BY <1>1, LargerFacts
<1>3. ASSUME NEW i \in 1..n PROVE E(i) \in Entry
  <2>1. CASE i \in (p + 1)..(p + Len(ts))
    <3>1. ts[i - p] \in Token
      BY <1>1, <2>1, ElementOfSeq
    <3>2. LargerOf(Len(es), i) \in Nat
      BY <1>1, <1>2, LargerFacts
    <3> QED
      BY <2>1, <3>1, <3>2 DEF Entry
  <2>2. CASE i \notin (p + 1)..(p + Len(ts))
    <3>1. i \in 1..Len(es)
      BY <1>1, <1>2a, <2>2
    <3> QED
      BY <2>2, <3>1, ElementOfSeq
  <2> QED
    BY <2>1, <2>2
<1>4. Stepped(es, p, ts) = [i \in 1..n |-> E(i)]
  BY DEF Stepped
<1> HIDE DEF E, n
<1>5. [i \in 1..n |-> E(i)] \in [1..n -> Entry]
  BY <1>3
<1>6. Stepped(es, p, ts) \in Seq(Entry) /\ Len(Stepped(es, p, ts)) = n
  BY <1>2, <1>4, <1>5, SeqOfMap
<1>7. ASSUME NEW i \in 1..p PROVE Stepped(es, p, ts)[i] = es[i]
  <2>1. i \in 1..n /\ i \notin (p + 1)..(p + Len(ts))
    BY <1>1, <1>2
  <2>2. E(i) = es[i]
    BY <2>1 DEF E
  <2> QED
    BY <1>4, <2>1, <2>2
<1>8. ASSUME NEW i \in 1..Len(ts) PROVE Stepped(es, p, ts)[p + i].tok = ts[i]
  <2>1. p + i \in 1..n /\ p + i \in (p + 1)..(p + Len(ts)) /\ (p + i) - p = i
    BY <1>1, <1>2
  <2>2. E(p + i) = [tok |-> ts[(p + i) - p], span |-> LargerOf(Len(es), p + i)]
    BY <2>1 DEF E
  <2> QED
    BY <1>4, <2>1, <2>2
<1> QED
  BY <1>6, <1>7, <1>8 DEF n

(* The same of a batched prefill that has processed m tokens.              *)
LEMMA BatchedFacts ==
  ASSUME NEW es \in Seq(Entry), NEW p \in 0..Len(es), NEW ts \in Seq(Token),
         NEW m \in 0..Len(ts)
  PROVE  /\ Batched(es, p, ts, m) \in Seq(Entry)
         /\ Len(Batched(es, p, ts, m)) = LargerOf(Len(es), p + Len(ts))
         /\ \A i \in 1..p : Batched(es, p, ts, m)[i] = es[i]
         /\ \A i \in 1..m : Batched(es, p, ts, m)[p + i].tok = ts[i]
<1> DEFINE n == LargerOf(Len(es), p + Len(ts))
           E(i) == IF i \in (p + 1)..(p + m) THEN [tok |-> ts[i - p], span |-> n]
                   ELSE IF i <= Len(es) THEN es[i] ELSE Unwritten
<1>1. /\ Len(es) \in Nat /\ Len(ts) \in Nat /\ p \in Nat /\ m \in Nat
      /\ DOMAIN es = 1..Len(es)
  BY LenProperties
<1>2. n \in Nat /\ n >= Len(es) /\ n >= p + Len(ts)
  BY <1>1, LargerFacts
<1>3. ASSUME NEW i \in 1..n PROVE E(i) \in Entry
  <2>1. CASE i \in (p + 1)..(p + m)
    <3>1. ts[i - p] \in Token
      BY <1>1, <2>1, ElementOfSeq
    <3> QED
      BY <1>2, <2>1, <3>1 DEF Entry
  <2>2. CASE i \notin (p + 1)..(p + m) /\ i <= Len(es)
    <3>1. es[i] \in Entry
      BY <1>1, <2>2, ElementOfSeq
    <3> QED
      BY <2>2, <3>1
  <2>3. CASE i \notin (p + 1)..(p + m) /\ ~(i <= Len(es))
    BY <2>3 DEF Entry, Unwritten
  <2> QED
    BY <2>1, <2>2, <2>3
<1>4. Batched(es, p, ts, m) = [i \in 1..n |-> E(i)]
  BY DEF Batched
<1> HIDE DEF E, n
<1>5. [i \in 1..n |-> E(i)] \in [1..n -> Entry]
  BY <1>3
<1>6. Batched(es, p, ts, m) \in Seq(Entry) /\ Len(Batched(es, p, ts, m)) = n
  BY <1>2, <1>4, <1>5, SeqOfMap
<1>7. ASSUME NEW i \in 1..p PROVE Batched(es, p, ts, m)[i] = es[i]
  BY <1>1, <1>2, <1>4 DEF E
<1>8. ASSUME NEW i \in 1..m PROVE Batched(es, p, ts, m)[p + i].tok = ts[i]
  <2>1. p + i \in 1..n /\ p + i \in (p + 1)..(p + m) /\ (p + i) - p = i
    BY <1>1, <1>2
  <2>2. E(p + i) = [tok |-> ts[(p + i) - p], span |-> n]
    BY <2>1 DEF E
  <2> QED
    BY <1>4, <2>1, <2>2
<1> QED
  BY <1>6, <1>7, <1>8 DEF n

(* A prefix of the tokens.                                                 *)
LEMMA PrefixFacts ==
  ASSUME NEW S, NEW ts \in Seq(S), NEW m \in 0..Len(ts)
  PROVE  /\ SubSeq(ts, 1, m) \in Seq(S)
         /\ Len(SubSeq(ts, 1, m)) = m
         /\ \A i \in 1..m : SubSeq(ts, 1, m)[i] = ts[i]
<1>1. Len(ts) \in Nat /\ m \in Nat
  BY LenProperties
<1> QED
  BY <1>1

(* A run that fails keeps what was there below its first position, and the *)
(* positions, and goes no further than there is room.                      *)
Kept(es, p, fs, room) ==
  /\ fs \in Seq(Entry)
  /\ Len(es) <= Len(fs) /\ Len(fs) <= room
  /\ \A i \in 1..p : fs[i] = es[i]

(* A run one token at a time that fails.                                   *)
LEMMA SteppedFailuresFacts ==
  ASSUME NEW s \in Session, Room(s) \in Nat, NEW es \in Seq(Entry), Len(es) <= Room(s),
         NEW p \in 0..Len(es), NEW ts \in Seq(Token),
         NEW fs \in SteppedFailures(s, es, p, ts)
  PROVE  Kept(es, p, fs, Room(s))
<1>1. Len(es) \in Nat /\ Len(ts) \in Nat /\ p \in 0..Room(s)
  BY LenProperties
<1>2. PICK m \in FailPoints(Len(ts), Fit(s, p, Len(ts))) : fs = Stepped(es, p, SubSeq(ts, 1, m))
  BY DEF SteppedFailures
<1>3. m \in 0..Len(ts) /\ p + m <= Room(s)
  BY <1>1, <1>2, FitFacts
<1>4. SubSeq(ts, 1, m) \in Seq(Token) /\ Len(SubSeq(ts, 1, m)) = m
  BY <1>3, PrefixFacts
<1>5. /\ fs \in Seq(Entry) /\ Len(fs) = LargerOf(Len(es), p + m)
      /\ \A i \in 1..p : fs[i] = es[i]
  BY <1>2, <1>4, SteppedFacts
<1>6. LargerOf(Len(es), p + m) >= Len(es) /\ LargerOf(Len(es), p + m) <= Room(s)
  BY <1>1, <1>3, LargerFacts
<1> QED
  BY <1>5, <1>6 DEF Kept

(* A batched prefill that fails, before it has its slots or behind them.   *)
LEMMA BatchedFailuresFacts ==
  ASSUME NEW s \in Session, Room(s) \in Nat, NEW es \in Seq(Entry), Len(es) <= Room(s),
         NEW p \in 0..Len(es), NEW ts \in Seq(Token),
         NEW fs \in BatchedFailures(s, es, p, ts)
  PROVE  Kept(es, p, fs, Room(s))
<1> DEFINE fit == Fit(s, p, Len(ts))
           points == FailPoints(Len(ts), fit)
<1>1. Len(es) \in Nat /\ Len(ts) \in Nat /\ p \in 0..Room(s)
  BY LenProperties
<1>2. \A m \in points : m \in 0..Len(ts) /\ p + m <= Room(s)
  BY <1>1, FitFacts
<1>3. fit = Len(ts) => p + Len(ts) <= Room(s)
  BY <1>1, FitFacts
<1>4. \/ \E m \in points : fs = Batched(es, p, SubSeq(ts, 1, m), 0)
      \/ \E m \in points : fit = Len(ts) /\ fs = Batched(es, p, ts, m)
  BY DEF BatchedFailures
<1> HIDE DEF fit, points
<1>5. ASSUME NEW m \in points, fs = Batched(es, p, SubSeq(ts, 1, m), 0)
      PROVE  Kept(es, p, fs, Room(s))
  <2> DEFINE some == SubSeq(ts, 1, m)
  <2>1. some \in Seq(Token) /\ Len(some) = m /\ 0 \in 0..Len(some)
    BY <1>2, PrefixFacts
  <2> HIDE DEF some
  <2>2. /\ fs \in Seq(Entry) /\ Len(fs) = LargerOf(Len(es), p + m)
        /\ \A i \in 1..p : fs[i] = es[i]
    BY <1>5, <2>1, BatchedFacts DEF some
  <2>3. LargerOf(Len(es), p + m) >= Len(es) /\ LargerOf(Len(es), p + m) <= Room(s)
    BY <1>1, <1>2, LargerFacts
  <2> QED
    BY <2>2, <2>3 DEF Kept
<1>6. ASSUME NEW m \in points, fit = Len(ts), fs = Batched(es, p, ts, m)
      PROVE  Kept(es, p, fs, Room(s))
  <2>1. /\ fs \in Seq(Entry) /\ Len(fs) = LargerOf(Len(es), p + Len(ts))
        /\ \A i \in 1..p : fs[i] = es[i]
    BY <1>2, <1>6, BatchedFacts
  <2>2. /\ LargerOf(Len(es), p + Len(ts)) >= Len(es)
        /\ LargerOf(Len(es), p + Len(ts)) <= Room(s)
    BY <1>1, <1>3, <1>6, LargerFacts
  <2> QED
    BY <2>1, <2>2 DEF Kept
<1> QED
  BY <1>4, <1>5, <1>6

(* Both kinds of prefill at once.                                          *)
LEMMA PrefillFailuresFacts ==
  ASSUME NEW s \in Session, Room(s) \in Nat, NEW es \in Seq(Entry), Len(es) <= Room(s),
         NEW p \in 0..Len(es), NEW ts \in Seq(Token),
         NEW fs \in PrefillFailures(s, es, p, ts)
  PROVE  Kept(es, p, fs, Room(s))
  BY SteppedFailuresFacts, BatchedFailuresFacts DEF PrefillFailures

(* Both kinds of prefill, when they succeed.                               *)
LEMMA PrefilledFacts ==
  ASSUME NEW es \in Seq(Entry), NEW p \in 0..Len(es), NEW ts \in Seq(Token)
  PROVE  /\ Prefilled(es, p, ts) \in Seq(Entry)
         /\ Len(Prefilled(es, p, ts)) = LargerOf(Len(es), p + Len(ts))
         /\ \A i \in 1..p : Prefilled(es, p, ts)[i] = es[i]
         /\ \A i \in 1..Len(ts) : Prefilled(es, p, ts)[p + i].tok = ts[i]
<1>1. Len(ts) \in 0..Len(ts)
  BY LenProperties
<1> QED
  BY <1>1, SteppedFacts, BatchedFacts DEF Prefilled

-----------------------------------------------------------------------------
(* A session and its snapshot                                              *)

(* The place j in what a session was fed and then generated.               *)
Said(r, l, j) == IF j <= Len(r) THEN r[j] ELSE l

(* The invariant of one session, over its fields: entries k, cursor n,     *)
(* last token l, history r, buffered tokens p and snapshot c.              *)
Good(k, n, l, r, p, c) ==
  /\ k \in Seq(Entry) /\ n \in Nat /\ l \in Token \cup {None}
  /\ r \in Seq(Token) /\ p \in Seq(Token) /\ c \in Snapshots \cup {None}
  /\ n = Len(r) /\ n <= Len(k)
  /\ \A i \in 1..n : k[i].tok = r[i]
  /\ c # None =>
       /\ c \in Snapshots
       /\ c.next_pos = Len(c.recent) /\ c.next_pos <= n
       /\ \A i \in 1..c.next_pos : c.recent[i] = r[i]
  /\ Len(p) <= n + 1
  /\ \A i \in 1..Len(p) : p[i] = Said(r, l, n + 1 - Len(p) + i)

(* A new session, and one that has been cancelled.                         *)
LEMMA GoodCleared == Good(<< >>, 0, None, << >>, << >>, None)
<1>1. << >> \in Seq(Entry) /\ << >> \in Seq(Token) /\ Len(<< >>) = 0
  OBVIOUS
<1> QED
  BY <1>1 DEF Good

(* reset_session and a cache hit: back to the snapshot or to nothing.      *)
LEMMA GoodRewound ==
  ASSUME NEW k, NEW n, NEW l, NEW r, NEW p, NEW c, Good(k, n, l, r, p, c),
         NEW w, w = IF c # None THEN c ELSE Fresh
  PROVE  /\ Good(Truncated(k, w.next_pos), w.next_pos, w.last_token, w.recent, << >>, c)
         /\ Len(Truncated(k, w.next_pos)) <= Len(k)
<1>0. Len(k) \in Nat /\ Len(r) \in Nat /\ << >> \in Seq(Token) /\ Len(<< >>) = 0
  BY LenProperties DEF Good
<1>1. CASE c # None
  <2>1. w = c /\ w \in Snapshots /\ w.next_pos \in Nat /\ w.last_token \in Token /\ w.recent \in Seq(Token)
    BY <1>1 DEF Good, Snapshots
  <2>2. w.next_pos = Len(w.recent) /\ w.next_pos <= n /\ n <= Len(k) /\ k \in Seq(Entry)
    BY <1>1, <2>1 DEF Good
  <2>3. SmallerOf(w.next_pos, Len(k)) = w.next_pos
    BY <1>0, <2>1, <2>2 DEF SmallerOf, Good
  <2>4. Truncated(k, w.next_pos) = SubSeq(k, 1, w.next_pos)
    BY <2>3 DEF Truncated
  <2>5. /\ w.next_pos \in 0..Len(k) /\ w.next_pos <= n
    BY <1>0, <2>1, <2>2 DEF Good
  <2>6. /\ SubSeq(k, 1, w.next_pos) \in Seq(Entry)
        /\ Len(SubSeq(k, 1, w.next_pos)) = w.next_pos
        /\ \A i \in 1..w.next_pos : SubSeq(k, 1, w.next_pos)[i] = k[i]
    BY <2>2, <2>5, PrefixFacts
  <2>7. \A i \in 1..w.next_pos : i \in 1..n
    BY <2>1, <2>5 DEF Good
  <2>8. \A i \in 1..w.next_pos : k[i].tok = w.recent[i]
    BY <1>1, <2>1, <2>7 DEF Good
  <2>9. Good(SubSeq(k, 1, w.next_pos), w.next_pos, w.last_token, w.recent, << >>, c)
    BY <1>0, <1>1, <2>1, <2>2, <2>6, <2>8 DEF Good
  <2>10. Len(SubSeq(k, 1, w.next_pos)) <= Len(k)
    BY <1>0, <2>5, <2>6
  <2> QED
    BY <2>4, <2>9, <2>10, Zenon
<1>2. CASE c = None
  <2>1. w.next_pos = 0 /\ w.last_token = None /\ w.recent = << >>
    BY <1>2 DEF Fresh
  <2>2. SmallerOf(0, Len(k)) = 0 /\ k \in Seq(Entry) /\ 0 \in 0..Len(k)
    BY <1>0 DEF SmallerOf, Good
  <2>3. Truncated(k, 0) = SubSeq(k, 1, 0)
    BY <2>2 DEF Truncated
  <2>4. SubSeq(k, 1, 0) \in Seq(Entry) /\ Len(SubSeq(k, 1, 0)) = 0
    BY <2>2, PrefixFacts
  <2> QED
    BY <1>0, <1>2, <2>1, <2>3, <2>4 DEF Good
<1> QED
  BY <1>1, <1>2

(* A failed run leaves more positions, and no other entries below n.       *)
LEMMA GoodFailed ==
  ASSUME NEW k, NEW n, NEW l, NEW r, NEW p, NEW c, Good(k, n, l, r, p, c),
         NEW fs, NEW room, Kept(k, n, fs, room)
  PROVE  Good(fs, n, l, r, p, c) /\ Good(fs, n, l, r, << >>, c)
<1>1. Len(k) \in Nat /\ Len(fs) \in Nat /\ n \in Nat /\ fs \in Seq(Entry)
  BY LenProperties DEF Good, Kept
<1>2. n <= Len(fs)
  BY <1>1 DEF Good, Kept
<1>3. \A i \in 1..n : fs[i].tok = r[i]
  BY DEF Good, Kept
<1>4. << >> \in Seq(Token) /\ Len(<< >>) = 0
  OBVIOUS
<1> QED
  BY <1>1, <1>2, <1>3, <1>4 DEF Good

(* A history that goes on with ts.                                         *)
LEMMA Longer ==
  ASSUME NEW S, NEW r \in Seq(S), NEW ts \in Seq(S)
  PROVE  /\ r \o ts \in Seq(S)
         /\ Len(r \o ts) = Len(r) + Len(ts)
         /\ Len(r) \in Nat /\ Len(ts) \in Nat
         /\ \A i \in 1..Len(r) : (r \o ts)[i] = r[i]
         /\ \A i \in 1..Len(ts) : (r \o ts)[Len(r) + i] = ts[i]
<1>1. r \o ts \in Seq(S) /\ Len(r \o ts) = Len(r) + Len(ts)
  BY ConcatProperties
<1>2. Len(r) \in Nat /\ Len(ts) \in Nat
  BY LenProperties
<1>3. \A i \in 1..(Len(r) + Len(ts)) : (r \o ts)[i] = IF i <= Len(r) THEN r[i] ELSE ts[i - Len(r)]
  BY ConcatProperties
<1>4. \A i \in 1..Len(r) : (r \o ts)[i] = r[i]
  BY <1>2, <1>3
<1>5. ASSUME NEW i \in 1..Len(ts) PROVE (r \o ts)[Len(r) + i] = ts[i]
  <2>1. /\ Len(r) + i \in 1..(Len(r) + Len(ts))
        /\ ~(Len(r) + i <= Len(r)) /\ (Len(r) + i) - Len(r) = i
    BY <1>2
  <2> QED
    BY <1>3, <2>1
<1> QED
  BY <1>1, <1>2, <1>4, <1>5

(* A run that succeeds: k2 has the entries of ts behind those of r.        *)
LEMMA GoodExtended ==
  ASSUME NEW k, NEW n, NEW l, NEW r, NEW p, NEW c, Good(k, n, l, r, p, c),
         NEW ts \in Seq(Token), NEW k2 \in Seq(Entry), n + Len(ts) <= Len(k2),
         \A i \in 1..n : k2[i] = k[i],
         \A i \in 1..Len(ts) : k2[n + i].tok = ts[i],
         NEW l2 \in Token \cup {None}
  PROVE  Good(k2, n + Len(ts), l2, r \o ts, << >>, c)
<1> DEFINE m == n + Len(ts)
           h == r \o ts
<1>1. /\ r \in Seq(Token) /\ n = Len(r) /\ n \in Nat /\ Len(ts) \in Nat
      /\ c \in Snapshots \cup {None}
  BY LenProperties DEF Good
<1>2. /\ h \in Seq(Token) /\ Len(h) = m /\ m \in Nat
      /\ \A i \in 1..n : h[i] = r[i]
      /\ \A i \in 1..Len(ts) : h[n + i] = ts[i]
  BY <1>1, Longer
<1>3. ASSUME NEW i \in 1..m PROVE k2[i].tok = h[i]
  <2>1. CASE i \in 1..n
    BY <1>2, <2>1 DEF Good
  <2>2. CASE i \notin 1..n
    <3>1. (i - n) \in 1..Len(ts) /\ n + (i - n) = i
      BY <1>1, <2>2
    <3> QED
      BY <1>2, <3>1
  <2> QED
    BY <2>1, <2>2
<1> HIDE DEF h
<1>4. c # None =>
        /\ c \in Snapshots
        /\ c.next_pos = Len(c.recent) /\ c.next_pos <= m
        /\ \A i \in 1..c.next_pos : c.recent[i] = h[i]
  <2> SUFFICES ASSUME c # None
               PROVE  /\ c \in Snapshots
                      /\ c.next_pos = Len(c.recent) /\ c.next_pos <= m
                      /\ \A i \in 1..c.next_pos : c.recent[i] = h[i]
    OBVIOUS
  <2>1. /\ c \in Snapshots /\ c.next_pos = Len(c.recent) /\ c.next_pos <= n
        /\ \A i \in 1..c.next_pos : c.recent[i] = r[i]
    BY DEF Good
  <2>2. c.next_pos \in Nat
    BY <2>1 DEF Snapshots
  <2>3. \A i \in 1..c.next_pos : i \in 1..n
    BY <1>1, <2>1, <2>2
  <2> QED
    BY <1>1, <1>2, <2>1, <2>2, <2>3
<1>5. << >> \in Seq(Token) /\ Len(<< >>) = 0
  OBVIOUS
<1> HIDE DEF m
<1>6. m <= Len(k2)
  BY DEF m
<1>7. Good(k2, m, l2, h, << >>, c)
  BY <1>1, <1>2, <1>3, <1>4, <1>5, <1>6 DEF Good
<1> QED
  BY <1>7 DEF m, h

(* The snapshot taken when a prompt has been processed.                    *)
LEMMA GoodWithSnapshot ==
  ASSUME NEW k, NEW n, NEW l \in Token, NEW r, NEW c, Good(k, n, l, r, << >>, c),
         NEW ts \in Seq(Token)
  PROVE  Good(k, n, l, r, << >>,
              [prompt |-> ts, next_pos |-> n, last_token |-> l, recent |-> r])
<1> DEFINE w == [prompt |-> ts, next_pos |-> n, last_token |-> l, recent |-> r]
<1>1. /\ w \in Snapshots /\ w.next_pos = n /\ w.recent = r
      /\ n = Len(r) /\ n \in Nat /\ n <= n
  BY DEF Good, Snapshots
<1> HIDE DEF w
<1>2. Good(k, n, l, r, << >>, w)
  BY <1>1 DEF Good
<1> QED
  BY <1>2 DEF w

(* A decoded token: the last one joins the history, the new one waits.     *)
LEMMA GoodDecoded ==
  ASSUME NEW k, NEW n, NEW l \in Token, NEW r, NEW p, NEW c, Good(k, n, l, r, p, c),
         NEW k2 \in Seq(Entry), n + 1 <= Len(k2), \A i \in 1..n : k2[i] = k[i],
         k2[n + 1].tok = l, NEW tok \in Token
  PROVE  Good(k2, n + 1, tok, Append(r, l), Append(p, tok), c)
<1> DEFINE h == Append(r, l)
           q == Append(p, tok)
<1>1. /\ r \in Seq(Token) /\ n = Len(r) /\ n \in Nat /\ p \in Seq(Token)
      /\ Len(p) \in Nat /\ Len(p) <= n + 1
      /\ \A i \in 1..Len(p) : p[i] = Said(r, l, n + 1 - Len(p) + i)
  BY LenProperties DEF Good
<1>2. /\ h \in Seq(Token) /\ Len(h) = n + 1 /\ h[n + 1] = l
      /\ \A i \in 1..n : h[i] = r[i]
  BY <1>1, AppendProperties
<1>3. /\ q \in Seq(Token) /\ Len(q) = Len(p) + 1 /\ q[Len(p) + 1] = tok
      /\ \A i \in 1..Len(p) : q[i] = p[i]
  BY <1>1, AppendProperties
<1> HIDE DEF h, q
<1>4. \A i \in 1..(n + 1) : k2[i].tok = h[i]
  <2> TAKE i \in 1..(n + 1)
  <2>1. CASE i = n + 1
    BY <1>2, <2>1
  <2>2. CASE i # n + 1
    <3>1. i \in 1..n
      BY <1>1, <2>2
    <3> QED
      BY <1>2, <3>1 DEF Good
  <2> QED
    BY <2>1, <2>2
<1>5. \A i \in 1..Len(q) : q[i] = Said(h, tok, (n + 1) + 1 - Len(q) + i)
  <2> TAKE i \in 1..Len(q)
  <2>1. CASE i = Len(p) + 1
    <3>1. (n + 1) + 1 - Len(q) + i = n + 2 /\ ~(n + 2 <= Len(h))
      BY <1>1, <1>2, <1>3, <2>1
    <3> QED
      BY <1>3, <2>1, <3>1 DEF Said
  <2>2. CASE i # Len(p) + 1
    <3> DEFINE j == n + 1 - Len(p) + i
    <3>1. i \in 1..Len(p) /\ (n + 1) + 1 - Len(q) + i = j /\ j \in 1..(n + 1)
      BY <1>1, <1>3, <2>2
    <3>2. q[i] = Said(r, l, j)
      BY <1>1, <1>3, <3>1
    <3> HIDE DEF j
    <3>3. Said(r, l, j) = h[j]
      BY <1>1, <1>2, <3>1 DEF Said
    <3> QED
      BY <1>2, <3>1, <3>2, <3>3 DEF Said
  <2> QED
    BY <2>1, <2>2
<1>6. c \in Snapshots \cup {None}
  BY DEF Good
<1>7. c # None =>
        /\ c \in Snapshots
        /\ c.next_pos = Len(c.recent) /\ c.next_pos <= n + 1
        /\ \A i \in 1..c.next_pos : c.recent[i] = h[i]
  <2> SUFFICES ASSUME c # None
               PROVE  /\ c \in Snapshots
                      /\ c.next_pos = Len(c.recent) /\ c.next_pos <= n + 1
                      /\ \A i \in 1..c.next_pos : c.recent[i] = h[i]
    OBVIOUS
  <2>1. /\ c \in Snapshots /\ c.next_pos = Len(c.recent) /\ c.next_pos <= n
        /\ \A i \in 1..c.next_pos : c.recent[i] = r[i]
    BY DEF Good
  <2>2. c.next_pos \in Nat
    BY <2>1 DEF Snapshots
  <2>3. \A i \in 1..c.next_pos : i \in 1..n
    BY <1>1, <2>1, <2>2
  <2> QED
    BY <1>1, <1>2, <2>1, <2>2, <2>3
<1>8. Len(q) <= (n + 1) + 1 /\ n + 1 \in Nat
  BY <1>1, <1>3
<1>9. Good(k2, n + 1, tok, h, q, c)
  BY <1>2, <1>3, <1>4, <1>5, <1>6, <1>7, <1>8 DEF Good
<1> QED
  BY <1>9 DEF h, q

(* A delivered token leaves the front of the buffer.                       *)
LEMMA GoodDelivered ==
  ASSUME NEW k, NEW n, NEW l, NEW r, NEW p, NEW c, Good(k, n, l, r, p, c), p # << >>
  PROVE  Good(k, n, l, r, Tail(p), c)
<1>1. /\ n \in Nat /\ p \in Seq(Token) /\ Len(p) \in Nat /\ Len(p) # 0 /\ Len(p) <= n + 1
      /\ \A i \in 1..Len(p) : p[i] = Said(r, l, n + 1 - Len(p) + i)
  BY LenProperties, EmptySeq DEF Good
<1> DEFINE q == Tail(p)
<1>2. q \in Seq(Token) /\ Len(q) = Len(p) - 1 /\ \A i \in 1..Len(q) : q[i] = p[i + 1]
  BY <1>1
<1> HIDE DEF q
<1>3. \A i \in 1..Len(q) : q[i] = Said(r, l, n + 1 - Len(q) + i)
  <2> TAKE i \in 1..Len(q)
  <2>1. i + 1 \in 1..Len(p) /\ n + 1 - Len(q) + i = n + 1 - Len(p) + (i + 1)
    BY <1>1, <1>2
  <2> QED
    BY <1>1, <1>2, <2>1
<1>4. Len(q) <= n + 1
  BY <1>1, <1>2
<1>5. Good(k, n, l, r, q, c)
  BY <1>2, <1>3, <1>4 DEF Good
<1> QED
  BY <1>5 DEF q

-----------------------------------------------------------------------------
(* The inductive invariant                                                 *)

(* What is not kept per session, and the states.                           *)
Scalars ==
  /\ next_session_id \in 1..(MaxSessions + 1)
  /\ live \subseteq 1..(next_session_id - 1)
  /\ state \in [Session -> States]
  /\ free \in Nat
  /\ rr \in Seq(Session)
  /\ thermal \in ThermalLevels
  /\ policy \in Policies
  /\ burst \in Bursts \cup {Idle}

Fields ==
  /\ kv \in [Session -> Seq(Entry)]
  /\ next_pos \in [Session -> Nat]
  /\ last_token \in [Session -> Token \cup {None}]
  /\ recent \in [Session -> Seq(Token)]
  /\ pending_out \in [Session -> Seq(Token)]
  /\ snapshot \in [Session -> Snapshots \cup {None}]
  /\ \A s \in Session :
       Good(kv[s], next_pos[s], last_token[s], recent[s], pending_out[s], snapshot[s])

RingOK ==
  /\ Distinct(rr)
  /\ \A s \in Session :
       /\ InRing(rr, s) =>
            s \in live /\ state[s] \in {"Decoding", "Terminal"} /\ last_token[s] # None
       /\ state[s] = "Decoding" => InRing(rr, s)

(* What a burst has still to decode is as it was when the burst began.     *)
BurstOK ==
  burst # Idle => \A s \in burst.todo : state[s] = "Decoding" /\ last_token[s] # None

IInv == Scalars /\ Fields /\ RingOK /\ BurstOK

(* The live sessions are among those that can be created.                  *)
LEMMA LiveFacts ==
  ASSUME Scalars
  PROVE  live \subseteq Session /\ IsFiniteSet(live) /\ Cardinality(live) \in Nat
<1> DEFINE n == next_session_id - 1
<1>1. /\ MaxSessions \in Nat /\ next_session_id \in 1..(MaxSessions + 1)
      /\ live \subseteq 1..n
  BY EngineAssumption DEF Scalars
<1>2. n \in Int /\ 1..n \subseteq Session
  BY <1>1 DEF Session
<1> HIDE DEF n
<1>3. IsFiniteSet(1..n)
  BY <1>2, FS_Interval
<1>4. live \subseteq Session /\ IsFiniteSet(live)
  BY <1>1, <1>2, <1>3, FS_Subset
<1> QED
  BY <1>4, FS_CardinalityType

(* A scan of the ring has a number of calls.                               *)
LEMMA ScanType ==
  ASSUME Scalars
  PROVE  Scan \in Nat
  BY LiveFacts, LargerFacts DEF Scan

(* The initial states satisfy it.                                          *)
LEMMA InitIInv == Init => IInv
<1> SUFFICES ASSUME Init PROVE IInv
  OBVIOUS
<1>1. Scalars
  BY EngineAssumption DEF Init, Scalars, States
<1>2. Fields
  <2>1. << >> \in Seq(Entry) /\ << >> \in Seq(Token) /\ 0 \in Nat
    OBVIOUS
  <2>2. /\ kv \in [Session -> Seq(Entry)] /\ recent \in [Session -> Seq(Token)]
        /\ pending_out \in [Session -> Seq(Token)] /\ next_pos \in [Session -> Nat]
        /\ last_token \in [Session -> Token \cup {None}]
        /\ snapshot \in [Session -> Snapshots \cup {None}]
    BY <2>1 DEF Init
  <2>3. ASSUME NEW s \in Session
        PROVE  /\ kv[s] = << >> /\ next_pos[s] = 0 /\ last_token[s] = None
               /\ recent[s] = << >> /\ pending_out[s] = << >> /\ snapshot[s] = None
    BY DEF Init
  <2>4. ASSUME NEW s \in Session
        PROVE  Good(kv[s], next_pos[s], last_token[s], recent[s], pending_out[s], snapshot[s])
    BY <2>3, GoodCleared
  <2> QED
    BY <2>2, <2>4 DEF Fields
<1>3. RingOK
  BY DEF Init, RingOK, Distinct, InRing
<1>4. BurstOK
  BY DEF Init, BurstOK
<1> QED
  BY <1>1, <1>2, <1>3, <1>4 DEF IInv

(* SetKv within the room there is.                                         *)
LEMMA SetKvFacts ==
  ASSUME Scalars, Fields, NEW s \in Session, NEW es \in Seq(Entry),
         Len(es) <= Room(s), SetKv(s, es)
  PROVE  free' \in Nat /\ kv' = [kv EXCEPT ![s] = es]
<1>1. Len(es) \in 0..Room(s)
  BY LenProperties, RoomFacts DEF Scalars, Fields
<1>2. free + BlocksFor(Len(kv[s])) - BlocksFor(Len(es)) \in Nat
  BY <1>1, RoomFacts DEF Scalars, Fields
<1> QED
  BY <1>2 DEF SetKv

(* One session's fields change, into good ones.                            *)
LEMMA FieldsStep ==
  ASSUME Fields, NEW s \in Session,
         NEW k, NEW n, NEW l, NEW r, NEW p, NEW c, Good(k, n, l, r, p, c),
         kv' = [kv EXCEPT ![s] = k],
         next_pos' = [next_pos EXCEPT ![s] = n],
         last_token' = [last_token EXCEPT ![s] = l],
         recent' = [recent EXCEPT ![s] = r],
         pending_out' = [pending_out EXCEPT ![s] = p],
         snapshot' = [snapshot EXCEPT ![s] = c]
  PROVE  Fields'
<1>1. /\ k \in Seq(Entry) /\ n \in Nat /\ l \in Token \cup {None}
      /\ r \in Seq(Token) /\ p \in Seq(Token) /\ c \in Snapshots \cup {None}
  BY DEF Good
<1>2. /\ kv' \in [Session -> Seq(Entry)]
      /\ next_pos' \in [Session -> Nat]
      /\ last_token' \in [Session -> Token \cup {None}]
      /\ recent' \in [Session -> Seq(Token)]
      /\ pending_out' \in [Session -> Seq(Token)]
      /\ snapshot' \in [Session -> Snapshots \cup {None}]
  BY <1>1 DEF Fields
<1>3. ASSUME NEW t \in Session
      PROVE  Good(kv'[t], next_pos'[t], last_token'[t], recent'[t], pending_out'[t], snapshot'[t])
  <2>1. CASE t = s
    <3>1. /\ kv'[t] = k /\ next_pos'[t] = n /\ last_token'[t] = l
          /\ recent'[t] = r /\ pending_out'[t] = p /\ snapshot'[t] = c
      BY <2>1 DEF Fields
    <3> QED
      BY <3>1
  <2>2. CASE t # s
    <3>1. /\ kv'[t] = kv[t] /\ next_pos'[t] = next_pos[t] /\ last_token'[t] = last_token[t]
          /\ recent'[t] = recent[t] /\ pending_out'[t] = pending_out[t]
          /\ snapshot'[t] = snapshot[t]
      BY <2>2 DEF Fields
    <3> QED
      BY <3>1 DEF Fields
  <2> QED
    BY <2>1, <2>2
<1> QED
  BY <1>2, <1>3 DEF Fields

(* A field that does not change.                                           *)
LEMMA Same ==
  ASSUME NEW S, NEW f \in [Session -> S], NEW s \in Session
  PROVE  f = [f EXCEPT ![s] = f[s]]
  OBVIOUS

(* The session's own good fields.                                          *)
LEMMA OwnGood ==
  ASSUME Scalars, Fields, NEW s \in Session
  PROVE  /\ Good(kv[s], next_pos[s], last_token[s], recent[s], pending_out[s], snapshot[s])
         /\ Room(s) \in Nat /\ Len(kv[s]) \in Nat /\ Len(kv[s]) <= Room(s)
         /\ kv[s] \in Seq(Entry) /\ next_pos[s] \in 0..Len(kv[s])
         /\ next_pos[s] \in 0..Room(s)
<1>1. /\ Good(kv[s], next_pos[s], last_token[s], recent[s], pending_out[s], snapshot[s])
      /\ kv[s] \in Seq(Entry)
  BY DEF Fields
<1>2. Room(s) \in Nat /\ Len(kv[s]) \in Nat /\ Len(kv[s]) <= Room(s)
  BY RoomFacts DEF Scalars, Fields
<1>3. next_pos[s] \in Nat /\ next_pos[s] <= Len(kv[s])
  BY <1>1 DEF Good
<1> QED
  BY <1>1, <1>2, <1>3

-----------------------------------------------------------------------------
(* The ring and the states, by what an action does to them                 *)

(* cancel_session, reset_session and suspend_session take the session out. *)
LEMMA RingLeft ==
  ASSUME Scalars, RingOK, NEW s \in Session,
         rr' = RingRemove(rr, s), live \ {s} \subseteq live',
         state'[s] # "Decoding",
         \A t \in Session \ {s} : state'[t] = state[t] /\ last_token'[t] = last_token[t]
  PROVE  RingOK' /\ rr' \in Seq(Session)
<1>1. /\ rr' \in Seq(Session) /\ Distinct(rr')
      /\ \A t : InRing(rr', t) <=> InRing(rr, t) /\ t # s
  BY RingRemoveFacts DEF Scalars, RingOK
<1> QED
  BY <1>1 DEF RingOK

(* submit_tokens_cached and resume_session put a decoding session in.      *)
LEMMA RingJoined ==
  ASSUME Scalars, RingOK, NEW s \in Session,
         rr' = RingAdd(rr, s), live' = live, s \in live,
         state'[s] = "Decoding", last_token'[s] # None,
         \A t \in Session \ {s} : state'[t] = state[t] /\ last_token'[t] = last_token[t]
  PROVE  RingOK' /\ rr' \in Seq(Session)
<1>1. /\ rr' \in Seq(Session) /\ Distinct(rr')
      /\ \A t : InRing(rr', t) <=> InRing(rr, t) \/ t = s
  BY RingAddFacts DEF Scalars, RingOK
<1> QED
  BY <1>1 DEF RingOK

(* A session outside the ring changes its state, and does not decode.      *)
LEMMA RingLeftAlone ==
  ASSUME Scalars, RingOK, NEW s \in Session, ~InRing(rr, s),
         rr' = rr, live' = live, state'[s] # "Decoding",
         \A t \in Session \ {s} : state'[t] = state[t] /\ last_token'[t] = last_token[t]
  PROVE  RingOK' /\ rr' \in Seq(Session)
  BY DEF Scalars, RingOK

(* step_decode turns the ring; a session it decodes may end.               *)
LEMMA RingTurned ==
  ASSUME Scalars, RingOK, rr' \in Seq(Session), Distinct(rr'),
         \A t : InRing(rr', t) <=> InRing(rr, t), live' = live,
         \A t \in Session :
           /\ state'[t] \in {state[t], "Terminal"}
           /\ last_token[t] # None => last_token'[t] # None
  PROVE  RingOK'
  BY DEF RingOK

(* Turning the ring keeps its members.                                     *)
LEMMA TurnFacts ==
  ASSUME Scalars, RingOK, NEW k \in Nat, rr' = Rotate(rr, k)
  PROVE  /\ rr' \in Seq(Session) /\ Distinct(rr')
         /\ \A t : InRing(rr', t) <=> InRing(rr, t)
  BY RotateFacts DEF Scalars, RingOK

-----------------------------------------------------------------------------
(* The client's calls                                                      *)

(* create_session: the new id was no member of anything.                   *)
LEMMA CreateSessionKeeps == IInv /\ CreateSession => IInv'
<1> SUFFICES ASSUME IInv, CreateSession PROVE IInv'
  OBVIOUS
<1> USE DEF IInv, CreateSession, sessionVars
<1>1. Scalars'
  <2>1. /\ next_session_id' \in 1..(MaxSessions + 1)
        /\ live' \subseteq 1..(next_session_id' - 1)
    BY EngineAssumption DEF Scalars
  <2> QED
    BY <2>1 DEF Scalars
<1>2. Fields'
  BY DEF Fields
<1>3. RingOK'
  BY DEF RingOK
<1>4. BurstOK'
  BY DEF BurstOK
<1> QED
  BY <1>1, <1>2, <1>3, <1>4

(* cancel_session: all its blocks are room again.                          *)
LEMMA CancelSessionKeeps == \A s \in Session : IInv /\ CancelSession(s) => IInv'
<1> SUFFICES ASSUME NEW s \in Session, IInv, CancelSession(s) PROVE IInv'
  OBVIOUS
<1>1. Scalars /\ Fields /\ RingOK /\ BurstOK
  BY DEF IInv
<1>2. << >> \in Seq(Entry) /\ Len(<< >>) = 0
  OBVIOUS
<1>3. free' \in Nat /\ kv' = [kv EXCEPT ![s] = << >>]
  <2>1. Room(s) \in Nat
    BY <1>1, OwnGood
  <2>2. Len(<< >>) <= Room(s)
    BY <1>2, <2>1
  <2>3. SetKv(s, << >>)
    BY DEF CancelSession
  <2> QED
    BY <1>1, <1>2, <2>2, <2>3, SetKvFacts
<1>4. Fields'
  BY <1>1, <1>3, GoodCleared, FieldsStep DEF CancelSession
<1>5. /\ state'[s] = "Queued"
      /\ \A t \in Session \ {s} : state'[t] = state[t] /\ last_token'[t] = last_token[t]
  BY <1>1 DEF CancelSession, Scalars, Fields
<1>6. RingOK' /\ rr' \in Seq(Session)
  BY <1>1, <1>5, RingLeft DEF CancelSession
<1>7. Scalars'
  BY <1>1, <1>3, <1>6 DEF CancelSession, Scalars, States
<1>8. BurstOK'
  BY DEF CancelSession, BurstOK
<1> QED
  BY <1>4, <1>6, <1>7, <1>8 DEF IInv

(* What a cache hit and a reset do to the fields.                          *)
LEMMA RestoreKeepsFields ==
  ASSUME Scalars, Fields, NEW s \in Session, RestoreSnapshot(s), UNCHANGED snapshot
  PROVE  /\ Fields' /\ free' \in Nat
         /\ \A t \in Session \ {s} : last_token'[t] = last_token[t]
         /\ snapshot[s] # None => last_token'[s] # None
<1> DEFINE w == Rewound(s)
           k == Truncated(kv[s], w.next_pos)
<1>1. w = IF snapshot[s] # None THEN snapshot[s] ELSE Fresh
  BY DEF Rewound
<1>2. /\ Good(kv[s], next_pos[s], last_token[s], recent[s], pending_out[s], snapshot[s])
      /\ Len(kv[s]) \in Nat /\ Room(s) \in Nat /\ Len(kv[s]) <= Room(s)
  BY OwnGood
<1> HIDE DEF w
<1>3. /\ Good(k, w.next_pos, w.last_token, w.recent, << >>, snapshot[s])
      /\ Len(k) <= Len(kv[s])
  BY <1>1, <1>2, GoodRewound
<1>4. /\ SetKv(s, k)
      /\ next_pos' = [next_pos EXCEPT ![s] = w.next_pos]
      /\ last_token' = [last_token EXCEPT ![s] = w.last_token]
      /\ recent' = [recent EXCEPT ![s] = w.recent]
      /\ pending_out' = [pending_out EXCEPT ![s] = << >>]
  BY DEF RestoreSnapshot, w
<1> HIDE DEF k
<1>5. k \in Seq(Entry) /\ Len(k) \in Nat /\ Len(k) <= Room(s)
  <2>1. k \in Seq(Entry)
    BY <1>3 DEF Good
  <2>2. Len(k) \in Nat
    BY <2>1, LenProperties
  <2> QED
    BY <1>2, <1>3, <2>1, <2>2
<1>6. free' \in Nat /\ kv' = [kv EXCEPT ![s] = k]
  BY <1>4, <1>5, SetKvFacts
<1>7. snapshot' = [snapshot EXCEPT ![s] = snapshot[s]]
  BY Same DEF Fields
<1>8. Fields'
  BY <1>3, <1>4, <1>6, <1>7, FieldsStep
<1>9. \A t \in Session \ {s} : last_token'[t] = last_token[t]
  BY <1>4 DEF Fields
<1>10. ASSUME snapshot[s] # None PROVE last_token'[s] # None
  <2>1. last_token'[s] = snapshot[s].last_token
    BY <1>1, <1>4, <1>10 DEF Fields
  <2>2. snapshot[s] \in Snapshots
    BY <1>10 DEF Fields
  <2> QED
    BY <2>1, <2>2, EngineAssumption DEF Snapshots
<1> QED
  BY <1>6, <1>8, <1>9, <1>10

(* reset_session: back to the snapshot, out of the ring.                   *)
LEMMA ResetSessionKeeps == \A s \in Session : IInv /\ ResetSession(s) => IInv'
<1> SUFFICES ASSUME NEW s \in Session, IInv, ResetSession(s) PROVE IInv'
  OBVIOUS
<1>1. Scalars /\ Fields /\ RingOK /\ BurstOK
  BY DEF IInv
<1>2. /\ Fields' /\ free' \in Nat
      /\ \A t \in Session \ {s} : last_token'[t] = last_token[t]
  BY <1>1, RestoreKeepsFields DEF ResetSession
<1>3. state'[s] = "Queued" /\ \A t \in Session \ {s} : state'[t] = state[t]
  BY <1>1 DEF ResetSession, Scalars
<1>4. RingOK' /\ rr' \in Seq(Session)
  BY <1>1, <1>2, <1>3, RingLeft DEF ResetSession
<1>5. Scalars'
  BY <1>1, <1>2, <1>4 DEF ResetSession, Scalars, States
<1>6. BurstOK'
  BY DEF ResetSession, BurstOK
<1> QED
  BY <1>2, <1>4, <1>5, <1>6 DEF IInv

(* suspend_session: out of the ring, the fields as they are.               *)
LEMMA SuspendSessionKeeps == \A s \in Session : IInv /\ SuspendSession(s) => IInv'
<1> SUFFICES ASSUME NEW s \in Session, IInv, SuspendSession(s) PROVE IInv'
  OBVIOUS
<1>1. Scalars /\ Fields /\ RingOK /\ BurstOK
  BY DEF IInv
<1>2. Fields' /\ last_token' = last_token
  BY <1>1 DEF SuspendSession, sessionVars, Fields
<1>3. state'[s] = "Suspended" /\ \A t \in Session \ {s} : state'[t] = state[t]
  BY <1>1 DEF SuspendSession, Scalars
<1>4. RingOK' /\ rr' \in Seq(Session)
  BY <1>1, <1>2, <1>3, RingLeft DEF SuspendSession
<1>5. Scalars'
  BY <1>1, <1>4 DEF SuspendSession, sessionVars, Scalars, States
<1>6. BurstOK'
  BY DEF SuspendSession, BurstOK
<1> QED
  BY <1>2, <1>4, <1>5, <1>6 DEF IInv

(* resume_session: into the ring with a token to decode from.              *)
LEMMA ResumeSessionKeeps == \A s \in Session : IInv /\ ResumeSession(s) => IInv'
<1> SUFFICES ASSUME NEW s \in Session, IInv, ResumeSession(s) PROVE IInv'
  OBVIOUS
<1>1. Scalars /\ Fields /\ RingOK /\ BurstOK
  BY DEF IInv
<1>2. Fields' /\ last_token' = last_token
  BY <1>1 DEF ResumeSession, sessionVars, Fields
<1>3. state'[s] = ResumeTarget(s) /\ \A t \in Session \ {s} : state'[t] = state[t]
  BY <1>1 DEF ResumeSession, Scalars
<1>4. RingOK' /\ rr' \in Seq(Session)
  <2>1. CASE last_token[s] # None
    BY <1>1, <1>2, <1>3, <2>1, RingJoined DEF ResumeSession, ResumeTarget
  <2>2. CASE last_token[s] = None
    <3>1. ~InRing(rr, s)
      BY <1>1, <2>2 DEF RingOK
    <3> QED
      BY <1>1, <1>2, <1>3, <2>2, <3>1, RingLeftAlone DEF ResumeSession, ResumeTarget
  <2> QED
    BY <2>1, <2>2
<1>5. Scalars'
  BY <1>1, <1>4 DEF ResumeSession, ResumeTarget, sessionVars, Scalars, States
<1>6. BurstOK'
  BY DEF ResumeSession, BurstOK
<1> QED
  BY <1>2, <1>4, <1>5, <1>6 DEF IInv

(* set_thermal_level touches no session.                                   *)
LEMMA SetThermalLevelKeeps ==
  \A level \in ThermalLevels : IInv /\ SetThermalLevel(level) => IInv'
<1> SUFFICES ASSUME NEW level \in ThermalLevels, IInv, SetThermalLevel(level) PROVE IInv'
  OBVIOUS
<1>1. Scalars' /\ Fields'
  BY DEF IInv, SetThermalLevel, sessionVars, Scalars, Fields
<1>2. RingOK' /\ BurstOK'
  BY DEF IInv, SetThermalLevel, sessionVars, RingOK, BurstOK
<1> QED
  BY <1>1, <1>2 DEF IInv

(* set_scheduling_policy touches no session.                               *)
LEMMA SetSchedulingPolicyKeeps ==
  \A p \in Policies : IInv /\ SetSchedulingPolicy(p) => IInv'
<1> SUFFICES ASSUME NEW p \in Policies, IInv, SetSchedulingPolicy(p) PROVE IInv'
  OBVIOUS
<1>1. Scalars' /\ Fields'
  BY DEF IInv, SetSchedulingPolicy, sessionVars, Scalars, Fields
<1>2. RingOK' /\ BurstOK'
  BY DEF IInv, SetSchedulingPolicy, sessionVars, RingOK, BurstOK
<1> QED
  BY <1>1, <1>2 DEF IInv

-----------------------------------------------------------------------------
(* submit_tokens_cached                                                    *)

(* Three pieces of a history, put together in either order.                *)
LEMMA ConcatThree ==
  ASSUME NEW r \in Seq(Token), NEW b \in Seq(Token), NEW l \in Seq(Token)
  PROVE  (r \o b) \o l = r \o (b \o l)
  BY ConcatAssociative

(* A prompt is its body and its last token.                                *)
LEMMA PromptFacts ==
  ASSUME NEW ts \in Prompts
  PROVE  /\ ts \in Seq(Token) /\ Body(ts) \in Seq(Token) /\ LastOf(ts) \in Token
         /\ Len(ts) \in Nat \ {0} /\ Len(Body(ts)) = Len(ts) - 1
         /\ << LastOf(ts) >> \in Seq(Token) /\ Len(<< LastOf(ts) >>) = 1
         /\ Body(ts) \o << LastOf(ts) >> = ts
<1>1. ts \in Seq(Token) /\ ts # << >>
  BY EngineAssumption
<1>2. Len(ts) \in Nat \ {0}
  BY <1>1, LenProperties, EmptySeq
<1>3. Len(ts) - 1 \in 0..Len(ts) /\ Len(ts) \in 1..Len(ts)
  BY <1>2
<1>4. /\ Body(ts) \in Seq(Token) /\ Len(Body(ts)) = Len(ts) - 1
      /\ \A i \in 1..(Len(ts) - 1) : Body(ts)[i] = ts[i]
  BY <1>1, <1>3, PrefixFacts DEF Body
<1>5. LastOf(ts) \in Token
  BY <1>1, <1>3, ElementOfSeq DEF LastOf
<1> DEFINE b == Body(ts)
           l == << LastOf(ts) >>
<1>6. l \in Seq(Token) /\ Len(l) = 1 /\ l[1] = ts[Len(ts)]
  BY <1>5 DEF LastOf
<1> HIDE DEF b, l
<1>7. b \o l \in Seq(Token) /\ Len(b \o l) = Len(ts)
  <2>1. b \o l \in Seq(Token) /\ Len(b \o l) = Len(b) + Len(l)
    BY <1>4, <1>6, ConcatProperties DEF b
  <2> QED
    BY <1>2, <1>4, <1>6, <2>1 DEF b
<1>8. ASSUME NEW i \in 1..Len(ts) PROVE (b \o l)[i] = ts[i]
  <2>1. i \in 1..(Len(b) + Len(l)) /\ Len(b) = Len(ts) - 1
    BY <1>2, <1>4, <1>6 DEF b
  <2>2. (b \o l)[i] = IF i <= Len(b) THEN b[i] ELSE l[i - Len(b)]
    BY <1>4, <1>6, <2>1, ConcatProperties DEF b
  <2>3. CASE i <= Len(b)
    BY <1>2, <1>4, <2>1, <2>2, <2>3 DEF b
  <2>4. CASE ~(i <= Len(b))
    <3>1. i = Len(ts) /\ i - Len(b) = 1
      BY <1>2, <2>1, <2>4
    <3> QED
      BY <1>6, <2>2, <2>4, <3>1
  <2> QED
    BY <2>3, <2>4
<1>9. b \o l = ts
  BY <1>1, <1>7, <1>8, SeqEqual
<1> QED
  BY <1>1, <1>2, <1>4, <1>5, <1>6, <1>9 DEF b, l

(* A session that may be submitted to is not in the ring.                  *)
LEMMA SubmitOutside ==
  ASSUME RingOK, NEW s \in Session, MaySubmit(s)
  PROVE  ~InRing(rr, s) /\ s \in live
  BY DEF RingOK, MaySubmit, CanTransition

(* A cache hit: back to the snapshot, into the ring.                       *)
LEMMA SubmitHitKeeps ==
  \A s \in Session, ts \in Prompts : IInv /\ SubmitHit(s, ts) => IInv'
<1> SUFFICES ASSUME NEW s \in Session, NEW ts \in Prompts, IInv, SubmitHit(s, ts) PROVE IInv'
  OBVIOUS
<1>1. Scalars /\ Fields /\ RingOK /\ BurstOK
  BY DEF IInv
<1>2. /\ Fields' /\ free' \in Nat /\ last_token'[s] # None
      /\ \A t \in Session \ {s} : last_token'[t] = last_token[t]
  BY <1>1, RestoreKeepsFields DEF SubmitHit, CacheHit
<1>3. state'[s] = "Decoding" /\ \A t \in Session \ {s} : state'[t] = state[t]
  BY <1>1 DEF SubmitHit, Scalars
<1>4. RingOK' /\ rr' \in Seq(Session)
  BY <1>1, <1>2, <1>3, RingJoined DEF SubmitHit, MaySubmit
<1>5. Scalars'
  BY <1>1, <1>2, <1>4 DEF SubmitHit, Scalars, States
<1>6. BurstOK'
  BY DEF SubmitHit, MaySubmit, BurstOK
<1> QED
  BY <1>2, <1>4, <1>5, <1>6 DEF IInv

(* A failed prefill: more positions, and the cursor unmoved.               *)
LEMMA SubmitPrefillFailsKeeps ==
  \A s \in Session, ts \in Prompts : IInv /\ SubmitPrefillFails(s, ts) => IInv'
<1> SUFFICES ASSUME NEW s \in Session, NEW ts \in Prompts, IInv, SubmitPrefillFails(s, ts)
             PROVE  IInv'
  OBVIOUS
<1>1. Scalars /\ Fields /\ RingOK /\ BurstOK
  BY DEF IInv
<1>2. PICK es \in PrefillFailures(s, kv[s], next_pos[s], Body(ts)) : SetKv(s, es)
  BY DEF SubmitPrefillFails
<1>3. Kept(kv[s], next_pos[s], es, Room(s))
  BY <1>1, OwnGood, PromptFacts, PrefillFailuresFacts
<1>4. es \in Seq(Entry) /\ Len(es) <= Room(s)
  BY <1>3 DEF Kept
<1>5. free' \in Nat /\ kv' = [kv EXCEPT ![s] = es]
  BY <1>1, <1>2, <1>4, SetKvFacts
<1>6. Good(es, next_pos[s], last_token[s], recent[s], << >>, snapshot[s])
  BY <1>1, <1>3, OwnGood, GoodFailed
<1>7. /\ next_pos' = [next_pos EXCEPT ![s] = next_pos[s]]
      /\ last_token' = [last_token EXCEPT ![s] = last_token[s]]
      /\ recent' = [recent EXCEPT ![s] = recent[s]]
      /\ snapshot' = [snapshot EXCEPT ![s] = snapshot[s]]
      /\ pending_out' = [pending_out EXCEPT ![s] = << >>]
  BY <1>1, Same DEF SubmitPrefillFails, Fields
<1>8. Fields'
  BY <1>1, <1>5, <1>6, <1>7, FieldsStep
<1>9. /\ state'[s] = "Prefill"
      /\ \A t \in Session \ {s} : state'[t] = state[t] /\ last_token'[t] = last_token[t]
  BY <1>1 DEF SubmitPrefillFails, Scalars
<1>10. RingOK' /\ rr' \in Seq(Session)
  BY <1>1, <1>9, SubmitOutside, RingLeftAlone DEF SubmitPrefillFails
<1>11. Scalars'
  BY <1>1, <1>5, <1>10 DEF SubmitPrefillFails, Scalars, States
<1>12. BurstOK'
  BY DEF SubmitPrefillFails, MaySubmit, BurstOK
<1> QED
  BY <1>8, <1>10, <1>11, <1>12 DEF IInv

(* A prefill that fits leaves the session at the end of its body.          *)
LEMMA BodyPrefilled ==
  ASSUME Scalars, Fields, NEW s \in Session, NEW ts \in Prompts, PrefillFits(s, ts)
  PROVE  LET es == Prefilled(kv[s], next_pos[s], Body(ts))
             pos == next_pos[s] + Len(Body(ts))
         IN  /\ Good(es, pos, last_token[s], recent[s] \o Body(ts), << >>, snapshot[s])
             /\ es \in Seq(Entry) /\ Len(es) <= Room(s) /\ pos \in 0..Len(es)
             /\ Len(es) \in Nat
<1> DEFINE n == next_pos[s]
           b == Body(ts)
           es == Prefilled(kv[s], n, b)
           pos == n + Len(b)
<1>1. /\ Good(kv[s], n, last_token[s], recent[s], pending_out[s], snapshot[s])
      /\ Room(s) \in Nat /\ Len(kv[s]) \in Nat /\ Len(kv[s]) <= Room(s)
      /\ kv[s] \in Seq(Entry) /\ n \in 0..Len(kv[s]) /\ n \in 0..Room(s)
  BY OwnGood
<1>2. b \in Seq(Token) /\ Len(b) \in Nat
  BY PromptFacts, LenProperties
<1>3. n + Len(b) <= Room(s)
  BY <1>1, <1>2, FitFacts DEF PrefillFits
<1> HIDE DEF n, b
<1>4. /\ es \in Seq(Entry) /\ Len(es) = LargerOf(Len(kv[s]), n + Len(b))
      /\ \A i \in 1..n : es[i] = kv[s][i]
      /\ \A i \in 1..Len(b) : es[n + i].tok = b[i]
  BY <1>1, <1>2, PrefilledFacts
<1> HIDE DEF es
<1>5. /\ Len(es) <= Room(s) /\ n + Len(b) <= Len(es)
      /\ Len(es) \in Nat /\ pos \in 0..Len(es)
  BY <1>1, <1>2, <1>3, <1>4, LargerFacts
<1>6. last_token[s] \in Token \cup {None}
  BY DEF Fields
<1>7. Good(es, n + Len(b), last_token[s], recent[s] \o b, << >>, snapshot[s])
  BY <1>1, <1>2, <1>4, <1>5, <1>6, GoodExtended
<1> QED
  BY <1>4, <1>5, <1>7 DEF n, b, es

(* A failed last step: the cursor and the history end with the body.       *)
LEMMA SubmitStepFailsKeeps ==
  \A s \in Session, ts \in Prompts : IInv /\ SubmitStepFails(s, ts) => IInv'
<1> SUFFICES ASSUME NEW s \in Session, NEW ts \in Prompts, IInv, SubmitStepFails(s, ts)
             PROVE  IInv'
  OBVIOUS
<1> DEFINE es == Prefilled(kv[s], next_pos[s], Body(ts))
           pos == next_pos[s] + Len(Body(ts))
<1>1. Scalars /\ Fields /\ RingOK /\ BurstOK
  BY DEF IInv
<1>2. /\ Good(es, pos, last_token[s], recent[s] \o Body(ts), << >>, snapshot[s])
      /\ es \in Seq(Entry) /\ Len(es) <= Room(s) /\ pos \in 0..Len(es)
  BY <1>1, BodyPrefilled DEF SubmitStepFails
<1>3. /\ next_pos' = [next_pos EXCEPT ![s] = pos]
      /\ \E fs \in SteppedFailures(s, es, pos, << LastOf(ts) >>) : SetKv(s, fs)
  BY DEF SubmitStepFails
<1> HIDE DEF es, pos
<1>4. PICK fs \in SteppedFailures(s, es, pos, << LastOf(ts) >>) : SetKv(s, fs)
  BY <1>3
<1>5. Kept(es, pos, fs, Room(s))
  BY <1>1, <1>2, OwnGood, PromptFacts, SteppedFailuresFacts
<1>6. fs \in Seq(Entry) /\ Len(fs) <= Room(s)
  BY <1>5 DEF Kept
<1>7. free' \in Nat /\ kv' = [kv EXCEPT ![s] = fs]
  BY <1>1, <1>4, <1>6, SetKvFacts
<1>8. Good(fs, pos, last_token[s], recent[s] \o Body(ts), << >>, snapshot[s])
  BY <1>2, <1>5, GoodFailed
<1>9. /\ last_token' = [last_token EXCEPT ![s] = last_token[s]]
      /\ recent' = [recent EXCEPT ![s] = recent[s] \o Body(ts)]
      /\ snapshot' = [snapshot EXCEPT ![s] = snapshot[s]]
      /\ pending_out' = [pending_out EXCEPT ![s] = << >>]
  BY <1>1, Same DEF SubmitStepFails, Fields
<1>10. Fields'
  BY <1>1, <1>3, <1>7, <1>8, <1>9, FieldsStep
<1>11. /\ state'[s] = "Prefill"
       /\ \A t \in Session \ {s} : state'[t] = state[t] /\ last_token'[t] = last_token[t]
  BY <1>1 DEF SubmitStepFails, Scalars
<1>12. RingOK' /\ rr' \in Seq(Session)
  BY <1>1, <1>11, SubmitOutside, RingLeftAlone DEF SubmitStepFails
<1>13. Scalars'
  BY <1>1, <1>7, <1>12 DEF SubmitStepFails, Scalars, States
<1>14. BurstOK'
  BY DEF SubmitStepFails, MaySubmit, BurstOK
<1> QED
  BY <1>10, <1>12, <1>13, <1>14 DEF IInv

(* A processed prompt: the history, its snapshot, the first new token.     *)
LEMMA SubmitSucceedsKeeps ==
  \A s \in Session, ts \in Prompts, tok \in Token : IInv /\ SubmitSucceeds(s, ts, tok) => IInv'
<1> SUFFICES ASSUME NEW s \in Session, NEW ts \in Prompts, NEW tok \in Token, IInv,
                    SubmitSucceeds(s, ts, tok)
             PROVE  IInv'
  OBVIOUS
<1> DEFINE es == Prefilled(kv[s], next_pos[s], Body(ts))
           pos == next_pos[s] + Len(Body(ts))
           last == << LastOf(ts) >>
           k == Stepped(es, pos, last)
           said == recent[s] \o ts
           snap == [prompt |-> ts, next_pos |-> pos + 1, last_token |-> tok, recent |-> said]
<1>1. Scalars /\ Fields /\ RingOK /\ BurstOK
  BY DEF IInv
<1>2. /\ Room(s) \in Nat /\ next_pos[s] \in 0..Room(s) /\ next_pos[s] \in Nat
      /\ recent[s] \in Seq(Token)
  BY <1>1, OwnGood DEF Fields
<1>3. /\ ts \in Seq(Token) /\ Len(ts) \in Nat \ {0} /\ Len(Body(ts)) = Len(ts) - 1
      /\ Body(ts) \in Seq(Token) /\ last \in Seq(Token) /\ Len(last) = 1
      /\ Body(ts) \o last = ts
  BY PromptFacts
<1>4. next_pos[s] + Len(ts) <= Room(s)
  BY <1>2, <1>3, FitFacts DEF SubmitSucceeds
<1>5. PrefillFits(s, ts)
  BY <1>2, <1>3, <1>4 DEF PrefillFits, Fit, SmallerOf
<1>6. /\ Good(es, pos, last_token[s], recent[s] \o Body(ts), << >>, snapshot[s])
      /\ es \in Seq(Entry) /\ Len(es) <= Room(s) /\ pos \in 0..Len(es) /\ Len(es) \in Nat
  BY <1>1, <1>5, BodyPrefilled
<1>7. pos + 1 <= Room(s) /\ pos \in Nat
  BY <1>2, <1>3, <1>4
<1>8. /\ SetKv(s, k) /\ next_pos' = [next_pos EXCEPT ![s] = pos + 1]
      /\ last_token' = [last_token EXCEPT ![s] = tok]
      /\ recent' = [recent EXCEPT ![s] = said]
      /\ pending_out' = [pending_out EXCEPT ![s] = << >>]
      /\ snapshot' = [snapshot EXCEPT ![s] = snap]
  BY DEF SubmitSucceeds
<1> HIDE DEF es, pos, last
<1>9. said = (recent[s] \o Body(ts)) \o last
  <2>1. (recent[s] \o Body(ts)) \o last = recent[s] \o (Body(ts) \o last)
    BY <1>2, <1>3, ConcatThree
  <2> QED
    BY <1>3, <2>1
<1> HIDE DEF said
<1>10. /\ k \in Seq(Entry) /\ Len(k) = LargerOf(Len(es), pos + 1)
       /\ \A i \in 1..pos : k[i] = es[i]
       /\ \A i \in 1..Len(last) : k[pos + i].tok = last[i]
  <2>1. /\ k \in Seq(Entry) /\ Len(k) = LargerOf(Len(es), pos + Len(last))
        /\ \A i \in 1..pos : k[i] = es[i]
        /\ \A i \in 1..Len(last) : k[pos + i].tok = last[i]
    BY <1>3, <1>6, SteppedFacts
  <2> QED
    BY <1>3, <2>1
<1> HIDE DEF k
<1>11. Len(k) <= Room(s) /\ pos + 1 <= Len(k)
  BY <1>2, <1>6, <1>7, <1>10, LargerFacts
<1>12. Good(k, pos + 1, tok, said, << >>, snapshot[s])
  <2>1. pos + Len(last) <= Len(k)
    BY <1>3, <1>11
  <2>2. Good(k, pos + Len(last), tok, (recent[s] \o Body(ts)) \o last, << >>, snapshot[s])
    BY <1>3, <1>6, <1>10, <2>1, GoodExtended
  <2> QED
    BY <1>3, <1>9, <2>2
<1>13. Good(k, pos + 1, tok, said, << >>, snap)
  BY <1>3, <1>12, GoodWithSnapshot
<1> HIDE DEF snap
<1>14. free' \in Nat /\ kv' = [kv EXCEPT ![s] = k]
  BY <1>1, <1>8, <1>10, <1>11, SetKvFacts
<1>15. Fields'
  BY <1>1, <1>8, <1>13, <1>14, FieldsStep
<1>16. /\ state'[s] = "Decoding" /\ last_token'[s] # None
       /\ \A t \in Session \ {s} : state'[t] = state[t] /\ last_token'[t] = last_token[t]
  BY <1>1, EngineAssumption DEF SubmitSucceeds, Scalars, Fields
<1>17. RingOK' /\ rr' \in Seq(Session)
  BY <1>1, <1>16, RingJoined DEF SubmitSucceeds, MaySubmit
<1>18. Scalars'
  BY <1>1, <1>14, <1>17 DEF SubmitSucceeds, Scalars, States
<1>19. BurstOK'
  BY DEF SubmitSucceeds, MaySubmit, BurstOK
<1> QED
  BY <1>15, <1>17, <1>18, <1>19 DEF IInv

(* submit_tokens_cached, whatever comes of it.                             *)
LEMMA SubmitKeeps == \A s \in Session, ts \in Prompts : IInv /\ Submit(s, ts) => IInv'
  BY SubmitHitKeeps, SubmitPrefillFailsKeeps, SubmitStepFailsKeeps, SubmitSucceedsKeeps
     DEF Submit

-----------------------------------------------------------------------------
(* step_decode                                                             *)

(* pop_pending_scheduled takes the front of one session's buffer.          *)
LEMMA PopPendingKeepsFields ==
  ASSUME Scalars, Fields, RingOK, PopPending,
         UNCHANGED <<kv, next_pos, last_token, recent, snapshot>>
  PROVE  /\ Fields' /\ rr' \in Seq(Session) /\ Distinct(rr')
         /\ \A t : InRing(rr', t) <=> InRing(rr, t)
<1> DEFINE k == Calls(rr, Scan, Deliverable)
<1>1. k \in Nat /\ Nth(rr, k) \in Deliverable
  BY ScanType, CallsFacts DEF PopPending
<1>2. PICK s \in Session : s = Nth(rr, k) /\ s \in Deliverable
  BY <1>1, LiveFacts DEF Deliverable
<1> DEFINE q == Tail(pending_out[s])
<1>3. rr' = Rotate(rr, k) /\ pending_out' = [pending_out EXCEPT ![s] = q]
  BY <1>2 DEF PopPending
<1>4. Good(kv[s], next_pos[s], last_token[s], recent[s], q, snapshot[s])
  BY <1>2, OwnGood, GoodDelivered DEF Deliverable
<1> HIDE DEF k, q
<1>5. q \in Seq(Token)
  BY <1>4 DEF Good
<1>6. Fields'
  <2>1. pending_out' \in [Session -> Seq(Token)]
    BY <1>3, <1>5 DEF Fields
  <2>2. ASSUME NEW t \in Session
        PROVE  Good(kv[t], next_pos[t], last_token[t], recent[t], pending_out'[t], snapshot[t])
    <3>1. CASE t = s
      <4>1. pending_out'[s] = q
        BY <1>3 DEF Fields
      <4> QED
        BY <1>4, <3>1, <4>1
    <3>2. CASE t # s
      <4>1. pending_out'[t] = pending_out[t]
        BY <1>3, <3>2 DEF Fields
      <4> QED
        BY <4>1 DEF Fields
    <3> QED
      BY <3>1, <3>2
  <2> QED
    BY <2>1, <2>2 DEF Fields
<1> QED
  BY <1>1, <1>3, <1>6, TurnFacts

(* step_decode answers from the buffers.                                   *)
LEMMA StepDeliversKeeps == IInv /\ StepDelivers => IInv'
<1> SUFFICES ASSUME IInv, StepDelivers PROVE IInv'
  OBVIOUS
<1>1. Scalars /\ Fields /\ RingOK /\ BurstOK
  BY DEF IInv
<1>2. /\ Fields' /\ rr' \in Seq(Session) /\ Distinct(rr')
      /\ \A t : InRing(rr', t) <=> InRing(rr, t)
  BY <1>1, PopPendingKeepsFields DEF StepDelivers
<1>3. RingOK'
  BY <1>1, <1>2, RingTurned DEF StepDelivers
<1>4. Scalars' /\ BurstOK'
  BY <1>1, <1>2 DEF StepDelivers, Scalars, BurstOK
<1> QED
  BY <1>2, <1>3, <1>4 DEF IInv

(* step_decode plans a burst, of sessions that are Decoding.               *)
LEMMA StepStartsBurstKeeps == IInv /\ StepStartsBurst => IInv'
<1> SUFFICES ASSUME IInv, StepStartsBurst PROVE IInv'
  OBVIOUS
<1>1. Scalars /\ Fields /\ RingOK /\ BurstOK
  BY DEF IInv
<1>2. Scan \in Nat
  BY <1>1, ScanType
<1>3. /\ rr' \in Seq(Session) /\ Distinct(rr')
      /\ \A t : InRing(rr', t) <=> InRing(rr, t)
  BY <1>1, <1>2, TurnFacts DEF StepStartsBurst
<1>4. RingOK'
  BY <1>1, <1>3, RingTurned DEF StepStartsBurst, sessionVars
<1>5. Fields'
  BY <1>1 DEF StepStartsBurst, sessionVars, Fields
<1>6. BurstBudget(thermal, Scan, BackendCap) \in Nat
  <2>1. MaxActive(thermal, Scan) \in Nat
    BY <1>1, <1>2, EngineAssumption DEF Scalars, MaxActive, Levels
  <2>2. SmallerOf(MaxActive(thermal, Scan), Scan) \in Nat
    BY <1>2, <2>1 DEF SmallerOf
  <2>3. SmallerOf(SmallerOf(MaxActive(thermal, Scan), Scan), BackendCap) \in Nat
    BY <2>2, EngineAssumption DEF SmallerOf
  <2> QED
    BY <2>3 DEF BurstBudget, LargerOf
<1>7. /\ BurstTodo \in SUBSET Session
      /\ \A s \in BurstTodo : state[s] = "Decoding" /\ last_token[s] # None
  <2>1. policy \in {"Fair", "LatencyFirst", "ThroughputFirst"}
    BY <1>1, EngineAssumption DEF Scalars
  <2> QED
    BY <1>1, <2>1, LiveFacts DEF BurstTodo, LatencyPlan, Eligible
<1>8. burst' \in Bursts /\ burst'.todo = BurstTodo
  BY <1>1, <1>6, <1>7 DEF StepStartsBurst, Bursts, Scalars
<1>9. Scalars'
  BY <1>1, <1>3, <1>8 DEF StepStartsBurst, sessionVars, Scalars
<1>10. BurstOK'
  BY <1>7, <1>8 DEF StepStartsBurst, sessionVars, BurstOK
<1> QED
  BY <1>4, <1>5, <1>9, <1>10 DEF IInv

(* decode_one_for_session, whatever session it is called for.              *)
LEMMA DecodeOneKeeps ==
  ASSUME IInv, NEW s \in Session, last_token[s] # None, burst # Idle, burst.left > 0,
         DecodeOne(s), rr' \in Seq(Session), Distinct(rr'),
         \A t : InRing(rr', t) <=> InRing(rr, t)
  PROVE  IInv'
<1> DEFINE l == last_token[s]
           n == next_pos[s]
           one == << l >>
<1>1. Scalars /\ Fields /\ RingOK /\ BurstOK
  BY DEF IInv
<1>2. l \in Token
  BY <1>1 DEF Fields
<1>3. one \in Seq(Token) /\ Len(one) = 1 /\ one[1] = l
  BY <1>2
<1>4. /\ Good(kv[s], n, l, recent[s], pending_out[s], snapshot[s])
      /\ Room(s) \in Nat /\ Len(kv[s]) \in Nat /\ Len(kv[s]) <= Room(s)
      /\ kv[s] \in Seq(Entry) /\ n \in 0..Len(kv[s]) /\ n \in 0..Room(s)
  BY <1>1, OwnGood
<1>5. snapshot' = [snapshot EXCEPT ![s] = snapshot[s]] /\ burst \in Bursts
  BY <1>1, Same DEF DecodeOne, Fields, Scalars
<1>6. CASE DecodeFails(s)
  <2>1. PICK es \in SteppedFailures(s, kv[s], n, one) : SetKv(s, es)
    BY <1>6 DEF DecodeFails
  <2> HIDE DEF one
  <2>2. Kept(kv[s], n, es, Room(s))
    BY <1>3, <1>4, <2>1, SteppedFailuresFacts
  <2>3. es \in Seq(Entry) /\ Len(es) <= Room(s)
    BY <2>2 DEF Kept
  <2>4. free' \in Nat /\ kv' = [kv EXCEPT ![s] = es]
    BY <1>1, <2>1, <2>3, SetKvFacts
  <2>5. Good(es, n, l, recent[s], pending_out[s], snapshot[s])
    BY <1>4, <2>2, GoodFailed
  <2>6. /\ next_pos' = [next_pos EXCEPT ![s] = n]
        /\ last_token' = [last_token EXCEPT ![s] = l]
        /\ recent' = [recent EXCEPT ![s] = recent[s]]
        /\ pending_out' = [pending_out EXCEPT ![s] = pending_out[s]]
    BY <1>1, <1>6, Same DEF DecodeFails, Fields
  <2>7. Fields'
    BY <1>1, <1>5, <2>4, <2>5, <2>6, FieldsStep
  <2>8. RingOK'
    BY <1>1, <1>6, RingTurned DEF DecodeFails, DecodeOne
  <2>9. Scalars' /\ BurstOK'
    BY <1>1, <1>6, <2>4 DEF DecodeFails, DecodeOne, Scalars, BurstOK
  <2> QED
    BY <2>7, <2>8, <2>9 DEF IInv
<1>7. ASSUME NEW tok \in Token, DecodeSucceeds(s, tok) PROVE IInv'
  <2> DEFINE k == Stepped(kv[s], n, one)
  <2>1. /\ SetKv(s, k) /\ next_pos' = [next_pos EXCEPT ![s] = n + 1]
        /\ last_token' = [last_token EXCEPT ![s] = tok]
        /\ recent' = [recent EXCEPT ![s] = Append(recent[s], l)]
        /\ pending_out' = [pending_out EXCEPT ![s] = Append(pending_out[s], tok)]
    BY <1>7 DEF DecodeSucceeds
  <2>2. n + 1 <= Room(s)
    BY <1>4, <1>7, FitFacts DEF DecodeSucceeds
  <2> HIDE DEF one
  <2>3. /\ k \in Seq(Entry) /\ Len(k) = LargerOf(Len(kv[s]), n + Len(one))
        /\ \A i \in 1..n : k[i] = kv[s][i]
        /\ \A i \in 1..Len(one) : k[n + i].tok = one[i]
    BY <1>3, <1>4, SteppedFacts
  <2>3a. Len(k) = LargerOf(Len(kv[s]), n + 1) /\ k[n + 1].tok = l
    <3>1. 1 \in 1..Len(one)
      BY <1>3
    <3> QED
      BY <1>3, <2>3, <3>1
  <2> HIDE DEF k, l, n
  <2>4. /\ Len(k) <= Room(s) /\ n + 1 <= Len(k) /\ k[n + 1].tok = l
    BY <1>4, <2>2, <2>3a, LargerFacts
  <2>5. free' \in Nat /\ kv' = [kv EXCEPT ![s] = k]
    BY <1>1, <2>1, <2>3, <2>4, SetKvFacts
  <2>6. Good(k, n + 1, tok, Append(recent[s], l), Append(pending_out[s], tok), snapshot[s])
    BY <1>2, <1>4, <2>3, <2>4, GoodDecoded
  <2>7. Fields'
    BY <1>1, <1>5, <2>1, <2>5, <2>6, FieldsStep
  <2>8. /\ state' \in [Session -> States]
        /\ state'[s] \in {state[s], "Terminal"}
        /\ \A t \in Session \ {s} : state'[t] = state[t]
    BY <1>1, <1>7 DEF DecodeSucceeds, Scalars, States
  <2>9. last_token'[s] # None /\ \A t \in Session \ {s} : last_token'[t] = last_token[t]
    BY <1>1, <2>1, EngineAssumption DEF Fields
  <2>10. RingOK'
    BY <1>1, <2>8, <2>9, RingTurned DEF DecodeOne
  <2>11. burst' \in Bursts /\ burst'.todo = burst.todo \ {s}
    <3>1. burst' = [burst EXCEPT !.left = burst.left - 1, !.todo = burst.todo \ {s}]
      BY <1>7 DEF DecodeSucceeds
    <3>2. burst.left \in Nat /\ burst.todo \subseteq Session /\ burst.policy \in Policies
      BY <1>5 DEF Bursts
    <3>3. burst.left - 1 \in Nat
      BY <3>2
    <3>4. burst' = [policy |-> burst.policy, left |-> burst.left - 1, todo |-> burst.todo \ {s}]
      BY <1>5, <3>1 DEF Bursts
    <3> QED
      BY <3>2, <3>3, <3>4 DEF Bursts
  <2>12. Scalars'
    BY <1>1, <2>5, <2>8, <2>11 DEF DecodeOne, Scalars
  <2>13. BurstOK'
    BY <1>1, <1>5, <2>8, <2>9, <2>11 DEF BurstOK, Bursts
  <2> QED
    BY <2>7, <2>10, <2>12, <2>13 DEF IInv
<1> QED
  BY <1>6, <1>7 DEF DecodeOne

(* A decode of the session the ring gives.                                 *)
LEMMA FairDecodeKeeps == IInv /\ FairDecode => IInv'
<1> SUFFICES ASSUME IInv, FairDecode PROVE IInv'
  OBVIOUS
<1> DEFINE k == Calls(rr, Scan, Decodable)
           s == Nth(rr, k)
<1>1. Scalars /\ Fields /\ RingOK
  BY DEF IInv
<1>2. k \in Nat /\ s \in Decodable
  BY <1>1, ScanType, CallsFacts DEF FairDecode
<1>3. rr' = Rotate(rr, k) /\ DecodeOne(s) /\ burst # Idle /\ burst.left > 0
  BY DEF FairDecode
<1> HIDE DEF s, k
<1>4. s \in Session /\ last_token[s] # None
  BY <1>1, <1>2, LiveFacts DEF Decodable
<1>5. /\ rr' \in Seq(Session) /\ Distinct(rr')
      /\ \A t : InRing(rr', t) <=> InRing(rr, t)
  BY <1>1, <1>2, <1>3, TurnFacts
<1> QED
  BY <1>3, <1>4, <1>5, DecodeOneKeeps

(* The ring gives none.                                                    *)
LEMMA FairPickFailsKeeps == IInv /\ FairPickFails => IInv'
<1> SUFFICES ASSUME IInv, FairPickFails PROVE IInv'
  OBVIOUS
<1>1. Scalars /\ Fields /\ RingOK /\ BurstOK
  BY DEF IInv
<1>2. /\ rr' \in Seq(Session) /\ Distinct(rr')
      /\ \A t : InRing(rr', t) <=> InRing(rr, t)
  BY <1>1, ScanType, TurnFacts DEF FairPickFails
<1>3. RingOK'
  BY <1>1, <1>2, RingTurned DEF FairPickFails, sessionVars
<1>4. Fields'
  BY <1>1 DEF FairPickFails, sessionVars, Fields
<1>5. burst \in Bursts /\ burst' \in Bursts /\ burst'.todo = burst.todo
  BY <1>1 DEF FairPickFails, Scalars, Bursts
<1>6. Scalars' /\ BurstOK'
  BY <1>1, <1>2, <1>5 DEF FairPickFails, sessionVars, Scalars, BurstOK
<1> QED
  BY <1>3, <1>4, <1>6 DEF IInv

(* A decode of a session of the plan.                                      *)
LEMMA ListDecodeKeeps == IInv /\ ListDecode => IInv'
<1> SUFFICES ASSUME IInv, ListDecode PROVE IInv'
  OBVIOUS
<1>1. Scalars /\ RingOK /\ BurstOK
  BY DEF IInv
<1>2. PICK s \in burst.todo : DecodeOne(s)
  BY DEF ListDecode
<1>3. burst # Idle /\ burst.left > 0 /\ rr' = rr
  BY DEF ListDecode
<1>4. s \in Session /\ last_token[s] # None
  BY <1>1, <1>2, <1>3 DEF Scalars, Bursts, BurstOK
<1>5. /\ rr' \in Seq(Session) /\ Distinct(rr')
      /\ \A t : InRing(rr', t) <=> InRing(rr, t)
  BY <1>1, <1>3 DEF Scalars, RingOK
<1> QED
  BY <1>2, <1>3, <1>4, <1>5, DecodeOneKeeps

(* The burst is over.                                                      *)
LEMMA StepEndsKeeps == IInv /\ StepEnds => IInv'
<1> SUFFICES ASSUME IInv, StepEnds PROVE IInv'
  OBVIOUS
<1>1. Scalars /\ Fields /\ RingOK /\ BurstOK
  BY DEF IInv
<1>2. /\ Fields' /\ rr' \in Seq(Session) /\ Distinct(rr')
      /\ \A t : InRing(rr', t) <=> InRing(rr, t)
  <2>1. CASE PopPending
    BY <1>1, <2>1, PopPendingKeepsFields DEF StepEnds
  <2>2. CASE rr' = Rotate(rr, Scan) /\ UNCHANGED pending_out
    <3>1. /\ rr' \in Seq(Session) /\ Distinct(rr')
          /\ \A t : InRing(rr', t) <=> InRing(rr, t)
      BY <1>1, <2>2, ScanType, TurnFacts
    <3>2. Fields'
      BY <1>1, <2>2 DEF StepEnds, Fields
    <3> QED
      BY <3>1, <3>2
  <2> QED
    BY <2>1, <2>2 DEF StepEnds
<1>3. RingOK'
  BY <1>1, <1>2, RingTurned DEF StepEnds
<1>4. Scalars' /\ BurstOK'
  BY <1>1, <1>2 DEF StepEnds, Scalars, BurstOK
<1> QED
  BY <1>2, <1>3, <1>4 DEF IInv

-----------------------------------------------------------------------------
(* The theorems                                                            *)

(* Every step keeps the invariant.                                         *)
LEMMA NextKeeps == IInv /\ [Next]_vars => IInv'
<1> SUFFICES ASSUME IInv, [Next]_vars PROVE IInv'
  OBVIOUS
<1>1. CASE Client
  <2>1. CASE \E s \in Session :
               \/ CancelSession(s) \/ ResetSession(s) \/ SuspendSession(s)
               \/ ResumeSession(s) \/ \E ts \in Prompts : Submit(s, ts)
    BY <2>1, CancelSessionKeeps, ResetSessionKeeps, SuspendSessionKeeps,
       ResumeSessionKeeps, SubmitKeeps
  <2> QED
    BY <1>1, <2>1, CreateSessionKeeps, SetThermalLevelKeeps, SetSchedulingPolicyKeeps
       DEF Client
<1>2. CASE StepDecode
  BY <1>2, StepDeliversKeeps, StepStartsBurstKeeps, FairDecodeKeeps, FairPickFailsKeeps,
     ListDecodeKeeps, StepEndsKeeps
     DEF StepDecode
<1>3. CASE UNCHANGED vars
  BY <1>3 DEF vars, IInv, Scalars, Fields, RingOK, BurstOK
<1> QED
  BY <1>1, <1>2, <1>3 DEF Next

(* The inductive invariant holds: the fields of every session, live or     *)
(* not, fit together, and the ring has the sessions it ought to have.      *)
THEOREM Invariant == Spec => []IInv
  BY InitIInv, NextKeeps, PTL DEF Spec

(* Every variable keeps its type.                                          *)
THEOREM TypeCorrect == Spec => []TypeOK
<1>1. IInv => TypeOK
  BY DEF IInv, Scalars, Fields, TypeOK
<1> QED
  BY <1>1, Invariant, PTL

(* No sequence of calls, errors and interrupted bursts makes the ring and  *)
(* the session states of lib.rs disagree: no session is decoded that ought *)
(* not to be, and none that ought to be is forgotten.                      *)
THEOREM RingSafe == Spec => []RingMatchesStates
<1>1. IInv => RingMatchesStates
  <2> SUFFICES ASSUME IInv PROVE RingMatchesStates
    OBVIOUS
  <2>1. \A i \in DOMAIN rr : rr[i] \in Session /\ InRing(rr, rr[i])
    BY LenProperties, ElementOfSeq DEF IInv, Scalars, InRing
  <2>2. live \subseteq Session
    BY LiveFacts DEF IInv
  <2> QED
    BY <2>1, <2>2 DEF IInv, RingOK, Distinct, RingMatchesStates
<1> QED
  BY <1>1, Invariant, PTL

(* The cursor, the history and the K/V entries of every session agree,     *)
(* whatever has failed and at whichever token.                             *)
THEOREM HistoryHeld == Spec => []KvHoldsHistory
<1>1. IInv => KvHoldsHistory
  <2> SUFFICES ASSUME IInv, NEW s \in live
               PROVE  /\ next_pos[s] = Len(recent[s]) /\ next_pos[s] <= Len(kv[s])
                      /\ \A i \in 1..next_pos[s] : kv[s][i].tok = recent[s][i]
    BY DEF KvHoldsHistory
  <2>1. Good(kv[s], next_pos[s], last_token[s], recent[s], pending_out[s], snapshot[s])
    BY LiveFacts, OwnGood DEF IInv
  <2> QED
    BY <2>1 DEF Good
<1> QED
  BY <1>1, Invariant, PTL

(* A snapshot can always be gone back to: no later turn, decoded token or  *)
(* failed call has touched the entries it stands for.                      *)
THEOREM SnapshotsHold == Spec => []SnapshotIntact
<1>1. IInv => SnapshotIntact
  <2> SUFFICES ASSUME IInv, NEW s \in live, snapshot[s] # None
               PROVE  /\ snapshot[s].next_pos = Len(snapshot[s].recent)
                      /\ snapshot[s].next_pos <= next_pos[s]
                      /\ SubSeq(recent[s], 1, snapshot[s].next_pos) = snapshot[s].recent
    BY DEF SnapshotIntact
  <2> DEFINE c == snapshot[s]
             r == recent[s]
  <2>1. Good(kv[s], next_pos[s], last_token[s], r, pending_out[s], c)
    BY LiveFacts, OwnGood DEF IInv
  <2> HIDE DEF r
  <2>2. /\ c \in Snapshots /\ c.next_pos = Len(c.recent) /\ c.next_pos <= next_pos[s]
        /\ next_pos[s] = Len(r) /\ r \in Seq(Token)
        /\ \A i \in 1..c.next_pos : c.recent[i] = r[i]
    BY <2>1 DEF Good
  <2> HIDE DEF c
  <2>3. c.next_pos \in Nat /\ c.recent \in Seq(Token)
    BY <2>2 DEF Snapshots
  <2>4. c.next_pos \in 0..Len(r)
    BY <2>2, <2>3, LenProperties
  <2> DEFINE q == SubSeq(r, 1, c.next_pos)
  <2>5. /\ q \in Seq(Token) /\ Len(q) = c.next_pos
        /\ \A i \in 1..c.next_pos : q[i] = r[i]
    BY <2>2, <2>4, PrefixFacts
  <2> HIDE DEF q
  <2>6. q = c.recent
    BY <2>2, <2>3, <2>5, SeqEqual
  <2> QED
    BY <2>2, <2>6 DEF c, q, r
<1> QED
  BY <1>1, Invariant, PTL

(* step_decode leaves a suspended session alone, in the middle of a burst  *)
(* too: a burst decodes only what was Decoding when it began.              *)
THEOREM SuspendedSafe == Spec => SuspendedUntouched
<1> DEFINE LeftAlone == \A s \in live :
             state[s] = "Suspended" /\ StepDecode =>
               kv'[s] = kv[s] /\ pending_out'[s] = pending_out[s] /\ state'[s] = state[s]
<1>1. IInv /\ [Next]_vars => [LeftAlone]_vars
  <2> SUFFICES ASSUME IInv, NEW s \in live, state[s] = "Suspended", StepDecode
               PROVE  kv'[s] = kv[s] /\ pending_out'[s] = pending_out[s] /\ state'[s] = state[s]
    OBVIOUS
  <2>1. Scalars /\ Fields /\ RingOK /\ BurstOK /\ s \in Session
    BY LiveFacts DEF IInv
  <2>2. ASSUME NEW t \in Session, t # s, DecodeOne(t)
        PROVE  kv'[s] = kv[s] /\ pending_out'[s] = pending_out[s] /\ state'[s] = state[s]
    BY <2>1, <2>2 DEF DecodeOne, DecodeFails, DecodeSucceeds, SetKv, Scalars, Fields
  <2>3. ASSUME PopPending PROVE pending_out'[s] = pending_out[s]
    <3>1. Nth(rr, Calls(rr, Scan, Deliverable)) \in Deliverable
      BY <2>1, <2>3, ScanType, CallsFacts DEF PopPending
    <3>2. Nth(rr, Calls(rr, Scan, Deliverable)) # s
      BY <3>1 DEF Deliverable
    <3> QED
      BY <2>1, <2>3, <3>2 DEF PopPending, Fields
  <2>4. CASE StepDelivers
    BY <2>3, <2>4 DEF StepDelivers
  <2>5. CASE StepStartsBurst
    BY <2>5 DEF StepStartsBurst, sessionVars
  <2>6. CASE FairDecode
    <3>1. Nth(rr, Calls(rr, Scan, Decodable)) \in Decodable
      BY <2>1, <2>6, ScanType, CallsFacts DEF FairDecode
    <3>2. PICK t \in Session : t = Nth(rr, Calls(rr, Scan, Decodable)) /\ t # s
      BY <2>1, <3>1, LiveFacts DEF Decodable
    <3> QED
      BY <2>2, <2>6, <3>2 DEF FairDecode
  <2>7. CASE FairPickFails
    BY <2>7 DEF FairPickFails, sessionVars
  <2>8. CASE ListDecode
    <3>1. PICK t \in burst.todo : DecodeOne(t)
      BY <2>8 DEF ListDecode
    <3>2. t \in Session /\ t # s
      BY <2>1, <2>8, <3>1 DEF ListDecode, Scalars, Bursts, BurstOK
    <3> QED
      BY <2>2, <3>1, <3>2
  <2>9. CASE StepEnds
    BY <2>3, <2>9 DEF StepEnds
  <2> QED
    BY <2>4, <2>5, <2>6, <2>7, <2>8, <2>9 DEF StepDecode
<1> QED
  BY <1>1, Invariant, PTL DEF Spec, SuspendedUntouched

-----------------------------------------------------------------------------
(* The blocks                                                              *)

(* Session s gets other entries; if it dies it has none left.              *)
Gets(s) ==
  /\ SetKv(s, kv'[s])
  /\ live' = live \/ (live' = live \ {s} /\ kv'[s] = << >>)

(* What any step does to the cache: nothing, or that to one live session.  *)
KvStep ==
  \/ UNCHANGED <<kv, free>> /\ live' \in {live, live \cup {next_session_id}}
  \/ \E s \in live : Gets(s)

(* SetKv gives the session the entries it says.                            *)
LEMMA SetKvValue ==
  ASSUME Fields, NEW s \in Session, NEW es, SetKv(s, es)
  PROVE  kv'[s] = es /\ SetKv(s, kv'[s])
  BY DEF SetKv, Fields

(* A decoded session is live and has not a failed prompt behind it.        *)
LEMMA Decoded ==
  ASSUME IInv
  PROVE  FairDecode \/ ListDecode =>
           \E s \in live : state[s] \in {"Decoding", "Terminal"} /\ last_token[s] # None /\ DecodeOne(s)
<1>1. Scalars /\ RingOK /\ BurstOK
  BY DEF IInv
<1>2. ASSUME FairDecode
      PROVE  \E s \in live : state[s] \in {"Decoding", "Terminal"} /\ last_token[s] # None /\ DecodeOne(s)
  <2> DEFINE k == Calls(rr, Scan, Decodable)
             i == ((k - 1) % Len(rr)) + 1
             s == Nth(rr, k)
  <2>1. k \in Nat /\ s \in Decodable /\ DecodeOne(s)
    BY <1>1, <1>2, ScanType, CallsFacts DEF FairDecode
  <2>2. rr # << >> /\ rr \in Seq(Session)
    BY <1>1, <1>2 DEF FairDecode, Hits, Scalars
  <2>3. Len(rr) \in Nat \ {0} /\ DOMAIN rr = 1..Len(rr)
    BY <2>2, LenProperties, EmptySeq
  <2> HIDE DEF k
  <2>4. i \in 1..Len(rr)
    BY <2>1, <2>3
  <2>5. s = rr[i] /\ s \in Session
    BY <2>2, <2>3, <2>4, ElementOfSeq DEF Nth
  <2> HIDE DEF i, s
  <2>6. InRing(rr, s)
    BY <2>3, <2>4, <2>5 DEF InRing
  <2>7. s \in live /\ state[s] \in {"Decoding", "Terminal"} /\ last_token[s] # None
    BY <1>1, <2>5, <2>6 DEF RingOK
  <2> QED
    BY <2>1, <2>7
<1>3. ASSUME ListDecode
      PROVE  \E s \in live : state[s] \in {"Decoding", "Terminal"} /\ last_token[s] # None /\ DecodeOne(s)
  <2>1. PICK s \in burst.todo : DecodeOne(s)
    BY <1>3 DEF ListDecode
  <2>2. s \in Session /\ state[s] = "Decoding"
    BY <1>1, <1>3, <2>1 DEF ListDecode, Scalars, Bursts, BurstOK
  <2>3. s \in live /\ last_token[s] # None
    BY <1>1, <2>2 DEF RingOK
  <2> QED
    BY <2>1, <2>2, <2>3
<1> QED
  BY <1>2, <1>3

(* Every step is such a step.                                              *)
LEMMA KvSteps == IInv /\ [Next]_vars => KvStep
<1> SUFFICES ASSUME IInv, [Next]_vars PROVE KvStep
  OBVIOUS
<1>1. Scalars /\ Fields /\ live \subseteq Session
  BY LiveFacts DEF IInv
<1>2. ASSUME NEW s \in live, NEW es, SetKv(s, es), live' = live PROVE KvStep
  <2>1. SetKv(s, kv'[s])
    BY <1>1, <1>2, SetKvValue
  <2>2. Gets(s)
    BY <1>2, <2>1 DEF Gets
  <2> QED
    BY <2>2 DEF KvStep
<1>3. ASSUME NEW s \in Session, CancelSession(s) PROVE KvStep
  <2>1. s \in live /\ SetKv(s, << >>) /\ live' = live \ {s}
    BY <1>3 DEF CancelSession
  <2>2. kv'[s] = << >> /\ SetKv(s, kv'[s])
    BY <1>1, <2>1, SetKvValue
  <2> QED
    BY <2>1, <2>2 DEF KvStep, Gets
<1>4. ASSUME NEW s \in Session, ResetSession(s) PROVE KvStep
  BY <1>2, <1>4 DEF ResetSession, RestoreSnapshot
<1>5. ASSUME NEW s \in Session, NEW ts \in Prompts, Submit(s, ts) PROVE KvStep
  <2>1. CASE SubmitHit(s, ts)
    BY <1>2, <2>1 DEF SubmitHit, MaySubmit, RestoreSnapshot
  <2>2. CASE SubmitPrefillFails(s, ts)
    BY <1>2, <2>2 DEF SubmitPrefillFails, MaySubmit
  <2>3. CASE SubmitStepFails(s, ts)
    BY <1>2, <2>3 DEF SubmitStepFails, MaySubmit
  <2>4. ASSUME NEW tok \in Token, SubmitSucceeds(s, ts, tok) PROVE KvStep
    BY <1>2, <2>4 DEF SubmitSucceeds, MaySubmit
  <2> QED
    BY <1>5, <2>1, <2>2, <2>3, <2>4 DEF Submit
<1>6. ASSUME NEW s \in live, DecodeOne(s) PROVE KvStep
  BY <1>2, <1>6 DEF DecodeOne, DecodeFails, DecodeSucceeds
<1>7. CASE UNCHANGED <<kv, free, live>>
  BY <1>7 DEF KvStep
<1>8. CASE Client
  <2>1. CASE CreateSession
    BY <2>1 DEF CreateSession, sessionVars, KvStep
  <2>2. CASE \E s \in Session : SuspendSession(s) \/ ResumeSession(s)
    BY <1>7, <2>2 DEF SuspendSession, ResumeSession, sessionVars
  <2>3. CASE \/ \E level \in ThermalLevels : SetThermalLevel(level)
             \/ \E p \in Policies : SetSchedulingPolicy(p)
    BY <1>7, <2>3 DEF SetThermalLevel, SetSchedulingPolicy, sessionVars
  <2> QED
    BY <1>3, <1>4, <1>5, <1>8, <2>1, <2>2, <2>3 DEF Client
<1>9. CASE StepDecode
  <2>1. CASE StepDelivers \/ StepStartsBurst \/ FairPickFails \/ StepEnds
    BY <1>7, <2>1 DEF StepDelivers, StepStartsBurst, FairPickFails, StepEnds, sessionVars
  <2>2. CASE FairDecode \/ ListDecode
    BY <1>6, <2>2, Decoded
  <2> QED
    BY <1>9, <2>1, <2>2 DEF StepDecode
<1>10. CASE UNCHANGED vars
  BY <1>7, <1>10 DEF vars
<1> QED
  BY <1>8, <1>9, <1>10 DEF Next

(* Every block is free or in the table of a live session, and a session    *)
(* that is not live has no entries.                                        *)
Accounting ==
  /\ \A s \in Session \ live : kv[s] = << >>
  /\ KvAccounted

(* No entries, no blocks.                                                  *)
LEMMA NoBlocks == BlocksFor(Len(<< >>)) = 0
<1>1. Len(<< >>) = 0 /\ TokensPerBlock \in Nat \ {0}
  BY EngineAssumption
<1>2. (0 + TokensPerBlock - 1) \div TokensPerBlock = 0
  BY <1>1
<1> QED
  BY <1>1, <1>2 DEF BlocksFor

(* What the sessions hold, block for block.                                *)
Costs == [s \in Session |-> BlocksFor(Len(kv[s]))]

(* They are numbers of blocks.                                             *)
LEMMA CostsFacts ==
  ASSUME Scalars, Fields
  PROVE  /\ \A s \in Session : Costs[s] = BlocksFor(Len(kv[s])) /\ Costs[s] \in Nat
         /\ SumFunctionOnSet(Costs, live) \in Nat
<1>1. ASSUME NEW s \in Session PROVE Costs[s] \in Nat
  <2>1. Len(kv[s]) \in Nat
    BY LenProperties DEF Fields
  <2> QED
    BY <2>1, BlocksForFacts DEF Costs
<1>2. \A s \in live : Costs[s] \in Nat
  BY <1>1, LiveFacts
<1>3. SumFunctionOnSet(Costs, live) \in Nat
  BY <1>2, LiveFacts, SumType
<1> QED
  BY <1>1, <1>3 DEF Costs

(* A session's cost changes with what the allocator takes or gives back.   *)
LEMMA AccountingKept == IInv /\ IInv' /\ Accounting /\ KvStep => Accounting'
<1> SUFFICES ASSUME IInv, IInv', Accounting, KvStep PROVE Accounting'
  OBVIOUS
<1> DEFINE b == Costs
           c == Costs'
<1>1. /\ Scalars /\ Fields /\ Scalars' /\ Fields'
      /\ live \subseteq Session /\ IsFiniteSet(live)
      /\ live' \subseteq Session /\ IsFiniteSet(live')
  <2>1. Scalars /\ Scalars' /\ Fields /\ Fields'
    BY DEF IInv
  <2>2. live \subseteq Session /\ IsFiniteSet(live)
    BY <2>1, LiveFacts
  <2>3. (live \subseteq Session /\ IsFiniteSet(live))'
    BY <2>1, LiveFacts, PTL
  <2> QED
    BY <2>1, <2>2, <2>3
<1>2. /\ \A s \in Session : b[s] = BlocksFor(Len(kv[s])) /\ b[s] \in Nat
      /\ \A s \in Session : c[s] = BlocksFor(Len(kv'[s])) /\ c[s] \in Nat
  <2>1. \A s \in Session : b[s] = BlocksFor(Len(kv[s])) /\ b[s] \in Nat
    BY <1>1, CostsFacts
  <2>2. (\A s \in Session : Costs[s] = BlocksFor(Len(kv[s])) /\ Costs[s] \in Nat)'
    BY <1>1, CostsFacts, PTL
  <2> QED
    BY <2>1, <2>2
<1>3. free + SumFunctionOnSet(b, live) = TotalBlocks /\ \A s \in Session \ live : kv[s] = << >>
  BY DEF Accounting, KvAccounted, Costs
<1>4. SUFFICES /\ free' + SumFunctionOnSet(c, live') = TotalBlocks
               /\ \A s \in Session \ live' : kv'[s] = << >>
  BY DEF Accounting, KvAccounted, Costs
<1> HIDE DEF b, c
<1>5. /\ free \in Nat /\ free' \in Nat
      /\ \A s \in live : b[s] \in Nat /\ c[s] \in Nat
      /\ \A s \in live' : c[s] \in Nat
  BY <1>1, <1>2 DEF Scalars
<1>6. CASE UNCHANGED <<kv, free>> /\ live' \in {live, live \cup {next_session_id}}
  <2>1. \A s \in Session : c[s] = b[s]
    BY <1>2, <1>6
  <2>2. SumFunctionOnSet(c, live) = SumFunctionOnSet(b, live)
    BY <1>1, <2>1, SumSame
  <2>3. CASE live' = live
    BY <1>3, <1>6, <2>2, <2>3
  <2>4. CASE live' # live
    <3> DEFINE x == next_session_id
    <3>1. live' = live \cup {x} /\ x \in Session \ live /\ live' \ {x} = live
      BY <1>1, <1>6, <2>4
    <3> HIDE DEF x
    <3>2. c[x] = 0
      BY <1>2, <1>3, <1>6, <3>1, NoBlocks
    <3>3. /\ SumFunctionOnSet(c, live') = c[x] + SumFunctionOnSet(c, live' \ {x})
          /\ SumFunctionOnSet(c, live' \ {x}) \in Nat
      BY <1>1, <1>5, <3>1, SumSplit
    <3>4. SumFunctionOnSet(c, live') = SumFunctionOnSet(b, live)
      BY <2>2, <3>1, <3>2, <3>3
    <3> QED
      BY <1>3, <1>6, <3>1, <3>4
  <2> QED
    BY <2>3, <2>4
<1>7. ASSUME NEW s \in live, SetKv(s, kv'[s]), live' = live \/ (live' = live \ {s} /\ kv'[s] = << >>)
      PROVE  /\ free' + SumFunctionOnSet(c, live') = TotalBlocks
             /\ \A t \in Session \ live' : kv'[t] = << >>
  <2> DEFINE rest == live \ {s}
  <2>1. s \in Session /\ \A t \in Session \ {s} : kv'[t] = kv[t]
    BY <1>1, <1>7 DEF SetKv, Fields
  <2>2. free' = free + b[s] - c[s]
    BY <1>2, <1>7, <2>1 DEF SetKv
  <2>3. \A t \in rest : c[t] = b[t]
    BY <1>1, <1>2, <2>1
  <2>4. IsFiniteSet(rest)
    BY <1>1, FS_Subset
  <2>5. SumFunctionOnSet(c, rest) = SumFunctionOnSet(b, rest)
    <3> HIDE DEF rest
    <3> QED
      BY <2>3, <2>4, SumSame
  <2>6. /\ SumFunctionOnSet(b, live) = b[s] + SumFunctionOnSet(b, rest)
        /\ SumFunctionOnSet(b, rest) \in Nat
    BY <1>1, <1>5, SumSplit
  <2>7. SumFunctionOnSet(c, live) = c[s] + SumFunctionOnSet(c, rest)
    BY <1>1, <1>5, SumSplit
  <2>8. b[s] \in Nat /\ c[s] \in Nat
    BY <1>2, <2>1
  <2>9. free' + (c[s] + SumFunctionOnSet(c, rest)) = TotalBlocks
    BY <1>3, <1>5, <2>2, <2>5, <2>6, <2>8
  <2>10. CASE live' = live
    BY <1>3, <2>1, <2>7, <2>9, <2>10
  <2>11. CASE live' = rest /\ kv'[s] = << >>
    <3>1. c[s] = 0
      BY <1>2, <2>1, <2>11, NoBlocks
    <3>2. free' + SumFunctionOnSet(c, rest) = TotalBlocks
      BY <2>5, <2>6, <2>9, <3>1
    <3> QED
      BY <1>3, <2>1, <2>11, <3>2
  <2> QED
    BY <1>7, <2>10, <2>11
<1> QED
  BY <1>6, <1>7 DEF KvStep, Gets

(* At first nothing is held.                                               *)
LEMMA AccountingInit == Init => Accounting
<1> SUFFICES ASSUME Init PROVE Accounting
  OBVIOUS
<1> QED
  BY EngineAssumption, SumEmpty DEF Init, Accounting, KvAccounted

(* Every block is free or some live session's, after every sequence of     *)
(* calls, with the failed ones and those that ran out of blocks among them. *)
THEOREM BlocksAccounted == Spec => []KvAccounted
<1>1. IInv /\ Accounting /\ [Next]_vars => Accounting'
  BY NextKeeps, KvSteps, AccountingKept
<1>2. Spec => []Accounting
  BY <1>1, InitIInv, AccountingInit, NextKeeps, Invariant, PTL DEF Spec
<1>3. Accounting => KvAccounted
  BY DEF Accounting
<1> QED
  BY <1>2, <1>3, PTL

(* The engine uses the K/V cache by its contract alone (KvStore): what     *)
(* PagedKv promises is enough for lib.rs.                                  *)
THEOREM StoreContractKept == Spec => KeepsStoreContract
<1>1. Init => Store!Init
  BY DEF Init, Store!Init
<1>2. IInv /\ IInv' /\ Accounting' /\ KvStep => [Store!Next]_<<kv, free>>
  <2> SUFFICES ASSUME IInv, IInv', Accounting', NEW s \in live, SetKv(s, kv'[s])
               PROVE  Store!Update(s) /\ s \in Session
    BY DEF KvStep, Gets, Store!Next
  <2>1. Scalars /\ Fields /\ live \subseteq Session
    BY LiveFacts DEF IInv
  <2>2. (SumFunctionOnSet(Costs, live) \in Nat)'
    BY CostsFacts, PTL DEF IInv
  <2>3. free' + SumFunctionOnSet(Costs', live') = TotalBlocks
    BY DEF Accounting, KvAccounted, Costs
  <2>4. free' \in 0..TotalBlocks
    BY <2>2, <2>3, EngineAssumption DEF IInv, Scalars
  <2>5. /\ s \in Session /\ DOMAIN kv' = Session
        /\ \A t \in Session \ {s} : kv'[t] = kv[t]
    BY <2>1 DEF SetKv, Fields
  <2>6. free' = free + BlocksFor(Len(kv[s])) - BlocksFor(Len(kv'[s]))
    BY DEF SetKv
  <2> QED
    BY <2>4, <2>5, <2>6 DEF Store!Update, Store!BlocksFor, BlocksFor
<1>3. IInv /\ Accounting /\ [Next]_vars => Accounting'
  BY NextKeeps, KvSteps, AccountingKept
<1> QED
  BY <1>1, <1>2, <1>3, InitIInv, AccountingInit, NextKeeps, KvSteps, Invariant, PTL
     DEF Spec, KeepsStoreContract, Store!Spec, Store!vars

-----------------------------------------------------------------------------
(* Causality                                                               *)

(* Each of the first n entries was computed over the positions up to its   *)
(* own; in a tight table at most one position lies beyond the n entries.   *)
Causal(k, n, tight) ==
  /\ \A i \in 1..n : k[i].span = i
  /\ tight => Len(k) <= n + 1

(* A run one token at a time over a tight table covers no position twice.  *)
LEMMA SteppedCausal ==
  ASSUME NEW es \in Seq(Entry), NEW p \in 0..Len(es), NEW ts \in Seq(Token),
         Causal(es, p, TRUE)
  PROVE  /\ Causal(Stepped(es, p, ts), p + Len(ts), TRUE)
         /\ Len(Stepped(es, p, ts)) <= LargerOf(p + 1, p + Len(ts))
<1> DEFINE n == LargerOf(Len(es), p + Len(ts))
           k == Stepped(es, p, ts)
<1>1. Len(es) \in Nat /\ Len(ts) \in Nat /\ p \in Nat /\ Len(es) <= p + 1
  BY LenProperties DEF Causal
<1>2. n \in Nat /\ n >= p + Len(ts) /\ n <= LargerOf(p + 1, p + Len(ts)) /\ n <= p + Len(ts) + 1
  BY <1>1 DEF LargerOf
<1>3. Len(k) = n /\ \A i \in 1..p : k[i] = es[i]
  BY SteppedFacts
<1>4. ASSUME NEW i \in (p + 1)..(p + Len(ts)) PROVE k[i].span = i
  <2>1. i \in 1..n /\ LargerOf(Len(es), i) = i
    BY <1>1, <1>2 DEF LargerOf
  <2> HIDE DEF n
  <2>2. k[i] = [tok |-> ts[i - p], span |-> LargerOf(Len(es), i)]
    BY <2>1 DEF Stepped, n
  <2> HIDE DEF k
  <2> QED
    BY <2>1, <2>2
<1> HIDE DEF k, n
<1>5. ASSUME NEW i \in 1..(p + Len(ts)) PROVE k[i].span = i
  <2>1. CASE i \in 1..p
    BY <1>3, <2>1 DEF Causal
  <2>2. CASE i \notin 1..p
    <3>1. i \in (p + 1)..(p + Len(ts))
      BY <1>1, <2>2
    <3> QED
      BY <1>4, <3>1
  <2> QED
    BY <2>1, <2>2
<1>6. Causal(k, p + Len(ts), TRUE)
  BY <1>2, <1>3, <1>5 DEF Causal
<1> QED
  BY <1>2, <1>3, <1>6 DEF k

(* A run of one token that fails leaves the table tight.                   *)
LEMMA OneFailedCausal ==
  ASSUME NEW s \in Session, Room(s) \in Nat, NEW es \in Seq(Entry), Len(es) <= Room(s),
         NEW p \in 0..Len(es), NEW ts \in Seq(Token), Len(ts) = 1,
         Causal(es, p, TRUE), NEW fs \in SteppedFailures(s, es, p, ts)
  PROVE  Causal(fs, p, TRUE)
<1>1. Len(es) \in Nat /\ p \in 0..Room(s)
  BY LenProperties
<1>2. PICK m \in FailPoints(Len(ts), Fit(s, p, Len(ts))) : fs = Stepped(es, p, SubSeq(ts, 1, m))
  BY DEF SteppedFailures
<1>3. m \in 0..1 /\ m \in 0..Len(ts)
  BY <1>1, <1>2, FitFacts
<1>4. SubSeq(ts, 1, m) \in Seq(Token) /\ Len(SubSeq(ts, 1, m)) = m
  BY <1>3, PrefixFacts
<1>5. /\ Causal(fs, p + m, TRUE) /\ fs \in Seq(Entry)
      /\ Len(fs) <= LargerOf(p + 1, p + m)
  BY <1>2, <1>4, SteppedCausal, SteppedFacts
<1>6. Len(fs) <= p + 1
  BY <1>1, <1>3, <1>5 DEF LargerOf
<1>7. \A i \in 1..p : i \in 1..(p + m)
  BY <1>1, <1>3
<1> QED
  BY <1>5, <1>6, <1>7 DEF Causal

(* Going back to the snapshot, or to nothing.                              *)
LEMMA RewoundCausal ==
  ASSUME NEW k, NEW n, NEW l, NEW r, NEW p, NEW c, Good(k, n, l, r, p, c),
         NEW w, w = IF c # None THEN c ELSE Fresh, Causal(k, n, FALSE)
  PROVE  Causal(Truncated(k, w.next_pos), w.next_pos, TRUE)
<1>1. k \in Seq(Entry) /\ Len(k) \in Nat /\ n \in Nat /\ n <= Len(k)
  BY LenProperties DEF Good
<1>2. w.next_pos \in Nat /\ w.next_pos <= n
  BY <1>1 DEF Good, Fresh, Snapshots
<1> DEFINE q == w.next_pos
<1> HIDE DEF q
<1>3. q \in 0..Len(k) /\ SmallerOf(q, Len(k)) = q /\ q \in Nat /\ q <= n
  BY <1>1, <1>2 DEF SmallerOf, q
<1>4. /\ Truncated(k, q) = SubSeq(k, 1, q)
      /\ Len(SubSeq(k, 1, q)) = q
      /\ \A i \in 1..q : SubSeq(k, 1, q)[i] = k[i]
  BY <1>1, <1>3, PrefixFacts DEF Truncated
<1>5. \A i \in 1..q : i \in 1..n
  BY <1>1, <1>3
<1>6. Causal(Truncated(k, q), q, TRUE)
  BY <1>3, <1>4, <1>5 DEF Causal
<1> QED
  BY <1>6 DEF q

(* Every session's table; a session left in Prefill by a failed submit may *)
(* have any number of positions beyond its cursor.                         *)
CausalOK == \A s \in Session : Causal(kv[s], next_pos[s], state[s] # "Prefill")

(* One session changes.                                                    *)
LEMMA CausalStep ==
  ASSUME Scalars, Fields, CausalOK, NEW s \in Session, NEW k, NEW n,
         kv' = [kv EXCEPT ![s] = k],
         next_pos' = [next_pos EXCEPT ![s] = n],
         \A t \in Session \ {s} : state'[t] = state[t],
         Causal(k, n, state'[s] # "Prefill")
  PROVE  CausalOK'
<1> SUFFICES ASSUME NEW t \in Session
             PROVE  Causal(kv'[t], next_pos'[t], state'[t] # "Prefill")
  BY DEF CausalOK
<1>1. CASE t = s
  <2>1. kv'[t] = k /\ next_pos'[t] = n
    BY <1>1 DEF Fields
  <2> QED
    BY <1>1, <2>1
<1>2. CASE t # s
  <2>1. kv'[t] = kv[t] /\ next_pos'[t] = next_pos[t] /\ state'[t] = state[t]
    BY <1>2 DEF Fields
  <2> QED
    BY <2>1 DEF CausalOK
<1> QED
  BY <1>1, <1>2

(* A session that has not failed in its prompt has a tight table.          *)
LEMMA OwnCausal ==
  ASSUME CausalOK, NEW s \in Session
  PROVE  /\ Causal(kv[s], next_pos[s], FALSE)
         /\ state[s] # "Prefill" => Causal(kv[s], next_pos[s], TRUE)
  BY DEF CausalOK, Causal

(* What holds of a tight table holds of any.                               *)
LEMMA Looser ==
  ASSUME NEW k, NEW n, Causal(k, n, TRUE), NEW tight \in BOOLEAN
  PROVE  Causal(k, n, tight)
  BY DEF Causal

(* A cache hit and a reset.                                                *)
LEMMA RestoreCausal ==
  ASSUME IInv, CausalOK, NEW s \in Session, RestoreSnapshot(s),
         \A t \in Session \ {s} : state'[t] = state[t]
  PROVE  CausalOK'
<1> DEFINE w == Rewound(s)
           k == Truncated(kv[s], w.next_pos)
<1>1. Scalars /\ Fields
  BY DEF IInv
<1>2. w = IF snapshot[s] # None THEN snapshot[s] ELSE Fresh
  BY DEF Rewound
<1> HIDE DEF w
<1>3. Causal(k, w.next_pos, TRUE)
  BY <1>1, <1>2, OwnGood, OwnCausal, RewoundCausal
<1>4. kv' = [kv EXCEPT ![s] = k] /\ next_pos' = [next_pos EXCEPT ![s] = w.next_pos]
  BY DEF RestoreSnapshot, SetKv, w
<1>5. Causal(k, w.next_pos, state'[s] # "Prefill")
  BY <1>3, Looser
<1> HIDE DEF k
<1> QED
  BY <1>1, <1>4, <1>5, CausalStep

(* A submitted prompt, whatever comes of it.                               *)
LEMMA SubmitCausal ==
  ASSUME CarefulClient, ~BatchPrefill, IInv, CausalOK,
         NEW s \in Session, NEW ts \in Prompts, Submit(s, ts)
  PROVE  CausalOK'
<1> DEFINE n == next_pos[s]
           b == Body(ts)
           one == << LastOf(ts) >>
           es == Prefilled(kv[s], n, b)
           pos == n + Len(b)
<1>1. Scalars /\ Fields /\ RingOK /\ BurstOK
  BY DEF IInv
<1>2. /\ Room(s) \in Nat /\ Len(kv[s]) \in Nat /\ Len(kv[s]) <= Room(s)
      /\ kv[s] \in Seq(Entry) /\ n \in 0..Len(kv[s]) /\ n \in 0..Room(s)
  BY <1>1, OwnGood
<1>3. /\ b \in Seq(Token) /\ Len(b) = Len(ts) - 1 /\ Len(ts) \in Nat \ {0}
      /\ one \in Seq(Token) /\ Len(one) = 1
  BY PromptFacts
<1>4. Submit(s, ts) => MaySubmit(s)
  BY DEF Submit, SubmitHit, SubmitPrefillFails, SubmitStepFails, SubmitSucceeds
<1>5. Causal(kv[s], n, TRUE)
  BY <1>4, OwnCausal DEF MaySubmit, MayUse
<1>6. Causal(es, pos, TRUE)
  <2> HIDE DEF n, b
  <2> QED
    BY <1>2, <1>3, <1>5, SteppedCausal DEF Prefilled
<1>7. PrefillFits(s, ts) => es \in Seq(Entry) /\ Len(es) <= Room(s) /\ pos \in 0..Len(es)
  BY <1>1, BodyPrefilled
<1>8. CASE SubmitHit(s, ts)
  BY <1>1, <1>8, RestoreCausal DEF SubmitHit, Scalars
<1>9. CASE SubmitPrefillFails(s, ts)
  <2>1. PICK fs \in PrefillFailures(s, kv[s], n, b) : SetKv(s, fs)
    BY <1>9 DEF SubmitPrefillFails
  <2> HIDE DEF b
  <2>2. Kept(kv[s], n, fs, Room(s))
    BY <1>2, <1>3, <2>1, PrefillFailuresFacts
  <2>3. Causal(fs, n, FALSE)
    BY <1>5, <2>2 DEF Causal, Kept
  <2>4. /\ kv' = [kv EXCEPT ![s] = fs] /\ next_pos' = [next_pos EXCEPT ![s] = n]
        /\ state'[s] = "Prefill" /\ \A t \in Session \ {s} : state'[t] = state[t]
    BY <1>1, <1>9, <2>1, Same DEF SubmitPrefillFails, SetKv, Fields, Scalars
  <2>5. Causal(fs, n, state'[s] # "Prefill")
    BY <2>3, <2>4
  <2> HIDE DEF n
  <2> QED
    BY <1>1, <2>4, <2>5, CausalStep
<1>10. CASE SubmitStepFails(s, ts)
  <2>1. /\ PrefillFits(s, ts) /\ next_pos' = [next_pos EXCEPT ![s] = pos]
        /\ \E fs \in SteppedFailures(s, es, pos, one) : SetKv(s, fs)
    BY <1>10 DEF SubmitStepFails
  <2>2. es \in Seq(Entry) /\ Len(es) <= Room(s) /\ pos \in 0..Len(es)
    BY <1>7, <2>1
  <2> HIDE DEF es, pos, one
  <2>3. PICK fs \in SteppedFailures(s, es, pos, one) : SetKv(s, fs)
    BY <2>1
  <2>4. Causal(fs, pos, TRUE)
    BY <1>2, <1>3, <1>6, <2>2, <2>3, OneFailedCausal
  <2>5. /\ kv' = [kv EXCEPT ![s] = fs]
        /\ \A t \in Session \ {s} : state'[t] = state[t]
    BY <1>1, <1>10, <2>3 DEF SubmitStepFails, SetKv, Scalars
  <2>6. Causal(fs, pos, state'[s] # "Prefill")
    BY <2>4, Looser
  <2> QED
    BY <1>1, <2>1, <2>5, <2>6, CausalStep
<1>11. ASSUME NEW tok \in Token, SubmitSucceeds(s, ts, tok) PROVE CausalOK'
  <2> DEFINE k == Stepped(es, pos, one)
  <2>1. SetKv(s, k) /\ next_pos' = [next_pos EXCEPT ![s] = pos + 1]
    BY <1>11 DEF SubmitSucceeds
  <2>2. n + Len(ts) <= Room(s)
    BY <1>2, <1>3, <1>11, FitFacts DEF SubmitSucceeds
  <2>3. PrefillFits(s, ts)
    BY <1>2, <1>3, <2>2 DEF PrefillFits, Fit, SmallerOf
  <2>4. es \in Seq(Entry) /\ Len(es) <= Room(s) /\ pos \in 0..Len(es)
    BY <1>7, <2>3
  <2> HIDE DEF es, pos, one
  <2>5. Causal(k, pos + Len(one), TRUE)
    BY <1>3, <1>6, <2>4, SteppedCausal
  <2>6. Causal(k, pos + 1, state'[s] # "Prefill")
    BY <1>3, <2>5, Looser
  <2> HIDE DEF k
  <2>7. /\ kv' = [kv EXCEPT ![s] = k]
        /\ \A t \in Session \ {s} : state'[t] = state[t]
    BY <1>1, <1>11, <2>1 DEF SubmitSucceeds, SetKv, Scalars
  <2> QED
    BY <1>1, <2>1, <2>6, <2>7, CausalStep
<1> QED
  BY <1>8, <1>9, <1>10, <1>11 DEF Submit

(* A decoded token, or one that could not be.                              *)
LEMMA DecodeOneCausal ==
  ASSUME IInv, CausalOK, NEW s \in live, state[s] \in {"Decoding", "Terminal"},
         DecodeOne(s), last_token[s] # None
  PROVE  CausalOK'
<1> DEFINE n == next_pos[s]
           one == << last_token[s] >>
<1>1. Scalars /\ Fields /\ s \in Session
  BY LiveFacts DEF IInv
<1>2. /\ Room(s) \in Nat /\ Len(kv[s]) \in Nat /\ Len(kv[s]) <= Room(s)
      /\ kv[s] \in Seq(Entry) /\ n \in 0..Len(kv[s])
  BY <1>1, OwnGood
<1>3. one \in Seq(Token) /\ Len(one) = 1
  BY <1>1 DEF Fields
<1>4. Causal(kv[s], n, TRUE)
  BY <1>1, OwnCausal
<1>5. CASE DecodeFails(s)
  <2>1. PICK fs \in SteppedFailures(s, kv[s], n, one) : SetKv(s, fs)
    BY <1>5 DEF DecodeFails
  <2> HIDE DEF one
  <2>2. Causal(fs, n, TRUE)
    BY <1>1, <1>2, <1>3, <1>4, <2>1, OneFailedCausal
  <2>3. /\ kv' = [kv EXCEPT ![s] = fs] /\ next_pos' = [next_pos EXCEPT ![s] = n]
        /\ \A t \in Session \ {s} : state'[t] = state[t]
    BY <1>1, <1>5, <2>1, Same DEF DecodeFails, SetKv, Fields
  <2>4. Causal(fs, n, state'[s] # "Prefill")
    BY <2>2, Looser
  <2> HIDE DEF n
  <2> QED
    BY <1>1, <2>3, <2>4, CausalStep
<1>6. ASSUME NEW tok \in Token, DecodeSucceeds(s, tok) PROVE CausalOK'
  <2> DEFINE k == Stepped(kv[s], n, one)
  <2>1. SetKv(s, k) /\ next_pos' = [next_pos EXCEPT ![s] = n + 1]
    BY <1>6 DEF DecodeSucceeds
  <2> HIDE DEF one, n
  <2>2. Causal(k, n + Len(one), TRUE)
    BY <1>2, <1>3, <1>4, SteppedCausal
  <2>3. Causal(k, n + 1, state'[s] # "Prefill")
    BY <1>3, <2>2, Looser
  <2> HIDE DEF k
  <2>4. /\ kv' = [kv EXCEPT ![s] = k]
        /\ \A t \in Session \ {s} : state'[t] = state[t]
    BY <1>1, <1>6, <2>1 DEF DecodeSucceeds, SetKv, Scalars
  <2> QED
    BY <1>1, <2>1, <2>3, <2>4, CausalStep
<1> QED
  BY <1>5, <1>6 DEF DecodeOne

(* Every step, with a careful client and without Qwen's prefill.           *)
LEMMA CausalKept ==
  ASSUME CarefulClient, ~BatchPrefill
  PROVE  IInv /\ CausalOK /\ [Next]_vars => CausalOK'
<1> SUFFICES ASSUME IInv, CausalOK, [Next]_vars PROVE CausalOK'
  OBVIOUS
<1>1. Scalars /\ Fields /\ RingOK /\ live \subseteq Session
  BY LiveFacts DEF IInv
<1>2. CASE UNCHANGED <<kv, next_pos, state>>
  BY <1>2 DEF CausalOK
<1>3. ASSUME NEW s \in Session, CancelSession(s) PROVE CausalOK'
  <2>1. Causal(<< >>, 0, TRUE)
    BY DEF Causal
  <2>2. Causal(<< >>, 0, state'[s] # "Prefill")
    BY <2>1, Looser
  <2>3. /\ kv' = [kv EXCEPT ![s] = << >>] /\ next_pos' = [next_pos EXCEPT ![s] = 0]
        /\ \A t \in Session \ {s} : state'[t] = state[t]
    BY <1>1, <1>3 DEF CancelSession, SetKv, Scalars
  <2> QED
    BY <1>1, <2>2, <2>3, CausalStep
<1>4. ASSUME NEW s \in Session, ResetSession(s) PROVE CausalOK'
  BY <1>1, <1>4, RestoreCausal DEF ResetSession, Scalars
<1>5. ASSUME NEW s \in Session, SuspendSession(s) \/ ResumeSession(s) PROVE CausalOK'
  <2>1. Causal(kv[s], next_pos[s], TRUE)
    BY <1>5, OwnCausal DEF SuspendSession, ResumeSession, MayUse
  <2>2. Causal(kv[s], next_pos[s], state'[s] # "Prefill")
    BY <2>1, Looser
  <2>3. /\ kv' = [kv EXCEPT ![s] = kv[s]] /\ next_pos' = [next_pos EXCEPT ![s] = next_pos[s]]
        /\ \A t \in Session \ {s} : state'[t] = state[t]
    BY <1>1, <1>5, Same DEF SuspendSession, ResumeSession, sessionVars, Fields, Scalars
  <2> QED
    BY <1>1, <2>2, <2>3, CausalStep
<1>6. CASE Client
  <2>1. CASE CreateSession
    BY <1>2, <2>1 DEF CreateSession, sessionVars
  <2>2. CASE \/ \E level \in ThermalLevels : SetThermalLevel(level)
             \/ \E p \in Policies : SetSchedulingPolicy(p)
    BY <1>2, <2>2 DEF SetThermalLevel, SetSchedulingPolicy, sessionVars
  <2> QED
    BY <1>3, <1>4, <1>5, <1>6, <2>1, <2>2, SubmitCausal DEF Client
<1>7. CASE StepDecode
  <2>1. CASE StepDelivers \/ StepStartsBurst \/ FairPickFails \/ StepEnds
    BY <1>2, <2>1 DEF StepDelivers, StepStartsBurst, FairPickFails, StepEnds, sessionVars
  <2>2. CASE FairDecode \/ ListDecode
    <3>1. PICK s \in live : state[s] \in {"Decoding", "Terminal"} /\ DecodeOne(s) /\ last_token[s] # None
      BY <2>2, Decoded
    <3> QED
      BY <3>1, DecodeOneCausal
  <2> QED
    BY <1>7, <2>1, <2>2 DEF StepDecode
<1>8. CASE UNCHANGED vars
  BY <1>2, <1>8 DEF vars
<1> QED
  BY <1>6, <1>7, <1>8 DEF Next

(* Causality, for the runners that prefill one token at a time and a       *)
(* client that answers a failed submit with reset or cancel: whatever was  *)
(* decoded, rewound, suspended or failed before, no entry below the cursor *)
(* was computed over a position that came after it.  (Both hypotheses are  *)
(* needed: the run qwen_prefill has the second one false, and the stale    *)
(* positions a failed submit leaves are attended to by one that follows.)  *)
THEOREM Causality ==
  ASSUME CarefulClient, ~BatchPrefill
  PROVE  Spec => []CausalAttention
<1>1. Init => CausalOK
  <2> SUFFICES ASSUME Init, NEW s \in Session
               PROVE  Causal(kv[s], next_pos[s], state[s] # "Prefill")
    BY DEF CausalOK
  <2> QED
    BY DEF Init, Causal
<1>2. IInv /\ CausalOK /\ [Next]_vars => CausalOK'
  BY CausalKept
<1>3. IInv /\ CausalOK => CausalAttention
  BY LiveFacts DEF IInv, CausalOK, CausalAttention, Causal
<1> QED
  BY <1>1, <1>2, <1>3, Invariant, PTL DEF Spec

-----------------------------------------------------------------------------
(* What the client is given                                                *)

(* The answer of one session: g was given, since the cursor was at m; the  *)
(* rest of what was generated since then is in the buffer p.               *)
Told(g, m, n, l, r, p) ==
  /\ g \in Seq(Token) /\ m \in Nat
  /\ Len(g) + Len(p) = n - m
  /\ \A i \in 1..Len(g) : g[i] = Said(r, l, (m + 1) + i)

(* An answer begins: the buffer has been cleared.                          *)
LEMMA ToldBegins ==
  ASSUME NEW n \in Nat, NEW l, NEW r
  PROVE  Told(<< >>, n, n, l, r, << >>)
<1>1. << >> \in Seq(Token) /\ Len(<< >>) = 0
  OBVIOUS
<1> QED
  BY <1>1 DEF Told

(* A decoded token waits in the buffer; what was given is the same.        *)
LEMMA ToldDecoded ==
  ASSUME NEW k, NEW n, NEW l \in Token, NEW r, NEW p, NEW c, Good(k, n, l, r, p, c),
         NEW g, NEW m, Told(g, m, n, l, r, p), NEW tok \in Token
  PROVE  Told(g, m, n + 1, tok, Append(r, l), Append(p, tok))
<1> DEFINE h == Append(r, l)
           q == Append(p, tok)
<1>1. /\ r \in Seq(Token) /\ n = Len(r) /\ n \in Nat /\ p \in Seq(Token)
      /\ Len(p) \in Nat /\ g \in Seq(Token) /\ Len(g) \in Nat /\ m \in Nat
      /\ Len(g) + Len(p) = n - m
      /\ \A i \in 1..Len(g) : g[i] = Said(r, l, (m + 1) + i)
  BY LenProperties DEF Good, Told
<1>2. Len(h) = n + 1 /\ h[n + 1] = l /\ \A i \in 1..n : h[i] = r[i]
  BY <1>1, AppendProperties
<1>3. Len(q) = Len(p) + 1
  BY <1>1, AppendProperties
<1> HIDE DEF h, q
<1>4. ASSUME NEW i \in 1..Len(g) PROVE g[i] = Said(h, tok, (m + 1) + i)
  <2> DEFINE j == (m + 1) + i
  <2>1. j \in 1..(n + 1) /\ g[i] = Said(r, l, j)
    BY <1>1
  <2> HIDE DEF j
  <2>2. n = Len(r) /\ n \in Nat
    BY <1>1
  <2>3. Said(r, l, j) = h[j]
    BY <1>2, <2>1, <2>2 DEF Said
  <2>4. j <= Len(h)
    BY <1>2, <2>1, <2>2
  <2>5. Said(h, tok, j) = h[j]
    BY <2>4 DEF Said
  <2>6. g[i] = Said(h, tok, j)
    BY <2>1, <2>3, <2>5
  <2> QED
    BY <2>6 DEF j
<1>5. Len(g) + Len(q) = (n + 1) - m
  <2>1. /\ n \in Nat /\ m \in Nat /\ Len(g) \in Nat /\ Len(p) \in Nat
        /\ Len(g) + Len(p) = n - m
    BY <1>1
  <2> QED
    BY <1>3, <2>1
<1> QED
  BY <1>1, <1>4, <1>5 DEF Told, h, q

(* A delivered token is the one the answer goes on with.                   *)
LEMMA ToldDelivered ==
  ASSUME NEW k, NEW n, NEW l, NEW r, NEW p, NEW c, Good(k, n, l, r, p, c), p # << >>,
         NEW g, NEW m, Told(g, m, n, l, r, p)
  PROVE  Told(Append(g, Head(p)), m, n, l, r, Tail(p))
<1> DEFINE h == Append(g, Head(p))
           q == Tail(p)
<1>1. /\ n \in Nat /\ p \in Seq(Token) /\ Len(p) \in Nat /\ Len(p) # 0
      /\ \A i \in 1..Len(p) : p[i] = Said(r, l, n + 1 - Len(p) + i)
      /\ g \in Seq(Token) /\ Len(g) \in Nat /\ m \in Nat
      /\ Len(g) + Len(p) = n - m
      /\ \A i \in 1..Len(g) : g[i] = Said(r, l, (m + 1) + i)
  BY LenProperties, EmptySeq DEF Good, Told
<1>2. Len(q) = Len(p) - 1 /\ Head(p) = p[1] /\ p[1] \in Token
  BY <1>1
<1>3. /\ h \in Seq(Token) /\ Len(h) = Len(g) + 1 /\ h[Len(g) + 1] = p[1]
      /\ \A i \in 1..Len(g) : h[i] = g[i]
  BY <1>1, <1>2, AppendProperties
<1> HIDE DEF h, q
<1>4. ASSUME NEW i \in 1..Len(h) PROVE h[i] = Said(r, l, (m + 1) + i)
  <2>1. CASE i = Len(g) + 1
    <3>0. /\ n \in Nat /\ m \in Nat /\ Len(g) \in Nat /\ Len(p) \in Nat /\ Len(p) # 0
          /\ Len(g) + Len(p) = n - m
      BY <1>1
    <3>1. 1 \in 1..Len(p) /\ n + 1 - Len(p) + 1 = (m + 1) + i
      BY <3>0, <2>1
    <3> QED
      BY <1>1, <1>3, <2>1, <3>1
  <2>2. CASE i # Len(g) + 1
    <3>1. i \in 1..Len(g)
      BY <1>1, <1>3, <2>2
    <3> QED
      BY <1>1, <1>3, <3>1
  <2> QED
    BY <2>1, <2>2
<1>5. Len(h) + Len(q) = n - m
  BY <1>1, <1>2, <1>3
<1> QED
  BY <1>1, <1>3, <1>4, <1>5 DEF Told, h, q

(* The claim of NothingLost, of one session.                               *)
Whole(g, m, n, l, r, p) == g \o p = SubSeq(Append(r, l), m + 2, n + 1)

(* What was given goes on with what waits to all that was generated.       *)
LEMMA ToldIsAll ==
  ASSUME NEW k, NEW n, NEW l, NEW r, NEW p, NEW c, Good(k, n, l, r, p, c),
         NEW g, NEW m, Told(g, m, n, l, r, p)
  PROVE  Whole(g, m, n, l, r, p)
<1> DEFINE S == Token \cup {None}
           h == Append(r, l)
           a == g \o p
           b == SubSeq(h, m + 2, n + 1)
<1>1. /\ n \in Nat /\ n = Len(r) /\ r \in Seq(Token) /\ l \in S
      /\ p \in Seq(Token) /\ Len(p) \in Nat
      /\ \A i \in 1..Len(p) : p[i] = Said(r, l, n + 1 - Len(p) + i)
      /\ g \in Seq(Token) /\ Len(g) \in Nat /\ m \in Nat
      /\ Len(g) + Len(p) = n - m
      /\ \A i \in 1..Len(g) : g[i] = Said(r, l, (m + 1) + i)
  BY LenProperties DEF Good, Told
<1> HIDE DEF S
<1>2. r \in Seq(S)
  BY <1>1, SeqMonotonic DEF S
<1>3. /\ h \in Seq(S) /\ Len(h) = n + 1 /\ h[n + 1] = l
      /\ \A i \in 1..n : h[i] = r[i]
  BY <1>1, <1>2, AppendProperties
<1>4. /\ a \in Seq(Token) /\ Len(a) = n - m
      /\ \A i \in 1..Len(g) : a[i] = g[i]
      /\ \A i \in 1..Len(p) : a[Len(g) + i] = p[i]
  BY <1>1, Longer
<1> HIDE DEF h, a
<1>5. ASSUME NEW j \in 1..(n + 1) PROVE Said(r, l, j) = h[j]
  BY <1>1, <1>3 DEF Said
<1>6. ASSUME NEW i \in 1..(n - m) PROVE a[i] = h[(m + 1) + i]
  <2> DEFINE j == (m + 1) + i
  <2>1. j \in 1..(n + 1)
    BY <1>1
  <2>2. a[i] = Said(r, l, j)
    <3>1. CASE i \in 1..Len(g)
      BY <1>1, <1>4, <3>1
    <3>2. CASE i \notin 1..Len(g)
      <4> DEFINE x == i - Len(g)
      <4>1. x \in 1..Len(p) /\ Len(g) + x = i /\ n + 1 - Len(p) + x = j
        <5>1. /\ n \in Nat /\ m \in Nat /\ Len(g) \in Nat /\ Len(p) \in Nat
              /\ Len(g) + Len(p) = n - m
          BY <1>1
        <5> QED
          BY <3>2, <5>1
      <4> HIDE DEF x, j
      <4> QED
        BY <1>1, <1>4, <4>1
    <3> QED
      BY <3>1, <3>2
  <2> QED
    BY <1>5, <2>1, <2>2
<1>7. /\ b \in Seq(S) /\ Len(b) = n - m
      /\ \A i \in 1..(n - m) : b[i] = h[(m + 1) + i]
  <2>1. /\ m + 2 \in Int /\ n + 1 \in Int /\ \A i \in (m + 2)..(n + 1) : i \in 1..Len(h)
        /\ (IF m + 2 <= n + 1 THEN (n + 1) - (m + 2) + 1 ELSE 0) = n - m
        /\ (n + 1) - (m + 2) + 1 = n - m
    BY <1>1, <1>3
  <2>1a. \A i \in (m + 2)..(n + 1) : h[i] \in S
    BY <1>3, <2>1, ElementOfSeq
  <2>2. /\ b \in Seq(S) /\ Len(b) = n - m
        /\ \A i \in 1..(n - m) : b[i] = h[(m + 2) + i - 1]
    BY <2>1, <2>1a, SubSeqProperties
  <2>3. \A i \in 1..(n - m) : (m + 2) + i - 1 = (m + 1) + i
    BY <1>1
  <2> QED
    BY <2>2, <2>3
<1>8. a \in Seq(S)
  BY <1>4, SeqMonotonic DEF S
<1> HIDE DEF b
<1>9. a = b
  BY <1>4, <1>6, <1>7, <1>8, SeqEqual
<1> QED
  BY <1>9 DEF a, b, h, Whole


(* Every session's answer, live or not.                                    *)
AnswersOK ==
  /\ given \in [Session -> Seq(Token)]
  /\ since \in [Session -> Nat]
  /\ \A s \in Session :
       Told(given[s], since[s], next_pos[s], last_token[s], recent[s], pending_out[s])

(* What a step that returns nothing leaves of a session: everything that   *)
(* was said, or one token more that waits.                                 *)
Silent(s) ==
  \/ UNCHANGED <<next_pos[s], last_token[s], recent[s], pending_out[s]>>
  \/ /\ last_token[s] \in Token
     /\ \E tok \in Token :
          /\ next_pos'[s] = next_pos[s] + 1
          /\ last_token'[s] = tok
          /\ recent'[s] = Append(recent[s], last_token[s])
          /\ pending_out'[s] = Append(pending_out[s], tok)

(* decode_one_for_session is silent for the other sessions as well.        *)
LEMMA DecodeOneSilent ==
  ASSUME Fields, NEW t \in Session, last_token[t] # None, DecodeOne(t), NEW s \in Session
  PROVE  Silent(s)
<1>1. last_token[t] \in Token
  BY DEF Fields
<1>2. CASE DecodeFails(t)
  BY <1>2 DEF DecodeFails, Silent
<1>3. ASSUME NEW tok \in Token, DecodeSucceeds(t, tok) PROVE Silent(s)
  <2>1. CASE s = t
    BY <1>1, <1>3, <2>1 DEF DecodeSucceeds, Fields, Silent
  <2>2. CASE s # t
    BY <1>3, <2>2 DEF DecodeSucceeds, Fields, Silent
  <2> QED
    BY <2>1, <2>2
<1> QED
  BY <1>2, <1>3 DEF DecodeOne

(* So are all the steps that return nothing.                               *)
LEMMA GivesNothingSilent ==
  ASSUME IInv, GivesNothing, NEW s \in Session
  PROVE  Silent(s)
<1>1. Scalars /\ Fields /\ RingOK /\ BurstOK
  BY DEF IInv
<1>2. CASE FairDecode
  <2>1. Nth(rr, Calls(rr, Scan, Decodable)) \in Decodable
    BY <1>1, <1>2, ScanType, CallsFacts DEF FairDecode
  <2>2. PICK t \in Session : t = Nth(rr, Calls(rr, Scan, Decodable)) /\ last_token[t] # None
    BY <1>1, <2>1, LiveFacts DEF Decodable
  <2>3. DecodeOne(t)
    BY <1>2, <2>2 DEF FairDecode
  <2> QED
    BY <1>1, <2>2, <2>3, DecodeOneSilent
<1>3. CASE ListDecode
  <2>1. PICK t \in burst.todo : DecodeOne(t)
    BY <1>3 DEF ListDecode
  <2>2. t \in Session /\ last_token[t] # None
    BY <1>1, <1>3, <2>1 DEF ListDecode, Scalars, Bursts, BurstOK
  <2> QED
    BY <1>1, <2>1, <2>2, DecodeOneSilent
<1>4. CASE StepStartsBurst \/ FairPickFails
  BY <1>4 DEF StepStartsBurst, FairPickFails, sessionVars, Silent
<1>5. CASE CreateSession \/ \E t \in Session : SuspendSession(t) \/ ResumeSession(t)
  BY <1>5 DEF CreateSession, SuspendSession, ResumeSession, sessionVars, Silent
<1>6. CASE \/ \E level \in ThermalLevels : SetThermalLevel(level)
           \/ \E q \in Policies : SetSchedulingPolicy(q)
  BY <1>6 DEF SetThermalLevel, SetSchedulingPolicy, sessionVars, Silent
<1> QED
  BY <1>2, <1>3, <1>4, <1>5, <1>6 DEF GivesNothing

(* A call that begins an answer clears the buffer, and touches the fields  *)
(* of its own session only.                                                *)
LEMMA BeginsClear ==
  ASSUME Fields, NEW s \in Session, BeginsAnswer(s)
  PROVE  /\ pending_out'[s] = << >>
         /\ \A t \in Session \ {s} :
              UNCHANGED <<next_pos[t], last_token[t], recent[t], pending_out[t]>>
<1>1. CASE CancelSession(s)
  BY <1>1 DEF CancelSession, Fields
<1>2. CASE ResetSession(s)
  BY <1>2 DEF ResetSession, RestoreSnapshot, Fields
<1>3. ASSUME NEW ts \in Prompts, Submit(s, ts)
      PROVE  /\ pending_out'[s] = << >>
             /\ \A t \in Session \ {s} :
                  UNCHANGED <<next_pos[t], last_token[t], recent[t], pending_out[t]>>
  <2>1. CASE SubmitHit(s, ts)
    BY <2>1 DEF SubmitHit, RestoreSnapshot, Fields
  <2>2. CASE SubmitPrefillFails(s, ts)
    BY <2>2 DEF SubmitPrefillFails, Fields
  <2>3. CASE SubmitStepFails(s, ts)
    BY <2>3 DEF SubmitStepFails, Fields
  <2>4. CASE \E tok \in Token : SubmitSucceeds(s, ts, tok)
    BY <2>4 DEF SubmitSucceeds, Fields
  <2> QED
    BY <1>3, <2>1, <2>2, <2>3, <2>4 DEF Submit
<1> QED
  BY <1>1, <1>2, <1>3 DEF BeginsAnswer

(* Every step keeps what the clients have been told.                       *)
LEMMA AnswersKept ==
  ASSUME IInv, IInv', AnswersOK, [DeliveryNext]_deliveryVars
  PROVE  AnswersOK'
<1>1. Scalars /\ Fields /\ RingOK /\ Fields'
  BY DEF IInv
<1>2. ASSUME NEW s \in Session, BeginsAnswer(s) PROVE AnswersOK'
  <2>1. /\ given' = [given EXCEPT ![s] = << >>]
        /\ since' = [since EXCEPT ![s] = next_pos'[s]] /\ next_pos'[s] \in Nat
    BY <1>1, <1>2 DEF BeginsAnswer, Fields
  <2>2. << >> \in Seq(Token)
    OBVIOUS
  <2>3. given' \in [Session -> Seq(Token)] /\ since' \in [Session -> Nat]
    BY <2>1, <2>2 DEF AnswersOK
  <2>4. ASSUME NEW t \in Session
        PROVE  Told(given'[t], since'[t], next_pos'[t], last_token'[t], recent'[t], pending_out'[t])
    <3>1. CASE t = s
      <4>1. given'[s] = << >> /\ since'[s] = next_pos'[s] /\ pending_out'[s] = << >>
        BY <1>1, <1>2, <2>1, BeginsClear DEF AnswersOK
      <4> QED
        BY <2>1, <3>1, <4>1, ToldBegins
    <3>2. CASE t # s
      <4>1. UNCHANGED <<next_pos[t], last_token[t], recent[t], pending_out[t]>>
        BY <1>1, <1>2, <3>2, BeginsClear
      <4>2. given'[t] = given[t] /\ since'[t] = since[t]
        BY <2>1, <3>2 DEF AnswersOK
      <4> QED
        BY <4>1, <4>2 DEF AnswersOK
    <3> QED
      BY <3>1, <3>2
  <2> QED
    BY <2>3, <2>4 DEF AnswersOK
<1>3. CASE Answers
  <2>1. UNCHANGED <<next_pos, last_token, recent, since>>
    BY <1>3 DEF Answers, StepDelivers, StepEnds
  <2>2. CASE Hits(rr, Scan, Deliverable) = {}
    <3>1. pending_out' = pending_out /\ given' = given
      BY <1>3, <2>2 DEF Answers, StepDelivers, StepEnds, PopPending
    <3> QED
      BY <2>1, <3>1 DEF AnswersOK
  <2>3. CASE Hits(rr, Scan, Deliverable) # {}
    <3>1. Nth(rr, Calls(rr, Scan, Deliverable)) \in Deliverable
      BY <1>1, <2>3, ScanType, CallsFacts
    <3>2. PICK s \in Session : s = Nth(rr, Calls(rr, Scan, Deliverable)) /\ pending_out[s] # << >>
      BY <1>1, <3>1, LiveFacts DEF Deliverable
    <3>3. PopPending
      BY <1>3, <2>3 DEF Answers, StepDelivers, StepEnds
    <3>4. /\ given' = [given EXCEPT ![s] = Append(given[s], Head(pending_out[s]))]
          /\ pending_out' = [pending_out EXCEPT ![s] = Tail(pending_out[s])]
      BY <1>3, <2>3, <3>2, <3>3 DEF Answers, PopPending
    <3> DEFINE g == Append(given[s], Head(pending_out[s]))
               p == Tail(pending_out[s])
    <3>5. Told(g, since[s], next_pos[s], last_token[s], recent[s], p)
      BY <1>1, <3>2, OwnGood, ToldDelivered DEF AnswersOK
    <3>6. given' = [given EXCEPT ![s] = g] /\ pending_out' = [pending_out EXCEPT ![s] = p]
      BY <3>4
    <3> HIDE DEF g, p
    <3>7. given' \in [Session -> Seq(Token)]
      BY <3>5, <3>6 DEF AnswersOK, Told
    <3>8. ASSUME NEW t \in Session
          PROVE  Told(given'[t], since[t], next_pos[t], last_token[t], recent[t], pending_out'[t])
      <4>1. CASE t = s
        <5>1. given'[s] = g /\ pending_out'[s] = p
          BY <1>1, <3>6 DEF AnswersOK, Fields
        <5> QED
          BY <3>5, <4>1, <5>1
      <4>2. CASE t # s
        <5>1. given'[t] = given[t] /\ pending_out'[t] = pending_out[t]
          BY <1>1, <3>6, <4>2 DEF AnswersOK, Fields
        <5> QED
          BY <5>1 DEF AnswersOK
      <4> QED
        BY <4>1, <4>2
    <3> QED
      BY <2>1, <3>7, <3>8 DEF AnswersOK
  <2> QED
    BY <2>2, <2>3
<1>4. CASE GivesNothing
  <2>1. given' = given /\ since' = since
    BY <1>4 DEF GivesNothing
  <2>2. ASSUME NEW s \in Session
        PROVE  Told(given[s], since[s], next_pos'[s], last_token'[s], recent'[s], pending_out'[s])
    <3>1. Told(given[s], since[s], next_pos[s], last_token[s], recent[s], pending_out[s])
      BY DEF AnswersOK
    <3>2. Good(kv[s], next_pos[s], last_token[s], recent[s], pending_out[s], snapshot[s])
      BY <1>1, OwnGood
    <3>3. Silent(s)
      BY <1>4, GivesNothingSilent
    <3>4. CASE UNCHANGED <<next_pos[s], last_token[s], recent[s], pending_out[s]>>
      BY <3>1, <3>4
    <3>5. CASE ~ UNCHANGED <<next_pos[s], last_token[s], recent[s], pending_out[s]>>
      <4>1. PICK tok \in Token :
              /\ last_token[s] \in Token
              /\ next_pos'[s] = next_pos[s] + 1
              /\ last_token'[s] = tok
              /\ recent'[s] = Append(recent[s], last_token[s])
              /\ pending_out'[s] = Append(pending_out[s], tok)
        BY <3>3, <3>5 DEF Silent
      <4>2. Told(given[s], since[s], next_pos[s] + 1, tok, Append(recent[s], last_token[s]),
                 Append(pending_out[s], tok))
        BY <3>1, <3>2, <4>1, ToldDecoded
      <4> QED
        BY <4>1, <4>2
    <3> QED
      BY <3>4, <3>5
  <2> QED
    BY <2>1, <2>2 DEF AnswersOK
<1>5. CASE UNCHANGED deliveryVars
  BY <1>5 DEF deliveryVars, vars, AnswersOK
<1> QED
  BY <1>2, <1>3, <1>4, <1>5 DEF DeliveryNext

(* The recording variables change nothing: this is the engine.             *)
LEMMA DeliverySteps == [DeliveryNext]_deliveryVars => [Next]_vars
<1>1. DeliveryNext => Next
  BY DEF DeliveryNext, BeginsAnswer, Answers, GivesNothing, Next, Client, StepDecode
<1> QED
  BY <1>1 DEF deliveryVars

(* What step_decode has returned of an answer goes on with what waits to   *)
(* all that was decoded since it began, for every client, every number of  *)
(* sessions and every burst: nothing is lost, repeated or turned round     *)
(* between decode_one_for_session and the caller.                          *)
THEOREM PendingInOrder == DeliverySpec => []NothingLost
<1>1. DeliverySpec => []IInv
  <2>1. DeliverySpec => Spec
    <3>1. DeliveryInit => Init
      BY DEF DeliveryInit
    <3> QED
      BY <3>1, DeliverySteps, PTL DEF DeliverySpec, Spec
  <2> QED
    BY <2>1, Invariant, PTL
<1>2. DeliveryInit => AnswersOK
  <2> SUFFICES ASSUME DeliveryInit PROVE AnswersOK
    OBVIOUS
  <2>1. << >> \in Seq(Token) /\ 0 \in Nat
    OBVIOUS
  <2>2. Told(<< >>, 0, 0, None, << >>, << >>)
    BY <2>1, ToldBegins
  <2> QED
    BY <2>1, <2>2 DEF DeliveryInit, Init, AnswersOK
<1>3. IInv /\ IInv' /\ AnswersOK /\ [DeliveryNext]_deliveryVars => AnswersOK'
  BY AnswersKept
<1>4. DeliverySpec => []AnswersOK
  BY <1>1, <1>2, <1>3, PTL DEF DeliverySpec
<1>5. IInv /\ AnswersOK => NothingLost
  <2> SUFFICES ASSUME IInv, AnswersOK, NEW s \in live
               PROVE  given[s] \o pending_out[s] =
                        SubSeq(Append(recent[s], last_token[s]), since[s] + 2, next_pos[s] + 1)
    BY DEF NothingLost
  <2>1. Scalars /\ Fields
    BY DEF IInv
  <2>2. s \in Session
    BY <2>1, LiveFacts
  <2>3. Good(kv[s], next_pos[s], last_token[s], recent[s], pending_out[s], snapshot[s])
    BY <2>1, <2>2, OwnGood
  <2>4. Told(given[s], since[s], next_pos[s], last_token[s], recent[s], pending_out[s])
    BY <2>2 DEF AnswersOK
  <2>5. Whole(given[s], since[s], next_pos[s], last_token[s], recent[s], pending_out[s])
    BY <2>3, <2>4, ToldIsAll
  <2> QED
    BY <2>5 DEF Whole
<1> QED
  BY <1>1, <1>4, <1>5, PTL
=============================================================================
