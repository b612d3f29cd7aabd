------------------------- MODULE TiledMatmulProofs --------------------------
(***************************************************************************)
(* The tiled product is exact for every size of tile and matrices and for  *)
(* every order of the lanes: two barriers a round are enough for lanes     *)
(* that load the elements other lanes multiply.                            *)
(***************************************************************************)
EXTENDS TiledMatmul, FiniteSetTheorems, TLAPS

(* The product of an element of the row and its partner in the column.     *)
Pair(r, c, k) == <<<<r, k>>, <<k, c>>>>
Part(r, c, n) == SetToBag({Pair(r, c, k) : k \in 0..(n - 1)})

-----------------------------------------------------------------------------
(* The inductive invariant                                                 *)

Typed ==
  /\ group \in (0..(Groups(M) - 1)) \X (0..(Groups(N) - 1))
  /\ round \in [Lanes -> 0..(K - 1)]
  /\ stage \in [Lanes -> {"load", "loaded", "added", "done"}]
  /\ DOMAIN aTile = Lanes /\ DOMAIN bTile = Lanes /\ DOMAIN acc = Lanes

(* The barriers: a lane is at most one round ahead, of lanes that are      *)
(* through with their round, and has added nothing in its own; no lane     *)
(* adds while another has still to load; all store in the last round.      *)
InStep ==
  \A l, k \in Lanes :
    /\ round[l] > round[k] =>
         round[l] = round[k] + Tile /\ stage[k] = "added" /\ stage[l] \in {"load", "loaded"}
    /\ round[l] = round[k] /\ stage[l] \in {"added", "done"} => stage[k] # "load"
    /\ stage[l] = "done" =>
         round[l] + Tile >= K /\ round[k] = round[l] /\ stage[k] \in {"added", "done"}

(* What a lane has brought is of its round.                                *)
Brought ==
  \A l \in Lanes : stage[l] # "load" =>
    /\ aTile[l] = Element(Row(l), round[l] + l[2], M, K)
    /\ bTile[l] = Element(round[l] + l[1], Col(l), K, N)

(* A lane inside the product has added all pairs it has passed.            *)
Reached(l) ==
  IF stage[l] \in {"load", "loaded"} THEN round[l]
  ELSE IF round[l] + Tile < K THEN round[l] + Tile ELSE K
Inside(l) == Row(l) < M /\ Col(l) < N
Added == \A l \in Lanes : Inside(l) => acc[l] = Part(Row(l), Col(l), Reached(l))

(* What is stored is stored by lanes that are done, at their places.       *)
Place(l) == <<Row(l), Col(l)>>
Stored ==
  /\ \A p \in DOMAIN out : \E l \in Lanes : Inside(l) /\ p = Place(l)
  /\ \A l \in Lanes : stage[l] = "done" /\ Inside(l) => Place(l) \in DOMAIN out
  /\ ExactProduct

TInv == Typed /\ InStep /\ Brought /\ Added /\ Stored

-----------------------------------------------------------------------------
(* Places                                                                  *)

(* What the constants are.                                                 *)
LEMMA Sizes ==
  ASSUME TileAssumption
  PROVE  /\ Tile \in Nat /\ M \in Nat /\ N \in Nat /\ K \in Nat
         /\ Tile > 0 /\ M > 0 /\ N > 0 /\ K > 0
         /\ Zero \notin Nat \X Nat
  BY DEF TileAssumption

(* A lane is its row and its column in the tile.                           *)
LEMMA LaneFacts ==
  ASSUME TileAssumption, NEW l \in Lanes
  PROVE  /\ l[1] \in Nat /\ l[2] \in Nat /\ l[1] < Tile /\ l[2] < Tile
         /\ l[1] \in Side /\ l[2] \in Side /\ l = <<l[1], l[2]>>
         /\ \A i \in Side : <<l[1], i>> \in Lanes /\ <<i, l[2]>> \in Lanes
                             /\ i \in Nat /\ i < Tile
  BY Sizes DEF Lanes, Side

(* The grid has a natural number of groups.                                *)
LEMMA GroupFacts ==
  ASSUME TileAssumption, Typed
  PROVE  /\ group[1] \in Nat /\ group[2] \in Nat
         /\ group[1] * Tile \in Nat /\ group[2] * Tile \in Nat
<1>1. group[1] \in 0..(Groups(M) - 1) /\ group[2] \in 0..(Groups(N) - 1)
  BY DEF Typed
<1>2. Groups(M) \in Int /\ Groups(N) \in Int
  BY Sizes DEF Groups
<1>3. group[1] \in Nat /\ group[2] \in Nat
  BY <1>1, <1>2
<1>4. \A m, n \in Nat : m * n \in Nat
  OBVIOUS
<1> QED
  BY <1>3, <1>4, Sizes

(* So a lane's place is a row and a column.                                *)
LEMMA PlaceFacts ==
  ASSUME TileAssumption, Typed, NEW l \in Lanes
  PROVE  Row(l) \in Nat /\ Col(l) \in Nat
  BY LaneFacts, GroupFacts DEF Row, Col

(* The tile of a place, and the place in the tile.                         *)
LEMMA TileOf ==
  ASSUME NEW t \in Nat \ {0}, NEW g \in Nat, NEW i \in 0..(t - 1)
  PROVE  (g * t + i) \div t = g
  OBVIOUS

LEMMA PlaceInTile ==
  ASSUME NEW t \in Nat \ {0}, NEW n \in Nat
  PROVE  n % t \in 0..(t - 1) /\ n = (n \div t) * t + (n % t)
  OBVIOUS

-----------------------------------------------------------------------------
(* Sums                                                                    *)

(* Pairs of different k are different.                                     *)
LEMMA PairsDiffer ==
  ASSUME NEW r, NEW c, NEW k, NEW m, Pair(r, c, k) = Pair(r, c, m)
  PROVE  k = m
  BY DEF Pair

(* What is Element inside the factors and beyond.                          *)
LEMMA ElementFacts ==
  ASSUME TileAssumption, NEW r \in Nat, NEW c \in Nat, NEW rows, NEW cols
  PROVE  /\ r < rows /\ c < cols => Element(r, c, rows, cols) = <<r, c>>
         /\ ~(r < rows /\ c < cols) => Element(r, c, rows, cols) = Zero
         /\ <<r, c>> # Zero
  BY Sizes DEF Element

(* One round of additions: the pairs of the tile, each once.               *)
LEMMA RoundAdds ==
  ASSUME TileAssumption, Typed, NEW l \in Lanes, Inside(l), NEW n \in 0..(K - 1),
         \A i \in Side : /\ aTile[<<l[1], i>>] = Element(Row(l), n + i, M, K)
                         /\ bTile[<<i, l[2]>>] = Element(n + i, Col(l), K, N)
  PROVE  Products(l) = SetToBag({Pair(Row(l), Col(l), n + i) : i \in {j \in Side : n + j < K}})
<1> DEFINE r == Row(l)
           c == Col(l)
           I == {j \in Side : n + j < K}
<1>1. r \in Nat /\ c \in Nat /\ r < M /\ c < N
  BY PlaceFacts DEF Inside
<1>2. n \in Nat /\ \A i \in Side : i \in Nat /\ n + i \in Nat
  BY Sizes DEF Side
<1> HIDE DEF r, c
<1>3. \A i \in Side :
        /\ n + i < K => aTile[<<l[1], i>>] = <<r, n + i>> /\ bTile[<<i, l[2]>>] = <<n + i, c>>
                         /\ <<r, n + i>> # Zero /\ <<n + i, c>> # Zero
        /\ ~(n + i < K) => aTile[<<l[1], i>>] = Zero
  BY <1>1, <1>2, ElementFacts DEF r, c
<1>4. Filled(l) = I
  BY <1>3 DEF Filled
<1>5. \A i \in I : Factors(l, i) = Pair(r, c, n + i)
  BY <1>3 DEF Factors, Pair
<1>6. \A i, j \in I : Pair(r, c, n + i) = Pair(r, c, n + j) => i = j
  <2> SUFFICES ASSUME NEW i \in I, NEW j \in I, Pair(r, c, n + i) = Pair(r, c, n + j)
               PROVE  i = j
    OBVIOUS
  <2>1. n + i = n + j
    BY PairsDiffer
  <2> QED
    BY <1>2, <2>1
<1> HIDE DEF I
<1>7. {Factors(l, i) : i \in Filled(l)} = {Pair(r, c, n + i) : i \in I}
  BY <1>4, <1>5
<1>8. ASSUME NEW p \in {Pair(r, c, n + i) : i \in I}
      PROVE  Cardinality({i \in Filled(l) : Factors(l, i) = p}) = 1
  <2>1. PICK j \in I : p = Pair(r, c, n + j)
    OBVIOUS
  <2>2. {i \in Filled(l) : Factors(l, i) = p} = {j}
    BY <1>4, <1>5, <1>6, <2>1
  <2> QED
    BY <2>2, FS_Singleton
<1> QED
  BY <1>7, <1>8 DEF Products, SetToBag, I, r, c

(* The pairs of a round follow those of the rounds before.                 *)
LEMMA PartGrows ==
  ASSUME TileAssumption, NEW r, NEW c, NEW n \in 0..(K - 1)
  PROVE  Part(r, c, n) (+) SetToBag({Pair(r, c, n + i) : i \in {j \in Side : n + j < K}})
           = Part(r, c, IF n + Tile < K THEN n + Tile ELSE K)
<1> DEFINE A == {Pair(r, c, k) : k \in 0..(n - 1)}
           I == {j \in Side : n + j < K}
           B == {Pair(r, c, n + i) : i \in I}
           e == IF n + Tile < K THEN n + Tile ELSE K
           C == {Pair(r, c, k) : k \in 0..(e - 1)}
<1>1. n \in Nat /\ e \in Nat /\ n <= e
  BY Sizes
<1>2. \A i \in I : n + i \in n..(e - 1)
  BY Sizes DEF Side
<1>3. \A k \in n..(e - 1) : k - n \in I /\ n + (k - n) = k
  BY Sizes DEF Side
<1> HIDE DEF I, e
<1>4. A \cap B = {}
  <2> SUFFICES ASSUME NEW k \in 0..(n - 1), NEW i \in I, Pair(r, c, k) = Pair(r, c, n + i)
               PROVE  FALSE
    OBVIOUS
  <2>1. k = n + i
    BY PairsDiffer
  <2> QED
    BY <1>1, <1>2, <2>1
<1>5. A \cup B = C
  <2>1. A \subseteq C
    BY <1>1
  <2>2. B \subseteq C
    <3> SUFFICES ASSUME NEW i \in I PROVE n + i \in 0..(e - 1)
      OBVIOUS
    <3> QED
      BY <1>1, <1>2
  <2>3. ASSUME NEW k \in 0..(e - 1) PROVE Pair(r, c, k) \in A \cup B
    <3>1. k \in 0..(n - 1) \/ k \in n..(e - 1)
      BY <1>1
    <3>2. CASE k \in n..(e - 1)
      <4>1. k - n \in I /\ n + (k - n) = k
        BY <1>3, <3>2
      <4> QED
        BY <4>1
    <3> QED
      BY <3>1, <3>2
  <2> QED
    BY <2>1, <2>2, <2>3
<1> HIDE DEF A, B, C
<1>6. SetToBag(A) (+) SetToBag(B) = SetToBag(C)
  BY <1>4, <1>5 DEF SetToBag, (+)
<1> QED
  BY <1>6 DEF Part, A, B, C, e, I

-----------------------------------------------------------------------------
(* The steps                                                               *)

(* At first nothing is loaded, added or stored.                            *)
LEMMA TInit ==
  ASSUME TileAssumption, Init
  PROVE  TInv
<1>1. /\ group \in (0..(Groups(M) - 1)) \X (0..(Groups(N) - 1))
      /\ round = [l \in Lanes |-> 0] /\ stage = [l \in Lanes |-> "load"]
      /\ DOMAIN aTile = Lanes /\ DOMAIN bTile = Lanes
      /\ acc = [l \in Lanes |-> EmptyBag] /\ out = << >>
  BY DEF Init
<1>2. Typed
  BY <1>1, Sizes DEF Typed
<1>3. InStep /\ Brought
  BY <1>1 DEF InStep, Brought
<1>4. Added
  <2> SUFFICES ASSUME NEW l \in Lanes PROVE acc[l] = Part(Row(l), Col(l), Reached(l))
    BY DEF Added
  <2>1. Reached(l) = 0
    BY <1>1 DEF Reached
  <2>2. Part(Row(l), Col(l), 0) = EmptyBag
    <3>1. {Pair(Row(l), Col(l), k) : k \in 0..(0 - 1)} = {}
      OBVIOUS
    <3> QED
      BY <3>1 DEF Part, EmptyBag
  <2> QED
    BY <1>1, <2>1, <2>2
<1>5. Stored
  <2>1. DOMAIN out = {}
    BY <1>1
  <2> QED
    BY <1>1, <2>1 DEF Stored, ExactProduct
<1> QED
  BY <1>2, <1>3, <1>4, <1>5 DEF TInv

(* A lane that loads touches its own places only.                          *)
LEMMA LoadInv ==
  ASSUME TileAssumption, TInv, NEW l \in Lanes, Load(l)
  PROVE  TInv'
<1>1. /\ stage[l] = "load" /\ stage' = [stage EXCEPT ![l] = "loaded"]
      /\ aTile' = [aTile EXCEPT ![l] = Element(Row(l), round[l] + l[2], M, K)]
      /\ bTile' = [bTile EXCEPT ![l] = Element(round[l] + l[1], Col(l), K, N)]
      /\ UNCHANGED <<group, round, acc, out>>
  BY DEF Load
<1>2. Typed /\ InStep /\ Brought /\ Added /\ Stored
  BY DEF TInv
<1>3. /\ stage'[l] = "loaded" /\ \A k \in Lanes \ {l} : stage'[k] = stage[k]
      /\ \A k \in Lanes : Row(k)' = Row(k) /\ Col(k)' = Col(k)
  BY <1>1, <1>2 DEF Typed, Row, Col
<1>4. Typed'
  BY <1>1, <1>2 DEF Typed
<1>5. InStep'
  BY <1>1, <1>2, <1>3 DEF InStep
<1>6. Brought'
  BY <1>1, <1>2, <1>3 DEF Brought, Typed
<1>7. Added'
  BY <1>1, <1>2, <1>3 DEF Added, Inside, Reached
<1>8. Stored'
  BY <1>1, <1>2, <1>3 DEF Stored, ExactProduct, Inside, Place
<1> QED
  BY <1>4, <1>5, <1>6, <1>7, <1>8 DEF TInv

(* Behind the first barrier every lane of the tile has brought its         *)
(* elements of this very round.                                            *)
LEMMA AccumulateInv ==
  ASSUME TileAssumption, TInv, NEW l \in Lanes, Accumulate(l)
  PROVE  TInv'
<1>1. /\ stage[l] = "loaded" /\ AllLoaded(l) /\ stage' = [stage EXCEPT ![l] = "added"]
      /\ acc' = [acc EXCEPT ![l] = @ (+) Products(l)]
      /\ UNCHANGED <<group, round, aTile, bTile, out>>
  BY DEF Accumulate
<1>2. Typed /\ InStep /\ Brought /\ Added /\ Stored
  BY DEF TInv
<1>3. /\ stage'[l] = "added" /\ \A k \in Lanes \ {l} : stage'[k] = stage[k]
      /\ acc'[l] = acc[l] (+) Products(l) /\ \A k \in Lanes \ {l} : acc'[k] = acc[k]
      /\ \A k \in Lanes : Row(k)' = Row(k) /\ Col(k)' = Col(k)
  BY <1>1, <1>2 DEF Typed, Row, Col
<1>4. \A k \in Lanes : round[k] = round[l] /\ stage[k] # "load"
  BY <1>1, <1>2 DEF AllLoaded, InStep
<1>5. Typed'
  BY <1>1, <1>2, <1>3 DEF Typed
<1>6. InStep'
  BY <1>1, <1>2, <1>3, <1>4 DEF InStep
<1>7. Brought'
  BY <1>1, <1>2, <1>3, <1>4 DEF Brought
<1>8. Inside(l) => acc'[l] = Part(Row(l), Col(l), Reached(l)')
  <2> SUFFICES ASSUME Inside(l) PROVE acc'[l] = Part(Row(l), Col(l), Reached(l)')
    OBVIOUS
  <2> DEFINE n == round[l]
  <2>1. n \in 0..(K - 1)
    BY <1>2 DEF Typed
  <2>2. ASSUME NEW i \in Side
        PROVE  /\ aTile[<<l[1], i>>] = Element(Row(l), n + i, M, K)
               /\ bTile[<<i, l[2]>>] = Element(n + i, Col(l), K, N)
    <3>1. <<l[1], i>> \in Lanes /\ <<i, l[2]>> \in Lanes
      BY LaneFacts
    <3>2. Row(<<l[1], i>>) = Row(l) /\ Col(<<i, l[2]>>) = Col(l)
      BY DEF Row, Col
    <3>3. round[<<l[1], i>>] = n /\ round[<<i, l[2]>>] = n
      BY <1>4, <3>1
    <3>4. <<l[1], i>>[2] = i /\ <<i, l[2]>>[1] = i
      OBVIOUS
    <3>5. aTile[<<l[1], i>>] = Element(Row(<<l[1], i>>), round[<<l[1], i>>] + <<l[1], i>>[2], M, K)
      BY <1>2, <1>4, <3>1 DEF Brought
    <3>6. bTile[<<i, l[2]>>] = Element(round[<<i, l[2]>>] + <<i, l[2]>>[1], Col(<<i, l[2]>>), K, N)
      BY <1>2, <1>4, <3>1 DEF Brought
    <3> QED
      BY <3>2, <3>3, <3>4, <3>5, <3>6
  <2> HIDE DEF n
  <2>3. Products(l) = SetToBag({Pair(Row(l), Col(l), n + i) : i \in {j \in Side : n + j < K}})
    BY <1>2, <2>1, <2>2, RoundAdds
  <2>4. acc[l] = Part(Row(l), Col(l), n)
    BY <1>1, <1>2 DEF Added, Reached, n
  <2>5. Reached(l)' = IF n + Tile < K THEN n + Tile ELSE K
    BY <1>1, <1>3 DEF Reached, n
  <2> QED
    BY <1>3, <2>1, <2>3, <2>4, <2>5, PartGrows
<1>9. Added'
  BY <1>1, <1>2, <1>3, <1>8 DEF Added, Inside, Reached
<1>10. Stored'
  BY <1>1, <1>2, <1>3 DEF Stored, ExactProduct, Inside, Place
<1> QED
  BY <1>5, <1>6, <1>7, <1>9, <1>10 DEF TInv

(* Behind the second barrier nobody reads the tiles of this round.         *)
LEMMA AgainInv ==
  ASSUME TileAssumption, TInv, NEW l \in Lanes, Again(l)
  PROVE  TInv'
<1>1. /\ stage[l] = "added" /\ AllAdded(l) /\ round[l] + Tile < K
      /\ round' = [round EXCEPT ![l] = @ + Tile] /\ stage' = [stage EXCEPT ![l] = "load"]
      /\ UNCHANGED <<group, aTile, bTile, acc, out>>
  BY DEF Again
<1>2. Typed /\ InStep /\ Brought /\ Added /\ Stored
  BY DEF TInv
<1>3. /\ stage'[l] = "load" /\ round'[l] = round[l] + Tile
      /\ \A k \in Lanes \ {l} : stage'[k] = stage[k] /\ round'[k] = round[k]
      /\ \A k \in Lanes : Row(k)' = Row(k) /\ Col(k)' = Col(k)
      /\ \A k \in Lanes : round[k] \in Nat /\ round[k] < K
  BY <1>1, <1>2, Sizes DEF Typed, Row, Col
<1>4. Typed'
  BY <1>1, <1>2, <1>3, Sizes DEF Typed
<1>5. InStep'
  <2> SUFFICES ASSUME NEW k \in Lanes, NEW m \in Lanes
        PROVE  /\ round'[k] > round'[m] =>
                    /\ round'[k] = round'[m] + Tile /\ stage'[m] = "added"
                    /\ stage'[k] \in {"load", "loaded"}
               /\ round'[k] = round'[m] /\ stage'[k] \in {"added", "done"} => stage'[m] # "load"
               /\ stage'[k] = "done" =>
                    /\ round'[k] + Tile >= K /\ round'[m] = round'[k]
                    /\ stage'[m] \in {"added", "done"}
    BY DEF InStep
  <2>1. \A j \in Lanes \ {l} :
          \/ round[j] = round[l] /\ stage[j] = "added"
          \/ round[j] = round[l] + Tile /\ stage[j] \in {"load", "loaded"}
    BY <1>1, <1>2, <1>3, Sizes DEF AllAdded, InStep
  <2>2. CASE k = l
    BY <1>3, <2>1, <2>2, Sizes
  <2>3. CASE k # l /\ m = l
    BY <1>3, <2>1, <2>3, Sizes
  <2>4. CASE k # l /\ m # l
    BY <1>2, <1>3, <2>1, <2>4, Sizes DEF InStep
  <2> QED
    BY <2>2, <2>3, <2>4
<1>6. Brought'
  BY <1>1, <1>2, <1>3 DEF Brought
<1>7. Added'
  BY <1>1, <1>2, <1>3 DEF Added, Inside, Reached
<1>8. Stored'
  BY <1>1, <1>2, <1>3 DEF Stored, ExactProduct, Inside, Place
<1> QED
  BY <1>4, <1>5, <1>6, <1>7, <1>8 DEF TInv

(* A lane stores what it has added after its last round: all pairs.        *)
LEMMA StoreInv ==
  ASSUME TileAssumption, TInv, NEW l \in Lanes, Store(l)
  PROVE  TInv'
<1>1. /\ stage[l] = "added" /\ AllAdded(l) /\ round[l] + Tile >= K
      /\ stage' = [stage EXCEPT ![l] = "done"]
      /\ UNCHANGED <<group, round, aTile, bTile, acc>>
      /\ out' = IF Inside(l)
                THEN [p \in DOMAIN out \cup {Place(l)} |-> IF p = Place(l) THEN acc[l] ELSE out[p]]
                ELSE out
  BY DEF Store, Inside, Place
<1>2. Typed /\ InStep /\ Brought /\ Added /\ Stored
  BY DEF TInv
<1>3. /\ stage'[l] = "done" /\ \A k \in Lanes \ {l} : stage'[k] = stage[k]
      /\ \A k \in Lanes : Row(k)' = Row(k) /\ Col(k)' = Col(k)
      /\ \A k \in Lanes : round[k] \in Nat /\ round[k] < K
  BY <1>1, <1>2, Sizes DEF Typed, Row, Col
<1>4. Typed'
  BY <1>1, <1>2 DEF Typed
<1>5. \A k \in Lanes : round[k] = round[l] /\ stage[k] \in {"added", "done"}
  BY <1>1, <1>2, <1>3, Sizes DEF AllAdded, InStep
<1>6. InStep'
  BY <1>1, <1>2, <1>3, <1>5 DEF InStep
<1>7. Brought'
  BY <1>1, <1>2, <1>3, <1>5 DEF Brought
<1>8. Added'
  BY <1>1, <1>2, <1>3 DEF Added, Inside, Reached
<1>9. Stored'
  <2>1. \A k \in Lanes : (Inside(k)' <=> Inside(k)) /\ Place(k)' = Place(k)
    BY <1>3 DEF Inside, Place
  <2>2. CASE ~Inside(l)
    BY <1>1, <1>2, <1>3, <2>1, <2>2 DEF Stored, ExactProduct
  <2>3. CASE Inside(l)
    <3>1. /\ DOMAIN out' = DOMAIN out \cup {Place(l)} /\ out'[Place(l)] = acc[l]
          /\ \A p \in DOMAIN out \ {Place(l)} : out'[p] = out[p]
      BY <1>1, <2>3
    <3>2. acc[l] = Dot(Row(l), Col(l))
      <4>1. Reached(l) = K
        BY <1>1, <1>3, Sizes DEF Reached
      <4>2. Part(Row(l), Col(l), K) = Dot(Row(l), Col(l))
        BY DEF Part, Dot, Pair
      <4> QED
        BY <1>2, <2>3, <4>1, <4>2 DEF Added
    <3>3. Place(l)[1] = Row(l) /\ Place(l)[2] = Col(l)
      BY DEF Place
    <3>4. ASSUME NEW p \in DOMAIN out' PROVE out'[p] = Dot(p[1], p[2])
      <4>1. CASE p = Place(l)
        BY <3>1, <3>2, <3>3, <4>1
      <4>2. CASE p # Place(l)
        BY <1>2, <3>1, <4>2 DEF Stored, ExactProduct
      <4> QED
        BY <4>1, <4>2
    <3>5. \A p \in DOMAIN out' : \E k \in Lanes : Inside(k)' /\ p = Place(k)'
      BY <1>2, <2>1, <2>3, <3>1 DEF Stored
    <3>6. \A k \in Lanes : stage'[k] = "done" /\ Inside(k)' => Place(k)' \in DOMAIN out'
      BY <1>2, <1>3, <2>1, <3>1 DEF Stored
    <3> QED
      BY <3>4, <3>5, <3>6 DEF Stored, ExactProduct, Dot
  <2> QED
    BY <2>2, <2>3
<1> QED
  BY <1>4, <1>6, <1>7, <1>8, <1>9 DEF TInv

(* One step of any lane.                                                   *)
LEMMA TNext ==
  ASSUME TileAssumption, TInv, [Next]_vars
  PROVE  TInv'
<1>1. CASE Next
  BY <1>1, LoadInv, AccumulateInv, AgainInv, StoreInv DEF Next
<1>2. CASE UNCHANGED vars
  <2>1. /\ UNCHANGED <<group, round, stage, aTile, bTile, acc, out>>
        /\ Typed /\ InStep /\ Brought /\ Added /\ Stored
    BY <1>2 DEF vars, TInv
  <2>2. Typed' /\ InStep'
    BY <2>1 DEF Typed, InStep
  <2>3. \A k \in Lanes : /\ Row(k)' = Row(k) /\ Col(k)' = Col(k)
                         /\ (Inside(k)' <=> Inside(k)) /\ Place(k)' = Place(k)
                         /\ Reached(k)' = Reached(k)
    BY <2>1 DEF Row, Col, Inside, Place, Reached
  <2>4. Brought' /\ Added' /\ Stored'
    BY <2>1, <2>3 DEF Brought, Added, Stored, ExactProduct
  <2> QED
    BY <2>2, <2>4 DEF TInv
<1> QED
  BY <1>1, <1>2

-----------------------------------------------------------------------------
(* What the kernel computes                                                *)

(* Whatever the order of the lanes, every stored element is the product of *)
(* its row and column: each pair once, and none of another round.          *)
THEOREM ProductExact ==
  ASSUME TileAssumption
  PROVE  Spec => []ExactProduct
<1>1. Init => TInv
  BY TInit
<1>2. TInv /\ [Next]_vars => TInv'
  BY TNext
<1>3. TInv => ExactProduct
  BY DEF TInv, Stored
<1> QED
  BY <1>1, <1>2, <1>3, PTL DEF Spec

(* When a group is through, it has stored its tile, up to the edges of the *)
(* product, and nothing beyond.                                            *)
THEOREM TileWhole ==
  ASSUME TileAssumption
  PROVE  Spec => []WholeTile
<1>1. TInv => WholeTile
  <2> SUFFICES ASSUME TInv, \A l \in Lanes : stage[l] = "done"
               PROVE  DOMAIN out = {p \in (0..(M - 1)) \X (0..(N - 1)) :
                                      p[1] \div Tile = group[1] /\ p[2] \div Tile = group[2]}
    BY DEF WholeTile
  <2> DEFINE T == {p \in (0..(M - 1)) \X (0..(N - 1)) :
                     p[1] \div Tile = group[1] /\ p[2] \div Tile = group[2]}
  <2>1. Typed /\ Stored /\ group[1] \in Nat /\ group[2] \in Nat /\ Tile \in Nat \ {0}
    BY GroupFacts, Sizes DEF TInv
  <2>2. ASSUME NEW l \in Lanes, Inside(l) PROVE Place(l) \in T
    <3>1. /\ Row(l) \in 0..(M - 1) /\ Col(l) \in 0..(N - 1)
      BY <2>1, <2>2, PlaceFacts, Sizes DEF Inside
    <3>2. /\ l[1] \in 0..(Tile - 1) /\ l[2] \in 0..(Tile - 1)
      BY LaneFacts, Sizes
    <3>3. Row(l) \div Tile = group[1] /\ Col(l) \div Tile = group[2]
      BY <2>1, <3>2, TileOf DEF Row, Col
    <3> QED
      BY <3>1, <3>3 DEF Place
  <2>3. ASSUME NEW p \in T PROVE \E l \in Lanes : Inside(l) /\ p = Place(l)
    <3> DEFINE l == <<p[1] % Tile, p[2] % Tile>>
    <3>1. /\ p[1] \in Nat /\ p[2] \in Nat /\ p[1] < M /\ p[2] < N /\ p = <<p[1], p[2]>>
          /\ p[1] \div Tile = group[1] /\ p[2] \div Tile = group[2]
      BY Sizes
    <3>2. /\ p[1] % Tile \in 0..(Tile - 1) /\ p[1] = group[1] * Tile + (p[1] % Tile)
          /\ p[2] % Tile \in 0..(Tile - 1) /\ p[2] = group[2] * Tile + (p[2] % Tile)
      BY <2>1, <3>1, PlaceInTile
    <3>3. l \in Lanes /\ l[1] = p[1] % Tile /\ l[2] = p[2] % Tile
      BY <3>2 DEF Lanes, Side
    <3>4. Row(l) = p[1] /\ Col(l) = p[2]
      BY <3>2, <3>3 DEF Row, Col
    <3> QED
      BY <3>1, <3>3, <3>4 DEF Inside, Place
  <2> HIDE DEF T
  <2>4. DOMAIN out = T
    BY <2>1, <2>2, <2>3 DEF Stored
  <2> QED
    BY <2>4 DEF T
<1>2. Init => TInv
  BY TInit
<1>3. TInv /\ [Next]_vars => TInv'
  BY TNext
<1> QED
  BY <1>1, <1>2, <1>3, PTL DEF Spec

(* A lane can go on: it is not at a barrier, or the barrier is open.       *)
GoesOn(l) ==
  \/ stage[l] = "load"
  \/ stage[l] = "loaded" /\ AllLoaded(l)
  \/ stage[l] = "added" /\ AllAdded(l)

(* The lanes never all wait for each other: until all are done, one can go *)
(* on, although some lanes may be a round ahead.                           *)
THEOREM BarriersOpen ==
  ASSUME TileAssumption
  PROVE  Spec => []((\E l \in Lanes : stage[l] # "done") => \E l \in Lanes : GoesOn(l))
<1> DEFINE Open == (\E l \in Lanes : stage[l] # "done") => \E l \in Lanes : GoesOn(l)
<1>1. TInv => Open
  <2> SUFFICES ASSUME TInv, NEW l \in Lanes, stage[l] # "done",
                      \A k \in Lanes : stage[k] # "load"
               PROVE  \E k \in Lanes : GoesOn(k)
    BY DEF GoesOn
  <2>1. /\ InStep
        /\ \A k \in Lanes : /\ stage[k] \in {"loaded", "added", "done"}
                            /\ round[k] \in Nat
    BY Sizes DEF TInv, Typed
  <2>2. CASE \E k, m \in Lanes : round[k] > round[m]
    <3>1. PICK k \in Lanes, m \in Lanes : round[k] > round[m]
      BY <2>2
    <3>2. stage[m] = "added" /\ round[k] = round[m] + Tile /\ stage[k] = "loaded"
      BY <2>1, <3>1 DEF InStep
    <3>3. ASSUME NEW j \in Lanes
          PROVE  round[j] > round[m] \/ (round[j] = round[m] /\ stage[j] = "added")
      <4>1. CASE round[j] > round[m]
        BY <4>1
      <4>2. CASE round[j] < round[m]
        <5>1. round[j] < round[k]
          BY <2>1, <3>1, <4>2
        <5>2. round[k] = round[j] + Tile
          BY <2>1, <5>1 DEF InStep
        <5> QED
          BY <2>1, <3>2, <4>2, <5>2, Sizes
      <4>3. CASE round[j] = round[m]
        <5>1. round[k] > round[j]
          BY <3>1, <4>3
        <5> QED
          BY <2>1, <4>3, <5>1 DEF InStep
      <4> QED
        BY <2>1, <4>1, <4>2, <4>3
    <3> QED
      BY <3>2, <3>3 DEF GoesOn, AllAdded
  <2>3. CASE \A k, m \in Lanes : ~(round[k] > round[m])
    <3>1. \A k \in Lanes : round[k] = round[l]
      BY <2>1, <2>3
    <3>2. CASE \E k \in Lanes : stage[k] = "loaded"
      <4>1. PICK k \in Lanes : stage[k] = "loaded"
        BY <3>2
      <4> QED
        BY <2>1, <3>1, <4>1 DEF GoesOn, AllLoaded
    <3>3. CASE \A k \in Lanes : stage[k] # "loaded"
      BY <2>1, <3>1, <3>3 DEF GoesOn, AllAdded
    <3> QED
      BY <3>2, <3>3
  <2> QED
    BY <2>2, <2>3
<1>2. Init => TInv
  BY TInit
<1>3. TInv /\ [Next]_vars => TInv'
  BY TNext
<1> QED
  BY <1>1, <1>2, <1>3, PTL DEF Spec
=============================================================================
