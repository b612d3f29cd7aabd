---------------------------- MODULE TiledMatmul ----------------------------
(***************************************************************************)
(* matmul_tiled_f32, the Metal kernel behind the linear layers of the      *)
(* vision towers: a group of Tile x Tile lanes computes one tile of the    *)
(* product, loading a tile of each factor into the memory of the group     *)
(* before every round of additions.  The memory is used again in every     *)
(* round, so two barriers keep the rounds apart.                           *)
(*                                                                         *)
(* An element of a factor is its position, Zero beyond the matrix, and a   *)
(* sum is the bag of the products that went into it.                       *)
(***************************************************************************)
EXTENDS Integers, Sequences, FiniteSets, Bags

CONSTANTS
  Tile,    \* 16 in the code
  M, N, K, \* out is M x N, the factors are M x K and K x N
  Zero

TileAssumption ==
  /\ {Tile, M, N, K} \subseteq Nat \ {0}
  /\ Zero \notin Nat \X Nat

VARIABLES
  group,  \* position of the group in the grid
  round,  \* lane -> the k its round starts at
  stage,  \* lane -> "load", "loaded", "added" or "done"
  aTile,  \* position in the tile -> element of the left factor
  bTile,  \* position in the tile -> element of the right factor
  acc,    \* lane -> the products it has added
  out     \* position -> sum

vars == <<group, round, stage, aTile, bTile, acc, out>>

Side == 0 .. Tile - 1
Lanes == Side \X Side    \* <<lid.y, lid.x>>

(* grid_w, grid_h: the tiles of a side, rounded up.                        *)
Groups(n) == (n + Tile - 1) \div Tile

Element(r, c, rows, cols) == IF r < rows /\ c < cols THEN <<r, c>> ELSE Zero

Row(l) == group[1] * Tile + l[1]
Col(l) == group[2] * Tile + l[2]

Init ==
  /\ group \in (0 .. Groups(M) - 1) \X (0 .. Groups(N) - 1)
  /\ round = [l \in Lanes |-> 0]
  /\ stage = [l \in Lanes |-> "load"]
  /\ aTile = [l \in Lanes |-> Zero]
  /\ bTile = [l \in Lanes |-> Zero]
  /\ acc = [l \in Lanes |-> EmptyBag]
  /\ out = <<>>

(* A lane brings one element of each factor.                               *)
Load(l) ==
  /\ stage[l] = "load"
  /\ aTile' = [aTile EXCEPT ![l] = Element(Row(l), round[l] + l[2], M, K)]
  /\ bTile' = [bTile EXCEPT ![l] = Element(round[l] + l[1], Col(l), K, N)]
  /\ stage' = [stage EXCEPT ![l] = "loaded"]
  /\ UNCHANGED <<group, round, acc, out>>

(* The first barrier: every lane has loaded its elements of this round.    *)
AllLoaded(l) ==
  \A k \in Lanes : round[k] > round[l] \/ (round[k] = round[l] /\ stage[k] # "load")

(* One product of the loop, or nothing where a factor is zero-filled.      *)
Factors(l, i) == <<aTile[<<l[1], i>>], bTile[<<i, l[2]>>]>>
Filled(l) == {i \in Side : aTile[<<l[1], i>>] # Zero /\ bTile[<<i, l[2]>>] # Zero}

(* The bag of the products that a lane adds in a round.                    *)
Products(l) ==
  [p \in {Factors(l, i) : i \in Filled(l)} |->
     Cardinality({i \in Filled(l) : Factors(l, i) = p})]

(* A lane multiplies its row of the one tile by its column of the other.   *)
Accumulate(l) ==
  /\ stage[l] = "loaded"
  /\ AllLoaded(l)
  /\ acc' = [acc EXCEPT ![l] = @ (+) Products(l)]
  /\ stage' = [stage EXCEPT ![l] = "added"]
  /\ UNCHANGED <<group, round, aTile, bTile, out>>

(* The second barrier: nobody reads the tiles of this round any more.      *)
AllAdded(l) ==
  \A k \in Lanes : round[k] > round[l] \/ (round[k] = round[l] /\ stage[k] \in {"added", "done"})

(* The next round, while there is more of K.                               *)
Again(l) ==
  /\ stage[l] = "added"
  /\ AllAdded(l)
  /\ round[l] + Tile < K
  /\ round' = [round EXCEPT ![l] = @ + Tile]
  /\ stage' = [stage EXCEPT ![l] = "load"]
  /\ UNCHANGED <<group, aTile, bTile, acc, out>>

(* A lane inside the product stores its sum.                               *)
Store(l) ==
  /\ stage[l] = "added"
  /\ AllAdded(l)
  /\ round[l] + Tile >= K
  /\ out' = IF Row(l) < M /\ Col(l) < N
              THEN [p \in DOMAIN out \cup {<<Row(l), Col(l)>>} |->
                     IF p = <<Row(l), Col(l)>> THEN acc[l] ELSE out[p]]
              ELSE out
  /\ stage' = [stage EXCEPT ![l] = "done"]
  /\ UNCHANGED <<group, round, aTile, bTile, acc>>

Next == \E l \in Lanes : Load(l) \/ Accumulate(l) \/ Again(l) \/ Store(l)

Spec == Init /\ [][Next]_vars

----------------------------------------------------------------------------
(* The product of a row and a column, as matmul_f32 adds it up.            *)
Dot(r, c) == SetToBag({<<<<r, k>>, <<k, c>>>> : k \in 0 .. K - 1})

(* Whatever the order of the lanes, a stored element is the product of its *)
(* row and its column: each pair of elements once, none of another round.  *)
ExactProduct == \A p \in DOMAIN out : out[p] = Dot(p[1], p[2])

(* When the group is through, it has stored its part of the product.       *)
WholeTile ==
  (\A l \in Lanes : stage[l] = "done") =>
    DOMAIN out = {p \in (0 .. M - 1) \X (0 .. N - 1) :
                    p[1] \div Tile = group[1] /\ p[2] \div Tile = group[2]}
============================================================================
