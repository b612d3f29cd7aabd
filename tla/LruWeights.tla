----------------------------- MODULE LruWeights ----------------------------
(***************************************************************************)
(* LfmRunner's cache of dequantized weights: a map, and lru_order, the     *)
(* list of its keys.  linear_i4_out_in fills it and moves the key it hits  *)
(* to the end; the Metal feed-forward block first makes sure that each of  *)
(* its three matrices is there, then unwraps all three.                     *)
(***************************************************************************)
EXTENDS Integers, Sequences, FiniteSets, SequencesExt

CONSTANTS
  NumLayers,
  Mixer,           \* per layer: its matrices before the feed-forward block, in order
  MaxCacheEntries, \* MAX_CACHE_ENTRIES
  Backends,        \* "cpu", "metal"
  MaxPasses,       \* bound: passes over the layers, complete or not
  Failures         \* TRUE: a step may fail between two matrices

(* The matrices of a feed-forward block, in the order it asks for them.    *)
FfnWeights == <<"w1", "w3", "w2">>
Layer == 0..(NumLayers - 1)

LruAssumption ==
  /\ {NumLayers, MaxCacheEntries, MaxPasses} \subseteq Nat \ {0}
  /\ DOMAIN Mixer = Layer
  /\ \A l \in Layer : /\ Mixer[l] \in Seq(STRING) /\ IsInjective(Mixer[l])
                      /\ Range(Mixer[l]) \cap Range(FfnWeights) = {}
  /\ Backends \subseteq {"cpu", "metal"} /\ Failures \in BOOLEAN

VARIABLES
  metal,           \* metal_ops.is_some()
  weight_cache,    \* keys of the map: layer and name
  lru_order,       \* keys, oldest first
  layer,           \* the loop's layer, NumLayers after the last
  at,              \* the place in the layer of the matrix to come
  passes,          \* passes begun
  used             \* every key used so far, by its last use, oldest first

vars == <<metal, weight_cache, lru_order, layer, at, passes, used>>

(* The matrices of a layer in the order the loop asks for them.             *)
LayerWeights(l) == Mixer[l] \o FfnWeights
KeyAt(l, i) == <<l, LayerWeights(l)[i]>>
IsFfn(key) == key[2] \in Range(FfnWeights)

(* In a list of keys x stands before y.                                     *)
Precedes(list, x, y) ==
  \E i, j \in DOMAIN list : i < j /\ list[i] = x /\ list[j] = y

(* The first place of a key in a list; the key taken out and pushed.        *)
Position(list, key) ==
  CHOOSE i \in DOMAIN list : list[i] = key /\ \A j \in 1..(i - 1) : list[j] # key
MovedToEnd(list, key) == Append(RemoveAt(list, Position(list, key)), key)

Init ==
  /\ \E b \in Backends : metal = (b = "metal")
  /\ weight_cache = {} /\ lru_order = <<>> /\ used = <<>>
  /\ layer = 0 /\ at = 1 /\ passes = 1

(* Mutant: at capacity the newest key goes.                                 *)
EvictedNewest ==
  IF Cardinality(weight_cache) >= MaxCacheEntries /\ lru_order # <<>>
  THEN [map |-> weight_cache \ {Last(lru_order)}, order |-> Front(lru_order)]
  ELSE [map |-> weight_cache, order |-> lru_order]

(* At capacity the oldest key goes.                                         *)
Evicted ==
  IF Cardinality(weight_cache) >= MaxCacheEntries /\ lru_order # <<>>
  THEN [map |-> weight_cache \ {Head(lru_order)}, order |-> Tail(lru_order)]
  ELSE [map |-> weight_cache, order |-> lru_order]

(* linear_i4_out_in on a key that is not there.                             *)
Insert(key) ==
  /\ weight_cache' = Evicted.map \cup {key}
  /\ lru_order' = Append(Evicted.order, key)

(* linear_i4_out_in on a key that is there.                                 *)
Hit(key) ==
  /\ lru_order' = IF key \in Range(lru_order) THEN MovedToEnd(lru_order, key) ELSE lru_order
  /\ UNCHANGED weight_cache

(* The key is now the one used last, and the loop goes on to the next.      *)
Use(key) ==
  /\ used' = IF key \in Range(used) THEN MovedToEnd(used, key) ELSE Append(used, key)
  /\ \/ at < Len(LayerWeights(layer)) /\ at' = at + 1 /\ UNCHANGED layer
     \/ at = Len(LayerWeights(layer)) /\ at' = 1 /\ layer' = layer + 1

(* A product through linear_i4_out_in: all of them on the CPU, on Metal    *)
(* those before the feed-forward block.                                     *)
Product ==
  /\ layer < NumLayers
  /\ LET key == KeyAt(layer, at) IN
       /\ ~metal \/ ~IsFfn(key)
       /\ IF key \in weight_cache THEN Hit(key) ELSE Insert(key)
       /\ Use(key)
  /\ UNCHANGED <<metal, passes>>

(* The feed-forward block on Metal asks contains_key and only inserts what *)
(* is missing.                                                              *)
Prefetch ==
  /\ layer < NumLayers /\ metal
  /\ LET key == KeyAt(layer, at) IN
       /\ IsFfn(key)
       /\ IF key \in weight_cache THEN UNCHANGED <<weight_cache, lru_order>> ELSE Insert(key)
       /\ Use(key)
  /\ UNCHANGED <<metal, passes>>

(* The next pass, when this one is over or has failed on the way.           *)
NextPass ==
  /\ passes < MaxPasses
  /\ layer = NumLayers \/ (Failures /\ <<layer, at>> # <<0, 1>>)
  /\ layer' = 0 /\ at' = 1 /\ passes' = passes + 1
  /\ UNCHANGED <<metal, weight_cache, lru_order, used>>

Next == Product \/ Prefetch \/ NextPass
Spec == Init /\ [][Next]_vars

-----------------------------------------------------------------------------
(* The map and the list name the same keys, each once, and never more than *)
(* the capacity: no entry is pinned for want of a place in the list.        *)
ListIsTheMap ==
  /\ Range(lru_order) = weight_cache
  /\ IsInjective(lru_order)
  /\ Cardinality(weight_cache) <= MaxCacheEntries

(* When the three matrices of a layer have been made sure of, all three    *)
(* are there: bringing in one has not evicted another.                      *)
UnwrapFinds ==
  metal /\ layer > 0 /\ at = 1 =>
    \A w \in Range(FfnWeights) : <<layer - 1, w>> \in weight_cache

(* The list is in the order of the last uses: who goes is who was used the *)
(* longest ago.                                                             *)
OrderIsByUse ==
  \A x, y \in weight_cache : Precedes(lru_order, x, y) => Precedes(used, x, y)
=============================================================================
