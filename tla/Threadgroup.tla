---------------------------- MODULE Threadgroup ----------------------------
(***************************************************************************)
(* The kernels whose lanes work together through the memory of their       *)
(* group: rms_norm and softmax of the WebGPU backend, and of the Metal     *)
(* backend rms_norm_f16w, batch_rms_norm_f16w (a group for each token) and *)
(* attention_gqa_f32_fast (a group for each head).                         *)
(*                                                                         *)
(* Every lane runs the same program and meets the others at its barriers;  *)
(* between two barriers the lanes run in any order.  A number is modelled  *)
(* by what it was computed from: a sum by the bag of its terms, a maximum  *)
(* by the set of its scores, so that a result tells exactly which elements *)
(* went into it, how often, and relative to which maximum.                 *)
(***************************************************************************)
EXTENDS Integers, Sequences, SequencesExt, FiniteSets, Bags

CONSTANTS
  Kernel,     \* "rms_web", "rms_metal", "softmax" or "attention"
  LaneCount,  \* lanes of the group (64, 256 and 128 in the code)
  Lengths,    \* the numbers of elements, or of tokens, that are tried
  Tiles,      \* tiles of a head: head_dim / 32, rounded up
  None

LanesAssumption == LaneCount \in {2, 4, 8, 16}
LengthAssumption == Lengths \subseteq Nat \ {0}

VARIABLES
  length,   \* elements of this dispatch
  pc,       \* lane -> number of its next operation
  shared,   \* memory of the group: lane -> value
  partial,  \* tg_partial of the attention: lane -> value
  root,     \* wg_max and wg_sum of the softmax
  held,     \* lane -> the maximum and the sum it has read
  scaled,   \* element -> its exponential, as softmax leaves it in x
  out       \* element, or tile of the head -> result

vars == <<length, pc, shared, partial, root, held, scaled, out>>

Lanes == 0 .. LaneCount - 1

----------------------------------------------------------------------------
(* Values.                                                                 *)

Term(i, less) == [i |-> i, less |-> less]
Value(fn, terms) == [fn |-> fn, of |-> terms]
Empty == Value("none", EmptyBag)

(* A maximum counts a score once, a sum adds every term it is given.       *)
Merge(a, b) ==
  Value(a.fn, IF a.fn = "max" THEN SetToBag(BagToSet(a.of) \cup BagToSet(b.of))
                              ELSE a.of (+) b.of)

Rsqrt(sum) == Value("rsqrt", sum.of)

(* What lane l has to do: every LaneCount-th element, or a run of tokens.  *)
Strided(l) == {i \in 0 .. length - 1 : i % LaneCount = l}

PerLane == (length + LaneCount - 1) \div LaneCount
Run(l) == {t \in 0 .. length - 1 : l * PerLane <= t /\ t < l * PerLane + PerLane}

Own(l) == IF Kernel = "attention" THEN Run(l) ELSE Strided(l)

Terms(l, less) == SetToBag({Term(i, less) : i \in Own(l)})

----------------------------------------------------------------------------
(* The programs.                                                           *)

Op(name, arg) == [name |-> name, arg |-> arg]
Barrier == Op("barrier", 0)

Halvings == CHOOSE k \in 1 .. 4 : 2 ^ k = LaneCount

(* Mutant: the barrier is outside the loop.                                *)
TreeOneBarrier ==
  [k \in 1 .. Halvings |-> Op("halve", LaneCount \div 2 ^ k)] \o <<Barrier>>

(* step = 32, 16, ... 1, with a barrier behind each addition.              *)
Tree == FlattenSeq([k \in 1 .. Halvings |-> <<Op("halve", LaneCount \div 2 ^ k), Barrier>>])

RmsWeb == <<Op("put", "sum"), Barrier>> \o Tree \o <<Op("take", "sum"), Op("scale", 0)>>

(* Lane 0 puts the inverse root where the sum was.                         *)
RmsMetal ==
  <<Op("put", "sum"), Barrier>> \o Tree
    \o <<Op("root", "sum"), Barrier, Op("take", "sum"), Op("scale", 0)>>

(* The maximum and the sum each have a place of their own, so the memory   *)
(* can take the sums while slow lanes still read the maximum.              *)
Softmax ==
  <<Op("put", "max"), Barrier>> \o Tree
    \o <<Op("root", "max"), Barrier, Op("take", "max"), Op("put", "sum"), Barrier>> \o Tree
    \o <<Op("root", "sum"), Barrier, Op("take", "sum"), Op("scale", 0)>>

(* The part of the attention in front of its tiles: lane 0 folds the       *)
(* memory; a lane reads global_max and goes on to write its sum into the   *)
(* same memory, with no barrier in between.                                *)
MaxAndSum ==
  <<Op("put", "max"), Barrier, Op("gather", "max"), Barrier, Op("take", "max"),
    Op("put", "sum"), Barrier, Op("gather", "sum"), Barrier, Op("take", "sum")>>

Attention ==
  MaxAndSum
    \o FlattenSeq([d \in 1 .. Tiles |->
         <<Op("weigh", d), Barrier, Op("reduce", d), Barrier>>])

Program ==
  CASE Kernel = "rms_web" -> RmsWeb
    [] Kernel = "rms_metal" -> RmsMetal
    [] Kernel = "softmax" -> Softmax
    [] Kernel = "attention" -> Attention

----------------------------------------------------------------------------
(* The lanes.                                                              *)

Init ==
  /\ length \in Lengths
  /\ pc = [l \in Lanes |-> 1]
  /\ shared = [l \in Lanes |-> Empty]
  /\ partial = [l \in Lanes |-> Empty]
  /\ root = Empty
  /\ held = [l \in Lanes |-> [max |-> None, sum |-> None]]
  /\ scaled = <<>>
  /\ out = <<>>

Doing(l, name) == pc[l] <= Len(Program) /\ Program[pc[l]].name = name
Arg(l) == Program[pc[l]].arg
Advance(l) == pc' = [pc EXCEPT ![l] = @ + 1] /\ UNCHANGED length

(* threadgroup_barrier, workgroupBarrier: no lane goes on before all are   *)
(* here.                                                                   *)
Arrive(l) ==
  /\ Doing(l, "barrier")
  /\ \A k \in Lanes : pc[k] >= pc[l]
  /\ Advance(l)
  /\ UNCHANGED <<shared, partial, root, held, scaled, out>>

(* A lane puts its maximum or its sum into its place.  Softmax leaves the  *)
(* exponentials in x on the way.                                           *)
Put(l) ==
  /\ Doing(l, "put")
  /\ shared' = [shared EXCEPT ![l] = Value(Arg(l), Terms(l, held[l].max))]
  /\ scaled' = IF Kernel = "softmax" /\ Arg(l) = "sum"
                 THEN [i \in Own(l) |-> Term(i, held[l].max)] @@ scaled
                 ELSE scaled
  /\ Advance(l)
  /\ UNCHANGED <<partial, root, held, out>>

(* One level of the tree: the lower lanes add the upper half.              *)
Halve(l) ==
  /\ Doing(l, "halve")
  /\ shared' = IF l < Arg(l)
                 THEN [shared EXCEPT ![l] = Merge(@, shared[l + Arg(l)])]
                 ELSE shared
  /\ Advance(l)
  /\ UNCHANGED <<partial, root, held, scaled, out>>

(* Lane 0 publishes the result of the tree.                                *)
Publish(l) ==
  /\ Doing(l, "root")
  /\ IF l # 0 THEN UNCHANGED <<shared, root>>
     ELSE IF Kernel = "softmax" THEN root' = shared[0] /\ UNCHANGED shared
     ELSE shared' = [shared EXCEPT ![0] = Rsqrt(@)] /\ UNCHANGED root
  /\ Advance(l)
  /\ UNCHANGED <<partial, held, scaled, out>>

(* Lane 0 folds what every lane has put.                                   *)
Gather(l) ==
  /\ Doing(l, "gather")
  /\ shared' = IF l = 0
                 THEN [shared EXCEPT ![0] =
                        FoldLeft(LAMBDA a, k : Merge(a, shared[k]), @, [k \in 1 .. LaneCount - 1 |-> k])]
                 ELSE shared
  /\ Advance(l)
  /\ UNCHANGED <<partial, root, held, scaled, out>>

(* A lane reads the published value into a register.                       *)
Take(l) ==
  /\ Doing(l, "take")
  /\ held' = [held EXCEPT ![l][Arg(l)] = IF Kernel = "softmax" THEN root ELSE shared[0]]
  /\ Advance(l)
  /\ UNCHANGED <<shared, partial, root, scaled, out>>

(* A lane writes its own elements.                                         *)
Scale(l) ==
  /\ Doing(l, "scale")
  /\ out' = [i \in Own(l) |->
               IF Kernel = "softmax"
                 THEN [of |-> SetToBag({scaled[i]}), by |-> held[l].sum]
                 ELSE [of |-> SetToBag({Term(i, None)}),
                       by |-> IF Kernel = "rms_web" THEN Rsqrt(held[l].sum) ELSE held[l].sum]]
            @@ out
  /\ Advance(l)
  /\ UNCHANGED <<shared, partial, root, held, scaled>>

(* A lane weighs the values of its tokens, for one tile of the head.       *)
Weigh(l) ==
  /\ Doing(l, "weigh")
  /\ partial' = [partial EXCEPT ![l] = [tile |-> Arg(l), of |-> Terms(l, held[l].max)]]
  /\ Advance(l)
  /\ UNCHANGED <<shared, root, held, scaled, out>>

(* Lane 0 adds the lanes up and divides by the sum of the weights.         *)
Reduce(l) ==
  /\ Doing(l, "reduce")
  /\ out' = IF l # 0 THEN out
            ELSE Arg(l) :> [of |-> FoldLeft(LAMBDA b, k : b (+) partial[k].of, partial[0].of,
                                            [k \in 1 .. LaneCount - 1 |-> k]),
                            tiles |-> {partial[k].tile : k \in Lanes},
                            by |-> held[0].sum]
                 @@ out
  /\ Advance(l)
  /\ UNCHANGED <<shared, partial, root, held, scaled>>

Step(l) ==
  \/ Arrive(l) \/ Put(l) \/ Halve(l) \/ Publish(l) \/ Gather(l)
  \/ Take(l) \/ Scale(l) \/ Weigh(l) \/ Reduce(l)

Finished == \A l \in Lanes : pc[l] > Len(Program)

Next == \E l \in Lanes : Step(l)

Spec == Init /\ [][Next]_vars

----------------------------------------------------------------------------
(* Properties.                                                             *)

All(less) == SetToBag({Term(i, less) : i \in 0 .. length - 1})
Largest == Value("max", All(None))

(* The result the kernel is written for: each element scaled by the root   *)
(* of all the squares, each exponential relative to the largest of all     *)
(* scores and divided by the sum of all of them.                           *)
Expected(i) ==
  CASE Kernel \in {"rms_web", "rms_metal"} ->
         [of |-> SetToBag({Term(i, None)}), by |-> Rsqrt(Value("sum", All(None)))]
    [] Kernel = "softmax" ->
         [of |-> SetToBag({Term(i, Largest)}), by |-> Value("sum", All(Largest))]
    [] Kernel = "attention" ->
         [of |-> All(Largest), tiles |-> {i}, by |-> Value("sum", All(Largest))]

Places == IF Kernel = "attention" THEN 1 .. Tiles ELSE 0 .. length - 1

(* Whatever the order of the lanes, the dispatch leaves in every place the *)
(* result the processor computes in one loop (cpu_kernels.rs).             *)
ExactResult == Finished => out = [i \in Places |-> Expected(i)]

(* No two lanes go on with different values of what they read from the     *)
(* memory of the group: the maximum, the sum or the inverse root.          *)
LanesAgree ==
  \A l, k \in Lanes, f \in {"max", "sum"} :
    held[l][f] # None /\ held[k][f] # None => held[l][f] = held[k][f]

(* Each token of the cache is in the result of every tile exactly once,    *)
(* and a tile is made of partial sums of that tile only.                   *)
TokensOnce ==
  \A d \in DOMAIN out :
    /\ out[d].tiles = {d}
    /\ \A t \in 0 .. length - 1 :
         FoldSet(LAMBDA x, n : n + out[d].of[x], 0, {x \in BagToSet(out[d].of) : x.i = t}) = 1

(* The weights of a head add up to one: what the values are weighed by is  *)
(* what they are divided by.                                               *)
WeightsSumToOne == \A d \in DOMAIN out : out[d].of = out[d].by.of
============================================================================
