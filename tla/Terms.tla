------------------------------- MODULE Terms -------------------------------
(***************************************************************************)
(* What the model runners compute, as terms: a vector is the tree of the   *)
(* operations that produced it, so two paths of a runner agree exactly     *)
(* when they apply the same operations to the same weights in the same     *)
(* order.  Rounding, kernels and layouts are not told apart; weights read  *)
(* in another format than they are stored in, stale buffers, skipped       *)
(* layers and misplaced positions are.                                     *)
(***************************************************************************)
EXTENDS Integers, Sequences

(* A weight of a layer, and how its bytes are decoded.                      *)
Weight(role, layer, read) == <<"weight", role, layer, read>>

Embedded(p) == <<"embedded", p>>
Norm(w, x) == <<"norm", w, x>>
MatVec(w, x) == <<"matvec", w, x>>
Rope(style, p, x) == <<"rope", style, p, x>>
Attend(q, kvs) == <<"attend", q, kvs>>
Gated(act, g, u) == <<"gated", act, g, u>>
Plus(a, b) == <<"plus", a, b>>
Times(w, x) == <<"times", w, x>>

(* A term that is known to be the model's goes by its name: the terms of a *)
(* layer then only mention names, and stay one layer deep.                 *)
Abbreviate(term, models, name) == IF term = models THEN name ELSE term
=============================================================================
