------------------------------- MODULE Filter -------------------------------
(***************************************************************************)
(* List.filter and removeAll of the clients' code: what is left of a list, *)
(* in its order.  It is SelectSeq of Sequences, for which the prover has   *)
(* no definition, said by counting.                                         *)
(***************************************************************************)
EXTENDS Integers, Sequences, FiniteSets

(* Where seq has members of S, and how many of them there are up to i.     *)
Places(seq, S) == {i \in DOMAIN seq : seq[i] \in S}
UpTo(seq, S, i) == Cardinality({j \in Places(seq, S) : j <= i})

(* The members of S in seq, in the order they have there.                  *)
Kept(seq, S) ==
  [m \in 1..Cardinality(Places(seq, S)) |->
     seq[CHOOSE i \in Places(seq, S) : UpTo(seq, S, i) = m]]
=============================================================================
