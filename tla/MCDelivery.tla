----------------------------- MODULE MCDelivery -----------------------------
(* The engine and its client on small instances: short prompts over a      *)
(* vocabulary of one ordinary token and the stop token.                    *)
EXTENDS Delivery

CONSTANTS a, eos

ShortPrompts == {<<a>>, <<a, a, a>>}
=============================================================================
