------------------------------ MODULE MCEngine ------------------------------
(* The engine on small instances: short prompts over a vocabulary of one   *)
(* ordinary token and the stop token.                                      *)
EXTENDS Engine

CONSTANTS a, eos

ShortPrompts == {<<a>>, <<a, a, a>>}
=============================================================================
