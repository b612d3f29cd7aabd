---------------------------- MODULE MCDecodeLoop ----------------------------
(* The decode loop on small instances.                                     *)
EXTENDS DecodeLoop

CONSTANTS a, eos

OneToken == << a >>
OnlyOneToken == {OneToken}
=============================================================================
