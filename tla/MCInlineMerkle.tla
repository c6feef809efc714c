--------------------------- MODULE MCInlineMerkle ---------------------------
(***************************************************************************)
(* InlineMerkle for TLC: every constant is a number or a set of booleans,  *)
(* given in the configurations.                                            *)
(***************************************************************************)
EXTENDS InlineMerkle
=============================================================================
