--------------------------- MODULE MCTokenContext ---------------------------
(***************************************************************************)
(* Instances of TokenContext for TLC.                                      *)
(***************************************************************************)
EXTENDS TokenContext, TLC

MCWritten == {<<"PERSON", 1>>}
MCMaxLength == <<1, 4>>

Symmetry == Permutations(Namespaces)
=============================================================================
