------------------------- MODULE MCAsioServerDuplex -------------------------
(***************************************************************************)
(* The two servers with threads that are told apart by nothing.            *)
(***************************************************************************)
EXTENDS AsioServerDuplex, TLC

Symmetry == Permutations(Openers)
=============================================================================
