--------------------------- MODULE MCAsioTCPServer ---------------------------
(* Instances of AsioTCPServer for TLC.                                     *)
EXTENDS AsioTCPServer, TLC

\* Sessions and coroutines are told apart only by identity.
Symmetry == Permutations(Sessions) \cup Permutations(Loops)
=============================================================================
