--------------------------- MODULE MCAuthMethods ---------------------------
(* An instance of AuthMethods for TLC.  The key a program gets by default   *)
(* is told apart from the others, which are interchangeable.               *)
EXTENDS AuthMethods, TLC

Symmetry == Permutations(MethodKeys \ {DefaultKey}) \cup Permutations(Senders)
=============================================================================
