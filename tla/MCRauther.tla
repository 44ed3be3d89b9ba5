----------------------------- MODULE MCRauther -----------------------------
(* Instances of Rauther for TLC: symmetry over the values that handlers    *)
(* only ever compare for equality.  Keys are left out: their kinds differ. *)
EXTENDS AccountSafety, TLC

Symmetry == UNION {Permutations(S) : S \in
    {UserIds, Procs, Sessions, UIDs, Passwords, Codes}}
=============================================================================
