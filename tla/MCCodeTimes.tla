---------------------------- MODULE MCCodeTimes ----------------------------
EXTENDS CodeTimes, TLC

Symmetry == UNION {Permutations(S) : S \in
    {UserIds, Procs, Sessions, UIDs, Passwords, Codes}}
=============================================================================
