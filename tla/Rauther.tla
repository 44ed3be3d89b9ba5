------------------------------ MODULE Rauther ------------------------------
(***************************************************************************)
(* The routes of the example, the library's and its own, over its storers: *)
(* any request may be called at any time, and as many as there are Procs   *)
(* are in service at once.                                                 *)
(***************************************************************************)
EXTENDS SessionHandlers, PasswordHandlers, CodeHandlers, OTPHandlers,
        SocialHandlers, ProfileHandlers

Step(p) ==
    \/ Shared(p) \/ SessionStep(p) \/ PasswordStep(p) \/ CodeStep(p)
    \/ LinkStep(p) \/ OTPStep(p) \/ SocialStep(p) \/ ProfileStep(p)

Next == Tick \/ \E p \in Procs : Step(p)

Spec == Init /\ [][Next]_vars
=============================================================================
