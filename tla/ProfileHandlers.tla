--------------------------- MODULE ProfileHandlers ---------------------------
(***************************************************************************)
(* POST profile of the example (example/basic/main.go,                     *)
(* controllers/user.go), a route of the application beside the library's:  *)
(* it saves the copy of the user that authMiddleware left in the context,  *)
(* with new profile fields, which are no part of the model.                *)
(***************************************************************************)
EXTENDS Requests

\* authMiddleware makes the two accesses that checkSession makes.
ProfileBegin(p) ==
    \E s \in Sessions :
        BeginWithSession(p, [NoArg EXCEPT !.op = "profile", !.s = s])

ProfileRefuse(p) == At(p, "profile") /\ loc[p].User = Nil /\ Refuse(p)

\* Guests and temporary users may do it, too.  A refused Save goes unnoticed.
UpdateProfile(p) ==
    /\ At(p, "profile")
    /\ loc[p].User # Nil
    /\ Continue(p, [loc[p] EXCEPT !.u = loc[p].User], "save")
    /\ UNCHANGED <<store, history>>

ProfileStep(p) == ProfileBegin(p) \/ ProfileRefuse(p) \/ UpdateProfile(p)
=============================================================================
