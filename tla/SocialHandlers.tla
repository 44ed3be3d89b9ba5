--------------------------- MODULE SocialHandlers ---------------------------
(***************************************************************************)
(* POST social/login (social.go).  The provider vouches for the uid of the *)
(* token; a token it refuses changes nothing and is not modelled.          *)
(***************************************************************************)
EXTENDS LinkHandlers

SocialBegin(p) ==
    \E s \in Sessions, k \in SocialKeys, uid \in UIDs, confirm \in BOOLEAN :
        /\ HasRoom
        /\ BeginWithSession(p, [NoArg EXCEPT !.op = "social", !.s = s, !.key = k,
                                             !.uid = uid, !.confirm = confirm])

SocialAccepted(p) ==
    SignedIn(p) => /\ LinkAccount
                   /\ arg[p].key \notin DisableLink
                   /\ CanLink(loc[p].User, arg[p].key)
                   /\ Found(p) # Nil => MergeAccount

\* fillFields may refuse the fields of any request, before anything is saved.
SocialRefuse(p) == At(p, "social") /\ Refuse(p)

NewSocialUser(id, k, uid, link) ==
    LET u == SetUID(SetTemp(NewUser(id), link), k, uid)
    IN  IF ConfirmableUser THEN SetConfirmed(u, k, TRUE) ELSE u

SocialUser(p) ==
    IF Found(p) # Nil THEN {Found(p)}
    ELSE {NewSocialUser(id, arg[p].key, arg[p].uid, SignedIn(p)) : id \in FreeIds}

\* The temporary user of a link is never stored.
SocialLoad(p) ==
    /\ At(p, "social")
    /\ SocialAccepted(p)
    /\ \E u \in SocialUser(p) :
         /\ Continue(p, [loc[p] EXCEPT !.u = u],
                     IF SignedIn(p) THEN "linkAccount" ELSE "social.save")
         /\ Authenticates(p, u.id, ~SignedIn(p))
    /\ Proves(p, TRUE)
    /\ UNCHANGED <<store, spent>>

SocialSave(p) ==
    /\ At(p, "social.save")
    /\ \/ Save(loc[p].u) /\ Continue(p, loc[p], "social.bind")
       \/ SaveFails(loc[p].u) /\ Return(p)
    /\ UNCHANGED <<sessions, issued, history>>

SocialBind(p) ==
    /\ At(p, "social.bind")
    /\ sessions' = [sessions EXCEPT ![arg[p].s] = loc[p].u.id]
    /\ IF GuestUser /\ loc[p].UserIsGuest
       THEN Continue(p, loc[p], "removeGuest") ELSE Return(p)
    /\ UNCHANGED <<users, issued, history>>

SocialStep(p) ==
    \/ SocialBegin(p) \/ SocialRefuse(p) \/ SocialLoad(p)
    \/ SocialSave(p) \/ SocialBind(p)
=============================================================================
