---------------------------- MODULE LinkHandlers ----------------------------
(***************************************************************************)
(* Linking: adding an identity to the account of the signed-in user, or    *)
(* merging into it the account that already owns the identity (linking.go, *)
(* and POST initLink and POST link of password.go).                        *)
(*                                                                         *)
(* An identity nobody owns is first parked in a temporary user.  Linking   *)
(* moves it to the current user in two calls: the other user is removed,   *)
(* then the current one, a copy loaded at the start, is saved.             *)
(***************************************************************************)
EXTENDS Requests

\* A mutated form of CanLink: the current account need not be confirmed.
CanLinkUnconfirmed(current, k) == current # Nil /\ GetUID(current, k) = Empty

\* checkUserCanLinkAccount.  On a nil current user it panics, and the
\* request ends there like a refused one.
CanLink(current, k) ==
    current # Nil /\ Confirmed(current) /\ GetUID(current, k) = Empty

\* A mutated form of TempUser: it is created confirmed, as social.go does.
TempUserConfirmed(id, k, uid) ==
    SetConfirmed(SetUID(SetTemp(NewUser(id), TRUE), k, uid), k, TRUE)

\* initLinkAccount creates the temporary user.
TempUser(id, k, uid) == SetUID(SetTemp(NewUser(id), TRUE), k, uid)

\* linkAccount, for a temporary user: its one identity moves.
LinkIdentity(current, link, k) ==
    LET v == SetUID(current, k, GetUID(link, k))
        w == IF k \in PasswordKeys
             THEN SetPassword(v, k, link.auths[k].password) ELSE v
    IN  SetConfirmed(w, k, link.auths[k].confirmed)

\* moveAuthIdentities skips, and so loses, the other identities.
Moves(current, link, k) ==
    /\ GetUID(link, k) # Empty
    /\ GetUID(current, k) = Empty
    /\ link.auths[k].confirmed

Moved(link, k) ==
    [ZeroIdentity EXCEPT
        !.uid = GetUID(link, k),
        !.password = IF k \in PasswordKeys THEN link.auths[k].password ELSE Empty,
        !.confirmed = ConfirmableUser /\ link.auths[k].confirmed]

\* mergeUsers, with mergeConfirm
MergeIdentities(current, link) ==
    [current EXCEPT !.auths = [k \in Keys |->
        IF Moves(current, link, k) THEN Moved(link, k) ELSE current.auths[k]]]

----------------------------------------------------------------------------
\* The routes sit behind authUserMiddleware.
BeginLinkRoute(p, a) ==
    /\ LinkAccount
    /\ a.key \notin DisableLink
    /\ a.s \in issued
    /\ Begin(p, a, "middleware")

\* authMiddleware: the id of the session's user.
MiddlewareUserID(p) ==
    /\ At(p, "middleware")
    /\ Continue(p, [loc[p] EXCEPT !.UserID = sessions[arg[p].s]], "middleware.load")
    /\ UNCHANGED <<store, history>>

\* authUserMiddleware: the user is stored and no guest.  The handler begins
\* afresh, with checkSession.
UserMiddleware(p) ==
    /\ At(p, "middleware.load")
    /\ LET u == LoadByID(users, loc[p].UserID)
       IN  IF u = Nil \/ (GuestUser /\ u.guest) THEN Return(p)
           ELSE Continue(p, NoLoc, "getUserID")
    /\ UNCHANGED <<store, history>>

InitLinkBegin(p) ==
    \E s \in issued, k \in PasswordKeys, uid \in UIDs :
        /\ HasRoom
        /\ BeginLinkRoute(p, [NoArg EXCEPT !.op = "initLink", !.s = s,
                                           !.key = k, !.uid = uid])

\* A user that exists already can only be merged.
InitLinkAccepted(p) ==
    /\ CanLink(loc[p].User, arg[p].key)
    /\ Found(p) # Nil =>
         /\ Found(p).temp \/ MergeAccount
         /\ Found(p).auths[arg[p].key].confirmed \/ MayResend(Found(p), arg[p].key)

InitLinkRefuse(p) == At(p, "initLink") /\ ~InitLinkAccepted(p) /\ Refuse(p)

InitLinkUser(p) ==
    IF Found(p) # Nil THEN {Found(p)}
    ELSE {TempUser(id, arg[p].key, arg[p].uid) : id \in FreeIds}

InitLinkPrepare(p) ==
    /\ At(p, "initLink")
    /\ InitLinkAccepted(p)
    /\ \E base \in InitLinkUser(p), code \in Codes :
         LET k == arg[p].key
             u == IF base.auths[k].confirmed THEN base
                  ELSE StampCode(SetConfirmCode(base, k, code), k)
         IN  Continue(p, [loc[p] EXCEPT !.u = u], "save")
    /\ UNCHANGED <<store, history>>

----------------------------------------------------------------------------
LinkBegin(p) ==
    \E s \in issued, k \in PasswordKeys, uid \in UIDs, pw \in Passwords,
       code \in Codes \cup {Empty}, merge, confirm \in BOOLEAN :
        /\ confirm => merge
        /\ BeginLinkRoute(p, [op |-> "link", s |-> s, key |-> k, uid |-> uid,
                              secret |-> pw, code |-> code,
                              merge |-> merge, confirm |-> confirm])

Merging(p) == MergeAccount /\ arg[p].merge

LinkCodeMatches(p) ==
    /\ arg[p].code # Empty
    /\ Found(p).auths[arg[p].key].confirmCode = arg[p].code
    /\ ~CodeExpired(Found(p), arg[p].key)

\* A mutated form of LinkAccepted: a merge does not ask for the password.
LinkAcceptedAnyPassword(p) ==
    /\ Found(p) # Nil
    /\ Found(p).temp <=> ~Merging(p)
    /\ Found(p).auths[arg[p].key].confirmed \/ LinkCodeMatches(p)

\* A temporary user is linked, any other one merged with its password.
LinkAccepted(p) ==
    /\ Found(p) # Nil
    /\ Found(p).temp <=> ~Merging(p)
    /\ Found(p).auths[arg[p].key].confirmed \/ LinkCodeMatches(p)
    /\ Merging(p) => Found(p).auths[arg[p].key].password = arg[p].secret

LinkRefuse(p) == At(p, "link") /\ ~LinkAccepted(p) /\ Refuse(p)

LinkLoad(p) ==
    /\ At(p, "link")
    /\ LinkAccepted(p)
    /\ LET k == arg[p].key
           v == IF Found(p).auths[k].confirmed THEN Found(p)
                ELSE SetConfirmed(ClearStamp(Found(p), k), k, TRUE)
           u == IF Merging(p) THEN v ELSE SetPassword(v, k, arg[p].secret)
       IN  /\ Continue(p, [loc[p] EXCEPT !.u = u], "link.save")
           /\ Proves(p, LinkCodeMatches(p))
    /\ UNCHANGED <<store, authed, spent>>

\* The linked user is saved, confirmed, before anything is linked.
LinkSave(p) ==
    /\ At(p, "link.save")
    /\ \/ Save(loc[p].u) /\ Continue(p, loc[p], "linkAccount")
       \/ SaveFails(loc[p].u) /\ Return(p)
    /\ UNCHANGED <<sessions, issued, history>>

----------------------------------------------------------------------------
(* linkAccount, called by link, otpAuth and social with the user to link   *)
(* in loc[p].u.                                                            *)

MergeConfirmed(p) == arg[p].confirm /\ (arg[p].op = "link" => Merging(p))

LinkPossible(p) ==
    /\ CanLink(loc[p].User, arg[p].key)
    /\ ~loc[p].UserIsGuest
    /\ GetUID(loc[p].u, arg[p].key) # Empty
    /\ loc[p].u.temp \/ (MergeAccount /\ MergeConfirmed(p))

\* Among the refusals is the merge warning of a request not confirmed yet.
\* The application's Merge may refuse any merge; RemoveByID refuses nothing.
LinkAccountRefuse(p) ==
    /\ At(p, "linkAccount")
    /\ LinkPossible(p) => ~loc[p].u.temp
    /\ Refuse(p)

Linked(p) ==
    IF loc[p].u.temp THEN LinkIdentity(loc[p].User, loc[p].u, arg[p].key)
                     ELSE MergeIdentities(loc[p].User, loc[p].u)

\* The identities the merge warning lists: the client agrees to lose them.
Dropped(p) ==
    {<<k, GetUID(loc[p].u, k)>> :
        k \in {j \in Keys : /\ GetUID(loc[p].u, j) # Empty
                            /\ ~Moves(loc[p].User, loc[p].u, j)}}

LinkAccountRemove(p) ==
    /\ At(p, "linkAccount")
    /\ LinkPossible(p)
    /\ users' = RemoveByID(users, loc[p].u.id)
    /\ Continue(p, [loc[p] EXCEPT !.u = Linked(p)],
                IF arg[p].op = "social" THEN "social.save" ELSE "save")
    /\ waived' = IF loc[p].u.temp THEN waived ELSE waived \cup Dropped(p)
    /\ UNCHANGED <<sessions, issued, proved, authed, spent>>

LinkStep(p) ==
    \/ MiddlewareUserID(p) \/ UserMiddleware(p)
    \/ InitLinkBegin(p) \/ InitLinkRefuse(p) \/ InitLinkPrepare(p)
    \/ LinkBegin(p) \/ LinkRefuse(p) \/ LinkLoad(p) \/ LinkSave(p)
    \/ LinkAccountRefuse(p) \/ LinkAccountRemove(p)
=============================================================================
