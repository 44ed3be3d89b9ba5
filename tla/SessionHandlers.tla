--------------------------- MODULE SessionHandlers ---------------------------
(***************************************************************************)
(* POST auth and POST logout (session.go, authable.go, guest.go).  The     *)
(* session storer hands out one object per session, shared by every        *)
(* request with its token: BindUser and UnbindUser show at once, before    *)
(* the session is saved.                                                   *)
(***************************************************************************)
EXTENDS Requests

\* authHandler needs no token.  The session is loaded or created by its id.
AuthBegin(p) ==
    \E s \in Sessions :
        /\ HasRoom
        /\ Begin(p, [NoArg EXCEPT !.op = "auth", !.s = s], "auth")

AuthLoadSession(p) ==
    /\ At(p, "auth")
    /\ LET id == sessions[arg[p].s]
       IN  Continue(p, [loc[p] EXCEPT !.UserID = id],
                    IF id = Nil THEN "auth.guest" ELSE "auth.load")
    /\ UNCHANGED <<store, history>>

\* A session bound to a guest keeps it.  One bound to a user that is not
\* stored any more stays bound as well.
AuthLoadUser(p) ==
    /\ At(p, "auth.load")
    /\ LET u == LoadByID(users, loc[p].UserID)
       IN  Continue(p, loc[p], IF u # Nil /\ ~u.guest THEN "auth.unbind"
                                                      ELSE "auth.guest")
    /\ UNCHANGED <<store, history>>

AuthUnbind(p) ==
    /\ At(p, "auth.unbind")
    /\ sessions' = [sessions EXCEPT ![arg[p].s] = Nil]
    /\ Continue(p, loc[p], "auth.guest")
    /\ UNCHANGED <<users, issued, history>>

NeedsGuest(p) ==
    PasswordAuthableUser /\ GuestUser /\ sessions[arg[p].s] = Nil

AuthCreateGuest(p) ==
    /\ At(p, "auth.guest")
    /\ NeedsGuest(p)
    /\ Continue(p, loc[p], "guest.save")
    /\ UNCHANGED <<store, history>>

\* SetToken and Save: the client holds a token from now on.
AuthNoGuest(p) ==
    /\ At(p, "auth.guest")
    /\ ~NeedsGuest(p)
    /\ issued' = issued \cup {arg[p].s}
    /\ Return(p)
    /\ UNCHANGED <<users, sessions, history>>

\* createGuestUser
CreateGuestUser(p) ==
    /\ At(p, "guest.save")
    /\ \E id \in FreeIds :
         LET u == SetGuest(NewUser(id), TRUE)
         IN  \/ /\ Save(u)
                /\ Continue(p, [loc[p] EXCEPT !.u = u], "guest.bind")
             \/ SaveFails(u) /\ Return(p)
    /\ UNCHANGED <<sessions, issued, history>>

BindGuest(p) ==
    /\ At(p, "guest.bind")
    /\ sessions' = [sessions EXCEPT ![arg[p].s] = loc[p].u.id]
    /\ issued' = issued \cup {arg[p].s}
    /\ Return(p)
    /\ UNCHANGED <<users, history>>

----------------------------------------------------------------------------
SignOutBegin(p) ==
    \E s \in Sessions :
        /\ HasRoom
        /\ BeginWithSession(p, [NoArg EXCEPT !.op = "signOut", !.s = s])

\* A mutated form: whoever is signed in is taken for a guest.
SignOutUnbindAnyone(p) ==
    /\ At(p, "signOut")
    /\ sessions' = [sessions EXCEPT ![arg[p].s] = Nil]
    /\ IF GuestUser
       THEN Continue(p, loc[p], IF loc[p].User # Nil THEN "signOut.remove"
                                                     ELSE "guest.save")
       ELSE Return(p)
    /\ UNCHANGED <<users, issued, history>>

\* UserIsGuest is what checkSession saw, not what the user is by now.
SignOutUnbind(p) ==
    /\ At(p, "signOut")
    /\ sessions' = [sessions EXCEPT ![arg[p].s] = Nil]
    /\ IF GuestUser
       THEN Continue(p, loc[p], IF loc[p].UserIsGuest THEN "signOut.remove"
                                                      ELSE "guest.save")
       ELSE Return(p)
    /\ UNCHANGED <<users, issued, history>>

SignOutRemoveGuest(p) ==
    /\ At(p, "signOut.remove")
    /\ users' = RemoveByID(users, loc[p].UserID)
    /\ Continue(p, loc[p], "guest.save")
    /\ UNCHANGED <<sessions, issued, history>>

SessionStep(p) ==
    \/ AuthBegin(p) \/ AuthLoadSession(p) \/ AuthLoadUser(p) \/ AuthUnbind(p)
    \/ AuthCreateGuest(p) \/ AuthNoGuest(p)
    \/ CreateGuestUser(p) \/ BindGuest(p)
    \/ SignOutBegin(p) \/ SignOutUnbind(p) \/ SignOutRemoveGuest(p)
=============================================================================
