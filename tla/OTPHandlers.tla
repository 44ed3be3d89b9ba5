----------------------------- MODULE OTPHandlers -----------------------------
(***************************************************************************)
(* One-time passwords (otp.go): POST otp/code sends a code, POST otp/auth  *)
(* takes it, to log in or, for a signed-in user, to link.  The code is     *)
(* kept in the password field of the identity.                             *)
(***************************************************************************)
EXTENDS LinkHandlers

OTPCodeBegin(p) ==
    \E s \in Sessions, k \in OTPKeys, uid \in UIDs :
        /\ HasRoom
        /\ BeginWithSession(p, [NoArg EXCEPT !.op = "otpCode", !.s = s,
                                             !.key = k, !.uid = uid])

OTPCodeAccepted(p) ==
    /\ SignedIn(p) => /\ LinkAccount
                      /\ arg[p].key \notin DisableLink
                      /\ CanLink(loc[p].User, arg[p].key)
                      /\ Found(p) # Nil => Found(p).temp \/ MergeAccount
    /\ Found(p) # Nil => MayResend(Found(p), arg[p].key)

\* at.Sender.Send may fail, before anything is saved.
OTPCodeRefuse(p) == At(p, "otpCode") /\ Refuse(p)

\* To log in, a temporary user becomes an ordinary one, and a new user is a
\* guest until the code is entered.
OTPCodeUser(p) ==
    LET k == arg[p].key
        uid == arg[p].uid
    IN  CASE Found(p) # Nil /\ SignedIn(p)  -> {Found(p)}
          [] Found(p) # Nil /\ ~SignedIn(p) -> {SetTemp(Found(p), FALSE)}
          [] Found(p) = Nil /\ SignedIn(p)  -> {TempUser(id, k, uid) : id \in FreeIds}
          [] OTHER -> {SetUID(SetGuest(NewUser(id), GuestUser), k, uid) : id \in FreeIds}

OTPCodePrepare(p) ==
    /\ At(p, "otpCode")
    /\ OTPCodeAccepted(p)
    /\ \E base \in OTPCodeUser(p), code \in Codes :
         LET u == SetOTP(StampCode(base, arg[p].key), arg[p].key, code)
         IN  Continue(p, [loc[p] EXCEPT !.u = u], "save")
    /\ UNCHANGED <<store, history>>

----------------------------------------------------------------------------
OTPAuthBegin(p) ==
    \E s \in Sessions, k \in OTPKeys, uid \in UIDs, code \in Codes,
       confirm \in BOOLEAN :
        BeginWithSession(p, [NoArg EXCEPT !.op = "otpAuth", !.s = s, !.key = k,
                                          !.uid = uid, !.secret = code,
                                          !.confirm = confirm])

OTPMatches(p) == Found(p).auths[arg[p].key].password = arg[p].secret

\* A mutated form of OTPAccepted: the code is not compared.
OTPAcceptedAnyCode(p) ==
    /\ SignedIn(p) => LinkAccount /\ arg[p].key \notin DisableLink
    /\ Found(p) # Nil
    /\ LinkAccount => /\ Found(p).temp => SignedIn(p)
                      /\ ~MergeAccount /\ ~Found(p).temp => ~SignedIn(p)
    /\ ~CodeExpired(Found(p), arg[p].key)

\* A mutated form: the code of a parked, temporary user logs in.
OTPAcceptedTemp(p) ==
    /\ SignedIn(p) => LinkAccount /\ arg[p].key \notin DisableLink
    /\ Found(p) # Nil
    /\ LinkAccount /\ ~MergeAccount /\ ~Found(p).temp => ~SignedIn(p)
    /\ ~CodeExpired(Found(p), arg[p].key)
    /\ OTPMatches(p)

\* A mutated form: the code's age is not asked for.
OTPAcceptedLate(p) ==
    /\ SignedIn(p) => LinkAccount /\ arg[p].key \notin DisableLink
    /\ Found(p) # Nil
    /\ LinkAccount => /\ Found(p).temp => SignedIn(p)
                      /\ ~MergeAccount /\ ~Found(p).temp => ~SignedIn(p)
    /\ OTPMatches(p)

OTPAccepted(p) ==
    /\ SignedIn(p) => LinkAccount /\ arg[p].key \notin DisableLink
    /\ Found(p) # Nil
    /\ LinkAccount => /\ Found(p).temp => SignedIn(p)
                      /\ ~MergeAccount /\ ~Found(p).temp => ~SignedIn(p)
    /\ ~CodeExpired(Found(p), arg[p].key)
    /\ OTPMatches(p)

OTPAuthRefuse(p) == At(p, "otpAuth") /\ ~OTPAccepted(p) /\ Refuse(p)

Entered(p) == ClearStamp(Found(p), arg[p].key)

\* A mutated form of OTPAuthJoinGuest: the session's user stays a guest.
OTPAuthJoinAsGuest(p) ==
    /\ At(p, "otpAuth")
    /\ OTPAccepted(p)
    /\ GuestUser /\ loc[p].UserIsGuest /\ Found(p).guest
    /\ LET k == arg[p].key
           u == SetUID(loc[p].User, k, arg[p].uid)
       IN  Continue(p, [loc[p] EXCEPT !.u = SetConfirmed(u, k, TRUE),
                                      !.removeUserID = Found(p).id],
                    "otpAuth.remove")
    /\ Proves(p, OTPMatches(p))
    /\ Authenticates(p, loc[p].User.id, OTPMatches(p))
    /\ UNCHANGED <<store, spent>>

\* The session's guest and the code's guest become one registered user.
OTPAuthJoinGuest(p) ==
    /\ At(p, "otpAuth")
    /\ OTPAccepted(p)
    /\ GuestUser /\ loc[p].UserIsGuest /\ Found(p).guest
    /\ LET k == arg[p].key
           u == SetGuest(SetUID(loc[p].User, k, arg[p].uid), FALSE)
       IN  Continue(p, [loc[p] EXCEPT !.u = SetConfirmed(u, k, TRUE),
                                      !.removeUserID = Found(p).id],
                    "otpAuth.remove")
    /\ Proves(p, OTPMatches(p))
    /\ Authenticates(p, loc[p].User.id, OTPMatches(p))
    /\ UNCHANGED <<store, spent>>

\* A known user logs in; the session's guest goes.
OTPAuthReplaceGuest(p) ==
    /\ At(p, "otpAuth")
    /\ OTPAccepted(p)
    /\ GuestUser /\ loc[p].UserIsGuest /\ ~Found(p).guest
    /\ Continue(p, [loc[p] EXCEPT !.u = SetConfirmed(Entered(p), arg[p].key, TRUE),
                                  !.removeUserID = loc[p].UserID],
                "otpAuth.remove")
    /\ Proves(p, OTPMatches(p))
    /\ Authenticates(p, Found(p).id, OTPMatches(p))
    /\ UNCHANGED <<store, spent>>

\* No user in the session, or one that is not stored any more.  A user
\* created by otp/code stays a guest here.
OTPAuthLogin(p) ==
    /\ At(p, "otpAuth")
    /\ OTPAccepted(p)
    /\ ~SignedIn(p) /\ ~loc[p].UserIsGuest
    /\ Continue(p, [loc[p] EXCEPT !.u = SetConfirmed(Entered(p), arg[p].key, TRUE)],
                "otpAuth.bind")
    /\ Proves(p, OTPMatches(p))
    /\ Authenticates(p, Found(p).id, OTPMatches(p))
    /\ UNCHANGED <<store, spent>>

OTPAuthLink(p) ==
    /\ At(p, "otpAuth")
    /\ OTPAccepted(p)
    /\ SignedIn(p)
    /\ Continue(p, [loc[p] EXCEPT !.u = SetConfirmed(Entered(p), arg[p].key, TRUE)],
                "linkAccount")
    /\ Proves(p, OTPMatches(p))
    /\ UNCHANGED <<store, authed, spent>>

OTPAuthRemove(p) ==
    /\ At(p, "otpAuth.remove")
    /\ users' = RemoveByID(users, loc[p].removeUserID)
    /\ Continue(p, loc[p], "otpAuth.bind")
    /\ UNCHANGED <<sessions, issued, history>>

OTPAuthBind(p) ==
    /\ At(p, "otpAuth.bind")
    /\ sessions' = [sessions EXCEPT ![arg[p].s] = loc[p].u.id]
    /\ Continue(p, loc[p], "otpAuth.save")
    /\ spent' = spent \cup {<<arg[p].key, arg[p].uid>>}
    /\ UNCHANGED <<users, issued, proved, authed, waived>>

\* A mutated form of Consumed: the code is left in place.
KeptOTP(u, k) == u

Consumed(u, k) == SetOTP(u, k, Empty)

\* fillFields may fail, like Save, once the session is bound.
OTPAuthSave(p) ==
    /\ At(p, "otpAuth.save")
    /\ LET u == Consumed(loc[p].u, arg[p].key) IN Save(u) \/ SaveFails(u)
    /\ Return(p)
    /\ UNCHANGED <<sessions, issued, history>>

OTPStep(p) ==
    \/ OTPCodeBegin(p) \/ OTPCodeRefuse(p) \/ OTPCodePrepare(p)
    \/ OTPAuthBegin(p) \/ OTPAuthRefuse(p) \/ OTPAuthJoinGuest(p)
    \/ OTPAuthReplaceGuest(p) \/ OTPAuthLogin(p) \/ OTPAuthLink(p)
    \/ OTPAuthRemove(p) \/ OTPAuthBind(p) \/ OTPAuthSave(p)
=============================================================================
