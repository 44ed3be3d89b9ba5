-------------------------- MODULE PasswordHandlers --------------------------
(***************************************************************************)
(* POST register and POST login (password.go).                             *)
(***************************************************************************)
EXTENDS Requests

PasswordArg(op, s, k, uid, pw) ==
    [NoArg EXCEPT !.op = op, !.s = s, !.key = k, !.uid = uid, !.secret = pw]

\* A mutated form of WithConfirmCode: the address is trusted with the code.
WithConfirmCodeTrusted(u, k, code) ==
    StampCode(SetConfirmed(SetConfirmCode(u, k, code), k, TRUE), k)

\* setAndSendConfirmCode.  A failure to send is only logged.
WithConfirmCode(u, k, code) == StampCode(SetConfirmCode(u, k, code), k)

SignUpBegin(p) ==
    \E s \in Sessions, k \in PasswordKeys, uid \in UIDs, pw \in Passwords :
        /\ HasRoom
        /\ BeginWithSession(p, PasswordArg("signUp", s, k, uid, pw))

SignUpRefuse(p) ==
    /\ At(p, "signUp")
    /\ SignedIn(p) \/ (Found(p) # Nil /\ ~Found(p).temp)
    /\ Refuse(p)

\* A mutated form of SignUpTakeOver: any owner of the uid makes way.
SignUpTakeOverAnyone(p) ==
    /\ At(p, "signUp")
    /\ ~SignedIn(p)
    /\ Found(p) # Nil
    /\ Continue(p, [loc[p] EXCEPT !.removeUserID = Found(p).id], "signUp.remove")
    /\ UNCHANGED <<store, history>>

\* A temporary user, left by a linking nobody completed, makes way.
SignUpTakeOver(p) ==
    /\ At(p, "signUp")
    /\ ~SignedIn(p)
    /\ Found(p) # Nil /\ Found(p).temp
    /\ Continue(p, [loc[p] EXCEPT !.removeUserID = Found(p).id], "signUp.remove")
    /\ UNCHANGED <<store, history>>

SignUpRemoveTemp(p) ==
    /\ At(p, "signUp.remove")
    /\ users' = RemoveByID(users, loc[p].removeUserID)
    /\ Continue(p, loc[p], "signUp.save")
    /\ UNCHANGED <<sessions, issued, history>>

SignUpNotFound(p) ==
    /\ At(p, "signUp")
    /\ ~SignedIn(p)
    /\ Found(p) = Nil
    /\ Continue(p, loc[p], "signUp.save")
    /\ UNCHANGED <<store, history>>

\* A guest becomes the registered user; without one a user is created.
SignUpBase(p) ==
    IF GuestUser /\ loc[p].UserIsGuest
    THEN {SetGuest(loc[p].User, FALSE)}
    ELSE {NewUser(id) : id \in FreeIds}

\* fillFields may fail, like Save, once a temporary user is removed.
SignUpSave(p) ==
    /\ At(p, "signUp.save")
    /\ \E base \in SignUpBase(p), code \in Codes :
         LET k == arg[p].key
             v == SetPassword(SetUID(base, k, arg[p].uid), k, arg[p].secret)
             u == IF ConfirmableUser THEN WithConfirmCode(v, k, code) ELSE v
         IN  \/ /\ Save(u)
                /\ Continue(p, [loc[p] EXCEPT !.u = u], "signUp.bind")
                /\ Authenticates(p, u.id, TRUE)
             \/ SaveFails(u) /\ Return(p) /\ UNCHANGED authed
    /\ UNCHANGED <<sessions, issued, proved, spent, waived>>

SignUpBind(p) ==
    /\ At(p, "signUp.bind")
    /\ sessions' = [sessions EXCEPT ![arg[p].s] = loc[p].u.id]
    /\ Return(p)
    /\ UNCHANGED <<users, issued, history>>

----------------------------------------------------------------------------
SignInBegin(p) ==
    \E s \in Sessions, k \in PasswordKeys, uid \in UIDs, pw \in Passwords :
        BeginWithSession(p, PasswordArg("signIn", s, k, uid, pw))

\* passwordCompare: bcrypt matches the one password the hash was made of.
PasswordMatches(p) == Found(p).auths[arg[p].key].password = arg[p].secret

\* A mutated form of SignInAccepted: the password is not compared.
SignInAnyPassword(p) == ~SignedIn(p) /\ Found(p) # Nil /\ ~Found(p).temp

SignInAccepted(p) ==
    ~SignedIn(p) /\ Found(p) # Nil /\ ~Found(p).temp /\ PasswordMatches(p)

SignInRefuse(p) ==
    /\ At(p, "signIn")
    /\ ~SignInAccepted(p)
    /\ Refuse(p)

SignInLoad(p) ==
    /\ At(p, "signIn")
    /\ SignInAccepted(p)
    /\ Continue(p, [loc[p] EXCEPT !.u = Found(p)], "signIn.bind")
    /\ Authenticates(p, Found(p).id, PasswordMatches(p))
    /\ UNCHANGED <<store, proved, spent, waived>>

SignInBind(p) ==
    /\ At(p, "signIn.bind")
    /\ sessions' = [sessions EXCEPT ![arg[p].s] = loc[p].u.id]
    /\ Continue(p, loc[p], "signIn.save")
    /\ UNCHANGED <<users, issued, history>>

\* The copy taken when the password was compared is written back.
SignInSave(p) ==
    /\ At(p, "signIn.save")
    /\ \/ /\ Save(loc[p].u)
          /\ IF GuestUser /\ loc[p].UserIsGuest
             THEN Continue(p, loc[p], "removeGuest") ELSE Return(p)
       \/ SaveFails(loc[p].u) /\ Return(p)
    /\ UNCHANGED <<sessions, issued, history>>

PasswordStep(p) ==
    \/ SignUpBegin(p) \/ SignUpRefuse(p) \/ SignUpTakeOver(p)
    \/ SignUpRemoveTemp(p) \/ SignUpNotFound(p) \/ SignUpSave(p) \/ SignUpBind(p)
    \/ SignInBegin(p) \/ SignInRefuse(p) \/ SignInLoad(p) \/ SignInBind(p)
    \/ SignInSave(p)
=============================================================================
