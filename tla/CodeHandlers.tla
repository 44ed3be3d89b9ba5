---------------------------- MODULE CodeHandlers ----------------------------
(***************************************************************************)
(* Confirmation codes and password recovery (confirm.go, recovery.go).     *)
(* Both codes of an identity share one field for the time they were sent.  *)
(***************************************************************************)
EXTENDS Requests

CodeArg(op, k, uid, code) ==
    [NoArg EXCEPT !.op = op, !.key = k, !.uid = uid, !.code = code]

\* confirmHandler runs outside the session middleware.
ConfirmBegin(p) ==
    \E k \in PasswordKeys, uid \in UIDs, code \in Codes :
        /\ ConfirmableUser
        /\ Begin(p, CodeArg("confirm", k, uid, code), "confirm")

\* Temporary users are confirmed like any other.
ConfirmAccepted(p) ==
    /\ Found(p) # Nil
    /\ ~Found(p).auths[arg[p].key].confirmed
    /\ Found(p).auths[arg[p].key].confirmCode = arg[p].code
    /\ ~CodeExpired(Found(p), arg[p].key)

ConfirmRefuse(p) ==
    /\ At(p, "confirm")
    /\ ~ConfirmAccepted(p)
    /\ Refuse(p)

ConfirmLoad(p) ==
    /\ At(p, "confirm")
    /\ ConfirmAccepted(p)
    /\ LET k == arg[p].key
           u == SetConfirmed(ClearStamp(Found(p), k), k, TRUE)
       IN  /\ Continue(p, [loc[p] EXCEPT !.u = u], "save")
           /\ Proves(p, Found(p).auths[k].confirmCode = arg[p].code)
    /\ UNCHANGED <<store, authed, spent>>

----------------------------------------------------------------------------
ResendBegin(p) ==
    \E s \in Sessions, k \in PasswordKeys :
        /\ ConfirmableUser
        /\ BeginWithSession(p, [NoArg EXCEPT !.op = "resend", !.s = s, !.key = k])

ResendAccepted(p) ==
    /\ loc[p].User # Nil
    /\ GetUID(loc[p].User, arg[p].key) # Empty
    /\ MayResend(loc[p].User, arg[p].key)

ResendRefuse(p) == At(p, "resend") /\ ~ResendAccepted(p) /\ Refuse(p)

\* The current user's code is replaced, whether confirmed already or not.
ResendNewCode(p) ==
    /\ At(p, "resend")
    /\ ResendAccepted(p)
    /\ \E code \in Codes :
         LET u == SetConfirmCode(StampCode(loc[p].User, arg[p].key), arg[p].key, code)
         IN  Continue(p, [loc[p] EXCEPT !.u = u], "save")
    /\ UNCHANGED <<store, history>>

----------------------------------------------------------------------------
\* The recovery routes ask for a token and make no use of its session.
RequestRecoveryBegin(p) ==
    \E k \in PasswordKeys, uid \in UIDs :
        /\ issued # {}
        /\ Begin(p, CodeArg("requestRecovery", k, uid, Empty), "requestRecovery")

RequestRecoveryAccepted(p) ==
    Found(p) # Nil /\ ~Found(p).temp /\ MayResend(Found(p), arg[p].key)

RequestRecoveryRefuse(p) ==
    At(p, "requestRecovery") /\ ~RequestRecoveryAccepted(p) /\ Refuse(p)

RequestRecoveryLoad(p) ==
    /\ At(p, "requestRecovery")
    /\ RequestRecoveryAccepted(p)
    /\ \E code \in Codes :
         LET u == SetRecoveryCode(StampCode(Found(p), arg[p].key), arg[p].key, code)
         IN  Continue(p, [loc[p] EXCEPT !.u = u], "save")
    /\ UNCHANGED <<store, history>>

RecoveryBegin(p) ==
    \E k \in PasswordKeys, uid \in UIDs, code \in Codes, pw \in Passwords :
        /\ issued # {}
        /\ Begin(p, [CodeArg("recovery", k, uid, code) EXCEPT !.secret = pw], "recovery")

RecoveryAccepted(p) ==
    /\ Found(p) # Nil
    /\ ~Found(p).temp
    /\ ~CodeExpired(Found(p), arg[p].key)
    /\ Found(p).auths[arg[p].key].recoveryCode = arg[p].code

RecoveryRefuse(p) == At(p, "recovery") /\ ~RecoveryAccepted(p) /\ Refuse(p)

\* A mutated form of NewPassword: the recovery code stays valid.
NewPasswordKeepsCode(u, k, pw) == SetPassword(ClearStamp(u, k), k, pw)

\* Another one: the password is set on an identity started afresh.
NewPasswordAfresh(u, k, pw) == SetPassword(SetUID(u, k, GetUID(u, k)), k, pw)

NewPassword(u, k, pw) ==
    SetRecoveryCode(SetPassword(ClearStamp(u, k), k, pw), k, Empty)

RecoveryLoad(p) ==
    /\ At(p, "recovery")
    /\ RecoveryAccepted(p)
    /\ LET u == NewPassword(Found(p), arg[p].key, arg[p].secret)
       IN  Continue(p, [loc[p] EXCEPT !.u = u], "save")
    /\ UNCHANGED <<store, history>>

CodeStep(p) ==
    \/ ConfirmBegin(p) \/ ConfirmRefuse(p) \/ ConfirmLoad(p)
    \/ ResendBegin(p) \/ ResendRefuse(p) \/ ResendNewCode(p)
    \/ RequestRecoveryBegin(p) \/ RequestRecoveryRefuse(p) \/ RequestRecoveryLoad(p)
    \/ RecoveryBegin(p) \/ RecoveryRefuse(p) \/ RecoveryLoad(p)
=============================================================================
