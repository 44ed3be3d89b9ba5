----------------------------- MODULE CodeTimes -----------------------------
(***************************************************************************)
(* How old the codes are that Rauther accepts.  The user record has one    *)
(* sent time for an identity, but its confirmation and its recovery code   *)
(* are sent separately: here a history variable, which no handler reads,   *)
(* follows the age of each kind of code.                                   *)
(***************************************************************************)
EXTENDS AccountSafety

VARIABLE codeAge    \* per kind and identity, since its last code was sent

Kinds == {"confirmation", "recovery", "otp"}

CodeAges == [Kinds -> [Keys \X UIDs -> Ages \cup {Nil}]]

TimedInit ==
    /\ Init
    /\ codeAge = [kind \in Kinds |-> [x \in Keys \X UIDs |-> Nil]]

\* A request passes from its label to a later one.
Passes(p, from, to) == At(p, from) /\ pc'[p] \in to

\* initLink sends no code for an identity that is confirmed already.
Sends(p, kind) ==
    CASE kind = "confirmation" ->
           \/ Passes(p, "signUp.save", {"signUp.bind"}) /\ ConfirmableUser
           \/ Passes(p, "resend", {"save"})
           \/ /\ Passes(p, "initLink", {"save"})
              /\ ~loc'[p].u.auths[arg[p].key].confirmed
      [] kind = "recovery" -> Passes(p, "requestRecovery", {"save"})
      [] kind = "otp"      -> Passes(p, "otpCode", {"save"})

\* resend names no uid: it is of the current user's identity.
SentTo(p) ==
    <<arg[p].key, IF arg[p].op = "resend" THEN GetUID(loc[p].User, arg[p].key)
                                          ELSE arg[p].uid>>

\* Passing time.
Older(t) == IF t \in 0 .. MaxAge - 1 THEN t + 1 ELSE t

\* The ages for each step of Rauther: counted by Tick, from when a code is made.
Ageing ==
    codeAge' = [kind \in Kinds |-> [x \in Keys \X UIDs |->
        IF Tick THEN Older(codeAge[kind][x])
        ELSE IF \E p \in Procs : Sends(p, kind) /\ SentTo(p) = x THEN 0
        ELSE codeAge[kind][x]]]

TimedNext == Next /\ Ageing

TimedSpec == TimedInit /\ [][TimedNext]_<<vars, codeAge>>

----------------------------------------------------------------------------
(* A code is accepted.                                                     *)

Accepts(p, kind) ==
    CASE kind = "confirmation" ->
           \/ Passes(p, "confirm", {"save"})
           \/ /\ Passes(p, "link", {"link.save"})
              /\ ~Found(p).auths[arg[p].key].confirmed
      [] kind = "recovery" -> Passes(p, "recovery", {"save"})
      [] kind = "otp" -> Passes(p, "otpAuth", {"otpAuth.remove", "otpAuth.bind",
                                               "linkAccount"})

InTime(p, kind) ==
    LET age == codeAge[kind][<<arg[p].key, arg[p].uid>>]
    IN  age # Nil /\ age <= LifeTime(arg[p].key)

\* A one-time password opens no account after its life time, wherever the
\* identity it was sent to has been moved since (otpAuthHandler).
OTPsExpire ==
    [][\A p \in Procs : Accepts(p, "otp") => InTime(p, "otp")]_<<vars, codeAge>>

\* Neither does a confirmation or recovery code, but that either of the two,
\* sent again, lends its time to the other (confirm.go:66, recovery.go:172).
CodesExpireTogether ==
    [][\A p \in Procs :
         Accepts(p, "confirmation") \/ Accepts(p, "recovery")
           => InTime(p, "confirmation") \/ InTime(p, "recovery")]_<<vars, codeAge>>
=============================================================================
