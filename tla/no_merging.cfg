\* Two devices and three methods, with the MergeAccount module off:
\* no session is left bound to an account that a merge removed.
SPECIFICATION Spec
CONSTANTS
    UserIds = {u1, u2, u3, u4}
    Procs = {p1}
    Sessions = {s1, s2}
    PasswordKeys = {email}
    OTPKeys = {sms, tg}
    SocialKeys = {}
    UIDs = {a}
    Passwords = {x}
    Codes = {c}
    Empty = Empty
    Nil = Nil
    MaxAge = 1
    PasswordCodeLifeTime = 0
    PasswordResendDelay = 0
    OTPCodeLifeTime = 0
    OTPResendDelay = 0
    Routes = {"auth", "signOut", "signUp", "signIn", "confirm", "initLink", "link", "otpCode", "otpAuth"}
    DisableLink = {}
    SaveMayFail = FALSE
    PasswordAuthableUser = TRUE
    GuestUser = TRUE
    ConfirmableUser = TRUE
    CodeSentTimeUser = FALSE
    LinkAccount = TRUE
    MergeAccount = FALSE
SYMMETRY Symmetry
INVARIANT ProvedIsKept
INVARIANT GuestHoldsNoConfirmed
PROPERTY OTPUsedOnce
