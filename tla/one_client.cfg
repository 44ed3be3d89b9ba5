\* One client on one device, with an e-mail, a phone and a social account:
\* every route.
SPECIFICATION Spec
CONSTANTS
    UserIds = {u1, u2, u3}
    Procs = {p1}
    Sessions = {s1}
    PasswordKeys = {email}
    OTPKeys = {sms}
    SocialKeys = {google}
    UIDs = {a}
    Passwords = {x, y}
    Codes = {c, d}
    Empty = Empty
    Nil = Nil
    MaxAge = 1
    PasswordCodeLifeTime = 0
    PasswordResendDelay = 0
    OTPCodeLifeTime = 0
    OTPResendDelay = 0
    Routes = {"auth", "signOut", "signUp", "signIn", "confirm", "resend", "requestRecovery", "recovery", "initLink", "link", "otpCode", "otpAuth", "social"}
    DisableLink = {}
    SaveMayFail = FALSE
    PasswordAuthableUser = TRUE
    GuestUser = TRUE
    ConfirmableUser = TRUE
    CodeSentTimeUser = TRUE
    LinkAccount = TRUE
    MergeAccount = TRUE
SYMMETRY Symmetry
PROPERTY LinksOnlyConfirmed
PROPERTY RegisteredStays
PROPERTY ConfirmationStays
PROPERTY RecoveryUsedOnce
