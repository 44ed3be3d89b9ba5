\* One client without social accounts, and codes that age.
SPECIFICATION TimedSpec
CONSTANTS
    UserIds = {u1, u2, u3}
    Procs = {p1}
    Sessions = {s1}
    PasswordKeys = {email}
    OTPKeys = {sms}
    SocialKeys = {}
    UIDs = {a}
    Passwords = {x}
    Codes = {c}
    Empty = Empty
    Nil = Nil
    MaxAge = 3
    PasswordCodeLifeTime = 2
    PasswordResendDelay = 1
    OTPCodeLifeTime = 1
    OTPResendDelay = 1
    Routes = {"auth", "signOut", "signUp", "signIn", "confirm", "resend", "requestRecovery", "recovery", "initLink", "link", "otpCode", "otpAuth"}
    DisableLink = {}
    SaveMayFail = FALSE
    PasswordAuthableUser = TRUE
    GuestUser = TRUE
    ConfirmableUser = TRUE
    CodeSentTimeUser = TRUE
    LinkAccount = TRUE
    MergeAccount = TRUE
SYMMETRY Symmetry
PROPERTY CodesAreSpaced
PROPERTY OTPsExpire
PROPERTY CodesExpireTogether
