\* Two requests at once on the routes of OTP methods.
SPECIFICATION Spec
CONSTANTS
    UserIds = {u1, u2, u3}
    Procs = {p1, p2}
    Sessions = {s1}
    PasswordKeys = {email}
    OTPKeys = {sms}
    SocialKeys = {}
    UIDs = {a}
    Passwords = {x}
    Codes = {c}
    Empty = Empty
    Nil = Nil
    MaxAge = 1
    PasswordCodeLifeTime = 0
    PasswordResendDelay = 0
    OTPCodeLifeTime = 0
    OTPResendDelay = 0
    Routes = {"auth", "otpCode", "otpAuth"}
    DisableLink = {}
    SaveMayFail = FALSE
    PasswordAuthableUser = TRUE
    GuestUser = TRUE
    ConfirmableUser = TRUE
    CodeSentTimeUser = FALSE
    LinkAccount = TRUE
    MergeAccount = TRUE
SYMMETRY Symmetry
PROPERTY OTPUsedOnce
