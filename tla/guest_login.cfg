\* Two devices, every module on.
SPECIFICATION Spec
CONSTANTS
    UserIds = {u1, u2, u3, u4}
    Procs = {p1}
    Sessions = {s1, s2}
    PasswordKeys = {email}
    OTPKeys = {sms}
    SocialKeys = {}
    UIDs = {a, b}
    Passwords = {x}
    Codes = {c}
    Empty = Empty
    Nil = Nil
    MaxAge = 1
    PasswordCodeLifeTime = 0
    PasswordResendDelay = 0
    OTPCodeLifeTime = 0
    OTPResendDelay = 0
    Routes = {"auth", "signUp", "confirm", "link", "otpCode", "otpAuth"}
    DisableLink = {}
    SaveMayFail = FALSE
    PasswordAuthableUser = TRUE
    GuestUser = TRUE
    ConfirmableUser = TRUE
    CodeSentTimeUser = FALSE
    LinkAccount = TRUE
    MergeAccount = TRUE
SYMMETRY Symmetry
INVARIANT LoginMakesNoGuest
