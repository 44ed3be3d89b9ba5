\* Two devices, one request at a time, and a UserStorer whose Save fails at will.
SPECIFICATION Spec
CONSTANTS
    UserIds = {u1, u2, u3, u4}
    Procs = {p1}
    Sessions = {s1, s2}
    PasswordKeys = {email}
    OTPKeys = {sms}
    SocialKeys = {}
    UIDs = {a}
    Passwords = {x}
    Codes = {c}
    Empty = Empty
    Nil = Nil
    MaxAge = 1
    PasswordCodeLifeTime = 0
    PasswordResendDelay = 0
    OTPCodeLifeTime = 0
    OTPResendDelay = 0
    Routes = {"auth", "signOut", "signUp", "signIn", "confirm", "initLink", "link", "otpCode", "otpAuth"}
    DisableLink = {}
    SaveMayFail = TRUE
    PasswordAuthableUser = TRUE
    GuestUser = TRUE
    ConfirmableUser = TRUE
    CodeSentTimeUser = FALSE
    LinkAccount = TRUE
    MergeAccount = TRUE
SYMMETRY Symmetry
INVARIANT SessionAuthenticated
INVARIANT NoTempSession
PROPERTY RegisteredStays
