\* Two devices, two requests at once on the routes of password methods and
\* the example's profile.
SPECIFICATION Spec
CONSTANTS
    UserIds = {u1, u2, u3}
    Procs = {p1, p2}
    Sessions = {s1, s2}
    PasswordKeys = {email}
    OTPKeys = {}
    SocialKeys = {}
    UIDs = {a}
    Passwords = {x, y}
    Codes = {c}
    Empty = Empty
    Nil = Nil
    MaxAge = 1
    PasswordCodeLifeTime = 0
    PasswordResendDelay = 0
    OTPCodeLifeTime = 0
    OTPResendDelay = 0
    Routes = {"auth", "signOut", "signUp", "signIn", "confirm", "profile"}
    DisableLink = {}
    SaveMayFail = FALSE
    PasswordAuthableUser = TRUE
    GuestUser = TRUE
    ConfirmableUser = TRUE
    CodeSentTimeUser = FALSE
    LinkAccount = TRUE
    MergeAccount = TRUE
SYMMETRY Symmetry
INVARIANT TypeOK
INVARIANT UniqueIdentities
INVARIANT ConfirmedByProof
INVARIANT SessionAuthenticated
