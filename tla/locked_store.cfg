\* Three goroutines calling every method of the storer.
SPECIFICATION Spec
CONSTANTS
    UserIds = {u1, u2}
    PasswordKeys = {email}
    OTPKeys = {}
    SocialKeys = {}
    UIDs = {a}
    Passwords = {}
    Codes = {}
    Empty = Empty
    Nil = Nil
    MaxAge = 0
    Clients = {c1, c2, c3}
    Calls <- MCCalls
    Ok = Ok
    Error = Error
INVARIANTS LockedTypeOK WriterIsAlone
PROPERTIES CallsAreAtomic CallsReturn
\* RemoveByUID waits for itself, and every other call for it.
CHECK_DEADLOCK FALSE
