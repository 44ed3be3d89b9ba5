\* Three methods, one sender, the modules of an application without confirmation.
SPECIFICATION Spec
CONSTANTS
    MethodKeys = {email, phone, telegram}
    DefaultKey = email
    Senders = {mailer}
    None = None
    PasswordAuthableUser = TRUE
    ConfirmableUser = FALSE
    RecoverableUser = TRUE
SYMMETRY Symmetry
INVARIANT MethodsTypeOK
INVARIANT SelectsTheOnlyMatch
INVARIANT NoMethodLacksSender
\* A program whose configuration is refused stops.
CHECK_DEADLOCK FALSE
