\* As auth_methods.
SPECIFICATION Spec
CONSTANTS
    MethodKeys = {email, phone, telegram}
    DefaultKey = email
    Senders = {mailer}
    None = None
    PasswordAuthableUser = TRUE
    ConfirmableUser = FALSE
    RecoverableUser = TRUE
SYMMETRY Symmetry
INVARIANT DefaultSenderIsUsed
\* A program whose configuration is refused stops.
CHECK_DEADLOCK FALSE
