------------------------------ MODULE Startup ------------------------------
(***************************************************************************)
(* How a program that uses the library starts.  New (rauther.go) looks at  *)
(* which interfaces the application's user model implements and turns      *)
(* modules on; the application may set modules itself and add methods;     *)
(* InitHandlers (rauther.go, includes.go) checks the result, stops the     *)
(* program or registers the routes.  The handlers then assert interfaces   *)
(* of the user by type assertions most of which would panic when they do   *)
(* not hold: the module records which ones a request reaches.              *)
(***************************************************************************)
EXTENDS Integers, FiniteSets

CONSTANTS
    UserModels,     \* the sets of interfaces a user model may implement
    MaxSets,        \* bound on how often the application sets a module
    None

\* The interfaces of user.go, each with the ones it embeds.
Embedded ==
    [AuthableUser         |-> {},               GuestUser       |-> {},
     PasswordAuthableUser |-> {"AuthableUser"}, ConfirmableUser |-> {"AuthableUser"},
     RecoverableUser      |-> {"AuthableUser"}, OTPAuth         |-> {"AuthableUser"},
     CodeSentTimeUser     |-> {"AuthableUser"}, TempUser        |-> {"AuthableUser"},
     MergeUser            |-> {},               CustomMergeUser |-> {"MergeUser"}]

Interfaces == DOMAIN Embedded
Models == {I \in SUBSET Interfaces : \A i \in I : Embedded[i] \subseteq I}

ASSUME UserModelsAreModels == UserModels \subseteq Models
ASSUME MaxSetsIsNat == MaxSets \in Nat

Types == {"Password", "Social", "OTP"}

\* What else the application may have forgotten: the storer's RemoveByID, a
\* field for a request's Fields(), GetConfirmMerge, a sender.
Forgettable == {"RemovableUserStorer", "field", "confirmMerge", "sender"}
Omissions   == Forgettable \cup {None}

ASSUME NoneIsNoOmission == None \notin Forgettable

VARIABLES
    implements,     \* the interfaces of the user model, as the checker finds them
    lacks,          \* the one thing of Omissions the application has forgotten
    Modules,        \* the modules that are on
    ExistingTypes,  \* the types of the methods added
    phase,          \* "configuring", "running" or "fatal"
    routes,         \* the routes InitHandlers has registered
    bound,          \* whether some session has a stored user
    panic,          \* what the last request panicked for, or None
    sets            \* how often the application has set a module

vars == <<implements, lacks, Modules, ExistingTypes, phase, routes, bound, panic, sets>>
config == <<implements, lacks, Modules, ExistingTypes, phase, routes, sets>>

On(m) == m \in Modules

----------------------------------------------------------------------------
(* New: a module is on when the checker has found its interface.           *)

DetectedBy ==
    [AuthableUser         |-> "AuthableUser",         GuestUser        |-> "GuestUser",
     PasswordAuthableUser |-> "PasswordAuthableUser", ConfirmableUser  |-> "ConfirmableUser",
     RecoverableUser      |-> "RecoverableUser",      CodeSentTimeUser |-> "CodeSentTimeUser",
     OTP                  |-> "OTPAuth",              LinkAccount      |-> "TempUser",
     MergeAccount         |-> "MergeUser", CustomizableMergeAccount    |-> "CustomMergeUser"]

AlwaysOn == {"Session", "SocialAuthableUser"}
ModuleNames == DOMAIN DetectedBy \cup AlwaysOn

\* A mutated form of Detected: a user model with a password can be a guest.
DetectedGuests(I) ==
    AlwaysOn \cup {m \in DOMAIN DetectedBy :
                     \/ DetectedBy[m] \in I
                     \/ m = "GuestUser" /\ "PasswordAuthableUser" \in I}

Detected(I) == AlwaysOn \cup {m \in DOMAIN DetectedBy : DetectedBy[m] \in I}

Init ==
    /\ implements \in UserModels
    /\ lacks \in Omissions
    /\ Modules = Detected(implements)
    /\ ExistingTypes = {}
    /\ phase = "configuring"
    /\ routes = {}
    /\ bound = FALSE
    /\ panic = None
    /\ sets = 0

----------------------------------------------------------------------------
(* The application configures.                                             *)

\* r.Modules.m = true, or = false.
SetModule ==
    /\ phase = "configuring"
    /\ sets < MaxSets
    /\ \E m \in ModuleNames :
         Modules' = IF On(m) THEN Modules \ {m} ELSE Modules \cup {m}
    /\ sets' = sets + 1
    /\ UNCHANGED <<implements, lacks, ExistingTypes, phase, routes, bound, panic>>

AddAuthMethod ==
    /\ phase = "configuring"
    /\ \E t \in Types : ExistingTypes' = ExistingTypes \cup {t}
    /\ UNCHANGED <<implements, lacks, Modules, phase, routes, bound, panic, sets>>

----------------------------------------------------------------------------
(* What InitHandlers refuses to run with, each by log.Fatal.               *)

Lacks(i) == i \notin implements

BadAuthMethods(types) ==        \* checkAuthMethods
    \/ lacks = "field"
    \/ On("MergeAccount") /\ types \cap {"OTP", "Social"} # {} /\ lacks = "confirmMerge"

\* A mutated form of BadLink: MergeUser is not looked for.
BadLinkButMerge ==
    On("LinkAccount") /\ (~On("ConfirmableUser") \/ Lacks("TempUser"))

BadLink ==                      \* checkLink
    /\ On("LinkAccount")
    /\ \/ ~On("ConfirmableUser")
       \/ Lacks("TempUser")
       \/ On("MergeAccount") /\ Lacks("MergeUser")

BadRemovableUser ==             \* checkRemovableUser
    \/ On("GuestUser") /\ Lacks("GuestUser")
    \/ (On("GuestUser") \/ On("LinkAccount")) /\ lacks = "RemovableUserStorer"

BadPassword ==                  \* includePasswordAuthable
    \/ Lacks("PasswordAuthableUser")
    \/ On("ConfirmableUser") /\ (Lacks("ConfirmableUser") \/ lacks = "sender")
    \/ On("RecoverableUser") /\ (Lacks("RecoverableUser") \/ lacks = "sender")

HasPassword(types) == On("PasswordAuthableUser") /\ "Password" \in types
HasSocial(types)   == On("SocialAuthableUser") /\ "Social" \in types
HasOTP(types)      == On("OTP") /\ "OTP" \in types

BadAuthable(types) ==           \* includeAuthable
    \/ Lacks("AuthableUser")
    \/ BadLink
    \/ BadRemovableUser
    \/ HasPassword(types) /\ BadPassword
    \/ HasOTP(types) /\ Lacks("OTPAuth")

Refused(types) ==
    \/ BadAuthMethods(types)
    \/ On("Session") /\ On("AuthableUser") /\ BadAuthable(types)

Routes(types) ==
    LET If(b, R) == IF b THEN R ELSE {} IN
    If(On("Session"),
       {"POST auth", "GET auth"} \cup If(On("AuthableUser"),
          {"logout"}
          \cup If(HasPassword(types),
                  {"register", "login", "register/check"}
                  \cup If(On("ConfirmableUser"), {"confirm", "confirm/resend"})
                  \cup If(On("RecoverableUser"),
                          {"recover", "recover/validate", "recover/reset"})
                  \cup If(On("LinkAccount"), {"initLink", "link"}))
          \cup If(HasSocial(types), {"social/login"})
          \cup If(HasOTP(types), {"otp/code", "otp/auth"})))

\* An application without a method gets the password method "email".
InitHandlers ==
    /\ phase = "configuring"
    /\ ExistingTypes' = IF ExistingTypes = {} THEN {"Password"} ELSE ExistingTypes
    /\ phase' = IF Refused(ExistingTypes') THEN "fatal" ELSE "running"
    /\ routes' = IF phase' = "running" THEN Routes(ExistingTypes') ELSE {}
    /\ UNCHANGED <<implements, lacks, Modules, bound, panic, sets>>

----------------------------------------------------------------------------
(* Requests.  Asserted gives the interfaces a handler may come to assert   *)
(* without looking whether the assertion holds (and the storer's           *)
(* RemoveByID, called without looking whether there is one).               *)

When(b, I) == IF b THEN I ELSE {}

\* Session users exist only once a session is bound to a stored user.
CheckSession == When(bound /\ On("GuestUser"), {"GuestUser"})

RemoveGuest  == When(bound /\ On("GuestUser"), {"RemovableUserStorer"})

\* A mutated form of CodeSent: the module alone guards it.
CodeSentByModule == When(On("CodeSentTimeUser"), {"CodeSentTimeUser"})

\* r.checker.CodeSentTime && r.Modules.CodeSentTimeUser guards the assertion.
CodeSent == When("CodeSentTimeUser" \in implements /\ On("CodeSentTimeUser"),
                 {"CodeSentTimeUser"})

\* mergeUsers and moveAuthIdentities: the linked account has an identity the
\* current one lacks.  Only the password routes give an account a password.
MergeUsers ==
    {"MergeUser", "ConfirmableUser"}
    \cup When("register" \in routes, {"PasswordAuthableUser"})
    \cup When(On("CustomizableMergeAccount"), {"CustomMergeUser"})

LinkAccount ==
    {"AuthableUser", "TempUser", "RemovableUserStorer"}
    \cup When(On("MergeAccount"), MergeUsers)

\* social/login and otp/auth link for a logged-in user.
Linking == When(bound /\ On("LinkAccount"), LinkAccount)

CreateGuestUser == {"GuestUser"}

\* The user of the session is asserted to be a GuestUser with the module or
\* without it.
Auth == When(bound, {"GuestUser"})
        \cup When(On("PasswordAuthableUser") /\ On("GuestUser"), CreateGuestUser)

Confirm == {"AuthableUser", "ConfirmableUser"} \cup CodeSent
Recover == {"AuthableUser", "RecoverableUser"} \cup CodeSent
LogIn   == {"AuthableUser"} \cup CheckSession \cup RemoveGuest

SignOut == CheckSession \cup RemoveGuest \cup When(On("GuestUser"), CreateGuestUser)
SignUp  == LogIn \cup {"PasswordAuthableUser"}
           \cup When(On("ConfirmableUser"), Confirm)
           \cup When(On("LinkAccount"), {"RemovableUserStorer"})
SignIn  == LogIn \cup {"PasswordAuthableUser"}
Resend  == CheckSession \cup When(bound, Confirm)
Reset   == Recover \cup {"PasswordAuthableUser"}

InitLink == CheckSession \cup Confirm \cup {"TempUser"}
Link     == CheckSession \cup Confirm \cup LinkAccount \cup {"PasswordAuthableUser"}

SocialSignIn == LogIn \cup Linking
OTPGetCode   == {"AuthableUser", "OTPAuth"} \cup CheckSession \cup CodeSent
                \cup When(bound /\ On("LinkAccount"), {"TempUser"})
                \cup When(On("GuestUser"), CreateGuestUser)
OTPAuth      == LogIn \cup {"OTPAuth"} \cup CodeSent \cup Linking
                \cup When(On("LinkAccount"), {"TempUser"})

Asserted(route) ==
    CASE route = "POST auth"      -> Auth
      [] route = "GET auth"       -> CheckSession
      [] route = "logout"         -> SignOut
      [] route = "register"       -> SignUp
      [] route = "login"          -> SignIn
      [] route = "register/check" -> {"AuthableUser"}
      [] route = "confirm"        -> Confirm
      [] route = "confirm/resend" -> Resend
      [] route \in {"recover", "recover/validate"} -> Recover
      [] route = "recover/reset"  -> Reset
      [] route = "initLink"       -> InitLink
      [] route = "link"           -> Link
      [] route = "social/login"   -> SocialSignIn
      [] route = "otp/code"       -> OTPGetCode
      [] route = "otp/auth"       -> OTPAuth

Provided == implements \cup ({"RemovableUserStorer"} \ {lacks})

BindUser(route) ==
    \/ route \in {"register", "login", "social/login", "otp/auth"}
    \/ route = "POST auth" /\ On("PasswordAuthableUser") /\ On("GuestUser")
    \/ route = "logout" /\ On("GuestUser")

\* A request reaches no assertion that does not hold ...
Answer ==
    /\ phase = "running"
    /\ \E route \in routes : bound' = (bound \/ BindUser(route))
    /\ panic' = None
    /\ UNCHANGED config

\* ... or panics at one.
Panic ==
    /\ phase = "running"
    /\ \E route \in routes : \E i \in Asserted(route) \ Provided :
         panic' = [route |-> route, interface |-> i]
    /\ UNCHANGED <<config, bound>>

Next == \/ SetModule \/ AddAuthMethod \/ InitHandlers \/ Answer \/ Panic

Spec == Init /\ [][Next]_vars

----------------------------------------------------------------------------
\* The modules the application has turned on without their interface.
Forced == Modules \ Detected(implements)

\* Of the interfaces a handler asserts, InitHandlers has checked each, also
\* of a module the application turned on itself.  It checks neither the user
\* of POST auth (session.go:40), nor CustomMergeUser, nor ConfirmableUser
\* where no password route needs it, nor GuestUser in a program without
\* AuthableUser: those, the property lists, and no other request panics for
\* want of an interface or of the storer's RemoveByID.
RequestsFindInterfaces ==
    panic # None =>
      \/ panic = [route |-> "POST auth", interface |-> "GuestUser"]
      \/ panic.interface = "CustomMergeUser" /\ "CustomizableMergeAccount" \in Forced
      \/ /\ panic.interface = "ConfirmableUser" /\ "ConfirmableUser" \in Forced
         /\ panic.route \in {"social/login", "otp/auth"}
      \/ ~On("AuthableUser") /\ "GuestUser" \in Forced

\* InitHandlers refuses no program for the modules New has turned on, or for
\* those less some the application turned off, but in one case: linking
\* without confirmation (checkLink).  Whatever else stops a program is
\* missing in the application.
DetectionIsAccepted ==
    phase = "fatal" /\ Forced = {}
        => \/ lacks # None
           \/ On("LinkAccount") /\ ~On("ConfirmableUser")

\* "GuestUser ... is used as a separate layer" (README.md:74): an application
\* whose user model is no GuestUser can serve POST auth.
GuestsAreOptional ==
    panic # None => panic.interface # "GuestUser" \/ On("GuestUser")
=============================================================================
