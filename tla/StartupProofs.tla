--------------------------- MODULE StartupProofs ---------------------------
(***************************************************************************)
(* What InitHandlers checks is enough for the handlers, and no more than   *)
(* they need: for every set of user models and any number of modules the   *)
(* application sets.                                                       *)
(***************************************************************************)
EXTENDS Startup, TLAPS

PasswordRoutes == {"register", "login", "register/check", "confirm", "confirm/resend",
                   "recover", "recover/validate", "recover/reset", "initLink", "link"}

AllRoutes == {"POST auth", "GET auth", "logout", "social/login", "otp/code", "otp/auth"}
             \cup PasswordRoutes

\* InitHandlers has registered the routes of a program it accepts, and a
\* program serves no request, and panics for none, before or otherwise.
StartOK ==
    /\ phase = "configuring" => panic = None
    /\ phase = "fatal"       => Refused(ExistingTypes) /\ panic = None
    /\ phase = "running"     => ~Refused(ExistingTypes) /\ routes = Routes(ExistingTypes)

StartInv == StartOK /\ RequestsFindInterfaces

----------------------------------------------------------------------------
(* What the routes and the checks say of the modules.                      *)

\* A module that is on without its interface was turned on by the application.
LEMMA ForcedOn ==
  /\ On("GuestUser") /\ Lacks("GuestUser") => "GuestUser" \in Forced
  /\ On("ConfirmableUser") /\ Lacks("ConfirmableUser") => "ConfirmableUser" \in Forced
  /\ On("CustomizableMergeAccount") /\ Lacks("CustomMergeUser")
       => "CustomizableMergeAccount" \in Forced
  BY DEF On, Lacks, Forced, Detected, DetectedBy, AlwaysOn

\* A module that is on has its interface, if none was forced.
LEMMA NoneForced ==
  ASSUME Forced = {}, NEW m \in DOMAIN DetectedBy, On(m)
  PROVE  m \in AlwaysOn \/ ~Lacks(DetectedBy[m])
  BY DEF On, Lacks, Forced, Detected

\* A route is registered for the modules and the types of its handler only.
LEMMA RouteFacts ==
  ASSUME NEW types, NEW route \in Routes(types)
  PROVE  /\ route \in AllRoutes
         /\ On("Session")
         /\ route \notin {"POST auth", "GET auth"} => On("AuthableUser")
         /\ route \in PasswordRoutes => HasPassword(types)
         /\ route \in {"confirm", "confirm/resend"} => On("ConfirmableUser")
         /\ route \in {"recover", "recover/validate", "recover/reset"}
              => On("RecoverableUser")
         /\ route \in {"initLink", "link"} => On("LinkAccount")
         /\ route = "social/login" => HasSocial(types)
         /\ route \in {"otp/code", "otp/auth"} => HasOTP(types)
  BY DEF Routes, AllRoutes, PasswordRoutes

\* What a program with users has passed.
LEMMA Checked ==
  ASSUME NEW types, ~Refused(types), On("Session"), On("AuthableUser")
  PROVE  /\ ~Lacks("AuthableUser")
         /\ On("GuestUser") => ~Lacks("GuestUser") /\ lacks # "RemovableUserStorer"
         /\ On("LinkAccount") => /\ On("ConfirmableUser") /\ ~Lacks("TempUser")
                                 /\ On("MergeAccount") => ~Lacks("MergeUser")
                                 /\ lacks # "RemovableUserStorer"
         /\ HasPassword(types) => /\ ~Lacks("PasswordAuthableUser")
                                  /\ On("ConfirmableUser") => ~Lacks("ConfirmableUser")
                                  /\ On("RecoverableUser") => ~Lacks("RecoverableUser")
         /\ HasOTP(types) => ~Lacks("OTPAuth")
  BY DEF Refused, BadAuthable, BadLink, BadRemovableUser, BadPassword

\* The application provides every interface it does not lack, and a storer
\* that removes unless that is forgotten.
LEMMA ProvidedFacts ==
  ASSUME NEW i, i \notin Provided
  PROVE  /\ Lacks(i)
         /\ i = "RemovableUserStorer" => lacks = "RemovableUserStorer"
  BY DEF Provided, Lacks

----------------------------------------------------------------------------
(* What a handler asserts and does not find.                               *)

\* The user of the session is a guest where guests are on, and removed by a
\* storer that removes (checkSession, removeGuest).
LEMMA SessionFinds ==
  ASSUME NEW types, ~Refused(types), On("Session"), On("AuthableUser"),
         NEW i \in CheckSession \cup RemoveGuest \cup LogIn
  PROVE  i \in Provided
  BY Checked, ProvidedFacts DEF CheckSession, RemoveGuest, LogIn, When

\* A code is stamped only if the model has the time (checker.CodeSentTime).
LEMMA CodeSentFinds ==
  ASSUME NEW i \in CodeSent
  PROVE  i \in Provided
  BY DEF CodeSent, When, Provided

\* Merging asserts CustomMergeUser, which nobody checks, and ConfirmableUser,
\* for which linking takes the word of the module.
LEMMA LinkFinds ==
  ASSUME NEW types, ~Refused(types), routes = Routes(types),
         On("Session"), On("AuthableUser"), On("LinkAccount"),
         NEW i \in LinkAccount, i \notin Provided
  PROVE  \/ i = "CustomMergeUser" /\ "CustomizableMergeAccount" \in Forced
         \/ /\ i = "ConfirmableUser" /\ "ConfirmableUser" \in Forced
            /\ ~HasPassword(types)
  <1>1. Lacks(i) /\ (i = "RemovableUserStorer" => lacks = "RemovableUserStorer")
    BY ProvidedFacts
  <1>2. i \notin {"AuthableUser", "TempUser", "RemovableUserStorer"}
    BY <1>1, Checked
  <1>3. On("MergeAccount") /\ i \in MergeUsers
    BY <1>2 DEF LinkAccount, When
  <1>4. "register" \in routes => HasPassword(types)
    BY RouteFacts DEF PasswordRoutes
  <1>5. i # "MergeUser" /\ i # "PasswordAuthableUser"
    BY <1>1, <1>3, <1>4, Checked DEF MergeUsers, When
  <1>6. \/ i = "ConfirmableUser"
        \/ i = "CustomMergeUser" /\ On("CustomizableMergeAccount")
    BY <1>3, <1>5 DEF MergeUsers, When
  <1> QED BY <1>1, <1>6, Checked, ForcedOn

\* The routes of every program: POST auth takes the session's user for a guest.
LEMMA AuthFinds ==
  ASSUME NEW types, ~Refused(types), On("Session"), NEW route \in {"POST auth", "GET auth"},
         NEW i \in Asserted(route), i \notin Provided
  PROVE  \/ route = "POST auth" /\ i = "GuestUser"
         \/ ~On("AuthableUser") /\ "GuestUser" \in Forced
  <1>1. CASE route = "POST auth"
    BY <1>1 DEF Asserted, Auth, CreateGuestUser, When
  <1>2. CASE route = "GET auth"
    <2>1. i = "GuestUser" /\ On("GuestUser")
      BY <1>2 DEF Asserted, CheckSession, When
    <2>2. Lacks("GuestUser")
      BY <2>1, ProvidedFacts
    <2> QED BY <2>1, <2>2, Checked, ForcedOn
  <1> QED BY <1>1, <1>2

\* logout, and the password routes but link, find all they assert.
LEMMA PasswordFinds ==
  ASSUME NEW types, ~Refused(types), NEW route \in Routes(types),
         route \in {"logout"} \cup (PasswordRoutes \ {"link"}),
         NEW i \in Asserted(route)
  PROVE  i \in Provided
  <1>1. On("Session") /\ On("AuthableUser")
    BY RouteFacts DEF PasswordRoutes
  <1>2. i \in CheckSession \cup RemoveGuest \cup LogIn \cup CodeSent => i \in Provided
    BY <1>1, SessionFinds, CodeSentFinds
  <1>3. ~Lacks(i) => i \in Provided
    BY DEF Lacks, Provided
  <1>4. lacks # "RemovableUserStorer" => "RemovableUserStorer" \in Provided
    BY DEF Provided
  <1>5. CASE route = "logout"
    BY <1>1, <1>2, <1>3, <1>5, Checked
       DEF Asserted, SignOut, CreateGuestUser, When
  <1>6. CASE route = "register"
    <2>1. HasPassword(types)
      BY <1>6, RouteFacts DEF PasswordRoutes
    <2> QED
      BY <1>1, <1>2, <1>3, <1>4, <1>6, <2>1, Checked DEF Asserted, SignUp, Confirm, When
  <1>7. CASE route = "login"
    <2>1. HasPassword(types)
      BY <1>7, RouteFacts DEF PasswordRoutes
    <2> QED BY <1>1, <1>2, <1>3, <1>7, <2>1, Checked DEF Asserted, SignIn
  <1>8. CASE route = "register/check"
    BY <1>1, <1>3, <1>8, Checked DEF Asserted
  <1>9. CASE route \in {"confirm", "confirm/resend"}
    <2>1. HasPassword(types) /\ On("ConfirmableUser")
      BY <1>9, RouteFacts DEF PasswordRoutes
    <2> QED
      BY <1>1, <1>2, <1>3, <1>9, <2>1, Checked DEF Asserted, Resend, Confirm, When
  <1>10. CASE route \in {"recover", "recover/validate", "recover/reset"}
    <2>1. HasPassword(types) /\ On("RecoverableUser")
      BY <1>10, RouteFacts DEF PasswordRoutes
    <2> QED
      BY <1>1, <1>2, <1>3, <1>10, <2>1, Checked DEF Asserted, Reset, Recover
  <1>11. CASE route = "initLink"
    <2>1. HasPassword(types) /\ On("LinkAccount")
      BY <1>11, RouteFacts DEF PasswordRoutes
    <2> QED
      BY <1>1, <1>2, <1>3, <1>11, <2>1, Checked DEF Asserted, InitLink, Confirm
  <1> QED
    BY <1>5, <1>6, <1>7, <1>8, <1>9, <1>10, <1>11 DEF PasswordRoutes

\* The routes that link find all but what linking itself does not find.
LEMMA LinkingFinds ==
  ASSUME NEW types, ~Refused(types), routes = Routes(types), NEW route \in routes,
         route \in {"link", "social/login", "otp/code", "otp/auth"},
         NEW i \in Asserted(route), i \notin Provided
  PROVE  \/ i = "CustomMergeUser" /\ "CustomizableMergeAccount" \in Forced
         \/ /\ i = "ConfirmableUser" /\ "ConfirmableUser" \in Forced
            /\ route \in {"social/login", "otp/auth"}
  <1>1. On("Session") /\ On("AuthableUser")
    BY RouteFacts
  <1>2. i \notin CheckSession \cup RemoveGuest \cup LogIn \cup CodeSent
    BY <1>1, SessionFinds, CodeSentFinds
  <1>3. Lacks(i) /\ i # "AuthableUser"
    BY <1>1, ProvidedFacts, Checked
  <1>4. i \in LinkAccount /\ On("LinkAccount")
        => \/ i = "CustomMergeUser" /\ "CustomizableMergeAccount" \in Forced
           \/ i = "ConfirmableUser" /\ "ConfirmableUser" \in Forced /\ ~HasPassword(types)
    BY <1>1, LinkFinds
  <1>5. CASE route = "link"
    <2>1. HasPassword(types) /\ On("LinkAccount")
      BY <1>5, RouteFacts DEF PasswordRoutes
    <2> QED
      BY <1>1, <1>2, <1>3, <1>4, <1>5, <2>1, Checked DEF Asserted, Link, Confirm
  <1>6. CASE route = "social/login"
    BY <1>2, <1>4, <1>6 DEF Asserted, SocialSignIn, Linking, When
  <1>7. CASE route \in {"otp/code", "otp/auth"}
    <2>1. HasOTP(types)
      BY <1>7, RouteFacts
    <2>2. i # "OTPAuth" /\ (On("LinkAccount") => i # "TempUser")
          /\ (On("GuestUser") => i # "GuestUser")
      BY <1>1, <1>3, <2>1, Checked
    <2>3. CASE route = "otp/code"
      BY <1>2, <1>3, <2>2, <2>3 DEF Asserted, OTPGetCode, CreateGuestUser, When
    <2>4. CASE route = "otp/auth"
      BY <1>2, <1>4, <2>2, <2>4 DEF Asserted, OTPAuth, Linking, When
    <2> QED BY <1>7, <2>3, <2>4
  <1> QED BY <1>5, <1>6, <1>7

----------------------------------------------------------------------------
(* The theorems.                                                           *)

\* A program starts unconfigured.
LEMMA StartInit == Init => StartInv
  BY DEF Init, StartInv, StartOK, RequestsFindInterfaces

\* The checks and the routes are those of the configuration.
LEMMA SameConfig ==
  ASSUME UNCHANGED config
  PROVE  /\ Refused(ExistingTypes)' <=> Refused(ExistingTypes)
         /\ Routes(ExistingTypes)' = Routes(ExistingTypes)
         /\ Forced' = Forced
         /\ On("AuthableUser")' = On("AuthableUser")
  <1>1. UNCHANGED <<implements, lacks, Modules, ExistingTypes>>
    BY DEF config
  <1>2. Forced' = Forced /\ On("AuthableUser")' = On("AuthableUser")
    BY <1>1 DEF Forced, Detected, On
  <1>3. Refused(ExistingTypes)' <=> Refused(ExistingTypes)
    BY <1>1 DEF Refused, BadAuthMethods, BadAuthable, BadLink, BadRemovableUser,
                BadPassword, HasPassword, HasOTP, On, Lacks
  <1>4. Routes(ExistingTypes)' = Routes(ExistingTypes)
    BY <1>1 DEF Routes, HasPassword, HasSocial, HasOTP, On
  <1> QED BY <1>2, <1>3, <1>4

\* A request panics for one of the four reasons only.
LEMMA PanicKeeps ==
  ASSUME StartInv, Panic
  PROVE  StartInv'
  <1> PICK route \in routes : \E i \in Asserted(route) \ Provided :
          panic' = [route |-> route, interface |-> i]
    BY DEF Panic
  <1>1. PICK i \in Asserted(route) \ Provided :
          panic' = [route |-> route, interface |-> i]
    OBVIOUS
  <1>2. /\ phase = "running" /\ UNCHANGED config
        /\ ~Refused(ExistingTypes) /\ routes = Routes(ExistingTypes)
    BY DEF Panic, StartInv, StartOK
  <1>3. panic'.route = route /\ panic'.interface = i
    BY <1>1
  <1>4. Forced' = Forced /\ On("AuthableUser")' = On("AuthableUser")
    BY <1>2, SameConfig
  <1>5. StartOK'
    BY <1>2, SameConfig DEF StartOK, config
  <1>6. route \in AllRoutes /\ On("Session")
    BY <1>2, RouteFacts
  <1>7. CASE route \in {"POST auth", "GET auth"}
    BY <1>1, <1>2, <1>3, <1>4, <1>5, <1>6, <1>7, AuthFinds
       DEF StartInv, RequestsFindInterfaces
  <1>8. CASE route \in {"logout"} \cup (PasswordRoutes \ {"link"})
    BY <1>1, <1>2, <1>8, PasswordFinds
  <1>9. CASE route \in {"link", "social/login", "otp/code", "otp/auth"}
    BY <1>1, <1>2, <1>3, <1>4, <1>5, <1>9, LinkingFinds
       DEF StartInv, RequestsFindInterfaces
  <1> QED BY <1>6, <1>7, <1>8, <1>9 DEF AllRoutes, PasswordRoutes

\* The invariant is inductive.
LEMMA StartNext == StartInv /\ [Next]_vars => StartInv'
  <1> SUFFICES ASSUME StartInv, [Next]_vars PROVE StartInv'
    OBVIOUS
  <1>1. CASE SetModule \/ AddAuthMethod
    BY <1>1 DEF StartInv, StartOK, RequestsFindInterfaces, SetModule, AddAuthMethod
  <1>2. CASE InitHandlers
    <2>1. /\ panic' = None
          /\ phase' = IF Refused(ExistingTypes') THEN "fatal" ELSE "running"
          /\ routes' = IF phase' = "running" THEN Routes(ExistingTypes') ELSE {}
          /\ UNCHANGED <<implements, lacks, Modules>>
      BY <1>2 DEF InitHandlers, StartInv, StartOK
    <2>2. /\ Refused(ExistingTypes') <=> Refused(ExistingTypes)'
          /\ Routes(ExistingTypes') = Routes(ExistingTypes)'
      BY <2>1 DEF Refused, BadAuthMethods, BadAuthable, BadLink,
                  BadRemovableUser, BadPassword, HasPassword, HasSocial, HasOTP, Routes,
                  On, Lacks
    <2> QED BY <2>1, <2>2 DEF StartInv, StartOK, RequestsFindInterfaces
  <1>3. CASE Answer \/ UNCHANGED vars
    <2>1. UNCHANGED config /\ (panic' = panic \/ (phase = "running" /\ panic' = None))
      BY <1>3 DEF Answer, vars, config
    <2>2. StartOK'
      BY <2>1, SameConfig DEF StartInv, StartOK, config
    <2>3. RequestsFindInterfaces'
      BY <2>1, SameConfig DEF StartInv, RequestsFindInterfaces
    <2> QED BY <2>2, <2>3 DEF StartInv
  <1> QED BY <1>1, <1>2, <1>3, PanicKeeps DEF Next

\* Of the assertions the handlers make without looking, only the listed ones
\* can fail in a program that InitHandlers let run: for every user model,
\* however the application sets the modules.
THEOREM InterfacesFound == Spec => []RequestsFindInterfaces
  <1>1. StartInv => RequestsFindInterfaces
    BY DEF StartInv
  <1> QED BY <1>1, StartInit, StartNext, PTL DEF Spec

\* The modules New detects are accepted by InitHandlers, unless they link
\* without confirmation.
THEOREM DetectedIsAccepted == Spec => []DetectionIsAccepted
  <1>1. StartInv => DetectionIsAccepted
    <2> SUFFICES ASSUME Refused(ExistingTypes), Forced = {}, lacks = None
                 PROVE  On("LinkAccount") /\ ~On("ConfirmableUser")
      BY DEF StartInv, StartOK, DetectionIsAccepted
    <2>1. ~BadAuthMethods(ExistingTypes) /\ lacks # "RemovableUserStorer" /\ lacks # "sender"
      BY NoneIsNoOmission DEF BadAuthMethods, Forgettable
    <2>2. /\ On("AuthableUser") => ~Lacks("AuthableUser")
          /\ On("GuestUser") => ~Lacks("GuestUser")
          /\ On("LinkAccount") => ~Lacks("TempUser")
          /\ On("MergeAccount") => ~Lacks("MergeUser")
          /\ On("PasswordAuthableUser") => ~Lacks("PasswordAuthableUser")
          /\ On("ConfirmableUser") => ~Lacks("ConfirmableUser")
          /\ On("RecoverableUser") => ~Lacks("RecoverableUser")
          /\ On("OTP") => ~Lacks("OTPAuth")
      BY NoneForced DEF DetectedBy, AlwaysOn
    <2> QED
      BY <2>1, <2>2 DEF Refused, BadAuthable, BadLink, BadRemovableUser, BadPassword,
                        HasPassword, HasOTP
  <1> QED BY <1>1, StartInit, StartNext, PTL DEF Spec
=============================================================================
