------------------------------ MODULE Requests ------------------------------
(***************************************************************************)
(* HTTP requests served concurrently over one user storer and one session  *)
(* storer.  A request in service is a process: a label, its parameters and *)
(* the handler's local variables.  One action is one call to a storer, or  *)
(* one access to the shared session object, with the local computation and *)
(* the guards that follow it up to the next such call.                     *)
(*                                                                         *)
(* This module holds the state, what all handlers share (the session       *)
(* middleware, checkSession, Create, Save) and time.                       *)
(***************************************************************************)
EXTENDS UserStore, FiniteSets

CONSTANTS
    Procs,              \* requests in service at a time, at most
    Sessions,           \* session (device) ids
    Routes,             \* routes the program registers and clients call
    \* r.Modules, as configured by the application:
    PasswordAuthableUser, GuestUser, ConfirmableUser, CodeSentTimeUser,
    LinkAccount, MergeAccount,
    DisableLink,        \* keys of the methods with DisableLink set
    PasswordCodeLifeTime, PasswordResendDelay,      \* r.Config.Password
    OTPCodeLifeTime, OTPResendDelay,                \* r.Config.OTP
    SaveMayFail         \* the application's UserStorer.Save may fail at will,
                        \* and so may fillFields, just before it

AllRoutes == {"auth", "signOut", "signUp", "signIn", "confirm", "resend",
              "requestRecovery", "recovery", "initLink", "link",
              "otpCode", "otpAuth", "social", "profile"}

ASSUME RoutesKnown == Routes \subseteq AllRoutes
ASSUME FlagsAreBooleans ==
    /\ PasswordAuthableUser \in BOOLEAN /\ GuestUser \in BOOLEAN
    /\ ConfirmableUser \in BOOLEAN      /\ CodeSentTimeUser \in BOOLEAN
    /\ LinkAccount \in BOOLEAN          /\ MergeAccount \in BOOLEAN
    /\ SaveMayFail \in BOOLEAN
\* checkLink stops the program when this does not hold.
ASSUME LinkIsConfigured == LinkAccount => ConfirmableUser
ASSUME DelaysBelowMaxAge ==
    /\ PasswordCodeLifeTime \in 0 .. MaxAge - 1
    /\ PasswordResendDelay \in 0 .. MaxAge - 1
    /\ OTPCodeLifeTime \in 0 .. MaxAge - 1
    /\ OTPResendDelay \in 0 .. MaxAge - 1

VARIABLES
    users,      \* UserStorer.Users
    sessions,   \* Session.UserID of every session; Nil is the 0 of the code
    issued,     \* the sessions that hold a token, known to their client
    pc,         \* where each request is
    arg,        \* its parameters
    loc,        \* sessionInfo and the other local variables of its handler
    proved,     \* history: the identities (key, uid) a client proved to hold
    authed,     \* history: the users each session presented credentials of
    spent,      \* history: the identities whose last code was used up
    waived      \* history: the proved identities a confirmed merge gave up

store   == <<users, sessions, issued>>
history == <<proved, authed, spent, waived>>
vars    == <<users, sessions, issued, pc, arg, loc, proved, authed, spent, waived>>

Labels == AllRoutes \cup
    {"idle", "middleware", "middleware.load", "getUserID", "loadUser",
     "auth.load", "auth.unbind", "auth.guest", "guest.save", "guest.bind",
     "signOut.remove", "signUp.remove", "signUp.save", "signUp.bind",
     "signIn.bind", "signIn.save", "removeGuest", "save",
     "link.save", "linkAccount",
     "otpAuth.remove", "otpAuth.bind", "otpAuth.save",
     "social.save", "social.bind"}

Args == [op      : AllRoutes \cup {Nil},
         s       : Sessions \cup {Nil},
         key     : Keys \cup {Nil},
         uid     : UIDs \cup {Nil},
         secret  : Passwords \cup Codes \cup {Nil},
         code    : Codes \cup {Empty},
         merge   : BOOLEAN,
         confirm : BOOLEAN]

\* UserID, User and UserIsGuest are the fields of sessionInfo; u and
\* removeUserID are locals of the handlers.
Locals == [UserID       : UserIds \cup {Nil},
           User         : User \cup {Nil},
           UserIsGuest  : BOOLEAN,
           u            : User \cup {Nil},
           removeUserID : UserIds \cup {Nil}]

NoArg == [op |-> Nil, s |-> Nil, key |-> Nil, uid |-> Nil, secret |-> Nil,
          code |-> Empty, merge |-> FALSE, confirm |-> FALSE]
NoLoc == [UserID |-> Nil, User |-> Nil, UserIsGuest |-> FALSE, u |-> Nil,
          removeUserID |-> Nil]

\* The routes of the password methods.
PasswordOps == {"signUp", "signIn", "confirm", "resend", "requestRecovery",
                "recovery", "initLink", "link"}

\* What a request of each route carries, with a key of the route's own type.
ArgOK(x) ==
    /\ x.op \in AllRoutes
    /\ x.op \notin {"confirm", "requestRecovery", "recovery"} => x.s \in Sessions
    /\ x.op \in PasswordOps => x.key \in PasswordKeys
    /\ x.op \in {"otpCode", "otpAuth"} => x.key \in OTPKeys
    /\ x.op = "social" => x.key \in SocialKeys
    /\ x.op \notin {"auth", "signOut", "resend", "profile"} => x.uid \in UIDs
    /\ x.op \in {"signUp", "signIn", "recovery", "link"} => x.secret \in Passwords

\* The routes whose handler passes a label; the others are at "save" only.
OnRoute(label, op) ==
    /\ label \in AllRoutes => op = label
    /\ label \in {"getUserID", "loadUser"} =>
         op \notin {"auth", "confirm", "requestRecovery", "recovery"}
    /\ label \in {"middleware", "middleware.load"} => op \in {"initLink", "link"}
    /\ label \in {"auth.load", "auth.unbind", "auth.guest"} => op = "auth"
    /\ label \in {"guest.save", "guest.bind"} => op \in {"auth", "signOut"}
    /\ label = "signOut.remove" => op = "signOut"
    /\ label \in {"signUp.remove", "signUp.save", "signUp.bind"} => op = "signUp"
    /\ label \in {"signIn.bind", "signIn.save"} => op = "signIn"
    /\ label = "removeGuest" => op \in {"signIn", "social"}
    /\ label = "link.save" => op = "link"
    /\ label = "linkAccount" => op \in {"link", "otpAuth", "social"}
    /\ label \in {"otpAuth.remove", "otpAuth.bind", "otpAuth.save"} => op = "otpAuth"
    /\ label \in {"social.save", "social.bind"} => op = "social"
    /\ label = "save" => op \notin {"auth", "signOut", "signUp", "signIn", "social"}

\* Where the handler has a user in hand.
HoldsUser == {"guest.bind", "signUp.bind", "signIn.bind", "signIn.save", "save",
              "link.save", "linkAccount", "otpAuth.remove", "otpAuth.bind",
              "otpAuth.save", "social.save", "social.bind"}

RequestOK(label, x, l) ==
    /\ label # "idle" => ArgOK(x) /\ OnRoute(label, x.op)
    /\ label \in HoldsUser => l.u # Nil
    /\ l.UserIsGuest => l.User # Nil

\* Every variable has its type, stored users sit at their own id, and every
\* request holds what its handler needs at the label it is at.
TypeOK ==
    /\ users \in [UserIds -> User \cup {Nil}]
    /\ \A id \in UserIds : users[id] # Nil => users[id].id = id
    /\ sessions \in [Sessions -> UserIds \cup {Nil}]
    /\ issued \subseteq Sessions
    /\ pc \in [Procs -> Labels]
    /\ arg \in [Procs -> Args]
    /\ loc \in [Procs -> Locals]
    /\ \A p \in Procs : RequestOK(pc[p], arg[p], loc[p])
    /\ proved \subseteq Keys \X UIDs
    /\ authed \subseteq Sessions \X UserIds
    /\ spent \subseteq Keys \X UIDs
    /\ waived \subseteq Keys \X UIDs

Init ==
    /\ users = [id \in UserIds |-> Nil]
    /\ sessions = [s \in Sessions |-> Nil]
    /\ issued = {}
    /\ pc = [p \in Procs |-> "idle"]
    /\ arg = [p \in Procs |-> NoArg]
    /\ loc = [p \in Procs |-> NoLoc]
    /\ proved = {}
    /\ authed = {}
    /\ spent = {}
    /\ waived = {}

----------------------------------------------------------------------------
(* Ids.  The example draws 64 random bits and no two users ever meet on an *)
(* id.  An id that nothing refers to any more cannot be told from one that *)
(* was never drawn, so a small set of ids serves runs of any length.       *)

IdsOf(l) == {l.UserID, l.removeUserID} \cup
            {x.id : x \in {l.User, l.u} \ {Nil}}

Referenced == Stored(users) \cup {sessions[s] : s \in Sessions}
              \cup UNION {IdsOf(loc[p]) : p \in Procs}

FreeIds == UserIds \ Referenced

\* Bound: a route that may create a user is called only when an id is left
\* for it and for every request in service.
HasRoom == Cardinality(FreeIds) > Cardinality({p \in Procs : pc[p] # "idle"})

----------------------------------------------------------------------------
(* Control.                                                                *)

At(p, label)   == pc[p] = label
Goto(p, label) == pc' = [pc EXCEPT ![p] = label]

\* The request arrives.  The history forgets the ids nothing refers to.
Begin(p, a, label) ==
    /\ At(p, "idle")
    /\ a.op \in Routes
    /\ Goto(p, label)
    /\ arg' = [arg EXCEPT ![p] = a]
    /\ authed' = {x \in authed : x[2] \notin FreeIds}
    /\ UNCHANGED <<store, loc, proved, spent, waived>>

\* The response is sent.
Return(p) ==
    /\ Goto(p, "idle")
    /\ arg' = [arg EXCEPT ![p] = NoArg]
    /\ loc' = [loc EXCEPT ![p] = NoLoc]

Continue(p, l, label) ==
    /\ Goto(p, label)
    /\ loc' = [loc EXCEPT ![p] = l]
    /\ UNCHANGED arg

Refuse(p) == Return(p) /\ UNCHANGED <<store, history>>

\* authMiddleware lets a request through with the token of a session.  The
\* handlers of the routes below then call checkSession.  The user that the
\* middleware loads as well is left out where nobody looks at it.
BeginWithSession(p, a) ==
    /\ a.s \in issued
    /\ Begin(p, a, "getUserID")

----------------------------------------------------------------------------
(* checkSession: two accesses, and every handler goes on from the copy.    *)

GetUserID(p) ==
    /\ At(p, "getUserID")
    /\ LET id == sessions[arg[p].s]
       IN  Continue(p, [loc[p] EXCEPT !.UserID = id],
                    IF id = Nil THEN arg[p].op ELSE "loadUser")
    /\ UNCHANGED <<store, history>>

LoadUser(p) ==
    /\ At(p, "loadUser")
    /\ LET user == LoadByID(users, loc[p].UserID)
       IN  Continue(p, [loc[p] EXCEPT
                          !.User = user,
                          !.UserIsGuest = user # Nil /\ GuestUser /\ user.guest],
                    arg[p].op)
    /\ UNCHANGED <<store, history>>

\* sessionInfo.User != nil && !sessionInfo.UserIsGuest
SignedIn(p) == loc[p].User # Nil /\ ~loc[p].UserIsGuest

\* The user the request names.
Found(p) == LoadByUID(users, arg[p].key, arg[p].uid)

\* History: the client has shown, if `shown`, that it holds the identity.
Proves(p, shown) ==
    LET identity == {<<arg[p].key, arg[p].uid>>}
    IN  IF shown THEN proved' = proved \cup identity /\ waived' = waived \ identity
                 ELSE UNCHANGED <<proved, waived>>

\* History: the session has shown, if `shown`, that it may act as user id.
Authenticates(p, id, shown) ==
    authed' = IF shown THEN authed \cup {<<arg[p].s, id>>} ELSE authed

----------------------------------------------------------------------------
(* Save and Create.                                                        *)

Save(u) == ~IsDuplicate(users, u) /\ users' = Put(users, u)

\* Also for fillFields, which may refuse the request's fields just before.
SaveFails(u) == (SaveMayFail \/ IsDuplicate(users, u)) /\ UNCHANGED users

\* History: a new code is unspent once stored, a recovery code spent once the
\* password it was traded for is stored.
Spend(p) ==
    LET identity == <<arg[p].key, arg[p].uid>>
    IN  spent' = CASE arg[p].op \in {"otpCode", "requestRecovery"} ->
                        spent \ {identity}
                   [] arg[p].op = "recovery" -> spent \cup {identity}
                   [] OTHER -> spent

\* The handler's last storer call is the Save of its user.
SaveAndReturn(p) ==
    /\ At(p, "save")
    /\ \/ Save(loc[p].u) /\ Spend(p)
       \/ SaveFails(loc[p].u) /\ UNCHANGED spent
    /\ Return(p)
    /\ UNCHANGED <<sessions, issued, proved, authed, waived>>

\* The guest the session came with is dropped after a login.
RemoveGuest(p) ==
    /\ At(p, "removeGuest")
    /\ users' = RemoveByID(users, loc[p].UserID)
    /\ Return(p)
    /\ UNCHANGED <<sessions, issued, history>>

----------------------------------------------------------------------------
(* Time.                                                                   *)

LifeTime(k)    == IF k \in OTPKeys THEN OTPCodeLifeTime ELSE PasswordCodeLifeTime
ResendDelay(k) == IF k \in OTPKeys THEN OTPResendDelay ELSE PasswordResendDelay

SentAt(u, k) == u.auths[k].sentAt

\* A mutated form of CodeExpired: without a sent time a code never expires.
CodeExpiredIfSent(u, k) ==
    CodeSentTimeUser /\ SentAt(u, k) # Nil /\ SentAt(u, k) > LifeTime(k)

\* calcExpiredAt of a nil time is the zero time: expired long ago.
CodeExpired(u, k) ==
    /\ CodeSentTimeUser
    /\ SentAt(u, k) # Nil => SentAt(u, k) > LifeTime(k)

\* A mutated form of MayResend: one unit of time too early.
MayResendEarly(u, k) ==
    CodeSentTimeUser /\ SentAt(u, k) # Nil => SentAt(u, k) >= ResendDelay(k)

\* checkResendTime: a code may follow another only after the delay.
MayResend(u, k) ==
    CodeSentTimeUser /\ SentAt(u, k) # Nil => SentAt(u, k) > ResendDelay(k)

StampCode(u, k) == IF CodeSentTimeUser THEN SetCodeSentTime(u, k, 0) ELSE u
ClearStamp(u, k) == IF CodeSentTimeUser THEN SetCodeSentTime(u, k, Nil) ELSE u

AgedOrNil(u) == IF u = Nil THEN Nil ELSE Aged(u)

\* A unit of time passes, for stored users and for copies alike.
Tick ==
    /\ CodeSentTimeUser
    /\ users' = [id \in UserIds |-> AgedOrNil(users[id])]
    /\ loc' = [p \in Procs |-> [loc[p] EXCEPT !.User = AgedOrNil(@),
                                              !.u = AgedOrNil(@)]]
    /\ UNCHANGED <<sessions, issued, pc, arg, history>>

Shared(p) == GetUserID(p) \/ LoadUser(p) \/ SaveAndReturn(p) \/ RemoveGuest(p)
=============================================================================
