--------------------------- MODULE RautherProofs ---------------------------
(***************************************************************************)
(* Type correctness of Rauther and the uniqueness of identities, proved    *)
(* for any number of users, sessions, concurrent requests and methods, and *)
(* for every configuration of the modules.                                 *)
(*                                                                         *)
(* TypeOK is inductive: it says of each request in service that it holds   *)
(* what the code needs at its label (RequestOK).  Each step of a request   *)
(* is shown to be Sound: it makes one call to the storer at most, and      *)
(* leaves the sessions, the requests and the history of their types.       *)
(***************************************************************************)
EXTENDS AccountSafety, ModelLemmas

SessionsOK == /\ sessions \in [Sessions -> UserIds \cup {Nil}]
              /\ issued \subseteq Sessions

ControlOK == /\ pc \in [Procs -> Labels]
             /\ arg \in [Procs -> Args]
             /\ loc \in [Procs -> Locals]
             /\ \A p \in Procs : RequestOK(pc[p], arg[p], loc[p])

HistoryOK == /\ proved \subseteq Keys \X UIDs
             /\ authed \subseteq Sessions \X UserIds
             /\ spent \subseteq Keys \X UIDs
             /\ waived \subseteq Keys \X UIDs

\* The one call a step may make to the storer, loads aside.
StorerCall == \/ UNCHANGED users
              \/ \E u \in User : Save(u)
              \/ \E id : users' = RemoveByID(users, id)

Sound == StorerCall /\ SessionsOK' /\ ControlOK' /\ HistoryOK'

\* The parts of the type invariant.
LEMMA TypeParts ==
  /\ TypeOK <=> Storer(users) /\ SessionsOK /\ ControlOK /\ HistoryOK
  /\ TypeOK' <=> Storer(users') /\ SessionsOK' /\ ControlOK' /\ HistoryOK'
  BY DEF TypeOK, Storer, SessionsOK, ControlOK, HistoryOK

\* What Save and RemoveByID preserve is preserved by every sound step.
LEMMA SoundSteps ==
  ASSUME Storer(users), StorerCall
  PROVE  /\ Storer(users')
         /\ Unique(users) => Unique(users')
  <1>1. CASE UNCHANGED users
    BY <1>1
  <1>2. ASSUME NEW u \in User, Save(u)
        PROVE  Storer(users') /\ (Unique(users) => Unique(users'))
    BY <1>2, StorerSteps, PutUnique DEF Save
  <1>3. ASSUME NEW id, users' = RemoveByID(users, id)
        PROVE  Storer(users') /\ (Unique(users) => Unique(users'))
    BY <1>3, StorerSteps, RemoveUnique
  <1> QED BY <1>1, <1>2, <1>3 DEF StorerCall

----------------------------------------------------------------------------
(* Requests.                                                               *)

\* What a handler finds in its parameters, its locals and the storer.
LEMMA RequestFacts ==
  ASSUME TypeOK, NEW p \in Procs
  PROVE  /\ arg[p] \in Args /\ loc[p] \in Locals
         /\ RequestOK(pc[p], arg[p], loc[p])
         /\ loc[p].UserID \in UserIds \cup {Nil}
         /\ loc[p].User \in User \cup {Nil} /\ loc[p].u \in User \cup {Nil}
         /\ loc[p].removeUserID \in UserIds \cup {Nil}
         /\ Found(p) \in User \cup {Nil}
         /\ \A id : LoadByID(users, id) \in User \cup {Nil}
  <1>1. Storer(users) /\ ControlOK
    BY TypeParts
  <1>2. Found(p) \in User \cup {Nil} /\ \A id : LoadByID(users, id) \in User \cup {Nil}
    BY <1>1, LoadType DEF Found
  <1> QED BY <1>1, <1>2 DEF ControlOK, Locals

\* A user is no nil, and its id is one of the storer's.
LEMMA UserFacts ==
  ASSUME NEW u \in User
  PROVE  u # Nil /\ u.id \in UserIds /\ \A k \in Keys : GetUID(u, k) \in UIDs \cup {Empty}
  BY NilIsNoValue DEF User, Identity, GetUID

\* A handler that goes on to a label with what the label needs
LEMMA ContinueOK ==
  ASSUME TypeOK, NEW p \in Procs, NEW l \in Locals, NEW label \in Labels,
         RequestOK(label, arg[p], l), Continue(p, l, label)
  PROVE  ControlOK'
  <1>1. ControlOK
    BY TypeParts
  <1>2. /\ pc' = [pc EXCEPT ![p] = label]
        /\ loc' = [loc EXCEPT ![p] = l]
        /\ arg' = arg
    BY DEF Continue, Goto
  <1>3. \A q \in Procs : RequestOK(pc'[q], arg'[q], loc'[q])
    BY <1>1, <1>2 DEF ControlOK
  <1> QED BY <1>1, <1>2, <1>3 DEF ControlOK

\* or returns leaves the requests well typed.
LEMMA ReturnOK ==
  ASSUME TypeOK, NEW p \in Procs, Return(p)
  PROVE  ControlOK'
  <1>1. ControlOK
    BY TypeParts
  <1>2. /\ pc' = [pc EXCEPT ![p] = "idle"]
        /\ loc' = [loc EXCEPT ![p] = NoLoc]
        /\ arg' = [arg EXCEPT ![p] = NoArg]
    BY DEF Return, Goto
  <1>3. NoArg \in Args /\ NoLoc \in Locals
    BY DEF NoArg, NoLoc, Args, Locals
  <1>4. RequestOK("idle", NoArg, NoLoc)
    BY DEF RequestOK, NoLoc, HoldsUser
  <1>5. \A q \in Procs : RequestOK(pc'[q], arg'[q], loc'[q])
    BY <1>1, <1>2, <1>4 DEF ControlOK
  <1> QED BY <1>1, <1>2, <1>3, <1>5 DEF ControlOK, Labels

\* Steps that only read, or end the request.
LEMMA ReadSound ==
  ASSUME TypeOK, UNCHANGED <<store, history>>, ControlOK'
  PROVE  Sound
  BY TypeParts DEF Sound, StorerCall, SessionsOK, HistoryOK, store, history

LEMMA RefuseSound ==
  ASSUME TypeOK, NEW p \in Procs, Refuse(p)
  PROVE  Sound
  BY ReturnOK, ReadSound DEF Refuse

\* The labels a request may begin at.
FirstLabels == {"middleware", "getUserID", "auth", "confirm", "requestRecovery", "recovery"}

\* A request arrives with the parameters its route needs.
LEMMA BeginSound ==
  ASSUME TypeOK, NEW p \in Procs, NEW a \in Args, NEW label \in FirstLabels,
         ArgOK(a), OnRoute(label, a.op), Begin(p, a, label)
  PROVE  Sound
  <1>1. ControlOK /\ SessionsOK /\ HistoryOK
    BY TypeParts
  <1>2. /\ pc' = [pc EXCEPT ![p] = label]
        /\ arg' = [arg EXCEPT ![p] = a]
        /\ loc' = loc
        /\ authed' \subseteq authed
        /\ UNCHANGED <<users, sessions, issued, proved, spent, waived>>
    BY DEF Begin, Goto, store
  <1>3. RequestOK(label, a, loc[p])
    BY <1>1 DEF ControlOK, RequestOK, HoldsUser, FirstLabels
  <1>4. \A q \in Procs : RequestOK(pc'[q], arg'[q], loc'[q])
    BY <1>1, <1>2, <1>3 DEF ControlOK
  <1>5. label \in Labels
    BY DEF FirstLabels, Labels, AllRoutes
  <1> QED BY <1>1, <1>2, <1>4, <1>5
          DEF Sound, StorerCall, SessionsOK, ControlOK, HistoryOK

----------------------------------------------------------------------------
(* One lemma for each group of actions, with a step for each action.       *)

\* Steps at a label, on the local variables the label guarantees.
LEMMA LabelFacts ==
  ASSUME TypeOK, NEW p \in Procs, pc[p] # "idle"
  PROVE  /\ ArgOK(arg[p]) /\ OnRoute(pc[p], arg[p].op)
         /\ loc[p].UserIsGuest => loc[p].User \in User
         /\ pc[p] \in HoldsUser => loc[p].u \in User
  BY RequestFacts DEF RequestOK

\* checkSession, and the last calls of handlers.
LEMMA SharedSound ==
  ASSUME TypeOK, NEW p \in Procs, Shared(p)
  PROVE  Sound
  <1>1. CASE GetUserID(p)
    <2>1. pc[p] = "getUserID"
      BY <1>1 DEF GetUserID, At
    <2> DEFINE id == sessions[arg[p].s]
               l == [loc[p] EXCEPT !.UserID = id]
               label == IF id = Nil THEN arg[p].op ELSE "loadUser"
    <2>2. ArgOK(arg[p]) /\ OnRoute("getUserID", arg[p].op) /\ arg[p].s \in Sessions
      BY <2>1, LabelFacts DEF OnRoute, ArgOK
    <2>3. l \in Locals
      BY <2>2, RequestFacts, TypeParts DEF Locals, SessionsOK
    <2>4. label \in Labels /\ RequestOK(label, arg[p], l)
      BY <2>2, RequestFacts DEF Labels, ArgOK, OnRoute, AllRoutes, RequestOK, HoldsUser, Locals
    <2> QED BY <1>1, <2>3, <2>4, ContinueOK, ReadSound DEF GetUserID
  <1>2. CASE LoadUser(p)
    <2>1. pc[p] = "loadUser"
      BY <1>2 DEF LoadUser, At
    <2> DEFINE user == LoadByID(users, loc[p].UserID)
               l == [loc[p] EXCEPT !.User = user,
                                   !.UserIsGuest = user # Nil /\ GuestUser /\ user.guest]
    <2>2. ArgOK(arg[p]) /\ OnRoute("loadUser", arg[p].op)
      BY <2>1, LabelFacts
    <2>3. user \in User \cup {Nil}
      BY RequestFacts
    <2>4. (user # Nil /\ GuestUser /\ user.guest) \in BOOLEAN
      OBVIOUS
    <2>5. l \in Locals
      BY <2>3, <2>4, RequestFacts DEF Locals
    <2>6. l.User = user /\ l.UserIsGuest = (user # Nil /\ GuestUser /\ user.guest)
      BY RequestFacts DEF Locals
    <2>7. arg[p].op \in Labels \ {"idle"} /\ arg[p].op \notin HoldsUser
          /\ OnRoute(arg[p].op, arg[p].op)
      BY <2>2 DEF Labels, ArgOK, OnRoute, AllRoutes, HoldsUser
    <2>8. RequestOK(arg[p].op, arg[p], l)
      BY <2>2, <2>3, <2>6, <2>7 DEF RequestOK
    <2> QED BY <1>2, <2>5, <2>7, <2>8, ContinueOK, ReadSound DEF LoadUser
  <1>3. CASE SaveAndReturn(p)
    <2>1. pc[p] = "save"
      BY <1>3 DEF SaveAndReturn, At
    <2>2. loc[p].u \in User /\ ArgOK(arg[p]) /\ arg[p] \in Args
      BY <2>1, LabelFacts, RequestFacts DEF HoldsUser
    <2>3. StorerCall
      BY <1>3, <2>2 DEF SaveAndReturn, SaveFails, StorerCall
    <2>4. spent' \subseteq Keys \X UIDs
      BY <1>3, <2>2, TypeParts DEF SaveAndReturn, Spend, HistoryOK, ArgOK, PasswordOps, Keys
    <2>5. ControlOK'
      BY <1>3, ReturnOK DEF SaveAndReturn
    <2> QED BY <1>3, <2>3, <2>4, <2>5, TypeParts
            DEF SaveAndReturn, Sound, SessionsOK, HistoryOK
  <1>4. CASE RemoveGuest(p)
    <2>1. ControlOK'
      BY <1>4, ReturnOK DEF RemoveGuest
    <2>2. StorerCall
      BY <1>4 DEF RemoveGuest, StorerCall
    <2> QED BY <1>4, <2>1, <2>2, TypeParts DEF RemoveGuest, Sound, SessionsOK, HistoryOK, history
  <1> QED BY <1>1, <1>2, <1>3, <1>4 DEF Shared

\* A handler goes on as it is,
LEMMA PassOn ==
  ASSUME TypeOK, NEW p \in Procs, pc[p] # "idle",
         NEW label \in Labels, OnRoute(label, arg[p].op),
         label \in HoldsUser => pc[p] \in HoldsUser,
         Continue(p, loc[p], label)
  PROVE  ControlOK'
  <1>1. RequestOK(label, arg[p], loc[p])
    BY RequestFacts DEF RequestOK
  <1> QED BY <1>1, RequestFacts, ContinueOK

\* with a user in hand,
LEMMA PassUser ==
  ASSUME TypeOK, NEW p \in Procs, pc[p] # "idle", NEW u \in User,
         NEW label \in Labels, OnRoute(label, arg[p].op),
         Continue(p, [loc[p] EXCEPT !.u = u], label)
  PROVE  ControlOK'
  <1> DEFINE l == [loc[p] EXCEPT !.u = u]
  <1>1. l \in Locals /\ l.u = u /\ l.User = loc[p].User /\ l.UserIsGuest = loc[p].UserIsGuest
    BY RequestFacts DEF Locals
  <1>2. RequestOK(label, arg[p], l)
    BY <1>1, RequestFacts, UserFacts DEF RequestOK
  <1> QED BY <1>1, <1>2, ContinueOK

\* or with a user in hand and one to remove.
LEMMA PassTwo ==
  ASSUME TypeOK, NEW p \in Procs, pc[p] # "idle", NEW u \in User,
         NEW id \in UserIds \cup {Nil},
         NEW label \in Labels, OnRoute(label, arg[p].op),
         Continue(p, [loc[p] EXCEPT !.u = u, !.removeUserID = id], label)
  PROVE  ControlOK'
  <1> DEFINE l == [loc[p] EXCEPT !.u = u, !.removeUserID = id]
  <1>1. l \in Locals /\ l.u = u /\ l.User = loc[p].User /\ l.UserIsGuest = loc[p].UserIsGuest
    BY RequestFacts DEF Locals
  <1>2. RequestOK(label, arg[p], l)
    BY <1>1, RequestFacts, UserFacts DEF RequestOK
  <1> QED BY <1>1, <1>2, ContinueOK

\* Binding a session to a user, or to none.
LEMMA BindOK ==
  ASSUME TypeOK, NEW s \in Sessions, NEW id \in UserIds \cup {Nil},
         sessions' = [sessions EXCEPT ![s] = id], issued' \subseteq issued \cup {s}
  PROVE  SessionsOK'
  BY TypeParts DEF SessionsOK

\* What is left alone keeps its type.
LEMMA Untouched ==
  ASSUME TypeOK
  PROVE  /\ UNCHANGED <<sessions, issued>> => SessionsOK'
         /\ UNCHANGED history => HistoryOK'
         /\ UNCHANGED users => StorerCall
  BY TypeParts DEF SessionsOK, HistoryOK, StorerCall, history

\* auth and signOut.
LEMMA SessionSound ==
  ASSUME TypeOK, NEW p \in Procs, SessionStep(p)
  PROVE  Sound
  <1>1. CASE AuthBegin(p)
    <2>1. PICK s \in Sessions : Begin(p, [NoArg EXCEPT !.op = "auth", !.s = s], "auth")
      BY <1>1 DEF AuthBegin
    <2> DEFINE a == [NoArg EXCEPT !.op = "auth", !.s = s]
    <2>2. a \in Args /\ ArgOK(a) /\ OnRoute("auth", a.op)
      BY DEF NoArg, Args, AllRoutes, PasswordOps, ArgOK, OnRoute
    <2> QED BY <2>1, <2>2, BeginSound DEF FirstLabels
  <1>2. CASE AuthLoadSession(p)
    <2>1. pc[p] = "auth" /\ ArgOK(arg[p]) /\ OnRoute("auth", arg[p].op)
      BY <1>2, LabelFacts DEF AuthLoadSession, At
    <2>2. arg[p].s \in Sessions /\ arg[p].op = "auth"
      BY <2>1 DEF ArgOK, OnRoute, AllRoutes
    <2> DEFINE id == sessions[arg[p].s]
               l == [loc[p] EXCEPT !.UserID = id]
               label == IF id = Nil THEN "auth.guest" ELSE "auth.load"
    <2>3. l \in Locals
      BY <2>2, RequestFacts, TypeParts DEF Locals, SessionsOK
    <2>4. label \in Labels /\ RequestOK(label, arg[p], l)
      BY <2>1, <2>2, RequestFacts DEF Labels, OnRoute, AllRoutes, RequestOK, HoldsUser, Locals
    <2> QED BY <1>2, <2>3, <2>4, ContinueOK, ReadSound DEF AuthLoadSession
  <1>3. CASE AuthLoadUser(p)
    <2>1. pc[p] = "auth.load" /\ arg[p].op = "auth"
      BY <1>3, LabelFacts DEF AuthLoadUser, At, OnRoute
    <2>2. PICK label \in {"auth.unbind", "auth.guest"} : Continue(p, loc[p], label)
      BY <1>3 DEF AuthLoadUser
    <2>3. label \in Labels /\ OnRoute(label, arg[p].op) /\ label \notin HoldsUser
      BY <2>1 DEF Labels, OnRoute, AllRoutes, HoldsUser
    <2> QED BY <1>3, <2>1, <2>2, <2>3, PassOn, ReadSound DEF AuthLoadUser
  <1>4. CASE AuthUnbind(p)
    <2>1. pc[p] = "auth.unbind" /\ arg[p].op = "auth" /\ arg[p].s \in Sessions
      BY <1>4, LabelFacts DEF AuthUnbind, At, OnRoute, ArgOK
    <2>2. SessionsOK'
      BY <1>4, <2>1, BindOK DEF AuthUnbind
    <2>3. ControlOK'
      BY <1>4, <2>1, PassOn DEF AuthUnbind, Labels, OnRoute, AllRoutes, HoldsUser
    <2> QED BY <1>4, <2>2, <2>3, Untouched DEF AuthUnbind, Sound
  <1>5. CASE AuthCreateGuest(p)
    <2>1. pc[p] = "auth.guest" /\ arg[p].op = "auth"
      BY <1>5, LabelFacts DEF AuthCreateGuest, At, OnRoute
    <2>2. ControlOK'
      BY <1>5, <2>1, PassOn DEF AuthCreateGuest, Labels, OnRoute, AllRoutes, HoldsUser
    <2> QED BY <1>5, <2>2, ReadSound DEF AuthCreateGuest
  <1>6. CASE AuthNoGuest(p)
    <2>1. pc[p] = "auth.guest" /\ arg[p].op = "auth" /\ arg[p].s \in Sessions
      BY <1>6, LabelFacts DEF AuthNoGuest, At, OnRoute, ArgOK
    <2>2. SessionsOK'
      BY <1>6, <2>1, TypeParts DEF AuthNoGuest, SessionsOK
    <2> QED BY <1>6, <2>2, ReturnOK, Untouched DEF AuthNoGuest, Sound
  <1>7. CASE CreateGuestUser(p)
    <2>1. pc[p] = "guest.save" /\ arg[p].op \in {"auth", "signOut"}
      BY <1>7, LabelFacts DEF CreateGuestUser, At, OnRoute
    <2>2. PICK id \in FreeIds :
            LET u == SetGuest(NewUser(id), TRUE)
            IN  \/ /\ Save(u)
                   /\ Continue(p, [loc[p] EXCEPT !.u = u], "guest.bind")
                \/ SaveFails(u) /\ Return(p)
      BY <1>7 DEF CreateGuestUser
    <2> DEFINE u == SetGuest(NewUser(id), TRUE)
    <2>3. u \in User
      BY NewUserType, SetFlagType DEF FreeIds
    <2>4. StorerCall
      BY <2>2, <2>3 DEF StorerCall, SaveFails
    <2>5. ControlOK'
      BY <2>1, <2>2, <2>3, PassUser, ReturnOK DEF Labels, OnRoute, AllRoutes
    <2> QED BY <1>7, <2>4, <2>5, Untouched DEF CreateGuestUser, Sound
  <1>8. CASE BindGuest(p)
    <2>1. pc[p] = "guest.bind" /\ arg[p].s \in Sessions /\ loc[p].u \in User
      BY <1>8, LabelFacts DEF BindGuest, At, OnRoute, ArgOK, HoldsUser
    <2>2. SessionsOK'
      BY <1>8, <2>1, UserFacts, BindOK DEF BindGuest
    <2> QED BY <1>8, <2>2, ReturnOK, Untouched DEF BindGuest, Sound
  <1>9. CASE SignOutBegin(p)
    <2>1. PICK s \in Sessions :
            Begin(p, [NoArg EXCEPT !.op = "signOut", !.s = s], "getUserID")
      BY <1>9 DEF SignOutBegin, BeginWithSession
    <2> DEFINE a == [NoArg EXCEPT !.op = "signOut", !.s = s]
    <2>2. a \in Args /\ ArgOK(a) /\ OnRoute("getUserID", a.op)
      BY DEF NoArg, Args, AllRoutes, PasswordOps, ArgOK, OnRoute
    <2> QED BY <2>1, <2>2, BeginSound DEF FirstLabels
  <1>10. CASE SignOutUnbind(p)
    <2>1. pc[p] = "signOut" /\ arg[p].s \in Sessions /\ arg[p].op = "signOut"
      BY <1>10, LabelFacts DEF SignOutUnbind, At, OnRoute, ArgOK, AllRoutes
    <2>2. SessionsOK'
      BY <1>10, <2>1, BindOK DEF SignOutUnbind
    <2>3. Return(p) \/ \E label \in {"signOut.remove", "guest.save"} : Continue(p, loc[p], label)
      BY <1>10 DEF SignOutUnbind
    <2>4. \A label \in {"signOut.remove", "guest.save"} :
            label \in Labels /\ OnRoute(label, arg[p].op) /\ label \notin HoldsUser
      BY <2>1 DEF Labels, OnRoute, AllRoutes, HoldsUser
    <2>5. ControlOK'
      BY <2>1, <2>3, <2>4, PassOn, ReturnOK
    <2> QED BY <1>10, <2>2, <2>5, Untouched DEF SignOutUnbind, Sound
  <1>11. CASE SignOutRemoveGuest(p)
    <2>1. pc[p] = "signOut.remove" /\ arg[p].op = "signOut"
      BY <1>11, LabelFacts DEF SignOutRemoveGuest, At, OnRoute
    <2>2. ControlOK'
      BY <1>11, <2>1, PassOn DEF SignOutRemoveGuest, Labels, OnRoute, AllRoutes, HoldsUser
    <2>3. StorerCall
      BY <1>11 DEF SignOutRemoveGuest, StorerCall
    <2> QED BY <1>11, <2>2, <2>3, Untouched DEF SignOutRemoveGuest, Sound
  <1> QED BY <1>1, <1>2, <1>3, <1>4, <1>5, <1>6, <1>7, <1>8, <1>9, <1>10, <1>11
          DEF SessionStep

\* The stamps of codes.
LEMMA StampType ==
  ASSUME NEW u \in User, NEW k \in Keys
  PROVE  StampCode(u, k) \in User /\ ClearStamp(u, k) \in User
  <1>1. 0 \in Ages \cup {Nil} /\ Nil \in Ages \cup {Nil}
    BY MaxAgeIsNat DEF Ages
  <1>2. SetCodeSentTime(u, k, 0) \in User /\ SetCodeSentTime(u, k, Nil) \in User
    BY <1>1, SetCodeSentTimeType
  <1> QED BY <1>2 DEF StampCode, ClearStamp

\* The parameters of a request with the key of a method, as the labels of
\* its handler find them.
LEMMA KeyFacts ==
  ASSUME TypeOK, NEW p \in Procs, pc[p] # "idle", arg[p].op \notin {"auth", "signOut", "profile"}
  PROVE  /\ arg[p].key \in Keys
         /\ arg[p].op \in PasswordOps => arg[p].key \in PasswordKeys
         /\ arg[p].op \in {"otpCode", "otpAuth"} => arg[p].key \in OTPKeys
         /\ arg[p].op # "resend" => arg[p].uid \in UIDs
         /\ arg[p].op \notin {"confirm", "requestRecovery", "recovery"} => arg[p].s \in Sessions
         /\ arg[p].op \in {"signUp", "signIn", "recovery", "link"} => arg[p].secret \in Passwords
         /\ arg[p].code \in Codes \cup {Empty}
         /\ arg[p].secret \in Passwords \cup Codes \cup {Nil}
  BY LabelFacts, RequestFacts DEF ArgOK, Args, AllRoutes, PasswordOps, Keys

\* signUp and signIn.
LEMMA PasswordSound ==
  ASSUME TypeOK, NEW p \in Procs, PasswordStep(p)
  PROVE  Sound
  <1>0. HistoryOK
    BY TypeParts
  <1>1. CASE SignUpBegin(p) \/ SignInBegin(p)
    <2>1. PICK op \in {"signUp", "signIn"}, s \in Sessions, k \in PasswordKeys,
               uid \in UIDs, pw \in Passwords :
            Begin(p, PasswordArg(op, s, k, uid, pw), "getUserID")
      BY <1>1 DEF SignUpBegin, SignInBegin, BeginWithSession
    <2> DEFINE a == PasswordArg(op, s, k, uid, pw)
    <2>2. a \in Args /\ ArgOK(a) /\ OnRoute("getUserID", a.op)
      BY DEF PasswordArg, NoArg, Args, AllRoutes, PasswordOps, ArgOK, OnRoute, Keys
    <2> QED BY <2>1, <2>2, BeginSound DEF FirstLabels
  <1>2. CASE SignUpRefuse(p) \/ SignInRefuse(p)
    BY <1>2, RefuseSound DEF SignUpRefuse, SignInRefuse
  <1>3. CASE SignUpTakeOver(p)
    <2>1. pc[p] = "signUp" /\ arg[p].op = "signUp"
      BY <1>3, LabelFacts DEF SignUpTakeOver, At, OnRoute, AllRoutes
    <2> DEFINE l == [loc[p] EXCEPT !.removeUserID = Found(p).id]
    <2>2. Found(p) \in User
      BY <1>3, RequestFacts DEF SignUpTakeOver
    <2>3. l \in Locals /\ l.User = loc[p].User /\ l.UserIsGuest = loc[p].UserIsGuest
      BY <2>2, UserFacts, RequestFacts DEF Locals
    <2>4. RequestOK("signUp.remove", arg[p], l) /\ "signUp.remove" \in Labels
      BY <2>1, <2>3, RequestFacts DEF RequestOK, OnRoute, AllRoutes, HoldsUser, Labels
    <2> QED BY <1>3, <2>3, <2>4, ContinueOK, ReadSound DEF SignUpTakeOver
  <1>4. CASE SignUpRemoveTemp(p)
    <2>1. pc[p] = "signUp.remove" /\ arg[p].op = "signUp"
      BY <1>4, LabelFacts DEF SignUpRemoveTemp, At, OnRoute
    <2>2. ControlOK'
      BY <1>4, <2>1, PassOn DEF SignUpRemoveTemp, Labels, OnRoute, AllRoutes, HoldsUser
    <2>3. StorerCall
      BY <1>4 DEF SignUpRemoveTemp, StorerCall
    <2> QED BY <1>4, <2>2, <2>3, Untouched DEF SignUpRemoveTemp, Sound
  <1>5. CASE SignUpNotFound(p)
    <2>1. pc[p] = "signUp" /\ arg[p].op = "signUp"
      BY <1>5, LabelFacts DEF SignUpNotFound, At, OnRoute, AllRoutes
    <2>2. ControlOK'
      BY <1>5, <2>1, PassOn DEF SignUpNotFound, Labels, OnRoute, AllRoutes, HoldsUser
    <2> QED BY <1>5, <2>2, ReadSound DEF SignUpNotFound
  <1>6. CASE SignUpSave(p)
    <2>1. pc[p] = "signUp.save" /\ arg[p].op = "signUp"
      BY <1>6, LabelFacts DEF SignUpSave, At, OnRoute
    <2> DEFINE k == arg[p].key
               v(base) == SetPassword(SetUID(base, k, arg[p].uid), k, arg[p].secret)
               w(base, code) == IF ConfirmableUser THEN WithConfirmCode(v(base), k, code)
                                                   ELSE v(base)
    <2>2. PICK base \in SignUpBase(p), code \in Codes :
            \/ /\ Save(w(base, code))
               /\ Continue(p, [loc[p] EXCEPT !.u = w(base, code)], "signUp.bind")
               /\ Authenticates(p, w(base, code).id, TRUE)
            \/ SaveFails(w(base, code)) /\ Return(p) /\ UNCHANGED authed
      BY <1>6 DEF SignUpSave
    <2>3. k \in Keys /\ arg[p].uid \in UIDs /\ arg[p].secret \in Passwords /\ arg[p].s \in Sessions
      BY <2>1, KeyFacts
    <2>4. base \in User
      <3>1. ASSUME loc[p].UserIsGuest PROVE SetGuest(loc[p].User, FALSE) \in User
        BY <3>1, <2>1, LabelFacts, SetFlagType
      <3>2. \A id \in FreeIds : NewUser(id) \in User
        BY NewUserType DEF FreeIds
      <3> QED BY <3>1, <3>2 DEF SignUpBase
    <2>5. SetUID(base, k, arg[p].uid) \in User
      BY <2>3, <2>4, SetUIDType
    <2>6. v(base) \in User
      BY <2>3, <2>5, SetPasswordType
    <2>7. WithConfirmCode(v(base), k, code) \in User
      BY <2>3, <2>6, SetCodeType, StampType DEF WithConfirmCode
    <2>8. w(base, code) \in User
      BY <2>6, <2>7
    <2> HIDE DEF w
    <2>9. StorerCall
      BY <2>2, <2>8 DEF StorerCall, SaveFails
    <2>10. ControlOK'
      <3>1. "signUp.bind" \in Labels /\ OnRoute("signUp.bind", arg[p].op)
        BY <2>1 DEF Labels, OnRoute, AllRoutes
      <3> QED BY <2>1, <2>2, <2>8, <3>1, PassUser, ReturnOK
    <2>11. authed' \subseteq Sessions \X UserIds
      BY <1>0, <2>2, <2>3, <2>8, UserFacts DEF HistoryOK, Authenticates
    <2> QED BY <1>0, <1>6, <2>9, <2>10, <2>11, Untouched DEF SignUpSave, Sound, HistoryOK
  <1>7. CASE SignUpBind(p)
    <2>1. pc[p] = "signUp.bind" /\ arg[p].op = "signUp" /\ loc[p].u \in User
      BY <1>7, LabelFacts DEF SignUpBind, At, OnRoute, HoldsUser
    <2>2. SessionsOK'
      BY <1>7, <2>1, KeyFacts, UserFacts, BindOK DEF SignUpBind
    <2> QED BY <1>7, <2>2, ReturnOK, Untouched DEF SignUpBind, Sound
  <1>8. CASE SignInLoad(p)
    <2>1. pc[p] = "signIn" /\ arg[p].op = "signIn"
      BY <1>8, LabelFacts DEF SignInLoad, At, OnRoute, AllRoutes
    <2>2. Found(p) \in User
      BY <1>8, RequestFacts DEF SignInLoad, SignInAccepted
    <2>3. ControlOK'
      <3>1. "signIn.bind" \in Labels /\ OnRoute("signIn.bind", arg[p].op)
        BY <2>1 DEF Labels, OnRoute, AllRoutes
      <3> QED BY <1>8, <2>1, <2>2, <3>1, PassUser DEF SignInLoad
    <2>4. authed' \subseteq Sessions \X UserIds
      BY <1>0, <1>8, <2>1, <2>2, KeyFacts, UserFacts DEF SignInLoad, HistoryOK, Authenticates
    <2> QED BY <1>0, <1>8, <2>3, <2>4, Untouched DEF SignInLoad, Sound, HistoryOK, store
  <1>9. CASE SignInBind(p)
    <2>1. pc[p] = "signIn.bind" /\ arg[p].op = "signIn" /\ loc[p].u \in User
      BY <1>9, LabelFacts DEF SignInBind, At, OnRoute, HoldsUser
    <2>2. SessionsOK'
      BY <1>9, <2>1, KeyFacts, UserFacts, BindOK DEF SignInBind
    <2>3. ControlOK'
      BY <1>9, <2>1, PassOn DEF SignInBind, Labels, OnRoute, AllRoutes, HoldsUser
    <2> QED BY <1>9, <2>2, <2>3, Untouched DEF SignInBind, Sound
  <1>10. CASE SignInSave(p)
    <2>1. pc[p] = "signIn.save" /\ arg[p].op = "signIn" /\ loc[p].u \in User
      BY <1>10, LabelFacts DEF SignInSave, At, OnRoute, HoldsUser
    <2>2. StorerCall
      BY <1>10, <2>1 DEF SignInSave, StorerCall, SaveFails
    <2>3. ControlOK'
      BY <1>10, <2>1, PassOn, ReturnOK DEF SignInSave, Labels, OnRoute, AllRoutes, HoldsUser
    <2> QED BY <1>10, <2>2, <2>3, Untouched DEF SignInSave, Sound
  <1> QED BY <1>1, <1>2, <1>3, <1>4, <1>5, <1>6, <1>7, <1>8, <1>9, <1>10
          DEF PasswordStep

\* A handler that has only read so far goes on to "save" with a new user.
LEMMA GoSave ==
  ASSUME TypeOK, NEW p \in Procs, pc[p] # "idle", NEW u \in User,
         arg[p].op \notin {"auth", "signOut", "signUp", "signIn", "social"},
         Continue(p, [loc[p] EXCEPT !.u = u], "save")
  PROVE  ControlOK'
  <1>1. "save" \in Labels /\ OnRoute("save", arg[p].op)
    BY DEF Labels, OnRoute, AllRoutes
  <1> QED BY <1>1, PassUser

\* confirm, resend, requestRecovery and recovery.
LEMMA CodeSound ==
  ASSUME TypeOK, NEW p \in Procs, CodeStep(p)
  PROVE  Sound
  <1>0. HistoryOK
    BY TypeParts
  <1>1. CASE ConfirmBegin(p) \/ RequestRecoveryBegin(p)
    <2>1. PICK op \in {"confirm", "requestRecovery"}, k \in PasswordKeys,
               uid \in UIDs, code \in Codes \cup {Empty} :
            Begin(p, CodeArg(op, k, uid, code), op)
      BY <1>1 DEF ConfirmBegin, RequestRecoveryBegin
    <2> DEFINE a == CodeArg(op, k, uid, code)
    <2>2. a \in Args /\ ArgOK(a) /\ OnRoute(op, a.op)
      BY <2>1 DEF CodeArg, NoArg, Args, AllRoutes, PasswordOps, ArgOK, OnRoute, Keys
    <2> QED BY <2>1, <2>2, BeginSound DEF FirstLabels
  <1>2. CASE ResendBegin(p)
    <2>1. PICK s \in Sessions, k \in PasswordKeys :
            Begin(p, [NoArg EXCEPT !.op = "resend", !.s = s, !.key = k], "getUserID")
      BY <1>2 DEF ResendBegin, BeginWithSession
    <2> DEFINE a == [NoArg EXCEPT !.op = "resend", !.s = s, !.key = k]
    <2>2. a \in Args /\ ArgOK(a) /\ OnRoute("getUserID", a.op)
      BY DEF NoArg, Args, AllRoutes, PasswordOps, ArgOK, OnRoute, Keys
    <2> QED BY <2>1, <2>2, BeginSound DEF FirstLabels
  <1>3. CASE ConfirmRefuse(p) \/ ResendRefuse(p) \/ RequestRecoveryRefuse(p) \/ RecoveryRefuse(p)
    BY <1>3, RefuseSound
       DEF ConfirmRefuse, ResendRefuse, RequestRecoveryRefuse, RecoveryRefuse
  <1>4. CASE ConfirmLoad(p)
    <2>1. pc[p] = "confirm" /\ arg[p].op = "confirm"
      BY <1>4, LabelFacts DEF ConfirmLoad, At, OnRoute, AllRoutes
    <2>2. Found(p) \in User /\ arg[p].key \in Keys /\ arg[p].uid \in UIDs
      BY <1>4, <2>1, KeyFacts, RequestFacts DEF ConfirmLoad, ConfirmAccepted
    <2>3. SetConfirmed(ClearStamp(Found(p), arg[p].key), arg[p].key, TRUE) \in User
      BY <2>2, StampType, SetConfirmedType
    <2>4. ControlOK'
      BY <1>4, <2>1, <2>3, GoSave DEF ConfirmLoad
    <2>5. proved' \subseteq Keys \X UIDs /\ waived' \subseteq Keys \X UIDs
      BY <1>0, <1>4, <2>2 DEF ConfirmLoad, Proves, HistoryOK
    <2> QED BY <1>0, <1>4, <2>4, <2>5, Untouched DEF ConfirmLoad, Sound, HistoryOK, store
  <1>5. CASE ResendNewCode(p)
    <2>1. pc[p] = "resend" /\ arg[p].op = "resend"
      BY <1>5, LabelFacts DEF ResendNewCode, At, OnRoute, AllRoutes
    <2>2. loc[p].User \in User /\ arg[p].key \in Keys
      BY <1>5, <2>1, KeyFacts, RequestFacts DEF ResendNewCode, ResendAccepted
    <2>3. PICK code \in Codes :
            Continue(p, [loc[p] EXCEPT !.u = SetConfirmCode(StampCode(loc[p].User, arg[p].key),
                                                            arg[p].key, code)], "save")
      BY <1>5 DEF ResendNewCode
    <2>4. SetConfirmCode(StampCode(loc[p].User, arg[p].key), arg[p].key, code) \in User
      BY <2>2, StampType, SetCodeType
    <2> QED BY <1>5, <2>1, <2>3, <2>4, GoSave, ReadSound DEF ResendNewCode
  <1>6. CASE RequestRecoveryLoad(p)
    <2>1. pc[p] = "requestRecovery" /\ arg[p].op = "requestRecovery"
      BY <1>6, LabelFacts DEF RequestRecoveryLoad, At, OnRoute, AllRoutes
    <2>2. Found(p) \in User /\ arg[p].key \in Keys
      BY <1>6, <2>1, KeyFacts, RequestFacts DEF RequestRecoveryLoad, RequestRecoveryAccepted
    <2>3. PICK code \in Codes :
            Continue(p, [loc[p] EXCEPT !.u = SetRecoveryCode(StampCode(Found(p), arg[p].key),
                                                             arg[p].key, code)], "save")
      BY <1>6 DEF RequestRecoveryLoad
    <2>4. SetRecoveryCode(StampCode(Found(p), arg[p].key), arg[p].key, code) \in User
      BY <2>2, StampType, SetCodeType
    <2> QED BY <1>6, <2>1, <2>3, <2>4, GoSave, ReadSound DEF RequestRecoveryLoad
  <1>7. CASE RecoveryLoad(p)
    <2>1. pc[p] = "recovery" /\ arg[p].op = "recovery"
      BY <1>7, LabelFacts DEF RecoveryLoad, At, OnRoute, AllRoutes
    <2>2. Found(p) \in User /\ arg[p].key \in Keys /\ arg[p].secret \in Passwords
      BY <1>7, <2>1, KeyFacts, RequestFacts DEF RecoveryLoad, RecoveryAccepted
    <2>3. NewPassword(Found(p), arg[p].key, arg[p].secret) \in User
      BY <2>2, StampType, SetPasswordType, SetCodeType DEF NewPassword
    <2> QED BY <1>7, <2>1, <2>3, GoSave, ReadSound DEF RecoveryLoad
  <1>8. CASE RecoveryBegin(p)
    <2>1. PICK k \in PasswordKeys, uid \in UIDs, code \in Codes, pw \in Passwords :
            Begin(p, [CodeArg("recovery", k, uid, code) EXCEPT !.secret = pw], "recovery")
      BY <1>8 DEF RecoveryBegin
    <2> DEFINE a == [CodeArg("recovery", k, uid, code) EXCEPT !.secret = pw]
    <2>2. a \in Args /\ ArgOK(a) /\ OnRoute("recovery", a.op)
      BY <2>1 DEF CodeArg, NoArg, Args, AllRoutes, PasswordOps, ArgOK, OnRoute, Keys
    <2> QED BY <2>1, <2>2, BeginSound DEF FirstLabels
  <1> QED BY <1>1, <1>2, <1>3, <1>4, <1>5, <1>6, <1>7, <1>8 DEF CodeStep

\* A temporary user, and what linking or merging makes of the current one.
LEMMA TempUserType ==
  ASSUME NEW id \in UserIds, NEW k \in Keys, NEW uid \in UIDs
  PROVE  TempUser(id, k, uid) \in User
  BY NewUserType, SetFlagType, SetUIDType DEF TempUser

LEMMA LinkIdentityType ==
  ASSUME NEW current \in User, NEW link \in User, NEW k \in Keys
  PROVE  LinkIdentity(current, link, k) \in User
  <1> DEFINE v == SetUID(current, k, GetUID(link, k))
             w == IF k \in PasswordKeys THEN SetPassword(v, k, link.auths[k].password) ELSE v
  <1>1. link.auths[k] \in Identity
    BY DEF User
  <1>2. v \in User
    BY UserFacts, SetUIDType
  <1>3. link.auths[k].password \in Passwords \cup Codes \cup {Empty}
    BY <1>1 DEF Identity
  <1>4. w \in User
    BY <1>2, <1>3, SetPasswordType
  <1>5. link.auths[k].confirmed \in BOOLEAN
    BY <1>1 DEF Identity
  <1> HIDE DEF w
  <1>6. SetConfirmed(w, k, link.auths[k].confirmed) \in User
    BY <1>4, <1>5, SetConfirmedType
  <1> QED BY <1>6 DEF LinkIdentity, w

LEMMA MergeIdentitiesType ==
  ASSUME NEW current \in User, NEW link \in User
  PROVE  MergeIdentities(current, link) \in User
  <1>1. ASSUME NEW k \in Keys PROVE Moved(link, k) \in Identity
    <2>1. link.auths[k] \in Identity
      BY DEF User
    <2> DEFINE password == IF k \in PasswordKeys THEN link.auths[k].password ELSE Empty
               confirmed == ConfirmableUser /\ link.auths[k].confirmed
               moved == [ZeroIdentity EXCEPT !.uid = GetUID(link, k), !.password = password,
                                             !.confirmed = confirmed]
    <2>2. confirmed \in BOOLEAN
      OBVIOUS
    <2>3. GetUID(link, k) \in UIDs \cup {Empty} /\ password \in Passwords \cup Codes \cup {Empty}
      BY <2>1 DEF Identity, GetUID
    <2>4. Moved(link, k) = moved
      BY Zenon DEF Moved
    <2> HIDE DEF password, confirmed
    <2>5. moved \in Identity
      BY <2>2, <2>3 DEF ZeroIdentity, Identity
    <2> HIDE DEF moved
    <2> QED BY <2>4, <2>5
  <1>2. \A k \in Keys : current.auths[k] \in Identity
    BY DEF User
  <1> QED BY <1>1, <1>2 DEF MergeIdentities, User

\* initLink, link and linkAccount.
LEMMA LinkSound ==
  ASSUME TypeOK, NEW p \in Procs, LinkStep(p)
  PROVE  Sound
  <1>0. HistoryOK /\ SessionsOK
    BY TypeParts
  <1>1. CASE InitLinkBegin(p)
    <2>1. PICK s \in issued, k \in PasswordKeys, uid \in UIDs :
            Begin(p, [NoArg EXCEPT !.op = "initLink", !.s = s, !.key = k, !.uid = uid],
                  "middleware")
      BY <1>1 DEF InitLinkBegin, BeginLinkRoute
    <2> DEFINE a == [NoArg EXCEPT !.op = "initLink", !.s = s, !.key = k, !.uid = uid]
    <2>2. s \in Sessions
      BY <1>0 DEF SessionsOK
    <2>3. a \in Args /\ ArgOK(a) /\ OnRoute("middleware", a.op)
      BY <2>2 DEF NoArg, Args, AllRoutes, PasswordOps, ArgOK, OnRoute, Keys
    <2> QED BY <2>1, <2>3, BeginSound DEF FirstLabels
  <1>2. CASE LinkBegin(p)
    <2>1. PICK s \in issued, k \in PasswordKeys, uid \in UIDs, pw \in Passwords,
               code \in Codes \cup {Empty}, merge, confirm \in BOOLEAN :
            Begin(p, [op |-> "link", s |-> s, key |-> k, uid |-> uid, secret |-> pw,
                      code |-> code, merge |-> merge, confirm |-> confirm], "middleware")
      BY <1>2 DEF LinkBegin, BeginLinkRoute
    <2> DEFINE a == [op |-> "link", s |-> s, key |-> k, uid |-> uid, secret |-> pw,
                     code |-> code, merge |-> merge, confirm |-> confirm]
    <2>2. s \in Sessions
      BY <1>0 DEF SessionsOK
    <2>3. a \in Args /\ ArgOK(a) /\ OnRoute("middleware", a.op)
      BY <2>2 DEF Args, AllRoutes, PasswordOps, ArgOK, OnRoute, Keys
    <2> QED BY <2>1, <2>3, BeginSound DEF FirstLabels
  <1>3. CASE InitLinkRefuse(p) \/ LinkRefuse(p) \/ LinkAccountRefuse(p)
    BY <1>3, RefuseSound DEF InitLinkRefuse, LinkRefuse, LinkAccountRefuse
  <1>4. CASE InitLinkPrepare(p)
    <2>1. pc[p] = "initLink" /\ arg[p].op = "initLink"
      BY <1>4, LabelFacts DEF InitLinkPrepare, At, OnRoute, AllRoutes
    <2>2. arg[p].key \in Keys /\ arg[p].uid \in UIDs
      BY <2>1, KeyFacts
    <2> DEFINE k == arg[p].key
               w(base, code) == IF base.auths[k].confirmed THEN base
                                ELSE StampCode(SetConfirmCode(base, k, code), k)
    <2>3. PICK base \in InitLinkUser(p), code \in Codes :
            Continue(p, [loc[p] EXCEPT !.u = w(base, code)], "save")
      BY <1>4 DEF InitLinkPrepare
    <2>4. base \in User
      BY <2>2, RequestFacts, TempUserType DEF InitLinkUser, FreeIds
    <2>5. StampCode(SetConfirmCode(base, k, code), k) \in User
      BY <2>2, <2>4, SetCodeType, StampType
    <2>6. w(base, code) \in User
      BY <2>4, <2>5
    <2> HIDE DEF w
    <2> QED BY <1>4, <2>1, <2>3, <2>6, GoSave, ReadSound DEF InitLinkPrepare
  <1>5. CASE LinkLoad(p)
    <2>1. pc[p] = "link" /\ arg[p].op = "link"
      BY <1>5, LabelFacts DEF LinkLoad, At, OnRoute, AllRoutes
    <2>2. /\ Found(p) \in User /\ arg[p].key \in Keys /\ arg[p].uid \in UIDs
          /\ arg[p].secret \in Passwords
      BY <1>5, <2>1, KeyFacts, RequestFacts DEF LinkLoad, LinkAccepted
    <2> DEFINE k == arg[p].key
               v == IF Found(p).auths[k].confirmed THEN Found(p)
                    ELSE SetConfirmed(ClearStamp(Found(p), k), k, TRUE)
               w == IF Merging(p) THEN v ELSE SetPassword(v, k, arg[p].secret)
    <2>3. v \in User
      BY <2>2, StampType, SetConfirmedType
    <2>4. w \in User
      BY <2>2, <2>3, SetPasswordType
    <2>5. Continue(p, [loc[p] EXCEPT !.u = w], "link.save")
      BY <1>5 DEF LinkLoad
    <2> HIDE DEF w
    <2>6. "link.save" \in Labels /\ OnRoute("link.save", arg[p].op)
      BY <2>1 DEF Labels, OnRoute, AllRoutes
    <2>7. ControlOK'
      BY <2>1, <2>4, <2>5, <2>6, PassUser
    <2>8. proved' \subseteq Keys \X UIDs /\ waived' \subseteq Keys \X UIDs
      BY <1>0, <1>5, <2>2 DEF LinkLoad, Proves, HistoryOK
    <2> QED BY <1>0, <1>5, <2>7, <2>8, Untouched DEF LinkLoad, Sound, HistoryOK, store
  <1>6. CASE LinkSave(p)
    <2>1. pc[p] = "link.save" /\ arg[p].op = "link" /\ loc[p].u \in User
      BY <1>6, LabelFacts DEF LinkSave, At, OnRoute, HoldsUser
    <2>2. StorerCall
      BY <1>6, <2>1 DEF LinkSave, StorerCall, SaveFails
    <2>3. ControlOK'
      BY <1>6, <2>1, PassOn, ReturnOK DEF LinkSave, Labels, OnRoute, AllRoutes, HoldsUser
    <2> QED BY <1>6, <2>2, <2>3, Untouched DEF LinkSave, Sound
  <1>7. CASE LinkAccountRemove(p)
    <2>1. pc[p] = "linkAccount" /\ arg[p].op \in {"link", "otpAuth", "social"}
      BY <1>7, LabelFacts DEF LinkAccountRemove, At, OnRoute
    <2>2. loc[p].u \in User /\ arg[p].key \in Keys
      BY <2>1, KeyFacts, LabelFacts DEF HoldsUser
    <2>3. loc[p].User \in User
      BY <1>7, RequestFacts DEF LinkAccountRemove, LinkPossible, CanLink
    <2>4. Linked(p) \in User
      BY <2>2, <2>3, LinkIdentityType, MergeIdentitiesType DEF Linked
    <2>5. PICK label \in {"social.save", "save"} :
            /\ label = "social.save" <=> arg[p].op = "social"
            /\ Continue(p, [loc[p] EXCEPT !.u = Linked(p)], label)
      BY <1>7 DEF LinkAccountRemove
    <2>6. label \in Labels /\ OnRoute(label, arg[p].op)
      BY <2>1, <2>5 DEF Labels, OnRoute, AllRoutes
    <2>7. ControlOK'
      BY <2>1, <2>4, <2>5, <2>6, PassUser
    <2>8. Dropped(p) \subseteq Keys \X UIDs
      BY <2>2, UserFacts DEF Dropped
    <2>9. waived' \subseteq Keys \X UIDs
      BY <1>0, <1>7, <2>8 DEF LinkAccountRemove, HistoryOK
    <2>10. StorerCall
      BY <1>7 DEF LinkAccountRemove, StorerCall
    <2> QED BY <1>0, <1>7, <2>7, <2>9, <2>10, Untouched
            DEF LinkAccountRemove, Sound, HistoryOK
  <1>8. CASE MiddlewareUserID(p)
    <2>1. pc[p] = "middleware"
      BY <1>8 DEF MiddlewareUserID, At
    <2>2. ArgOK(arg[p]) /\ arg[p].op \in {"initLink", "link"} /\ arg[p].s \in Sessions
      BY <2>1, LabelFacts DEF OnRoute, ArgOK
    <2> DEFINE l == [loc[p] EXCEPT !.UserID = sessions[arg[p].s]]
    <2>3. l \in Locals
      BY <1>0, <2>2, RequestFacts DEF Locals, SessionsOK
    <2>4. l.User = loc[p].User /\ l.UserIsGuest = loc[p].UserIsGuest
      BY RequestFacts DEF Locals
    <2>5. RequestOK("middleware.load", arg[p], l)
      BY <2>1, <2>2, <2>4, RequestFacts DEF RequestOK, OnRoute, AllRoutes, HoldsUser
    <2> HIDE DEF l
    <2>6. "middleware.load" \in Labels
      BY DEF Labels
    <2>7. Continue(p, l, "middleware.load") /\ UNCHANGED <<store, history>>
      BY <1>8 DEF MiddlewareUserID, l
    <2> QED BY <2>3, <2>5, <2>6, <2>7, ContinueOK, ReadSound
  <1>9. CASE UserMiddleware(p)
    <2>1. pc[p] = "middleware.load"
      BY <1>9 DEF UserMiddleware, At
    <2>2. ArgOK(arg[p]) /\ arg[p].op \in {"initLink", "link"}
      BY <2>1, LabelFacts DEF OnRoute
    <2>3. CASE Return(p)
      BY <1>9, <2>3, RefuseSound DEF UserMiddleware, Refuse
    <2>4. CASE Continue(p, NoLoc, "getUserID")
      <3>1. NoLoc \in Locals /\ RequestOK("getUserID", arg[p], NoLoc)
        BY <2>2 DEF NoLoc, Locals, RequestOK, OnRoute, AllRoutes, HoldsUser
      <3>2. "getUserID" \in Labels
        BY DEF Labels
      <3> QED BY <1>9, <2>4, <3>1, <3>2, ContinueOK, ReadSound DEF UserMiddleware
    <2> QED BY <1>9, <2>3, <2>4 DEF UserMiddleware
  <1> QED BY <1>1, <1>2, <1>3, <1>4, <1>5, <1>6, <1>7, <1>8, <1>9 DEF LinkStep

\* The user an entered one-time password stands for.
LEMMA EnteredType ==
  ASSUME TypeOK, NEW p \in Procs, OTPAccepted(p), arg[p].key \in Keys
  PROVE  /\ Found(p) \in User
         /\ Entered(p) \in User
         /\ SetConfirmed(Entered(p), arg[p].key, TRUE) \in User
  <1>1. Found(p) \in User
    BY RequestFacts DEF OTPAccepted
  <1>2. Entered(p) \in User
    BY <1>1, StampType DEF Entered
  <1> QED BY <1>1, <1>2, SetConfirmedType

\* otpCode and otpAuth.
LEMMA OTPSound ==
  ASSUME TypeOK, NEW p \in Procs, OTPStep(p)
  PROVE  Sound
  <1>0. HistoryOK
    BY TypeParts
  <1>1. CASE OTPCodeBegin(p)
    <2>1. PICK s \in Sessions, k \in OTPKeys, uid \in UIDs :
            Begin(p, [NoArg EXCEPT !.op = "otpCode", !.s = s, !.key = k, !.uid = uid],
                  "getUserID")
      BY <1>1 DEF OTPCodeBegin, BeginWithSession
    <2> DEFINE a == [NoArg EXCEPT !.op = "otpCode", !.s = s, !.key = k, !.uid = uid]
    <2>2. a \in Args /\ ArgOK(a) /\ OnRoute("getUserID", a.op)
      BY DEF NoArg, Args, AllRoutes, PasswordOps, ArgOK, OnRoute, Keys
    <2> QED BY <2>1, <2>2, BeginSound DEF FirstLabels
  <1>2. CASE OTPAuthBegin(p)
    <2>1. PICK s \in Sessions, k \in OTPKeys, uid \in UIDs, code \in Codes,
               confirm \in BOOLEAN :
            Begin(p, [NoArg EXCEPT !.op = "otpAuth", !.s = s, !.key = k, !.uid = uid,
                                   !.secret = code, !.confirm = confirm], "getUserID")
      BY <1>2 DEF OTPAuthBegin, BeginWithSession
    <2> DEFINE a == [NoArg EXCEPT !.op = "otpAuth", !.s = s, !.key = k, !.uid = uid,
                                  !.secret = code, !.confirm = confirm]
    <2>2. a \in Args /\ ArgOK(a) /\ OnRoute("getUserID", a.op)
      BY DEF NoArg, Args, AllRoutes, PasswordOps, ArgOK, OnRoute, Keys
    <2> QED BY <2>1, <2>2, BeginSound DEF FirstLabels
  <1>3. CASE OTPCodeRefuse(p) \/ OTPAuthRefuse(p)
    BY <1>3, RefuseSound DEF OTPCodeRefuse, OTPAuthRefuse
  <1>4. CASE OTPCodePrepare(p)
    <2>1. pc[p] = "otpCode" /\ arg[p].op = "otpCode"
      BY <1>4, LabelFacts DEF OTPCodePrepare, At, OnRoute, AllRoutes
    <2>2. arg[p].key \in Keys /\ arg[p].uid \in UIDs
      BY <2>1, KeyFacts
    <2>3. PICK base \in OTPCodeUser(p), code \in Codes :
            Continue(p, [loc[p] EXCEPT !.u = SetOTP(StampCode(base, arg[p].key),
                                                    arg[p].key, code)], "save")
      BY <1>4 DEF OTPCodePrepare
    <2>4. base \in User
      <3>1. \A id \in FreeIds :
              /\ TempUser(id, arg[p].key, arg[p].uid) \in User
              /\ SetUID(SetGuest(NewUser(id), GuestUser), arg[p].key, arg[p].uid) \in User
        BY <2>2, TempUserType, NewUserType, SetFlagType, SetUIDType, FlagsAreBooleans
           DEF FreeIds
      <3>2. Found(p) # Nil => Found(p) \in User /\ SetTemp(Found(p), FALSE) \in User
        BY RequestFacts, SetFlagType
      <3> QED BY <3>1, <3>2 DEF OTPCodeUser
    <2>5. SetOTP(StampCode(base, arg[p].key), arg[p].key, code) \in User
      BY <2>2, <2>4, StampType, SetPasswordType
    <2> QED BY <1>4, <2>1, <2>3, <2>5, GoSave, ReadSound DEF OTPCodePrepare
  <1>5. ASSUME OTPAuthJoinGuest(p) \/ OTPAuthReplaceGuest(p) \/ OTPAuthLogin(p)
                 \/ OTPAuthLink(p)
        PROVE  /\ pc[p] = "otpAuth" /\ arg[p].op = "otpAuth"
               /\ arg[p].key \in Keys /\ arg[p].uid \in UIDs /\ arg[p].s \in Sessions
               /\ Found(p) \in User
               /\ SetConfirmed(Entered(p), arg[p].key, TRUE) \in User
               /\ UNCHANGED <<users, sessions, issued, spent>>
               /\ proved' \subseteq Keys \X UIDs /\ waived' \subseteq Keys \X UIDs
    <2>1. /\ pc[p] = "otpAuth" /\ OTPAccepted(p) /\ UNCHANGED <<users, sessions, issued, spent>>
          /\ Proves(p, OTPMatches(p))
      BY <1>5 DEF OTPAuthJoinGuest, OTPAuthReplaceGuest, OTPAuthLogin, OTPAuthLink, At, store
    <2>2. arg[p].op = "otpAuth"
      BY <2>1, LabelFacts DEF OnRoute, AllRoutes
    <2>3. arg[p].key \in Keys /\ arg[p].uid \in UIDs /\ arg[p].s \in Sessions
      BY <2>1, <2>2, KeyFacts
    <2>4. proved' \subseteq Keys \X UIDs /\ waived' \subseteq Keys \X UIDs
      BY <1>0, <2>1, <2>3 DEF Proves, HistoryOK
    <2> QED BY <2>1, <2>2, <2>3, <2>4, EnteredType
  <1>6. CASE OTPAuthJoinGuest(p)
    <2>1. loc[p].User \in User
      BY <1>5, <1>6, LabelFacts DEF OTPAuthJoinGuest
    <2> DEFINE k == arg[p].key
               u == SetGuest(SetUID(loc[p].User, k, arg[p].uid), FALSE)
    <2>2. SetConfirmed(u, k, TRUE) \in User
      BY <1>5, <1>6, <2>1, SetUIDType, SetFlagType, SetConfirmedType
    <2>3. "otpAuth.remove" \in Labels /\ OnRoute("otpAuth.remove", arg[p].op)
      BY <1>5, <1>6 DEF Labels, OnRoute, AllRoutes
    <2>4. Continue(p, [loc[p] EXCEPT !.u = SetConfirmed(u, k, TRUE),
                                     !.removeUserID = Found(p).id], "otpAuth.remove")
      BY <1>6 DEF OTPAuthJoinGuest
    <2> HIDE DEF u
    <2>5. ControlOK'
      BY <1>5, <1>6, <2>2, <2>3, <2>4, UserFacts, PassTwo
    <2>6. authed' \subseteq Sessions \X UserIds
      <3>1. authed' \subseteq authed \cup {<<arg[p].s, loc[p].User.id>>}
        BY <1>6 DEF OTPAuthJoinGuest, Authenticates
      <3> QED BY <1>0, <1>5, <1>6, <2>1, <3>1, UserFacts DEF HistoryOK
    <2> QED BY <1>0, <1>5, <1>6, <2>5, <2>6, Untouched DEF Sound, HistoryOK
  <1>7. CASE OTPAuthReplaceGuest(p)
    <2>1. Continue(p, [loc[p] EXCEPT !.u = SetConfirmed(Entered(p), arg[p].key, TRUE),
                                     !.removeUserID = loc[p].UserID], "otpAuth.remove")
      BY <1>7 DEF OTPAuthReplaceGuest
    <2>2. "otpAuth.remove" \in Labels /\ OnRoute("otpAuth.remove", arg[p].op)
      BY <1>5, <1>7 DEF Labels, OnRoute, AllRoutes
    <2>3. ControlOK'
      BY <1>5, <1>7, <2>1, <2>2, RequestFacts, PassTwo
    <2>4. authed' \subseteq Sessions \X UserIds
      <3>1. authed' \subseteq authed \cup {<<arg[p].s, Found(p).id>>}
        BY <1>7 DEF OTPAuthReplaceGuest, Authenticates
      <3> QED BY <1>0, <1>5, <1>7, <3>1, UserFacts DEF HistoryOK
    <2> QED BY <1>0, <1>5, <1>7, <2>3, <2>4, Untouched DEF Sound, HistoryOK
  <1>8. CASE OTPAuthLogin(p)
    <2>1. Continue(p, [loc[p] EXCEPT !.u = SetConfirmed(Entered(p), arg[p].key, TRUE)],
                   "otpAuth.bind")
      BY <1>8 DEF OTPAuthLogin
    <2>2. "otpAuth.bind" \in Labels /\ OnRoute("otpAuth.bind", arg[p].op)
      BY <1>5, <1>8 DEF Labels, OnRoute, AllRoutes
    <2>3. ControlOK'
      BY <1>5, <1>8, <2>1, <2>2, PassUser
    <2>4. authed' \subseteq Sessions \X UserIds
      <3>1. authed' \subseteq authed \cup {<<arg[p].s, Found(p).id>>}
        BY <1>8 DEF OTPAuthLogin, Authenticates
      <3> QED BY <1>0, <1>5, <1>8, <3>1, UserFacts DEF HistoryOK
    <2> QED BY <1>0, <1>5, <1>8, <2>3, <2>4, Untouched DEF Sound, HistoryOK
  <1>9. CASE OTPAuthLink(p)
    <2>1. Continue(p, [loc[p] EXCEPT !.u = SetConfirmed(Entered(p), arg[p].key, TRUE)],
                   "linkAccount")
      BY <1>9 DEF OTPAuthLink
    <2>2. "linkAccount" \in Labels /\ OnRoute("linkAccount", arg[p].op)
      BY <1>5, <1>9 DEF Labels, OnRoute, AllRoutes
    <2>3. ControlOK'
      BY <1>5, <1>9, <2>1, <2>2, PassUser
    <2> QED BY <1>0, <1>5, <1>9, <2>3, Untouched DEF OTPAuthLink, Sound, HistoryOK
  <1>10. CASE OTPAuthRemove(p)
    <2>1. pc[p] = "otpAuth.remove" /\ arg[p].op = "otpAuth"
      BY <1>10, LabelFacts DEF OTPAuthRemove, At, OnRoute
    <2>2. ControlOK'
      BY <1>10, <2>1, PassOn DEF OTPAuthRemove, Labels, OnRoute, AllRoutes, HoldsUser
    <2>3. StorerCall
      BY <1>10 DEF OTPAuthRemove, StorerCall
    <2> QED BY <1>10, <2>2, <2>3, Untouched DEF OTPAuthRemove, Sound
  <1>11. CASE OTPAuthBind(p)
    <2>1. pc[p] = "otpAuth.bind" /\ arg[p].op = "otpAuth" /\ loc[p].u \in User
      BY <1>11, LabelFacts DEF OTPAuthBind, At, OnRoute, HoldsUser
    <2>2. arg[p].key \in Keys /\ arg[p].uid \in UIDs /\ arg[p].s \in Sessions
      BY <2>1, KeyFacts
    <2>3. SessionsOK'
      BY <1>11, <2>1, <2>2, UserFacts, BindOK DEF OTPAuthBind
    <2>4. ControlOK'
      BY <1>11, <2>1, PassOn DEF OTPAuthBind, Labels, OnRoute, AllRoutes, HoldsUser
    <2> QED BY <1>0, <1>11, <2>2, <2>3, <2>4, Untouched DEF OTPAuthBind, Sound, HistoryOK
  <1>12. CASE OTPAuthSave(p)
    <2>1. pc[p] = "otpAuth.save" /\ arg[p].op = "otpAuth" /\ loc[p].u \in User
      BY <1>12, LabelFacts DEF OTPAuthSave, At, OnRoute, HoldsUser
    <2>2. Consumed(loc[p].u, arg[p].key) \in User
      BY <2>1, KeyFacts, SetPasswordType DEF Consumed
    <2>3. StorerCall
      BY <1>12, <2>2 DEF OTPAuthSave, StorerCall, SaveFails
    <2> QED BY <1>12, <2>3, ReturnOK, Untouched DEF OTPAuthSave, Sound
  <1> QED BY <1>1, <1>2, <1>3, <1>4, <1>6, <1>7, <1>8, <1>9, <1>10, <1>11, <1>12
          DEF OTPStep

\* social.
LEMMA SocialSound ==
  ASSUME TypeOK, NEW p \in Procs, SocialStep(p)
  PROVE  Sound
  <1>0. HistoryOK
    BY TypeParts
  <1>1. CASE SocialBegin(p)
    <2>1. PICK s \in Sessions, k \in SocialKeys, uid \in UIDs, confirm \in BOOLEAN :
            Begin(p, [NoArg EXCEPT !.op = "social", !.s = s, !.key = k, !.uid = uid,
                                   !.confirm = confirm], "getUserID")
      BY <1>1 DEF SocialBegin, BeginWithSession
    <2> DEFINE a == [NoArg EXCEPT !.op = "social", !.s = s, !.key = k, !.uid = uid,
                                  !.confirm = confirm]
    <2>2. a \in Args /\ ArgOK(a) /\ OnRoute("getUserID", a.op)
      BY DEF NoArg, Args, AllRoutes, PasswordOps, ArgOK, OnRoute, Keys
    <2> QED BY <2>1, <2>2, BeginSound DEF FirstLabels
  <1>2. CASE SocialRefuse(p)
    BY <1>2, RefuseSound DEF SocialRefuse
  <1>3. CASE SocialLoad(p)
    <2>1. pc[p] = "social" /\ arg[p].op = "social"
      BY <1>3, LabelFacts DEF SocialLoad, At, OnRoute, AllRoutes
    <2>2. arg[p].key \in Keys /\ arg[p].uid \in UIDs /\ arg[p].s \in Sessions
      BY <2>1, KeyFacts
    <2>3. PICK u \in SocialUser(p) :
            /\ Continue(p, [loc[p] EXCEPT !.u = u],
                        IF SignedIn(p) THEN "linkAccount" ELSE "social.save")
            /\ Authenticates(p, u.id, ~SignedIn(p))
      BY <1>3 DEF SocialLoad
    <2>4. u \in User
      <3>1. ASSUME NEW id \in UserIds, NEW link \in BOOLEAN
            PROVE  NewSocialUser(id, arg[p].key, arg[p].uid, link) \in User
        BY <2>2, NewUserType, SetFlagType, SetUIDType, SetConfirmedType DEF NewSocialUser
      <3>2. SignedIn(p) \in BOOLEAN
        BY DEF SignedIn
      <3> QED BY <3>1, <3>2, RequestFacts DEF SocialUser, FreeIds
    <2>5. \A label \in {"linkAccount", "social.save"} :
            label \in Labels /\ OnRoute(label, arg[p].op)
      BY <2>1 DEF Labels, OnRoute, AllRoutes
    <2>6. ControlOK'
      BY <2>1, <2>3, <2>4, <2>5, PassUser
    <2>7. authed' \subseteq Sessions \X UserIds
      BY <1>0, <2>2, <2>3, <2>4, UserFacts DEF Authenticates, HistoryOK
    <2>8. proved' \subseteq Keys \X UIDs /\ waived' \subseteq Keys \X UIDs
      BY <1>0, <1>3, <2>2 DEF SocialLoad, Proves, HistoryOK
    <2> QED BY <1>0, <1>3, <2>6, <2>7, <2>8, Untouched DEF SocialLoad, Sound, HistoryOK, store
  <1>4. CASE SocialSave(p)
    <2>1. pc[p] = "social.save" /\ arg[p].op = "social" /\ loc[p].u \in User
      BY <1>4, LabelFacts DEF SocialSave, At, OnRoute, HoldsUser
    <2>2. StorerCall
      BY <1>4, <2>1 DEF SocialSave, StorerCall, SaveFails
    <2>3. ControlOK'
      BY <1>4, <2>1, PassOn, ReturnOK DEF SocialSave, Labels, OnRoute, AllRoutes, HoldsUser
    <2> QED BY <1>4, <2>2, <2>3, Untouched DEF SocialSave, Sound
  <1>5. CASE SocialBind(p)
    <2>1. pc[p] = "social.bind" /\ arg[p].op = "social" /\ loc[p].u \in User
      BY <1>5, LabelFacts DEF SocialBind, At, OnRoute, HoldsUser
    <2>2. SessionsOK'
      BY <1>5, <2>1, KeyFacts, UserFacts, BindOK DEF SocialBind
    <2>3. ControlOK'
      BY <1>5, <2>1, PassOn, ReturnOK DEF SocialBind, Labels, OnRoute, AllRoutes, HoldsUser
    <2> QED BY <1>5, <2>2, <2>3, Untouched DEF SocialBind, Sound
  <1> QED BY <1>1, <1>2, <1>3, <1>4, <1>5 DEF SocialStep

\* Time ages the codes of stored users and of the copies requests hold, and
\* leaves everything else.
LEMMA TickTyped ==
  ASSUME TypeOK, Tick
  PROVE  TypeOK' /\ (Unique(users) => Unique(users'))
  <1>1. Storer(users) /\ SessionsOK /\ ControlOK /\ HistoryOK
    BY TypeParts
  <1>2. users' = [id \in UserIds |-> IF users[id] = Nil THEN Nil ELSE Aged(users[id])]
    BY DEF Tick, AgedOrNil
  <1>3. Storer(users') /\ (Unique(users) => Unique(users'))
    BY <1>1, <1>2, StorerSteps, AgedUnique
  <1>4. \A u \in User \cup {Nil} : /\ AgedOrNil(u) \in User \cup {Nil}
                                   /\ AgedOrNil(u) = Nil => u = Nil
    BY AgedType, UserFacts DEF AgedOrNil
  <1>5. ASSUME NEW p \in Procs
        PROVE  /\ loc'[p] \in Locals
               /\ RequestOK(pc[p], arg[p], loc'[p])
    <2>1. loc'[p] = [loc[p] EXCEPT !.User = AgedOrNil(@), !.u = AgedOrNil(@)]
      BY DEF Tick
    <2>2. loc[p] \in Locals
      BY RequestFacts
    <2>3. /\ loc'[p].User = AgedOrNil(loc[p].User)
          /\ loc'[p].u = AgedOrNil(loc[p].u)
          /\ loc'[p].UserIsGuest = loc[p].UserIsGuest
      BY <2>1, <2>2 DEF Locals
    <2>4. loc'[p] \in Locals
      BY <1>4, <2>1, <2>2 DEF Locals
    <2>5. RequestOK(pc[p], arg[p], loc'[p])
      BY <1>4, <2>3, RequestFacts DEF RequestOK
    <2> QED BY <2>4, <2>5
  <1>6. ControlOK'
    <2>1. pc' = pc /\ arg' = arg /\ loc' = [p \in Procs |-> loc'[p]]
      BY DEF Tick
    <2> QED BY <1>1, <1>5, <2>1 DEF ControlOK
  <1>7. SessionsOK' /\ HistoryOK'
    BY <1>1 DEF Tick, SessionsOK, HistoryOK, history
  <1> QED BY <1>3, <1>6, <1>7, TypeParts

\* The example's profile.
LEMMA ProfileSound ==
  ASSUME TypeOK, NEW p \in Procs, ProfileStep(p)
  PROVE  Sound
  <1>1. CASE ProfileBegin(p)
    <2>1. PICK s \in Sessions :
            Begin(p, [NoArg EXCEPT !.op = "profile", !.s = s], "getUserID")
      BY <1>1 DEF ProfileBegin, BeginWithSession
    <2> DEFINE a == [NoArg EXCEPT !.op = "profile", !.s = s]
    <2>2. a \in Args /\ ArgOK(a) /\ OnRoute("getUserID", a.op)
      BY DEF NoArg, Args, AllRoutes, PasswordOps, ArgOK, OnRoute
    <2> QED BY <2>1, <2>2, BeginSound DEF FirstLabels
  <1>2. CASE ProfileRefuse(p)
    BY <1>2, RefuseSound DEF ProfileRefuse
  <1>3. CASE UpdateProfile(p)
    <2>1. pc[p] = "profile" /\ arg[p].op = "profile"
      BY <1>3, LabelFacts DEF UpdateProfile, At, OnRoute, AllRoutes
    <2>2. loc[p].User \in User
      BY <1>3, RequestFacts DEF UpdateProfile
    <2>3. "save" \in Labels /\ OnRoute("save", arg[p].op)
      BY <2>1 DEF Labels, OnRoute, AllRoutes
    <2>4. ControlOK'
      BY <1>3, <2>1, <2>2, <2>3, PassUser DEF UpdateProfile
    <2> QED BY <1>3, <2>4, ReadSound DEF UpdateProfile
  <1> QED BY <1>1, <1>2, <1>3 DEF ProfileStep

\* Every step of a request is sound.
LEMMA StepSound ==
  ASSUME TypeOK, NEW p \in Procs, Step(p)
  PROVE  Sound
  BY SharedSound, SessionSound, PasswordSound, CodeSound, LinkSound, OTPSound,
     SocialSound, ProfileSound DEF Step

----------------------------------------------------------------------------
(* The theorems.                                                           *)

\* The program starts with no user, no session and no request.
LEMMA InitTyped == Init => TypeOK /\ Unique(users)
  <1> SUFFICES ASSUME Init PROVE TypeOK /\ Unique(users)
    OBVIOUS
  <1>1. NoArg \in Args /\ NoLoc \in Locals
    BY DEF NoArg, NoLoc, Args, Locals
  <1>2. RequestOK("idle", NoArg, NoLoc)
    BY DEF RequestOK, NoLoc, HoldsUser
  <1>3. "idle" \in Labels
    BY DEF Labels
  <1> QED BY <1>1, <1>2, <1>3 DEF Init, TypeOK, Unique, Stored

\* A step of the program keeps the types and the identities unique.
LEMMA NextTyped == TypeOK /\ [Next]_vars => TypeOK' /\ (Unique(users) => Unique(users'))
  <1> SUFFICES ASSUME TypeOK, [Next]_vars
               PROVE  TypeOK' /\ (Unique(users) => Unique(users'))
    OBVIOUS
  <1>1. CASE Tick
    BY <1>1, TickTyped
  <1>2. ASSUME NEW p \in Procs, Step(p)
        PROVE  TypeOK' /\ (Unique(users) => Unique(users'))
    BY <1>2, StepSound, SoundSteps, TypeParts DEF Sound
  <1>3. CASE UNCHANGED vars
    <2>1. /\ UNCHANGED <<users, sessions, issued, pc, arg, loc>>
          /\ UNCHANGED <<proved, authed, spent, waived>>
      BY <1>3 DEF vars
    <2> QED BY <2>1, TypeParts DEF SessionsOK, ControlOK, HistoryOK
  <1> QED BY <1>1, <1>2, <1>3 DEF Next

\* Every reachable state is well typed, and every request in service holds
\* what the code takes for granted at its label: a handler that passes a user
\* on has one, and the flag for a guest is never set without a user.
THEOREM TypeCorrect == Spec => []TypeOK
  <1>1. Init => TypeOK
    BY InitTyped
  <1>2. TypeOK /\ [Next]_vars => TypeOK'
    BY NextTyped
  <1> QED BY <1>1, <1>2, PTL DEF Spec

\* No two accounts ever hold the same identity, whatever requests are served
\* at the same time and however stale the copies they save.
THEOREM IdentitiesUnique == Spec => []UniqueIdentities
  <1>1. Init => UniqueIdentities
    BY InitTyped DEF UniqueIdentities
  <1>2. TypeOK /\ UniqueIdentities /\ [Next]_vars => UniqueIdentities'
    BY NextTyped DEF UniqueIdentities
  <1> QED BY <1>1, <1>2, TypeCorrect, PTL DEF Spec
=============================================================================
