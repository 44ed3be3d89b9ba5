-------------------------- MODULE SequentialProofs --------------------------
(***************************************************************************)
(* What Rauther promises when requests are served one after the other, for *)
(* any number of users, sessions and methods, and, but for one theorem,     *)
(* whether or not Save fails.                                              *)
(*                                                                         *)
(* Alone, a request works on copies that still are what is stored: that is *)
(* what the invariant says, label by label, and what two requests at once  *)
(* break.                                                                  *)
(*                                                                         *)
(* A second invariant, on top of the first, is about codes: of an identity *)
(* whose last code has been taken, nobody keeps one.  For the one-time     *)
(* passwords it needs that Save does not fail.                             *)
(***************************************************************************)
EXTENDS AccountSafety, RautherProofs

\* One request is in service at a time.
OneAtATime == \A p, q \in Procs : p = q

----------------------------------------------------------------------------
(* Copies of users, and what becomes of them, over the storer's map us and *)
(* the sessions ss.                                                        *)

\* The copy is what is stored, unless the user has been removed.
Fresh(us, v) == us[v.id] \in {Nil, v}

\* What a saved user owes to the stored one it replaces: no confirmation is
\* taken back, no code follows another too soon, nobody becomes temporary.
Succeeds(w, v) ==
    /\ w.temp => v.temp
    /\ \A k \in Keys :
         GetUID(w, k) = GetUID(v, k) =>
           /\ v.auths[k].confirmed => w.auths[k].confirmed
           /\ SentAt(w, k) # Nil /\ SentAt(v, k) # Nil /\ SentAt(w, k) < SentAt(v, k)
                => SentAt(v, k) > ResendDelay(k)

SucceedsStored(us, w) == us[w.id] # Nil => Succeeds(w, us[w.id])

\* Losing the account loses nobody's registration.
Dispensable(us, id) ==
    id \in UserIds /\ us[id] # Nil => us[id].guest \/ us[id].temp

\* Temporary users park identities of password and OTP methods, to be linked.
TempOK(v) ==
    v.temp => LinkAccount /\ \A k \in SocialKeys : GetUID(v, k) = Empty

Unbound(ss, id) == \A s \in Sessions : ss[s] # id

----------------------------------------------------------------------------
(* The invariant of a request at a label, with parameters a and locals l.  *)

\* Where the user in hand is still to be saved,
Pending == {"signIn.bind", "signIn.save", "save", "link.save", "linkAccount",
            "otpAuth.remove", "otpAuth.bind", "otpAuth.save", "social.save"}

\* or its id to be bound to the session.
ToBind == {"guest.bind", "signUp.bind", "signIn.bind", "otpAuth.remove",
           "otpAuth.bind", "social.bind"}

\* The copy of the session's user.
CurrentOK(label, a, l, us, ss) ==
    /\ label \in {"idle", "middleware", "getUserID", "auth"} => l = NoLoc
    /\ label \in {"middleware.load", "loadUser"} => l.User = Nil /\ l.u = Nil
    /\ label = "loadUser" => l.UserID = ss[a.s]
    /\ l.User # Nil => l.User.id = l.UserID /\ ~l.User.temp
    /\ l.User # Nil /\ label \in AllRoutes \cup {"signUp.remove", "signUp.save"}
         => Fresh(us, l.User)
    /\ /\ label \in {"link.save", "linkAccount"}
       /\ l.User # Nil
       /\ GetUID(l.User, a.key) = Empty
       => Fresh(us, l.User) /\ l.u.id # l.User.id

\* The users to be removed.
RemovalOK(label, a, l, us) ==
    /\ label \in {"removeGuest", "signOut.remove"} => l.UserIsGuest
    /\ /\ l.UserIsGuest
       /\ label \in AllRoutes \cup {"signOut.remove", "signIn.bind", "signIn.save",
                                    "social.save", "social.bind", "removeGuest"}
       => Dispensable(us, l.UserID)
    /\ /\ l.UserIsGuest
       /\ label \in {"signIn.bind", "signIn.save", "social.save"}
       /\ l.u.id = l.UserID
       => l.u.guest \/ l.u.temp
    /\ label \in {"signUp.remove", "otpAuth.remove"} => Dispensable(us, l.removeUserID)
    /\ label = "signUp.remove" => Owners(us, a.key, a.uid) \subseteq {l.removeUserID}
    /\ label = "signUp.save" => Owners(us, a.key, a.uid) = {}

\* The user in hand.
HandOK(label, a, l, us, ss) ==
    /\ label \in Pending => SucceedsStored(us, l.u)
    /\ label \in ToBind \cup {"signIn.save", "otpAuth.save", "social.save"} => ~l.u.temp
    /\ label \in ToBind /\ us[l.u.id] # Nil => ~us[l.u.id].temp
    /\ l.u # Nil /\ l.u.temp => Unbound(ss, l.u.id)
    /\ label \in {"save", "link.save"} => TempOK(l.u)
    /\ label # "idle" /\ a.op = "initLink" => LinkAccount
    /\ label \in {"link.save", "linkAccount"} => HoldsCredentials(a, l.u)
    /\ label = "linkAccount" /\ us[l.u.id] # Nil => HoldsCredentials(a, us[l.u.id])

AloneOK(label, a, l, us, ss) ==
    CurrentOK(label, a, l, us, ss) /\ RemovalOK(label, a, l, us)
      /\ HandOK(label, a, l, us, ss)

SeqInv ==
    /\ TypeOK
    /\ UniqueIdentities
    /\ NoTempSession
    /\ \A id \in Stored(users) : TempOK(users[id])
    /\ \A p \in Procs : AloneOK(pc[p], arg[p], loc[p], users, sessions)

----------------------------------------------------------------------------
(* The setters.                                                            *)

\* The user keeps its identities, their confirmations and their sent times,
\* unless these are cleared.
Kept(w, v) ==
    /\ w.id = v.id /\ w.temp = v.temp /\ w.guest = v.guest
    /\ \A k \in Keys : /\ GetUID(w, k) = GetUID(v, k)
                       /\ v.auths[k].confirmed => w.auths[k].confirmed
                       /\ SentAt(w, k) \in {Nil, SentAt(v, k)}

\* Setters of passwords and codes do, and so do confirming and clearing.
LEMMA SettersKeep ==
  ASSUME NEW v \in User, NEW k \in Keys, NEW x
  PROVE  /\ Kept(v, v)
         /\ Kept(SetPassword(v, k, x), v)
         /\ Kept(SetOTP(v, k, x), v)
         /\ Kept(SetConfirmCode(v, k, x), v)
         /\ Kept(SetRecoveryCode(v, k, x), v)
         /\ Kept(SetConfirmed(v, k, TRUE), v)
         /\ Kept(ClearStamp(v, k), v)
  <1>0. Kept(v, v)
    BY DEF Kept
  <1>1. Kept(SetPassword(v, k, x), v)
    BY DEF Kept, SetPassword, User, Identity, GetUID, SentAt
  <1>2. Kept(SetOTP(v, k, x), v)
    BY DEF Kept, SetOTP, User, Identity, GetUID, SentAt
  <1>3. Kept(SetConfirmCode(v, k, x), v)
    BY DEF Kept, SetConfirmCode, User, Identity, GetUID, SentAt
  <1>4. Kept(SetRecoveryCode(v, k, x), v)
    BY DEF Kept, SetRecoveryCode, User, Identity, GetUID, SentAt
  <1>5. Kept(SetConfirmed(v, k, TRUE), v)
    BY DEF Kept, SetConfirmed, User, Identity, GetUID, SentAt
  <1>6. Kept(ClearStamp(v, k), v)
    BY DEF Kept, ClearStamp, SetCodeSentTime, User, Identity, GetUID, SentAt
  <1> QED BY <1>0, <1>1, <1>2, <1>3, <1>4, <1>5, <1>6

\* Keeping is transitive, and what keeps a successor succeeds as well.
LEMMA KeptOn ==
  ASSUME NEW w, NEW x \in User, NEW v, Kept(w, x)
  PROVE  /\ Kept(x, v) => Kept(w, v)
         /\ Succeeds(x, v) => Succeeds(w, v)
         /\ Succeeds(w, x)
         /\ TempOK(x) => TempOK(w)
  <1>1. Kept(x, v) => Kept(w, v)
    BY DEF Kept
  <1>2. Succeeds(x, v) => Succeeds(w, v)
    BY DEF Kept, Succeeds
  <1>3. ASSUME NEW k \in Keys, SentAt(w, k) # Nil, SentAt(w, k) < SentAt(x, k)
        PROVE  FALSE
    <2>1. SentAt(w, k) = SentAt(x, k)
      BY <1>3 DEF Kept
    <2>2. SentAt(x, k) \in Ages \cup {Nil}
      BY DEF SentAt, User, Identity
    <2> QED BY <1>3, <2>1, <2>2, MaxAgeIsNat DEF Ages
  <1>4. Succeeds(w, x)
    BY <1>3 DEF Kept, Succeeds
  <1>5. TempOK(x) => TempOK(w)
    BY DEF Kept, TempOK, Keys
  <1> QED BY <1>1, <1>2, <1>4, <1>5

\* A code follows another only after the delay.
LEMMA StampSucceeds ==
  ASSUME NEW v \in User, NEW k \in Keys, NEW x \in Codes, MayResend(v, k)
  PROVE  /\ Succeeds(StampCode(v, k), v)
         /\ Succeeds(StampCode(SetConfirmCode(v, k, x), k), v)
  <1>1. \A w \in User :
          /\ StampCode(w, k).temp = w.temp /\ StampCode(w, k).guest = w.guest
          /\ StampCode(w, k).id = w.id
          /\ \A j \in Keys :
               /\ GetUID(StampCode(w, k), j) = GetUID(w, j)
               /\ StampCode(w, k).auths[j].confirmed = w.auths[j].confirmed
               /\ (CodeSentTimeUser /\ j = k) \/ SentAt(StampCode(w, k), j) = SentAt(w, j)
    BY DEF StampCode, SetCodeSentTime, User, Identity, GetUID, SentAt
  <1>2. \A j \in Keys : SentAt(v, j) \in Ages \cup {Nil}
    BY DEF SentAt, User, Identity
  <1>3. \A j \in Keys : /\ SentAt(v, j) # Nil /\ SentAt(v, j) < SentAt(v, j) => FALSE
                        /\ CodeSentTimeUser /\ j = k /\ SentAt(v, k) # Nil
                             => SentAt(v, k) > ResendDelay(k)
    BY <1>2, MaxAgeIsNat DEF MayResend, Ages
  <1>4. Succeeds(StampCode(v, k), v)
    BY <1>1, <1>3 DEF Succeeds
  <1> DEFINE c == SetConfirmCode(v, k, x)
  <1>5. /\ c.temp = v.temp
        /\ \A j \in Keys : /\ GetUID(c, j) = GetUID(v, j)
                           /\ c.auths[j].confirmed = v.auths[j].confirmed
                           /\ SentAt(c, j) = SentAt(v, j)
    BY DEF SetConfirmCode, User, Identity, GetUID, SentAt
  <1>6. c \in User
    BY SetCodeType
  <1>7. Succeeds(StampCode(c, k), v)
    BY <1>1, <1>3, <1>5, <1>6 DEF Succeeds
  <1> QED BY <1>4, <1>7

\* Identities may be replaced by others, be confirmed, and be left alone.
LEMMA OthersSucceed ==
  ASSUME NEW v \in User, NEW w, w.temp => v.temp,
         \A k \in Keys : \/ GetUID(w, k) # GetUID(v, k)
                         \/ w.auths[k] = v.auths[k]
                         \/ w.auths[k].confirmed /\ SentAt(w, k) = Nil
  PROVE  Succeeds(w, v)
  <1>1. \A k \in Keys : SentAt(v, k) \in Ages \cup {Nil}
    BY DEF SentAt, User, Identity
  <1>2. \A k \in Keys : ~ (SentAt(v, k) # Nil /\ SentAt(v, k) < SentAt(v, k))
    BY <1>1, MaxAgeIsNat DEF Ages
  <1> QED BY <1>2 DEF Succeeds, SentAt

\* SetUID starts one identity afresh.
LEMMA SetUIDAfresh ==
  ASSUME NEW v \in User, NEW k \in Keys, NEW uid
  PROVE  LET w == SetUID(v, k, uid)
         IN  /\ w.id = v.id /\ w.temp = v.temp /\ w.guest = v.guest
             /\ GetUID(w, k) = uid /\ SentAt(w, k) = Nil
             /\ \A j \in Keys \ {k} : w.auths[j] = v.auths[j]
  BY DEF SetUID, User, GetUID, SentAt, ZeroIdentity

\* The other setters change fields of one identity.
Beside(w, v, k) ==
    /\ w.id = v.id /\ w.temp = v.temp
    /\ GetUID(w, k) = GetUID(v, k)
    /\ \A j \in Keys \ {k} : w.auths[j] = v.auths[j]

LEMMA SettersBeside ==
  ASSUME NEW v \in User, NEW k \in Keys, NEW x
  PROVE  /\ Beside(SetPassword(v, k, x), v, k)
         /\ Beside(SetConfirmCode(v, k, x), v, k)
         /\ Beside(SetConfirmed(v, k, x), v, k)
         /\ Beside(StampCode(v, k), v, k)
  <1>1. Beside(SetPassword(v, k, x), v, k)
    BY DEF Beside, SetPassword, User, Identity, GetUID
  <1>2. Beside(SetConfirmCode(v, k, x), v, k)
    BY DEF Beside, SetConfirmCode, User, Identity, GetUID
  <1>3. Beside(SetConfirmed(v, k, x), v, k)
    BY DEF Beside, SetConfirmed, User, Identity, GetUID
  <1>4. Beside(StampCode(v, k), v, k)
    BY DEF Beside, StampCode, SetCodeSentTime, User, Identity, GetUID
  <1> QED BY <1>1, <1>2, <1>3, <1>4

\* They leave a temporary user in order.
LEMMA BesideTempOK ==
  ASSUME NEW w, NEW v, NEW k, Beside(w, v, k), TempOK(v)
  PROVE  TempOK(w)
  BY DEF Beside, TempOK, GetUID, Keys

\* The flags.
LEMMA FlagsSet ==
  ASSUME NEW v \in User, NEW b \in BOOLEAN
  PROVE  /\ SetGuest(v, b).guest = b /\ SetGuest(v, b).temp = v.temp
         /\ SetGuest(v, b).id = v.id /\ SetGuest(v, b).auths = v.auths
         /\ SetTemp(v, b).temp = b /\ SetTemp(v, b).guest = v.guest
         /\ SetTemp(v, b).id = v.id /\ SetTemp(v, b).auths = v.auths
  BY DEF SetGuest, SetTemp, User

----------------------------------------------------------------------------
(* The users a handler starts from.                                        *)

\* The user found by an identity is stored and is its one owner.
LEMMA FoundFacts ==
  ASSUME SeqInv, NEW p \in Procs, arg[p].key \in Keys, arg[p].uid \in UIDs
  PROVE  /\ Found(p) = Nil => Owners(users, arg[p].key, arg[p].uid) = {}
         /\ \A v \in User : /\ GetUID(v, arg[p].key) = arg[p].uid
                            /\ users[v.id] = v
                            => v = Found(p)
         /\ Found(p) # Nil =>
              /\ Found(p) \in User
              /\ users[Found(p).id] = Found(p)
              /\ GetUID(Found(p), arg[p].key) = arg[p].uid
              /\ Owners(users, arg[p].key, arg[p].uid) \subseteq {Found(p).id}
              /\ TempOK(Found(p))
              /\ Found(p).temp => Unbound(sessions, Found(p).id)
  <1> DEFINE k == arg[p].key
             uid == arg[p].uid
             owners == Owners(users, k, uid)
  <1>1. Storer(users) /\ Unique(users)
    BY TypeParts DEF SeqInv, UniqueIdentities
  <1>2. \A id \in owners : /\ id \in Stored(users) /\ users[id] \in User
                           /\ users[id].id = id
                           /\ Present(users[id], k) /\ GetUID(users[id], k) = uid
    BY <1>1 DEF Owners, Stored, Storer
  <1>3. \A i, j \in owners : i = j
    BY <1>1, <1>2 DEF Unique
  <1>4. \A v \in User : users[v.id] = v /\ GetUID(v, k) = uid => v.id \in owners
    BY <1>1, UserFacts, EmptyIsNoValue DEF Owners, Stored, Present, GetUID, ZeroIdentity
  <1>5. CASE owners = {}
    BY <1>4, <1>5 DEF Found, LoadByUID
  <1>6. CASE owners # {}
    <2>1. PICK id \in owners : Found(p) = users[id]
      BY <1>6 DEF Found, LoadByUID
    <2>2. owners \subseteq {id}
      BY <1>3
    <2>3. Found(p) \in User /\ Found(p) # Nil
      BY <1>2, <2>1, UserFacts
    <2>4. Found(p).id = id /\ users[Found(p).id] = Found(p) /\ GetUID(Found(p), k) = uid
      BY <1>2, <2>1
    <2>5. TempOK(Found(p))
      BY <1>2, <2>1 DEF SeqInv
    <2>6. Found(p).temp => Unbound(sessions, Found(p).id)
      BY <1>2, <2>1, <2>4 DEF SeqInv, NoTempSession, Bound, Unbound
    <2>7. \A v \in User : users[v.id] = v /\ GetUID(v, k) = uid => v = Found(p)
      BY <1>4, <2>1, <2>2
    <2> QED BY <2>2, <2>3, <2>4, <2>5, <2>6, <2>7
  <1> QED BY <1>5, <1>6

\* An id Create may draw belongs to nobody.
LEMMA FreeFacts ==
  ASSUME SeqInv, NEW id \in FreeIds
  PROVE  /\ id \in UserIds /\ users[id] = Nil /\ Unbound(sessions, id)
         /\ \A p \in Procs : /\ id # loc[p].UserID
                             /\ loc[p].User # Nil => id # loc[p].User.id
  BY TypeParts DEF FreeIds, Referenced, Stored, Unbound, IdsOf

\* A temporary user is created with the one identity it is to park.
LEMMA TempUserFacts ==
  ASSUME SeqInv, LinkAccount, NEW id \in FreeIds, NEW uid \in UIDs,
         NEW k \in PasswordKeys \cup OTPKeys
  PROVE  LET v == TempUser(id, k, uid)
         IN  /\ v \in User /\ v.id = id /\ v.temp /\ users[id] = Nil
             /\ GetUID(v, k) = uid /\ SentAt(v, k) = Nil
             /\ TempOK(v) /\ Unbound(sessions, id)
  <1>1. id \in UserIds /\ users[id] = Nil /\ Unbound(sessions, id)
    BY FreeFacts
  <1> DEFINE n == NewUser(id)
             t == SetTemp(n, TRUE)
             v == SetUID(t, k, uid)
  <1>2. n \in User /\ n.id = id /\ \A j \in Keys : GetUID(n, j) = Empty
    BY <1>1, NewUserType DEF NewUser, GetUID, ZeroIdentity
  <1> HIDE DEF n
  <1>3. t \in User /\ t.id = id /\ t.temp /\ \A j \in Keys : GetUID(t, j) = Empty
    <2>1. t \in User /\ t.id = n.id /\ t.temp = TRUE /\ t.auths = n.auths
      BY <1>2, SetFlagType, FlagsSet
    <2> QED BY <1>2, <2>1 DEF GetUID
  <1> HIDE DEF t
  <1>4. k \in Keys
    BY DEF Keys
  <1>5. /\ v \in User /\ v.id = id /\ v.temp
        /\ GetUID(v, k) = uid /\ SentAt(v, k) = Nil
        /\ \A j \in Keys \ {k} : GetUID(v, j) = Empty
    BY <1>3, <1>4, SetUIDType, SetUIDAfresh DEF GetUID
  <1> HIDE DEF v
  <1>6. TempOK(v)
    BY <1>5, KindsDisjoint DEF TempOK, Keys
  <1>7. TempUser(id, k, uid) = v
    BY DEF TempUser, v, t, n
  <1> QED BY <1>1, <1>5, <1>6, <1>7

\* The user found is another one than the current user, who has no identity
\* of that method.
LEMMA FoundIsAnother ==
  ASSUME SeqInv, NEW user \in User, Fresh(users, user), NEW k \in Keys,
         GetUID(user, k) = Empty, NEW v \in User, users[v.id] = v,
         GetUID(v, k) \in UIDs
  PROVE  v.id # user.id
  BY UserFacts, EmptyIsNoValue DEF Fresh

----------------------------------------------------------------------------
(* What a step of a request may do when it is served alone.                *)

\* A saved user succeeds the stored one.
SaveFine ==
    \E u \in User : /\ Save(u)
                    /\ SucceedsStored(users, u)
                    /\ TempOK(u)
                    /\ u.temp => Unbound(sessions, u.id)
                    /\ UNCHANGED sessions

\* A removed one is dispensable, or its client has agreed to lose it.
RemovalFine ==
    \E id \in UserIds \cup {Nil} :
        /\ users' = RemoveByID(users, id)
        /\ \/ Dispensable(users, id)
           \/ \E p \in Procs : /\ At(p, "linkAccount")
                               /\ loc[p].u.id = id
                               /\ arg[p].confirm
                               /\ HoldsCredentials(arg[p], users[id])
        /\ UNCHANGED sessions

\* No session is bound to a temporary user.
BindFine ==
    /\ UNCHANGED users
    /\ \/ UNCHANGED sessions
       \/ \E s \in Sessions, id \in UserIds \cup {Nil} :
            /\ sessions' = [sessions EXCEPT ![s] = id]
            /\ id # Nil /\ users[id] # Nil => ~users[id].temp

Fine(p) ==
    /\ SaveFine \/ RemovalFine \/ BindFine
    /\ AloneOK(pc'[p], arg'[p], loc'[p], users', sessions')

\* What Put and RemoveByID leave alone.
LEMMA StorerEffects ==
  ASSUME NEW us, Storer(us)
  PROVE  /\ \A u \in User : /\ Put(us, u)[u.id] = u
                            /\ \A i \in UserIds \ {u.id} : Put(us, u)[i] = us[i]
         /\ \A id : /\ \A i \in UserIds : RemoveByID(us, id)[i] \in {us[i], Nil}
                    /\ \A v \in User : Fresh(us, v) => Fresh(RemoveByID(us, id), v)
                    /\ \A v \in User : SucceedsStored(us, v) => SucceedsStored(RemoveByID(us, id), v)
                    /\ \A i : Dispensable(us, i) => Dispensable(RemoveByID(us, id), i)
                    /\ \A k, uid : Owners(us, k, uid) \subseteq {id} => Owners(RemoveByID(us, id), k, uid) = {}
  <1>1. \A u \in User : /\ Put(us, u)[u.id] = u
                        /\ \A i \in UserIds \ {u.id} : Put(us, u)[i] = us[i]
    BY UserFacts DEF Put, Storer
  <1>2. ASSUME NEW id, NEW i \in UserIds
        PROVE  RemoveByID(us, id)[i] \in {us[i], Nil} /\ (i = id => RemoveByID(us, id)[i] = Nil)
    BY DEF RemoveByID, Storer
  <1>3. ASSUME NEW id, NEW v \in User
        PROVE  /\ Fresh(us, v) => Fresh(RemoveByID(us, id), v)
               /\ SucceedsStored(us, v) => SucceedsStored(RemoveByID(us, id), v)
    <2>1. v.id \in UserIds
      BY UserFacts
    <2>2. RemoveByID(us, id)[v.id] \in {us[v.id], Nil}
      BY <1>2, <2>1
    <2> QED BY <2>2 DEF Fresh, SucceedsStored
  <1>4. ASSUME NEW id, NEW i PROVE Dispensable(us, i) => Dispensable(RemoveByID(us, id), i)
    BY <1>2 DEF Dispensable
  <1>5. ASSUME NEW id, NEW k, NEW uid, Owners(us, k, uid) \subseteq {id}
        PROVE  Owners(RemoveByID(us, id), k, uid) = {}
    <2>1. ASSUME NEW i \in Owners(RemoveByID(us, id), k, uid) PROVE FALSE
      <3>1. i \in UserIds /\ RemoveByID(us, id)[i] # Nil
        BY DEF Owners, Stored
      <3>2. i # id /\ RemoveByID(us, id)[i] = us[i]
        BY <1>2, <3>1
      <3>3. i \in Owners(us, k, uid)
        BY <3>1, <3>2 DEF Owners, Stored
      <3> QED BY <1>5, <3>2, <3>3
    <2> QED BY <2>1
  <1> QED BY <1>1, <1>2, <1>3, <1>4, <1>5

\* Where a request is after the step.
LEMMA Control ==
  ASSUME TypeOK, NEW p \in Procs
  PROVE  /\ \A l, label : Continue(p, l, label)
                            => pc'[p] = label /\ loc'[p] = l /\ arg'[p] = arg[p]
         /\ Return(p) => pc'[p] = "idle" /\ loc'[p] = NoLoc /\ arg'[p] = NoArg
         /\ \A a, label : Begin(p, a, label)
                            => /\ pc'[p] = label /\ loc'[p] = loc[p] /\ arg'[p] = a
                               /\ UNCHANGED <<users, sessions>>
  <1>1. \A l, label : Continue(p, l, label)
                        => pc'[p] = label /\ loc'[p] = l /\ arg'[p] = arg[p]
    BY TypeParts DEF ControlOK, Continue, Goto
  <1>2. Return(p) => pc'[p] = "idle" /\ loc'[p] = NoLoc /\ arg'[p] = NoArg
    BY TypeParts DEF ControlOK, Return, Goto
  <1>3. \A a, label : Begin(p, a, label)
                        => /\ pc'[p] = label /\ loc'[p] = loc[p] /\ arg'[p] = a
                           /\ UNCHANGED <<users, sessions>>
    BY TypeParts DEF ControlOK, Begin, Goto, store
  <1> QED BY <1>1, <1>2, <1>3

\* A request that is answered leaves nothing behind.
LEMMA ReturnAlone ==
  ASSUME TypeOK, NEW p \in Procs, Return(p)
  PROVE  AloneOK(pc'[p], arg'[p], loc'[p], users', sessions')
  <1>1. \A us, ss : AloneOK("idle", NoArg, NoLoc, us, ss)
    BY DEF AloneOK, CurrentOK, RemovalOK, HandOK, NoLoc, NoArg, AllRoutes, Pending, ToBind
  <1> QED BY <1>1, Control

LEMMA RefuseAlone ==
  ASSUME TypeOK, NEW p \in Procs, Refuse(p)
  PROVE  Fine(p)
  BY ReturnAlone DEF Refuse, Fine, BindFine, store

\* A request arrives with no user in hand.
LEMMA BeginAlone ==
  ASSUME SeqInv, NEW p \in Procs, NEW a, NEW label \in FirstLabels,
         a.op = "initLink" => LinkAccount, Begin(p, a, label)
  PROVE  Fine(p)
  <1>1. loc[p] = NoLoc
    BY DEF SeqInv, AloneOK, CurrentOK, Begin, At
  <1>2. AloneOK(label, a, NoLoc, users, sessions)
    <2>1. NoLoc.User = Nil /\ NoLoc.u = Nil /\ ~NoLoc.UserIsGuest
      BY DEF NoLoc
    <2>2. CurrentOK(label, a, NoLoc, users, sessions)
      BY <2>1 DEF CurrentOK, FirstLabels
    <2>3. RemovalOK(label, a, NoLoc, users)
      BY <2>1 DEF RemovalOK, FirstLabels
    <2>4. HandOK(label, a, NoLoc, users, sessions)
      BY <2>1 DEF HandOK, FirstLabels, Pending, ToBind
    <2> QED BY <2>2, <2>3, <2>4 DEF AloneOK
  <1> QED BY <1>1, <1>2, Control DEF SeqInv, Fine, BindFine

\* A step that calls neither storer.
LEMMA ReadAlone ==
  ASSUME TypeOK, NEW p \in Procs, NEW l, NEW label, Continue(p, l, label),
         UNCHANGED <<users, sessions>>,
         AloneOK(label, arg[p], l, users, sessions)
  PROVE  Fine(p)
  BY Control DEF Fine, BindFine

\* A handler puts a user in hand, and one to be removed.
LEMMA InHand ==
  ASSUME TypeOK, NEW p \in Procs, NEW u, NEW id
  PROVE  /\ LET l == [loc[p] EXCEPT !.u = u]
            IN  /\ l.u = u /\ l.User = loc[p].User /\ l.UserID = loc[p].UserID
                /\ l.UserIsGuest = loc[p].UserIsGuest /\ l.removeUserID = loc[p].removeUserID
         /\ LET l == [loc[p] EXCEPT !.u = u, !.removeUserID = id]
            IN  /\ l.u = u /\ l.User = loc[p].User /\ l.UserID = loc[p].UserID
                /\ l.UserIsGuest = loc[p].UserIsGuest /\ l.removeUserID = id
  BY RequestFacts DEF Locals

\* Labels that ask nothing of the copy of the session's user but its id,
LEMMA CurrentOn ==
  ASSUME NEW label, NEW a, NEW l, NEW us, NEW ss, CurrentOK(label, a, l, us, ss),
         NEW m, m.User = l.User, m.UserID = l.UserID, NEW to, NEW us2, NEW ss2,
         to \in {"guest.save", "guest.bind", "signOut.remove", "signUp.bind",
                 "signIn.bind", "signIn.save", "removeGuest", "save",
                 "otpAuth.remove", "otpAuth.bind", "otpAuth.save",
                 "social.save", "social.bind"}
  PROVE  CurrentOK(to, a, m, us2, ss2)
  BY DEF CurrentOK, AllRoutes

\* and labels that no removal follows.
LEMMA NoRemoval ==
  ASSUME NEW a, NEW l, NEW us,
         NEW to \in {"guest.bind", "signUp.bind", "save", "link.save", "linkAccount",
                     "otpAuth.bind", "otpAuth.save"}
  PROVE  RemovalOK(to, a, l, us)
  BY DEF RemovalOK, AllRoutes

\* A handler that has only read so far goes on to "save".
LEMMA GoSaveAlone ==
  ASSUME SeqInv, NEW p \in Procs, pc[p] # "idle", NEW u \in User,
         Continue(p, [loc[p] EXCEPT !.u = u], "save"), UNCHANGED <<users, sessions>>,
         SucceedsStored(users, u), TempOK(u), u.temp => Unbound(sessions, u.id)
  PROVE  Fine(p)
  <1> DEFINE l == [loc[p] EXCEPT !.u = u]
  <1>1. TypeOK /\ AloneOK(pc[p], arg[p], loc[p], users, sessions)
    BY DEF SeqInv
  <1>2. l.u = u /\ l.User = loc[p].User /\ l.UserID = loc[p].UserID
    BY <1>1, InHand
  <1> HIDE DEF l
  <1>3. CurrentOK("save", arg[p], l, users, sessions)
    BY <1>1, <1>2, CurrentOn DEF AloneOK
  <1>4. HandOK("save", arg[p], l, users, sessions)
    BY <1>1, <1>2 DEF AloneOK, HandOK, ToBind
  <1>5. AloneOK("save", arg[p], l, users, sessions)
    BY <1>3, <1>4, NoRemoval DEF AloneOK
  <1> QED BY <1>1, <1>5, ReadAlone DEF l

\* The same, with what has become of a stored or a new user v.
LEMMA GoSaveFrom ==
  ASSUME SeqInv, NEW p \in Procs, pc[p] # "idle", NEW v \in User, Fresh(users, v),
         NEW u \in User, u.id = v.id, Succeeds(u, v), TempOK(u),
         v.temp => Unbound(sessions, v.id),
         Continue(p, [loc[p] EXCEPT !.u = u], "save"), UNCHANGED <<users, sessions>>
  PROVE  Fine(p)
  <1>1. SucceedsStored(users, u)
    BY DEF SucceedsStored, Fresh
  <1>2. u.temp => Unbound(sessions, u.id)
    BY DEF Succeeds
  <1> QED BY <1>1, <1>2, GoSaveAlone

\* A created user has no identities.
LEMMA NewUserFacts ==
  ASSUME NEW id \in UserIds
  PROVE  /\ NewUser(id) \in User /\ NewUser(id).id = id
         /\ ~NewUser(id).temp /\ ~NewUser(id).guest
         /\ \A k \in Keys : GetUID(NewUser(id), k) = Empty
  BY NewUserType DEF NewUser, GetUID, ZeroIdentity

----------------------------------------------------------------------------
(* The handlers, action by action.                                         *)

\* checkSession, and the last calls of handlers.
LEMMA SharedAlone ==
  ASSUME SeqInv, NEW p \in Procs, Shared(p)
  PROVE  Fine(p)
  <1>0. TypeOK /\ Storer(users) /\ AloneOK(pc[p], arg[p], loc[p], users, sessions)
    BY TypeParts DEF SeqInv
  <1>1. CASE GetUserID(p)
    <2>1. pc[p] = "getUserID"
      BY <1>1 DEF GetUserID, At
    <2>2. loc[p] = NoLoc
      BY <1>0, <2>1 DEF AloneOK, CurrentOK
    <2>3. arg[p].op \in AllRoutes \ {"auth"}
      BY <1>0, <2>1, LabelFacts DEF OnRoute, ArgOK
    <2> DEFINE id == sessions[arg[p].s]
               l == [loc[p] EXCEPT !.UserID = id]
               label == IF id = Nil THEN arg[p].op ELSE "loadUser"
    <2>4. l.UserID = id /\ l.User = Nil /\ ~l.UserIsGuest /\ l.u = Nil
      BY <2>2 DEF NoLoc
    <2>5. label \in {"loadUser"} \cup (AllRoutes \ {"auth"})
      BY <2>3
    <2>6. arg[p].op = "initLink" => LinkAccount
      BY <1>0, <2>1 DEF AloneOK, HandOK
    <2>7. AloneOK(label, arg[p], l, users, sessions)
      <3> HIDE DEF l, label
      <3>1. label = "loadUser" => l.UserID = sessions[arg[p].s]
        BY <2>4
      <3>2. CurrentOK(label, arg[p], l, users, sessions)
        BY <2>4, <2>5, <3>1 DEF CurrentOK, AllRoutes
      <3>3. RemovalOK(label, arg[p], l, users)
        BY <2>4, <2>5 DEF RemovalOK, AllRoutes
      <3>4. HandOK(label, arg[p], l, users, sessions)
        BY <2>4, <2>5, <2>6 DEF HandOK, AllRoutes, Pending, ToBind
      <3> QED BY <3>2, <3>3, <3>4 DEF AloneOK
    <2> QED BY <1>0, <1>1, <2>7, ReadAlone DEF GetUserID, store
  <1>2. CASE LoadUser(p)
    <2>1. pc[p] = "loadUser"
      BY <1>2 DEF LoadUser, At
    <2>2. /\ arg[p].op \in AllRoutes \ {"auth"} /\ arg[p].s \in Sessions
          /\ arg[p].op = "initLink" => LinkAccount
      BY <1>0, <2>1, LabelFacts DEF OnRoute, ArgOK, AloneOK, HandOK
    <2>3. loc[p].UserID = sessions[arg[p].s] /\ loc[p].u = Nil
      BY <1>0, <2>1 DEF AloneOK, CurrentOK
    <2> DEFINE user == LoadByID(users, loc[p].UserID)
               l == [loc[p] EXCEPT !.User = user,
                                   !.UserIsGuest = user # Nil /\ GuestUser /\ user.guest]
    <2>4. user # Nil => /\ loc[p].UserID \in Stored(users) /\ user = users[loc[p].UserID]
                        /\ user.id = loc[p].UserID /\ ~user.temp
      BY <1>0, <2>2, <2>3 DEF LoadByID, Stored, Storer, SeqInv, NoTempSession, Bound
    <2>5. /\ l.User = user /\ l.UserID = loc[p].UserID /\ l.u = Nil
          /\ l.UserIsGuest => user # Nil /\ user.guest
      BY <1>0, <2>3, RequestFacts DEF Locals
    <2>6. /\ user # Nil => Fresh(users, user)
          /\ l.UserIsGuest => Dispensable(users, l.UserID)
      BY <2>4, <2>5 DEF Fresh, Dispensable
    <2>7. AloneOK(arg[p].op, arg[p], l, users, sessions)
      <3> HIDE DEF l, user
      <3>1. CurrentOK(arg[p].op, arg[p], l, users, sessions)
        BY <2>2, <2>4, <2>5, <2>6 DEF CurrentOK, AllRoutes
      <3>2. RemovalOK(arg[p].op, arg[p], l, users)
        BY <2>2, <2>5, <2>6 DEF RemovalOK, AllRoutes
      <3>3. HandOK(arg[p].op, arg[p], l, users, sessions)
        BY <2>2, <2>5 DEF HandOK, AllRoutes, Pending, ToBind
      <3> QED BY <3>1, <3>2, <3>3 DEF AloneOK
    <2> QED BY <1>0, <1>2, <2>7, ReadAlone DEF LoadUser, store
  <1>3. CASE SaveAndReturn(p)
    <2>1. pc[p] = "save"
      BY <1>3 DEF SaveAndReturn, At
    <2>2. loc[p].u \in User
      BY <1>0, <2>1, LabelFacts DEF HoldsUser
    <2>3. /\ SucceedsStored(users, loc[p].u) /\ TempOK(loc[p].u)
          /\ loc[p].u.temp => Unbound(sessions, loc[p].u.id)
      BY <1>0, <2>1, <2>2, UserFacts DEF AloneOK, HandOK, Pending
    <2> QED BY <1>0, <1>3, <2>2, <2>3, ReturnAlone
            DEF SaveAndReturn, SaveFails, Fine, SaveFine, BindFine
  <1>4. CASE RemoveGuest(p)
    <2>1. pc[p] = "removeGuest"
      BY <1>4 DEF RemoveGuest, At
    <2>2. Dispensable(users, loc[p].UserID) /\ loc[p].UserID \in UserIds \cup {Nil}
      BY <1>0, <2>1, RequestFacts DEF AloneOK, RemovalOK
    <2> QED BY <1>0, <1>4, <2>2, ReturnAlone DEF RemoveGuest, Fine, RemovalFine
  <1> QED BY <1>1, <1>2, <1>3, <1>4 DEF Shared

\* auth and signOut.
LEMMA SessionAlone ==
  ASSUME SeqInv, NEW p \in Procs, SessionStep(p)
  PROVE  Fine(p)
  <1>0. TypeOK /\ Storer(users) /\ AloneOK(pc[p], arg[p], loc[p], users, sessions)
    BY TypeParts DEF SeqInv
  <1> DEFINE Quietly == {"auth.load", "auth.unbind", "auth.guest", "guest.save", "signOut.remove"}
  <1>1. ASSUME pc[p] \in {"auth.load", "auth.unbind", "auth.guest", "signOut", "signOut.remove"},
               NEW label \in Quietly,
               label = "signOut.remove" => loc[p].UserIsGuest /\ pc[p] = "signOut",
               NEW us, NEW ss,
               label = "signOut.remove" => us = users,
               loc[p].u # Nil /\ Unbound(sessions, loc[p].u.id) => Unbound(ss, loc[p].u.id)
        PROVE  AloneOK(label, arg[p], loc[p], us, ss)
    <2>1. CurrentOK(label, arg[p], loc[p], us, ss)
      BY <1>0, <1>1 DEF AloneOK, CurrentOK, AllRoutes
    <2>2. RemovalOK(label, arg[p], loc[p], us)
      BY <1>0, <1>1 DEF AloneOK, RemovalOK, AllRoutes
    <2>3. HandOK(label, arg[p], loc[p], us, ss)
      BY <1>0, <1>1 DEF AloneOK, HandOK, Pending, ToBind
    <2> QED BY <2>1, <2>2, <2>3 DEF AloneOK
  <1>2. ASSUME NEW s \in Sessions, sessions' = [sessions EXCEPT ![s] = Nil],
               loc[p].u # Nil, Unbound(sessions, loc[p].u.id)
        PROVE  Unbound(sessions', loc[p].u.id)
    <2>1. loc[p].u.id # Nil
      BY <1>0, <1>2, RequestFacts, UserFacts, NilIsNoValue
    <2> QED BY <1>0, <1>2, <2>1, TypeParts DEF Unbound, SessionsOK
  <1>3. CASE AuthBegin(p)
    BY <1>3, BeginAlone DEF AuthBegin, FirstLabels, NoArg
  <1>4. CASE AuthLoadSession(p)
    <2>1. pc[p] = "auth"
      BY <1>4 DEF AuthLoadSession, At
    <2>2. loc[p] = NoLoc /\ (arg[p].op = "initLink" => LinkAccount)
      BY <1>0, <2>1 DEF AloneOK, CurrentOK, HandOK
    <2> DEFINE id == sessions[arg[p].s]
               l == [loc[p] EXCEPT !.UserID = id]
               label == IF id = Nil THEN "auth.guest" ELSE "auth.load"
    <2>3. l.User = Nil /\ ~l.UserIsGuest /\ l.u = Nil
      BY <2>2 DEF NoLoc
    <2>4. AloneOK(label, arg[p], l, users, sessions)
      <3>1. label \in {"auth.guest", "auth.load"}
        OBVIOUS
      <3> HIDE DEF l, label
      <3>2. CurrentOK(label, arg[p], l, users, sessions)
        BY <2>3, <3>1 DEF CurrentOK, AllRoutes
      <3>3. RemovalOK(label, arg[p], l, users)
        BY <2>3, <3>1 DEF RemovalOK, AllRoutes
      <3>4. HandOK(label, arg[p], l, users, sessions)
        BY <2>2, <2>3, <3>1 DEF HandOK, Pending, ToBind
      <3> QED BY <3>2, <3>3, <3>4 DEF AloneOK
    <2> QED BY <1>0, <1>4, <2>4, ReadAlone DEF AuthLoadSession, store
  <1>5. CASE AuthLoadUser(p) \/ AuthCreateGuest(p)
    <2>1. pc[p] \in {"auth.load", "auth.guest"}
      BY <1>5 DEF AuthLoadUser, AuthCreateGuest, At
    <2>2. PICK label \in {"auth.unbind", "auth.guest", "guest.save"} : Continue(p, loc[p], label)
      BY <1>5 DEF AuthLoadUser, AuthCreateGuest
    <2>3. AloneOK(label, arg[p], loc[p], users, sessions)
      BY <1>1, <2>1
    <2> QED BY <1>0, <1>5, <2>2, <2>3, ReadAlone DEF AuthLoadUser, AuthCreateGuest, store
  <1>6. CASE AuthUnbind(p)
    <2>1. pc[p] = "auth.unbind" /\ arg[p].s \in Sessions
      BY <1>0, <1>6, LabelFacts DEF AuthUnbind, At, OnRoute, ArgOK
    <2>2. AloneOK("auth.guest", arg[p], loc[p], users', sessions')
      BY <1>1, <1>2, <1>6, <2>1 DEF AuthUnbind
    <2> QED BY <1>0, <1>6, <2>1, <2>2, Control DEF AuthUnbind, Fine, BindFine
  <1>7. CASE AuthNoGuest(p)
    BY <1>0, <1>7, ReturnAlone DEF AuthNoGuest, Fine, BindFine
  <1>8. CASE CreateGuestUser(p)
    <2>1. pc[p] = "guest.save" /\ arg[p].op \in {"auth", "signOut"}
      BY <1>0, <1>8, LabelFacts DEF CreateGuestUser, At, OnRoute
    <2>2. PICK id \in FreeIds :
            LET u == SetGuest(NewUser(id), TRUE)
            IN  \/ /\ Save(u)
                   /\ Continue(p, [loc[p] EXCEPT !.u = u], "guest.bind")
                \/ SaveFails(u) /\ Return(p)
      BY <1>8 DEF CreateGuestUser
    <2> DEFINE u == SetGuest(NewUser(id), TRUE)
    <2>3. u \in User /\ u.id = id /\ ~u.temp /\ users[id] = Nil
      <3>1. id \in UserIds /\ users[id] = Nil
        BY FreeFacts
      <3>2. NewUser(id) \in User /\ NewUser(id).id = id /\ ~NewUser(id).temp
        BY <3>1, NewUserFacts
      <3>3. u \in User /\ u.id = NewUser(id).id /\ u.temp = NewUser(id).temp
        BY <3>2, SetFlagType, FlagsSet
      <3> QED BY <3>1, <3>2, <3>3
    <2> HIDE DEF u
    <2>4. CASE SaveFails(u) /\ Return(p)
      BY <1>0, <1>8, <2>4, ReturnAlone DEF CreateGuestUser, SaveFails, Fine, BindFine
    <2>5. CASE Save(u) /\ Continue(p, [loc[p] EXCEPT !.u = u], "guest.bind")
      <3>1. SaveFine
        BY <1>8, <2>3, <2>5 DEF CreateGuestUser, SaveFine, SucceedsStored, TempOK
      <3> DEFINE l == [loc[p] EXCEPT !.u = u]
      <3>2. l.u = u /\ l.User = loc[p].User /\ l.UserID = loc[p].UserID
        BY <1>0, RequestFacts DEF Locals
      <3>3. AloneOK("guest.bind", arg[p], l, users', sessions')
        <4>1. CurrentOK("guest.bind", arg[p], l, users', sessions')
          BY <1>0, <2>1, <3>2 DEF AloneOK, CurrentOK, AllRoutes
        <4>2. RemovalOK("guest.bind", arg[p], l, users')
          BY DEF RemovalOK, AllRoutes
        <4>3. users'[u.id] = u
          BY <1>0, <2>3, <2>5, StorerEffects DEF Save
        <4>4. HandOK("guest.bind", arg[p], l, users', sessions')
          BY <2>1, <2>3, <3>2, <4>3 DEF HandOK, Pending
        <4> QED BY <4>1, <4>2, <4>4 DEF AloneOK
      <3> QED BY <1>0, <2>5, <3>1, <3>3, Control DEF Fine
    <2> QED BY <2>2, <2>4, <2>5 DEF u
  <1>9. CASE BindGuest(p)
    <2>1. pc[p] = "guest.bind" /\ arg[p].s \in Sessions /\ loc[p].u \in User
      BY <1>0, <1>9, LabelFacts DEF BindGuest, At, OnRoute, ArgOK, HoldsUser
    <2>2. users[loc[p].u.id] # Nil => ~users[loc[p].u.id].temp
      BY <1>0, <2>1 DEF AloneOK, HandOK, ToBind
    <2> QED BY <1>0, <1>9, <2>1, <2>2, UserFacts, ReturnAlone DEF BindGuest, Fine, BindFine
  <1>10. CASE SignOutBegin(p)
    BY <1>10, BeginAlone DEF SignOutBegin, BeginWithSession, FirstLabels, NoArg
  <1>11. CASE SignOutUnbind(p)
    <2>1. pc[p] = "signOut" /\ arg[p].s \in Sessions
      BY <1>0, <1>11, LabelFacts DEF SignOutUnbind, At, OnRoute, ArgOK, AllRoutes
    <2>2. BindFine
      BY <1>11, <2>1 DEF SignOutUnbind, BindFine
    <2>3. CASE Return(p)
      BY <1>0, <2>2, <2>3, ReturnAlone DEF Fine
    <2>4. ASSUME NEW label \in {"signOut.remove", "guest.save"}, Continue(p, loc[p], label),
                 label = "signOut.remove" => loc[p].UserIsGuest
          PROVE  Fine(p)
      <3>1. AloneOK(label, arg[p], loc[p], users', sessions')
        BY <1>1, <1>2, <1>11, <2>1, <2>4 DEF SignOutUnbind
      <3> QED BY <1>0, <2>2, <2>4, <3>1, Control DEF Fine
    <2> QED BY <1>11, <2>3, <2>4 DEF SignOutUnbind
  <1>12. CASE SignOutRemoveGuest(p)
    <2>1. pc[p] = "signOut.remove"
      BY <1>12 DEF SignOutRemoveGuest, At
    <2>2. Dispensable(users, loc[p].UserID) /\ loc[p].UserID \in UserIds \cup {Nil}
      BY <1>0, <2>1, RequestFacts DEF AloneOK, RemovalOK
    <2>3. AloneOK("guest.save", arg[p], loc[p], users', sessions')
      BY <1>1, <1>12, <2>1 DEF SignOutRemoveGuest
    <2> QED BY <1>0, <1>12, <2>2, <2>3, Control DEF SignOutRemoveGuest, Fine, RemovalFine
  <1> QED BY <1>3, <1>4, <1>5, <1>6, <1>7, <1>8, <1>9, <1>10, <1>11, <1>12
          DEF SessionStep

\* signUp and signIn.
LEMMA PasswordAlone ==
  ASSUME SeqInv, NEW p \in Procs, PasswordStep(p)
  PROVE  Fine(p)
  <1>0. TypeOK /\ Storer(users) /\ AloneOK(pc[p], arg[p], loc[p], users, sessions)
    BY TypeParts DEF SeqInv
  <1>1. CASE SignUpBegin(p) \/ SignInBegin(p)
    BY <1>1, BeginAlone
       DEF SignUpBegin, SignInBegin, BeginWithSession, FirstLabels, PasswordArg, NoArg
  <1>2. CASE SignUpRefuse(p) \/ SignInRefuse(p)
    BY <1>0, <1>2, RefuseAlone DEF SignUpRefuse, SignInRefuse
  <1>3. CASE SignUpTakeOver(p)
    <2>1. pc[p] = "signUp" /\ arg[p].op = "signUp"
      BY <1>0, <1>3, LabelFacts DEF SignUpTakeOver, At, OnRoute, AllRoutes
    <2>2. /\ Found(p) # Nil /\ Found(p).temp
          /\ users[Found(p).id] = Found(p)
          /\ Owners(users, arg[p].key, arg[p].uid) \subseteq {Found(p).id}
      BY <1>0, <1>3, <2>1, KeyFacts, FoundFacts DEF SignUpTakeOver
    <2> DEFINE l == [loc[p] EXCEPT !.removeUserID = Found(p).id]
    <2>3. /\ l.u = loc[p].u /\ l.User = loc[p].User /\ l.UserID = loc[p].UserID
          /\ l.UserIsGuest = loc[p].UserIsGuest /\ l.removeUserID = Found(p).id
      BY <1>0, RequestFacts DEF Locals
    <2>4. Dispensable(users, Found(p).id)
      BY <2>2 DEF Dispensable
    <2> HIDE DEF l
    <2>5. CurrentOK("signUp.remove", arg[p], l, users, sessions)
      BY <1>0, <2>1, <2>3 DEF AloneOK, CurrentOK, AllRoutes
    <2>6. RemovalOK("signUp.remove", arg[p], l, users)
      BY <2>2, <2>3, <2>4 DEF RemovalOK, AllRoutes
    <2>7. HandOK("signUp.remove", arg[p], l, users, sessions)
      BY <1>0, <2>1, <2>3 DEF AloneOK, HandOK, Pending, ToBind
    <2>8. AloneOK("signUp.remove", arg[p], l, users, sessions)
      BY <2>5, <2>6, <2>7 DEF AloneOK
    <2> QED BY <1>0, <1>3, <2>8, ReadAlone DEF SignUpTakeOver, store, l
  <1>4. CASE SignUpRemoveTemp(p)
    <2>1. pc[p] = "signUp.remove" /\ arg[p].op = "signUp"
      BY <1>0, <1>4, LabelFacts DEF SignUpRemoveTemp, At, OnRoute
    <2> DEFINE id == loc[p].removeUserID
    <2>2. /\ Dispensable(users, id)
          /\ Owners(users, arg[p].key, arg[p].uid) \subseteq {id}
          /\ id \in UserIds \cup {Nil}
      BY <1>0, <2>1, RequestFacts DEF AloneOK, RemovalOK
    <2>3. users' = RemoveByID(users, id) /\ sessions' = sessions
      BY <1>4 DEF SignUpRemoveTemp
    <2>4. Owners(users', arg[p].key, arg[p].uid) = {}
      BY <1>0, <2>2, <2>3, StorerEffects
    <2>5. loc[p].User # Nil => Fresh(users, loc[p].User) /\ loc[p].User \in User
      BY <1>0, <2>1, RequestFacts DEF AloneOK, CurrentOK
    <2>6. loc[p].User # Nil => Fresh(users', loc[p].User)
      BY <1>0, <2>3, <2>5, StorerEffects
    <2>7. CurrentOK("signUp.save", arg[p], loc[p], users', sessions')
      BY <1>0, <2>1, <2>6 DEF AloneOK, CurrentOK, AllRoutes
    <2>8. RemovalOK("signUp.save", arg[p], loc[p], users')
      BY <2>4 DEF RemovalOK, AllRoutes
    <2>9. HandOK("signUp.save", arg[p], loc[p], users', sessions')
      BY <1>0, <2>1, <2>3 DEF AloneOK, HandOK, Pending, ToBind
    <2>10. RemovalFine
      BY <2>2, <2>3 DEF RemovalFine
    <2> QED BY <1>0, <1>4, <2>7, <2>8, <2>9, <2>10, Control DEF SignUpRemoveTemp, Fine, AloneOK
  <1>5. CASE SignUpNotFound(p)
    <2>1. pc[p] = "signUp" /\ arg[p].op = "signUp"
      BY <1>0, <1>5, LabelFacts DEF SignUpNotFound, At, OnRoute, AllRoutes
    <2>2. Owners(users, arg[p].key, arg[p].uid) = {}
      BY <1>0, <1>5, <2>1, KeyFacts, FoundFacts DEF SignUpNotFound
    <2>3. CurrentOK("signUp.save", arg[p], loc[p], users, sessions)
      BY <1>0, <2>1 DEF AloneOK, CurrentOK, AllRoutes
    <2>4. RemovalOK("signUp.save", arg[p], loc[p], users)
      BY <2>2 DEF RemovalOK, AllRoutes
    <2>5. HandOK("signUp.save", arg[p], loc[p], users, sessions)
      BY <1>0, <2>1 DEF AloneOK, HandOK, Pending, ToBind
    <2>6. AloneOK("signUp.save", arg[p], loc[p], users, sessions)
      BY <2>3, <2>4, <2>5 DEF AloneOK
    <2> QED BY <1>0, <1>5, <2>6, ReadAlone DEF SignUpNotFound, store
  <1>6. CASE SignUpSave(p)
    <2>1. pc[p] = "signUp.save" /\ arg[p].op = "signUp"
      BY <1>0, <1>6, LabelFacts DEF SignUpSave, At, OnRoute
    <2> DEFINE k == arg[p].key
               uid == arg[p].uid
               named(base) == SetUID(base, k, uid)
               v(base) == SetPassword(named(base), k, arg[p].secret)
               w(base, code) == IF ConfirmableUser THEN WithConfirmCode(v(base), k, code)
                                                   ELSE v(base)
    <2>2. PICK base \in SignUpBase(p), code \in Codes :
            \/ /\ Save(w(base, code))
               /\ Continue(p, [loc[p] EXCEPT !.u = w(base, code)], "signUp.bind")
            \/ SaveFails(w(base, code)) /\ Return(p)
      BY <1>6 DEF SignUpSave
    <2>3. k \in Keys /\ uid \in UIDs /\ arg[p].secret \in Passwords
      BY <1>0, <2>1, KeyFacts
    <2>4. Owners(users, k, uid) = {}
      BY <1>0, <2>1 DEF AloneOK, RemovalOK
    <2>5. /\ base \in User /\ ~base.temp
          /\ users[base.id] # Nil => /\ users[base.id] \in User
                                     /\ users[base.id].auths = base.auths
      <3>1. CASE GuestUser /\ loc[p].UserIsGuest
        <4>1. base = SetGuest(loc[p].User, FALSE) /\ loc[p].User \in User
          BY <1>0, <2>1, <3>1, LabelFacts DEF SignUpBase
        <4>2. Fresh(users, loc[p].User) /\ ~loc[p].User.temp
          BY <1>0, <2>1, <4>1, UserFacts DEF AloneOK, CurrentOK
        <4>3. /\ base \in User /\ base.id = loc[p].User.id
              /\ base.temp = loc[p].User.temp /\ base.auths = loc[p].User.auths
          BY <4>1, SetFlagType, FlagsSet
        <4> QED BY <4>1, <4>2, <4>3 DEF Fresh
      <3>2. CASE ~(GuestUser /\ loc[p].UserIsGuest)
        <4>1. PICK id \in FreeIds : base = NewUser(id)
          BY <3>2 DEF SignUpBase
        <4> QED BY <4>1, FreeFacts, NewUserFacts
      <3> QED BY <3>1, <3>2
    <2>6. /\ named(base) \in User /\ named(base).id = base.id
          /\ ~named(base).temp /\ GetUID(named(base), k) = uid
          /\ SentAt(named(base), k) = Nil
          /\ \A j \in Keys \ {k} : named(base).auths[j] = base.auths[j]
      BY <2>3, <2>5, SetUIDType, SetUIDAfresh
    <2> HIDE DEF named
    <2>7. v(base) \in User /\ Beside(v(base), named(base), k)
      BY <2>3, <2>6, SetPasswordType, SettersBeside
    <2>8. w(base, code) \in User /\ Beside(w(base, code), named(base), k)
      <3> HIDE DEF v
      <3> DEFINE c == SetConfirmCode(v(base), k, code)
      <3>1. c \in User /\ Beside(c, v(base), k)
        BY <2>3, <2>7, SetCodeType, SettersBeside
      <3> HIDE DEF c
      <3>2. StampCode(c, k) \in User /\ Beside(StampCode(c, k), c, k)
        BY <2>3, <3>1, StampType, SettersBeside
      <3>3. w(base, code) = IF ConfirmableUser THEN StampCode(c, k) ELSE v(base)
        BY DEF c, WithConfirmCode
      <3> HIDE DEF w
      <3> QED BY <2>7, <3>1, <3>2, <3>3 DEF Beside
    <2> DEFINE u == w(base, code)
    <2> HIDE DEF v, w
    <2>9. /\ u \in User /\ u.id = base.id /\ ~u.temp /\ GetUID(u, k) = uid
          /\ \A j \in Keys \ {k} : u.auths[j] = base.auths[j]
      BY <2>6, <2>8 DEF Beside
    <2> HIDE DEF u
    <2>10. SucceedsStored(users, u)
      <3> SUFFICES ASSUME users[base.id] # Nil PROVE Succeeds(u, users[base.id])
        BY <2>9 DEF SucceedsStored
      <3> DEFINE old == users[base.id]
      <3>1. old.id = base.id /\ old \in User /\ base.id \in Stored(users)
        BY <1>0, <2>5, UserFacts DEF Storer, Stored
      <3>2. GetUID(old, k) # uid
        <4> SUFFICES ASSUME GetUID(old, k) = uid PROVE FALSE
          OBVIOUS
        <4>1. Present(old, k)
          BY <2>3, EmptyIsNoValue DEF Present, GetUID, ZeroIdentity
        <4> QED BY <2>4, <3>1, <4>1 DEF Owners
      <3>3. \A j \in Keys : GetUID(u, j) # GetUID(old, j) \/ u.auths[j] = old.auths[j]
        BY <2>5, <2>9, <3>2
      <3> HIDE DEF old
      <3>4. Succeeds(u, old)
        BY <2>9, <3>1, <3>3, OthersSucceed
      <3> QED BY <3>4 DEF old
    <2>11. CASE SaveFails(u) /\ Return(p)
      BY <1>0, <1>6, <2>11, ReturnAlone DEF SignUpSave, SaveFails, Fine, BindFine
    <2>12. CASE Save(u) /\ Continue(p, [loc[p] EXCEPT !.u = u], "signUp.bind")
      <3>1. SaveFine
        BY <1>6, <2>9, <2>10, <2>12 DEF SignUpSave, SaveFine, TempOK
      <3> DEFINE l == [loc[p] EXCEPT !.u = u]
      <3>2. l.u = u /\ l.User = loc[p].User /\ l.UserID = loc[p].UserID
        BY <1>0, InHand
      <3> HIDE DEF l
      <3>3. users'[u.id] = u
        BY <1>0, <2>9, <2>12, StorerEffects DEF Save
      <3>4. CurrentOK("signUp.bind", arg[p], l, users', sessions')
        BY <1>0, <3>2, CurrentOn DEF AloneOK
      <3>5. HandOK("signUp.bind", arg[p], l, users', sessions')
        BY <2>1, <2>9, <3>2, <3>3 DEF HandOK, Pending
      <3>6. AloneOK("signUp.bind", arg[p], l, users', sessions')
        BY <3>4, <3>5, NoRemoval DEF AloneOK
      <3> QED BY <1>0, <2>12, <3>1, <3>6, Control DEF Fine, l
    <2> QED BY <2>2, <2>11, <2>12 DEF u
  <1>7. CASE SignUpBind(p)
    <2>1. pc[p] = "signUp.bind" /\ arg[p].op = "signUp" /\ loc[p].u \in User
      BY <1>0, <1>7, LabelFacts DEF SignUpBind, At, OnRoute, HoldsUser
    <2>2. (users[loc[p].u.id] # Nil => ~users[loc[p].u.id].temp) /\ arg[p].s \in Sessions
      BY <1>0, <2>1, KeyFacts DEF AloneOK, HandOK, ToBind
    <2> QED BY <1>0, <1>7, <2>1, <2>2, UserFacts, ReturnAlone DEF SignUpBind, Fine, BindFine
  <1>8. CASE SignInLoad(p)
    <2>1. pc[p] = "signIn" /\ arg[p].op = "signIn"
      BY <1>0, <1>8, LabelFacts DEF SignInLoad, At, OnRoute, AllRoutes
    <2> DEFINE u == Found(p)
               l == [loc[p] EXCEPT !.u = u]
    <2>2. u \in User /\ ~u.temp /\ users[u.id] = u
      BY <1>0, <1>8, <2>1, KeyFacts, FoundFacts DEF SignInLoad, SignInAccepted
    <2>3. SucceedsStored(users, u)
      BY <2>2, OthersSucceed DEF SucceedsStored
    <2>4. /\ l.u = u /\ l.User = loc[p].User /\ l.UserID = loc[p].UserID
          /\ l.UserIsGuest = loc[p].UserIsGuest
      BY <1>0, InHand
    <2>5. loc[p].UserIsGuest => Dispensable(users, loc[p].UserID)
      BY <1>0, <2>1 DEF AloneOK, RemovalOK, AllRoutes
    <2>6. loc[p].UserIsGuest /\ u.id = loc[p].UserID => u.guest \/ u.temp
      BY <2>2, <2>5, UserFacts DEF Dispensable
    <2> HIDE DEF l, u
    <2>7. CurrentOK("signIn.bind", arg[p], l, users, sessions)
      BY <1>0, <2>4, CurrentOn DEF AloneOK
    <2>8. RemovalOK("signIn.bind", arg[p], l, users)
      BY <2>4, <2>5, <2>6 DEF RemovalOK, AllRoutes
    <2>9. HandOK("signIn.bind", arg[p], l, users, sessions)
      BY <2>1, <2>2, <2>3, <2>4 DEF HandOK
    <2>10. AloneOK("signIn.bind", arg[p], l, users, sessions)
      BY <2>7, <2>8, <2>9 DEF AloneOK
    <2> QED BY <1>0, <1>8, <2>10, ReadAlone DEF SignInLoad, store, l, u
  <1>9. CASE SignInBind(p)
    <2>1. pc[p] = "signIn.bind" /\ arg[p].op = "signIn" /\ loc[p].u \in User
      BY <1>0, <1>9, LabelFacts DEF SignInBind, At, OnRoute, HoldsUser
    <2>2. /\ users[loc[p].u.id] # Nil => ~users[loc[p].u.id].temp
          /\ SucceedsStored(users, loc[p].u) /\ ~loc[p].u.temp /\ arg[p].s \in Sessions
      BY <1>0, <2>1, KeyFacts DEF AloneOK, HandOK, ToBind, Pending
    <2>3. BindFine
      BY <1>9, <2>1, <2>2, UserFacts DEF SignInBind, BindFine
    <2>4. CurrentOK("signIn.save", arg[p], loc[p], users', sessions')
      BY <1>0, CurrentOn DEF AloneOK
    <2>5. RemovalOK("signIn.save", arg[p], loc[p], users')
      BY <1>0, <1>9, <2>1 DEF SignInBind, AloneOK, RemovalOK, AllRoutes
    <2>6. HandOK("signIn.save", arg[p], loc[p], users', sessions')
      BY <1>9, <2>1, <2>2 DEF SignInBind, HandOK, ToBind
    <2> QED BY <1>0, <1>9, <2>3, <2>4, <2>5, <2>6, Control DEF SignInBind, Fine, AloneOK
  <1>10. CASE SignInSave(p)
    <2>1. pc[p] = "signIn.save" /\ arg[p].op = "signIn" /\ loc[p].u \in User
      BY <1>0, <1>10, LabelFacts DEF SignInSave, At, OnRoute, HoldsUser
    <2>2. SucceedsStored(users, loc[p].u) /\ ~loc[p].u.temp
      BY <1>0, <2>1 DEF AloneOK, HandOK, Pending
    <2>3. SaveFine \/ BindFine
      BY <1>10, <2>1, <2>2 DEF SignInSave, SaveFails, SaveFine, BindFine, TempOK
    <2>4. CASE Return(p)
      BY <1>0, <2>3, <2>4, ReturnAlone DEF Fine
    <2>5. CASE /\ Save(loc[p].u) /\ loc[p].UserIsGuest
               /\ Continue(p, loc[p], "removeGuest")
      <3>1. CurrentOK("removeGuest", arg[p], loc[p], users', sessions')
        BY <1>0, CurrentOn DEF AloneOK
      <3>2. Dispensable(users', loc[p].UserID)
        <4>1. /\ users'[loc[p].u.id] = loc[p].u
              /\ \A i \in UserIds \ {loc[p].u.id} : users'[i] = users[i]
          BY <1>0, <2>1, <2>5, StorerEffects DEF Save
        <4>2. Dispensable(users, loc[p].UserID)
          BY <1>0, <2>1, <2>5 DEF AloneOK, RemovalOK
        <4>3. loc[p].u.id = loc[p].UserID => loc[p].u.guest \/ loc[p].u.temp
          BY <1>0, <2>1, <2>5 DEF AloneOK, RemovalOK
        <4> QED BY <4>1, <4>2, <4>3 DEF Dispensable
      <3>3. RemovalOK("removeGuest", arg[p], loc[p], users')
        BY <2>5, <3>2 DEF RemovalOK, AllRoutes
      <3>4. HandOK("removeGuest", arg[p], loc[p], users', sessions')
        BY <2>1, <2>2 DEF HandOK, Pending, ToBind
      <3> QED BY <1>0, <2>3, <2>5, <3>1, <3>3, <3>4, Control DEF Fine, AloneOK
    <2> QED BY <1>10, <2>4, <2>5 DEF SignInSave
  <1> QED BY <1>1, <1>2, <1>3, <1>4, <1>5, <1>6, <1>7, <1>8, <1>9, <1>10
          DEF PasswordStep

\* confirm, resend, requestRecovery and recovery.
LEMMA CodeAlone ==
  ASSUME SeqInv, NEW p \in Procs, CodeStep(p)
  PROVE  Fine(p)
  <1>0. TypeOK /\ AloneOK(pc[p], arg[p], loc[p], users, sessions)
    BY DEF SeqInv
  <1>1. CASE ConfirmBegin(p) \/ ResendBegin(p) \/ RequestRecoveryBegin(p) \/ RecoveryBegin(p)
    <2>1. CASE ConfirmBegin(p)
      BY <2>1, BeginAlone DEF ConfirmBegin, CodeArg, NoArg, FirstLabels
    <2>2. CASE ResendBegin(p)
      BY <2>2, BeginAlone DEF ResendBegin, BeginWithSession, NoArg, FirstLabels
    <2>3. CASE RequestRecoveryBegin(p)
      BY <2>3, BeginAlone DEF RequestRecoveryBegin, CodeArg, NoArg, FirstLabels
    <2>4. CASE RecoveryBegin(p)
      BY <2>4, BeginAlone DEF RecoveryBegin, CodeArg, NoArg, FirstLabels
    <2> QED BY <1>1, <2>1, <2>2, <2>3, <2>4
  <1>2. CASE ConfirmRefuse(p) \/ ResendRefuse(p) \/ RequestRecoveryRefuse(p) \/ RecoveryRefuse(p)
    BY <1>0, <1>2, RefuseAlone
       DEF ConfirmRefuse, ResendRefuse, RequestRecoveryRefuse, RecoveryRefuse
  <1> DEFINE k == arg[p].key
             v == Found(p)
  <1>3. ASSUME pc[p] \in {"confirm", "requestRecovery", "recovery"}
        PROVE  /\ k \in Keys /\ (pc[p] = "recovery" => arg[p].secret \in Passwords)
               /\ v # Nil => /\ v \in User /\ Fresh(users, v) /\ TempOK(v)
                             /\ v.temp => Unbound(sessions, v.id)
    <2>1. arg[p].op = pc[p]
      BY <1>0, <1>3, LabelFacts DEF OnRoute, AllRoutes
    <2> QED BY <1>0, <1>3, <2>1, KeyFacts, FoundFacts DEF Fresh
  <1>4. CASE ConfirmLoad(p)
    <2>1. pc[p] = "confirm" /\ v # Nil
      BY <1>4 DEF ConfirmLoad, ConfirmAccepted, At
    <2> DEFINE x == ClearStamp(v, k)
               u == SetConfirmed(x, k, TRUE)
    <2>2. /\ k \in Keys /\ v \in User /\ Fresh(users, v) /\ TempOK(v)
          /\ v.temp => Unbound(sessions, v.id)
      BY <1>3, <2>1
    <2> HIDE DEF v, k
    <2>3. x \in User /\ Kept(x, v)
      BY <2>2, StampType, SettersKeep
    <2> HIDE DEF x
    <2>4. u \in User /\ Kept(u, x)
      BY <2>2, <2>3, SetConfirmedType, SettersKeep
    <2>5. Continue(p, [loc[p] EXCEPT !.u = u], "save") /\ UNCHANGED <<users, sessions>>
      BY <1>4 DEF ConfirmLoad, store, v, k, x
    <2> HIDE DEF u
    <2>6. Kept(u, v)
      BY <2>2, <2>3, <2>4, KeptOn
    <2>7. u.id = v.id /\ Succeeds(u, v) /\ TempOK(u)
      BY <2>2, <2>6, KeptOn DEF Kept
    <2> QED BY <2>1, <2>2, <2>4, <2>5, <2>7, GoSaveFrom
  <1>5. CASE ResendNewCode(p)
    <2>1. pc[p] = "resend" /\ arg[p].op = "resend"
      BY <1>0, <1>5, LabelFacts DEF ResendNewCode, At, OnRoute, AllRoutes
    <2> DEFINE user == loc[p].User
    <2>2. PICK code \in Codes :
            /\ Continue(p, [loc[p] EXCEPT !.u = SetConfirmCode(StampCode(user, k), k, code)], "save")
            /\ UNCHANGED <<users, sessions>>
      BY <1>5 DEF ResendNewCode, store
    <2> DEFINE x == StampCode(user, k)
               u == SetConfirmCode(x, k, code)
    <2>3. k \in Keys /\ user \in User /\ MayResend(user, k)
      BY <1>0, <1>5, <2>1, KeyFacts, RequestFacts DEF ResendNewCode, ResendAccepted
    <2>4. Fresh(users, user) /\ ~user.temp
      BY <1>0, <2>1, <2>3, UserFacts DEF AloneOK, CurrentOK, AllRoutes
    <2> HIDE DEF user, k
    <2>5. x \in User /\ Succeeds(x, user) /\ x.id = user.id
      BY <2>3, <2>2, StampType, StampSucceeds, SettersBeside DEF Beside
    <2> HIDE DEF x
    <2>6. u \in User /\ Kept(u, x)
      BY <2>3, <2>5, SetCodeType, SettersKeep
    <2> HIDE DEF u
    <2>7. u.id = user.id /\ Succeeds(u, user)
      BY <2>5, <2>6, KeptOn DEF Kept
    <2>8. TempOK(u)
      BY <2>4, <2>7 DEF Succeeds, TempOK
    <2> QED BY <2>1, <2>2, <2>3, <2>4, <2>6, <2>7, <2>8, GoSaveFrom DEF u, x
  <1>6. CASE RequestRecoveryLoad(p)
    <2>1. pc[p] = "requestRecovery" /\ v # Nil /\ ~v.temp /\ MayResend(v, k)
      BY <1>6 DEF RequestRecoveryLoad, RequestRecoveryAccepted, At
    <2>2. PICK code \in Codes :
            /\ Continue(p, [loc[p] EXCEPT !.u = SetRecoveryCode(StampCode(v, k), k, code)], "save")
            /\ UNCHANGED <<users, sessions>>
      BY <1>6 DEF RequestRecoveryLoad, store
    <2> DEFINE x == StampCode(v, k)
               u == SetRecoveryCode(x, k, code)
    <2>3. k \in Keys /\ v \in User /\ Fresh(users, v)
      BY <1>3, <2>1
    <2> HIDE DEF v, k
    <2>4. x \in User /\ Succeeds(x, v) /\ x.id = v.id
      BY <2>1, <2>2, <2>3, StampType, StampSucceeds, SettersBeside DEF Beside
    <2> HIDE DEF x
    <2>5. u \in User /\ Kept(u, x)
      BY <2>3, <2>4, SetCodeType, SettersKeep
    <2> HIDE DEF u
    <2>6. u.id = v.id /\ Succeeds(u, v)
      BY <2>4, <2>5, KeptOn DEF Kept
    <2>7. TempOK(u)
      BY <2>1, <2>6 DEF Succeeds, TempOK
    <2> QED BY <2>1, <2>2, <2>3, <2>5, <2>6, <2>7, GoSaveFrom DEF u, x
  <1>7. CASE RecoveryLoad(p)
    <2>1. pc[p] = "recovery" /\ v # Nil
      BY <1>7 DEF RecoveryLoad, RecoveryAccepted, At
    <2>2. /\ k \in Keys /\ v \in User /\ Fresh(users, v) /\ TempOK(v)
          /\ v.temp => Unbound(sessions, v.id)
          /\ arg[p].secret \in Passwords
      BY <1>3, <2>1
    <2> DEFINE x == ClearStamp(v, k)
               y == SetPassword(x, k, arg[p].secret)
               u == SetRecoveryCode(y, k, Empty)
    <2>3. Continue(p, [loc[p] EXCEPT !.u = u], "save") /\ UNCHANGED <<users, sessions>>
      BY <1>7 DEF RecoveryLoad, NewPassword, store
    <2> HIDE DEF v, k
    <2>4. x \in User /\ Kept(x, v)
      BY <2>2, StampType, SettersKeep
    <2> HIDE DEF x
    <2>5. y \in User /\ Kept(y, x)
      BY <2>2, <2>4, SetPasswordType, SettersKeep
    <2> HIDE DEF y
    <2>6. u \in User /\ Kept(u, y)
      BY <2>2, <2>5, SetCodeType, SettersKeep
    <2> HIDE DEF u
    <2>7. Kept(u, v)
      BY <2>2, <2>4, <2>5, <2>6, KeptOn
    <2>8. u.id = v.id /\ Succeeds(u, v) /\ TempOK(u)
      BY <2>2, <2>7, KeptOn DEF Kept
    <2> QED BY <2>1, <2>2, <2>3, <2>6, <2>8, GoSaveFrom
  <1> QED BY <1>1, <1>2, <1>4, <1>5, <1>6, <1>7 DEF CodeStep

\* profile.
LEMMA ProfileAlone ==
  ASSUME SeqInv, NEW p \in Procs, ProfileStep(p)
  PROVE  Fine(p)
  <1>0. TypeOK /\ AloneOK(pc[p], arg[p], loc[p], users, sessions)
    BY DEF SeqInv
  <1>1. CASE ProfileBegin(p)
    BY <1>1, BeginAlone DEF ProfileBegin, BeginWithSession, FirstLabels, NoArg
  <1>2. CASE ProfileRefuse(p)
    BY <1>0, <1>2, RefuseAlone DEF ProfileRefuse
  <1>3. CASE UpdateProfile(p)
    <2> DEFINE v == loc[p].User
    <2>1. pc[p] = "profile" /\ v \in User
      BY <1>0, <1>3, RequestFacts DEF UpdateProfile, At
    <2>2. Fresh(users, v) /\ ~v.temp
      BY <1>0, <2>1, UserFacts DEF AloneOK, CurrentOK, AllRoutes
    <2>3. Continue(p, [loc[p] EXCEPT !.u = v], "save") /\ UNCHANGED <<users, sessions>>
      BY <1>3 DEF UpdateProfile, store
    <2> HIDE DEF v
    <2>4. Succeeds(v, v) /\ TempOK(v)
      BY <2>1, <2>2, OthersSucceed DEF TempOK
    <2> QED BY <2>1, <2>2, <2>3, <2>4, GoSaveFrom
  <1> QED BY <1>1, <1>2, <1>3 DEF ProfileStep

\* What linking or merging makes of the current user: it gains identities of
\* methods it had none of.
LEMMA LinkedSucceeds ==
  ASSUME NEW current \in User, NEW link \in User, NEW k \in Keys,
         GetUID(current, k) = Empty, GetUID(link, k) # Empty
  PROVE  /\ LinkIdentity(current, link, k).id = current.id
         /\ MergeIdentities(current, link).id = current.id
         /\ Succeeds(LinkIdentity(current, link, k), current)
         /\ Succeeds(MergeIdentities(current, link), current)
  <1> DEFINE v == SetUID(current, k, GetUID(link, k))
             w == IF k \in PasswordKeys THEN SetPassword(v, k, link.auths[k].password) ELSE v
             u == SetConfirmed(w, k, link.auths[k].confirmed)
             m == MergeIdentities(current, link)
  <1>1. link.auths[k] \in Identity
    BY DEF User
  <1>2. /\ v \in User /\ v.id = current.id /\ v.temp = current.temp
        /\ GetUID(v, k) = GetUID(link, k)
        /\ \A j \in Keys \ {k} : v.auths[j] = current.auths[j]
    BY UserFacts, SetUIDType, SetUIDAfresh
  <1> HIDE DEF v
  <1>3. w \in User /\ Beside(w, v, k)
    <2>1. link.auths[k].password \in Passwords \cup Codes \cup {Empty}
      BY <1>1 DEF Identity
    <2>2. Beside(v, v, k)
      BY DEF Beside
    <2> QED BY <1>2, <2>1, <2>2, SetPasswordType, SettersBeside
  <1> HIDE DEF w
  <1>4. Beside(u, w, k)
    BY <1>3, SettersBeside
  <1> HIDE DEF u
  <1>5. /\ u.id = current.id /\ u.temp = current.temp /\ GetUID(u, k) # GetUID(current, k)
        /\ \A j \in Keys \ {k} : u.auths[j] = current.auths[j]
    BY <1>2, <1>3, <1>4 DEF Beside
  <1>6. Succeeds(u, current)
    BY <1>5, OthersSucceed
  <1>7. LinkIdentity(current, link, k) = u
    BY DEF LinkIdentity, u, w, v
  <1>8. /\ m.id = current.id /\ m.temp = current.temp
        /\ \A j \in Keys : GetUID(m, j) # GetUID(current, j) \/ m.auths[j] = current.auths[j]
    <2>1. \A j \in Keys : m.auths[j] = IF Moves(current, link, j) THEN Moved(link, j)
                                                                 ELSE current.auths[j]
      BY DEF MergeIdentities, User
    <2>2. \A j \in Keys : Moved(link, j).uid = GetUID(link, j)
      BY DEF Moved, ZeroIdentity
    <2>3. \A j \in Keys : Moves(current, link, j) => GetUID(m, j) # GetUID(current, j)
      BY <2>1, <2>2 DEF Moves, GetUID
    <2>4. m.id = current.id /\ m.temp = current.temp
      BY DEF MergeIdentities, User
    <2> QED BY <2>1, <2>3, <2>4
  <1> HIDE DEF m
  <1>9. Succeeds(m, current)
    BY <1>8, OthersSucceed
  <1> QED BY <1>5, <1>6, <1>7, <1>8, <1>9 DEF m

\* Confirming an identity leaves its uid and password alone,
LEMMA ConfirmedCredentials ==
  ASSUME NEW f \in User, NEW k \in Keys
  PROVE  \A w \in {ClearStamp(f, k), SetConfirmed(f, k, TRUE)} :
           GetUID(w, k) = GetUID(f, k) /\ w.auths[k].password = f.auths[k].password
  BY DEF ClearStamp, SetCodeSentTime, SetConfirmed, GetUID, User, Identity

\* so the user that POST link goes on with has the uid and password of the
\* request, whether it compared the password (a merge) or sets it.
LEMMA LinkedCredentials ==
  ASSUME NEW f \in User, NEW a, a.key \in Keys, GetUID(f, a.key) = a.uid, a.uid \in UIDs
  PROVE  LET v == IF f.auths[a.key].confirmed THEN f
                  ELSE SetConfirmed(ClearStamp(f, a.key), a.key, TRUE)
         IN  /\ f.auths[a.key].password = a.secret => HoldsCredentials(a, v)
             /\ HoldsCredentials(a, SetPassword(v, a.key, a.secret))
  <1> DEFINE k == a.key
             x == ClearStamp(f, k)
             v == IF f.auths[k].confirmed THEN f ELSE SetConfirmed(x, k, TRUE)
  <1>1. x \in User /\ GetUID(x, k) = GetUID(f, k) /\ x.auths[k].password = f.auths[k].password
    BY ConfirmedCredentials, StampType
  <1> HIDE DEF x
  <1>2. v \in User /\ GetUID(v, k) = GetUID(f, k) /\ v.auths[k].password = f.auths[k].password
    BY <1>1, ConfirmedCredentials, SetConfirmedType
  <1> HIDE DEF v
  <1>3. /\ GetUID(SetPassword(v, k, a.secret), k) = GetUID(v, k)
        /\ SetPassword(v, k, a.secret).auths[k].password = a.secret
    <2>1. Present(v, k)
      BY <1>2, EmptyIsNoValue DEF Present, GetUID, ZeroIdentity
    <2> QED BY <1>2, <2>1 DEF SetPassword, GetUID, User, Identity
  <1>4. /\ f.auths[k].password = a.secret => HoldsCredentials(a, v)
        /\ HoldsCredentials(a, SetPassword(v, k, a.secret))
    BY <1>2, <1>3 DEF HoldsCredentials
  <1> QED BY <1>4 DEF v, x

\* initLink, link and linkAccount.
LEMMA LinkAlone ==
  ASSUME SeqInv, NEW p \in Procs, LinkStep(p)
  PROVE  Fine(p)
  <1>0. TypeOK /\ Storer(users) /\ AloneOK(pc[p], arg[p], loc[p], users, sessions)
    BY TypeParts DEF SeqInv
  <1>1. CASE InitLinkBegin(p) \/ LinkBegin(p)
    <2>1. CASE InitLinkBegin(p)
      BY <2>1, BeginAlone DEF InitLinkBegin, BeginLinkRoute, NoArg, FirstLabels
    <2>2. CASE LinkBegin(p)
      BY <2>2, BeginAlone DEF LinkBegin, BeginLinkRoute, FirstLabels
    <2> QED BY <1>1, <2>1, <2>2
  <1>2. CASE InitLinkRefuse(p) \/ LinkRefuse(p) \/ LinkAccountRefuse(p)
    BY <1>0, <1>2, RefuseAlone DEF InitLinkRefuse, LinkRefuse, LinkAccountRefuse
  <1>3. CASE InitLinkPrepare(p)
    <2>1. pc[p] = "initLink" /\ arg[p].op = "initLink"
      BY <1>0, <1>3, LabelFacts DEF InitLinkPrepare, At, OnRoute, AllRoutes
    <2> DEFINE k == arg[p].key
               x(base, code) == SetConfirmCode(base, k, code)
               w(base, code) == IF base.auths[k].confirmed THEN base
                                ELSE StampCode(x(base, code), k)
    <2>2. k \in PasswordKeys /\ k \in Keys /\ arg[p].uid \in UIDs
      BY <1>0, <2>1, KeyFacts DEF PasswordOps
    <2>3. LinkAccount
      BY <1>0, <2>1 DEF AloneOK, HandOK
    <2>4. PICK base \in InitLinkUser(p), code \in Codes :
            /\ Continue(p, [loc[p] EXCEPT !.u = w(base, code)], "save")
            /\ UNCHANGED <<users, sessions>>
      BY <1>3 DEF InitLinkPrepare, store
    <2>5. /\ base \in User /\ Fresh(users, base) /\ TempOK(base)
          /\ base.temp => Unbound(sessions, base.id)
          /\ base.auths[k].confirmed \/ MayResend(base, k)
      <3>1. CASE Found(p) # Nil
        <4>1. base = Found(p)
          BY <3>1 DEF InitLinkUser
        <4> QED BY <1>0, <1>3, <2>2, <3>1, <4>1, FoundFacts
                DEF InitLinkPrepare, InitLinkAccepted, Fresh
      <3>2. CASE Found(p) = Nil
        <4>1. PICK id \in FreeIds : base = TempUser(id, k, arg[p].uid)
          BY <3>2 DEF InitLinkUser
        <4> QED BY <2>2, <2>3, <4>1, TempUserFacts DEF Fresh, MayResend
      <3> QED BY <3>1, <3>2
    <2> HIDE DEF k
    <2>6. w(base, code) \in User /\ w(base, code).id = base.id
            /\ Succeeds(w(base, code), base) /\ TempOK(w(base, code))
      <3>1. CASE base.auths[k].confirmed
        BY <2>5, <3>1, OthersSucceed
      <3>2. CASE ~base.auths[k].confirmed
        <4>1. x(base, code) \in User /\ Beside(x(base, code), base, k)
          BY <2>2, <2>4, <2>5, SetCodeType, SettersBeside
        <4>2. Succeeds(StampCode(x(base, code), k), base)
          BY <2>2, <2>4, <2>5, <3>2, StampSucceeds
        <4> HIDE DEF x
        <4>3. StampCode(x(base, code), k) \in User
                /\ Beside(StampCode(x(base, code), k), x(base, code), k)
          BY <2>2, <4>1, StampType, SettersBeside
        <4>4. w(base, code) = StampCode(x(base, code), k)
          BY <3>2
        <4> HIDE DEF w
        <4>5. w(base, code).id = base.id /\ TempOK(w(base, code))
          BY <2>5, <4>1, <4>3, <4>4, BesideTempOK DEF Beside
        <4> QED BY <4>2, <4>3, <4>4, <4>5
      <3> QED BY <3>1, <3>2
    <2> HIDE DEF w
    <2> QED BY <2>1, <2>4, <2>5, <2>6, GoSaveFrom
  <1>4. CASE LinkLoad(p)
    <2>1. pc[p] = "link" /\ arg[p].op = "link" /\ Found(p) # Nil
      BY <1>0, <1>4, LabelFacts DEF LinkLoad, LinkAccepted, At, OnRoute, AllRoutes
    <2> DEFINE k == arg[p].key
               f == Found(p)
               x == ClearStamp(f, k)
               v == IF f.auths[k].confirmed THEN f ELSE SetConfirmed(x, k, TRUE)
               u == IF Merging(p) THEN v ELSE SetPassword(v, k, arg[p].secret)
               l == [loc[p] EXCEPT !.u = u]
    <2>2. k \in Keys /\ arg[p].uid \in UIDs /\ arg[p].secret \in Passwords
      BY <1>0, <2>1, KeyFacts
    <2>3. /\ f \in User /\ users[f.id] = f /\ GetUID(f, k) = arg[p].uid /\ TempOK(f)
          /\ f.temp => Unbound(sessions, f.id)
      BY <2>1, <2>2, FoundFacts
    <2>4. Continue(p, l, "link.save") /\ UNCHANGED <<users, sessions>>
      BY <1>4 DEF LinkLoad, store
    <2>5. l.u = u /\ l.User = loc[p].User /\ l.UserID = loc[p].UserID
      BY <1>0, InHand
    <2> HIDE DEF f, k, l
    <2>6. x \in User /\ Kept(x, f)
      BY <2>2, <2>3, StampType, SettersKeep
    <2> HIDE DEF x
    <2>7. v \in User /\ Kept(v, f)
      <3>1. SetConfirmed(x, k, TRUE) \in User /\ Kept(SetConfirmed(x, k, TRUE), x)
        BY <2>2, <2>6, SetConfirmedType, SettersKeep
      <3>2. Kept(SetConfirmed(x, k, TRUE), f) /\ Kept(f, f)
        BY <2>2, <2>3, <2>6, <3>1, KeptOn, SettersKeep
      <3> QED BY <2>3, <3>1, <3>2
    <2> HIDE DEF v
    <2>8. u \in User /\ Kept(u, f)
      <3>1. SetPassword(v, k, arg[p].secret) \in User /\ Kept(SetPassword(v, k, arg[p].secret), v)
        BY <2>2, <2>7, SetPasswordType, SettersKeep
      <3>2. Kept(SetPassword(v, k, arg[p].secret), f)
        BY <2>3, <2>7, <3>1, KeptOn
      <3> QED BY <2>7, <3>1, <3>2
    <2> HIDE DEF u
    <2>9. u.id = f.id /\ Succeeds(u, f) /\ TempOK(u) /\ u.temp = f.temp
      BY <2>3, <2>8, KeptOn DEF Kept
    <2>10. SucceedsStored(users, u)
      BY <2>3, <2>9 DEF SucceedsStored
    <2>11. /\ loc[p].User # Nil /\ GetUID(loc[p].User, k) = Empty
           => Fresh(users, loc[p].User) /\ u.id # loc[p].User.id
      <3>1. loc[p].User # Nil => loc[p].User \in User /\ Fresh(users, loc[p].User)
        BY <1>0, <2>1, RequestFacts DEF AloneOK, CurrentOK, AllRoutes
      <3> QED BY <2>2, <2>3, <2>9, <3>1, FoundIsAnother
    <2>12. CurrentOK("link.save", arg[p], l, users, sessions)
      BY <1>0, <2>5, <2>11 DEF AloneOK, CurrentOK, AllRoutes, k
    <2>13. HandOK("link.save", arg[p], l, users, sessions)
      <3>1. HoldsCredentials(arg[p], u)
        <4>1. Merging(p) => f.auths[k].password = arg[p].secret
          BY <1>4 DEF LinkLoad, LinkAccepted, f, k
        <4>2. /\ f.auths[k].password = arg[p].secret => HoldsCredentials(arg[p], v)
              /\ HoldsCredentials(arg[p], SetPassword(v, k, arg[p].secret))
          BY <2>2, <2>3, LinkedCredentials DEF k, x, v
        <4> QED BY <4>1, <4>2 DEF u
      <3> QED BY <2>1, <2>3, <2>5, <2>9, <2>10, <3>1 DEF HandOK, ToBind
    <2>14. AloneOK("link.save", arg[p], l, users, sessions)
      BY <2>12, <2>13, NoRemoval DEF AloneOK
    <2> QED BY <1>0, <2>4, <2>14, ReadAlone
  <1>5. CASE LinkSave(p)
    <2>1. pc[p] = "link.save" /\ arg[p].op = "link" /\ loc[p].u \in User
      BY <1>0, <1>5, LabelFacts DEF LinkSave, At, OnRoute, HoldsUser
    <2> DEFINE u == loc[p].u
    <2>2. /\ SucceedsStored(users, u) /\ TempOK(u)
          /\ u.temp => Unbound(sessions, u.id)
      BY <1>0, <2>1, UserFacts DEF AloneOK, HandOK, Pending
    <2>3. SaveFine \/ BindFine
      BY <1>5, <2>1, <2>2 DEF LinkSave, SaveFails, SaveFine, BindFine
    <2>4. CASE Return(p)
      BY <1>0, <2>3, <2>4, ReturnAlone DEF Fine
    <2>5. CASE Save(u) /\ Continue(p, loc[p], "linkAccount")
      <3>1. /\ users'[u.id] = u
            /\ \A i \in UserIds \ {u.id} : users'[i] = users[i]
        BY <1>0, <2>1, <2>5, StorerEffects DEF Save
      <3>2. sessions' = sessions
        BY <1>5 DEF LinkSave
      <3>3. SucceedsStored(users', u)
        BY <2>1, <3>1, OthersSucceed DEF SucceedsStored
      <3>4. loc[p].User # Nil => loc[p].User.id \in UserIds
        BY <1>0, RequestFacts, UserFacts
      <3>5. /\ loc[p].User # Nil /\ GetUID(loc[p].User, arg[p].key) = Empty
            => Fresh(users', loc[p].User) /\ u.id # loc[p].User.id
        <4>1. /\ loc[p].User # Nil /\ GetUID(loc[p].User, arg[p].key) = Empty
              => Fresh(users, loc[p].User) /\ u.id # loc[p].User.id
          BY <1>0, <2>1 DEF AloneOK, CurrentOK
        <4> QED BY <3>1, <3>4, <4>1 DEF Fresh
      <3>6. CurrentOK("linkAccount", arg[p], loc[p], users', sessions')
        BY <1>0, <2>1, <3>5 DEF AloneOK, CurrentOK, AllRoutes
      <3>7. HandOK("linkAccount", arg[p], loc[p], users', sessions')
        <4>1. HoldsCredentials(arg[p], u)
          BY <1>0, <2>1 DEF AloneOK, HandOK
        <4> QED BY <2>1, <2>2, <3>1, <3>2, <3>3, <4>1 DEF HandOK, ToBind
      <3>8. AloneOK("linkAccount", arg[p], loc[p], users', sessions')
        BY <3>6, <3>7, NoRemoval DEF AloneOK
      <3> QED BY <1>0, <2>3, <2>5, <3>8, Control DEF Fine
    <2> QED BY <1>5, <2>4, <2>5 DEF LinkSave
  <1>6. CASE LinkAccountRemove(p)
    <2>1. pc[p] = "linkAccount" /\ arg[p].op \in {"link", "otpAuth", "social"}
      BY <1>0, <1>6, LabelFacts DEF LinkAccountRemove, At, OnRoute
    <2> DEFINE u == Linked(p)
               l == [loc[p] EXCEPT !.u = u]
               link == loc[p].u
               current == loc[p].User
               k == arg[p].key
    <2>2. link \in User /\ k \in Keys
      BY <1>0, <2>1, KeyFacts, LabelFacts DEF HoldsUser
    <2>3. /\ current \in User /\ GetUID(current, k) = Empty /\ GetUID(link, k) # Empty
          /\ ~loc[p].UserIsGuest
          /\ link.temp \/ arg[p].confirm
      BY <1>0, <1>6, RequestFacts
         DEF LinkAccountRemove, LinkPossible, MergeConfirmed, CanLink
    <2>4. Fresh(users, current) /\ link.id # current.id /\ ~current.temp
      BY <1>0, <2>1, <2>3, UserFacts DEF AloneOK, CurrentOK
    <2>5. u \in User /\ u.id = current.id /\ Succeeds(u, current)
      BY <2>2, <2>3, LinkedSucceeds, LinkIdentityType, MergeIdentitiesType DEF Linked
    <2>6. ~u.temp
      BY <2>4, <2>5 DEF Succeeds
    <2>7. users' = RemoveByID(users, link.id) /\ sessions' = sessions
      BY <1>6 DEF LinkAccountRemove
    <2>8. PICK label \in {"social.save", "save"} : Continue(p, l, label)
      BY <1>6 DEF LinkAccountRemove
    <2>9. /\ l.u = u /\ l.User = current /\ l.UserID = loc[p].UserID
          /\ l.UserIsGuest = loc[p].UserIsGuest
      BY <1>0, InHand
    <2>10. RemovalFine
      <3>1. SucceedsStored(users, link)
        BY <1>0, <2>1 DEF AloneOK, HandOK, Pending
      <3>2. link.temp => Dispensable(users, link.id)
        BY <3>1 DEF SucceedsStored, Succeeds, Dispensable
      <3>3. users[link.id] # Nil => HoldsCredentials(arg[p], users[link.id])
        BY <1>0, <2>1 DEF AloneOK, HandOK
      <3>4. users[link.id] = Nil => Dispensable(users, link.id)
        BY <2>2, UserFacts DEF Dispensable
      <3> QED BY <2>1, <2>2, <2>3, <2>7, <3>2, <3>3, <3>4, UserFacts DEF RemovalFine, At
    <2> HIDE DEF u, l
    <2>11. SucceedsStored(users', u)
      <3>1. SucceedsStored(users, u)
        BY <2>4, <2>5 DEF SucceedsStored, Fresh
      <3> QED BY <1>0, <2>5, <2>7, <3>1, StorerEffects
    <2>12. CurrentOK(label, arg[p], l, users', sessions')
      BY <1>0, <2>9, CurrentOn DEF AloneOK
    <2>13. RemovalOK(label, arg[p], l, users')
      BY <2>3, <2>9 DEF RemovalOK
    <2>14. HandOK(label, arg[p], l, users', sessions')
      BY <2>1, <2>6, <2>9, <2>11 DEF HandOK, ToBind, TempOK
    <2> QED BY <1>0, <2>8, <2>10, <2>12, <2>13, <2>14, Control DEF Fine, AloneOK
  <1>7. CASE MiddlewareUserID(p)
    <2> DEFINE l == [loc[p] EXCEPT !.UserID = sessions[arg[p].s]]
    <2>1. /\ pc[p] = "middleware" /\ Continue(p, l, "middleware.load")
          /\ UNCHANGED <<users, sessions>>
      BY <1>7 DEF MiddlewareUserID, At, store
    <2>2. l.User = Nil /\ l.u = Nil /\ ~l.UserIsGuest
      BY <1>0, <2>1 DEF AloneOK, CurrentOK, NoLoc
    <2>3. arg[p].op = "initLink" => LinkAccount
      BY <1>0, <2>1 DEF AloneOK, HandOK
    <2> HIDE DEF l
    <2>4. AloneOK("middleware.load", arg[p], l, users, sessions)
      BY <2>2, <2>3 DEF AloneOK, CurrentOK, RemovalOK, HandOK, AllRoutes, Pending, ToBind
    <2> QED BY <1>0, <2>1, <2>4, ReadAlone
  <1>8. CASE UserMiddleware(p)
    <2>1. pc[p] = "middleware.load" /\ UNCHANGED <<users, sessions>>
      BY <1>8 DEF UserMiddleware, At, store
    <2>2. arg[p].op = "initLink" => LinkAccount
      BY <1>0, <2>1 DEF AloneOK, HandOK
    <2>3. CASE Return(p)
      BY <1>0, <1>8, <2>3, RefuseAlone DEF UserMiddleware, Refuse
    <2>4. CASE Continue(p, NoLoc, "getUserID")
      <3>1. NoLoc.User = Nil /\ NoLoc.u = Nil /\ ~NoLoc.UserIsGuest
        BY DEF NoLoc
      <3>2. AloneOK("getUserID", arg[p], NoLoc, users, sessions)
        BY <2>2, <3>1 DEF AloneOK, CurrentOK, RemovalOK, HandOK, AllRoutes, Pending, ToBind
      <3> QED BY <1>0, <2>1, <2>4, <3>2, ReadAlone
    <2> QED BY <1>8, <2>3, <2>4 DEF UserMiddleware
  <1> QED BY <1>1, <1>2, <1>3, <1>4, <1>5, <1>6, <1>7, <1>8 DEF LinkStep

\* otpCode.
LEMMA OTPCodeAlone ==
  ASSUME SeqInv, NEW p \in Procs, OTPCodePrepare(p)
  PROVE  Fine(p)
  <1>0. TypeOK /\ AloneOK(pc[p], arg[p], loc[p], users, sessions)
    BY DEF SeqInv
  <1>1. pc[p] = "otpCode" /\ arg[p].op = "otpCode"
    BY <1>0, LabelFacts DEF OTPCodePrepare, At, OnRoute, AllRoutes
  <1> DEFINE k == arg[p].key
             uid == arg[p].uid
             x(base) == StampCode(base, k)
             w(base, code) == SetOTP(x(base), k, code)
  <1>2. k \in OTPKeys /\ k \in Keys /\ uid \in UIDs
    BY <1>0, <1>1, KeyFacts
  <1>3. PICK base \in OTPCodeUser(p), code \in Codes :
          /\ Continue(p, [loc[p] EXCEPT !.u = w(base, code)], "save")
          /\ UNCHANGED <<users, sessions>>
    BY DEF OTPCodePrepare, store
  \* What the user made of succeeds the stored one, if there is one.
  <1>4. /\ base \in User /\ TempOK(base) /\ MayResend(base, k)
        /\ base.temp => Unbound(sessions, base.id)
        /\ users[base.id] # Nil => /\ base.auths = users[base.id].auths
                                   /\ base.temp => users[base.id].temp
    <2> DEFINE f == Found(p)
    <2>1. f # Nil => /\ f \in User /\ users[f.id] = f /\ TempOK(f) /\ MayResend(f, k)
                     /\ f.temp => Unbound(sessions, f.id)
      BY <1>2, FoundFacts DEF OTPCodePrepare, OTPCodeAccepted
    <2>2. CASE f # Nil /\ SignedIn(p)
      <3>1. base = f
        BY <2>2 DEF OTPCodeUser
      <3> QED BY <2>1, <2>2, <3>1
    <2>3. CASE f # Nil /\ ~SignedIn(p)
      <3>1. base = SetTemp(f, FALSE)
        BY <2>3 DEF OTPCodeUser
      <3> HIDE DEF f
      <3>2. base \in User /\ base.id = f.id /\ base.temp = FALSE /\ base.auths = f.auths
        BY <2>1, <2>3, <3>1, SetFlagType, FlagsSet
      <3>3. MayResend(base, k)
        BY <2>1, <2>3, <3>2 DEF MayResend, SentAt
      <3> QED BY <2>1, <2>3, <3>2, <3>3 DEF TempOK
    <2>4. CASE f = Nil /\ SignedIn(p)
      <3>1. PICK id \in FreeIds : base = TempUser(id, k, uid)
        BY <2>4 DEF OTPCodeUser
      <3>2. LinkAccount
        BY <2>4 DEF OTPCodePrepare, OTPCodeAccepted
      <3> QED BY <1>2, <3>1, <3>2, TempUserFacts DEF MayResend
    <2>5. CASE f = Nil /\ ~SignedIn(p)
      <3>1. PICK id \in FreeIds : base = SetUID(SetGuest(NewUser(id), GuestUser), k, uid)
        BY <2>5 DEF OTPCodeUser
      <3> DEFINE g == SetGuest(NewUser(id), GuestUser)
      <3>2. id \in UserIds /\ users[id] = Nil
        BY FreeFacts
      <3>3. g \in User /\ g.id = NewUser(id).id /\ g.temp = NewUser(id).temp
        BY <3>2, NewUserFacts, SetFlagType, FlagsSet, FlagsAreBooleans
      <3>4. g.id = id /\ ~g.temp
        BY <3>2, <3>3, NewUserFacts
      <3> HIDE DEF g
      <3>5. base \in User /\ base.id = id /\ ~base.temp /\ SentAt(base, k) = Nil
        BY <1>2, <3>1, <3>3, <3>4, SetUIDType, SetUIDAfresh DEF g
      <3> QED BY <3>2, <3>5 DEF TempOK, MayResend
    <2> QED BY <2>2, <2>3, <2>4, <2>5
  <1> DEFINE u == w(base, code)
  <1> HIDE DEF k
  <1>5. /\ x(base) \in User /\ Succeeds(x(base), base)
        /\ Beside(x(base), base, k)
    BY <1>2, <1>3, <1>4, StampType, StampSucceeds, SettersBeside
  <1>6. TempOK(x(base))
    BY <1>4, <1>5, BesideTempOK
  <1> HIDE DEF x
  <1>7. u \in User /\ Kept(u, x(base))
    BY <1>2, <1>3, <1>5, SetPasswordType, SettersKeep
  <1> HIDE DEF u, w
  <1>8. u.id = base.id /\ Succeeds(u, base) /\ TempOK(u)
    BY <1>5, <1>6, <1>7, KeptOn DEF Kept, Beside
  <1>9. SucceedsStored(users, u)
    BY <1>4, <1>8 DEF SucceedsStored, Succeeds, GetUID, SentAt
  <1>10. u.temp => Unbound(sessions, u.id)
    BY <1>4, <1>8 DEF Succeeds
  <1> QED BY <1>1, <1>3, <1>7, <1>8, <1>9, <1>10, GoSaveAlone DEF u

\* otpAuth.
LEMMA OTPAuthAlone ==
  ASSUME SeqInv, NEW p \in Procs,
         OTPAuthJoinGuest(p) \/ OTPAuthReplaceGuest(p) \/ OTPAuthLogin(p) \/ OTPAuthLink(p)
  PROVE  Fine(p)
  <1>0. TypeOK /\ AloneOK(pc[p], arg[p], loc[p], users, sessions)
    BY DEF SeqInv
  <1>1. pc[p] = "otpAuth" /\ OTPAccepted(p) /\ UNCHANGED <<users, sessions>>
    BY DEF OTPAuthJoinGuest, OTPAuthReplaceGuest, OTPAuthLogin, OTPAuthLink, At, store
  <1>2. arg[p].op = "otpAuth"
    BY <1>0, <1>1, LabelFacts DEF OnRoute, AllRoutes
  <1> DEFINE k == arg[p].key
             uid == arg[p].uid
             f == Found(p)
             user == loc[p].User
             e == SetConfirmed(Entered(p), k, TRUE)
  <1>3. k \in Keys /\ uid \in UIDs /\ f # Nil
    BY <1>0, <1>1, <1>2, KeyFacts DEF OTPAccepted
  <1>4. /\ f \in User /\ users[f.id] = f /\ GetUID(f, k) = uid /\ TempOK(f)
        /\ f.temp => Unbound(sessions, f.id)
    BY <1>3, FoundFacts
  <1>5. e \in User /\ e.id = f.id /\ e.temp = f.temp /\ Succeeds(e, f) /\ SucceedsStored(users, e)
    <2> DEFINE x == ClearStamp(f, k)
    <2>1. x \in User /\ Kept(x, f)
      BY <1>3, <1>4, StampType, SettersKeep
    <2>2. e = SetConfirmed(x, k, TRUE)
      BY DEF Entered
    <2> HIDE DEF x, e, f
    <2>3. e \in User /\ Kept(e, x)
      BY <1>3, <2>1, <2>2, SetConfirmedType, SettersKeep
    <2>4. Kept(e, f)
      BY <1>4, <2>1, <2>3, KeptOn
    <2>5. Succeeds(e, f)
      BY <1>4, <2>4, KeptOn
    <2> QED BY <1>4, <2>3, <2>4, <2>5 DEF Kept, SucceedsStored
  <1>6. ~SignedIn(p) => ~f.temp
    BY <1>1, <1>3, <1>4 DEF OTPAccepted, TempOK
  <1>7. user # Nil => user \in User /\ Fresh(users, user) /\ ~user.temp /\ user.id = loc[p].UserID
    BY <1>0, <1>1, RequestFacts DEF AloneOK, CurrentOK, AllRoutes
  <1>8. loc[p].UserIsGuest => user # Nil /\ Dispensable(users, loc[p].UserID)
    BY <1>0, <1>1, RequestFacts DEF AloneOK, RemovalOK, AllRoutes, RequestOK
  \* A user to remove, then one to bind and to save.
  <1>9. ASSUME NEW u \in User, NEW id, SucceedsStored(users, u), ~u.temp,
               users[u.id] # Nil => ~users[u.id].temp, Dispensable(users, id),
               Continue(p, [loc[p] EXCEPT !.u = u, !.removeUserID = id], "otpAuth.remove")
        PROVE  Fine(p)
    <2> DEFINE l == [loc[p] EXCEPT !.u = u, !.removeUserID = id]
    <2>1. l.u = u /\ l.User = user /\ l.UserID = loc[p].UserID /\ l.removeUserID = id
      BY <1>0, InHand
    <2> HIDE DEF l
    <2>2. CurrentOK("otpAuth.remove", arg[p], l, users, sessions)
      BY <1>0, <2>1, CurrentOn DEF AloneOK
    <2>3. RemovalOK("otpAuth.remove", arg[p], l, users)
      BY <1>9, <2>1 DEF RemovalOK, AllRoutes
    <2>4. HandOK("otpAuth.remove", arg[p], l, users, sessions)
      BY <1>2, <1>9, <2>1 DEF HandOK
    <2>5. AloneOK("otpAuth.remove", arg[p], l, users, sessions)
      BY <2>2, <2>3, <2>4 DEF AloneOK
    <2> QED BY <1>0, <1>1, <1>9, <2>5, ReadAlone DEF l
  <1>10. CASE OTPAuthJoinGuest(p)
    <2> DEFINE n == SetUID(user, k, uid)
               g == SetGuest(n, FALSE)
               u == SetConfirmed(g, k, TRUE)
    <2>1. Continue(p, [loc[p] EXCEPT !.u = u, !.removeUserID = f.id], "otpAuth.remove")
      BY <1>10 DEF OTPAuthJoinGuest
    <2>2. user \in User /\ Fresh(users, user) /\ ~user.temp /\ f.guest
      BY <1>7, <1>8, <1>10 DEF OTPAuthJoinGuest
    <2>3. Dispensable(users, f.id)
      BY <1>4, <2>2 DEF Dispensable
    <2> HIDE DEF user, f
    <2>4. /\ n \in User /\ n.id = user.id /\ n.temp = user.temp
          /\ SentAt(n, k) = Nil /\ \A j \in Keys \ {k} : n.auths[j] = user.auths[j]
      BY <1>3, <2>2, SetUIDType, SetUIDAfresh
    <2> HIDE DEF n
    <2>5. g \in User /\ g.id = n.id /\ g.temp = n.temp /\ g.auths = n.auths
      BY <2>4, SetFlagType, FlagsSet
    <2> HIDE DEF g
    <2>6. u \in User /\ Beside(u, g, k)
      BY <1>3, <2>5, SetConfirmedType, SettersBeside
    <2>7. u.auths[k].confirmed /\ SentAt(u, k) = SentAt(g, k)
      BY <1>3, <2>5 DEF SetConfirmed, SentAt, User, Identity
    <2> HIDE DEF u
    <2>8. /\ u.id = user.id /\ ~u.temp /\ SentAt(u, k) = Nil
          /\ \A j \in Keys \ {k} : u.auths[j] = user.auths[j]
      BY <2>2, <2>4, <2>5, <2>6, <2>7 DEF Beside, SentAt
    <2>9. Succeeds(u, user)
      BY <2>2, <2>7, <2>8, OthersSucceed
    <2>10. SucceedsStored(users, u) /\ (users[u.id] # Nil => ~users[u.id].temp)
      BY <2>2, <2>8, <2>9 DEF SucceedsStored, Fresh
    <2> QED BY <1>9, <2>1, <2>3, <2>6, <2>8, <2>10
  <1>11. CASE OTPAuthReplaceGuest(p)
    <2>1. Continue(p, [loc[p] EXCEPT !.u = e, !.removeUserID = loc[p].UserID], "otpAuth.remove")
      BY <1>11 DEF OTPAuthReplaceGuest
    <2>2. ~f.temp /\ Dispensable(users, loc[p].UserID)
      BY <1>6, <1>8, <1>11 DEF OTPAuthReplaceGuest, SignedIn
    <2> HIDE DEF e, f
    <2> QED BY <1>4, <1>5, <1>9, <2>1, <2>2
  <1>12. CASE OTPAuthLogin(p)
    <2> DEFINE l == [loc[p] EXCEPT !.u = e]
    <2>1. Continue(p, l, "otpAuth.bind") /\ ~f.temp
      BY <1>6, <1>12 DEF OTPAuthLogin
    <2>2. l.u = e /\ l.User = user /\ l.UserID = loc[p].UserID
      BY <1>0, InHand
    <2> HIDE DEF l, e, f
    <2>3. CurrentOK("otpAuth.bind", arg[p], l, users, sessions)
      BY <1>0, <2>2, CurrentOn DEF AloneOK
    <2>4. HandOK("otpAuth.bind", arg[p], l, users, sessions)
      BY <1>2, <1>4, <1>5, <2>1, <2>2 DEF HandOK
    <2>5. AloneOK("otpAuth.bind", arg[p], l, users, sessions)
      BY <2>3, <2>4, NoRemoval DEF AloneOK
    <2> QED BY <1>0, <1>1, <2>1, <2>5, ReadAlone
  <1>13. CASE OTPAuthLink(p)
    <2> DEFINE l == [loc[p] EXCEPT !.u = e]
    <2>1. Continue(p, l, "linkAccount")
      BY <1>13 DEF OTPAuthLink
    <2>2. l.u = e /\ l.User = user /\ l.UserID = loc[p].UserID
      BY <1>0, InHand
    <2> HIDE DEF l, e, f
    <2>3. user # Nil /\ GetUID(user, k) = Empty => Fresh(users, user) /\ e.id # user.id
      BY <1>3, <1>4, <1>5, <1>7, FoundIsAnother
    <2>4. CurrentOK("linkAccount", arg[p], l, users, sessions)
      BY <1>0, <2>2, <2>3 DEF AloneOK, CurrentOK, AllRoutes
    <2>5. HandOK("linkAccount", arg[p], l, users, sessions)
      <3>1. HoldsCredentials(arg[p], f) /\ HoldsCredentials(arg[p], e)
        <4>1. GetUID(f, k) = arg[p].uid /\ f.auths[k].password = arg[p].secret
          BY <1>1, <1>4 DEF OTPAccepted, OTPMatches, f
        <4> DEFINE x == ClearStamp(f, k)
        <4>2. /\ x \in User /\ GetUID(x, k) = GetUID(f, k)
              /\ x.auths[k].password = f.auths[k].password
          BY <1>3, <1>4, ConfirmedCredentials, StampType
        <4>3. e = SetConfirmed(x, k, TRUE)
          BY DEF Entered, e, f
        <4> HIDE DEF x
        <4>4. GetUID(e, k) = GetUID(x, k) /\ e.auths[k].password = x.auths[k].password
          BY <1>3, <4>2, <4>3, ConfirmedCredentials
        <4> QED BY <4>1, <4>2, <4>4 DEF HoldsCredentials
      <3> QED BY <1>2, <1>4, <1>5, <2>2, <3>1 DEF HandOK, ToBind
    <2>6. AloneOK("linkAccount", arg[p], l, users, sessions)
      BY <2>4, <2>5, NoRemoval DEF AloneOK
    <2> QED BY <1>0, <1>1, <2>1, <2>6, ReadAlone
  <1> QED BY <1>10, <1>11, <1>12, <1>13

\* otpCode and otpAuth.
LEMMA OTPAlone ==
  ASSUME SeqInv, NEW p \in Procs, OTPStep(p)
  PROVE  Fine(p)
  <1>0. TypeOK /\ Storer(users) /\ AloneOK(pc[p], arg[p], loc[p], users, sessions)
    BY TypeParts DEF SeqInv
  <1>1. CASE OTPCodeBegin(p) \/ OTPAuthBegin(p)
    <2>1. CASE OTPCodeBegin(p)
      BY <2>1, BeginAlone DEF OTPCodeBegin, BeginWithSession, NoArg, FirstLabels
    <2>2. CASE OTPAuthBegin(p)
      BY <2>2, BeginAlone DEF OTPAuthBegin, BeginWithSession, NoArg, FirstLabels
    <2> QED BY <1>1, <2>1, <2>2
  <1>2. CASE OTPCodeRefuse(p) \/ OTPAuthRefuse(p)
    BY <1>0, <1>2, RefuseAlone DEF OTPCodeRefuse, OTPAuthRefuse
  <1>3. CASE OTPCodePrepare(p)
    BY <1>3, OTPCodeAlone
  <1>4. CASE OTPAuthJoinGuest(p) \/ OTPAuthReplaceGuest(p) \/ OTPAuthLogin(p) \/ OTPAuthLink(p)
    BY <1>4, OTPAuthAlone
  <1>5. ASSUME pc[p] \in {"otpAuth.remove", "otpAuth.bind", "otpAuth.save"}
        PROVE  /\ arg[p].op = "otpAuth" /\ loc[p].u \in User
               /\ arg[p].key \in Keys /\ arg[p].s \in Sessions
               /\ SucceedsStored(users, loc[p].u) /\ ~loc[p].u.temp
               /\ pc[p] # "otpAuth.save" /\ users[loc[p].u.id] # Nil
                    => ~users[loc[p].u.id].temp
    <2>1. arg[p].op = "otpAuth" /\ loc[p].u \in User
      BY <1>0, <1>5, LabelFacts DEF OnRoute, HoldsUser
    <2>2. arg[p].key \in Keys /\ arg[p].s \in Sessions
      BY <1>0, <1>5, <2>1, KeyFacts
    <2>3. SucceedsStored(users, loc[p].u) /\ ~loc[p].u.temp
      BY <1>0, <1>5 DEF AloneOK, HandOK, Pending, ToBind
    <2>4. pc[p] # "otpAuth.save" /\ users[loc[p].u.id] # Nil => ~users[loc[p].u.id].temp
      BY <1>0, <1>5 DEF AloneOK, HandOK, ToBind
    <2> QED BY <2>1, <2>2, <2>3, <2>4
  <1>6. CASE OTPAuthRemove(p)
    <2>1. pc[p] = "otpAuth.remove"
      BY <1>6 DEF OTPAuthRemove, At
    <2> DEFINE u == loc[p].u
               id == loc[p].removeUserID
    <2>2. Dispensable(users, id) /\ id \in UserIds \cup {Nil}
      BY <1>0, <2>1, RequestFacts DEF AloneOK, RemovalOK
    <2>3. users' = RemoveByID(users, id) /\ sessions' = sessions /\ Continue(p, loc[p], "otpAuth.bind")
      BY <1>6 DEF OTPAuthRemove
    <2>4. RemovalFine
      BY <2>2, <2>3 DEF RemovalFine
    <2>5. SucceedsStored(users', u) /\ users'[u.id] \in {users[u.id], Nil}
      BY <1>0, <1>5, <2>1, <2>3, StorerEffects, UserFacts
    <2>6. CurrentOK("otpAuth.bind", arg[p], loc[p], users', sessions')
      BY <1>0, CurrentOn DEF AloneOK
    <2>7. HandOK("otpAuth.bind", arg[p], loc[p], users', sessions')
      BY <1>5, <2>1, <2>5 DEF HandOK
    <2> QED BY <1>0, <2>3, <2>4, <2>6, <2>7, NoRemoval, Control DEF Fine, AloneOK
  <1>7. CASE OTPAuthBind(p)
    <2>1. pc[p] = "otpAuth.bind"
      BY <1>7 DEF OTPAuthBind, At
    <2>2. BindFine
      BY <1>5, <1>7, <2>1, UserFacts DEF OTPAuthBind, BindFine
    <2>3. CurrentOK("otpAuth.save", arg[p], loc[p], users', sessions')
      BY <1>0, CurrentOn DEF AloneOK
    <2>4. HandOK("otpAuth.save", arg[p], loc[p], users', sessions')
      BY <1>5, <1>7, <2>1 DEF OTPAuthBind, HandOK, ToBind
    <2> QED BY <1>0, <1>7, <2>2, <2>3, <2>4, NoRemoval, Control DEF OTPAuthBind, Fine, AloneOK
  <1>8. CASE OTPAuthSave(p)
    <2>1. pc[p] = "otpAuth.save"
      BY <1>8 DEF OTPAuthSave, At
    <2> DEFINE v == loc[p].u
               u == Consumed(v, arg[p].key)
    <2>2. v \in User /\ SucceedsStored(users, v) /\ ~v.temp /\ arg[p].key \in Keys
      BY <1>5, <2>1
    <2>3. (Save(u) \/ SaveFails(u)) /\ Return(p) /\ sessions' = sessions
      BY <1>8 DEF OTPAuthSave
    <2>4. u \in User /\ Kept(u, v)
      BY <2>2, SetPasswordType, SettersKeep DEF Consumed
    <2> HIDE DEF u, v
    <2>5. SucceedsStored(users, u) /\ ~u.temp
      BY <2>2, <2>4, KeptOn DEF SucceedsStored, Kept
    <2>6. SaveFine \/ BindFine
      BY <2>3, <2>4, <2>5 DEF SaveFine, SaveFails, BindFine, TempOK
    <2> QED BY <1>0, <2>3, <2>6, ReturnAlone DEF Fine
  <1> QED BY <1>1, <1>2, <1>3, <1>4, <1>6, <1>7, <1>8 DEF OTPStep

\* social.
LEMMA SocialAlone ==
  ASSUME SeqInv, NEW p \in Procs, SocialStep(p)
  PROVE  Fine(p)
  <1>0. TypeOK /\ Storer(users) /\ AloneOK(pc[p], arg[p], loc[p], users, sessions)
    BY TypeParts DEF SeqInv
  <1>1. CASE SocialBegin(p)
    BY <1>1, BeginAlone DEF SocialBegin, BeginWithSession, NoArg, FirstLabels
  <1>2. CASE SocialRefuse(p)
    BY <1>0, <1>2, RefuseAlone DEF SocialRefuse
  <1>3. CASE SocialLoad(p)
    <2>1. pc[p] = "social" /\ arg[p].op = "social" /\ UNCHANGED <<users, sessions>>
      BY <1>0, <1>3, LabelFacts DEF SocialLoad, At, OnRoute, AllRoutes, store
    <2> DEFINE k == arg[p].key
               uid == arg[p].uid
               f == Found(p)
               user == loc[p].User
               l(u) == [loc[p] EXCEPT !.u = u]
    <2>2. k \in SocialKeys /\ k \in Keys /\ uid \in UIDs
      BY <1>0, <2>1, LabelFacts, KeyFacts DEF ArgOK
    <2>3. user # Nil => user \in User /\ Fresh(users, user) /\ user.id = loc[p].UserID
      BY <1>0, <2>1, RequestFacts DEF AloneOK, CurrentOK, AllRoutes
    <2>4. loc[p].UserIsGuest => Dispensable(users, loc[p].UserID)
      BY <1>0, <2>1 DEF AloneOK, RemovalOK, AllRoutes
    <2>5. PICK u \in SocialUser(p) :
            Continue(p, l(u), IF SignedIn(p) THEN "linkAccount" ELSE "social.save")
      BY <1>3 DEF SocialLoad
    <2>6. /\ u \in User /\ GetUID(u, k) = uid
          /\ users[u.id] \in {Nil, u}
          /\ u.temp => SignedIn(p) /\ Unbound(sessions, u.id)
          /\ user # Nil /\ GetUID(user, k) = Empty => u.id # user.id
          /\ loc[p].UserIsGuest /\ u.id = loc[p].UserID => u.guest \/ u.temp
      <3>1. CASE f # Nil
        <4>1. u = f
          BY <2>5, <3>1 DEF SocialUser
        <4>2. /\ u \in User /\ GetUID(u, k) = uid /\ users[u.id] = u
              /\ TempOK(u)
              /\ u.temp => Unbound(sessions, u.id)
          BY <2>2, <3>1, <4>1, FoundFacts
        <4> HIDE DEF f, user
        <4>3. ~u.temp
          BY <2>2, <4>2, EmptyIsNoValue DEF TempOK
        <4>4. user # Nil /\ GetUID(user, k) = Empty => u.id # user.id
          BY <2>2, <2>3, <4>2, FoundIsAnother
        <4>5. loc[p].UserIsGuest /\ u.id = loc[p].UserID => u.guest \/ u.temp
          BY <2>4, <4>2, UserFacts DEF Dispensable
        <4> QED BY <4>2, <4>3, <4>4, <4>5
      <3>2. CASE f = Nil
        <4>1. PICK id \in FreeIds : u = NewSocialUser(id, k, uid, SignedIn(p))
          BY <2>5, <3>2 DEF SocialUser
        <4>2. /\ id \in UserIds /\ users[id] = Nil /\ Unbound(sessions, id)
              /\ id # loc[p].UserID /\ (user # Nil => id # user.id)
          BY FreeFacts
        <4> DEFINE t == SetTemp(NewUser(id), SignedIn(p))
                   n == SetUID(t, k, uid)
        <4>3. t \in User /\ t.id = NewUser(id).id /\ t.temp = SignedIn(p)
          <5>1. NewUser(id) \in User /\ SignedIn(p) \in BOOLEAN
            BY <4>2, NewUserFacts DEF SignedIn
          <5> QED BY <5>1, SetFlagType, FlagsSet
        <4>4. t.id = id
          BY <4>2, <4>3, NewUserFacts
        <4> HIDE DEF t
        <4>5. n \in User /\ n.id = id /\ n.temp = SignedIn(p) /\ GetUID(n, k) = uid
          BY <2>2, <4>3, <4>4, SetUIDType, SetUIDAfresh
        <4> HIDE DEF n
        <4>6. u = IF ConfirmableUser THEN SetConfirmed(n, k, TRUE) ELSE n
          BY <4>1 DEF NewSocialUser, n, t
        <4>7. u \in User /\ u.id = id /\ u.temp = SignedIn(p) /\ GetUID(u, k) = uid
          <5>1. n \in User /\ TRUE \in BOOLEAN
            BY <4>5
          <5>2. SetConfirmed(n, k, TRUE) \in User /\ Beside(SetConfirmed(n, k, TRUE), n, k)
            BY <2>2, <5>1, SetConfirmedType, SettersBeside
          <5> DEFINE c == SetConfirmed(n, k, TRUE)
          <5>3. c.id = n.id /\ c.temp = n.temp /\ GetUID(c, k) = GetUID(n, k)
            BY <5>2 DEF Beside
          <5>4. u \in User /\ u.id = n.id /\ u.temp = n.temp /\ GetUID(u, k) = GetUID(n, k)
            BY <4>6, <5>1, <5>2, <5>3
          <5> QED BY <4>5, <5>4
        <4>8. u.temp => SignedIn(p)
          BY <4>7
        <4> QED BY <4>2, <4>7, <4>8
      <3> QED BY <3>1, <3>2
    <2>7. SucceedsStored(users, u)
      BY <2>6, OthersSucceed DEF SucceedsStored
    <2>8. /\ l(u).u = u /\ l(u).User = user /\ l(u).UserID = loc[p].UserID
          /\ l(u).UserIsGuest = loc[p].UserIsGuest
      BY <1>0, InHand
    <2> HIDE DEF l
    <2>9. CASE SignedIn(p)
      <3>1. CurrentOK("linkAccount", arg[p], l(u), users, sessions)
        BY <1>0, <2>3, <2>6, <2>8 DEF AloneOK, CurrentOK, AllRoutes
      <3>2. HandOK("linkAccount", arg[p], l(u), users, sessions)
        <4>1. HoldsCredentials(arg[p], u) /\ (users[u.id] # Nil => users[u.id] = u)
          BY <2>2, <2>6 DEF HoldsCredentials
        <4> QED BY <2>1, <2>6, <2>7, <2>8, <4>1 DEF HandOK, ToBind
      <3>3. AloneOK("linkAccount", arg[p], l(u), users, sessions)
        BY <3>1, <3>2, NoRemoval DEF AloneOK
      <3> QED BY <1>0, <2>1, <2>5, <2>9, <3>3, ReadAlone
    <2>10. CASE ~SignedIn(p)
      <3>1. CurrentOK("social.save", arg[p], l(u), users, sessions)
        BY <1>0, <2>8, CurrentOn DEF AloneOK
      <3>2. RemovalOK("social.save", arg[p], l(u), users)
        BY <2>4, <2>6, <2>8 DEF RemovalOK
      <3>3. HandOK("social.save", arg[p], l(u), users, sessions)
        BY <2>1, <2>6, <2>7, <2>8, <2>10 DEF HandOK, ToBind
      <3>4. AloneOK("social.save", arg[p], l(u), users, sessions)
        BY <3>1, <3>2, <3>3 DEF AloneOK
      <3> QED BY <1>0, <2>1, <2>5, <2>10, <3>4, ReadAlone
    <2> QED BY <2>9, <2>10
  <1>4. CASE SocialSave(p)
    <2>1. pc[p] = "social.save" /\ arg[p].op = "social" /\ loc[p].u \in User
      BY <1>0, <1>4, LabelFacts DEF SocialSave, At, OnRoute, HoldsUser
    <2> DEFINE u == loc[p].u
    <2>2. SucceedsStored(users, u) /\ ~u.temp
      BY <1>0, <2>1 DEF AloneOK, HandOK, Pending
    <2>3. SaveFine \/ BindFine
      BY <1>4, <2>1, <2>2 DEF SocialSave, SaveFails, SaveFine, BindFine, TempOK
    <2>4. CASE Return(p)
      BY <1>0, <2>3, <2>4, ReturnAlone DEF Fine
    <2>5. CASE Save(u) /\ Continue(p, loc[p], "social.bind")
      <3>1. /\ users'[u.id] = u
            /\ \A i \in UserIds \ {u.id} : users'[i] = users[i]
        BY <1>0, <2>1, <2>5, StorerEffects DEF Save
      <3>2. CurrentOK("social.bind", arg[p], loc[p], users', sessions')
        BY <1>0, CurrentOn DEF AloneOK
      <3>3. loc[p].UserIsGuest => Dispensable(users', loc[p].UserID)
        <4>1. loc[p].UserIsGuest => Dispensable(users, loc[p].UserID)
          BY <1>0, <2>1 DEF AloneOK, RemovalOK
        <4>2. loc[p].UserIsGuest /\ u.id = loc[p].UserID => u.guest \/ u.temp
          BY <1>0, <2>1 DEF AloneOK, RemovalOK
        <4> QED BY <3>1, <4>1, <4>2 DEF Dispensable
      <3>4. RemovalOK("social.bind", arg[p], loc[p], users')
        BY <3>3 DEF RemovalOK
      <3>5. HandOK("social.bind", arg[p], loc[p], users', sessions')
        BY <2>1, <2>2, <3>1 DEF HandOK, Pending
      <3> QED BY <1>0, <2>3, <2>5, <3>2, <3>4, <3>5, Control DEF Fine, AloneOK
    <2> QED BY <1>4, <2>4, <2>5 DEF SocialSave
  <1>5. CASE SocialBind(p)
    <2>1. pc[p] = "social.bind" /\ arg[p].op = "social" /\ loc[p].u \in User
      BY <1>0, <1>5, LabelFacts DEF SocialBind, At, OnRoute, HoldsUser
    <2>2. /\ users[loc[p].u.id] # Nil => ~users[loc[p].u.id].temp
          /\ ~loc[p].u.temp /\ arg[p].s \in Sessions
      BY <1>0, <2>1, KeyFacts DEF AloneOK, HandOK, ToBind
    <2>3. BindFine
      BY <1>5, <2>1, <2>2, UserFacts DEF SocialBind, BindFine
    <2>4. CASE Return(p)
      BY <1>0, <2>3, <2>4, ReturnAlone DEF Fine
    <2>5. CASE loc[p].UserIsGuest /\ Continue(p, loc[p], "removeGuest")
      <3>1. CurrentOK("removeGuest", arg[p], loc[p], users', sessions')
        BY <1>0, CurrentOn DEF AloneOK
      <3>2. users' = users
        BY <1>5 DEF SocialBind
      <3>3. RemovalOK("removeGuest", arg[p], loc[p], users')
        BY <1>0, <2>1, <2>5, <3>2 DEF AloneOK, RemovalOK
      <3>4. HandOK("removeGuest", arg[p], loc[p], users', sessions')
        BY <2>1, <2>2 DEF HandOK, Pending, ToBind
      <3> QED BY <1>0, <2>3, <2>5, <3>1, <3>3, <3>4, Control DEF Fine, AloneOK
    <2> QED BY <1>5, <2>4, <2>5 DEF SocialBind
  <1> QED BY <1>1, <1>2, <1>3, <1>4, <1>5 DEF SocialStep

\* Every step of a request.
LEMMA StepAlone ==
  ASSUME SeqInv, NEW p \in Procs, Step(p)
  PROVE  Fine(p)
  BY SharedAlone, SessionAlone, PasswordAlone, CodeAlone, LinkAlone, OTPAlone,
     SocialAlone, ProfileAlone DEF Step

----------------------------------------------------------------------------
(* The passing of time.                                                    *)

\* A sent time recedes to the one before it, or stays.
LEMMA AgedFacts ==
  ASSUME NEW v \in User
  PROVE  /\ Aged(v) \in User /\ Aged(v) # Nil
         /\ Aged(v).id = v.id /\ Aged(v).temp = v.temp /\ Aged(v).guest = v.guest
         /\ \A k \in Keys :
              /\ GetUID(Aged(v), k) = GetUID(v, k)
              /\ Aged(v).auths[k].confirmed = v.auths[k].confirmed
              /\ Aged(v).auths[k].password = v.auths[k].password
              /\ SentAt(v, k) \in Ages \cup {Nil}
              /\ SentAt(Aged(v), k) =
                   IF SentAt(v, k) \in 0 .. MaxAge - 1 THEN SentAt(v, k) + 1
                                                       ELSE SentAt(v, k)
  <1>1. Aged(v).temp = v.temp /\ Aged(v).guest = v.guest
    BY DEF Aged, User
  <1>2. ASSUME NEW k \in Keys
        PROVE  /\ Aged(v).auths[k].confirmed = v.auths[k].confirmed
               /\ Aged(v).auths[k].password = v.auths[k].password
               /\ SentAt(v, k) \in Ages \cup {Nil}
               /\ SentAt(Aged(v), k) =
                    IF SentAt(v, k) \in 0 .. MaxAge - 1 THEN SentAt(v, k) + 1
                                                        ELSE SentAt(v, k)
    BY DEF Aged, SentAt, User, Identity
  <1> QED BY <1>1, <1>2, AgedType, UserFacts

\* A successor stays one.
LEMMA AgedSucceeds ==
  ASSUME NEW v \in User
  PROVE  /\ Succeeds(Aged(v), v)
         /\ \A w \in User : Succeeds(w, v) => Succeeds(Aged(w), Aged(v))
         /\ TempOK(v) => TempOK(Aged(v))
  <1>1. ASSUME NEW s \in Ages, NEW t \in Ages
        PROVE  LET older(x) == IF x \in 0 .. MaxAge - 1 THEN x + 1 ELSE x
               IN  /\ older(s) < older(t) => s < t
                   /\ older(s) >= s /\ older(s) \in Nat /\ s \in Nat
    BY MaxAgeIsNat DEF Ages
  <1>2. \A k \in Keys : ResendDelay(k) \in Nat
    BY DelaysBelowMaxAge, MaxAgeIsNat DEF ResendDelay
  <1>3. Nil \notin 0 .. MaxAge - 1
    BY NilIsNoValue, MaxAgeIsNat DEF Ages
  <1>4. Succeeds(Aged(v), v)
    <2>1. \A k \in Keys : ~ (/\ SentAt(Aged(v), k) # Nil
                             /\ SentAt(v, k) # Nil
                             /\ SentAt(Aged(v), k) < SentAt(v, k))
      BY <1>1, AgedFacts, MaxAgeIsNat DEF Ages
    <2> QED BY <2>1, AgedFacts DEF Succeeds
  <1>5. ASSUME NEW w \in User, Succeeds(w, v)
        PROVE  Succeeds(Aged(w), Aged(v))
    <2>1. ASSUME NEW k \in Keys, GetUID(w, k) = GetUID(v, k),
                 SentAt(Aged(w), k) # Nil, SentAt(Aged(v), k) # Nil,
                 SentAt(Aged(w), k) < SentAt(Aged(v), k)
          PROVE  SentAt(Aged(v), k) > ResendDelay(k)
      <3>1. SentAt(w, k) \in Ages /\ SentAt(v, k) \in Ages
        BY <1>3, <2>1, AgedFacts
      <3>2. SentAt(w, k) < SentAt(v, k) /\ SentAt(Aged(v), k) >= SentAt(v, k)
        BY <1>1, <2>1, <3>1, AgedFacts
      <3>3. SentAt(w, k) # Nil /\ SentAt(v, k) # Nil
        BY <3>1, NilIsNoValue
      <3>4. SentAt(v, k) > ResendDelay(k)
        BY <1>5, <2>1, <3>2, <3>3 DEF Succeeds
      <3>5. SentAt(Aged(v), k) \in Nat /\ SentAt(v, k) \in Nat
        BY <1>1, <3>1, AgedFacts
      <3> QED BY <1>2, <3>2, <3>4, <3>5
    <2>2. Aged(w).temp => Aged(v).temp
      BY <1>5, AgedFacts DEF Succeeds
    <2>3. \A k \in Keys : GetUID(Aged(w), k) = GetUID(Aged(v), k)
                            => (Aged(v).auths[k].confirmed => Aged(w).auths[k].confirmed)
      BY <1>5, AgedFacts DEF Succeeds
    <2>4. \A k \in Keys : GetUID(Aged(w), k) = GetUID(w, k) /\ GetUID(Aged(v), k) = GetUID(v, k)
      BY AgedFacts
    <2> QED BY <2>1, <2>2, <2>3, <2>4 DEF Succeeds
  <1>6. TempOK(v) => TempOK(Aged(v))
    BY AgedFacts DEF TempOK, Keys
  <1> QED BY <1>4, <1>5, <1>6

\* What is said of copies and stored users is said of them a moment later.
LEMMA TickAlone ==
  ASSUME SeqInv, Tick, NEW p \in Procs
  PROVE  AloneOK(pc'[p], arg'[p], loc'[p], users', sessions')
  <1>0. TypeOK /\ Storer(users) /\ loc[p] \in Locals
    BY TypeParts, RequestFacts DEF SeqInv
  <1>1. \A i \in UserIds : users'[i] = AgedOrNil(users[i])
    BY DEF Tick
  <1>2. pc' = pc /\ arg' = arg /\ sessions' = sessions
    BY DEF Tick
  <1> DEFINE label == pc[p]
             a == arg[p]
             l == loc[p]
             m == loc'[p]
  <1>3. AloneOK(label, a, l, users, sessions)
    BY DEF SeqInv
  <1>4. /\ m = [l EXCEPT !.User = AgedOrNil(l.User), !.u = AgedOrNil(l.u)]
        /\ m.User = AgedOrNil(l.User) /\ m.u = AgedOrNil(l.u)
        /\ m.UserID = l.UserID /\ m.UserIsGuest = l.UserIsGuest
        /\ m.removeUserID = l.removeUserID
    BY <1>0 DEF Tick, Locals
  <1>5. l.User \in User \cup {Nil} /\ l.u \in User \cup {Nil}
    BY <1>0 DEF Locals
  <1>6. label \in HoldsUser => l.u \in User /\ m.u = Aged(l.u)
    BY <1>0, <1>4, <1>5, UserFacts DEF TypeOK, RequestOK, AgedOrNil
  <1>7. /\ l.User # Nil => l.User \in User /\ m.User = Aged(l.User) /\ m.User # Nil
        /\ l.User = Nil => m.User = Nil
        /\ l.u # Nil => l.u \in User /\ m.u = Aged(l.u) /\ m.u # Nil
        /\ l.u = Nil => m.u = Nil
    BY <1>4, <1>5, AgedFacts DEF AgedOrNil
  <1>8. \A i \in UserIds : \/ users[i] = Nil /\ users'[i] = Nil
                           \/ users[i] \in User /\ users'[i] = Aged(users[i])
    BY <1>0, <1>1 DEF Storer, AgedOrNil
  <1>9. \A v \in User : /\ Fresh(users, v) => Fresh(users', Aged(v))
                        /\ SucceedsStored(users, v) => SucceedsStored(users', Aged(v))
    <2> SUFFICES ASSUME NEW v \in User
                 PROVE  /\ Fresh(users, v) => Fresh(users', Aged(v))
                        /\ SucceedsStored(users, v) => SucceedsStored(users', Aged(v))
      OBVIOUS
    <2>1. Aged(v).id = v.id /\ v.id \in UserIds
      BY AgedFacts, UserFacts
    <2>2. Fresh(users, v) => Fresh(users', Aged(v))
      BY <1>1, <2>1 DEF Fresh, AgedOrNil
    <2>3. SucceedsStored(users, v) => SucceedsStored(users', Aged(v))
      BY <1>8, <2>1, AgedSucceeds, UserFacts DEF SucceedsStored
    <2> QED BY <2>2, <2>3
  <1>10. \A i : Dispensable(users, i) => Dispensable(users', i)
    BY <1>8, AgedFacts, UserFacts DEF Dispensable
  <1>11. \A k \in Keys : \A uid : Owners(users', k, uid) \subseteq Owners(users, k, uid)
    BY <1>8, AgedType, UserFacts DEF Owners, Stored
  <1>12. label # "idle" /\ a.op \notin {"auth", "signOut", "resend", "profile"}
           => a.uid \in UIDs
    BY <1>0, LabelFacts DEF ArgOK
  <1>13. label \in {"link.save", "linkAccount", "signUp.remove", "signUp.save"}
           => a.key \in Keys
    BY <1>0, LabelFacts, KeyFacts DEF OnRoute
  <1>14. CurrentOK(label, a, m, users', sessions)
    <2>1. CurrentOK(label, a, l, users, sessions)
      BY <1>3 DEF AloneOK
    <2>2. label \in {"idle", "middleware", "getUserID", "auth"} => m = NoLoc
      <3>1. label \in {"idle", "middleware", "getUserID", "auth"} => l = NoLoc
        BY <2>1 DEF CurrentOK
      <3>2. NoLoc.User = Nil /\ NoLoc.u = Nil
        BY DEF NoLoc
      <3>3. [l EXCEPT !.User = l.User, !.u = l.u] = l
        BY <1>0 DEF Locals
      <3>4. AgedOrNil(Nil) = Nil
        BY DEF AgedOrNil
      <3> HIDE DEF label, l, m
      <3> QED BY <1>4, <3>1, <3>2, <3>3, <3>4
    <2>3. /\ label \in {"middleware.load", "loadUser"} => m.User = Nil /\ m.u = Nil
          /\ label = "loadUser" => m.UserID = sessions[a.s]
      BY <1>4, <1>7, <2>1 DEF CurrentOK
    <2>4. m.User # Nil => m.User.id = m.UserID /\ ~m.User.temp
      BY <1>4, <1>7, <2>1, AgedFacts DEF CurrentOK
    <2>5. /\ m.User # Nil
          /\ label \in AllRoutes \cup {"signUp.remove", "signUp.save"}
          => Fresh(users', m.User)
      BY <1>7, <1>9, <2>1 DEF CurrentOK
    <2>6. /\ label \in {"link.save", "linkAccount"}
          /\ m.User # Nil
          /\ GetUID(m.User, a.key) = Empty
          => Fresh(users', m.User) /\ m.u.id # m.User.id
      <3> SUFFICES ASSUME label \in {"link.save", "linkAccount"}, m.User # Nil,
                          GetUID(m.User, a.key) = Empty
                   PROVE  Fresh(users', m.User) /\ m.u.id # m.User.id
        OBVIOUS
      <3>1. l.User \in User /\ l.User # Nil /\ m.User = Aged(l.User)
        BY <1>7
      <3>2. GetUID(l.User, a.key) = Empty
        BY <1>13, <3>1, AgedFacts
      <3>3. Fresh(users, l.User) /\ l.u.id # l.User.id
        BY <2>1, <3>1, <3>2 DEF CurrentOK
      <3>4. l.u \in User /\ m.u = Aged(l.u)
        BY <1>6 DEF HoldsUser
      <3> QED BY <1>9, <3>1, <3>3, <3>4, AgedFacts
    <2> HIDE DEF label, a, m
    <2> QED BY <2>2, <2>3, <2>4, <2>5, <2>6 DEF CurrentOK
  <1>15. RemovalOK(label, a, m, users')
    <2>1. RemovalOK(label, a, l, users)
      BY <1>3 DEF AloneOK
    <2>2. /\ label \in {"signIn.bind", "signIn.save", "social.save"} => label \in HoldsUser
          /\ label \in HoldsUser => /\ m.u.id = l.u.id
                                    /\ m.u.guest = l.u.guest
                                    /\ m.u.temp = l.u.temp
      BY <1>6, AgedFacts DEF HoldsUser
    <2>3. /\ m.UserIsGuest
          /\ label \in {"signIn.bind", "signIn.save", "social.save"}
          /\ m.u.id = m.UserID
          => m.u.guest \/ m.u.temp
      BY <1>4, <2>1, <2>2 DEF RemovalOK
    <2>4. /\ label = "signUp.remove" => Owners(users', a.key, a.uid) \subseteq {m.removeUserID}
          /\ label = "signUp.save" => Owners(users', a.key, a.uid) = {}
      BY <1>4, <1>11, <1>13, <2>1 DEF RemovalOK
    <2> HIDE DEF label, a, m, l
    <2> QED BY <1>4, <1>10, <2>1, <2>3, <2>4 DEF RemovalOK
  <1>16. HandOK(label, a, m, users', sessions)
    <2>1. HandOK(label, a, l, users, sessions)
      BY <1>3 DEF AloneOK
    <2>2. /\ label \in Pending => label \in HoldsUser
          /\ label \in ToBind \cup {"signIn.save", "otpAuth.save", "social.save"}
               => label \in HoldsUser
          /\ label \in {"save", "link.save"} => label \in HoldsUser
      BY DEF Pending, ToBind, HoldsUser
    <2>3. label \in HoldsUser => m.u.temp = l.u.temp /\ m.u.id = l.u.id /\ l.u.id \in UserIds
      BY <1>6, AgedFacts, UserFacts
    <2>4. label \in Pending => SucceedsStored(users', m.u)
      BY <1>6, <1>9, <2>1, <2>2 DEF HandOK
    <2>5. label \in ToBind \cup {"signIn.save", "otpAuth.save", "social.save"} => ~m.u.temp
      BY <2>1, <2>2, <2>3 DEF HandOK
    <2>6. label \in ToBind /\ users'[m.u.id] # Nil => ~users'[m.u.id].temp
      <3> SUFFICES ASSUME label \in ToBind, users'[m.u.id] # Nil
                   PROVE  ~users'[m.u.id].temp
        OBVIOUS
      <3>1. m.u.id = l.u.id /\ l.u.id \in UserIds
        BY <2>2, <2>3
      <3>2. users[l.u.id] \in User /\ users'[l.u.id] = Aged(users[l.u.id])
        BY <1>8, <3>1
      <3>3. ~users[l.u.id].temp
        BY <2>1, <3>2, UserFacts DEF HandOK
      <3> QED BY <3>1, <3>2, <3>3, AgedFacts
    <2>7. m.u # Nil /\ m.u.temp => Unbound(sessions, m.u.id)
      BY <1>7, <2>1, AgedFacts DEF HandOK
    <2>8. label \in {"save", "link.save"} => TempOK(m.u)
      BY <1>6, <2>1, <2>2, AgedSucceeds DEF HandOK
    <2>9. label # "idle" /\ a.op = "initLink" => LinkAccount
      BY <2>1 DEF HandOK
    <2>10. label \in {"link.save", "linkAccount"} => HoldsCredentials(a, m.u)
      <3> SUFFICES ASSUME label \in {"link.save", "linkAccount"}
                   PROVE  HoldsCredentials(a, m.u)
        OBVIOUS
      <3>1. l.u \in User /\ m.u = Aged(l.u)
        BY <1>6 DEF HoldsUser
      <3> QED BY <1>13, <2>1, <3>1, AgedFacts DEF HandOK, HoldsCredentials
    <2>11. label = "linkAccount" /\ users'[m.u.id] # Nil => HoldsCredentials(a, users'[m.u.id])
      <3> SUFFICES ASSUME label = "linkAccount", users'[m.u.id] # Nil
                   PROVE  HoldsCredentials(a, users'[m.u.id])
        OBVIOUS
      <3>1. m.u.id = l.u.id /\ l.u.id \in UserIds
        BY <2>3 DEF HoldsUser
      <3>2. users[l.u.id] \in User /\ users'[l.u.id] = Aged(users[l.u.id])
        BY <1>8, <3>1
      <3>3. HoldsCredentials(a, users[l.u.id])
        BY <2>1, <3>2, UserFacts DEF HandOK
      <3> DEFINE w == users[l.u.id]
      <3>4. w \in User /\ a.key \in Keys /\ users'[m.u.id] = Aged(w) /\ HoldsCredentials(a, w)
        BY <1>13, <3>1, <3>2, <3>3
      <3> HIDE DEF w
      <3>5. HoldsCredentials(a, Aged(w))
        BY <3>4, AgedFacts DEF HoldsCredentials
      <3> QED BY <3>4, <3>5
    <2> HIDE DEF label, a, m, l
    <2> QED BY <2>4, <2>5, <2>6, <2>7, <2>8, <2>9, <2>10, <2>11 DEF HandOK
  <1> QED BY <1>2, <1>14, <1>15, <1>16 DEF AloneOK

----------------------------------------------------------------------------
(* The invariant, and what becomes of a stored user.                       *)

\* A stored user stays, succeeded by itself, or it is one to lose.
Persists(id) ==
    /\ users'[id] # Nil => Succeeds(users'[id], users[id])
    /\ users'[id] = Nil =>
         \/ users[id].guest \/ users[id].temp
         \/ \E p \in Procs : /\ At(p, "linkAccount")
                             /\ loc[p].u.id = id
                             /\ arg[p].confirm
                             /\ HoldsCredentials(arg[p], users[id])

\* No session is bound to a temporary user, no temporary user has a social
\* identity, and stored users persist.
StoreInOrder ==
    /\ NoTempSession'
    /\ \A id \in Stored(users)' : TempOK(users'[id])
    /\ \A id \in Stored(users) : Persists(id)

\* A step of a request does no more than it may.
LEMMA FineInOrder ==
  ASSUME SeqInv, SaveFine \/ RemovalFine \/ BindFine
  PROVE  StoreInOrder
  <1>0. Storer(users) /\ NoTempSession /\ sessions \in [Sessions -> UserIds \cup {Nil}]
    BY TypeParts DEF SeqInv, SessionsOK
  <1>1. \A i \in Stored(users) : users[i] \in User /\ Succeeds(users[i], users[i]) /\ TempOK(users[i])
    <2> SUFFICES ASSUME NEW i \in Stored(users)
                 PROVE  users[i] \in User /\ Succeeds(users[i], users[i]) /\ TempOK(users[i])
      OBVIOUS
    <2>1. users[i] \in User /\ TempOK(users[i])
      BY <1>0 DEF Stored, Storer, SeqInv
    <2>2. Succeeds(users[i], users[i])
      BY <2>1, OthersSucceed
    <2> QED BY <2>1, <2>2
  <1>2. CASE SaveFine
    <2>1. PICK u \in User : /\ Save(u) /\ SucceedsStored(users, u) /\ TempOK(u)
                            /\ u.temp => Unbound(sessions, u.id)
                            /\ UNCHANGED sessions
      BY <1>2 DEF SaveFine
    <2>2. u.id \in UserIds /\ u # Nil
      BY UserFacts
    <2>3. users'[u.id] = u /\ \A i \in UserIds \ {u.id} : users'[i] = users[i]
      BY <1>0, <2>1, StorerEffects DEF Save
    <2>4. NoTempSession'
      BY <1>0, <2>1, <2>2, <2>3 DEF NoTempSession, Bound, Stored, Unbound
    <2>5. \A i \in Stored(users)' : TempOK(users'[i])
      BY <1>1, <2>1, <2>3 DEF Stored
    <2>6. \A i \in Stored(users) : Persists(i)
      BY <1>1, <2>1, <2>2, <2>3 DEF Persists, Stored, SucceedsStored
    <2> QED BY <2>4, <2>5, <2>6 DEF StoreInOrder
  <1>3. CASE RemovalFine
    <2>1. PICK id \in UserIds \cup {Nil} :
            /\ users' = RemoveByID(users, id)
            /\ \/ Dispensable(users, id)
               \/ \E p \in Procs : /\ At(p, "linkAccount")
                                   /\ loc[p].u.id = id
                                   /\ arg[p].confirm
                                   /\ HoldsCredentials(arg[p], users[id])
            /\ UNCHANGED sessions
      BY <1>3 DEF RemovalFine
    <2>2. \A i \in UserIds : users'[i] = IF i = id THEN Nil ELSE users[i]
      BY <1>0, <2>1 DEF RemoveByID, Storer
    <2>3. NoTempSession'
      BY <1>0, <2>1, <2>2 DEF NoTempSession, Bound, Stored
    <2>4. \A i \in Stored(users)' : TempOK(users'[i])
      BY <1>1, <2>2 DEF Stored
    <2>5. \A i \in Stored(users) : Persists(i)
      BY <1>1, <2>1, <2>2 DEF Persists, Stored, Dispensable
    <2> QED BY <2>3, <2>4, <2>5 DEF StoreInOrder
  <1>4. CASE BindFine
    <2>1. users' = users
      BY <1>4 DEF BindFine
    <2>2. NoTempSession'
      <3>1. CASE UNCHANGED sessions
        BY <1>0, <2>1, <3>1 DEF NoTempSession, Bound
      <3>2. ASSUME NEW s \in Sessions, NEW id \in UserIds \cup {Nil},
                   sessions' = [sessions EXCEPT ![s] = id],
                   id # Nil /\ users[id] # Nil => ~users[id].temp
            PROVE  NoTempSession'
        <4>1. ASSUME NEW t \in Sessions, sessions'[t] \in Stored(users)
              PROVE  ~users[sessions'[t]].temp
          <5>1. sessions'[t] \in UserIds /\ users[sessions'[t]] # Nil
            BY <4>1 DEF Stored
          <5>2. sessions'[t] # Nil
            BY <5>1, NilIsNoValue
          <5>3. CASE t = s
            BY <1>0, <3>2, <5>1, <5>2, <5>3
          <5>4. CASE t # s
            BY <1>0, <3>2, <4>1, <5>4 DEF NoTempSession, Bound
          <5> QED BY <5>3, <5>4
        <4> QED BY <2>1, <4>1 DEF NoTempSession, Bound
      <3> QED BY <1>4, <3>1, <3>2 DEF BindFine
    <2>3. \A i \in Stored(users) : Persists(i)
      BY <1>1, <2>1 DEF Persists, Stored
    <2>4. \A i \in Stored(users)' : TempOK(users'[i])
      BY <1>1, <2>1
    <2> QED BY <2>2, <2>3, <2>4 DEF StoreInOrder
  <1> QED BY <1>2, <1>3, <1>4

\* Neither does time.
LEMMA TickInOrder ==
  ASSUME SeqInv, Tick
  PROVE  StoreInOrder
  <1>0. Storer(users) /\ NoTempSession
    BY TypeParts DEF SeqInv
  <1>1. \A i \in UserIds : \/ users[i] = Nil /\ users'[i] = Nil
                           \/ users[i] \in User /\ users'[i] = Aged(users[i])
    BY <1>0 DEF Tick, Storer, AgedOrNil
  <1>2. sessions' = sessions
    BY DEF Tick
  <1>3. NoTempSession'
    <2> SUFFICES ASSUME NEW s \in Sessions, sessions[s] \in UserIds,
                        users'[sessions[s]] # Nil
                 PROVE  ~users'[sessions[s]].temp
      BY <1>2 DEF NoTempSession, Bound, Stored
    <2> DEFINE v == users[sessions[s]]
    <2>1. v \in User /\ users'[sessions[s]] = Aged(v)
      BY <1>1
    <2>2. ~v.temp
      BY <1>0, <2>1, UserFacts DEF NoTempSession, Bound, Stored
    <2> QED BY <2>1, <2>2, AgedFacts
  <1>4. \A i \in Stored(users)' : TempOK(users'[i])
    <2> SUFFICES ASSUME NEW i \in UserIds, users'[i] # Nil
                 PROVE  TempOK(users'[i])
      BY DEF Stored
    <2>1. users[i] \in User /\ users'[i] = Aged(users[i])
      BY <1>1
    <2>2. TempOK(users[i])
      BY <2>1, UserFacts DEF SeqInv, Stored
    <2> QED BY <2>1, <2>2, AgedSucceeds
  <1>5. \A i \in Stored(users) : Persists(i)
    BY <1>1, AgedFacts, AgedSucceeds DEF Persists, Stored
  <1> QED BY <1>3, <1>4, <1>5 DEF StoreInOrder

\* The invariant holds at the start, when there is nothing,
LEMMA InitAlone == Init => SeqInv
  <1> SUFFICES ASSUME Init PROVE SeqInv
    OBVIOUS
  <1>1. TypeOK /\ UniqueIdentities
    BY InitTyped DEF UniqueIdentities
  <1>2. Stored(users) = {}
    BY DEF Init, Stored
  <1>3. \A us, ss : AloneOK("idle", NoArg, NoLoc, us, ss)
    BY DEF AloneOK, CurrentOK, RemovalOK, HandOK, NoLoc, NoArg, AllRoutes, Pending, ToBind
  <1>4. \A p \in Procs : AloneOK(pc[p], arg[p], loc[p], users, sessions)
    BY <1>3 DEF Init
  <1> QED BY <1>1, <1>2, <1>4 DEF SeqInv, NoTempSession, Bound

\* and every step keeps it, and the store in order.
LEMMA NextAlone ==
  ASSUME OneAtATime, SeqInv, [Next]_vars
  PROVE  SeqInv' /\ StoreInOrder
  <1>1. TypeOK' /\ UniqueIdentities'
    BY NextTyped DEF SeqInv, UniqueIdentities
  <1>2. CASE Tick
    BY <1>1, <1>2, TickAlone, TickInOrder DEF SeqInv, StoreInOrder
  <1>3. ASSUME NEW p \in Procs, Step(p)
        PROVE  SeqInv' /\ StoreInOrder
    <2>1. Fine(p)
      BY <1>3, StepAlone
    <2>2. StoreInOrder
      BY <2>1, FineInOrder DEF Fine
    <2>3. \A q \in Procs : AloneOK(pc'[q], arg'[q], loc'[q], users', sessions')
      BY <2>1 DEF OneAtATime, Fine
    <2> QED BY <1>1, <2>2, <2>3 DEF SeqInv, StoreInOrder
  <1>4. CASE UNCHANGED vars
    <2>1. UNCHANGED <<users, sessions, pc, arg, loc>>
      BY <1>4 DEF vars
    <2>2. BindFine
      BY <2>1 DEF BindFine
    <2>3. StoreInOrder
      BY <2>2, FineInOrder
    <2>4. \A q \in Procs : AloneOK(pc'[q], arg'[q], loc'[q], users', sessions')
      BY <2>1 DEF SeqInv
    <2> QED BY <1>1, <2>3, <2>4 DEF SeqInv, StoreInOrder
  <1> QED BY <1>2, <1>3, <1>4 DEF Next

----------------------------------------------------------------------------
(* The theorems.                                                           *)

\* Nobody acts as a temporary user: no login, registration or linking ends
\* with a session bound to the user an identity is parked in, and no bound
\* user becomes one.
THEOREM NobodyTemporary == OneAtATime => (Spec => []NoTempSession)
  <1> SUFFICES ASSUME OneAtATime PROVE Spec => []NoTempSession
    OBVIOUS
  <1>1. Init => SeqInv
    BY InitAlone
  <1>2. SeqInv /\ [Next]_vars => SeqInv'
    BY NextAlone
  <1>3. SeqInv => NoTempSession
    BY DEF SeqInv
  <1> QED BY <1>1, <1>2, <1>3, PTL DEF Spec

\* The guests, temporary users and merged accounts that the handlers remove
\* never turn out to be somebody's registered account, but for the one a
\* confirmed merge shows the credentials of: removals and password compares
\* look at a copy, and alone that copy is what is stored.
THEOREM RegistrationLasts == OneAtATime => (Spec => RegisteredStays)
  <1> DEFINE A == \A id \in Stored(users) :
                    users'[id] = Nil /\ ~users[id].guest /\ ~users[id].temp
                      => \E p \in Procs : /\ At(p, "linkAccount")
                                          /\ loc[p].u.id = id
                                          /\ arg[p].confirm
                                          /\ HoldsCredentials(arg[p], users[id])
  <1> SUFFICES ASSUME OneAtATime PROVE Spec => [][A]_vars
    BY DEF RegisteredStays
  <1>1. Init => SeqInv
    BY InitAlone
  <1>2. SeqInv /\ [Next]_vars => SeqInv' /\ A
    BY NextAlone DEF StoreInOrder, Persists
  <1> QED BY <1>1, <1>2, PTL DEF Spec

\* No save of a handler takes a confirmation back.
THEOREM ConfirmationLasts == OneAtATime => (Spec => ConfirmationStays)
  <1> DEFINE A == \A id \in Stored(users), k \in Keys :
                    /\ users[id].auths[k].confirmed
                    /\ users'[id] # Nil
                    /\ GetUID(users'[id], k) = GetUID(users[id], k)
                    => users'[id].auths[k].confirmed
  <1> SUFFICES ASSUME OneAtATime PROVE Spec => [][A]_vars
    BY DEF ConfirmationStays
  <1>1. Init => SeqInv
    BY InitAlone
  <1>2. SeqInv /\ [Next]_vars => SeqInv' /\ A
    BY NextAlone DEF StoreInOrder, Persists, Succeeds
  <1> QED BY <1>1, <1>2, PTL DEF Spec

\* Whichever routes send codes to an identity, they keep their distance.
THEOREM CodesKeepDistance == OneAtATime => (Spec => CodesAreSpaced)
  <1> DEFINE A == \A id \in Stored(users), k \in Keys :
                    /\ users'[id] # Nil
                    /\ GetUID(users'[id], k) = GetUID(users[id], k)
                    /\ SentAt(users[id], k) # Nil /\ SentAt(users'[id], k) # Nil
                    /\ SentAt(users'[id], k) < SentAt(users[id], k)
                    => SentAt(users[id], k) > ResendDelay(k)
  <1> SUFFICES ASSUME OneAtATime PROVE Spec => [][A]_vars
    BY DEF CodesAreSpaced
  <1>1. Init => SeqInv
    BY InitAlone
  <1>2. SeqInv /\ [Next]_vars => SeqInv' /\ A
    BY NextAlone DEF StoreInOrder, Persists, Succeeds
  <1> QED BY <1>1, <1>2, PTL DEF Spec

----------------------------------------------------------------------------
(* Codes that are good once: the invariant.                                *)

\* The identities whose code is used up once it has served.  A login whose
\* Save fails leaves a one-time password in place.
OnceKeys == PasswordKeys \cup (IF SaveMayFail THEN {} ELSE OTPKeys)

\* The code that is traded for a login, or for a new password.
Secret(u, k) == IF k \in OTPKeys THEN u.auths[k].password ELSE u.auths[k].recoveryCode

\* Of the spent identities S the user keeps no code,
UsedUp(u, S) == \A k \in OnceKeys : <<k, GetUID(u, k)>> \in S => Secret(u, k) = Empty

\* and neither does any stored one.
Clean(us, S) == \A id \in UserIds : us[id] # Nil => UsedUp(us[id], S)

Named(a) == <<a.key, a.uid>>

\* Between the login and the Save its code is still stored,
Due(label, a) == IF label = "otpAuth.save" THEN {Named(a)} ELSE {}

\* and the user in hand may be to save with a new one.
DueInHand(label, a) ==
    IF \/ label = "otpAuth.save"
       \/ label = "save" /\ a.op \in {"otpCode", "requestRecovery"}
    THEN {Named(a)} ELSE {}

\* Nobody else owns an identity of the user, but for the users in X.
Sole(us, u, X) ==
    \A k \in Keys : Present(u, k) => Owners(us, k, GetUID(u, k)) \subseteq {u.id} \cup X

CodesOnce(label, a, l, us, S) ==
    /\ Clean(us, S \ Due(label, a))
    /\ l.User # Nil => UsedUp(l.User, S \ Due(label, a))
    /\ l.u # Nil => UsedUp(l.u, S \ DueInHand(label, a))
    /\ label \in AllRoutes /\ l.User # Nil => us[l.User.id] = l.User
    /\ label # "idle" => /\ a.op = "recovery" => a.code \in Codes
                         /\ a.op = "otpAuth" => a.secret \in Codes
    /\ label = "save" /\ a.op = "recovery"
         => GetUID(l.u, a.key) = a.uid /\ Secret(l.u, a.key) = Empty

\* A login goes on with the one owner of the identity.
LoginOnce(label, a, l, us, S) ==
    /\ label \in {"otpAuth.remove", "otpAuth.bind"} /\ a.key \in OnceKeys => Named(a) \notin S
    /\ label \in {"otpAuth.remove", "otpAuth.bind", "otpAuth.save"} => GetUID(l.u, a.key) = a.uid
    /\ label = "otpAuth.remove" => Sole(us, l.u, {l.removeUserID})
    /\ label \in {"otpAuth.bind", "otpAuth.save"} => Sole(us, l.u, {})

OnceInv == \A p \in Procs : /\ CodesOnce(pc[p], arg[p], loc[p], users, spent)
                            /\ LoginOnce(pc[p], arg[p], loc[p], users, spent)

\* What a step is to establish.
Once(p) == /\ CodesOnce(pc'[p], arg'[p], loc'[p], users', spent')
           /\ LoginOnce(pc'[p], arg'[p], loc'[p], users', spent')

----------------------------------------------------------------------------
(* What the setters do to codes.                                           *)

\* Of the identities with keys in K the user has lost the code, or it has
\* kept both code and uid.
Retains(w, v, K) ==
    \A k \in K : \/ Secret(w, k) = Empty
                 \/ Secret(w, k) = Secret(v, k) /\ GetUID(w, k) = GetUID(v, k)

\* Each setter keeps the codes; those of codes, all but their own.
LEMMA SettersRetain ==
  ASSUME NEW v \in User, NEW k \in Keys, NEW x
  PROVE  /\ Retains(SetUID(v, k, x), v, Keys)
         /\ k \in PasswordKeys => Retains(SetPassword(v, k, x), v, Keys)
         /\ Retains(SetConfirmCode(v, k, x), v, Keys)
         /\ Retains(SetConfirmed(v, k, x), v, Keys)
         /\ Retains(StampCode(v, k), v, Keys)
         /\ Retains(ClearStamp(v, k), v, Keys)
         /\ Retains(SetOTP(v, k, x), v, Keys \ {k})
         /\ Retains(SetRecoveryCode(v, k, x), v, Keys \ {k})
  <1>1. Retains(SetUID(v, k, x), v, Keys)
    BY DEF Retains, Secret, SetUID, User, GetUID, ZeroIdentity
  <1>2. k \in PasswordKeys => Retains(SetPassword(v, k, x), v, Keys)
    BY KindsDisjoint DEF Retains, Secret, SetPassword, User, Identity, GetUID
  <1>3. Retains(SetConfirmCode(v, k, x), v, Keys)
    BY DEF Retains, Secret, SetConfirmCode, User, Identity, GetUID
  <1>4. Retains(SetConfirmed(v, k, x), v, Keys)
    BY DEF Retains, Secret, SetConfirmed, User, Identity, GetUID
  <1>5. Retains(StampCode(v, k), v, Keys)
    BY DEF Retains, Secret, StampCode, SetCodeSentTime, User, Identity, GetUID
  <1>6. Retains(ClearStamp(v, k), v, Keys)
    BY DEF Retains, Secret, ClearStamp, SetCodeSentTime, User, Identity, GetUID
  <1>7. Retains(SetOTP(v, k, x), v, Keys \ {k})
    BY DEF Retains, Secret, SetOTP, User, Identity, GetUID
  <1>8. Retains(SetRecoveryCode(v, k, x), v, Keys \ {k})
    BY DEF Retains, Secret, SetRecoveryCode, User, Identity, GetUID
  <1> QED BY <1>1, <1>2, <1>3, <1>4, <1>5, <1>6, <1>7, <1>8

\* The identity stays the one it is.
LEMMA SettersKeepUID ==
  ASSUME NEW v \in User, NEW k \in Keys, NEW x
  PROVE  /\ GetUID(SetPassword(v, k, x), k) = GetUID(v, k)
         /\ GetUID(SetOTP(v, k, x), k) = GetUID(v, k)
         /\ GetUID(SetRecoveryCode(v, k, x), k) = GetUID(v, k)
         /\ GetUID(SetConfirmed(v, k, x), k) = GetUID(v, k)
         /\ GetUID(StampCode(v, k), k) = GetUID(v, k)
         /\ GetUID(ClearStamp(v, k), k) = GetUID(v, k)
  <1>1. \A w : Kept(w, v) \/ Beside(w, v, k) => GetUID(w, k) = GetUID(v, k)
    BY DEF Kept, Beside
  <1>2. /\ Kept(SetPassword(v, k, x), v) /\ Kept(SetOTP(v, k, x), v)
        /\ Kept(SetRecoveryCode(v, k, x), v) /\ Kept(ClearStamp(v, k), v)
    BY SettersKeep
  <1>3. Beside(SetConfirmed(v, k, x), v, k) /\ Beside(StampCode(v, k), v, k)
    BY SettersBeside
  <1> QED BY <1>1, <1>2, <1>3

\* The flags have nothing to do with codes.
LEMMA FlagsRetain ==
  ASSUME NEW v \in User, NEW b
  PROVE  Retains(SetGuest(v, b), v, Keys) /\ Retains(SetTemp(v, b), v, Keys)
  BY DEF Retains, Secret, SetGuest, SetTemp, User, GetUID

\* Retaining is transitive, and what is used up stays so.
LEMMA RetainOn ==
  ASSUME NEW w, NEW v, NEW S
  PROVE  /\ \A x, K : Retains(w, x, K) /\ Retains(x, v, K) => Retains(w, v, K)
         /\ Retains(w, v, Keys) /\ UsedUp(v, S) => UsedUp(w, S)
         /\ \A k : Retains(w, v, Keys \ {k}) /\ UsedUp(v, S)
                     => UsedUp(w, S \ {<<k, GetUID(w, k)>>})
         /\ \A T : T \subseteq S /\ UsedUp(v, S) => UsedUp(v, T)
         /\ Retains(v, v, Keys)
  <1>0. OnceKeys \subseteq Keys
    BY DEF OnceKeys, Keys
  <1>1. \A x, K : Retains(w, x, K) /\ Retains(x, v, K) => Retains(w, v, K)
    BY DEF Retains
  <1>2. Retains(w, v, Keys) /\ UsedUp(v, S) => UsedUp(w, S)
    BY <1>0 DEF Retains, UsedUp
  <1>3. \A k : Retains(w, v, Keys \ {k}) /\ UsedUp(v, S)
                 => UsedUp(w, S \ {<<k, GetUID(w, k)>>})
    BY <1>0 DEF Retains, UsedUp
  <1>4. \A T : T \subseteq S /\ UsedUp(v, S) => UsedUp(v, T)
    BY DEF UsedUp
  <1>5. Retains(v, v, Keys)
    BY DEF Retains
  <1> QED BY <1>1, <1>2, <1>3, <1>4, <1>5

\* A created user has no code.
LEMMA NewUsedUp ==
  ASSUME NEW id \in UserIds, NEW S
  PROVE  UsedUp(NewUser(id), S)
  BY DEF UsedUp, OnceKeys, Keys, Secret, NewUser, ZeroIdentity

\* Linking and merging hand no code on.
LEMMA LinkedRetains ==
  ASSUME NEW v \in User, NEW link \in User, NEW k \in Keys
  PROVE  /\ Retains(LinkIdentity(v, link, k), v, Keys)
         /\ Retains(MergeIdentities(v, link), v, Keys)
  <1>1. Retains(LinkIdentity(v, link, k), v, Keys)
    <2> DEFINE n == SetUID(v, k, GetUID(link, k))
               w == IF k \in PasswordKeys THEN SetPassword(n, k, link.auths[k].password) ELSE n
    <2>0. /\ GetUID(link, k) \in UIDs \cup {Empty}
          /\ link.auths[k].password \in Passwords \cup Codes \cup {Empty}
      BY DEF User, Identity, GetUID
    <2>1. n \in User /\ Retains(n, v, Keys)
      BY <2>0, SetUIDType, SettersRetain
    <2> HIDE DEF n
    <2>2. w \in User /\ Retains(w, n, Keys)
      <3> DEFINE s == SetPassword(n, k, link.auths[k].password)
      <3>1. s \in User /\ (k \in PasswordKeys => Retains(s, n, Keys))
        BY <2>0, <2>1, SetPasswordType, SettersRetain
      <3>2. Retains(n, n, Keys)
        BY RetainOn
      <3> HIDE DEF s, Retains
      <3> QED BY <2>1, <3>1, <3>2 DEF w, s
    <2> HIDE DEF w
    <2>3. Retains(SetConfirmed(w, k, link.auths[k].confirmed), w, Keys)
      BY <2>2, SettersRetain
    <2>4. LinkIdentity(v, link, k) = SetConfirmed(w, k, link.auths[k].confirmed)
      BY DEF LinkIdentity, w, n
    <2> HIDE DEF Retains
    <2> QED BY <2>1, <2>2, <2>3, <2>4, RetainOn
  <1>2. Retains(MergeIdentities(v, link), v, Keys)
    <2> DEFINE w == MergeIdentities(v, link)
    <2>1. \A j \in Keys : w.auths[j] = IF Moves(v, link, j) THEN Moved(link, j) ELSE v.auths[j]
      BY DEF MergeIdentities, User
    <2>2. \A j \in Keys : Moved(link, j).recoveryCode = Empty
                          /\ (j \in OTPKeys => Moved(link, j).password = Empty)
      BY KindsDisjoint DEF Moved, ZeroIdentity
    <2> HIDE DEF w
    <2>3. Retains(w, v, Keys)
      BY <2>1, <2>2 DEF Retains, Secret, GetUID
    <2> QED BY <2>3 DEF w
  <1> QED BY <1>1, <1>2

----------------------------------------------------------------------------
(* Steps that use up no code and send none.                                *)

\* What Save and RemoveByID make of a clean store.
LEMMA CleanSteps ==
  ASSUME NEW us, Storer(us), NEW S, Clean(us, S)
  PROVE  /\ \A u \in User : UsedUp(u, S) => Clean(Put(us, u), S)
         /\ \A id : Clean(RemoveByID(us, id), S)
         /\ \A T : T \subseteq S => Clean(us, T)
  <1>1. ASSUME NEW u \in User, UsedUp(u, S), NEW i \in UserIds, Put(us, u)[i] # Nil
        PROVE  UsedUp(Put(us, u)[i], S)
    <2>1. CASE i = u.id
      BY <1>1, <2>1, StorerEffects
    <2>2. CASE i # u.id
      BY <1>1, <2>2, StorerEffects DEF Clean
    <2> QED BY <2>1, <2>2
  <1>2. ASSUME NEW id PROVE Clean(RemoveByID(us, id), S)
    <2>1. \A i \in UserIds : RemoveByID(us, id)[i] \in {us[i], Nil}
      BY StorerEffects
    <2> QED BY <2>1 DEF Clean
  <1>3. ASSUME NEW T, T \subseteq S PROVE Clean(us, T)
    BY <1>3, RetainOn DEF Clean
  <1> QED BY <1>1, <1>2, <1>3 DEF Clean

\* An answered request.
LEMMA ReturnOnce ==
  ASSUME TypeOK, NEW p \in Procs, Return(p), Clean(users', spent')
  PROVE  Once(p)
  <1>1. NoLoc.User = Nil /\ NoLoc.u = Nil
    BY DEF NoLoc
  <1>2. spent' \ Due("idle", NoArg) = spent'
    BY DEF Due
  <1>3. \A us, S : Clean(us, S \ Due("idle", NoArg)) => CodesOnce("idle", NoArg, NoLoc, us, S)
    BY <1>1 DEF CodesOnce, AllRoutes
  <1>4. \A us, S : LoginOnce("idle", NoArg, NoLoc, us, S)
    BY DEF LoginOnce
  <1> QED BY <1>2, <1>3, <1>4, Control DEF Once

\* Labels that ask for no more than clean copies.
PlainLabels == Labels \ (AllRoutes \cup {"idle", "save", "otpAuth.remove", "otpAuth.bind", "otpAuth.save"})

\* What a request has to start with.
LEMMA OnceParts ==
  ASSUME OnceInv, NEW p \in Procs, pc[p] \notin {"idle", "save", "otpAuth.save"}
  PROVE  /\ Clean(users, spent)
         /\ loc[p].User # Nil => UsedUp(loc[p].User, spent)
         /\ loc[p].u # Nil => UsedUp(loc[p].u, spent)
         /\ pc[p] \in AllRoutes /\ loc[p].User # Nil => users[loc[p].User.id] = loc[p].User
         /\ arg[p].op = "recovery" => arg[p].code \in Codes
         /\ arg[p].op = "otpAuth" => arg[p].secret \in Codes
  BY DEF OnceInv, CodesOnce, Due, DueInHand

\* Going on to such a label, or to "save".
LEMMA PlainOnce ==
  ASSUME SeqInv, OnceInv, NEW p \in Procs, pc[p] \notin {"idle", "save", "otpAuth.save"},
         NEW m, NEW label \in PlainLabels \cup {"save"}, Continue(p, m, label),
         m.User = loc[p].User, label = "save" => arg[p].op # "recovery",
         m.u # Nil => UsedUp(m.u, spent \ DueInHand(label, arg[p])),
         Clean(users', spent), UNCHANGED spent
  PROVE  Once(p)
  <1>1. label \notin AllRoutes \cup {"idle", "otpAuth.remove", "otpAuth.bind", "otpAuth.save"}
    BY DEF PlainLabels, AllRoutes
  <1>2. spent \ Due(label, arg[p]) = spent
    BY <1>1 DEF Due
  <1>3. CodesOnce(label, arg[p], m, users', spent)
    BY <1>1, <1>2, OnceParts DEF CodesOnce
  <1>4. LoginOnce(label, arg[p], m, users', spent)
    BY <1>1 DEF LoginOnce
  <1>5. TypeOK
    BY DEF SeqInv
  <1> QED BY <1>3, <1>4, <1>5, Control DEF Once

\* One call to the storer at most, of a user whose codes are used up.
MildCall ==
    /\ \/ UNCHANGED users
       \/ \E u \in User : Save(u) /\ UsedUp(u, spent)
       \/ \E id : users' = RemoveByID(users, id)
    /\ UNCHANGED spent

\* The request is answered, or goes on with the users it has.
GoesOn(p) ==
    \/ Return(p)
    \/ \E m : /\ \E label \in PlainLabels : Continue(p, m, label)
               /\ m.User = loc[p].User
               /\ m.u = loc[p].u

\* Such a call leaves the store clean, and the request, going on, in order.
LEMMA MildOnce ==
  ASSUME SeqInv, OnceInv, NEW p \in Procs, pc[p] \notin {"idle", "save", "otpAuth.save"},
         MildCall
  PROVE  /\ Clean(users', spent)
         /\ GoesOn(p) => Once(p)
  <1>0. TypeOK /\ Storer(users) /\ Clean(users, spent)
    BY OnceParts, TypeParts DEF SeqInv
  <1>1. Clean(users', spent)
    BY <1>0, CleanSteps DEF MildCall, Save
  <1>2. ASSUME NEW m, NEW label \in PlainLabels, Continue(p, m, label),
               m.User = loc[p].User, m.u = loc[p].u
        PROVE  Once(p)
    <2>1. m.u # Nil => UsedUp(m.u, spent \ DueInHand(label, arg[p]))
      BY <1>2, OnceParts, RetainOn
    <2>2. label # "save"
      BY DEF PlainLabels
    <2> QED BY <1>1, <1>2, <2>1, <2>2, PlainOnce DEF MildCall
  <1>3. Return(p) => Once(p)
    BY <1>0, <1>1, ReturnOnce DEF MildCall
  <1> QED BY <1>1, <1>2, <1>3 DEF GoesOn

\* A refused request.
LEMMA RefuseOnce ==
  ASSUME SeqInv, OnceInv, NEW p \in Procs, pc[p] \notin {"idle", "save", "otpAuth.save"},
         Refuse(p)
  PROVE  Once(p)
  BY MildOnce DEF Refuse, MildCall, GoesOn, store, history

\* A request that arrives.
LEMMA BeginOnce ==
  ASSUME SeqInv, OnceInv, NEW p \in Procs, NEW a, NEW label \in FirstLabels,
         a.op = "recovery" => a.code \in Codes,
         a.op = "otpAuth" => a.secret \in Codes,
         Begin(p, a, label)
  PROVE  Once(p)
  <1>0. TypeOK
    BY DEF SeqInv
  <1>1. pc[p] = "idle" /\ loc[p] = NoLoc
    BY DEF SeqInv, AloneOK, CurrentOK, Begin, At
  <1>2. NoLoc.User = Nil /\ NoLoc.u = Nil
    BY DEF NoLoc
  <1>3. Clean(users, spent)
    BY <1>1 DEF OnceInv, CodesOnce, Due
  <1>4. CodesOnce(label, a, NoLoc, users, spent)
    BY <1>2, <1>3 DEF CodesOnce, FirstLabels, Due
  <1>5. LoginOnce(label, a, NoLoc, users, spent)
    BY DEF LoginOnce, FirstLabels
  <1>6. spent' = spent
    BY DEF Begin
  <1> QED BY <1>0, <1>1, <1>4, <1>5, <1>6, Control DEF Once

----------------------------------------------------------------------------
(* The handlers, action by action.                                         *)

\* The user found by the identity a request names.
LEMMA FoundOnce ==
  ASSUME SeqInv, OnceInv, NEW p \in Procs, pc[p] \in AllRoutes,
         arg[p].key \in Keys, arg[p].uid \in UIDs, Found(p) # Nil
  PROVE  /\ Found(p) \in User /\ users[Found(p).id] = Found(p)
         /\ UsedUp(Found(p), spent)
         /\ GetUID(Found(p), arg[p].key) = arg[p].uid
         /\ Owners(users, arg[p].key, arg[p].uid) \subseteq {Found(p).id}
  <1>1. /\ Found(p) \in User /\ users[Found(p).id] = Found(p)
        /\ GetUID(Found(p), arg[p].key) = arg[p].uid
        /\ Owners(users, arg[p].key, arg[p].uid) \subseteq {Found(p).id}
    BY FoundFacts
  <1>2. pc[p] \notin {"idle", "save", "otpAuth.save"}
    BY DEF AllRoutes
  <1>3. UsedUp(Found(p), spent)
    BY <1>1, <1>2, OnceParts, UserFacts DEF Clean
  <1> QED BY <1>1, <1>3

\* A user is taken in hand, its codes used up.
LEMMA TakeOnce ==
  ASSUME SeqInv, OnceInv, NEW p \in Procs, pc[p] \notin {"idle", "save", "otpAuth.save"},
         NEW u, NEW label \in PlainLabels \cup {"save"},
         Continue(p, [loc[p] EXCEPT !.u = u], label),
         label = "save" => arg[p].op # "recovery",
         UsedUp(u, spent \ DueInHand(label, arg[p])), MildCall
  PROVE  Once(p)
  <1> DEFINE m == [loc[p] EXCEPT !.u = u]
  <1>1. m.u = u /\ m.User = loc[p].User
    BY InHand DEF SeqInv
  <1>2. Clean(users', spent) /\ UNCHANGED spent
    BY MildOnce DEF MildCall
  <1> HIDE DEF m
  <1> QED BY <1>1, <1>2, PlainOnce DEF m

\* Save answers for the identity it uses up, or hands a new code to.
LEMMA SavedOnce ==
  ASSUME SeqInv, OnceInv, NEW p \in Procs, SaveAndReturn(p)
  PROVE  Once(p)
  <1>0. /\ TypeOK /\ Storer(users) /\ pc[p] = "save"
        /\ CodesOnce("save", arg[p], loc[p], users, spent)
    BY TypeParts DEF SeqInv, OnceInv, SaveAndReturn, At
  <1> DEFINE u == loc[p].u
             a == arg[p]
  <1>1. u \in User /\ u # Nil
    BY <1>0, LabelFacts, UserFacts DEF HoldsUser
  <1>2. Clean(users, spent)
    BY <1>0 DEF CodesOnce, Due
  <1>3. Return(p)
    BY DEF SaveAndReturn
  <1>4. CASE SaveFails(u) /\ UNCHANGED spent
    BY <1>0, <1>2, <1>3, <1>4, ReturnOnce DEF SaveFails
  <1>5. CASE Save(u) /\ Spend(p)
    <2>1. users' = Put(users, u) /\ ~IsDuplicate(users, u)
      BY <1>5 DEF Save
    <2>2. CASE a.op \in {"otpCode", "requestRecovery"}
      <3>1. spent' = spent \ {Named(a)}
        BY <1>5, <2>2 DEF Spend, Named
      <3>2. UsedUp(u, spent')
        BY <1>0, <1>1, <2>2, <3>1 DEF CodesOnce, DueInHand
      <3>3. Clean(users, spent')
        BY <1>0, <1>2, <3>1, CleanSteps
      <3> QED BY <1>0, <1>1, <1>3, <2>1, <3>2, <3>3, CleanSteps, ReturnOnce
    <2>3. CASE a.op = "recovery"
      <3>1. spent' = spent \cup {Named(a)}
        BY <1>5, <2>3 DEF Spend, Named
      <3>2. UsedUp(u, spent) /\ GetUID(u, a.key) = a.uid /\ Secret(u, a.key) = Empty
        <4>1. spent \ DueInHand("save", a) = spent
          BY <2>3 DEF DueInHand
        <4> QED BY <1>0, <1>1, <2>3, <4>1 DEF CodesOnce
      <3>3. a.key \in Keys /\ a.uid \in UIDs
        BY <1>0, <2>3, KeyFacts
      <3>4. UsedUp(u, spent')
        BY <3>1, <3>2 DEF UsedUp, Named
      \* The user is the one owner of the identity.
      <3>5. Owners(users, a.key, a.uid) \subseteq {u.id}
        BY <2>1, <3>2, <3>3, EmptyIsNoValue DEF IsDuplicate, Present, GetUID, ZeroIdentity
      <3>6. ASSUME NEW i \in UserIds, users'[i] # Nil
            PROVE  UsedUp(users'[i], spent')
        <4>1. CASE i = u.id
          BY <1>0, <1>1, <2>1, <3>4, <4>1, StorerEffects
        <4>2. CASE i # u.id
          <5>1. users'[i] = users[i]
            BY <1>0, <1>1, <2>1, <4>2, StorerEffects
          <5>2. UsedUp(users[i], spent)
            BY <1>2, <3>6, <5>1 DEF Clean
          <5>3. GetUID(users[i], a.key) # a.uid
            BY <3>3, <3>5, <3>6, <4>2, <5>1, EmptyIsNoValue
               DEF Owners, Stored, Present, GetUID, ZeroIdentity
          <5> QED BY <3>1, <5>1, <5>2, <5>3 DEF UsedUp, Named
        <4> QED BY <4>1, <4>2
      <3> QED BY <1>0, <1>3, <3>6, ReturnOnce DEF Clean
    <2>4. CASE a.op \notin {"otpCode", "requestRecovery", "recovery"}
      <3>1. spent' = spent
        BY <1>5, <2>4 DEF Spend
      <3>2. UsedUp(u, spent)
        <4>1. spent \ DueInHand("save", a) = spent
          BY <2>4 DEF DueInHand
        <4> QED BY <1>0, <1>1, <4>1 DEF CodesOnce
      <3> QED BY <1>0, <1>1, <1>2, <1>3, <2>1, <3>1, <3>2, CleanSteps, ReturnOnce
    <2> QED BY <2>2, <2>3, <2>4
  <1> QED BY <1>4, <1>5 DEF SaveAndReturn

\* checkSession, and the last calls of handlers.
LEMMA SharedOnce ==
  ASSUME SeqInv, OnceInv, NEW p \in Procs, Shared(p)
  PROVE  Once(p)
  <1>0. TypeOK /\ Storer(users) /\ AloneOK(pc[p], arg[p], loc[p], users, sessions)
    BY TypeParts DEF SeqInv
  \* On to the handler, or to the second access, with the user loaded.
  <1>1. ASSUME pc[p] \in {"getUserID", "loadUser"}, NEW m,
               NEW label \in {"loadUser", arg[p].op}, Continue(p, m, label),
               m.u = Nil, m.User # Nil => m.User \in User /\ users[m.User.id] = m.User,
               UNCHANGED <<users, spent>>
        PROVE  Once(p)
    <2>1. arg[p].op \in AllRoutes \ {"recovery"}
      BY <1>0, <1>1, LabelFacts DEF OnRoute, ArgOK
    <2>2. Clean(users, spent)
      BY <1>1, OnceParts
    <2>3. m.User # Nil => UsedUp(m.User, spent)
      BY <1>1, <2>2, UserFacts DEF Clean
    <2>4. spent \ Due(label, arg[p]) = spent
      BY <2>1 DEF Due, AllRoutes
    <2>5. CodesOnce(label, arg[p], m, users, spent)
      BY <1>1, <2>1, <2>2, <2>3, <2>4, OnceParts DEF CodesOnce, AllRoutes
    <2>6. LoginOnce(label, arg[p], m, users, spent)
      BY <2>1 DEF LoginOnce, AllRoutes
    <2> QED BY <1>0, <1>1, <2>5, <2>6, Control DEF Once
  <1>2. CASE GetUserID(p)
    <2>1. pc[p] = "getUserID"
      BY <1>2 DEF GetUserID, At
    <2>2. loc[p] = NoLoc
      BY <1>0, <2>1 DEF AloneOK, CurrentOK
    <2> DEFINE id == sessions[arg[p].s]
               m == [loc[p] EXCEPT !.UserID = id]
    <2>3. m.User = Nil /\ m.u = Nil
      BY <2>2 DEF NoLoc
    <2> QED BY <1>1, <1>2, <2>1, <2>3 DEF GetUserID, store, history
  <1>3. CASE LoadUser(p)
    <2>1. pc[p] = "loadUser"
      BY <1>3 DEF LoadUser, At
    <2>2. loc[p].u = Nil
      BY <1>0, <2>1 DEF AloneOK, CurrentOK
    <2> DEFINE user == LoadByID(users, loc[p].UserID)
               m == [loc[p] EXCEPT !.User = user,
                                   !.UserIsGuest = user # Nil /\ GuestUser /\ user.guest]
    <2>3. user # Nil => user \in User /\ users[user.id] = user
      BY <1>0 DEF LoadByID, Storer
    <2>4. m.User = user /\ m.u = Nil
      BY <1>0, <2>2, RequestFacts DEF Locals
    <2>5. Continue(p, m, arg[p].op) /\ UNCHANGED <<users, spent>>
      BY <1>3 DEF LoadUser, store, history
    <2> HIDE DEF m, user
    <2> QED BY <1>1, <2>1, <2>3, <2>4, <2>5
  <1>4. CASE RemoveGuest(p)
    BY <1>4, MildOnce DEF RemoveGuest, At, MildCall, GoesOn, history
  <1> QED BY <1>2, <1>3, <1>4, SavedOnce DEF Shared

\* auth and signOut: only guests without a code are created.
LEMMA SessionOnce ==
  ASSUME SeqInv, OnceInv, NEW p \in Procs, SessionStep(p)
  PROVE  Once(p)
  <1>0. TypeOK
    BY DEF SeqInv
  <1>1. CASE AuthBegin(p) \/ SignOutBegin(p)
    BY <1>1, BeginOnce DEF AuthBegin, SignOutBegin, BeginWithSession, FirstLabels, NoArg
  <1>2. CASE CreateGuestUser(p)
    <2>1. PICK id \in FreeIds :
            LET u == SetGuest(NewUser(id), TRUE)
            IN  \/ /\ Save(u)
                   /\ Continue(p, [loc[p] EXCEPT !.u = u], "guest.bind")
                \/ SaveFails(u) /\ Return(p)
      BY <1>2 DEF CreateGuestUser
    <2> DEFINE u == SetGuest(NewUser(id), TRUE)
    <2>2. pc[p] = "guest.save" /\ spent' = spent
      BY <1>2 DEF CreateGuestUser, At, history
    <2>3. u \in User /\ UsedUp(u, spent)
      <3>1. NewUser(id) \in User /\ UsedUp(NewUser(id), spent)
        BY FreeFacts, NewUserFacts, NewUsedUp DEF SeqInv
      <3>2. Retains(u, NewUser(id), Keys) /\ u \in User
        BY <3>1, SetFlagType, FlagsRetain
      <3> QED BY <3>1, <3>2, RetainOn
    <2> HIDE DEF u
    <2>4. "guest.bind" \in PlainLabels
      BY DEF PlainLabels, Labels, AllRoutes
    <2>5. CASE SaveFails(u) /\ Return(p)
      BY <2>2, <2>5, MildOnce DEF SaveFails, MildCall, GoesOn
    <2>6. CASE Save(u) /\ Continue(p, [loc[p] EXCEPT !.u = u], "guest.bind")
      <3>1. MildCall
        BY <2>2, <2>3, <2>6 DEF MildCall
      <3>2. UsedUp(u, spent \ DueInHand("guest.bind", arg[p]))
        BY <2>3, RetainOn
      <3> QED BY <2>2, <2>4, <2>6, <3>1, <3>2, TakeOnce
    <2> QED BY <2>1, <2>5, <2>6 DEF u
  <1>3. CASE AuthLoadSession(p)
    <2> DEFINE m == [loc[p] EXCEPT !.UserID = sessions[arg[p].s]]
    <2>1. \E label \in {"auth.guest", "auth.load"} : Continue(p, m, label)
      BY <1>3 DEF AuthLoadSession
    <2>2. m.User = loc[p].User /\ m.u = loc[p].u
      BY <1>0, RequestFacts DEF Locals
    <2>3. GoesOn(p)
      BY <2>1, <2>2 DEF GoesOn, PlainLabels, Labels, AllRoutes
    <2>4. pc[p] = "auth" /\ MildCall
      BY <1>3 DEF AuthLoadSession, At, MildCall, store, history
    <2> QED BY <2>3, <2>4, MildOnce
  <1>4. CASE \/ AuthLoadUser(p) \/ AuthUnbind(p) \/ AuthCreateGuest(p) \/ AuthNoGuest(p)
             \/ BindGuest(p) \/ SignOutUnbind(p) \/ SignOutRemoveGuest(p)
    <2>1. pc[p] \in {"auth.load", "auth.unbind", "auth.guest", "guest.bind", "signOut",
                     "signOut.remove"}
      BY <1>4 DEF AuthLoadUser, AuthUnbind, AuthCreateGuest, AuthNoGuest, BindGuest,
                  SignOutUnbind, SignOutRemoveGuest, At
    <2>2. MildCall
      BY <1>4 DEF AuthLoadUser, AuthUnbind, AuthCreateGuest, AuthNoGuest, BindGuest,
                  SignOutUnbind, SignOutRemoveGuest, MildCall, store, history
    <2>3. \/ Return(p)
          \/ \E label \in {"auth.unbind", "auth.guest", "guest.save", "signOut.remove"} :
               Continue(p, loc[p], label)
      BY <1>4 DEF AuthLoadUser, AuthUnbind, AuthCreateGuest, AuthNoGuest, BindGuest,
                  SignOutUnbind, SignOutRemoveGuest
    <2>4. GoesOn(p)
      BY <2>3 DEF GoesOn, PlainLabels, Labels, AllRoutes
    <2> QED BY <2>1, <2>2, <2>4, MildOnce
  <1> QED BY <1>1, <1>2, <1>3, <1>4 DEF SessionStep

\* signUp and signIn: an identity starts afresh, without a code.
LEMMA PasswordOnce ==
  ASSUME SeqInv, OnceInv, NEW p \in Procs, PasswordStep(p)
  PROVE  Once(p)
  <1>0. TypeOK
    BY DEF SeqInv
  <1>1. CASE SignUpBegin(p) \/ SignInBegin(p)
    BY <1>1, BeginOnce
       DEF SignUpBegin, SignInBegin, BeginWithSession, FirstLabels, PasswordArg, NoArg
  <1>2. CASE SignUpRefuse(p) \/ SignInRefuse(p)
    BY <1>2, RefuseOnce DEF SignUpRefuse, SignInRefuse, At
  <1>3. CASE \/ SignUpTakeOver(p) \/ SignUpRemoveTemp(p) \/ SignUpNotFound(p)
             \/ SignUpBind(p) \/ SignInBind(p)
    <2>1. pc[p] \in {"signUp", "signUp.remove", "signUp.bind", "signIn.bind"}
      BY <1>3 DEF SignUpTakeOver, SignUpRemoveTemp, SignUpNotFound, SignUpBind, SignInBind, At
    <2>2. MildCall
      BY <1>3 DEF SignUpTakeOver, SignUpRemoveTemp, SignUpNotFound, SignUpBind, SignInBind,
                  MildCall, store, history
    <2> DEFINE m == [loc[p] EXCEPT !.removeUserID = Found(p).id]
    <2>3. m.User = loc[p].User /\ m.u = loc[p].u
      BY <1>0, RequestFacts DEF Locals
    <2>4. \/ Return(p)
          \/ \E label \in {"signUp.remove", "signUp.save", "signIn.save"} :
               Continue(p, m, label) \/ Continue(p, loc[p], label)
      BY <1>3 DEF SignUpTakeOver, SignUpRemoveTemp, SignUpNotFound, SignUpBind, SignInBind
    <2> HIDE DEF m
    <2>5. GoesOn(p)
      BY <2>3, <2>4 DEF GoesOn, PlainLabels, Labels, AllRoutes
    <2> QED BY <2>1, <2>2, <2>5, MildOnce
  <1>4. CASE SignUpSave(p)
    <2>1. pc[p] = "signUp.save" /\ arg[p].op = "signUp" /\ spent' = spent
      BY <1>0, <1>4, LabelFacts DEF SignUpSave, At, OnRoute
    <2> DEFINE k == arg[p].key
               n(base) == SetUID(base, k, arg[p].uid)
               v(base) == SetPassword(n(base), k, arg[p].secret)
               w(base, code) == IF ConfirmableUser THEN WithConfirmCode(v(base), k, code)
                                                   ELSE v(base)
    <2>2. PICK base \in SignUpBase(p), code \in Codes :
            \/ /\ Save(w(base, code))
               /\ Continue(p, [loc[p] EXCEPT !.u = w(base, code)], "signUp.bind")
            \/ SaveFails(w(base, code)) /\ Return(p)
      BY <1>4 DEF SignUpSave
    <2>3. k \in PasswordKeys /\ k \in Keys /\ arg[p].uid \in UIDs /\ arg[p].secret \in Passwords
      BY <1>0, <2>1, KeyFacts DEF PasswordOps
    <2>4. base \in User /\ UsedUp(base, spent)
      <3>1. CASE GuestUser /\ loc[p].UserIsGuest
        <4>1. base = SetGuest(loc[p].User, FALSE) /\ loc[p].User \in User
          BY <1>0, <2>1, <3>1, LabelFacts DEF SignUpBase
        <4>2. UsedUp(loc[p].User, spent)
          BY <2>1, <4>1, OnceParts, UserFacts
        <4> QED BY <4>1, <4>2, SetFlagType, FlagsRetain, RetainOn
      <3>2. CASE ~(GuestUser /\ loc[p].UserIsGuest)
        <4>1. PICK id \in FreeIds : base = NewUser(id)
          BY <3>2 DEF SignUpBase
        <4> QED BY <4>1, FreeFacts, NewUserFacts, NewUsedUp
      <3> QED BY <3>1, <3>2
    <2>5. n(base) \in User /\ Retains(n(base), base, Keys)
      BY <2>3, <2>4, SetUIDType, SettersRetain
    <2> HIDE DEF n
    <2>6. v(base) \in User /\ Retains(v(base), n(base), Keys)
      BY <2>3, <2>5, SetPasswordType, SettersRetain
    <2> HIDE DEF v
    <2> DEFINE c == SetConfirmCode(v(base), k, code)
    <2>7. c \in User /\ Retains(c, v(base), Keys)
      BY <2>2, <2>3, <2>6, SetCodeType, SettersRetain
    <2> HIDE DEF c
    <2>8. StampCode(c, k) \in User /\ Retains(StampCode(c, k), c, Keys)
      BY <2>3, <2>7, StampType, SettersRetain
    <2>9. UsedUp(v(base), spent)
      BY <2>4, <2>5, <2>6, RetainOn
    <2>10. UsedUp(StampCode(c, k), spent)
      BY <2>7, <2>8, <2>9, RetainOn
    <2> DEFINE u == w(base, code)
    <2>11. u \in User /\ UsedUp(u, spent)
      BY <2>6, <2>8, <2>9, <2>10 DEF WithConfirmCode, c
    <2> HIDE DEF u, w
    <2>12. CASE SaveFails(u) /\ Return(p)
      BY <2>1, <2>12, MildOnce DEF SaveFails, MildCall, GoesOn
    <2>13. CASE Save(u) /\ Continue(p, [loc[p] EXCEPT !.u = u], "signUp.bind")
      <3>1. MildCall
        BY <2>1, <2>11, <2>13 DEF MildCall
      <3>2. UsedUp(u, spent \ DueInHand("signUp.bind", arg[p]))
        BY <2>11, RetainOn
      <3>3. "signUp.bind" \in PlainLabels
        BY DEF PlainLabels, Labels, AllRoutes
      <3> QED BY <2>1, <2>13, <3>1, <3>2, <3>3, TakeOnce
    <2> QED BY <2>2, <2>12, <2>13 DEF u
  <1>5. CASE SignInLoad(p)
    <2>1. pc[p] = "signIn" /\ arg[p].op = "signIn" /\ MildCall
      BY <1>0, <1>5, LabelFacts DEF SignInLoad, At, OnRoute, AllRoutes, MildCall, store
    <2>2. pc[p] \in AllRoutes /\ arg[p].key \in Keys /\ arg[p].uid \in UIDs
      BY <1>0, <2>1, KeyFacts DEF AllRoutes
    <2>3. UsedUp(Found(p), spent)
      BY <1>5, <2>2, FoundOnce DEF SignInLoad, SignInAccepted
    <2>4. Continue(p, [loc[p] EXCEPT !.u = Found(p)], "signIn.bind")
      BY <1>5 DEF SignInLoad
    <2>5. UsedUp(Found(p), spent \ DueInHand("signIn.bind", arg[p]))
      BY <2>3, RetainOn
    <2>6. "signIn.bind" \in PlainLabels
      BY DEF PlainLabels, Labels, AllRoutes
    <2> QED BY <2>1, <2>4, <2>5, <2>6, TakeOnce
  <1>6. CASE SignInSave(p)
    <2>1. pc[p] = "signIn.save" /\ loc[p].u \in User
      BY <1>0, <1>6, LabelFacts DEF SignInSave, At, HoldsUser
    <2>2. UsedUp(loc[p].u, spent)
      BY <2>1, OnceParts, UserFacts
    <2>3. MildCall
      BY <1>6, <2>1, <2>2 DEF SignInSave, SaveFails, MildCall, history
    <2>4. Return(p) \/ Continue(p, loc[p], "removeGuest")
      BY <1>6 DEF SignInSave
    <2>5. GoesOn(p)
      BY <2>4 DEF GoesOn, PlainLabels, Labels, AllRoutes
    <2> QED BY <2>1, <2>3, <2>5, MildOnce
  <1> QED BY <1>1, <1>2, <1>3, <1>4, <1>5, <1>6 DEF PasswordStep

\* Confirmation and recovery: a recovery code is accepted only of an identity
\* whose last one is not used up.
LEMMA CodeOnce ==
  ASSUME SeqInv, OnceInv, NEW p \in Procs, CodeStep(p)
  PROVE  /\ Once(p)
         /\ At(p, "recovery") /\ pc'[p] = "save" => Named(arg[p]) \notin spent
  <1>0. TypeOK
    BY DEF SeqInv
  <1>1. ASSUME ConfirmBegin(p) \/ ResendBegin(p) \/ RequestRecoveryBegin(p) \/ RecoveryBegin(p)
        PROVE  Once(p) /\ pc[p] = "idle"
    <2>1. CASE ConfirmBegin(p)
      BY <2>1, BeginOnce DEF ConfirmBegin, CodeArg, BeginWithSession, FirstLabels, NoArg, Begin, At
    <2>2. CASE ResendBegin(p)
      BY <2>2, BeginOnce DEF ResendBegin, BeginWithSession, FirstLabels, NoArg, Begin, At
    <2>3. CASE RequestRecoveryBegin(p)
      BY <2>3, BeginOnce DEF RequestRecoveryBegin, CodeArg, BeginWithSession, FirstLabels, NoArg, Begin, At
    <2>4. CASE RecoveryBegin(p)
      BY <2>4, BeginOnce DEF RecoveryBegin, CodeArg, BeginWithSession, FirstLabels, NoArg, Begin, At
    <2> QED BY <1>1, <2>1, <2>2, <2>3, <2>4
  <1>2. ASSUME \/ ConfirmRefuse(p) \/ ResendRefuse(p)
               \/ RequestRecoveryRefuse(p) \/ RecoveryRefuse(p)
        PROVE  Once(p) /\ pc'[p] # "save"
    <2>1. Refuse(p) /\ pc[p] \notin {"idle", "save", "otpAuth.save"}
      BY <1>2 DEF ConfirmRefuse, ResendRefuse, RequestRecoveryRefuse, RecoveryRefuse, At
    <2>2. pc'[p] # "save"
      BY <1>0, <2>1, Control DEF Refuse
    <2> QED BY <2>1, <2>2, RefuseOnce
  <1>3. ASSUME pc[p] \in {"confirm", "requestRecovery", "recovery"}
        PROVE  /\ pc[p] \in AllRoutes /\ arg[p].op = pc[p]
               /\ arg[p].key \in PasswordKeys /\ arg[p].key \in Keys /\ arg[p].uid \in UIDs
               /\ arg[p].key \in OnceKeys
    <2>1. pc[p] \in AllRoutes /\ arg[p].op = pc[p]
      BY <1>0, <1>3, LabelFacts DEF OnRoute, AllRoutes
    <2> QED BY <1>0, <1>3, <2>1, KeyFacts DEF PasswordOps, OnceKeys
  <1> DEFINE k == arg[p].key
             f == Found(p)
             r == ClearStamp(f, k)
             s == StampCode(f, k)
  \* The handlers go on with these.
  <1>4. ASSUME pc[p] \in {"confirm", "requestRecovery", "recovery"}, f # Nil
        PROVE  /\ f \in User /\ UsedUp(f, spent) /\ GetUID(f, k) = arg[p].uid
               /\ r \in User /\ Retains(r, f, Keys) /\ GetUID(r, k) = arg[p].uid
               /\ s \in User /\ Retains(s, f, Keys) /\ GetUID(s, k) = arg[p].uid
    <2>1. f \in User /\ UsedUp(f, spent) /\ GetUID(f, k) = arg[p].uid
      BY <1>3, <1>4, FoundOnce
    <2>2. r \in User /\ Retains(r, f, Keys) /\ s \in User /\ Retains(s, f, Keys)
      BY <1>3, <1>4, <2>1, StampType, SettersRetain
    <2>3. GetUID(r, k) = GetUID(f, k) /\ GetUID(s, k) = GetUID(f, k)
      BY <1>3, <1>4, <2>1, SettersKeepUID
    <2> QED BY <2>1, <2>2, <2>3
  <1>5. ASSUME ConfirmLoad(p) PROVE Once(p)
    <2>1. pc[p] = "confirm" /\ MildCall /\ f # Nil
      BY <1>5 DEF ConfirmLoad, ConfirmAccepted, At, MildCall, store
    <2> DEFINE u == SetConfirmed(r, k, TRUE)
    <2>2. Continue(p, [loc[p] EXCEPT !.u = u], "save")
      BY <1>5 DEF ConfirmLoad
    <2> HIDE DEF r, s, f
    <2>3. Retains(u, r, Keys)
      BY <1>3, <1>4, <2>1, SettersRetain
    <2> HIDE DEF u
    <2>4. UsedUp(u, spent)
      BY <1>4, <2>1, <2>3, RetainOn
    <2>5. UsedUp(u, spent \ DueInHand("save", arg[p]))
      BY <2>4, RetainOn
    <2> QED BY <1>3, <2>1, <2>2, <2>5, TakeOnce
  <1>6. ASSUME ResendNewCode(p) PROVE Once(p)
    <2>1. pc[p] = "resend" /\ arg[p].op = "resend" /\ MildCall
      BY <1>0, <1>6, LabelFacts DEF ResendNewCode, At, OnRoute, AllRoutes, MildCall, store, history
    <2> DEFINE v == loc[p].User
               x == StampCode(v, k)
               u(code) == SetConfirmCode(x, k, code)
    <2>2. k \in Keys /\ v \in User /\ UsedUp(v, spent)
      BY <1>0, <1>6, <2>1, KeyFacts, RequestFacts, OnceParts
         DEF ResendNewCode, ResendAccepted
    <2>3. PICK code \in Codes : Continue(p, [loc[p] EXCEPT !.u = u(code)], "save")
      BY <1>6 DEF ResendNewCode
    <2> HIDE DEF v
    <2>4. x \in User /\ Retains(x, v, Keys)
      BY <2>2, StampType, SettersRetain
    <2> HIDE DEF x
    <2>5. Retains(u(code), x, Keys)
      BY <2>2, <2>4, SettersRetain
    <2> HIDE DEF u
    <2>6. UsedUp(u(code), spent)
      BY <2>2, <2>4, <2>5, RetainOn
    <2>7. UsedUp(u(code), spent \ DueInHand("save", arg[p]))
      BY <2>6, RetainOn
    <2> QED BY <2>1, <2>3, <2>7, TakeOnce DEF u
  <1>7. ASSUME RequestRecoveryLoad(p) PROVE Once(p)
    <2>1. pc[p] = "requestRecovery" /\ MildCall /\ f # Nil
      BY <1>7 DEF RequestRecoveryLoad, RequestRecoveryAccepted, At, MildCall, store, history
    <2> DEFINE u(code) == SetRecoveryCode(s, k, code)
    <2>2. PICK code \in Codes : Continue(p, [loc[p] EXCEPT !.u = u(code)], "save")
      BY <1>7 DEF RequestRecoveryLoad
    <2> HIDE DEF r, s, f
    <2>3. Retains(u(code), s, Keys \ {k}) /\ GetUID(u(code), k) = arg[p].uid
      BY <1>3, <1>4, <2>1, SettersRetain, SettersKeepUID
    <2> HIDE DEF u
    <2>4. UsedUp(s, spent)
      BY <1>4, <2>1, RetainOn
    <2>5. UsedUp(u(code), spent \ {<<k, GetUID(u(code), k)>>})
      BY <2>3, <2>4, RetainOn
    <2>6. DueInHand("save", arg[p]) = {<<k, GetUID(u(code), k)>>}
      BY <1>3, <2>1, <2>3 DEF DueInHand, Named
    <2> QED BY <1>3, <2>1, <2>2, <2>5, <2>6, TakeOnce DEF u
  <1>8. ASSUME RecoveryLoad(p) PROVE Once(p) /\ Named(arg[p]) \notin spent
    <2>1. /\ pc[p] = "recovery" /\ UNCHANGED <<users, spent>> /\ f # Nil
          /\ f.auths[k].recoveryCode = arg[p].code
      BY <1>8 DEF RecoveryLoad, RecoveryAccepted, At, store, history
    <2> DEFINE n == SetPassword(r, k, arg[p].secret)
               u == SetRecoveryCode(n, k, Empty)
               m == [loc[p] EXCEPT !.u = u]
    <2>2. Continue(p, m, "save")
      BY <1>8 DEF RecoveryLoad, NewPassword
    <2>3. m.u = u /\ m.User = loc[p].User
      BY <1>0, InHand
    \* The code is still there, and so it is not used up.
    <2>4. arg[p].code \in Codes /\ k \notin OTPKeys
      BY <1>3, <2>1, OnceParts, KindsDisjoint
    <2>5. Named(arg[p]) \notin spent
      BY <1>3, <1>4, <2>1, <2>4, EmptyIsNoValue DEF UsedUp, Secret, Named
    <2> HIDE DEF r, s, f, m
    <2>6. arg[p].secret \in Passwords
      BY <1>0, <1>3, <2>1, KeyFacts
    <2>7. n \in User /\ Retains(n, r, Keys) /\ GetUID(n, k) = arg[p].uid
      BY <1>3, <1>4, <2>1, <2>6, SetPasswordType, SettersRetain, SettersKeepUID
    <2> HIDE DEF n
    <2>8. /\ u \in User /\ Retains(u, n, Keys \ {k}) /\ GetUID(u, k) = arg[p].uid
          /\ u.auths[k].recoveryCode = Empty
      <3>1. u \in User /\ Retains(u, n, Keys \ {k}) /\ GetUID(u, k) = arg[p].uid
        BY <1>3, <2>1, <2>7, SetCodeType, SettersRetain, SettersKeepUID
      <3>2. u.auths[k].recoveryCode = Empty
        BY <1>3, <2>1, <2>7 DEF SetRecoveryCode, User, Identity
      <3> QED BY <3>1, <3>2
    <2> HIDE DEF u
    <2>9. Secret(u, k) = Empty
      BY <2>4, <2>8 DEF Secret
    <2>10. Retains(u, n, Keys)
      BY <2>8, <2>9 DEF Retains
    <2>11. UsedUp(u, spent)
      BY <1>4, <2>1, <2>7, <2>10, RetainOn
    <2>12. Clean(users, spent) /\ (loc[p].User # Nil => UsedUp(loc[p].User, spent))
      BY <2>1, OnceParts
    <2>13. arg[p].op = "recovery"
      BY <1>3, <2>1
    <2>14. spent \ Due("save", arg[p]) = spent /\ spent \ DueInHand("save", arg[p]) = spent
      BY <2>13 DEF Due, DueInHand
    <2>15. CodesOnce("save", arg[p], m, users, spent)
      BY <2>3, <2>4, <2>8, <2>9, <2>11, <2>12, <2>13, <2>14 DEF CodesOnce, AllRoutes
    <2>16. LoginOnce("save", arg[p], m, users, spent)
      BY DEF LoginOnce
    <2> QED BY <1>0, <2>1, <2>2, <2>5, <2>15, <2>16, Control DEF Once
  <1>9. ConfirmLoad(p) \/ ResendNewCode(p) \/ RequestRecoveryLoad(p) => ~At(p, "recovery")
    BY DEF ConfirmLoad, ResendNewCode, RequestRecoveryLoad, At
  <1>10. pc[p] = "idle" => ~At(p, "recovery")
    BY DEF At
  <1> QED BY <1>1, <1>2, <1>5, <1>6, <1>7, <1>8, <1>9, <1>10 DEF CodeStep

\* The profile.
LEMMA ProfileOnce ==
  ASSUME SeqInv, OnceInv, NEW p \in Procs, ProfileStep(p)
  PROVE  Once(p)
  <1>1. CASE ProfileBegin(p)
    BY <1>1, BeginOnce DEF ProfileBegin, BeginWithSession, FirstLabels, NoArg
  <1>2. CASE ProfileRefuse(p)
    BY <1>2, RefuseOnce DEF ProfileRefuse, At
  <1>3. CASE UpdateProfile(p)
    <2>1. pc[p] = "profile" /\ arg[p].op = "profile" /\ MildCall
      BY <1>3, LabelFacts
         DEF SeqInv, UpdateProfile, At, OnRoute, AllRoutes, MildCall, store, history
    <2>2. UsedUp(loc[p].User, spent)
      BY <1>3, <2>1, OnceParts DEF UpdateProfile
    <2>3. UsedUp(loc[p].User, spent \ DueInHand("save", arg[p]))
      BY <2>2, RetainOn
    <2> QED BY <1>3, <2>1, <2>3, TakeOnce DEF UpdateProfile
  <1> QED BY <1>1, <1>2, <1>3 DEF ProfileStep

\* The user an identity is parked in has no code.
LEMMA ParkedUsedUp ==
  ASSUME NEW id \in UserIds, NEW k \in Keys, NEW uid \in UIDs, NEW b \in BOOLEAN, NEW S
  PROVE  LET t == SetUID(SetTemp(NewUser(id), b), k, uid)
             g == SetUID(SetGuest(NewUser(id), b), k, uid)
         IN  /\ t \in User /\ UsedUp(t, S) /\ GetUID(t, k) = uid
             /\ g \in User /\ UsedUp(g, S) /\ GetUID(g, k) = uid
  <1> DEFINE n == NewUser(id)
  <1>1. n \in User /\ UsedUp(n, S)
    BY NewUserFacts, NewUsedUp
  <1> HIDE DEF n
  <1>2. ASSUME NEW f \in User, Retains(f, n, Keys)
        PROVE  /\ SetUID(f, k, uid) \in User /\ UsedUp(SetUID(f, k, uid), S)
               /\ GetUID(SetUID(f, k, uid), k) = uid
    <2>1. SetUID(f, k, uid) \in User /\ GetUID(SetUID(f, k, uid), k) = uid
      BY SetUIDType, SetUIDAfresh
    <2>2. Retains(SetUID(f, k, uid), f, Keys)
      BY SettersRetain
    <2> QED BY <1>1, <1>2, <2>1, <2>2, RetainOn
  <1>3. /\ SetTemp(n, b) \in User /\ Retains(SetTemp(n, b), n, Keys)
        /\ SetGuest(n, b) \in User /\ Retains(SetGuest(n, b), n, Keys)
    BY <1>1, SetFlagType, FlagsRetain
  <1> QED BY <1>2, <1>3 DEF n

\* initLink and link.
LEMMA LinkOnce ==
  ASSUME SeqInv, OnceInv, NEW p \in Procs, LinkStep(p)
  PROVE  Once(p)
  <1>0. TypeOK
    BY DEF SeqInv
  <1>1. CASE InitLinkBegin(p) \/ LinkBegin(p)
    <2>1. CASE InitLinkBegin(p)
      BY <2>1, BeginOnce DEF InitLinkBegin, BeginLinkRoute, FirstLabels, NoArg
    <2>2. CASE LinkBegin(p)
      BY <2>2, BeginOnce DEF LinkBegin, BeginLinkRoute, FirstLabels
    <2> QED BY <1>1, <2>1, <2>2
  <1>2. CASE InitLinkRefuse(p) \/ LinkRefuse(p) \/ LinkAccountRefuse(p)
    BY <1>2, RefuseOnce DEF InitLinkRefuse, LinkRefuse, LinkAccountRefuse, At
  <1>3. CASE InitLinkPrepare(p)
    <2>1. /\ pc[p] = "initLink" /\ pc[p] \in AllRoutes /\ arg[p].op = "initLink"
          /\ MildCall
      BY <1>0, <1>3, LabelFacts
         DEF InitLinkPrepare, At, OnRoute, AllRoutes, MildCall, store, history
    <2> DEFINE k == arg[p].key
               c(base, code) == SetConfirmCode(base, k, code)
               u(base, code) == IF base.auths[k].confirmed THEN base
                                ELSE StampCode(c(base, code), k)
    <2>2. k \in Keys /\ arg[p].uid \in UIDs
      BY <1>0, <2>1, KeyFacts
    <2>3. PICK base \in InitLinkUser(p), code \in Codes :
            Continue(p, [loc[p] EXCEPT !.u = u(base, code)], "save")
      BY <1>3 DEF InitLinkPrepare
    <2>4. base \in User /\ UsedUp(base, spent)
      <3>1. CASE Found(p) # Nil
        <4>1. base = Found(p)
          BY <2>3, <3>1 DEF InitLinkUser
        <4> QED BY <2>1, <2>2, <3>1, <4>1, FoundOnce
      <3>2. CASE Found(p) = Nil
        <4>1. PICK id \in FreeIds : base = TempUser(id, k, arg[p].uid)
          BY <2>3, <3>2 DEF InitLinkUser
        <4> QED BY <2>2, <4>1, FreeFacts, ParkedUsedUp DEF TempUser
      <3> QED BY <3>1, <3>2
    <2> HIDE DEF k
    <2>5. c(base, code) \in User /\ Retains(c(base, code), base, Keys)
      BY <2>2, <2>3, <2>4, SetCodeType, SettersRetain
    <2> HIDE DEF c
    <2>6. Retains(StampCode(c(base, code), k), c(base, code), Keys)
      BY <2>2, <2>5, SettersRetain
    <2>7. UsedUp(c(base, code), spent)
      BY <2>4, <2>5, RetainOn
    <2>8. UsedUp(StampCode(c(base, code), k), spent)
      BY <2>6, <2>7, RetainOn
    <2>9. UsedUp(u(base, code), spent)
      BY <2>4, <2>8
    <2> HIDE DEF u
    <2>10. UsedUp(u(base, code), spent \ DueInHand("save", arg[p]))
      BY <2>9, RetainOn
    <2> QED BY <2>1, <2>3, <2>10, TakeOnce DEF u, c, k
  <1>4. CASE LinkLoad(p)
    <2>1. pc[p] = "link" /\ pc[p] \in AllRoutes /\ arg[p].op = "link" /\ MildCall
      BY <1>0, <1>4, LabelFacts DEF LinkLoad, At, OnRoute, AllRoutes, MildCall, store
    <2> DEFINE k == arg[p].key
               f == Found(p)
               r == ClearStamp(f, k)
               c == SetConfirmed(r, k, TRUE)
               v == IF f.auths[k].confirmed THEN f ELSE c
               s == SetPassword(v, k, arg[p].secret)
               u == IF Merging(p) THEN v ELSE s
    <2>2. k \in PasswordKeys /\ k \in Keys /\ arg[p].uid \in UIDs /\ arg[p].secret \in Passwords
      BY <1>0, <2>1, KeyFacts DEF PasswordOps
    <2>3. Continue(p, [loc[p] EXCEPT !.u = u], "link.save")
      BY <1>4 DEF LinkLoad
    <2>4. f \in User /\ UsedUp(f, spent)
      BY <1>4, <2>1, <2>2, FoundOnce DEF LinkLoad, LinkAccepted
    <2> HIDE DEF f, k
    <2>5. r \in User /\ Retains(r, f, Keys)
      BY <2>2, <2>4, StampType, SettersRetain
    <2> HIDE DEF r
    <2>6. c \in User /\ Retains(c, r, Keys)
      BY <2>2, <2>5, SetConfirmedType, SettersRetain
    <2>7. UsedUp(r, spent)
      BY <2>4, <2>5, RetainOn
    <2>8. UsedUp(c, spent)
      BY <2>6, <2>7, RetainOn
    <2> HIDE DEF c
    <2>9. v \in User /\ UsedUp(v, spent)
      BY <2>4, <2>6, <2>8
    <2> HIDE DEF v
    <2>10. Retains(s, v, Keys)
      BY <2>2, <2>9, SettersRetain
    <2> HIDE DEF s
    <2>11. UsedUp(s, spent)
      BY <2>9, <2>10, RetainOn
    <2>12. UsedUp(u, spent)
      BY <2>9, <2>11
    <2> HIDE DEF u
    <2>13. UsedUp(u, spent \ DueInHand("link.save", arg[p]))
      BY <2>12, RetainOn
    <2>14. "link.save" \in PlainLabels
      BY DEF PlainLabels, Labels, AllRoutes
    <2> QED BY <2>1, <2>3, <2>13, <2>14, TakeOnce
  <1>5. CASE LinkSave(p)
    <2>1. pc[p] = "link.save" /\ loc[p].u \in User
      BY <1>0, <1>5, LabelFacts DEF LinkSave, At, HoldsUser
    <2>2. UsedUp(loc[p].u, spent)
      BY <2>1, OnceParts, UserFacts
    <2>3. MildCall
      BY <1>5, <2>1, <2>2 DEF LinkSave, SaveFails, MildCall, history
    <2>4. Return(p) \/ Continue(p, loc[p], "linkAccount")
      BY <1>5 DEF LinkSave
    <2>5. GoesOn(p)
      BY <2>4 DEF GoesOn, PlainLabels, Labels, AllRoutes
    <2> QED BY <2>1, <2>3, <2>5, MildOnce
  <1>6. CASE LinkAccountRemove(p)
    <2>1. pc[p] = "linkAccount" /\ arg[p].op \in {"link", "otpAuth", "social"} /\ MildCall
      BY <1>0, <1>6, LabelFacts DEF LinkAccountRemove, At, OnRoute, MildCall
    <2> DEFINE u == Linked(p)
    <2>2. loc[p].u \in User /\ arg[p].key \in Keys
      BY <1>0, <2>1, KeyFacts, LabelFacts DEF HoldsUser
    <2>3. loc[p].User \in User /\ UsedUp(loc[p].User, spent)
      BY <1>0, <1>6, <2>1, RequestFacts, OnceParts
         DEF LinkAccountRemove, LinkPossible, CanLink
    <2>4. Retains(u, loc[p].User, Keys)
      BY <2>2, <2>3, LinkedRetains DEF Linked
    <2>5. PICK label \in {"social.save", "save"} :
            Continue(p, [loc[p] EXCEPT !.u = u], label)
      BY <1>6 DEF LinkAccountRemove
    <2> HIDE DEF u
    <2>6. UsedUp(u, spent)
      BY <2>3, <2>4, RetainOn
    <2>7. UsedUp(u, spent \ DueInHand(label, arg[p]))
      BY <2>6, RetainOn
    <2>8. label \in PlainLabels \cup {"save"}
      BY DEF PlainLabels, Labels, AllRoutes
    <2> QED BY <2>1, <2>5, <2>7, <2>8, TakeOnce
  <1>7. CASE MiddlewareUserID(p)
    <2>1. pc[p] = "middleware" /\ MildCall
      BY <1>7 DEF MiddlewareUserID, At, MildCall, store, history
    <2> DEFINE l == [loc[p] EXCEPT !.UserID = sessions[arg[p].s]]
    <2>2. l.User = loc[p].User /\ l.u = loc[p].u
      BY <1>0, RequestFacts DEF Locals
    <2>3. Continue(p, l, "middleware.load")
      BY <1>7 DEF MiddlewareUserID
    <2> HIDE DEF l
    <2>4. GoesOn(p)
      BY <2>2, <2>3 DEF GoesOn, PlainLabels, Labels, AllRoutes
    <2> QED BY <2>1, <2>4, MildOnce
  <1>8. CASE UserMiddleware(p)
    <2>1. pc[p] = "middleware.load" /\ MildCall
      BY <1>8 DEF UserMiddleware, At, MildCall, store, history
    <2>2. loc[p].User = NoLoc.User /\ loc[p].u = NoLoc.u
      BY <2>1 DEF SeqInv, AloneOK, CurrentOK, NoLoc
    <2>3. Return(p) \/ Continue(p, NoLoc, "getUserID")
      BY <1>8 DEF UserMiddleware
    <2>4. GoesOn(p)
      BY <2>2, <2>3 DEF GoesOn, PlainLabels, Labels, AllRoutes
    <2> QED BY <2>1, <2>4, MildOnce
  <1> QED BY <1>1, <1>2, <1>3, <1>4, <1>5, <1>6, <1>7, <1>8 DEF LinkStep

\* social.
LEMMA SocialOnce ==
  ASSUME SeqInv, OnceInv, NEW p \in Procs, SocialStep(p)
  PROVE  Once(p)
  <1>0. TypeOK
    BY DEF SeqInv
  <1>1. CASE SocialBegin(p)
    BY <1>1, BeginOnce DEF SocialBegin, BeginWithSession, NoArg, FirstLabels
  <1>2. CASE SocialRefuse(p)
    BY <1>2, RefuseOnce DEF SocialRefuse, At
  <1>3. CASE SocialLoad(p)
    <2>1. pc[p] = "social" /\ pc[p] \in AllRoutes /\ arg[p].op = "social" /\ MildCall
      BY <1>0, <1>3, LabelFacts DEF SocialLoad, At, OnRoute, AllRoutes, MildCall, store
    <2> DEFINE k == arg[p].key
    <2>2. k \in Keys /\ arg[p].uid \in UIDs
      BY <1>0, <2>1, KeyFacts
    <2>3. PICK u \in SocialUser(p), label \in {"linkAccount", "social.save"} :
            Continue(p, [loc[p] EXCEPT !.u = u], label)
      BY <1>3 DEF SocialLoad
    <2>4. UsedUp(u, spent)
      <3>1. CASE Found(p) # Nil
        BY <2>1, <2>2, <2>3, <3>1, FoundOnce DEF SocialUser
      <3>2. CASE Found(p) = Nil
        <4>1. PICK id \in FreeIds : u = NewSocialUser(id, k, arg[p].uid, SignedIn(p))
          BY <2>3, <3>2 DEF SocialUser
        <4> DEFINE n == SetUID(SetTemp(NewUser(id), SignedIn(p)), k, arg[p].uid)
        <4>2. n \in User /\ UsedUp(n, spent)
          BY <2>2, FreeFacts, ParkedUsedUp DEF SignedIn
        <4>3. u = IF ConfirmableUser THEN SetConfirmed(n, k, TRUE) ELSE n
          BY <4>1 DEF NewSocialUser
        <4> HIDE DEF n, k
        <4>4. UsedUp(SetConfirmed(n, k, TRUE), spent)
          BY <2>2, <4>2, SettersRetain, RetainOn
        <4> QED BY <4>2, <4>3, <4>4
      <3> QED BY <3>1, <3>2
    <2>5. UsedUp(u, spent \ DueInHand(label, arg[p]))
      BY <2>4, RetainOn
    <2>6. label \in PlainLabels
      BY DEF PlainLabels, Labels, AllRoutes
    <2>7. label # "save"
      OBVIOUS
    <2> QED BY <2>1, <2>3, <2>5, <2>6, <2>7, TakeOnce
  <1>4. CASE SocialSave(p)
    <2>1. pc[p] = "social.save" /\ loc[p].u \in User
      BY <1>0, <1>4, LabelFacts DEF SocialSave, At, HoldsUser
    <2>2. UsedUp(loc[p].u, spent)
      BY <2>1, OnceParts, UserFacts
    <2>3. MildCall
      BY <1>4, <2>1, <2>2 DEF SocialSave, SaveFails, MildCall, history
    <2>4. Return(p) \/ Continue(p, loc[p], "social.bind")
      BY <1>4 DEF SocialSave
    <2>5. GoesOn(p)
      BY <2>4 DEF GoesOn, PlainLabels, Labels, AllRoutes
    <2> QED BY <2>1, <2>3, <2>5, MildOnce
  <1>5. CASE SocialBind(p)
    <2>1. pc[p] = "social.bind" /\ MildCall
      BY <1>5 DEF SocialBind, At, MildCall, history
    <2>2. Return(p) \/ Continue(p, loc[p], "removeGuest")
      BY <1>5 DEF SocialBind
    <2>3. GoesOn(p)
      BY <2>2 DEF GoesOn, PlainLabels, Labels, AllRoutes
    <2> QED BY <2>1, <2>3, MildOnce
  <1> QED BY <1>1, <1>2, <1>3, <1>4, <1>5 DEF SocialStep

\* otpCode: the identity's code is to be saved, a new one.
LEMMA OTPCodeOnce ==
  ASSUME SeqInv, OnceInv, NEW p \in Procs, OTPCodePrepare(p)
  PROVE  Once(p)
  <1>0. TypeOK
    BY DEF SeqInv
  <1>1. pc[p] = "otpCode" /\ pc[p] \in AllRoutes /\ arg[p].op = "otpCode" /\ MildCall
    BY <1>0, LabelFacts
       DEF OTPCodePrepare, At, OnRoute, AllRoutes, MildCall, store, history
  <1> DEFINE k == arg[p].key
             uid == arg[p].uid
             f == Found(p)
             x(base) == StampCode(base, k)
             u(base, code) == SetOTP(x(base), k, code)
  <1>2. k \in Keys /\ uid \in UIDs
    BY <1>0, <1>1, KeyFacts
  <1>3. PICK base \in OTPCodeUser(p), code \in Codes :
          Continue(p, [loc[p] EXCEPT !.u = u(base, code)], "save")
    BY DEF OTPCodePrepare
  <1>4. base \in User /\ UsedUp(base, spent) /\ GetUID(base, k) = uid
    <2>1. f # Nil => f \in User /\ UsedUp(f, spent) /\ GetUID(f, k) = uid
      BY <1>1, <1>2, FoundOnce
    <2>2. CASE f # Nil /\ SignedIn(p)
      BY <1>3, <2>1, <2>2 DEF OTPCodeUser
    <2>3. CASE f # Nil /\ ~SignedIn(p)
      <3>1. base = SetTemp(f, FALSE)
        BY <1>3, <2>3 DEF OTPCodeUser
      <3> HIDE DEF f
      <3>2. base \in User /\ base.auths = f.auths /\ Retains(base, f, Keys)
        BY <2>1, <2>3, <3>1, SetFlagType, FlagsSet, FlagsRetain
      <3> QED BY <2>1, <2>3, <3>2, RetainOn DEF GetUID
    <2>4. CASE f = Nil
      <3>1. PICK id \in FreeIds : \/ base = TempUser(id, k, uid)
                                  \/ base = SetUID(SetGuest(NewUser(id), GuestUser), k, uid)
        BY <1>3, <2>4 DEF OTPCodeUser
      <3>2. id \in UserIds
        BY FreeFacts
      <3>3. CASE base = TempUser(id, k, uid)
        BY <1>2, <3>2, <3>3, ParkedUsedUp DEF TempUser
      <3>4. CASE base = SetUID(SetGuest(NewUser(id), GuestUser), k, uid)
        BY <1>2, <3>2, <3>4, ParkedUsedUp, FlagsAreBooleans
      <3> QED BY <3>1, <3>3, <3>4
    <2> QED BY <2>2, <2>3, <2>4
  <1> HIDE DEF k, uid
  <1>5. x(base) \in User /\ Retains(x(base), base, Keys) /\ GetUID(x(base), k) = uid
    BY <1>2, <1>4, StampType, SettersRetain, SettersKeepUID
  <1> HIDE DEF x
  <1>6. /\ Retains(u(base, code), x(base), Keys \ {k})
        /\ GetUID(u(base, code), k) = uid
    BY <1>2, <1>5, SettersRetain, SettersKeepUID
  <1> HIDE DEF u
  <1>7. UsedUp(x(base), spent)
    BY <1>4, <1>5, RetainOn
  <1>8. UsedUp(u(base, code), spent \ {<<k, GetUID(u(base, code), k)>>})
    BY <1>6, <1>7, RetainOn
  <1>9. DueInHand("save", arg[p]) = {<<k, GetUID(u(base, code), k)>>}
    BY <1>1, <1>6 DEF DueInHand, Named, k, uid
  <1> QED BY <1>1, <1>3, <1>8, <1>9, TakeOnce DEF u, x, k

\* A user that is what is stored, but for fields other than its identities'
\* uids, is their sole owner.
LEMMA StoredIsSole ==
  ASSUME SeqInv, NEW v \in User, users[v.id] = v, NEW k \in Keys, GetUID(v, k) \in UIDs,
         NEW w, w.id = v.id, GetUID(w, k) = GetUID(v, k),
         \A j \in Keys \ {k} : w.auths[j] = v.auths[j]
  PROVE  Sole(users, w, {})
  <1>1. Unique(users)
    BY DEF SeqInv, UniqueIdentities
  <1>2. v.id \in Stored(users)
    BY UserFacts DEF Stored
  <1>3. ASSUME NEW j \in Keys, Present(w, j), NEW i \in Owners(users, j, GetUID(w, j))
        PROVE  i = w.id
    <2>1. GetUID(w, j) = GetUID(v, j) /\ Present(v, j)
      <3>1. CASE j = k
        <4>1. Present(v, k)
          BY EmptyIsNoValue DEF Present, GetUID, ZeroIdentity
        <4> QED BY <3>1, <4>1
      <3>2. CASE j # k
        BY <1>3, <3>2 DEF Present, GetUID
      <3> QED BY <3>1, <3>2
    <2>2. i \in Stored(users) /\ Present(users[i], j) /\ GetUID(users[i], j) = GetUID(v, j)
      BY <1>3, <2>1 DEF Owners
    <2> QED BY <1>1, <1>2, <2>1, <2>2 DEF Unique
  <1> QED BY <1>3 DEF Sole

\* otpAuth: a code is accepted only of an identity whose last one is not
\* used up, and of the identity's one owner.
LEMMA OTPAuthOnce ==
  ASSUME SeqInv, OnceInv, NEW p \in Procs,
         OTPAuthJoinGuest(p) \/ OTPAuthReplaceGuest(p) \/ OTPAuthLogin(p) \/ OTPAuthLink(p)
  PROVE  Once(p)
  <1>0. TypeOK
    BY DEF SeqInv
  <1>1. /\ pc[p] = "otpAuth" /\ pc[p] \in AllRoutes /\ OTPAccepted(p)
        /\ UNCHANGED <<users, spent>>
    BY DEF OTPAuthJoinGuest, OTPAuthReplaceGuest, OTPAuthLogin, OTPAuthLink, At, AllRoutes, store
  <1>2. arg[p].op = "otpAuth"
    BY <1>0, <1>1, LabelFacts DEF OnRoute, AllRoutes
  <1> DEFINE k == arg[p].key
             uid == arg[p].uid
             f == Found(p)
             user == loc[p].User
             r == ClearStamp(f, k)
             e == SetConfirmed(r, k, TRUE)
  <1>3. k \in OTPKeys /\ k \in Keys /\ uid \in UIDs /\ f # Nil
    BY <1>0, <1>1, <1>2, KeyFacts DEF OTPAccepted
  <1>4. /\ f \in User /\ users[f.id] = f /\ GetUID(f, k) = uid /\ UsedUp(f, spent)
        /\ Owners(users, k, uid) \subseteq {f.id}
    BY <1>1, <1>3, FoundOnce
  <1>5. k \in OnceKeys => Named(arg[p]) \notin spent
    <2>1. f.auths[k].password = arg[p].secret /\ arg[p].secret \in Codes
      BY <1>1, <1>2, OnceParts DEF OTPAccepted, OTPMatches
    <2> QED BY <1>3, <1>4, <2>1, EmptyIsNoValue DEF UsedUp, Secret, Named
  <1>6. /\ e \in User /\ UsedUp(e, spent) /\ GetUID(e, k) = uid
        /\ Sole(users, e, {})
    <2> HIDE DEF f, k, uid
    <2>1. r \in User /\ Retains(r, f, Keys) /\ GetUID(r, k) = uid /\ Kept(r, f)
      BY <1>3, <1>4, StampType, SettersRetain, SettersKeepUID, SettersKeep
    <2>2. \A j \in Keys \ {k} : r.auths[j] = f.auths[j]
      BY <1>3, <1>4 DEF ClearStamp, SetCodeSentTime, User
    <2> HIDE DEF r
    <2>3. e \in User /\ Retains(e, r, Keys) /\ GetUID(e, k) = uid /\ Beside(e, r, k)
      BY <1>3, <2>1, SetConfirmedType, SettersRetain, SettersKeepUID, SettersBeside
    <2> HIDE DEF e
    <2>4. UsedUp(r, spent)
      BY <1>4, <2>1, RetainOn
    <2>5. UsedUp(e, spent)
      BY <2>3, <2>4, RetainOn
    <2>6. e.id = f.id /\ \A j \in Keys \ {k} : e.auths[j] = f.auths[j]
      BY <2>1, <2>2, <2>3 DEF Kept, Beside
    <2>7. Sole(users, e, {})
      BY <1>3, <1>4, <2>3, <2>6, StoredIsSole
    <2> QED BY <2>3, <2>5, <2>7
  \* On to the login, with this user in hand.
  <1>7. ASSUME NEW m, m.User = user, NEW label \in {"otpAuth.remove", "otpAuth.bind"},
               Continue(p, m, label), UsedUp(m.u, spent), GetUID(m.u, k) = uid,
               Sole(users, m.u, IF label = "otpAuth.remove" THEN {m.removeUserID} ELSE {})
        PROVE  Once(p)
    <2>1. Clean(users, spent) /\ (user # Nil => UsedUp(user, spent))
          /\ (arg[p].op = "otpAuth" => arg[p].secret \in Codes)
      BY <1>1, OnceParts
    <2>2. spent \ Due(label, arg[p]) = spent /\ spent \ DueInHand(label, arg[p]) = spent
      BY <1>7 DEF Due, DueInHand
    <2>3. CodesOnce(label, arg[p], m, users, spent)
      BY <1>2, <1>7, <2>1, <2>2 DEF CodesOnce, AllRoutes
    <2>4. LoginOnce(label, arg[p], m, users, spent)
      BY <1>5, <1>7 DEF LoginOnce
    <2> QED BY <1>0, <1>1, <1>7, <2>3, <2>4, Control DEF Once
  <1>8. Sole(users, e, {loc[p].UserID})
    BY <1>6 DEF Sole
  <1>9. CASE OTPAuthJoinGuest(p)
    <2> DEFINE n == SetUID(user, k, uid)
               g == SetGuest(n, FALSE)
               u == SetConfirmed(g, k, TRUE)
               m == [loc[p] EXCEPT !.u = u, !.removeUserID = f.id]
    <2>1. Continue(p, m, "otpAuth.remove")
      BY <1>9 DEF OTPAuthJoinGuest
    <2>2. m.u = u /\ m.User = user /\ m.removeUserID = f.id
      BY <1>0, InHand
    <2>3. user \in User /\ users[user.id] = user /\ UsedUp(user, spent)
      BY <1>0, <1>1, <1>9, RequestFacts, OnceParts DEF OTPAuthJoinGuest, RequestOK
    <2> HIDE DEF m, user, f, k, uid
    <2>4. /\ n \in User /\ Retains(n, user, Keys) /\ n.id = user.id /\ GetUID(n, k) = uid
          /\ \A j \in Keys \ {k} : n.auths[j] = user.auths[j]
      <3>1. n \in User
        BY <1>3, <2>3, SetUIDType
      <3>2. Retains(n, user, Keys)
        BY <1>3, <2>3, SettersRetain
      <3>3. /\ n.id = user.id /\ GetUID(n, k) = uid
            /\ \A j \in Keys \ {k} : n.auths[j] = user.auths[j]
        BY <1>3, <2>3, SetUIDAfresh
      <3> QED BY <3>1, <3>2, <3>3
    <2> HIDE DEF n
    <2>5. g \in User /\ Retains(g, n, Keys) /\ g.id = n.id /\ g.auths = n.auths
      BY <2>4, SetFlagType, FlagsSet, FlagsRetain
    <2> HIDE DEF g
    <2>6. u \in User /\ Retains(u, g, Keys) /\ Beside(u, g, k)
      BY <1>3, <2>5, SetConfirmedType, SettersRetain, SettersBeside
    <2> HIDE DEF u
    <2>7. UsedUp(n, spent)
      BY <2>3, <2>4, RetainOn
    <2>8. UsedUp(g, spent)
      BY <2>5, <2>7, RetainOn
    <2>9. UsedUp(u, spent)
      BY <2>6, <2>8, RetainOn
    <2>10. /\ u.id = user.id /\ GetUID(u, k) = uid
           /\ \A j \in Keys \ {k} : u.auths[j] = user.auths[j]
      BY <2>4, <2>5, <2>6 DEF Beside, GetUID
    \* The code's guest is the only other owner: of this identity alone.
    <2>11. Sole(users, u, {f.id})
      <3>1. user.id \in Stored(users) /\ Unique(users)
        BY <2>3, UserFacts DEF SeqInv, UniqueIdentities, Stored
      <3>2. ASSUME NEW j \in Keys, Present(u, j), NEW i \in Owners(users, j, GetUID(u, j))
            PROVE  i \in {u.id, f.id}
        <4>1. CASE j = k
          BY <1>4, <2>10, <3>2, <4>1
        <4>2. CASE j # k
          <5>1. Present(user, j) /\ GetUID(u, j) = GetUID(user, j)
            BY <2>10, <3>2, <4>2 DEF Present, GetUID
          <5>2. i \in Stored(users) /\ Present(users[i], j) /\ GetUID(users[i], j) = GetUID(user, j)
            BY <3>2, <5>1 DEF Owners
          <5>3. i = user.id
            BY <2>3, <3>1, <5>1, <5>2 DEF Unique
          <5> QED BY <2>10, <5>3
        <4> QED BY <4>1, <4>2
      <3> QED BY <3>2 DEF Sole
    <2> QED BY <1>7, <2>1, <2>2, <2>9, <2>10, <2>11
  <1>10. CASE OTPAuthReplaceGuest(p)
    <2> DEFINE m == [loc[p] EXCEPT !.u = e, !.removeUserID = loc[p].UserID]
    <2>1. Continue(p, m, "otpAuth.remove")
      BY <1>10 DEF OTPAuthReplaceGuest, Entered
    <2>2. m.u = e /\ m.User = user /\ m.removeUserID = loc[p].UserID
      BY <1>0, InHand
    <2> HIDE DEF m, e, user, k, uid
    <2> QED BY <1>6, <1>7, <1>8, <2>1, <2>2
  <1>11. CASE OTPAuthLogin(p)
    <2> DEFINE m == [loc[p] EXCEPT !.u = e]
    <2>1. Continue(p, m, "otpAuth.bind")
      BY <1>11 DEF OTPAuthLogin, Entered
    <2>2. m.u = e /\ m.User = user
      BY <1>0, InHand
    <2> HIDE DEF m, e, user, k, uid
    <2> QED BY <1>6, <1>7, <2>1, <2>2
  <1>12. CASE OTPAuthLink(p)
    <2>1. Continue(p, [loc[p] EXCEPT !.u = e], "linkAccount")
      BY <1>12 DEF OTPAuthLink, Entered
    <2> HIDE DEF e
    <2>2. UsedUp(e, spent \ DueInHand("linkAccount", arg[p]))
      BY <1>6, RetainOn
    <2>3. "linkAccount" \in PlainLabels /\ MildCall
      BY <1>1 DEF PlainLabels, Labels, AllRoutes, MildCall
    <2> QED BY <1>1, <2>1, <2>2, <2>3, TakeOnce
  <1> QED BY <1>9, <1>10, <1>11, <1>12

\* Save after the login: the code is used up at last.
LEMMA OTPSaveOnce ==
  ASSUME SeqInv, OnceInv, NEW p \in Procs, OTPAuthSave(p)
  PROVE  Once(p)
  <1> DEFINE v == loc[p].u
             k == arg[p].key
             N == {Named(arg[p])}
             u == Consumed(v, k)
  <1>0. TypeOK /\ Storer(users)
    BY TypeParts DEF SeqInv
  <1>1. pc[p] = "otpAuth.save" /\ UNCHANGED spent /\ Return(p) /\ (Save(u) \/ SaveFails(u))
    BY DEF OTPAuthSave, At, history
  <1>2. arg[p].op = "otpAuth" /\ v \in User /\ v # Nil
    BY <1>0, <1>1, LabelFacts, UserFacts DEF OnRoute, HoldsUser
  <1>3. k \in OTPKeys /\ k \in Keys /\ arg[p].uid \in UIDs
    BY <1>0, <1>1, <1>2, KeyFacts
  <1>4. Clean(users, spent \ N) /\ UsedUp(v, spent \ N)
    BY <1>1, <1>2 DEF OnceInv, CodesOnce, Due, DueInHand
  <1>5. GetUID(v, k) = arg[p].uid /\ Sole(users, v, {})
    BY <1>1 DEF OnceInv, LoginOnce
  <1> HIDE DEF v, k
  <1>6. /\ u \in User /\ Retains(u, v, Keys \ {k}) /\ Kept(u, v)
        /\ Secret(u, k) = Empty /\ GetUID(u, k) = arg[p].uid
        /\ \A j \in Keys \ {k} : u.auths[j] = v.auths[j]
    <2>1. u \in User /\ Kept(u, v)
      BY <1>2, <1>3, SetPasswordType, SettersKeep DEF Consumed
    <2>2. Retains(u, v, Keys \ {k})
      BY <1>2, <1>3, SettersRetain DEF Consumed
    <2>3. Secret(u, k) = Empty
      BY <1>2, <1>3 DEF Consumed, SetOTP, Secret, User, Identity
    <2>4. GetUID(u, k) = arg[p].uid
      BY <1>2, <1>3, <1>5, SettersKeepUID DEF Consumed
    <2>5. \A j \in Keys \ {k} : u.auths[j] = v.auths[j]
      BY <1>2, <1>3 DEF Consumed, SetOTP, User
    <2> QED BY <2>1, <2>2, <2>3, <2>4, <2>5
  <1> HIDE DEF u
  <1>7. UsedUp(u, spent)
    <2>1. UsedUp(u, (spent \ N) \ {<<k, GetUID(u, k)>>})
      BY <1>4, <1>6, RetainOn
    <2>2. (spent \ N) \ {<<k, GetUID(u, k)>>} = spent \ {<<k, GetUID(u, k)>>}
      BY <1>6 DEF Named, k
    <2> HIDE DEF N
    <2> QED BY <1>6, <2>1, <2>2 DEF UsedUp
  <1>8. CASE k \in OnceKeys
    <2>1. ~SaveMayFail
      BY <1>3, <1>8, KindsDisjoint DEF OnceKeys
    <2>2. \A j \in Keys : GetUID(u, j) = GetUID(v, j)
      BY <1>6 DEF Kept
    <2>3. u.id = v.id
      BY <1>6 DEF Kept
    <2>4. ~IsDuplicate(users, u)
      <3> SUFFICES ASSUME NEW j \in Keys, Present(u, j)
                   PROVE  Owners(users, j, GetUID(u, j)) \subseteq {u.id}
        BY DEF IsDuplicate
      <3>1. Present(v, j)
        BY <1>3, <1>5, <1>6, EmptyIsNoValue DEF Present, GetUID, ZeroIdentity
      <3> QED BY <1>5, <2>2, <2>3, <3>1 DEF Sole
    <2>5. users' = Put(users, u)
      BY <1>1, <2>1, <2>4 DEF Save, SaveFails
    <2>6. Owners(users, k, arg[p].uid) \subseteq {u.id}
      <3>1. Present(u, k)
        BY <1>3, <1>6, EmptyIsNoValue DEF Present, GetUID, ZeroIdentity
      <3> QED BY <1>3, <1>6, <2>4, <3>1 DEF IsDuplicate
    <2>7. ASSUME NEW i \in UserIds, users'[i] # Nil
          PROVE  UsedUp(users'[i], spent)
      <3>1. CASE i = u.id
        BY <1>0, <1>6, <1>7, <2>5, <3>1, StorerEffects
      <3>2. CASE i # u.id
        <4>1. users'[i] = users[i]
          BY <1>0, <1>6, <2>5, <3>2, StorerEffects
        <4>2. UsedUp(users[i], spent \ N)
          BY <1>4, <2>7, <4>1 DEF Clean
        <4>3. GetUID(users[i], k) # arg[p].uid
          BY <1>3, <2>6, <2>7, <3>2, <4>1, EmptyIsNoValue
             DEF Owners, Stored, Present, GetUID, ZeroIdentity
        <4> QED BY <4>1, <4>2, <4>3 DEF UsedUp, Named, k
      <3> QED BY <3>1, <3>2
    <2> QED BY <1>0, <1>1, <2>7, ReturnOnce DEF Clean
  <1>9. CASE k \notin OnceKeys
    <2>1. \A w : UsedUp(w, spent \ N) => UsedUp(w, spent)
      BY <1>9 DEF UsedUp, Named, k
    <2>2. Clean(users, spent)
      BY <1>4, <2>1 DEF Clean
    <2>3. Clean(users', spent)
      BY <1>0, <1>1, <1>6, <1>7, <2>2, CleanSteps DEF Save, SaveFails
    <2> QED BY <1>0, <1>1, <2>3, ReturnOnce
  <1> QED BY <1>8, <1>9

\* otpCode and otpAuth.
LEMMA OTPOnce ==
  ASSUME SeqInv, OnceInv, NEW p \in Procs, OTPStep(p)
  PROVE  Once(p)
  <1>0. TypeOK /\ Storer(users)
    BY TypeParts DEF SeqInv
  <1>1. CASE OTPCodeBegin(p)
    BY <1>1, BeginOnce DEF OTPCodeBegin, BeginWithSession, NoArg, FirstLabels
  <1>2. CASE OTPAuthBegin(p)
    BY <1>2, BeginOnce DEF OTPAuthBegin, BeginWithSession, NoArg, FirstLabels
  <1>3. CASE OTPCodeRefuse(p) \/ OTPAuthRefuse(p)
    BY <1>3, RefuseOnce DEF OTPCodeRefuse, OTPAuthRefuse, At
  <1>4. CASE OTPCodePrepare(p)
    BY <1>4, OTPCodeOnce
  <1>5. CASE OTPAuthJoinGuest(p) \/ OTPAuthReplaceGuest(p) \/ OTPAuthLogin(p) \/ OTPAuthLink(p)
    BY <1>5, OTPAuthOnce
  <1>6. CASE OTPAuthRemove(p)
    <2> DEFINE u == loc[p].u
               id == loc[p].removeUserID
    <2>1. /\ pc[p] = "otpAuth.remove" /\ users' = RemoveByID(users, id) /\ UNCHANGED spent
          /\ Continue(p, loc[p], "otpAuth.bind")
      BY <1>6 DEF OTPAuthRemove, At, history
    <2>2. /\ arg[p].key \in OnceKeys => Named(arg[p]) \notin spent
          /\ GetUID(u, arg[p].key) = arg[p].uid
          /\ Sole(users, u, {id})
      BY <2>1 DEF OnceInv, LoginOnce
    <2>3. Sole(users', u, {})
      <3> SUFFICES ASSUME NEW j \in Keys, Present(u, j), NEW i \in Owners(users', j, GetUID(u, j))
                   PROVE  i = u.id
        BY DEF Sole
      <3>1. i \in UserIds /\ users'[i] # Nil /\ i # id /\ users'[i] = users[i]
        BY <1>0, <2>1 DEF Owners, Stored, RemoveByID, Storer
      <3>2. i \in Owners(users, j, GetUID(u, j))
        BY <3>1 DEF Owners, Stored
      <3> QED BY <2>2, <3>1, <3>2 DEF Sole
    <2>4. Clean(users', spent)
      BY <1>0, <2>1, OnceParts, CleanSteps
    <2>5. spent \ Due("otpAuth.bind", arg[p]) = spent /\ spent \ DueInHand("otpAuth.bind", arg[p]) = spent
      BY DEF Due, DueInHand
    <2>6. CodesOnce("otpAuth.bind", arg[p], loc[p], users', spent)
      BY <2>1, <2>4, <2>5, OnceParts DEF CodesOnce, AllRoutes
    <2>7. LoginOnce("otpAuth.bind", arg[p], loc[p], users', spent)
      BY <2>2, <2>3 DEF LoginOnce
    <2> QED BY <1>0, <2>1, <2>6, <2>7, Control DEF Once
  <1>7. CASE OTPAuthBind(p)
    <2> DEFINE u == loc[p].u
               N == {Named(arg[p])}
    <2>1. /\ pc[p] = "otpAuth.bind" /\ UNCHANGED users /\ spent' = spent \cup N
          /\ Continue(p, loc[p], "otpAuth.save")
      BY <1>7 DEF OTPAuthBind, At, Named
    <2>2. GetUID(u, arg[p].key) = arg[p].uid /\ Sole(users, u, {})
      BY <2>1 DEF OnceInv, LoginOnce
    <2>3. spent' \ N \subseteq spent
      BY <2>1
    <2>4. /\ Clean(users, spent' \ N)
          /\ loc[p].User # Nil => UsedUp(loc[p].User, spent' \ N)
          /\ u # Nil => UsedUp(u, spent' \ N)
      BY <1>0, <2>1, <2>3, OnceParts, CleanSteps, RetainOn
    <2>5. Due("otpAuth.save", arg[p]) = N /\ DueInHand("otpAuth.save", arg[p]) = N
      BY DEF Due, DueInHand
    <2>6. CodesOnce("otpAuth.save", arg[p], loc[p], users, spent')
      BY <2>1, <2>4, <2>5, OnceParts DEF CodesOnce, AllRoutes
    <2>7. LoginOnce("otpAuth.save", arg[p], loc[p], users, spent')
      BY <2>2 DEF LoginOnce
    <2> QED BY <1>0, <2>1, <2>6, <2>7, Control DEF Once
  <1>8. CASE OTPAuthSave(p)
    BY <1>8, OTPSaveOnce
  <1> QED BY <1>1, <1>2, <1>3, <1>4, <1>5, <1>6, <1>7, <1>8 DEF OTPStep

\* The step that takes a recovery code is recoveryHandler's.
LEMMA OnlyRecovery ==
  ASSUME NEW p \in Procs, At(p, "recovery"), Step(p)
  PROVE  CodeStep(p)
  <1>1. ~Shared(p) /\ ~ProfileStep(p)
    BY DEF Shared, GetUserID, LoadUser, SaveAndReturn, RemoveGuest,
           ProfileStep, ProfileBegin, ProfileRefuse, UpdateProfile, BeginWithSession, Begin, At
  <1>2. ~SessionStep(p)
    BY DEF SessionStep, AuthBegin, AuthLoadSession, AuthLoadUser, AuthUnbind, AuthCreateGuest,
           AuthNoGuest, CreateGuestUser, BindGuest, SignOutBegin, SignOutUnbind,
           SignOutRemoveGuest, BeginWithSession, Begin, At
  <1>3. ~PasswordStep(p)
    BY DEF PasswordStep, SignUpBegin, SignUpRefuse, SignUpTakeOver, SignUpRemoveTemp,
           SignUpNotFound, SignUpSave, SignUpBind, SignInBegin, SignInRefuse, SignInLoad,
           SignInBind, SignInSave, BeginWithSession, Begin, At
  <1>4. ~LinkStep(p)
    BY DEF LinkStep, MiddlewareUserID, UserMiddleware, InitLinkBegin, InitLinkRefuse,
           InitLinkPrepare, LinkBegin, LinkRefuse, LinkLoad, LinkSave, LinkAccountRefuse,
           LinkAccountRemove, BeginLinkRoute, Begin, At
  <1>5. ~OTPStep(p)
    BY DEF OTPStep, OTPCodeBegin, OTPCodeRefuse, OTPCodePrepare, OTPAuthBegin, OTPAuthRefuse,
           OTPAuthJoinGuest, OTPAuthReplaceGuest, OTPAuthLogin, OTPAuthLink, OTPAuthRemove,
           OTPAuthBind, OTPAuthSave, BeginWithSession, Begin, At
  <1>6. ~SocialStep(p)
    BY DEF SocialStep, SocialBegin, SocialRefuse, SocialLoad, SocialSave, SocialBind,
           BeginWithSession, Begin, At
  <1> QED BY <1>1, <1>2, <1>3, <1>4, <1>5, <1>6 DEF Step

\* Every step of a request,
LEMMA StepOnce ==
  ASSUME SeqInv, OnceInv, NEW p \in Procs, Step(p)
  PROVE  /\ Once(p)
         /\ At(p, "recovery") /\ pc'[p] = "save" => Named(arg[p]) \notin spent
  <1>1. Once(p)
    BY SharedOnce, SessionOnce, PasswordOnce, CodeOnce, LinkOnce, OTPOnce, SocialOnce, ProfileOnce
       DEF Step
  <1>2. At(p, "recovery") /\ pc'[p] = "save" => Named(arg[p]) \notin spent
    BY CodeOnce, OnlyRecovery
  <1> QED BY <1>1, <1>2

\* and time: what has been used up gets no older.
LEMMA TickOnce ==
  ASSUME SeqInv, OnceInv, Tick, NEW p \in Procs
  PROVE  Once(p)
  <1>0. TypeOK /\ Storer(users) /\ loc[p] \in Locals
    BY TypeParts, RequestFacts DEF SeqInv
  <1>1. pc' = pc /\ arg' = arg /\ spent' = spent
    BY DEF Tick, history
  <1> DEFINE label == pc[p]
             a == arg[p]
             l == loc[p]
             m == loc'[p]
  <1>2. /\ CodesOnce(label, a, l, users, spent)
        /\ LoginOnce(label, a, l, users, spent)
    BY DEF OnceInv
  <1>3. /\ m.User = AgedOrNil(l.User) /\ m.u = AgedOrNil(l.u)
        /\ m.removeUserID = l.removeUserID
        /\ l.User \in User \cup {Nil} /\ l.u \in User \cup {Nil}
    BY <1>0 DEF Tick, Locals
  <1>4. \A i \in UserIds : \/ users[i] = Nil /\ users'[i] = Nil
                           \/ users[i] \in User /\ users'[i] = Aged(users[i])
    BY <1>0 DEF Tick, Storer, AgedOrNil
  <1>5. /\ l.User # Nil => l.User \in User /\ m.User = Aged(l.User) /\ m.User # Nil
        /\ l.User = Nil => m.User = Nil
        /\ l.u # Nil => l.u \in User /\ m.u = Aged(l.u) /\ m.u # Nil
        /\ l.u = Nil => m.u = Nil
    BY <1>3, AgedFacts DEF AgedOrNil
  \* Age is no part of a code.
  <1>6. ASSUME NEW v \in User, NEW k \in Keys
        PROVE  Secret(Aged(v), k) = Secret(v, k) /\ GetUID(Aged(v), k) = GetUID(v, k)
    <2>1. PICK t : Aged(v).auths[k] = [v.auths[k] EXCEPT !.sentAt = t]
      BY DEF Aged, User
    <2>2. v.auths[k] \in Identity
      BY DEF User
    <2>3. /\ Aged(v).auths[k].password = v.auths[k].password
          /\ Aged(v).auths[k].recoveryCode = v.auths[k].recoveryCode
      BY <2>1, <2>2 DEF Identity
    <2> QED BY <2>3, AgedFacts DEF Secret
  <1>7. \A v \in User : \A S : UsedUp(v, S) => UsedUp(Aged(v), S)
    BY <1>6 DEF UsedUp, OnceKeys, Keys
  <1>8. \A S : Clean(users, S) => Clean(users', S)
    BY <1>4, <1>7, UserFacts DEF Clean
  <1>9. \A k \in Keys : \A uid : Owners(users', k, uid) \subseteq Owners(users, k, uid)
    BY <1>4, AgedType, UserFacts DEF Owners, Stored
  <1>10. \A v \in User : \A X : Sole(users, v, X) => Sole(users', Aged(v), X)
    BY <1>9, AgedType DEF Sole
  <1>11. /\ label = "save" /\ a.op = "recovery" => a.key \in Keys /\ l.u \in User /\ l.u # Nil
         /\ label \in {"otpAuth.remove", "otpAuth.bind", "otpAuth.save"}
              => a.key \in Keys /\ l.u \in User /\ l.u # Nil
    BY <1>0, LabelFacts, KeyFacts, UserFacts DEF OnRoute, HoldsUser
  <1>12. CodesOnce(label, a, m, users', spent)
    <2>1. /\ Clean(users', spent \ Due(label, a))
          /\ m.User # Nil => UsedUp(m.User, spent \ Due(label, a))
          /\ m.u # Nil => UsedUp(m.u, spent \ DueInHand(label, a))
      BY <1>2, <1>5, <1>7, <1>8 DEF CodesOnce
    <2>2. label \in AllRoutes /\ m.User # Nil => users'[m.User.id] = m.User
      <3> SUFFICES ASSUME label \in AllRoutes, m.User # Nil
                   PROVE  users'[m.User.id] = m.User
        OBVIOUS
      <3>1. l.User # Nil /\ l.User \in User /\ m.User = Aged(l.User)
        BY <1>5
      <3>2. users[l.User.id] = l.User
        BY <1>2, <3>1 DEF CodesOnce
      <3>3. users'[l.User.id] = Aged(l.User)
        BY <1>4, <3>1, <3>2, UserFacts
      <3> QED BY <3>1, <3>3, AgedFacts
    <2>3. label = "save" /\ a.op = "recovery"
            => GetUID(m.u, a.key) = a.uid /\ Secret(m.u, a.key) = Empty
      BY <1>2, <1>5, <1>6, <1>11 DEF CodesOnce
    <2> HIDE DEF label, a, m
    <2> QED BY <1>2, <2>1, <2>2, <2>3 DEF CodesOnce
  <1>13. LoginOnce(label, a, m, users', spent)
    <2>1. label \in {"otpAuth.remove", "otpAuth.bind", "otpAuth.save"}
            => l.u \in User /\ m.u = Aged(l.u) /\ GetUID(m.u, a.key) = GetUID(l.u, a.key)
      BY <1>5, <1>6, <1>11
    <2> HIDE DEF label, a, m
    <2> QED BY <1>2, <1>3, <1>10, <2>1 DEF LoginOnce
  <1> QED BY <1>1, <1>12, <1>13 DEF Once

\* At the start there are no codes.
LEMMA InitOnce == Init => OnceInv
  <1> SUFFICES ASSUME Init PROVE OnceInv
    OBVIOUS
  <1>1. NoLoc.User = Nil /\ NoLoc.u = Nil
    BY DEF NoLoc
  <1>2. \A S : Clean(users, S)
    BY DEF Init, Clean
  <1>3. \A S : CodesOnce("idle", NoArg, NoLoc, users, S) /\ LoginOnce("idle", NoArg, NoLoc, users, S)
    BY <1>1, <1>2 DEF CodesOnce, LoginOnce, AllRoutes
  <1> QED BY <1>3 DEF Init, OnceInv

\* One request at a time, every step keeps the invariant.
LEMMA NextOnce ==
  ASSUME OneAtATime, SeqInv, OnceInv, [Next]_vars
  PROVE  /\ OnceInv'
         /\ \A p \in Procs : At(p, "recovery") /\ pc'[p] = "save" => Named(arg[p]) \notin spent
  <1>1. CASE Tick
    <2>1. \A p \in Procs : Once(p)
      BY <1>1, TickOnce
    <2>2. \A p \in Procs : ~(At(p, "recovery") /\ pc'[p] = "save")
      BY <1>1 DEF Tick, At
    <2> QED BY <2>1, <2>2 DEF OnceInv, Once
  <1>2. ASSUME NEW p \in Procs, Step(p)
        PROVE  /\ OnceInv'
               /\ \A q \in Procs : At(q, "recovery") /\ pc'[q] = "save" => Named(arg[q]) \notin spent
    <2>1. Once(p) /\ (At(p, "recovery") /\ pc'[p] = "save" => Named(arg[p]) \notin spent)
      BY <1>2, StepOnce
    <2> QED BY <2>1 DEF OneAtATime, OnceInv, Once
  <1>3. CASE UNCHANGED vars
    BY <1>3 DEF vars, OnceInv, CodesOnce, LoginOnce, Clean, Sole, At
  <1> QED BY <1>1, <1>2, <1>3 DEF Next

----------------------------------------------------------------------------
(* The theorems about codes.                                               *)

\* A recovery code is traded for one new password: the user saved with it has
\* lost the code, and so has everything stored under the identity.
THEOREM RecoveryCodesOnce == OneAtATime => (Spec => RecoveryUsedOnce)
  <1> DEFINE A == \A p \in Procs :
                    At(p, "recovery") /\ pc'[p] = "save"
                      => <<arg[p].key, arg[p].uid>> \notin spent
  <1> SUFFICES ASSUME OneAtATime PROVE Spec => [][A]_vars
    BY DEF RecoveryUsedOnce
  <1>1. Init => SeqInv /\ OnceInv
    BY InitAlone, InitOnce
  <1>2. SeqInv /\ OnceInv /\ [Next]_vars => SeqInv' /\ OnceInv' /\ A
    BY NextAlone, NextOnce DEF Named
  <1> QED BY <1>1, <1>2, PTL DEF Spec

\* A one-time password logs in once, as long as no Save fails: otpAuth keeps
\* no code only if the Save at its end is made.
THEOREM OTPsOnce == OneAtATime /\ ~SaveMayFail => (Spec => OTPUsedOnce)
  <1> DEFINE A == \A p \in Procs :
                    At(p, "otpAuth.bind") /\ pc'[p] # pc[p]
                      => <<arg[p].key, arg[p].uid>> \notin spent
  <1> SUFFICES ASSUME OneAtATime, ~SaveMayFail PROVE Spec => [][A]_vars
    BY DEF OTPUsedOnce
  <1>1. Init => SeqInv /\ OnceInv
    BY InitAlone, InitOnce
  <1>2. SeqInv /\ OnceInv => A
    <2> SUFFICES ASSUME SeqInv, OnceInv, NEW p \in Procs, At(p, "otpAuth.bind")
                 PROVE  Named(arg[p]) \notin spent
      BY DEF Named
    <2>1. arg[p].key \in OTPKeys
      <3>1. TypeOK
        BY DEF SeqInv
      <3>2. arg[p].op = "otpAuth"
        BY <3>1, LabelFacts DEF At, OnRoute
      <3> QED BY <3>1, <3>2, KeyFacts DEF At
    <2> QED BY <2>1 DEF OnceInv, LoginOnce, OnceKeys, At
  <1>3. SeqInv /\ OnceInv /\ [Next]_vars => SeqInv' /\ OnceInv'
    BY NextAlone, NextOnce
  <1> QED BY <1>1, <1>2, <1>3, PTL DEF Spec
=============================================================================
